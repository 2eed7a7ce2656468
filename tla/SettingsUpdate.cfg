CONSTANTS
  Profiles = {p1, p2}
  Hosts = {h1, h2}
  None = None
SPECIFICATION Spec
INVARIANTS SecretsMatchFile
PROPERTIES UpdatePromise
