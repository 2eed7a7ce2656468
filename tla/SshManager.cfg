CONSTANTS
  Threads = {t1, t2}
  Hosts = {h1, h2}
  MaxConns = 2
  None = None
SYMMETRY Symmetry
SPECIFICATION Spec
INVARIANTS StoreMatchesSettings SecretsMatchHost RegisteredMatchesSettings NewestRegistered
