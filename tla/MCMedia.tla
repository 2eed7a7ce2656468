------------------------------ MODULE MCMedia -------------------------------
(***************************************************************************)
(* The values that Media is checked for.                                   *)
(***************************************************************************)
EXTENDS Media

CONSTANTS A, B

\* Three commands of which none waits in vain, or two of which one does.
PlayerBounds == ((0..3) \X {0}) \cup ((0..2) \X {1})

\* Three requests, or two and a write or a lookup that fails or comes late.
ControlBounds == ((0..3) \X {0}) \cup ((0..2) \X {1})

\* A player that is opened and shown by two commands, or by one while the
\* cover is asked for, or three commands to the cover alone.
ViewBounds == ({1} \X (0..2) \X {0}) \cup ({1} \X (0..1) \X (0..1)) \cup ({0} \X {0} \X (0..3))

=============================================================================
