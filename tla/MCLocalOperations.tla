------------------------- MODULE MCLocalOperations -------------------------
(***************************************************************************)
(* An instance of LocalOperations for TLC: a folder with a file, a folder  *)
(* that holds a file, a file that another program may add, and a link.     *)
(***************************************************************************)
EXTENDS LocalOperations

\*  1 +-- 2
\*    +-- 3 --- 4
\*    +-- 5 (may come later)
\*    +-- 6 (a link)
MCParent == [e \in 2..6 |-> IF e = 4 THEN 3 ELSE 1]
=============================================================================
