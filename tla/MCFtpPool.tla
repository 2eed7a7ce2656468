----------------------------- MODULE MCFtpPool -----------------------------
(* Small instances of FtpPool for TLC.                                     *)
EXTENDS FtpPool, TLC

Symmetry == Permutations(Workers) \cup Permutations(Sessions)
=============================================================================
