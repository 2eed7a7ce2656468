---------------------------- MODULE MCSshManager ----------------------------
(* Small instances of SshManager for TLC.                                  *)
EXTENDS SshManager, TLC

Symmetry == Permutations(Threads) \cup Permutations(Hosts)
=============================================================================
