---------------------------- MODULE MCRemoteCopy ----------------------------
(***************************************************************************)
(* Instances of RemoteCopy for TLC: a folder with a file, a folder that    *)
(* holds a file, and a last file; each kind of place as source and as      *)
(* target.                                                                 *)
(***************************************************************************)
EXTENDS RemoteCopy

\*  1 +-- 2
\*    +-- 3 --- 4
\*    +-- 5
MCParent == [e \in 2..5 |-> IF e = 4 THEN 3 ELSE 1]

Routes == {<<"local", "sftp">>, <<"local", "ftp">>, <<"sftp", "local">>,
           <<"ftp", "local">>, <<"sftp", "ftp">>, <<"ftp", "sftp">>}

Requests(actions, routes) ==
  {[action |-> a, from |-> r[1], to |-> r[2]] : a \in actions, r \in routes}

StreamJobs == Requests({"copy", "move"}, Routes)

(* Operations within one connection.                                       *)
InPlaceJobs ==
  Requests({"delete", "rename", "create-file", "create-folder"},
           {<<"sftp", "sftp">>, <<"ftp", "ftp">>})

AllJobs == StreamJobs \cup InPlaceJobs
=============================================================================
