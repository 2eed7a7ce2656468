----------------------------- MODULE MCDesktop ------------------------------
(***************************************************************************)
(* The values that Desktop is checked for.                                 *)
(***************************************************************************)
EXTENDS Desktop

CONSTANTS A, B, C, D

(* Two copies of remote files, the first of them cut; or a copy of local    *)
(* files that is cut and one of remote files, whose staging may fail while  *)
(* another program copies something.                                        *)
Copies ==
  {[tokens |-> {1, 2}, foreign |-> 0, faults |-> 0],
   [tokens |-> {0, 2}, foreign |-> 1, faults |-> 1]}

(* Two images on Windows; before macOS 27 an image that others eject, and a *)
(* file that is none; from then on an image of two calls with one buffer.   *)
PathsOf ==
  [s \in diSystems |-> CASE s = "windows" -> {A, B} [] s = "hdiutil" -> {A, C} [] OTHER -> {A}]
OutsideOf == [s \in diSystems |-> IF s = "hdiutil" THEN 1 ELSE 0]

(* A search and a scan of sizes, or two batches of status while the files   *)
(* change.                                                                  *)
ScanMixes ==
  {[walks |-> {A, B}, changes |-> 0], [walks |-> {C, D}, changes |-> 1]}

(* Two preparations of one file, one of them to open it; or one preparation *)
(* of a file that arrives in two steps.                                     *)
CloudMixes ==
  {[ops |-> {A, B}, sizes |-> {1}], [ops |-> {A}, sizes |-> {2}]}
=============================================================================
