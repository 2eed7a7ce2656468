----------------------- MODULE LocalOperations_proofs -----------------------
(* Proofs about LocalOperations for every tree and every set of jobs.      *)
EXTENDS LocalOperations, WellFoundedInduction, TLAPS

Copying == {"prepare", "copy", "write"}

(* Which action is where, and what it has reported there.                  *)
ControlOK ==
  /\ pc \notin {"undo", "ended"} <=> outcome = "none"
  /\ pc = "undo"    => action \in {"copy", "move", "link"} /\ outcome = "error"
  /\ pc \in Copying => action \in {"copy", "move"}
  /\ pc = "remove"  => action = "move"
  /\ pc = "rename"  => action \in {"rename", "move"}
  /\ pc = "create"  => action = "create"
  /\ pc = "check"   => action \notin {"create", "delete"}
  /\ pc = "link"    => action = "link"
  /\ pc = "delete"  => action = "delete"
  /\ pc = "write"   => at \in listed \ (Folders \cup Links)
  /\ "removal" \in failed => action = "move" /\ pc \in {"undo", "ended"}
                             /\ outcome \in {"error", "died"}

(* What was there before is refused by the check.                          *)
TakenOK ==
  taken => /\ dest[1] = "foreign"
           /\ pc \in {"begin", "create", "check", "delete", "ended"}

(* An entry that the source has all the time is read with its folder.      *)
ListingOK ==
  /\ pc \in {"begin", "check", "rename", "prepare"} => at = 1
  /\ pc \in {"begin", "check", "rename", "prepare", "copy", "write"}
     => /\ 1 \in listed
        /\ \A e \in Steady \ {1} : Parent[e] < at => e \in listed

(* Everything before `at` is copied.                                       *)
CopiedOK ==
  pc \in {"copy", "write"} => \A e \in Steady : e < at => dest[e] = "whole"

(* Everything is copied when the removal of the source starts.             *)
DoneOK == pc = "remove" => \A e \in Steady : dest[e] = "whole"

(* The source is whole until its removal starts, and after an error before.*)
SourceOK ==
  \/ action \in {"create", "copy", "link"}
  \/ pc \notin {"remove", "delete", "undo", "ended"}
  \/ action # "delete" /\ outcome = "error" /\ "removal" \notin failed
  => Steady \subseteq source

(* An entry of the source has its folder there.                            *)
SourceTree == \A e \in source \ {1} : Parent[e] \in source

IInv ==
  /\ TypeOK /\ ControlOK /\ TakenOK /\ ListingOK /\ CopiedOK /\ DoneOK
  /\ SourceOK /\ SourceTree /\ MoveKeepsData /\ ReportIsTrue

-----------------------------------------------------------------------------
(* Facts about the tree.                                                   *)

LEMMA TreeFacts ==
  /\ 1 \in Entries /\ 1 \notin Later /\ Entries \subseteq Nat
  /\ \A e \in Entries \ {1} :
       /\ e \in 2..N /\ Parent[e] \in Entries /\ Parent[e] \in Folders
       /\ Parent[e] < e
       /\ Parent[e] \in Later => e \in Later
  /\ \A e \in Entries : e + 1 \in 1..(N + 1) /\ e + 1 # 1
<1>1. N \in Nat \ {0} /\ Entries = 1..N
  BY LocalAssumption DEF Entries
<1>2. 1 \in Entries /\ 1 \notin Later /\ Entries \subseteq Nat
  BY <1>1, LocalAssumption
<1>3. ASSUME NEW e \in Entries \ {1}
      PROVE  /\ e \in 2..N /\ Parent[e] \in Entries /\ Parent[e] \in Folders
             /\ Parent[e] < e
             /\ Parent[e] \in Later => e \in Later
  <2>1. e \in 2..N
    BY <1>1
  <2>2. Parent[e] \in Folders /\ Folders \subseteq Entries /\ Parent[e] < e
    BY <2>1, LocalAssumption
  <2> QED BY <2>1, <2>2, LocalAssumption DEF Closed
<1>4. \A e \in Entries : e + 1 \in 1..(N + 1) /\ e + 1 # 1
  BY <1>1
<1> QED BY <1>2, <1>3, <1>4

(* A set of numbers has a least one.                                       *)
LEMMA LeastEntry ==
  ASSUME NEW S, S \subseteq Entries, S # {}
  PROVE  \E m \in S : \A k \in S : ~(k < m)
<1> DEFINE R == OpToRel(<, Nat)
<1>1. IsWellFoundedOn(R, Nat)
  BY NatLessThanWellFounded
<1>2. \A x, y \in Nat : x < y => <<x, y>> \in R
  BY DEF OpToRel
<1>3. S \subseteq Nat
  BY TreeFacts
<1> HIDE DEF R
<1>4. PICK m \in S : \A k \in S : ~(<<k, m>> \in R)
  BY <1>1, <1>3, WFMin, Zenon
<1> QED BY <1>2, <1>3, <1>4, Zenon

(* A set of entries that has the folder of each, but nothing directly in   *)
(* the first entry, has the first entry alone.                             *)
LEMMA OnlyTop ==
  ASSUME NEW S, S \subseteq Entries,
         \A e \in S \ {1} : Parent[e] \in S,
         \A e \in S \ {1} : Parent[e] # 1
  PROVE  S \subseteq {1}
<1> SUFFICES ASSUME S \ {1} # {} PROVE FALSE
  OBVIOUS
<1>1. PICK m \in S \ {1} : \A k \in S \ {1} : ~(k < m)
  BY LeastEntry, S \ {1} \subseteq Entries
<1>2. Parent[m] < m
  BY TreeFacts
<1> QED BY <1>1, <1>2

LEMMA InitHolds == Init => IInv
<1> SUFFICES ASSUME Init PROVE IInv
  OBVIOUS
<1> USE LocalAssumption, TreeFacts DEF Init, Entries
<1>1. TypeOK
  <2>1. dest \in [Entries -> {"absent", "partial", "whole", "foreign"}]
    OBVIOUS
  <2>2. at \in 1..(N + 1) /\ listed \subseteq Entries
    OBVIOUS
  <2> QED BY <2>1, <2>2 DEF TypeOK, Pcs
<1>2. ControlOK /\ TakenOK /\ ListingOK
  <2>1. \A e \in Steady \ {1} : ~(Parent[e] < 1)
    BY DEF Steady
  <2> QED BY <2>1 DEF ControlOK, TakenOK, ListingOK, Copying
<1>3. CopiedOK /\ DoneOK /\ SourceOK
  BY DEF CopiedOK, DoneOK, SourceOK, Steady
<1>4. SourceTree /\ MoveKeepsData /\ ReportIsTrue
  BY DEF MoveKeepsData, ReportIsTrue, Kept, Steady, SourceTree
<1> QED BY <1>1, <1>2, <1>3, <1>4 DEF IInv

(* Each step keeps the types.                                              *)
LEMMA TypeStep ==
  TypeOK /\ ControlOK /\ [Next]_vars => TypeOK'
<1> SUFFICES ASSUME TypeOK, ControlOK, [Next]_vars PROVE TypeOK'
  OBVIOUS
<1> USE LocalAssumption DEF TypeOK, Pcs, Entries, Goes, Ends, Fails, FailsInto
<1>1. ASSUME Begin \/ Create \/ Check \/ Link PROVE TypeOK'
  BY <1>1 DEF Begin, First, Create, Check, ChecksFor, Link
<1>2. ASSUME Rename \/ CrossesDevices \/ RenameFails PROVE TypeOK'
  BY <1>2 DEF Rename, CrossesDevices, RenameFails
<1>3. ASSUME Prepare \/ OpenFile \/ CopyFails \/ CopyDone PROVE TypeOK'
  BY <1>3 DEF Prepare, OpenFile, CopyFails, CopyFailsInto, CopyDone,
      CopyDoneWhen
<1>4. ASSUME SeeLate \/ Skip PROVE TypeOK'
  <2>1. at \in Entries => at + 1 \in 1..(N + 1)
    BY TreeFacts
  <2> QED BY <1>4, <2>1 DEF SeeLate, Skip, Skips
<1>5. ASSUME MakeFolder \/ MakeLink \/ WriteFile PROVE TypeOK'
  <2>1. at + 1 \in 1..(N + 1) /\ at \in Entries
    BY <1>5, TreeFacts DEF MakeFolder, MakeLink, WriteFile, ControlOK
  <2>2. [dest EXCEPT ![at] = "whole"] \in
          [Entries -> {"absent", "partial", "whole", "foreign"}]
    OBVIOUS
  <2>3. listed \cup Children(at) \subseteq Entries
    BY DEF Children
  <2> QED BY <1>5, <2>1, <2>2, <2>3 DEF MakeFolder, MakeLink, WriteFile, Made
<1>6. ASSUME RemoveSource \/ RemovalFails PROVE TypeOK'
  BY <1>6 DEF RemoveSource, RemovalFails
<1>7. ASSUME UndoEntry \/ UndoEnds PROVE TypeOK'
  BY <1>7 DEF UndoEntry, UndoEnds
<1>8. ASSUME DeleteStep PROVE TypeOK'
  BY <1>8 DEF DeleteStep, DeleteEnter, DeleteEntry, DeleteFails, Poppable,
      IsTop, Children
<1>9. ASSUME StopRequested \/ Killed PROVE TypeOK'
  BY <1>9 DEF StopRequested, Killed
<1>10. ASSUME NEW e \in Entries, ForeignCreates(e) \/ SourceGains(e)
       PROVE TypeOK'
  BY <1>10 DEF ForeignCreates, SourceGains
<1>11. ASSUME UNCHANGED vars PROVE TypeOK'
  BY <1>11 DEF vars
<1> QED
  BY <1>1, <1>2, <1>3, <1>4, <1>5, <1>6, <1>7, <1>8, <1>9, <1>10, <1>11
    DEF Next, CopyStep, RemoveStep, Ended

(* Each step keeps the control.                                            *)
LEMMA ControlStep ==
  TypeOK /\ ControlOK /\ [Next]_vars => ControlOK'
<1> SUFFICES ASSUME TypeOK, ControlOK, [Next]_vars PROVE ControlOK'
  OBVIOUS
<1> USE LocalAssumption DEF TypeOK, ControlOK, Copying, Entries, Goes, Ends,
    Fails, FailsInto
<1>1. ASSUME Begin \/ Create \/ Check \/ Link PROVE ControlOK'
  <2>1. CASE Begin
    BY <2>1 DEF Begin, First
  <2>2. CASE Create \/ Link
    BY <2>2 DEF Create, Link
  <2>3. CASE Check
    <3>1. CASE UNCHANGED outcome
      <4>0. action \in {"rename", "move", "link", "copy"}
        BY <2>3, LocalAssumption DEF Check, ChecksFor, Actions
      <4>1. \/ action \in {"rename", "move"} /\ pc' = "rename"
            \/ action = "link" /\ pc' = "link"
            \/ action = "copy" /\ pc' = "prepare"
        <5>1. CASE action \in {"rename", "move"}
          BY <2>3, <3>1, <5>1 DEF Check, ChecksFor
        <5>2. CASE action = "link"
          BY <2>3, <3>1, <5>2 DEF Check, ChecksFor
        <5>3. CASE action = "copy"
          BY <2>3, <3>1, <5>3 DEF Check, ChecksFor
        <5> QED BY <4>0, <5>1, <5>2, <5>3
      <4> QED BY <2>3, <3>1, <4>1 DEF Check, ChecksFor
    <3>2. CASE outcome' # outcome
      BY <2>3, <3>2 DEF Check, ChecksFor
    <3> QED BY <3>1, <3>2
  <2> QED BY <1>1, <2>1, <2>2, <2>3
<1>2. ASSUME Rename \/ CrossesDevices \/ RenameFails PROVE ControlOK'
  BY <1>2 DEF Rename, CrossesDevices, RenameFails
<1>3. ASSUME Prepare \/ OpenFile \/ CopyFails \/ CopyDone PROVE ControlOK'
  BY <1>3 DEF Prepare, OpenFile, CopyFails, CopyFailsInto, CopyDone,
      CopyDoneWhen
<1>4. ASSUME SeeLate \/ Skip PROVE ControlOK'
  BY <1>4 DEF SeeLate, Skip, Skips
<1>5. ASSUME MakeFolder \/ MakeLink \/ WriteFile PROVE ControlOK'
  BY <1>5 DEF MakeFolder, MakeLink, WriteFile, Made
<1>6. ASSUME RemoveSource \/ RemovalFails PROVE ControlOK'
  BY <1>6 DEF RemoveSource, RemovalFails
<1>7. ASSUME UndoEntry \/ UndoEnds PROVE ControlOK'
  BY <1>7 DEF UndoEntry, UndoEnds
<1>8. ASSUME DeleteStep PROVE ControlOK'
  BY <1>8 DEF DeleteStep, DeleteEnter, DeleteEntry, DeleteFails
<1>9. ASSUME StopRequested \/ Killed PROVE ControlOK'
  BY <1>9 DEF StopRequested, Killed
<1>10. ASSUME NEW e \in Entries, ForeignCreates(e) \/ SourceGains(e)
       PROVE ControlOK'
  BY <1>10 DEF ForeignCreates, SourceGains
<1>11. ASSUME UNCHANGED vars PROVE ControlOK'
  BY <1>11 DEF vars
<1> QED
  BY <1>1, <1>2, <1>3, <1>4, <1>5, <1>6, <1>7, <1>8, <1>9, <1>10, <1>11
    DEF Next, CopyStep, RemoveStep, Ended

(* What existed before is left alone.                                      *)
LEMMA TakenStep ==
  TypeOK /\ ControlOK /\ TakenOK /\ [Next]_vars => TakenOK'
<1> SUFFICES ASSUME TypeOK, ControlOK, TakenOK, [Next]_vars PROVE TakenOK'
  OBVIOUS
<1> USE LocalAssumption DEF TypeOK, ControlOK, TakenOK, Copying, Entries, Goes,
    Ends, Fails, FailsInto
<1>1. ASSUME Begin \/ Create \/ Check \/ Link PROVE TakenOK'
  BY <1>1 DEF Begin, First, Create, Check, ChecksFor, Link
<1>2. ASSUME Rename \/ CrossesDevices \/ RenameFails PROVE TakenOK'
  BY <1>2 DEF Rename, CrossesDevices, RenameFails
<1>3. ASSUME Prepare \/ OpenFile \/ CopyFails \/ CopyDone PROVE TakenOK'
  BY <1>3 DEF Prepare, OpenFile, CopyFails, CopyFailsInto, CopyDone,
      CopyDoneWhen
<1>4. ASSUME SeeLate \/ Skip PROVE TakenOK'
  BY <1>4 DEF SeeLate, Skip, Skips
<1>5. ASSUME MakeFolder \/ MakeLink \/ WriteFile PROVE TakenOK'
  BY <1>5 DEF MakeFolder, MakeLink, WriteFile, Made
<1>6. ASSUME RemoveSource \/ RemovalFails PROVE TakenOK'
  BY <1>6 DEF RemoveSource, RemovalFails
<1>7. ASSUME UndoEntry \/ UndoEnds PROVE TakenOK'
  BY <1>7 DEF UndoEntry, UndoEnds
<1>8. ASSUME DeleteStep PROVE TakenOK'
  BY <1>8 DEF DeleteStep, DeleteEnter, DeleteEntry, DeleteFails
<1>9. ASSUME StopRequested \/ Killed PROVE TakenOK'
  BY <1>9 DEF StopRequested, Killed
<1>10. ASSUME NEW e \in Entries, ForeignCreates(e) \/ SourceGains(e)
       PROVE TakenOK'
  <2>1. UNCHANGED <<taken, pc>>
        /\ (dest[1] = "foreign" => dest'[1] = "foreign")
    BY <1>10, TreeFacts DEF ForeignCreates, SourceGains
  <2> QED BY <2>1
<1>11. ASSUME UNCHANGED vars PROVE TakenOK'
  BY <1>11 DEF vars
<1> QED
  BY <1>1, <1>2, <1>3, <1>4, <1>5, <1>6, <1>7, <1>8, <1>9, <1>10, <1>11
    DEF Next, CopyStep, RemoveStep, Ended

(* Entries of a folder that is copied are read.                            *)
LEMMA ListingStep ==
  TypeOK /\ ControlOK /\ ListingOK /\ SourceOK /\ [Next]_vars => ListingOK'
<1> SUFFICES ASSUME TypeOK, ControlOK, ListingOK, SourceOK, [Next]_vars
             PROVE ListingOK'
  OBVIOUS
<1> USE LocalAssumption DEF TypeOK, ControlOK, ListingOK, SourceOK, Copying,
    Entries, Steady, Goes, Ends, Fails, FailsInto
<1>1. ASSUME Begin \/ Create \/ Check \/ Link PROVE ListingOK'
  BY <1>1 DEF Begin, First, Create, Check, ChecksFor, Link
<1>2. ASSUME Rename \/ CrossesDevices \/ RenameFails PROVE ListingOK'
  BY <1>2 DEF Rename, CrossesDevices, RenameFails
<1>3. ASSUME Prepare \/ OpenFile \/ CopyFails \/ CopyDone PROVE ListingOK'
  BY <1>3 DEF Prepare, OpenFile, CopyFails, CopyFailsInto, CopyDone,
      CopyDoneWhen
<1>4. ASSUME SeeLate \/ Skip PROVE ListingOK'
  <2>1. CASE SeeLate
    BY <2>1 DEF SeeLate
  <2>2. CASE Skip
    <3>1. at \in Entries \ listed /\ at' = at + 1 /\ pc = "copy"
      /\ pc' = "copy"
          /\ listed' = listed
      BY <2>2 DEF Skip, Skips
    <3>2. at \in Later
      BY <3>1, TreeFacts
    <3>3. ASSUME NEW e \in Steady \ {1}, Parent[e] < at + 1
          PROVE Parent[e] < at
      BY <3>2, <3>3, TreeFacts
    <3> QED BY <3>1, <3>3
  <2> QED BY <1>4, <2>1, <2>2
<1>5. ASSUME MakeFolder \/ MakeLink \/ WriteFile PROVE ListingOK'
  <2>1. at \in Entries /\ at \in listed /\ at' = at + 1 /\ source' = source
        /\ pc \in {"copy", "write"} /\ pc' = "copy" /\ listed \subseteq listed'
        /\ (at \in Folders => listed' = listed \cup Children(at))
    <3>1. CASE MakeFolder
      BY <3>1 DEF MakeFolder, Made
    <3>2. CASE MakeLink \/ WriteFile
      BY <3>2 DEF MakeLink, WriteFile, Made
    <3> QED BY <1>5, <3>1, <3>2
  <2>2. ASSUME NEW e \in Steady \ {1}, Parent[e] < at + 1 PROVE e \in listed'
    <3>1. CASE Parent[e] < at
      BY <2>1, <3>1
    <3>2. CASE Parent[e] = at
      BY <2>1, <3>2, TreeFacts DEF Children
    <3> QED BY <2>2, <3>1, <3>2, TreeFacts
  <2> QED BY <2>1, <2>2
<1>6. ASSUME RemoveSource \/ RemovalFails PROVE ListingOK'
  BY <1>6 DEF RemoveSource, RemovalFails
<1>7. ASSUME UndoEntry \/ UndoEnds PROVE ListingOK'
  BY <1>7 DEF UndoEntry, UndoEnds
<1>8. ASSUME DeleteStep PROVE ListingOK'
  BY <1>8 DEF DeleteStep, DeleteEnter, DeleteEntry, DeleteFails
<1>9. ASSUME StopRequested \/ Killed PROVE ListingOK'
  BY <1>9 DEF StopRequested, Killed
<1>10. ASSUME NEW e \in Entries, ForeignCreates(e) \/ SourceGains(e)
       PROVE ListingOK'
  BY <1>10 DEF ForeignCreates, SourceGains
<1>11. ASSUME UNCHANGED vars PROVE ListingOK'
  BY <1>11 DEF vars
<1> QED
  BY <1>1, <1>2, <1>3, <1>4, <1>5, <1>6, <1>7, <1>8, <1>9, <1>10, <1>11
    DEF Next, CopyStep, RemoveStep, Ended

(* What is dealt with is copied.                                           *)
LEMMA CopiedStep ==
  TypeOK /\ ControlOK /\ ListingOK /\ CopiedOK /\ [Next]_vars => CopiedOK'
<1> SUFFICES ASSUME TypeOK, ControlOK, ListingOK, CopiedOK, [Next]_vars
             PROVE CopiedOK'
  OBVIOUS
<1> USE LocalAssumption DEF TypeOK, ControlOK, ListingOK, CopiedOK, Copying,
    Entries, Steady, Goes, Ends, Fails, FailsInto
<1>1. ASSUME Begin \/ Create \/ Check \/ Link PROVE CopiedOK'
  BY <1>1 DEF Begin, First, Create, Check, ChecksFor, Link
<1>2. ASSUME Rename \/ CrossesDevices \/ RenameFails PROVE CopiedOK'
  BY <1>2 DEF Rename, CrossesDevices, RenameFails
<1>3. ASSUME Prepare \/ OpenFile \/ CopyFails \/ CopyDone PROVE CopiedOK'
  BY <1>3 DEF Prepare, OpenFile, CopyFails, CopyFailsInto, CopyDone,
      CopyDoneWhen
<1>4. ASSUME SeeLate \/ Skip PROVE CopiedOK'
  BY <1>4 DEF SeeLate, Skip, Skips
<1>5. ASSUME MakeFolder \/ MakeLink \/ WriteFile PROVE CopiedOK'
  BY <1>5 DEF MakeFolder, MakeLink, WriteFile, Made
<1>6. ASSUME RemoveSource \/ RemovalFails PROVE CopiedOK'
  BY <1>6 DEF RemoveSource, RemovalFails
<1>7. ASSUME UndoEntry \/ UndoEnds PROVE CopiedOK'
  BY <1>7 DEF UndoEntry, UndoEnds
<1>8. ASSUME DeleteStep PROVE CopiedOK'
  BY <1>8 DEF DeleteStep, DeleteEnter, DeleteEntry, DeleteFails
<1>9. ASSUME StopRequested \/ Killed PROVE CopiedOK'
  BY <1>9 DEF StopRequested, Killed
<1>10. ASSUME NEW e \in Entries, ForeignCreates(e) \/ SourceGains(e)
       PROVE CopiedOK'
  BY <1>10 DEF ForeignCreates, SourceGains
<1>11. ASSUME UNCHANGED vars PROVE CopiedOK'
  BY <1>11 DEF vars
<1> QED
  BY <1>1, <1>2, <1>3, <1>4, <1>5, <1>6, <1>7, <1>8, <1>9, <1>10, <1>11
    DEF Next, CopyStep, RemoveStep, Ended

(* The removal starts after the copy.                                      *)
LEMMA DoneStep ==
  TypeOK /\ ControlOK /\ CopiedOK /\ DoneOK /\ [Next]_vars => DoneOK'
<1> SUFFICES ASSUME TypeOK, ControlOK, CopiedOK, DoneOK, [Next]_vars
             PROVE DoneOK'
  OBVIOUS
<1> USE LocalAssumption DEF TypeOK, ControlOK, CopiedOK, DoneOK, Copying,
    Entries, Steady, Goes, Ends, Fails, FailsInto
<1>1. ASSUME Begin \/ Create \/ Check \/ Link PROVE DoneOK'
  BY <1>1 DEF Begin, First, Create, Check, ChecksFor, Link
<1>2. ASSUME Rename \/ CrossesDevices \/ RenameFails PROVE DoneOK'
  BY <1>2 DEF Rename, CrossesDevices, RenameFails
<1>3. ASSUME Prepare \/ OpenFile \/ CopyFails \/ CopyDone PROVE DoneOK'
  BY <1>3 DEF Prepare, OpenFile, CopyFails, CopyFailsInto, CopyDone,
      CopyDoneWhen
<1>4. ASSUME SeeLate \/ Skip PROVE DoneOK'
  BY <1>4 DEF SeeLate, Skip, Skips
<1>5. ASSUME MakeFolder \/ MakeLink \/ WriteFile PROVE DoneOK'
  BY <1>5 DEF MakeFolder, MakeLink, WriteFile, Made
<1>6. ASSUME RemoveSource \/ RemovalFails PROVE DoneOK'
  BY <1>6 DEF RemoveSource, RemovalFails
<1>7. ASSUME UndoEntry \/ UndoEnds PROVE DoneOK'
  BY <1>7 DEF UndoEntry, UndoEnds
<1>8. ASSUME DeleteStep PROVE DoneOK'
  BY <1>8 DEF DeleteStep, DeleteEnter, DeleteEntry, DeleteFails
<1>9. ASSUME StopRequested \/ Killed PROVE DoneOK'
  BY <1>9 DEF StopRequested, Killed
<1>10. ASSUME NEW e \in Entries, ForeignCreates(e) \/ SourceGains(e)
       PROVE DoneOK'
  BY <1>10 DEF ForeignCreates, SourceGains
<1>11. ASSUME UNCHANGED vars PROVE DoneOK'
  BY <1>11 DEF vars
<1> QED
  BY <1>1, <1>2, <1>3, <1>4, <1>5, <1>6, <1>7, <1>8, <1>9, <1>10, <1>11
    DEF Next, CopyStep, RemoveStep, Ended

(* The source stays a tree.                                                *)
LEMMA TreeStep ==
  TypeOK /\ ControlOK /\ SourceTree /\ [Next]_vars => SourceTree'
<1> SUFFICES ASSUME TypeOK, ControlOK, SourceTree, [Next]_vars
             PROVE SourceTree'
  OBVIOUS
<1> USE LocalAssumption DEF TypeOK, ControlOK, SourceTree, Entries, Goes, Ends,
    Fails, FailsInto
<1>1. ASSUME Begin \/ Create \/ Check \/ Link PROVE SourceTree'
  BY <1>1 DEF Begin, First, Create, Check, ChecksFor, Link
<1>2. ASSUME Rename \/ CrossesDevices \/ RenameFails PROVE SourceTree'
  BY <1>2 DEF Rename, CrossesDevices, RenameFails
<1>3. ASSUME Prepare \/ OpenFile \/ CopyFails \/ CopyDone PROVE SourceTree'
  BY <1>3 DEF Prepare, OpenFile, CopyFails, CopyFailsInto, CopyDone,
      CopyDoneWhen
<1>4. ASSUME SeeLate \/ Skip PROVE SourceTree'
  BY <1>4 DEF SeeLate, Skip, Skips
<1>5. ASSUME MakeFolder \/ MakeLink \/ WriteFile PROVE SourceTree'
  BY <1>5 DEF MakeFolder, MakeLink, WriteFile, Made
<1>6. ASSUME RemoveSource \/ RemovalFails PROVE SourceTree'
  BY <1>6 DEF RemoveSource, RemovalFails, Children
<1>7. ASSUME UndoEntry \/ UndoEnds PROVE SourceTree'
  BY <1>7 DEF UndoEntry, UndoEnds
<1>8. ASSUME DeleteStep PROVE SourceTree'
  <2>1. CASE DeleteEntry
    <3>1. PICK e \in source : source' = source \ {e}
                             /\ (e \notin Folders \/ Children(e) = {})
      BY <2>1 DEF DeleteEntry
    <3>2. \A c \in source \ {1} : Parent[c] # e
      BY <3>1, TreeFacts DEF Children
    <3> QED BY <3>1, <3>2
  <2> QED BY <1>8, <2>1 DEF DeleteStep, DeleteEnter, DeleteFails
<1>9. ASSUME StopRequested \/ Killed PROVE SourceTree'
  BY <1>9 DEF StopRequested, Killed
<1>10. ASSUME NEW e \in Entries, ForeignCreates(e) \/ SourceGains(e)
       PROVE SourceTree'
  BY <1>10 DEF ForeignCreates, SourceGains
<1>11. ASSUME UNCHANGED vars PROVE SourceTree'
  BY <1>11 DEF vars
<1> QED
  BY <1>1, <1>2, <1>3, <1>4, <1>5, <1>6, <1>7, <1>8, <1>9, <1>10, <1>11
    DEF Next, CopyStep, RemoveStep, Ended

(* The source is whole until then.                                         *)
LEMMA SourceStep ==
  TypeOK /\ ControlOK /\ SourceOK /\ [Next]_vars => SourceOK'
<1> SUFFICES ASSUME TypeOK, ControlOK, SourceOK, [Next]_vars PROVE SourceOK'
  OBVIOUS
<1> USE LocalAssumption DEF TypeOK, ControlOK, SourceOK, Copying, Entries,
    Steady, Goes, Ends, Fails, FailsInto
<1>1. ASSUME Begin \/ Create \/ Check \/ Link PROVE SourceOK'
  BY <1>1 DEF Begin, First, Create, Check, ChecksFor, Link
<1>2. ASSUME Rename \/ CrossesDevices \/ RenameFails PROVE SourceOK'
  BY <1>2 DEF Rename, CrossesDevices, RenameFails
<1>3. ASSUME Prepare \/ OpenFile \/ CopyFails \/ CopyDone PROVE SourceOK'
  BY <1>3 DEF Prepare, OpenFile, CopyFails, CopyFailsInto, CopyDone,
      CopyDoneWhen
<1>4. ASSUME SeeLate \/ Skip PROVE SourceOK'
  BY <1>4 DEF SeeLate, Skip, Skips
<1>5. ASSUME MakeFolder \/ MakeLink \/ WriteFile PROVE SourceOK'
  BY <1>5 DEF MakeFolder, MakeLink, WriteFile, Made
<1>6. ASSUME RemoveSource \/ RemovalFails PROVE SourceOK'
  BY <1>6 DEF RemoveSource, RemovalFails
<1>7. ASSUME UndoEntry \/ UndoEnds PROVE SourceOK'
  BY <1>7 DEF UndoEntry, UndoEnds
<1>8. ASSUME DeleteStep PROVE SourceOK'
  BY <1>8 DEF DeleteStep, DeleteEnter, DeleteEntry, DeleteFails
<1>9. ASSUME StopRequested \/ Killed PROVE SourceOK'
  BY <1>9 DEF StopRequested, Killed
<1>10. ASSUME NEW e \in Entries, ForeignCreates(e) \/ SourceGains(e)
       PROVE SourceOK'
  BY <1>10 DEF ForeignCreates, SourceGains
<1>11. ASSUME UNCHANGED vars PROVE SourceOK'
  BY <1>11 DEF vars
<1> QED
  BY <1>1, <1>2, <1>3, <1>4, <1>5, <1>6, <1>7, <1>8, <1>9, <1>10, <1>11
    DEF Next, CopyStep, RemoveStep, Ended

(* A move keeps the data.                                                  *)
LEMMA KeepsStep ==
  TypeOK /\ ControlOK /\ DoneOK /\ SourceOK /\ MoveKeepsData /\ [Next]_vars
    => MoveKeepsData'
<1> SUFFICES ASSUME TypeOK, ControlOK, DoneOK, SourceOK, MoveKeepsData,
                    [Next]_vars
             PROVE MoveKeepsData'
  OBVIOUS
<1> USE LocalAssumption DEF TypeOK, ControlOK, DoneOK, SourceOK, MoveKeepsData,
    Kept, Copying, Entries, Steady, Goes, Ends, Fails, FailsInto
<1>1. ASSUME Begin \/ Create \/ Check \/ Link PROVE MoveKeepsData'
  BY <1>1 DEF Begin, First, Create, Check, ChecksFor, Link
<1>2. ASSUME Rename \/ CrossesDevices \/ RenameFails PROVE MoveKeepsData'
  BY <1>2 DEF Rename, CrossesDevices, RenameFails
<1>3. ASSUME Prepare \/ OpenFile \/ CopyFails \/ CopyDone PROVE MoveKeepsData'
  BY <1>3 DEF Prepare, OpenFile, CopyFails, CopyFailsInto, CopyDone,
      CopyDoneWhen
<1>4. ASSUME SeeLate \/ Skip PROVE MoveKeepsData'
  BY <1>4 DEF SeeLate, Skip, Skips
<1>5. ASSUME MakeFolder \/ MakeLink \/ WriteFile PROVE MoveKeepsData'
  BY <1>5 DEF MakeFolder, MakeLink, WriteFile, Made
<1>6. ASSUME RemoveSource \/ RemovalFails PROVE MoveKeepsData'
  BY <1>6 DEF RemoveSource, RemovalFails
<1>7. ASSUME UndoEntry \/ UndoEnds PROVE MoveKeepsData'
  BY <1>7 DEF UndoEntry, UndoEnds
<1>8. ASSUME DeleteStep PROVE MoveKeepsData'
  BY <1>8 DEF DeleteStep, DeleteEnter, DeleteEntry, DeleteFails
<1>9. ASSUME StopRequested \/ Killed PROVE MoveKeepsData'
  BY <1>9 DEF StopRequested, Killed
<1>10. ASSUME NEW e \in Entries, ForeignCreates(e) \/ SourceGains(e)
       PROVE MoveKeepsData'
  BY <1>10 DEF ForeignCreates, SourceGains
<1>11. ASSUME UNCHANGED vars PROVE MoveKeepsData'
  BY <1>11 DEF vars
<1> QED
  BY <1>1, <1>2, <1>3, <1>4, <1>5, <1>6, <1>7, <1>8, <1>9, <1>10, <1>11
    DEF Next, CopyStep, RemoveStep, Ended

(* A report is true.                                                       *)
LEMMA ReportStep ==
  TypeOK /\ ControlOK /\ ListingOK /\ CopiedOK /\ DoneOK /\ SourceOK
    /\ SourceTree /\ ReportIsTrue /\ [Next]_vars
    => ReportIsTrue'
<1> SUFFICES ASSUME TypeOK, ControlOK, ListingOK, CopiedOK, DoneOK, SourceOK,
                    SourceTree, ReportIsTrue, [Next]_vars
             PROVE ReportIsTrue'
  OBVIOUS
<1> USE LocalAssumption DEF TypeOK, ControlOK, ListingOK, CopiedOK, DoneOK,
    SourceOK, ReportIsTrue, Copying, Entries, Steady, Children, Goes, Ends,
    Fails, FailsInto
<1>1. ASSUME Begin \/ Create \/ Check \/ Link PROVE ReportIsTrue'
  BY <1>1 DEF Begin, First, Create, Check, ChecksFor, Link
<1>2. ASSUME Rename \/ CrossesDevices \/ RenameFails PROVE ReportIsTrue'
  BY <1>2 DEF Rename, CrossesDevices, RenameFails
<1>3. ASSUME Prepare \/ OpenFile \/ CopyFails \/ CopyDone PROVE ReportIsTrue'
  BY <1>3 DEF Prepare, OpenFile, CopyFails, CopyFailsInto, CopyDone,
      CopyDoneWhen
<1>4. ASSUME SeeLate \/ Skip PROVE ReportIsTrue'
  BY <1>4 DEF SeeLate, Skip, Skips
<1>5. ASSUME MakeFolder \/ MakeLink \/ WriteFile PROVE ReportIsTrue'
  BY <1>5 DEF MakeFolder, MakeLink, WriteFile, Made
<1>6. ASSUME RemoveSource \/ RemovalFails PROVE ReportIsTrue'
  <2>1. ASSUME Children(1) = {}, 1 \in source PROVE source \ {1} = {}
    BY <2>1, OnlyTop DEF Children, SourceTree
  <2>2. CASE RemoveSource
    <3>1. action = "move" /\ outcome = "none" /\ UNCHANGED <<action, dest>>
          /\ (outcome' = "ok" => source' = {})
      BY <2>1, <2>2 DEF RemoveSource
    <3> QED BY <2>2, <3>1 DEF RemoveSource
  <2> QED BY <1>6, <2>2 DEF RemovalFails
<1>7. ASSUME UndoEntry \/ UndoEnds PROVE ReportIsTrue'
  BY <1>7 DEF UndoEntry, UndoEnds
<1>8. ASSUME DeleteStep PROVE ReportIsTrue'
  <2>1. ASSUME Children(1) = {}, 1 \in source PROVE source \ {1} = {}
    BY <2>1, OnlyTop DEF Children, SourceTree
  <2>2. 1 \notin Folders => Children(1) = {}
    <3>1. \A c \in source \ {1} : Parent[c] \in Folders
      BY TreeFacts
    <3> QED BY <3>1 DEF Children
  <2>3. CASE DeleteEntry
    <3>1. action = "delete" /\ outcome = "none" /\ UNCHANGED <<action, dest>>
          /\ (outcome' = "ok" => source' = {})
      BY <2>1, <2>2, <2>3 DEF DeleteEntry
    <3> QED BY <3>1
  <2> QED BY <1>8, <2>3 DEF DeleteStep, DeleteEnter, DeleteFails
<1>9. ASSUME StopRequested \/ Killed PROVE ReportIsTrue'
  BY <1>9 DEF StopRequested, Killed
<1>10. ASSUME NEW e \in Entries, ForeignCreates(e) \/ SourceGains(e)
       PROVE ReportIsTrue'
  BY <1>10 DEF ForeignCreates, SourceGains
<1>11. ASSUME UNCHANGED vars PROVE ReportIsTrue'
  BY <1>11 DEF vars
<1> QED
  BY <1>1, <1>2, <1>3, <1>4, <1>5, <1>6, <1>7, <1>8, <1>9, <1>10, <1>11
    DEF Next, CopyStep, RemoveStep, Ended

-----------------------------------------------------------------------------
LEMMA Invariance == IInv /\ [Next]_vars => IInv'
BY TypeStep, ControlStep, TakenStep, ListingStep, CopiedStep, DoneStep,
   TreeStep, SourceStep, KeepsStep, ReportStep DEF IInv

THEOREM Invariant == Spec => []IInv
<1>1. Init => IInv
  BY InitHolds
<1>2. IInv /\ [Next]_vars => IInv'
  BY Invariance
<1> QED BY <1>1, <1>2, PTL DEF Spec

(* Every variable keeps its type.                                          *)
THEOREM TypeCorrect == Spec => []TypeOK
<1>1. IInv => TypeOK
  BY DEF IInv
<1> QED BY <1>1, Invariant, PTL

(* A move loses no entry while the removal of its source does not fail     *)
(* (move_entry), for every tree.                                           *)
THEOREM MoveCorrect == Spec => []MoveKeepsData
<1>1. IInv => MoveKeepsData
  BY DEF IInv
<1> QED BY <1>1, Invariant, PTL

(* The result line of the helper is true of source and destination.        *)
THEOREM ReportCorrect == Spec => []ReportIsTrue
<1>1. IInv => ReportIsTrue
  BY DEF IInv
<1> QED BY <1>1, Invariant, PTL

(* An item that was at the destination before is kept (ensure_available).  *)
THEOREM ExistingCorrect == Spec => []ExistingKept
<1>1. IInv => ExistingKept
  BY DEF IInv, TakenOK, ExistingKept
<1> QED BY <1>1, Invariant, PTL

-----------------------------------------------------------------------------
(* What a failed operation leaves behind.                                  *)

Nothing == \A e \in Entries : dest[e] \in {"absent", "foreign"}

FreshOK == pc \in {"begin", "create", "check", "rename", "link", "prepare"}
             => Nothing

(* What is read for the copy is in folders that are made.                  *)
ListedOK ==
  /\ pc \in {"begin", "check", "rename", "prepare"} => listed = {1}
  /\ pc \in {"copy", "write"}
       => \A e \in listed \ {1} : dest[Parent[e]] = "whole"

DestTree ==
  outcome # "ok" => \A e \in Entries \ {1} :
                      dest[e] # "absent" => dest[Parent[e]] # "absent"

UndoneOK ==
  pc = "ended" /\ outcome = "error" /\ "undo" \notin failed
    /\ action # "delete" => Nothing

(* Nothing is made at the destination before the copy.                     *)
LEMMA FreshStep ==
  TypeOK /\ ControlOK /\ FreshOK /\ [Next]_vars => FreshOK'
<1> SUFFICES ASSUME TypeOK, ControlOK, FreshOK, [Next]_vars PROVE FreshOK'
  OBVIOUS
<1> USE LocalAssumption DEF TypeOK, ControlOK, FreshOK, Nothing, Copying,
    Entries, Goes, Ends, Fails, FailsInto
<1>1. ASSUME Begin \/ Create \/ Check \/ Link PROVE FreshOK'
  BY <1>1 DEF Begin, First, Create, Check, ChecksFor, Link
<1>2. ASSUME Rename \/ CrossesDevices \/ RenameFails PROVE FreshOK'
  BY <1>2 DEF Rename, CrossesDevices, RenameFails
<1>3. ASSUME Prepare \/ OpenFile \/ CopyFails \/ CopyDone PROVE FreshOK'
  BY <1>3 DEF Prepare, OpenFile, CopyFails, CopyFailsInto, CopyDone,
      CopyDoneWhen
<1>4. ASSUME SeeLate \/ Skip PROVE FreshOK'
  BY <1>4 DEF SeeLate, Skip, Skips
<1>5. ASSUME MakeFolder \/ MakeLink \/ WriteFile PROVE FreshOK'
  BY <1>5 DEF MakeFolder, MakeLink, WriteFile, Made
<1>6. ASSUME RemoveSource \/ RemovalFails PROVE FreshOK'
  BY <1>6 DEF RemoveSource, RemovalFails
<1>7. ASSUME UndoEntry \/ UndoEnds PROVE FreshOK'
  BY <1>7 DEF UndoEntry, UndoEnds
<1>8. ASSUME DeleteStep PROVE FreshOK'
  BY <1>8 DEF DeleteStep, DeleteEnter, DeleteEntry, DeleteFails
<1>9. ASSUME StopRequested \/ Killed PROVE FreshOK'
  BY <1>9 DEF StopRequested, Killed
<1>10. ASSUME NEW e \in Entries, ForeignCreates(e) \/ SourceGains(e)
       PROVE FreshOK'
  BY <1>10 DEF ForeignCreates, SourceGains
<1>11. ASSUME UNCHANGED vars PROVE FreshOK'
  BY <1>11 DEF vars
<1> QED
  BY <1>1, <1>2, <1>3, <1>4, <1>5, <1>6, <1>7, <1>8, <1>9, <1>10, <1>11
    DEF Next, CopyStep, RemoveStep, Ended

(* The folder of a listed entry is made.                                   *)
LEMMA ListedStep ==
  TypeOK /\ ControlOK /\ ListedOK /\ [Next]_vars => ListedOK'
<1> SUFFICES ASSUME TypeOK, ControlOK, ListedOK, [Next]_vars PROVE ListedOK'
  OBVIOUS
<1> USE LocalAssumption DEF TypeOK, ControlOK, ListedOK, Copying, Entries,
    Goes, Ends, Fails, FailsInto
<1>1. ASSUME Begin \/ Create \/ Check \/ Link PROVE ListedOK'
  BY <1>1 DEF Begin, First, Create, Check, ChecksFor, Link
<1>2. ASSUME Rename \/ CrossesDevices \/ RenameFails PROVE ListedOK'
  BY <1>2 DEF Rename, CrossesDevices, RenameFails
<1>3. ASSUME Prepare \/ OpenFile \/ CopyFails \/ CopyDone PROVE ListedOK'
  <2>1. CASE OpenFile
    <3>1. /\ at \in listed \ Folders /\ pc = "copy" /\ pc' = "write"
          /\ listed' = listed /\ dest' = [dest EXCEPT ![at] = "partial"]
      BY <2>1 DEF OpenFile
    <3>2. \A e \in listed \ {1} :
            Parent[e] \in Folders /\ Parent[e] \in Entries
      BY TreeFacts
    <3> QED BY <3>1, <3>2
  <2> QED BY <1>3, <2>1 DEF Prepare, CopyFails, CopyFailsInto, CopyDone,
        CopyDoneWhen
<1>4. ASSUME SeeLate \/ Skip PROVE ListedOK'
  BY <1>4 DEF SeeLate, Skip, Skips
<1>5. ASSUME MakeFolder \/ MakeLink \/ WriteFile PROVE ListedOK'
  <2>1. at \in Entries /\ at \in listed /\ pc \in {"copy", "write"}
        /\ dest' = [dest EXCEPT ![at] = "whole"] /\ pc' = "copy"
        /\ outcome' = "none" /\ outcome = "none"
        /\ listed \subseteq listed'
        /\ listed' \subseteq listed \cup {e \in Entries \ {1} : Parent[e] = at}
    <3>1. CASE MakeFolder
      BY <3>1 DEF MakeFolder, Made, Children
    <3>2. CASE MakeLink \/ WriteFile
      BY <3>2 DEF MakeLink, WriteFile, Made
    <3> QED BY <1>5, <3>1, <3>2
  <2>2. \A e \in Entries \ {1} : Parent[e] \in Entries
    BY TreeFacts
  <2>3. \A e \in listed \ {1} : dest'[Parent[e]] = "whole"
    BY <2>1, <2>2
  <2>4. \A e \in Entries \ {1} : Parent[e] = at => dest'[Parent[e]] = "whole"
    BY <2>1
  <2> QED BY <2>1, <2>3, <2>4
<1>6. ASSUME RemoveSource \/ RemovalFails PROVE ListedOK'
  BY <1>6 DEF RemoveSource, RemovalFails
<1>7. ASSUME UndoEntry \/ UndoEnds PROVE ListedOK'
  BY <1>7 DEF UndoEntry, UndoEnds
<1>8. ASSUME DeleteStep PROVE ListedOK'
  BY <1>8 DEF DeleteStep, DeleteEnter, DeleteEntry, DeleteFails
<1>9. ASSUME StopRequested \/ Killed PROVE ListedOK'
  BY <1>9 DEF StopRequested, Killed
<1>10. ASSUME NEW e \in Entries, ForeignCreates(e) \/ SourceGains(e)
       PROVE ListedOK'
  <2>1. /\ UNCHANGED <<pc, listed>>
        /\ \A x \in Entries : dest[x] = "whole" => dest'[x] = "whole"
    BY <1>10 DEF ForeignCreates, SourceGains
  <2>2. \A x \in listed \ {1} : Parent[x] \in Entries
    BY TreeFacts
  <2> QED BY <2>1, <2>2
<1>11. ASSUME UNCHANGED vars PROVE ListedOK'
  BY <1>11 DEF vars
<1> QED
  BY <1>1, <1>2, <1>3, <1>4, <1>5, <1>6, <1>7, <1>8, <1>9, <1>10, <1>11
    DEF Next, CopyStep, RemoveStep, Ended

(* The destination stays a tree.                                           *)
LEMMA DestStep ==
  TypeOK /\ ControlOK /\ ListedOK /\ DestTree /\ [Next]_vars => DestTree'
<1> SUFFICES ASSUME TypeOK, ControlOK, ListedOK, DestTree, [Next]_vars
             PROVE DestTree'
  OBVIOUS
<1> USE LocalAssumption DEF TypeOK, ControlOK, ListedOK, DestTree, Copying,
    Entries, Goes, Ends, Fails, FailsInto
<1>1. ASSUME Begin \/ Create \/ Check \/ Link PROVE DestTree'
  BY <1>1 DEF Begin, First, Create, Check, ChecksFor, Link
<1>2. ASSUME Rename \/ CrossesDevices \/ RenameFails PROVE DestTree'
  BY <1>2 DEF Rename, CrossesDevices, RenameFails
<1>3. ASSUME Prepare \/ OpenFile \/ CopyFails \/ CopyDone PROVE DestTree'
  <2>1. CASE OpenFile
    <3>1. /\ at \in listed /\ pc = "copy" /\ outcome = "none"
          /\ dest' = [dest EXCEPT ![at] = "partial"]
      BY <2>1 DEF OpenFile
    <3>2. at # 1 => dest[Parent[at]] = "whole"
      BY <3>1
    <3>3. \A e \in Entries \ {1} : Parent[e] \in Entries
      BY TreeFacts
    <3>4. DestTree
      OBVIOUS
    <3> QED BY <3>1, <3>2, <3>3, <3>4 DEF DestTree
  <2> QED BY <1>3, <2>1 DEF Prepare, CopyFails, CopyFailsInto, CopyDone,
        CopyDoneWhen, DestTree
<1>4. ASSUME SeeLate \/ Skip PROVE DestTree'
  BY <1>4 DEF SeeLate, Skip, Skips
<1>5. ASSUME MakeFolder \/ MakeLink \/ WriteFile PROVE DestTree'
  <2>1. at \in Entries /\ at \in listed /\ pc \in {"copy", "write"}
        /\ dest' = [dest EXCEPT ![at] = "whole"] /\ pc' = "copy"
        /\ outcome' = "none" /\ outcome = "none"
        /\ listed \subseteq listed'
        /\ listed' \subseteq listed \cup {e \in Entries \ {1} : Parent[e] = at}
    <3>1. CASE MakeFolder
      BY <3>1 DEF MakeFolder, Made, Children
    <3>2. CASE MakeLink \/ WriteFile
      BY <3>2 DEF MakeLink, WriteFile, Made
    <3> QED BY <1>5, <3>1, <3>2
  <2>2. at # 1 => dest[Parent[at]] = "whole"
    BY <2>1
  <2>3. \A e \in Entries \ {1} : Parent[e] \in Entries
    BY TreeFacts
  <2>4. DestTree
    OBVIOUS
  <2> QED BY <2>1, <2>2, <2>3, <2>4 DEF DestTree
<1>6. ASSUME RemoveSource \/ RemovalFails PROVE DestTree'
  BY <1>6 DEF RemoveSource, RemovalFails
<1>7. ASSUME UndoEntry \/ UndoEnds PROVE DestTree'
  <2>1. CASE UndoEntry
    <3>1. PICK e \in Entries :
            /\ \A c \in 2..N : Parent[c] = e => dest[c] = "absent"
            /\ dest' = [dest EXCEPT ![e] = "absent"]
      BY <2>1 DEF UndoEntry
    <3>2. \A x \in Entries \ {1} : Parent[x] \in Entries /\ x \in 2..N
      BY TreeFacts
    <3>3. DestTree /\ outcome' = outcome
      BY <2>1 DEF UndoEntry
    <3> QED BY <3>1, <3>2, <3>3 DEF DestTree
  <2> QED BY <1>7, <2>1 DEF UndoEnds, DestTree
<1>8. ASSUME DeleteStep PROVE DestTree'
  BY <1>8 DEF DeleteStep, DeleteEnter, DeleteEntry, DeleteFails
<1>9. ASSUME StopRequested \/ Killed PROVE DestTree'
  BY <1>9 DEF StopRequested, Killed
<1>10. ASSUME NEW e \in Entries, ForeignCreates(e) \/ SourceGains(e)
       PROVE DestTree'
  <2>1. CASE ForeignCreates(e)
    <3>1. \A x \in Entries \ {1} : Parent[x] \in Entries
      BY TreeFacts
    <3>2. /\ dest' = [dest EXCEPT ![e] = "foreign"]
          /\ e # 1 => dest[Parent[e]] = "whole"
          /\ outcome' = outcome
      BY <2>1 DEF ForeignCreates
    <3>3. DestTree
      OBVIOUS
    <3> QED BY <3>1, <3>2, <3>3 DEF DestTree
  <2> QED BY <1>10, <2>1 DEF SourceGains, DestTree
<1>11. ASSUME UNCHANGED vars PROVE DestTree'
  BY <1>11 DEF vars
<1> QED
  BY <1>1, <1>2, <1>3, <1>4, <1>5, <1>6, <1>7, <1>8, <1>9, <1>10, <1>11
    DEF Next, CopyStep, RemoveStep, Ended

(* A failure is undone.                                                    *)
LEMMA UndoneStep ==
  TypeOK /\ ControlOK /\ FreshOK /\ DestTree /\ UndoneOK /\ [Next]_vars
    => UndoneOK'
<1> SUFFICES ASSUME TypeOK, ControlOK, FreshOK, DestTree, UndoneOK, [Next]_vars
             PROVE UndoneOK'
  OBVIOUS
<1> USE LocalAssumption DEF TypeOK, ControlOK, FreshOK, UndoneOK, Nothing,
    Copying, Entries, Goes, Ends, Fails, FailsInto
<1>1. ASSUME Begin \/ Create \/ Check \/ Link PROVE UndoneOK'
  BY <1>1 DEF Begin, First, Create, Check, ChecksFor, Link
<1>2. ASSUME Rename \/ CrossesDevices \/ RenameFails PROVE UndoneOK'
  BY <1>2 DEF Rename, CrossesDevices, RenameFails
<1>3. ASSUME Prepare \/ OpenFile \/ CopyFails \/ CopyDone PROVE UndoneOK'
  BY <1>3 DEF Prepare, OpenFile, CopyFails, CopyFailsInto, CopyDone,
      CopyDoneWhen
<1>4. ASSUME SeeLate \/ Skip PROVE UndoneOK'
  BY <1>4 DEF SeeLate, Skip, Skips
<1>5. ASSUME MakeFolder \/ MakeLink \/ WriteFile PROVE UndoneOK'
  BY <1>5 DEF MakeFolder, MakeLink, WriteFile, Made
<1>6. ASSUME RemoveSource \/ RemovalFails PROVE UndoneOK'
  BY <1>6 DEF RemoveSource, RemovalFails
<1>7. ASSUME UndoEntry \/ UndoEnds PROVE UndoneOK'
  <2>1. ASSUME dest[1] = "absent", outcome = "error" PROVE Nothing
    <3> DEFINE S == {e \in Entries : dest[e] # "absent"}
    <3>1. S \subseteq Entries
      OBVIOUS
    <3>2. \A e \in S \ {1} : Parent[e] \in S
      BY <2>1, TreeFacts DEF DestTree
    <3>3. \A e \in S \ {1} : Parent[e] # 1
      BY <2>1, <3>2
    <3> HIDE DEF S
    <3>4. S \subseteq {1}
      BY <3>1, <3>2, <3>3, OnlyTop
    <3> USE DEF S
    <3> QED BY <2>1, <3>4
  <2> QED BY <1>7, <2>1 DEF UndoEntry, UndoEnds
<1>8. ASSUME DeleteStep PROVE UndoneOK'
  BY <1>8 DEF DeleteStep, DeleteEnter, DeleteEntry, DeleteFails
<1>9. ASSUME StopRequested \/ Killed PROVE UndoneOK'
  BY <1>9 DEF StopRequested, Killed
<1>10. ASSUME NEW e \in Entries, ForeignCreates(e) \/ SourceGains(e)
       PROVE UndoneOK'
  BY <1>10 DEF ForeignCreates, SourceGains
<1>11. ASSUME UNCHANGED vars PROVE UndoneOK'
  BY <1>11 DEF vars
<1> QED
  BY <1>1, <1>2, <1>3, <1>4, <1>5, <1>6, <1>7, <1>8, <1>9, <1>10, <1>11
    DEF Next, CopyStep, RemoveStep, Ended

FullInv == IInv /\ FreshOK /\ ListedOK /\ DestTree /\ UndoneOK

LEMMA FullInit == Init => FullInv
<1> SUFFICES ASSUME Init PROVE FullInv
  OBVIOUS
<1>1. FreshOK /\ ListedOK /\ UndoneOK
  BY DEF Init, FreshOK, Nothing, ListedOK, UndoneOK
<1>2. DestTree
  BY TreeFacts DEF Init, DestTree
<1> QED BY <1>1, <1>2, InitHolds DEF FullInv

(* After an error everything that the operation made is removed again,     *)
(* unless the clean-up fails too, and the source is whole unless a move    *)
(* failed in its removal (operate_existing).                               *)
THEOREM FailureCorrect == Spec => []FailureUndone
<1>1. Init => FullInv
  BY FullInit
<1>2. FullInv /\ [Next]_vars => FullInv'
  BY Invariance, FreshStep, ListedStep, DestStep, UndoneStep
    DEF FullInv, IInv
<1>3. FullInv => FailureUndone
  BY DEF FullInv, IInv, UndoneOK, SourceOK, Nothing, FailureUndone
<1> QED BY <1>1, <1>2, <1>3, PTL DEF Spec
=============================================================================
