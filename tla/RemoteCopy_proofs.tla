------------------------- MODULE RemoteCopy_proofs -------------------------
(* Proofs about RemoteCopy for every tree and every set of jobs.           *)
EXTENDS RemoteCopy, TLAPS

Copying   == {"entry", "check", "store", "read", "write", "finish", "confirm"}
Streaming == job.action \in Streamed

(* Where the control can be, and what the operation has reported there.    *)
ControlOK ==
  /\ pc \in Copying \cup {"rename", "remove"} => outcome = "none"
  /\ pc = "cleanup" => outcome \in {"stopped", "error"}
  /\ pc \in {"entry", "read", "write", "finish", "cleanup"} => Streaming
  /\ pc = "rename" => ~Streaming
  /\ pc = "remove" => job.action \in {"move", "delete"}
  /\ pc \in Copying \cup {"cleanup"} /\ pc # "entry" => at \in Entries
  /\ pc = "write" => chunks < Chunks
  /\ pc = "confirm" /\ Streaming => chunks = Chunks

(* An entry that the source has all the time is listed with its folder.    *)
ListingOK ==
  Streaming /\ pc \in Copying =>
    /\ 1 \in listed
    /\ \A e \in Sure \ {1} :
         Parent[e] < at \/ (Parent[e] = at /\ pc # "entry") => e \in listed

(* Everything before `at` is copied.                                       *)
CopiedOK ==
  Streaming /\ pc \in Copying => \A e \in Sure : e < at => dest[e] = "full"

(* Everything is copied when the removal starts.                           *)
DoneOK ==
  Streaming /\ (pc = "remove" \/ outcome \in {"ok", "partial-move"})
    => \A e \in Sure : dest[e] = "full"

(* Up to there the source is whole.                                        *)
SourceOK ==
  Streaming /\ ( \/ pc \in Copying \cup {"cleanup"}
                 \/ outcome \in {"stopped", "error"}
                 \/ job.action = "copy" )
    => Entries \ Later \subseteq source

RemovalOK ==
  /\ job.from = "sftp" => entered \cap Unlisted = {}
  /\ outcome = "ok" /\ Moving => 1 \notin source

IInv ==
  /\ TypeOK /\ ControlOK /\ ListingOK /\ CopiedOK /\ DoneOK /\ SourceOK
  /\ RemovalOK /\ MoveKeepsData

LEMMA InitHolds == Init => IInv
<1> SUFFICES ASSUME Init PROVE IInv
  OBVIOUS
<1> USE TreeAssumption DEF Init, Entries
<1>1. job \in [action : Actions, from : Places, to : Places]
  OBVIOUS
<1>2. TypeOK
  <2>1. pc \in Pcs
    BY DEF Pcs, Start, Creating
  <2>2. at \in 1..(N + 1) /\ listed \subseteq Entries
    OBVIOUS
  <2>3. dest \in [Entries -> {"absent", "partial", "full", "foreign"}]
    OBVIOUS
  <2>4. source \subseteq Entries /\ chunks \in 0..Chunks
    OBVIOUS
  <2> QED BY ONLY <2>1, <2>2, <2>3, <2>4, Init DEF TypeOK, Init
<1>3. ControlOK
  BY <1>1 DEF ControlOK, Copying, Streaming, Streamed, Start, Creating, Actions
<1>4. ListingOK /\ CopiedOK
  BY <1>1 DEF ListingOK, CopiedOK, Copying, Sure, Streaming, Streamed, Start
<1>5. DoneOK
  BY <1>1 DEF DoneOK, Streaming, Streamed, Start
<1>6. SourceOK /\ RemovalOK /\ MoveKeepsData
  BY DEF SourceOK, RemovalOK, MoveKeepsData
<1> QED BY <1>2, <1>3, <1>4, <1>5, <1>6 DEF IInv

(* Each step keeps the types.                                              *)
LEMMA TypeStep == TypeOK /\ ControlOK /\ [Next]_vars => TypeOK'
<1> SUFFICES ASSUME TypeOK, ControlOK, [Next]_vars PROVE TypeOK'
  OBVIOUS
<1> USE TreeAssumption DEF TypeOK, Pcs, Entries, End, Failed
<1>1. ASSUME Skip \/ Visit \/ CopyDone PROVE TypeOK'
  <2>1. CASE Skip
    <3>1. at + 1 \in 1..(N + 1)
      BY <2>1 DEF Skip
    <3> QED BY <2>1, <3>1 DEF Skip
  <2>2. CASE Visit
    <3>1. listed \cup (Children(at) \ Omitted) \subseteq Entries
      BY DEF Children
    <3> QED BY <2>2, <3>1 DEF Visit, Creating
  <2>3. CASE CopyDone
    <3>1. {1} \subseteq Entries
      OBVIOUS
    <3> QED BY <2>3, <3>1 DEF CopyDone
  <2> QED BY <1>1, <2>1, <2>2, <2>3
<1>2. ASSUME CheckTarget PROVE TypeOK'
  BY <1>2 DEF CheckTarget
<1>3. ASSUME MakeFolder \/ FinishWriter PROVE TypeOK'
  <2>1. at \in Entries /\ at + 1 \in 1..(N + 1)
    BY <1>3 DEF MakeFolder, FinishWriter, ControlOK, Copying
  <2>2. CASE MakeFolder
    <3>1. [dest EXCEPT ![at] = "full"] \in
            [Entries -> {"absent", "partial", "full", "foreign"}]
      OBVIOUS
    <3> QED BY <2>1, <2>2, <3>1 DEF MakeFolder, Made
  <2>3. CASE FinishWriter
    <3>1. \A s \in {"full", "partial"} :
            [dest EXCEPT ![at] = s] \in
              [Entries -> {"absent", "partial", "full", "foreign"}]
      OBVIOUS
    <3> QED BY <2>1, <2>3, <3>1 DEF FinishWriter, Made
  <2> QED BY <1>3, <2>2, <2>3
<1>4. ASSUME OpenTarget \/ StoreFails PROVE TypeOK'
  BY <1>4 DEF OpenTarget, StoreFails, StoreFailsInto
<1>5. ASSUME ReadChunk \/ WriteChunk PROVE TypeOK'
  <2>1. CASE ReadChunk
    BY <2>1 DEF ReadChunk, Read
  <2>2. CASE WriteChunk
    <3>1. chunks + 1 \in 0..Chunks
      BY <2>2 DEF WriteChunk, ControlOK
    <3> QED BY <2>2, <3>1 DEF WriteChunk
  <2> QED BY <1>5, <2>1, <2>2
<1>6. ASSUME FinishReader \/ FinishWriterFails \/ CleanUp PROVE TypeOK'
  BY <1>6 DEF FinishReader, ReaderFinishedIf, FinishWriterFails, CleanUp
<1>7. ASSUME RemoveStep PROVE TypeOK'
  BY <1>7 DEF RemoveStep, RemoveLocal, RemoveEnter, RemoveNameless,
    RemoveEntry, RemoveFails, RemovalFails, Callable, Children, IsTop
<1>8. ASSUME RenameStep PROVE TypeOK'
  BY <1>8 DEF RenameStep, Rename, RenameFails, RenameOver
<1>9. ASSUME StopRequested \/ DeadlinePasses \/ Killed PROVE TypeOK'
  BY <1>9 DEF StopRequested, DeadlinePasses, Killed
<1>10. ASSUME NEW e \in Entries, ForeignCreates(e) \/ SourceGains(e)
       PROVE  TypeOK'
  BY <1>10 DEF ForeignCreates, SourceGains
<1>11. ASSUME UNCHANGED vars PROVE TypeOK'
  BY <1>11 DEF vars
<1> QED
  BY <1>1, <1>2, <1>3, <1>4, <1>5, <1>6, <1>7, <1>8, <1>9, <1>10, <1>11
    DEF Next, CopyStep, Ended

(* The request stays what it is, and with it what is said about it.        *)
LEMMA JobStable ==
  [Next]_vars => job' = job /\ Streaming' = Streaming /\ Moving' = Moving
                 /\ Sure' = Sure
<1> SUFFICES ASSUME [Next]_vars PROVE job' = job
  BY DEF Streaming, Moving, Sure, Omitted
<1>1. ASSUME CopyStep PROVE job' = job
  BY <1>1 DEF CopyStep, Skip, Visit, CheckTarget, MakeFolder, OpenTarget,
    StoreFails, StoreFailsInto, ReadChunk, Read, WriteChunk, FinishReader,
    ReaderFinishedIf, FinishWriter, FinishWriterFails, CleanUp, CopyDone
<1>2. ASSUME RemoveStep \/ RenameStep PROVE job' = job
  BY <1>2 DEF RemoveStep, RemoveLocal, RemoveEnter, RemoveNameless,
    RemoveEntry, RemoveFails, RenameStep, Rename, RenameFails
<1>3. ASSUME StopRequested \/ DeadlinePasses \/ Killed \/ UNCHANGED vars
      PROVE  job' = job
  BY <1>3 DEF StopRequested, DeadlinePasses, Killed, vars
<1>4. ASSUME NEW e \in Entries, ForeignCreates(e) \/ SourceGains(e)
      PROVE  job' = job
  BY <1>4 DEF ForeignCreates, SourceGains
<1> QED BY <1>1, <1>2, <1>3, <1>4 DEF Next, Ended

(* Steps that leave the control alone.                                     *)
Quiet ==
  /\ UNCHANGED <<at, listed, pc, chunks, entered, outcome>>
  /\ source \subseteq source'
  /\ \A e \in Entries : dest[e] = "full" => dest'[e] = "full"

LEMMA QuietSteps ==
  ASSUME TypeOK,
         \/ StopRequested \/ DeadlinePasses \/ UNCHANGED vars
         \/ \E e \in Entries : ForeignCreates(e) \/ SourceGains(e)
  PROVE  Quiet
<1>1. ASSUME StopRequested \/ DeadlinePasses \/ UNCHANGED vars PROVE Quiet
  BY <1>1 DEF StopRequested, DeadlinePasses, Quiet, vars
<1>2. ASSUME NEW e \in Entries, ForeignCreates(e) PROVE Quiet
  BY <1>2 DEF ForeignCreates, Quiet, TypeOK
<1>3. ASSUME NEW e \in Entries, SourceGains(e) PROVE Quiet
  BY <1>3 DEF SourceGains, Quiet
<1> QED BY <1>1, <1>2, <1>3

LEMMA ControlStep ==
  TypeOK /\ ControlOK /\ [Next]_vars => ControlOK'
<1> SUFFICES ASSUME TypeOK, ControlOK, [Next]_vars PROVE ControlOK'
  OBVIOUS
<1>0. Streaming' = Streaming /\ job' = job
  BY JobStable
<1> USE <1>0 DEF TypeOK, ControlOK, Copying, End, Failed
<1>1. ASSUME Skip \/ Visit \/ CopyDone PROVE ControlOK'
  BY <1>1, TreeAssumption
    DEF Skip, Visit, CopyDone, Creating, Streaming, Streamed, Entries
<1>2. ASSUME CheckTarget PROVE ControlOK'
  BY <1>2 DEF CheckTarget, Streaming, Streamed
<1>3. ASSUME MakeFolder \/ FinishWriter PROVE ControlOK'
  BY <1>3 DEF MakeFolder, FinishWriter, Made, Streaming
<1>4. ASSUME OpenTarget \/ StoreFails PROVE ControlOK'
  BY <1>4 DEF OpenTarget, StoreFails, StoreFailsInto, Streaming
<1>5. ASSUME ReadChunk \/ WriteChunk PROVE ControlOK'
  BY <1>5 DEF ReadChunk, Read, WriteChunk
<1>6. ASSUME FinishReader \/ FinishWriterFails \/ CleanUp PROVE ControlOK'
  BY <1>6 DEF FinishReader, ReaderFinishedIf, FinishWriterFails, CleanUp,
    Streaming
<1>7. ASSUME RemoveStep PROVE ControlOK'
  BY <1>7 DEF RemoveStep, RemoveLocal, RemoveEnter, RemoveNameless,
    RemoveEntry, RemoveFails, RemovalFails
<1>8. ASSUME RenameStep \/ Killed PROVE ControlOK'
  BY <1>8 DEF RenameStep, Rename, RenameFails, Killed
<1>9. ASSUME Quiet PROVE ControlOK'
  BY <1>9 DEF Quiet
<1> QED
  BY <1>1, <1>2, <1>3, <1>4, <1>5, <1>6, <1>7, <1>8, <1>9, QuietSteps
    DEF Next, CopyStep, Ended

(* Steps after which the copy is over.                                     *)
Leaving == pc' \notin Copying

(* Steps within the copy of entry `at`.                                    *)
Within ==
  /\ pc' # "entry" /\ pc # "entry" /\ pc \in Copying
  /\ UNCHANGED <<at, listed, source>>
  /\ \A e \in Entries \ {at} : dest'[e] = dest[e]

(* Every step is one of these.                                             *)
LEMMA StepKinds ==
  ASSUME TypeOK, ControlOK, [Next]_vars, Streaming
  PROVE  \/ Skip \/ Visit \/ MakeFolder \/ FinishWriter \/ CopyDone
         \/ WriteChunk \/ Within \/ Leaving \/ Quiet
<1> DEFINE Goal == \/ Skip \/ Visit \/ MakeFolder \/ FinishWriter \/ CopyDone
                   \/ WriteChunk \/ Within \/ Leaving \/ Quiet
<1>1. ASSUME CheckTarget PROVE Goal
  BY <1>1 DEF CheckTarget, Within, Leaving, Copying, End, Streaming, Streamed
<1>2. ASSUME OpenTarget PROVE Goal
  BY <1>2 DEF OpenTarget, Within, Copying, Streaming, TypeOK
<1>3. ASSUME StoreFails \/ FinishWriterFails \/ CleanUp \/ Killed PROVE Goal
  BY <1>3 DEF StoreFails, StoreFailsInto, FinishWriterFails, CleanUp, Killed,
    Leaving, Copying, End, Failed
<1>4. ASSUME ReadChunk \/ FinishReader PROVE Goal
  BY <1>4 DEF ReadChunk, Read, FinishReader, ReaderFinishedIf, Within, Leaving,
    Copying, Failed
<1>5. ASSUME RemoveStep PROVE Goal
  BY <1>5 DEF RemoveStep, RemoveLocal, RemoveEnter, RemoveNameless,
    RemoveEntry, RemoveFails, RemovalFails, End, Leaving, Copying
<1>6. ASSUME RenameStep PROVE Goal
  BY <1>6 DEF RenameStep, Rename, RenameFails, End, Leaving, Copying
<1> HIDE DEF Goal
<1>7. Goal
  <2> USE DEF Goal
  <2> QED
  BY <1>1, <1>2, <1>3, <1>4, <1>5, <1>6, QuietSteps DEF Next, CopyStep, Ended
<1> QED BY <1>7 DEF Goal

(* The writing of a chunk is a step within the copy, or leaves it.         *)
LEMMA WriteKind == WriteChunk => (pc = "write" /\ UNCHANGED <<at, listed, source, dest>>
                                  /\ pc' \in {"read", "cleanup"})
BY DEF WriteChunk, Failed

(* Entries and their folders.                                              *)
LEMMA SureFacts ==
  \A e \in Sure \ {1} :
    /\ e \in 2..N /\ Parent[e] \in 1..N /\ Parent[e] < e
    /\ Parent[e] \in Sure
<1> SUFFICES ASSUME NEW e \in Sure \ {1}
             PROVE  /\ e \in 2..N /\ Parent[e] \in 1..N /\ Parent[e] < e
                    /\ Parent[e] \in Sure
  OBVIOUS
<1>1. e \in 2..N
  BY TreeAssumption DEF Sure, Entries
<1>2. Parent[e] \in Entries /\ Parent[e] < e
  BY <1>1, TreeAssumption
<1>3. Parent[e] \notin Later /\ Parent[e] \notin Omitted
  BY <1>1, TreeAssumption DEF Sure, Closed, Omitted
<1> QED BY <1>1, <1>2, <1>3 DEF Sure, Entries

LEMMA ListingStep ==
  ASSUME TypeOK, ControlOK, ListingOK, SourceOK, [Next]_vars
  PROVE  ListingOK'
<1> SUFFICES ASSUME Streaming, ~Leaving PROVE ListingOK'
  BY JobStable DEF ListingOK, Leaving
<1>0. Streaming' = Streaming /\ Sure' = Sure
  BY JobStable
<1>1. \A e \in Sure : e \in 1..N
  BY DEF Sure, Entries
<1>2. \A e \in Sure \ {1} : Parent[e] \in Sure
  BY SureFacts
<1>3. CASE Skip
  <2>1. at \notin listed /\ pc = "entry" /\ pc' = "entry" /\ at' = at + 1
        /\ UNCHANGED listed /\ at \in 1..N
    BY <1>3 DEF Skip, Entries
  <2>2. at \notin Sure
    BY <2>1, TreeAssumption DEF ListingOK, Copying
  <2>3. \A e \in Sure \ {1} : Parent[e] # at
    BY <1>2, <2>2
  <2>4. \A e \in Sure \ {1} : Parent[e] \in Nat
    BY SureFacts
  <2>5. \A e \in Sure \ {1} : Parent[e] < at + 1 => Parent[e] < at
    BY <2>1, <2>3, <2>4
  <2> QED BY <1>0, <2>1, <2>5 DEF ListingOK, Copying
<1>4. CASE Visit
  <2>1. /\ pc = "entry" /\ pc' # "entry" /\ UNCHANGED at
        /\ listed' = listed \cup (Children(at) \ Omitted)
    BY <1>4 DEF Visit, Leaving, End, Copying, Creating
  <2>2. Entries \ Later \subseteq source
    BY <2>1 DEF SourceOK, Copying
  <2>3. \A e \in Sure \ {1} : Parent[e] = at => e \in Children(at) \ Omitted
    BY <2>2 DEF Sure, Children
  <2> QED BY <1>0, <2>1, <2>3 DEF ListingOK, Copying
<1>5. CASE MakeFolder \/ FinishWriter
  <2>1. /\ pc \in Copying \ {"entry"} /\ pc' = "entry" /\ at' = at + 1
        /\ UNCHANGED listed /\ at \in 1..N
    BY <1>5 DEF MakeFolder, FinishWriter, Made, Copying, Streaming, ControlOK,
      Entries
  <2>2. \A e \in Sure \ {1} : Parent[e] \in Nat
    BY SureFacts
  <2>3. \A e \in Sure \ {1} : Parent[e] < at + 1 => Parent[e] < at \/ Parent[e] = at
    BY <2>1, <2>2
  <2> QED BY <1>0, <2>1, <2>3 DEF ListingOK
<1>6. CASE CopyDone
  BY <1>6 DEF CopyDone, Leaving, Copying, End
<1>7. CASE WriteChunk
  BY <1>0, <1>7, WriteKind DEF ListingOK, Copying, Leaving
<1>8. CASE Within
  BY <1>0, <1>8 DEF Within, ListingOK
<1>9. CASE Quiet
  BY <1>0, <1>9 DEF Quiet, ListingOK
<1> QED BY <1>3, <1>4, <1>5, <1>6, <1>7, <1>8, <1>9, StepKinds

LEMMA CopiedStep ==
  ASSUME TypeOK, ControlOK, ListingOK, CopiedOK, [Next]_vars
  PROVE  CopiedOK'
<1> SUFFICES ASSUME Streaming, ~Leaving PROVE CopiedOK'
  BY JobStable DEF CopiedOK, Leaving
<1>0. Streaming' = Streaming /\ Sure' = Sure
  BY JobStable
<1>1. Sure \subseteq Entries /\ \A e \in Sure : e \in Nat
  BY DEF Sure, Entries
<1>2. at \in Nat
  BY TreeAssumption DEF TypeOK
<1>3. CASE Skip
  <2>1. at \notin listed /\ pc = "entry" /\ at' = at + 1 /\ UNCHANGED dest
    BY <1>3 DEF Skip
  <2>2. at \in Sure \ {1} => Parent[at] < at
    BY <1>1, TreeAssumption DEF Entries
  <2>3. at \notin Sure
    BY <2>1, <2>2 DEF ListingOK, Copying
  <2>4. \A e \in Sure : e < at + 1 => e < at
    BY <1>1, <1>2, <2>3
  <2> QED BY <1>0, <2>1, <2>4 DEF CopiedOK, Copying
<1>4. CASE Visit
  BY <1>0, <1>4 DEF Visit, CopiedOK, Copying
<1>5. CASE MakeFolder \/ FinishWriter
  <2>1. /\ pc \in Copying /\ at' = at + 1 /\ at \in Entries
        /\ dest' = [dest EXCEPT ![at] = "full"]
    BY <1>5 DEF MakeFolder, FinishWriter, Made, Copying, Streaming, ControlOK,
      Streamed
  <2>2. \A e \in Sure : e < at + 1 => e < at \/ e = at
    BY <1>1, <1>2
  <2> QED BY <1>0, <1>1, <2>1, <2>2 DEF CopiedOK, TypeOK
<1>6. CASE CopyDone
  BY <1>6 DEF CopyDone, Leaving, Copying, End
<1>7. CASE WriteChunk
  BY <1>0, <1>7, WriteKind DEF CopiedOK, Copying, Leaving
<1>8. CASE Within
  <2>1. \A e \in Sure : e < at => e # at
    BY <1>1, <1>2
  <2> QED BY <1>0, <1>1, <1>8, <2>1 DEF Within, CopiedOK
<1>9. CASE Quiet
  BY <1>0, <1>1, <1>9 DEF Quiet, CopiedOK
<1> QED BY <1>3, <1>4, <1>5, <1>6, <1>7, <1>8, <1>9, StepKinds

(* The removal starts when `at` has passed the last entry, and an          *)
(* operation reports its result only where it may.                         *)
LEMMA DoneStep ==
  ASSUME TypeOK, ControlOK, CopiedOK, DoneOK, [Next]_vars
  PROVE  DoneOK'
<1> SUFFICES ASSUME Streaming,
                    pc' = "remove" \/ outcome' \in {"ok", "partial-move"}
             PROVE  \A e \in Sure : dest'[e] = "full"
  BY JobStable DEF DoneOK
<1>1. Sure \subseteq Entries /\ \A e \in Sure : e \in 1..N
  BY DEF Sure, Entries
<1>2. CASE CopyDone
  <2>1. \A e \in Sure : e < at
    BY <1>1, <1>2, TreeAssumption DEF CopyDone
  <2> QED BY <1>2, <2>1 DEF CopyDone, CopiedOK, Copying
<1>3. CASE RemoveStep
  <2>1. pc = "remove" /\ UNCHANGED dest
    BY <1>3 DEF RemoveStep, RemoveLocal, RemoveEnter, RemoveNameless,
      RemoveEntry, RemoveFails
  <2> QED BY <2>1 DEF DoneOK
<1>4. CASE Quiet
  BY <1>1, <1>4 DEF Quiet, DoneOK
<1>5. CASE CopyStep /\ ~CopyDone
  BY <1>5 DEF CopyStep, Skip, Visit, CheckTarget, MakeFolder, OpenTarget,
    StoreFails, StoreFailsInto, ReadChunk, Read, WriteChunk, FinishReader,
    ReaderFinishedIf, FinishWriter, FinishWriterFails, CleanUp, Made, End,
    Failed, ControlOK, Copying, Streaming, Creating
<1>6. CASE RenameStep \/ Killed
  BY <1>6 DEF RenameStep, Rename, RenameFails, Killed, End, ControlOK
<1> QED BY <1>2, <1>3, <1>4, <1>5, <1>6, QuietSteps DEF Next, Ended

LEMMA SourceStep ==
  ASSUME TypeOK, ControlOK, SourceOK, [Next]_vars
  PROVE  SourceOK'
<1> SUFFICES ASSUME Streaming,
                    \/ pc' \in Copying \cup {"cleanup"}
                    \/ outcome' \in {"stopped", "error"}
                    \/ job.action = "copy"
             PROVE  Entries \ Later \subseteq source'
  BY JobStable DEF SourceOK
<1>1. CASE CopyStep
  <2>1. pc \in Copying \cup {"cleanup"} /\ UNCHANGED source
    BY <1>1 DEF CopyStep, Skip, Visit, CheckTarget, MakeFolder, OpenTarget,
      StoreFails, StoreFailsInto, ReadChunk, Read, WriteChunk, FinishReader,
      ReaderFinishedIf, FinishWriter, FinishWriterFails, CleanUp, CopyDone,
      Copying
  <2> QED BY <2>1 DEF SourceOK
<1>2. CASE RemoveStep
  <2>1. job.action = "move" /\ pc = "remove" /\ outcome = "none"
    BY <1>2 DEF RemoveStep, RemoveLocal, RemoveEnter, RemoveNameless,
      RemoveEntry, RemoveFails, ControlOK, Streaming, Streamed
  <2>2. pc' \in {"remove", "ended"} /\ outcome' \notin {"stopped", "error"}
    BY <1>2, <2>1 DEF RemoveStep, RemoveLocal, RemoveEnter, RemoveNameless,
      RemoveEntry, RemoveFails, RemovalFails, End
  <2> QED BY <2>1, <2>2 DEF Copying
<1>3. CASE RenameStep
  BY <1>3 DEF RenameStep, Rename, RenameFails, ControlOK
<1>4. CASE Killed
  BY <1>4 DEF Killed, End, SourceOK, Copying
<1>5. CASE Quiet
  BY <1>5 DEF Quiet, SourceOK
<1> QED BY <1>1, <1>2, <1>3, <1>4, <1>5, QuietSteps DEF Next, Ended

LEMMA RemovalStep ==
  ASSUME TypeOK, ControlOK, RemovalOK, [Next]_vars
  PROVE  RemovalOK'
<1>0. job' = job /\ Moving' = Moving
  BY JobStable
<1>1. CASE RemoveStep
  <2>1. CASE RemoveLocal \/ RemoveEntry
    BY <1>0, <2>1 DEF RemoveLocal, RemoveEntry, RemovalOK, ControlOK, End
  <2>2. CASE RemoveEnter
    BY <1>0, <2>2 DEF RemoveEnter, RemovalOK, ControlOK
  <2>3. CASE RemoveNameless \/ RemoveFails
    BY <1>0, <2>3 DEF RemoveNameless, RemoveFails, RemovalFails, RemovalOK, End
  <2> QED BY <1>1, <2>1, <2>2, <2>3 DEF RemoveStep
<1>2. CASE CopyStep
  <2>1. UNCHANGED entered
    BY <1>2 DEF CopyStep, Skip, Visit, CheckTarget, MakeFolder, OpenTarget,
      StoreFails, StoreFailsInto, ReadChunk, Read, WriteChunk, FinishReader,
      ReaderFinishedIf, FinishWriter, FinishWriterFails, CleanUp, CopyDone
  <2>2. Moving => outcome' # "ok"
    BY <1>2 DEF CopyStep, Skip, Visit, CheckTarget, MakeFolder, OpenTarget,
      StoreFails, StoreFailsInto, ReadChunk, Read, WriteChunk, FinishReader,
      ReaderFinishedIf, FinishWriter, FinishWriterFails, CleanUp, CopyDone,
      Made, End, Failed, ControlOK, Copying, Moving, Streamed
  <2> QED BY <1>0, <2>1, <2>2 DEF RemovalOK
<1>3. CASE RenameStep
  BY <1>0, <1>3 DEF RenameStep, Rename, RenameFails, RemovalOK, ControlOK,
    Streaming, Streamed, Moving
<1>4. CASE Killed
  BY <1>0, <1>4 DEF Killed, End, RemovalOK
<1>5. CASE StopRequested \/ DeadlinePasses \/ UNCHANGED vars
  BY <1>0, <1>5 DEF StopRequested, DeadlinePasses, vars, RemovalOK
<1>6. CASE \E e \in Entries : ForeignCreates(e) \/ SourceGains(e)
  BY <1>0, <1>6, TreeAssumption DEF ForeignCreates, SourceGains, RemovalOK
<1> QED BY <1>1, <1>2, <1>3, <1>4, <1>5, <1>6 DEF Next, Ended

(* Only a removal takes something from the source, and it finds it copied. *)
LEMMA KeepStep ==
  ASSUME TypeOK, ControlOK, DoneOK, SourceOK, RemovalOK, MoveKeepsData,
         [Next]_vars
  PROVE  MoveKeepsData'
<1> SUFFICES ASSUME Moving, NEW e \in Entries, e \notin Later,
                    ~(job.from = "local" /\ e \in Unlisted)
             PROVE  e \in source' \/ dest'[e] = "full"
  BY JobStable DEF MoveKeepsData
<1>0. Streaming /\ (e \in source \/ dest[e] = "full")
  BY DEF Streaming, Streamed, Moving, MoveKeepsData
<1>1. CASE CopyStep
  <2>1. pc \in Copying \cup {"cleanup"} /\ UNCHANGED source
    BY <1>1 DEF CopyStep, Skip, Visit, CheckTarget, MakeFolder, OpenTarget,
      StoreFails, StoreFailsInto, ReadChunk, Read, WriteChunk, FinishReader,
      ReaderFinishedIf, FinishWriter, FinishWriterFails, CleanUp, CopyDone,
      Copying
  <2> QED BY <2>1 DEF SourceOK, Streaming, Streamed, Moving
<1>2. CASE RemoveStep
  <2>1. pc = "remove" /\ UNCHANGED dest
    BY <1>2 DEF RemoveStep, RemoveLocal, RemoveEnter, RemoveNameless,
      RemoveEntry, RemoveFails
  <2>2. CASE e \in Sure
    BY <2>1, <2>2 DEF DoneOK, Streaming, Streamed, Moving
  <2>3. CASE e \notin Sure
    <3>1. job.from = "sftp" /\ e \in Unlisted
      BY <2>3 DEF Sure, Omitted
    <3>2. e \notin entered
      BY <3>1 DEF RemovalOK
    <3>3. e \in source => e \in source'
      BY <1>2, <3>1, <3>2 DEF RemoveStep, RemoveLocal, RemoveEnter,
        RemoveNameless, RemoveEntry, RemoveFails
    <3> QED BY <1>0, <2>1, <3>3
  <2> QED BY <2>2, <2>3
<1>3. CASE RenameStep
  BY <1>3 DEF RenameStep, Rename, RenameFails, ControlOK, Streaming, Streamed,
    Moving
<1>4. CASE Killed
  BY <1>0, <1>4 DEF Killed
<1>5. CASE Quiet
  BY <1>0, <1>5 DEF Quiet
<1> QED BY <1>1, <1>2, <1>3, <1>4, <1>5, QuietSteps DEF Next, Ended

LEMMA StepHolds == IInv /\ [Next]_vars => IInv'
BY TypeStep, ControlStep, ListingStep, CopiedStep, DoneStep, SourceStep,
  RemovalStep, KeepStep DEF IInv

THEOREM Invariance == Spec => []IInv
BY InitHolds, StepHolds, PTL DEF Spec

(* Every variable keeps its type, whatever the tree and the operation.     *)
THEOREM TypeCorrect == Spec => []TypeOK
<1>1. IInv => TypeOK
  BY DEF IInv
<1> QED BY <1>1, Invariance, PTL

(* A move never leaves an entry nowhere (operate, copy_entry, copy_stream  *)
(* and the three removals).                                                *)
THEOREM MoveCorrect == Spec => []MoveKeepsData
<1>1. IInv => MoveKeepsData
  BY DEF IInv
<1> QED BY <1>1, Invariance, PTL

(* What the operation reports about source and destination is true.        *)
THEOREM ReportCorrect == Spec => []ReportIsTrue
<1>1. IInv => ReportIsTrue
  BY DEF IInv, ReportIsTrue, SourceOK, DoneOK, RemovalOK, Streaming
<1> QED BY <1>1, Invariance, PTL

-----------------------------------------------------------------------------
(* The items at the destination, of this copy and of others.               *)

Writing == {"read", "write", "finish", "confirm", "cleanup"}

(* A partial file is the one being written, unless the helper died or was  *)
(* asked to stop before it could remove the file from a server.            *)
PartialOK ==
  Streaming /\ ~lost =>
    \A e \in Entries : dest[e] = "partial" =>
      \/ pc \in Writing /\ e = at
      \/ pc = "ended" /\ (outcome = "died" \/ (job.to # "local" /\ ~Goes))

(* What is written, and removed by the clean-up, is what was opened.       *)
OwnOK == pc \in Writing => dest[at] = "partial"

(* Before a rename the target place holds at most one item of others.      *)
TargetOK ==
  pc = "rename" \/ (pc = "check" /\ job.action = "rename") =>
    \A e \in Entries : dest[e] # "full" /\ (e # 1 => dest[e] = "absent")

DestOK == PartialOK /\ OwnOK /\ TargetOK

LEMMA DestInit == Init => DestOK
BY TreeAssumption
  DEF Init, DestOK, PartialOK, OwnOK, TargetOK, Writing, Start, Creating,
    Entries

LEMMA DestStep ==
  TypeOK /\ ControlOK /\ DestOK /\ [Next]_vars => DestOK'
<1> SUFFICES ASSUME TypeOK, ControlOK, DestOK, [Next]_vars PROVE DestOK'
  OBVIOUS
<1>0. job' = job /\ Streaming' = Streaming
  BY JobStable
<1> USE <1>0 DEF TypeOK, ControlOK, Copying, DestOK, PartialOK, OwnOK,
  TargetOK, Writing, End, Failed
<1>1. ASSUME Skip \/ Visit \/ CopyDone PROVE DestOK'
  BY <1>1 DEF Skip, Visit, CopyDone, Creating, Streaming, Streamed
<1>2. ASSUME CheckTarget PROVE DestOK'
  BY <1>2 DEF CheckTarget, Streaming, Streamed
<1>3. ASSUME MakeFolder \/ FinishWriter PROVE DestOK'
  BY <1>3 DEF MakeFolder, FinishWriter, Made, Streaming, Streamed
<1>4. ASSUME OpenTarget \/ StoreFails PROVE DestOK'
  BY <1>4 DEF OpenTarget, StoreFails, StoreFailsInto, Streaming
<1>5. ASSUME ReadChunk \/ WriteChunk PROVE DestOK'
  BY <1>5 DEF ReadChunk, Read, WriteChunk
<1>6. ASSUME FinishReader \/ FinishWriterFails PROVE DestOK'
  BY <1>6 DEF FinishReader, ReaderFinishedIf, FinishWriterFails, Streaming
<1>7. ASSUME CleanUp PROVE DestOK'
  BY <1>7 DEF CleanUp, Goes
<1>8. ASSUME RemoveStep PROVE DestOK'
  BY <1>8 DEF RemoveStep, RemoveLocal, RemoveEnter, RemoveNameless,
    RemoveEntry, RemoveFails, RemovalFails
<1>9. ASSUME RenameStep PROVE DestOK'
  BY <1>9 DEF RenameStep, Rename, RenameFails, RenameOver
<1>10. ASSUME StopRequested \/ DeadlinePasses \/ Killed PROVE DestOK'
  BY <1>10 DEF StopRequested, DeadlinePasses, Killed
<1>11. ASSUME NEW e \in Entries, ForeignCreates(e) PROVE DestOK'
  <2>1. e # 1 => Parent[e] \in Entries
    <3>1. e # 1 => e \in 2..N
      BY TreeAssumption DEF Entries
    <3> QED BY ONLY <3>1, TreeAssumption
  <2> QED BY <1>11, <2>1 DEF ForeignCreates, Goes
<1>12. ASSUME NEW e \in Entries, SourceGains(e) PROVE DestOK'
  BY <1>12 DEF SourceGains, Goes
<1>13. ASSUME UNCHANGED vars PROVE DestOK'
  BY <1>13 DEF vars, Goes
<1> QED
  BY <1>1, <1>2, <1>3, <1>4, <1>5, <1>6, <1>7, <1>8, <1>9, <1>10, <1>11,
    <1>12, <1>13 DEF Next, CopyStep, Ended

LEMMA DestInvariance == Spec => [](TypeOK /\ ControlOK /\ DestOK)
<1>1. Init => TypeOK /\ ControlOK /\ DestOK
  BY InitHolds, DestInit DEF IInv
<1>2. TypeOK /\ ControlOK /\ DestOK /\ [Next]_vars
        => (TypeOK /\ ControlOK /\ DestOK)'
  BY TypeStep, ControlStep, DestStep
<1> QED BY <1>1, <1>2, PTL DEF Spec

(* A copy that failed leaves no file of its own behind, except after a     *)
(* lost reply, a kill, or a stop at a remote destination (copy_stream).    *)
THEOREM CleanUpCorrect == Spec => []CleanedUp
<1>1. TypeOK /\ ControlOK /\ DestOK => CleanedUp
  BY DEF DestOK, PartialOK, CleanedUp, Streaming, Writing
<1> QED BY <1>1, DestInvariance, PTL

(* No step takes what another client made at the destination, except the   *)
(* store and the rename of FTP.                                            *)
LEMMA ForeignStep ==
  ASSUME TypeOK, ControlOK, DestOK, [Next]_vars,
         NEW e \in Entries, dest[e] = "foreign"
  PROVE  dest'[e] = "foreign" \/ (job.to = "ftp" /\ pc \in {"store", "rename"})
<1> DEFINE Goal == \/ dest'[e] = "foreign"
                   \/ job.to = "ftp" /\ pc \in {"store", "rename"}
<1> USE DEF TypeOK
<1>1. ASSUME \/ Skip \/ Visit \/ CheckTarget \/ ReadChunk \/ WriteChunk
             \/ FinishReader \/ FinishWriterFails \/ CopyDone \/ RemoveStep
      PROVE  Goal
  BY <1>1 DEF Skip, Visit, CheckTarget, ReadChunk, Read, WriteChunk,
    FinishReader, ReaderFinishedIf, FinishWriterFails, CopyDone, RemoveStep,
    RemoveLocal, RemoveEnter, RemoveNameless, RemoveEntry, RemoveFails
<1>2. ASSUME MakeFolder \/ OpenTarget \/ StoreFails PROVE Goal
  BY <1>2 DEF MakeFolder, Made, OpenTarget, StoreFails, StoreFailsInto
<1>3. ASSUME FinishWriter \/ CleanUp PROVE Goal
  BY <1>3 DEF FinishWriter, Made, CleanUp, DestOK, OwnOK, Writing
<1>4. ASSUME RenameStep PROVE Goal
  BY <1>4 DEF RenameStep, Rename, RenameFails, RenameOver, DestOK, TargetOK
<1>5. ASSUME \/ StopRequested \/ DeadlinePasses \/ Killed \/ UNCHANGED vars
             \/ \E f \in Entries : ForeignCreates(f) \/ SourceGains(f)
      PROVE  Goal
  BY <1>5 DEF StopRequested, DeadlinePasses, Killed, vars, ForeignCreates,
    SourceGains
<1> HIDE DEF Goal
<1>6. Goal
  BY <1>1, <1>2, <1>3, <1>4, <1>5 DEF Next, CopyStep, Ended
<1> QED BY <1>6 DEF Goal

(* What others put at the destination meanwhile is kept (create_new,       *)
(* create_folder, the clean-up of copy_stream and rename).                 *)
THEOREM ForeignCorrect == Spec => ForeignKept
<1>1. TypeOK /\ ControlOK /\ DestOK /\ [Next]_vars =>
        [\A e \in Entries : dest[e] = "foreign" =>
           \/ dest'[e] = "foreign"
           \/ job.to = "ftp" /\ pc \in {"store", "rename"}]_vars
  BY ForeignStep
<1> QED BY <1>1, DestInvariance, PTL DEF Spec, ForeignKept
=============================================================================
