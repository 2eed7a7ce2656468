-------------------------- MODULE Desktop_proofs ----------------------------
(***************************************************************************)
(* Proofs about the clipboard, drags, shell objects, disk images, scans,   *)
(* archives and cloud content, for every value of their constants, what    *)
(* follows for Desktop, and, in the last section, proofs about the helper  *)
(* of file operations.  Names of the proofs of a part begin with its       *)
(* instance.                                                               *)
(***************************************************************************)
EXTENDS Desktop, OperationHelper, Sequences, FiniteSetTheorems, TLAPS

-----------------------------------------------------------------------------
(* Proofs about Clipboard for every number of copies, reads and pastes.      *)
BoardCallers == cbReads \cup cbPastes

BoardBoards == [who : cbTokens \cup {cbOther, None}, op : {"copy", "cut"},
           files : {"none", "local", "staged"}]

BoardCalls ==
  [step : {"new", "resolve", "job", "paste", "reread", "compare", "empty", "over"}, saw : BoardBoards,
   got : cbTokens \cup {cbOther, None}]

BoardThreads ==
  [step : {"none", "measure", "download", "publish", "put", "look", "clean", "over", "rejected"},
   done : 0..cbItems, keep : cbTokens \cup {cbOther, None}]

\* What a call returned it saw on the clipboard, and what it clears is that
\* or a cut.
BoardCallOK(r) ==
  /\ r.step \in {"new", "resolve"} => r.got = None
  /\ r.got \in cbTokens => r.saw.who = r.got
  /\ r.step \in {"paste", "reread", "compare", "empty"} => r.got # None
  /\ r.step = "reread" => r.got = cbOther
  /\ r.step \in {"compare", "empty"} /\ r.got \notin cbTokens => r.saw.op = "cut"

\* The folder of a thread that has not begun or that is over.
BoardFolderOK(t, s, d) ==
  /\ s.step \in {"none", "measure"} => d = "absent"
  /\ s.step \notin {"clean", "over"} => s.keep = None
  /\ s.step = "over" /\ s.keep # t => d = "absent"

\* One task at a time is between its comparison and its write, and only other
\* programs change the clipboard meanwhile.
BoardWindowOK ==
  /\ \A t \in cbTokens : cbStaging[t].step = "put" =>
       /\ cbBoard.who \in {t, cbOther}
       /\ \A u \in cbTokens : cbStaging[u].step = "put" => u = t
       /\ \A c \in BoardCallers : cbCall[c].step # "empty"
  /\ \A c \in BoardCallers : cbCall[c].step = "empty" =>
       /\ cbBoard.who \in {cbCall[c].saw.who, cbOther}
       /\ \A d \in BoardCallers : cbCall[d].step = "empty" => d = c

BoardTypeInv ==
  /\ cbMemory \in cbTokens \cup {None} /\ cbJob \in cbTokens \cup {None} /\ cbFlags \subseteq cbTokens
  /\ cbBoard \in BoardBoards
  /\ cbCopy \in [cbTokens -> {"new", "set", "write", "stage", "over"}]
  /\ cbCall \in [BoardCallers -> BoardCalls] /\ cbStaging \in [cbTokens -> BoardThreads]
  /\ cbDirs \in [cbTokens -> {"absent", "partial", "whole"}]
  /\ cbCleaners \subseteq cbTokens \cup {cbOther, None}

BoardData ==
  /\ BoardTypeInv
  /\ \A c \in BoardCallers : BoardCallOK(cbCall[c])
  /\ \A t \in cbTokens : BoardFolderOK(t, cbStaging[t], cbDirs[t])
  /\ \A t \in cbTokens : cbCopy[t] # "over" => cbStaging[t].step = "none"

BoardIInv == BoardData /\ BoardWindowOK

LEMMA BoardEmptyFits == Board!Empty \in BoardBoards
  BY DEF Board!Empty, BoardBoards

LEMMA BoardOpFits == ASSUME NEW t PROVE Board!OpOf(t) \in {"copy", "cut"}
  BY DEF Board!OpOf

LEMMA BoardPublishFits ==
  ASSUME NEW who \in cbTokens \cup {cbOther, None}, NEW op \in {"copy", "cut"},
         NEW files \in {"none", "local", "staged"}, Board!Publish(who, op, files)
  PROVE  cbBoard' \in BoardBoards /\ cbBoard'.who = who /\ cbBoard'.files = files
  BY DEF Board!Publish, BoardBoards

LEMMA BoardInitHolds == ASSUME Board!ClipboardAssumption PROVE Board!Init => BoardData
<1> SUFFICES ASSUME Board!Init PROVE BoardData
  OBVIOUS
<1> DEFINE r == [step |-> "new", saw |-> Board!Empty, got |-> None]
           s == [step |-> "none", done |-> 0, keep |-> None]
<1>1. r \in BoardCalls /\ BoardCallOK(r)
  BY BoardEmptyFits DEF BoardCalls, BoardCallOK, Board!ClipboardAssumption
<1>2. s \in BoardThreads /\ (\A t \in cbTokens : BoardFolderOK(t, s, "absent")) /\ s.step = "none"
  BY DEF BoardThreads, BoardFolderOK, Board!ClipboardAssumption
<1>3. cbCall = [c \in BoardCallers |-> r] /\ cbStaging = [t \in cbTokens |-> s]
  BY DEF Board!Init, BoardCallers
<1> HIDE DEF r, s
<1>4. BoardTypeInv
  BY <1>1, <1>2, <1>3, BoardEmptyFits DEF Board!Init, BoardTypeInv
<1> QED BY <1>1, <1>2, <1>3, <1>4 DEF Board!Init, BoardData

-----------------------------------------------------------------------------
\* Steps of a copy.

LEMMA BoardCopyHolds ==
  ASSUME Board!ClipboardAssumption, BoardData, NEW t \in cbTokens,
         Board!CopyBegins(t) \/ Board!CancelOld(t)
  PROVE  BoardData'
<1>1. PICK s \in {"set", "write"} : cbCopy[t] # "over" /\ cbCopy' = [cbCopy EXCEPT ![t] = s]
  BY DEF Board!CopyBegins, Board!CancelOld, Board!Step
<1>2. /\ cbMemory' \in cbTokens \cup {None} /\ cbJob' \in cbTokens \cup {None} /\ cbFlags' \subseteq cbTokens
  BY DEF Board!CopyBegins, Board!CancelOld, BoardData, BoardTypeInv
<1>3. UNCHANGED <<cbBoard, cbCall, cbStaging, cbDirs, cbCleaners>>
  BY DEF Board!CopyBegins, Board!CancelOld, Board!threads
<1> QED BY <1>1, <1>2, <1>3 DEF BoardData, BoardTypeInv

LEMMA BoardWriteBoardHolds ==
  ASSUME Board!ClipboardAssumption, BoardData, NEW t \in cbTokens, Board!WriteBoard(t)
  PROVE  BoardData'
<1>1. PICK s \in {"stage", "over"} : cbCopy[t] = "write" /\ cbCopy' = [cbCopy EXCEPT ![t] = s]
  BY DEF Board!WriteBoard, Board!Step
<1>2. cbBoard' \in BoardBoards
  BY BoardOpFits DEF Board!WriteBoard, Board!Publish, BoardBoards, BoardData,
    BoardTypeInv
<1>3. cbMemory' \in cbTokens \cup {None}
  BY DEF Board!WriteBoard, BoardData, BoardTypeInv
<1>4. UNCHANGED <<cbCall, cbJob, cbFlags, cbStaging, cbDirs, cbCleaners>>
  BY DEF Board!WriteBoard, Board!threads
<1> QED BY <1>1, <1>2, <1>3, <1>4 DEF BoardData, BoardTypeInv

-----------------------------------------------------------------------------
\* Steps of a staging thread.

LEMMA BoardStageHolds ==
  ASSUME BoardData, NEW t \in cbTokens, NEW s \in BoardThreads,
         NEW d \in {"absent", "partial", "whole"},
         cbStaging' = [cbStaging EXCEPT ![t] = s], cbDirs' = [cbDirs EXCEPT ![t] = d], BoardFolderOK(t, s, d),
         cbCopy[t] = "over", cbBoard' \in BoardBoards, UNCHANGED <<cbMemory, cbCopy, cbCall, cbFlags, cbCleaners>>,
         cbJob' \in cbTokens \cup {None}
  PROVE  BoardData'
<1>1. BoardTypeInv'
  BY DEF BoardData, BoardTypeInv
<1>2. \A u \in cbTokens : BoardFolderOK(u, cbStaging[u], cbDirs[u])'
  BY DEF BoardData, BoardTypeInv
<1> QED BY <1>1, <1>2 DEF BoardData, BoardTypeInv

LEMMA BoardStartStagingHolds ==
  ASSUME Board!ClipboardAssumption, BoardData, NEW t \in cbTokens, Board!StartStaging(t)
  PROVE  BoardData'
<1> DEFINE s == [cbStaging[t] EXCEPT !.step = "measure"]
<1>1. /\ cbCopy[t] = "stage" /\ cbCopy' = [cbCopy EXCEPT ![t] = "over"] /\ cbJob' = t
      /\ cbStaging' = [cbStaging EXCEPT ![t] = s] /\ UNCHANGED <<cbMemory, cbBoard, cbCall, cbFlags, cbDirs, cbCleaners>>
  BY DEF Board!StartStaging, Board!Step
<1>2. cbStaging[t] \in BoardThreads /\ cbStaging[t].step = "none" /\ BoardFolderOK(t, cbStaging[t], cbDirs[t])
  BY <1>1 DEF BoardData, BoardTypeInv
<1>3. s \in BoardThreads /\ s.step = "measure" /\ s.keep = cbStaging[t].keep
  BY <1>2 DEF BoardThreads
<1> HIDE DEF s
<1>4. BoardFolderOK(t, s, cbDirs[t])
  BY <1>2, <1>3 DEF BoardFolderOK
<1>5. BoardTypeInv'
  BY <1>1, <1>3 DEF BoardData, BoardTypeInv
<1> QED BY <1>1, <1>4, <1>5 DEF BoardData, BoardTypeInv

\* A thread that runs has been started.
LEMMA BoardStarted ==
  ASSUME BoardData, NEW t \in cbTokens, cbStaging[t].step # "none"
  PROVE  /\ cbCopy[t] = "over" /\ cbStaging[t] \in BoardThreads /\ BoardFolderOK(t, cbStaging[t], cbDirs[t])
         /\ cbDirs[t] \in {"absent", "partial", "whole"} /\ cbDirs = [cbDirs EXCEPT ![t] = cbDirs[t]]
  BY DEF BoardData, BoardTypeInv

LEMMA BoardMeasureHolds ==
  ASSUME Board!ClipboardAssumption, BoardData, NEW t \in cbTokens, Board!Measure(t)
  PROVE  BoardData'
<1>1. /\ cbStaging[t].step = "measure" /\ UNCHANGED <<cbMemory, cbCopy, cbCall, cbJob, cbFlags, cbBoard, cbCleaners>>
  BY DEF Board!Measure, Board!rest
<1>2. PICK x \in {"download", "over"} :
        /\ cbStaging' = [cbStaging EXCEPT ![t] = [cbStaging[t] EXCEPT !.step = x]]
        /\ \/ x = "download" /\ cbDirs' = [cbDirs EXCEPT ![t] = "partial"]
           \/ x = "over" /\ cbDirs' = cbDirs
  BY DEF Board!Measure, Board!Stage, Board!Dir
<1> DEFINE s == [cbStaging[t] EXCEPT !.step = x]
<1>3. s \in BoardThreads /\ s.step = x /\ s.keep = cbStaging[t].keep
  BY <1>1, BoardStarted DEF BoardThreads
<1> HIDE DEF s
<1>4. cbStaging' = [cbStaging EXCEPT ![t] = s]
  BY <1>2 DEF s
<1>5. cbDirs[t] = "absent"
  BY <1>1, BoardStarted DEF BoardFolderOK
<1>6. PICK d \in {"absent", "partial"} : cbDirs' = [cbDirs EXCEPT ![t] = d] /\ BoardFolderOK(t, s, d)
  BY <1>1, <1>2, <1>3, <1>5, BoardStarted DEF BoardFolderOK
<1> QED BY <1>1, <1>3, <1>4, <1>6, BoardStageHolds, BoardStarted DEF BoardData,
    BoardTypeInv

LEMMA BoardDownloadHolds ==
  ASSUME Board!ClipboardAssumption, BoardData, NEW t \in cbTokens, Board!Download(t)
  PROVE  BoardData'
<1> DEFINE s == [cbStaging[t] EXCEPT !.done = @ + 1]
<1>1. /\ cbStaging[t].step = "download" /\ cbStaging[t].done < cbItems
      /\ UNCHANGED <<cbMemory, cbCopy, cbCall, cbJob, cbFlags, cbBoard, cbCleaners>>
      /\ cbStaging' = [cbStaging EXCEPT ![t] = s]
  BY DEF Board!Download, Board!rest, Board!Stage
<1>2. /\ cbStaging[t] \in BoardThreads /\ cbStaging[t].done \in 0..cbItems /\ cbItems \in Nat
      /\ cbStaging[t].done + 1 \in 0..cbItems
  BY <1>1, BoardStarted DEF BoardThreads, Board!ClipboardAssumption
<1>3. s \in BoardThreads /\ s.step = "download" /\ s.keep = cbStaging[t].keep
  BY <1>1, <1>2 DEF BoardThreads
<1> HIDE DEF s
<1>4. PICK d \in {"absent", "partial", "whole"} : cbDirs' = [cbDirs EXCEPT ![t] = d]
  BY <1>1, BoardStarted DEF Board!Download, Board!Dir
<1>5. BoardFolderOK(t, s, d)
  BY <1>1, <1>3, BoardStarted DEF BoardFolderOK
<1> QED BY <1>1, <1>3, <1>4, <1>5, BoardStageHolds, BoardStarted DEF BoardData,
    BoardTypeInv

LEMMA BoardDownloadFailsHolds ==
  ASSUME Board!ClipboardAssumption, BoardData, NEW t \in cbTokens, Board!DownloadFails(t)
  PROVE  BoardData'
<1> DEFINE s == [cbStaging[t] EXCEPT !.step = "over"]
<1>1. /\ cbStaging[t].step = "download" /\ cbDirs' = [cbDirs EXCEPT ![t] = "absent"]
      /\ UNCHANGED <<cbMemory, cbCopy, cbCall, cbJob, cbFlags, cbBoard, cbCleaners>>
      /\ cbStaging' = [cbStaging EXCEPT ![t] = s]
  BY DEF Board!DownloadFails, Board!rest, Board!Stage, Board!Dir
<1>2. s \in BoardThreads /\ s.step = "over"
  BY <1>1, BoardStarted DEF BoardThreads
<1> HIDE DEF s
<1>3. BoardFolderOK(t, s, "absent")
  BY <1>2 DEF BoardFolderOK
<1> QED BY <1>1, <1>2, <1>3, BoardStageHolds, BoardStarted DEF BoardData, BoardTypeInv

\* The steps that follow the last item leave the folder as it is.
LEMMA BoardAfterHolds ==
  ASSUME Board!ClipboardAssumption, BoardData, NEW t \in cbTokens,
         Board!Downloaded(t) \/ Board!Compare(t) \/ Board!PublishFiles(t) \/ Board!Look(t)
  PROVE  BoardData'
<1>1. /\ cbStaging[t].step \in {"download", "publish", "put", "look"}
      /\ UNCHANGED <<cbMemory, cbCopy, cbCall, cbJob, cbFlags, cbDirs, cbCleaners>>
  BY DEF Board!Downloaded, Board!Compare, Board!PublishFiles, Board!Look, Board!rest
<1>2. cbStaging[t] \in BoardThreads /\ cbStaging[t].keep = None
  BY <1>1, BoardStarted DEF BoardFolderOK
<1>3. cbBoard' \in BoardBoards
  BY BoardOpFits DEF Board!Downloaded, Board!Compare, Board!PublishFiles, Board!Look,
    Board!Publish, BoardBoards, BoardData, BoardTypeInv
<1>4. cbBoard.who \in cbTokens \cup {cbOther, None}
  BY DEF BoardData, BoardTypeInv, BoardBoards
<1>5. PICK x \in {"publish", "put", "clean", "look", "rejected"}, k \in cbTokens \cup {cbOther, None} :
        /\ cbStaging' = [cbStaging EXCEPT ![t] = [cbStaging[t] EXCEPT !.step = x, !.keep = k]]
        /\ x # "clean" => k = None
  <2>1. \A x : [cbStaging[t] EXCEPT !.step = x] = [cbStaging[t] EXCEPT !.step = x, !.keep = None]
    BY <1>2 DEF BoardThreads
  <2> QED BY <1>4, <2>1 DEF Board!Downloaded, Board!Compare, Board!PublishFiles,
      Board!Look, Board!Stage
<1> DEFINE s == [cbStaging[t] EXCEPT !.step = x, !.keep = k]
<1>6. s \in BoardThreads /\ s.step = x /\ s.keep = k
  BY <1>2 DEF BoardThreads
<1> HIDE DEF s
<1>7. cbStaging' = [cbStaging EXCEPT ![t] = s]
  BY <1>5 DEF s
<1>8. BoardFolderOK(t, s, cbDirs[t])
  BY <1>5, <1>6 DEF BoardFolderOK
<1>9. cbDirs' = [cbDirs EXCEPT ![t] = cbDirs[t]]
  BY <1>1, BoardStarted
<1> QED BY <1>1, <1>3, <1>6, <1>7, <1>8, <1>9, BoardStageHolds, BoardStarted
    DEF BoardData, BoardTypeInv

\* A cleanup only takes folders away.
LEMMA BoardRemovedFits ==
  ASSUME BoardData, NEW k
  PROVE  /\ Board!Removed(k) \in [cbTokens -> {"absent", "partial", "whole"}]
         /\ \A u \in cbTokens : BoardFolderOK(u, cbStaging[u], Board!Removed(k)[u])
<1>1. \A u \in cbTokens : Board!Removed(k)[u] \in {cbDirs[u], "absent"}
  BY DEF Board!Removed
<1>2. \A u \in cbTokens : BoardFolderOK(u, cbStaging[u], "absent")
  BY DEF BoardData, BoardFolderOK
<1> QED BY <1>1, <1>2 DEF BoardData, BoardTypeInv, Board!Removed

LEMMA BoardCleanHolds ==
  ASSUME Board!ClipboardAssumption, BoardData, NEW t \in cbTokens, Board!Clean(t)
  PROVE  BoardData'
<1> DEFINE s == [cbStaging[t] EXCEPT !.step = "over"]
<1>1. /\ cbStaging[t].step = "clean" /\ cbDirs' = Board!Removed(cbStaging[t].keep)
      /\ UNCHANGED <<cbMemory, cbCopy, cbCall, cbJob, cbFlags, cbBoard, cbCleaners>>
      /\ cbStaging' = [cbStaging EXCEPT ![t] = s]
  BY DEF Board!Clean, Board!rest, Board!Stage
<1>2. s \in BoardThreads /\ s.step = "over" /\ s.keep = cbStaging[t].keep
  BY <1>1, BoardStarted DEF BoardThreads
<1> HIDE DEF s
<1>3. /\ cbDirs' \in [cbTokens -> {"absent", "partial", "whole"}]
      /\ \A u \in cbTokens : BoardFolderOK(u, cbStaging[u], cbDirs'[u])
  BY <1>1, BoardRemovedFits
<1>4. BoardFolderOK(t, s, cbDirs'[t])
  BY <1>1, <1>2 DEF BoardFolderOK, Board!Removed
<1>5. BoardTypeInv'
  BY <1>1, <1>2, <1>3 DEF BoardData, BoardTypeInv
<1>6. \A u \in cbTokens : BoardFolderOK(u, cbStaging'[u], cbDirs'[u])
  BY <1>1, <1>3, <1>4 DEF BoardData, BoardTypeInv
<1> QED BY <1>1, <1>5, <1>6, BoardStarted DEF BoardData, BoardTypeInv

LEMMA BoardCleanerHolds ==
  ASSUME Board!ClipboardAssumption, BoardData, NEW k \in cbCleaners, Board!CleanerRuns(k)
  PROVE  BoardData'
<1>1. /\ cbDirs' = Board!Removed(k) /\ cbCleaners' \subseteq cbCleaners
      /\ UNCHANGED <<cbMemory, cbCopy, cbCall, cbJob, cbFlags, cbBoard, cbStaging>>
  BY DEF Board!CleanerRuns, Board!rest
<1>2. /\ cbDirs' \in [cbTokens -> {"absent", "partial", "whole"}]
      /\ \A u \in cbTokens : BoardFolderOK(u, cbStaging[u], cbDirs'[u])
  BY <1>1, BoardRemovedFits
<1> QED BY <1>1, <1>2 DEF BoardData, BoardTypeInv

-----------------------------------------------------------------------------
\* Steps of a read or paste.

LEMMA BoardCallHolds ==
  ASSUME BoardData, NEW c \in BoardCallers, NEW r \in BoardCalls,
         cbCall' = [cbCall EXCEPT ![c] = r], BoardCallOK(r),
         UNCHANGED <<cbCopy, cbStaging, cbDirs>>, cbMemory' \in cbTokens \cup {None},
         cbJob' \in cbTokens \cup {None}, cbFlags' \subseteq cbTokens, cbBoard' \in BoardBoards,
         cbCleaners' \subseteq cbTokens \cup {cbOther, None}
  PROVE  BoardData'
<1>1. BoardTypeInv'
  BY DEF BoardData, BoardTypeInv
<1>2. \A d \in BoardCallers : BoardCallOK(cbCall[d])'
  BY DEF BoardData, BoardTypeInv
<1> QED BY <1>1, <1>2 DEF BoardData

LEMMA BoardCallKnown ==
  ASSUME Board!ClipboardAssumption, BoardData, NEW c \in BoardCallers
  PROVE  cbCall[c] \in BoardCalls /\ cbCall[c].saw \in BoardBoards /\ BoardCallOK(cbCall[c])
  BY DEF BoardData, BoardTypeInv, BoardCalls

LEMMA BoardReadBoardHolds ==
  ASSUME Board!ClipboardAssumption, BoardData, NEW c \in BoardCallers, Board!ReadBoard(c)
  PROVE  BoardData'
<1> DEFINE r == [cbCall[c] EXCEPT !.step = "resolve", !.saw = cbBoard]
<1>1. /\ cbCall[c].step = "new" /\ cbCall' = [cbCall EXCEPT ![c] = r]
      /\ UNCHANGED <<cbMemory, cbBoard, cbCopy, cbJob, cbFlags, cbStaging, cbDirs, cbCleaners>>
  BY DEF Board!ReadBoard, Board!Call, Board!threads
<1>2. cbCall[c] \in BoardCalls /\ cbCall[c].got = None /\ cbBoard \in BoardBoards
  BY <1>1, BoardCallKnown DEF BoardCallOK, BoardData, BoardTypeInv
<1>3. r \in BoardCalls /\ r.got = None /\ r.step = "resolve"
  BY <1>2 DEF BoardCalls
<1> HIDE DEF r
<1>4. BoardCallOK(r)
  BY <1>3 DEF BoardCallOK, Board!ClipboardAssumption
<1> QED BY <1>1, <1>3, <1>4, BoardCallHolds DEF BoardData, BoardTypeInv

LEMMA BoardResolveHolds ==
  ASSUME Board!ClipboardAssumption, BoardData, NEW c \in BoardCallers, Board!Resolve(c)
  PROVE  BoardData'
<1>1. PICK g \in cbTokens \cup {cbOther, None} :
        /\ cbCall' = [cbCall EXCEPT ![c] = [cbCall[c] EXCEPT !.step = "job", !.got = g]]
        /\ g \in cbTokens => cbCall[c].saw.who = g
  BY DEF Board!Resolve, Board!Call, BoardData, BoardTypeInv, Board!ClipboardAssumption
<1>2. /\ cbMemory' \in cbTokens \cup {None}
      /\ UNCHANGED <<cbBoard, cbCopy, cbJob, cbFlags, cbStaging, cbDirs, cbCleaners>>
  BY DEF Board!Resolve, Board!threads, BoardData, BoardTypeInv
<1> DEFINE r == [cbCall[c] EXCEPT !.step = "job", !.got = g]
<1>3. r \in BoardCalls /\ r.step = "job" /\ r.got = g /\ r.saw = cbCall[c].saw
  BY BoardCallKnown DEF BoardCalls
<1> HIDE DEF r
<1>4. cbCall' = [cbCall EXCEPT ![c] = r]
  BY <1>1 DEF r
<1>5. BoardCallOK(r)
  BY <1>1, <1>3 DEF BoardCallOK
<1> QED BY <1>2, <1>3, <1>4, <1>5, BoardCallHolds DEF BoardData, BoardTypeInv

\* The later steps of a call keep what it returned, and what it saw unless it
\* reads again.
LEMMA BoardCallMoves ==
  ASSUME Board!ClipboardAssumption, BoardData, NEW c \in BoardCallers,
         NEW x \in {"paste", "reread", "compare", "empty", "over"},
         cbCall[c].step \in {"job", "paste", "reread", "compare", "empty"},
         cbCall' = [cbCall EXCEPT ![c] = [cbCall[c] EXCEPT !.step = x]],
         x \in {"paste", "reread", "compare", "empty"} => cbCall[c].got # None,
         x = "reread" => cbCall[c].got = cbOther,
         x \in {"compare", "empty"} /\ cbCall[c].got \notin cbTokens => cbCall[c].saw.op = "cut",
         UNCHANGED <<cbCopy, cbStaging, cbDirs>>, cbMemory' \in cbTokens \cup {None},
         cbJob' \in cbTokens \cup {None}, cbFlags' \subseteq cbTokens, cbBoard' \in BoardBoards,
         cbCleaners' \subseteq cbTokens \cup {cbOther, None}
  PROVE  BoardData'
<1> DEFINE r == [cbCall[c] EXCEPT !.step = x]
<1>1. r \in BoardCalls /\ r.step = x /\ r.got = cbCall[c].got /\ r.saw = cbCall[c].saw
  BY BoardCallKnown DEF BoardCalls
<1> HIDE DEF r
<1>2. cbCall' = [cbCall EXCEPT ![c] = r]
  BY DEF r
<1>3. BoardCallOK(r)
  BY <1>1, BoardCallKnown DEF BoardCallOK
<1> QED BY <1>1, <1>2, <1>3, BoardCallHolds

LEMMA BoardJobCheckHolds ==
  ASSUME Board!ClipboardAssumption, BoardData, NEW c \in BoardCallers, Board!JobCheck(c)
  PROVE  BoardData'
<1>1. cbCall[c].saw.who \in cbTokens \cup {cbOther, None}
  BY BoardCallKnown DEF BoardBoards
<1>2. /\ cbCall[c].step = "job" /\ UNCHANGED <<cbMemory, cbBoard, cbCopy, cbStaging, cbDirs>>
      /\ cbJob' \in cbTokens \cup {None} /\ cbFlags' \subseteq cbTokens
      /\ cbCleaners' \subseteq cbTokens \cup {cbOther, None}
  BY <1>1 DEF Board!JobCheck, BoardData, BoardTypeInv
<1>3. PICK x \in {"paste", "over"} :
        /\ cbCall' = [cbCall EXCEPT ![c] = [cbCall[c] EXCEPT !.step = x]]
        /\ x = "paste" => cbCall[c].got # None
  BY DEF Board!JobCheck, Board!Call
<1> QED BY <1>2, <1>3, BoardCallMoves DEF BoardData, BoardTypeInv

LEMMA BoardConsumeHolds ==
  ASSUME Board!ClipboardAssumption, BoardData, NEW c \in BoardCallers, Board!Consume(c)
  PROVE  BoardData'
<1>1. /\ cbCall[c].step = "paste" /\ UNCHANGED <<cbBoard, cbCopy, cbJob, cbFlags, cbStaging, cbDirs, cbCleaners>>
      /\ cbMemory' \in cbTokens \cup {None}
  BY DEF Board!Consume, Board!threads, BoardData, BoardTypeInv
<1>2. cbCall[c].got # None /\ cbCall[c].got \in cbTokens \cup {cbOther, None}
  BY <1>1, BoardCallKnown DEF BoardCallOK, BoardCalls
<1>3. PICK x \in {"reread", "compare", "over"} :
        /\ cbCall' = [cbCall EXCEPT ![c] = [cbCall[c] EXCEPT !.step = x]]
        /\ x = "reread" => cbCall[c].got = cbOther
        /\ x = "compare" => cbCall[c].got # cbOther
  BY DEF Board!Consume, Board!Call
<1> QED BY <1>1, <1>2, <1>3, BoardCallMoves DEF BoardData, BoardTypeInv

LEMMA BoardRereadHolds ==
  ASSUME Board!ClipboardAssumption, BoardData, NEW c \in BoardCallers, Board!Reread(c)
  PROVE  BoardData'
<1>1. /\ cbCall[c].step = "reread" /\ UNCHANGED <<cbMemory, cbCopy, cbJob, cbFlags, cbStaging, cbDirs, cbCleaners>>
      /\ cbBoard \in BoardBoards
  BY DEF Board!Reread, Board!threads, BoardData, BoardTypeInv
<1>2. cbBoard' \in BoardBoards
  BY <1>1 DEF Board!Reread, Board!Publish, BoardBoards
<1>3. cbCall[c] \in BoardCalls /\ cbCall[c].got = cbOther /\ cbOther \notin cbTokens /\ cbOther # None
  BY <1>1, BoardCallKnown DEF BoardCallOK, Board!ClipboardAssumption
<1>4. CASE cbCall' = [cbCall EXCEPT ![c] = [cbCall[c] EXCEPT !.step = "over"]]
  BY <1>1, <1>2, <1>4, BoardCallMoves DEF BoardData, BoardTypeInv
<1>5. CASE cbBoard.op = "cut" /\ cbCall' = [cbCall EXCEPT ![c] = [cbCall[c] EXCEPT !.step = "compare", !.saw = cbBoard]]
  <2> DEFINE r == [cbCall[c] EXCEPT !.step = "compare", !.saw = cbBoard]
  <2>1. r \in BoardCalls /\ r.step = "compare" /\ r.got = cbOther /\ r.saw = cbBoard
    BY <1>1, <1>3 DEF BoardCalls
  <2> HIDE DEF r
  <2>2. cbCall' = [cbCall EXCEPT ![c] = r]
    BY <1>5 DEF r
  <2>3. BoardCallOK(r)
    BY <1>3, <1>5, <2>1 DEF BoardCallOK
  <2> QED BY <1>1, <1>2, <2>1, <2>2, <2>3, BoardCallHolds DEF BoardData, BoardTypeInv
<1> QED BY <1>4, <1>5 DEF Board!Reread, Board!Call

LEMMA BoardClearHolds ==
  ASSUME Board!ClipboardAssumption, BoardData, NEW c \in BoardCallers,
         Board!CompareToken(c) \/ Board!Clear(c)
  PROVE  BoardData'
<1>1. /\ cbCall[c].step \in {"compare", "empty"}
      /\ UNCHANGED <<cbMemory, cbCopy, cbJob, cbFlags, cbStaging, cbDirs, cbCleaners>>
  BY DEF Board!CompareToken, Board!Clear, Board!threads
<1>2. cbBoard' \in BoardBoards
  BY DEF Board!CompareToken, Board!Clear, Board!Publish, BoardBoards, BoardData,
    BoardTypeInv
<1>3. /\ cbCall[c].got # None
      /\ cbCall[c].got \notin cbTokens => cbCall[c].saw.op = "cut"
  BY <1>1, BoardCallKnown DEF BoardCallOK
<1>4. PICK x \in {"empty", "over"} : cbCall' = [cbCall EXCEPT ![c] = [cbCall[c] EXCEPT !.step = x]]
  BY DEF Board!CompareToken, Board!Clear, Board!Call
<1> QED BY <1>1, <1>2, <1>3, <1>4, BoardCallMoves DEF BoardData, BoardTypeInv

LEMMA BoardForeignHolds ==
  ASSUME Board!ClipboardAssumption, BoardData, Board!Foreign
  PROVE  BoardData'
<1>1. cbBoard' \in BoardBoards
  BY DEF Board!Foreign, Board!Publish, BoardBoards
<1>2. UNCHANGED <<cbMemory, cbCopy, cbCall, cbJob, cbFlags, cbStaging, cbDirs, cbCleaners>>
  BY DEF Board!Foreign, Board!threads
<1> QED BY <1>1, <1>2 DEF BoardData, BoardTypeInv

LEMMA BoardDataHolds ==
  ASSUME Board!ClipboardAssumption, BoardData, [Board!Next]_Board!vars
  PROVE  BoardData'
<1>1. ASSUME NEW t \in cbTokens, Board!CopyBegins(t) \/ Board!CancelOld(t) \/ Board!WriteBoard(t) \/ Board!StartStaging(t)
      PROVE BoardData'
  BY <1>1, BoardCopyHolds, BoardWriteBoardHolds, BoardStartStagingHolds
<1>2. ASSUME NEW t \in cbTokens, Board!StagingStep(t) PROVE BoardData'
  BY <1>2, BoardMeasureHolds, BoardDownloadHolds, BoardDownloadFailsHolds,
    BoardAfterHolds, BoardCleanHolds DEF Board!StagingStep
<1>3. ASSUME NEW c \in BoardCallers, Board!CallStep(c) PROVE BoardData'
  BY <1>3, BoardReadBoardHolds, BoardResolveHolds, BoardJobCheckHolds,
    BoardConsumeHolds, BoardRereadHolds, BoardClearHolds DEF Board!CallStep
<1>4. ASSUME NEW k \in cbCleaners, Board!CleanerRuns(k) PROVE BoardData'
  BY <1>4, BoardCleanerHolds
<1>5. CASE UNCHANGED Board!vars
  BY <1>5 DEF Board!vars, BoardData, BoardTypeInv
<1> QED BY <1>1, <1>2, <1>3, <1>4, <1>5, BoardForeignHolds DEF Board!Next, BoardCallers

-----------------------------------------------------------------------------
\* Between a comparison and its write.

\* A step that begins no such task: the clipboard stays, or another program
\* takes it, or no task is there.
LEMMA BoardWindowQuiet ==
  ASSUME BoardIInv,
         \A t \in cbTokens : cbStaging'[t].step = "put" => cbStaging[t].step = "put",
         \A c \in BoardCallers : cbCall'[c].step = "empty" =>
            cbCall[c].step = "empty" /\ cbCall'[c].saw = cbCall[c].saw,
         cbBoard' = cbBoard \/ cbBoard'.who = cbOther \/ Board!Alone
  PROVE  BoardWindowOK'
BY DEF BoardIInv, BoardWindowOK, Board!Alone, BoardCallers

\* Threads and calls of which only one moves.
LEMMA BoardOneThread ==
  ASSUME BoardIInv, NEW t \in cbTokens, NEW s, Board!Stage(t, s)
  PROVE  cbStaging'[t] = s /\ \A u \in cbTokens : u # t => cbStaging'[u] = cbStaging[u]
BY DEF BoardIInv, BoardData, BoardTypeInv, Board!Stage

LEMMA BoardOneCall ==
  ASSUME BoardIInv, NEW c \in BoardCallers, NEW r, Board!Call(c, r)
  PROVE  cbCall'[c] = r /\ \A d \in BoardCallers : d # c => cbCall'[d] = cbCall[d]
BY DEF BoardIInv, BoardData, BoardTypeInv, Board!Call

\* Only a comparison leads to a write.
LEMMA BoardStagingElsewhere ==
  ASSUME BoardIInv, NEW t \in cbTokens, Board!StagingStep(t), ~Board!Compare(t)
  PROVE  cbStaging'[t].step # "put" /\ \A u \in cbTokens : u # t => cbStaging'[u] = cbStaging[u]
<1>1. cbStaging \in [cbTokens -> BoardThreads] /\ cbStaging[t] \in BoardThreads
  BY DEF BoardIInv, BoardData, BoardTypeInv
<1>2. CASE Board!Measure(t) \/ Board!DownloadFails(t)
  BY <1>1, <1>2 DEF Board!Measure, Board!DownloadFails, Board!Stage, BoardThreads
<1>3. CASE Board!Download(t)
  <2>1. cbStaging[t].step = "download" /\ Board!Stage(t, [cbStaging[t] EXCEPT !.done = @ + 1])
    BY <1>3 DEF Board!Download
  <2>2. [cbStaging[t] EXCEPT !.done = @ + 1].step = "download"
    BY <1>1, <2>1 DEF BoardThreads
  <2> QED BY <1>1, <2>1, <2>2 DEF Board!Stage
<1>4. CASE Board!Downloaded(t) \/ Board!Clean(t)
  BY <1>1, <1>4 DEF Board!Downloaded, Board!Clean, Board!Stage, BoardThreads
<1>5. CASE Board!Look(t)
  BY <1>1, <1>5 DEF Board!Look, Board!Stage, BoardThreads
<1>6. CASE Board!PublishFiles(t)
  <2>1. CASE Board!Stage(t, [cbStaging[t] EXCEPT !.step = "clean", !.keep = t])
    BY <1>1, <2>1 DEF Board!Stage, BoardThreads
  <2>2. CASE Board!Stage(t, [cbStaging[t] EXCEPT !.step = "rejected"])
    BY <1>1, <2>2 DEF Board!Stage, BoardThreads
  <2> QED BY <1>6, <2>1, <2>2 DEF Board!PublishFiles
<1> QED BY <1>2, <1>3, <1>4, <1>5, <1>6 DEF Board!StagingStep

LEMMA BoardCallElsewhere ==
  ASSUME BoardIInv, NEW c \in BoardCallers, Board!CallStep(c), ~Board!CompareToken(c)
  PROVE  cbCall'[c].step # "empty" /\ \A d \in BoardCallers : d # c => cbCall'[d] = cbCall[d]
<1>1. cbCall \in [BoardCallers -> BoardCalls] /\ cbCall[c] \in BoardCalls
  BY DEF BoardIInv, BoardData, BoardTypeInv
<1>2. CASE Board!ReadBoard(c)
  BY <1>1, <1>2 DEF Board!ReadBoard, Board!Call, BoardCalls
<1>3. CASE Board!Resolve(c)
  BY <1>1, <1>3 DEF Board!Resolve, Board!Call, BoardCalls
<1>4. CASE Board!JobCheck(c)
  BY <1>1, <1>4 DEF Board!JobCheck, Board!Call, BoardCalls
<1>5. CASE Board!Consume(c)
  BY <1>1, <1>5 DEF Board!Consume, Board!Call, BoardCalls
<1>6. CASE Board!Reread(c)
  BY <1>1, <1>6 DEF Board!Reread, Board!Call, BoardCalls
<1>7. CASE Board!Clear(c)
  BY <1>1, <1>7 DEF Board!Clear, Board!Call, BoardCalls
<1> QED BY <1>2, <1>3, <1>4, <1>5, <1>6, <1>7 DEF Board!CallStep

LEMMA BoardStagingWindow ==
  ASSUME Board!ClipboardAssumption, BoardIInv, NEW t \in cbTokens, Board!StagingStep(t)
  PROVE  BoardWindowOK'
<1>1. cbStaging[t] \in BoardThreads
  BY DEF BoardIInv, BoardData, BoardTypeInv
<1>2. UNCHANGED cbCall
  BY DEF Board!StagingStep, Board!Measure, Board!Download, Board!Downloaded,
    Board!DownloadFails, Board!Compare, Board!PublishFiles, Board!Look, Board!Clean,
    Board!rest
<1>3. CASE Board!Measure(t) \/ Board!Download(t) \/ Board!Downloaded(t) \/ Board!DownloadFails(t) \/ Board!Look(t) \/ Board!Clean(t)
  <2>1. UNCHANGED cbBoard
    BY <1>3 DEF Board!Measure, Board!Download, Board!Downloaded, Board!DownloadFails,
      Board!Look, Board!Clean
  <2>2. ~Board!Compare(t) \/ UNCHANGED cbStaging
    BY <1>3 DEF Board!Measure, Board!Download, Board!Downloaded, Board!DownloadFails,
      Board!Look, Board!Clean, Board!Compare
  <2>3. \A u \in cbTokens : cbStaging'[u].step = "put" => cbStaging[u].step = "put"
    BY <2>2, BoardStagingElsewhere
  <2> QED BY <1>2, <2>1, <2>3, BoardWindowQuiet
<1>4. CASE Board!Compare(t)
  <2>1. /\ Board!Alone /\ UNCHANGED cbBoard
        /\ \A u \in cbTokens : u # t => cbStaging'[u] = cbStaging[u]
    BY <1>4, BoardOneThread DEF Board!Compare
  <2>2. CASE cbBoard.who = t
    BY <1>2, <2>1, <2>2 DEF BoardWindowOK, Board!Alone, BoardCallers
  <2>3. CASE cbBoard.who # t
    <3>1. cbStaging'[t].step = "look"
      BY <1>1, <1>4, <2>3, BoardOneThread DEF Board!Compare, BoardThreads
    <3> QED BY <1>2, <2>1, <3>1 DEF BoardWindowOK, Board!Alone, BoardCallers
  <2> QED BY <2>2, <2>3
<1>5. CASE Board!PublishFiles(t)
  <2>1. cbStaging[t].step = "put"
    BY <1>5 DEF Board!PublishFiles
  <2>2. ~Board!Compare(t)
    BY <2>1 DEF Board!Compare
  <2>3. \A u \in cbTokens : cbStaging'[u].step # "put"
    BY <2>1, <2>2, BoardStagingElsewhere DEF BoardIInv, BoardWindowOK
  <2>4. \A c \in BoardCallers : cbCall'[c].step # "empty"
    BY <1>2, <2>1 DEF BoardIInv, BoardWindowOK
  <2> QED BY <2>3, <2>4 DEF BoardWindowOK
<1> QED BY <1>3, <1>4, <1>5 DEF Board!StagingStep

LEMMA BoardCallWindow ==
  ASSUME Board!ClipboardAssumption, BoardIInv, NEW c \in BoardCallers, Board!CallStep(c)
  PROVE  BoardWindowOK'
<1>1. cbCall[c] \in BoardCalls
  BY DEF BoardIInv, BoardData, BoardTypeInv
<1>2. UNCHANGED cbStaging
  BY DEF Board!CallStep, Board!ReadBoard, Board!Resolve, Board!JobCheck, Board!Consume,
    Board!Reread, Board!CompareToken, Board!Clear, Board!threads
<1>3. CASE Board!ReadBoard(c) \/ Board!Resolve(c) \/ Board!JobCheck(c) \/ Board!Consume(c) \/ Board!Reread(c)
  <2>1. cbBoard' = cbBoard \/ Board!Alone
    BY <1>3 DEF Board!ReadBoard, Board!Resolve, Board!JobCheck, Board!Consume,
      Board!Reread
  <2>2. ~Board!CompareToken(c)
    BY <1>3 DEF Board!ReadBoard, Board!Resolve, Board!JobCheck, Board!Consume,
      Board!Reread, Board!CompareToken
  <2>3. \A d \in BoardCallers : cbCall'[d].step = "empty" => cbCall[d].step = "empty" /\ cbCall'[d].saw = cbCall[d].saw
    BY <2>2, BoardCallElsewhere
  <2> QED BY <1>2, <2>1, <2>3, BoardWindowQuiet
<1>4. CASE Board!CompareToken(c)
  <2>1. /\ Board!Alone /\ UNCHANGED cbBoard
        /\ \A d \in BoardCallers : d # c => cbCall'[d] = cbCall[d]
    BY <1>4, BoardOneCall DEF Board!CompareToken, BoardCallers
  <2>2. CASE cbBoard.who = cbCall[c].saw.who
    <3>1. cbCall'[c].saw = cbCall[c].saw
      BY <1>1, <1>4, BoardOneCall DEF Board!CompareToken, BoardCalls
    <3> QED BY <1>2, <2>1, <2>2, <3>1 DEF BoardWindowOK, Board!Alone, BoardCallers
  <2>3. CASE cbBoard.who # cbCall[c].saw.who
    <3>1. cbCall'[c].step = "over"
      BY <1>1, <1>4, <2>3, BoardOneCall DEF Board!CompareToken, BoardCalls
    <3> QED BY <1>2, <2>1, <3>1 DEF BoardWindowOK, Board!Alone, BoardCallers
  <2> QED BY <2>2, <2>3
<1>5. CASE Board!Clear(c)
  <2>1. cbCall[c].step = "empty" /\ cbCall'[c].step = "over"
    BY <1>1, <1>5, BoardOneCall DEF Board!Clear, BoardCalls
  <2>2. \A d \in BoardCallers : cbCall'[d].step # "empty"
    BY <1>5, <2>1, BoardOneCall DEF Board!Clear, BoardIInv, BoardWindowOK
  <2>3. \A t \in cbTokens : cbStaging'[t].step # "put"
    BY <1>2, <2>1 DEF BoardIInv, BoardWindowOK
  <2> QED BY <2>2, <2>3 DEF BoardWindowOK
<1> QED BY <1>3, <1>4, <1>5 DEF Board!CallStep

LEMMA BoardNextHolds ==
  ASSUME Board!ClipboardAssumption, BoardIInv, [Board!Next]_Board!vars
  PROVE  BoardIInv'
<1>1. BoardData'
  BY BoardDataHolds DEF BoardIInv
<1>2. ASSUME NEW t \in cbTokens, Board!CopyBegins(t) \/ Board!CancelOld(t) \/ Board!WriteBoard(t) PROVE BoardWindowOK'
  <2>1. UNCHANGED <<cbCall, cbStaging>> /\ (cbBoard' = cbBoard \/ Board!Alone)
    BY <1>2 DEF Board!CopyBegins, Board!CancelOld, Board!WriteBoard, Board!threads
  <2> QED BY <2>1, BoardWindowQuiet
<1>3. ASSUME NEW t \in cbTokens, Board!StartStaging(t) PROVE BoardWindowOK'
  <2>1. UNCHANGED <<cbCall, cbBoard>> /\ cbStaging' = [cbStaging EXCEPT ![t].step = "measure"]
    BY <1>3 DEF Board!StartStaging
  <2>2. \A u \in cbTokens : cbStaging'[u].step = "put" => cbStaging[u].step = "put"
    BY <2>1 DEF BoardIInv, BoardData, BoardTypeInv, BoardThreads
  <2> QED BY <2>1, <2>2, BoardWindowQuiet
<1>4. ASSUME NEW t \in cbTokens, Board!StagingStep(t) PROVE BoardWindowOK'
  BY <1>4, BoardStagingWindow
<1>5. ASSUME NEW c \in BoardCallers, Board!CallStep(c) PROVE BoardWindowOK'
  BY <1>5, BoardCallWindow
<1>6. ASSUME NEW k \in cbCleaners, Board!CleanerRuns(k) PROVE BoardWindowOK'
  <2>1. UNCHANGED <<cbCall, cbBoard, cbStaging>>
    BY <1>6 DEF Board!CleanerRuns, Board!rest
  <2> QED BY <2>1, BoardWindowQuiet
<1>7. ASSUME Board!Foreign PROVE BoardWindowOK'
  <2>1. UNCHANGED <<cbCall, cbStaging>> /\ cbBoard'.who = cbOther
    BY <1>7 DEF Board!Foreign, Board!Publish, Board!threads
  <2> QED BY <2>1, BoardWindowQuiet
<1>8. ASSUME UNCHANGED Board!vars PROVE BoardWindowOK'
  BY <1>8, BoardWindowQuiet DEF Board!vars
<1> QED BY <1>1, <1>2, <1>3, <1>4, <1>5, <1>6, <1>7, <1>8 DEF Board!Next, BoardIInv,
    BoardCallers

LEMMA BoardInvariant == ASSUME Board!ClipboardAssumption PROVE Board!Spec => []BoardIInv
<1>1. Board!Init => BoardIInv
  <2> SUFFICES ASSUME Board!Init PROVE BoardWindowOK
    BY BoardInitHolds DEF BoardIInv
  <2> QED BY DEF Board!Init, BoardWindowOK, BoardCallers
<1> QED BY <1>1, BoardNextHolds, PTL DEF Board!Spec

(* Every variable has its type. *)
THEOREM BoardTypeCorrect ==
  ASSUME Board!ClipboardAssumption
  PROVE  Board!Spec => []Board!TypeOK
<1>1. BoardIInv => Board!TypeOK
  BY DEF BoardIInv, BoardData, BoardTypeInv, Board!TypeOK, BoardBoards, BoardThreads
<1> QED BY <1>1, BoardInvariant, PTL

(* A staging that failed, was stopped or came too late leaves nothing of   *)
(* its own behind; a rejected publication is not among them.               *)
THEOREM BoardFailuresLeaveNothing ==
  ASSUME Board!ClipboardAssumption
  PROVE  Board!Spec => []Board!FailedLeavesNothing
<1>1. BoardIInv => Board!FailedLeavesNothing
  BY DEF BoardIInv, BoardData, BoardFolderOK, Board!FailedLeavesNothing
<1> QED BY <1>1, BoardInvariant, PTL

(* A token is returned only by a read that saw it on the clipboard. *)
THEOREM BoardCutsDie == ASSUME Board!ClipboardAssumption PROVE Board!Spec => []Board!CutDies
<1>1. BoardIInv => Board!CutDies
  BY DEF BoardIInv, BoardData, BoardCallOK, Board!CutDies, BoardCallers
<1> QED BY <1>1, BoardInvariant, PTL

(* Files are offered only after a look that found their selection, and     *)
(* over no other selection of ours; another program may come in between.   *)
THEOREM BoardStagedOverOwn ==
  ASSUME Board!ClipboardAssumption
  PROVE  Board!Spec => Board!StagedOverOwnOnly
<1> DEFINE A == \A t \in cbTokens :
       /\ cbStaging[t].step # "put" /\ cbStaging'[t].step = "put" => cbBoard.who = t
       /\ cbStaging[t].step = "put" /\ cbStaging'[t].step # "put" => cbBoard.who \in {t, cbOther}
<1>1. ASSUME BoardIInv, [Board!Next]_Board!vars PROVE A
  <2>1. SUFFICES ASSUME NEW t \in cbTokens, cbStaging[t].step # "put", cbStaging'[t].step = "put"
                 PROVE  cbBoard.who = t
    BY <1>1 DEF BoardIInv, BoardWindowOK
  <2>2. ASSUME UNCHANGED cbStaging PROVE FALSE
    BY <2>1, <2>2
  <2>3. cbStaging \in [cbTokens -> BoardThreads]
    BY <1>1 DEF BoardIInv, BoardData, BoardTypeInv
  <2>4. ASSUME NEW u \in cbTokens, Board!StagingStep(u) PROVE cbBoard.who = t
    <3>1. CASE Board!Compare(u)
      BY <1>1, <2>1, <2>3, <3>1, BoardOneThread DEF Board!Compare, BoardThreads
    <3>2. CASE ~Board!Compare(u)
      BY <1>1, <2>1, <2>4, <3>2, BoardStagingElsewhere
    <3> QED BY <3>1, <3>2
  <2>5. ASSUME NEW u \in cbTokens, Board!StartStaging(u) PROVE FALSE
    BY <2>1, <2>3, <2>5 DEF Board!StartStaging, BoardThreads
  <2>6. ASSUME NEW u \in cbTokens, Board!CopyBegins(u) \/ Board!CancelOld(u) \/ Board!WriteBoard(u) PROVE FALSE
    BY <2>2, <2>6 DEF Board!CopyBegins, Board!CancelOld, Board!WriteBoard, Board!threads
  <2>7. ASSUME NEW c \in BoardCallers, Board!CallStep(c) PROVE FALSE
    BY <2>2, <2>7 DEF Board!CallStep, Board!ReadBoard, Board!Resolve, Board!JobCheck,
      Board!Consume, Board!Reread, Board!CompareToken, Board!Clear, Board!threads
  <2>8. ASSUME NEW k \in cbCleaners, Board!CleanerRuns(k) PROVE FALSE
    BY <2>2, <2>8 DEF Board!CleanerRuns
  <2>9. CASE Board!Foreign
    BY <2>2, <2>9 DEF Board!Foreign, Board!threads
  <2>10. CASE UNCHANGED Board!vars
    BY <2>2, <2>10 DEF Board!vars
  <2> QED BY <1>1, <2>4, <2>5, <2>6, <2>7, <2>8, <2>9, <2>10 DEF Board!Next,
      BoardCallers
<1> QED BY <1>1, BoardInvariant, PTL DEF Board!Spec, Board!StagedOverOwnOnly

(* The paste of one of our selections clears that selection after a look   *)
(* that found it, and no other selection of ours; another program may come *)
(* in between.                                                             *)
THEOREM BoardClearsOwnOnly ==
  ASSUME Board!ClipboardAssumption
  PROVE  Board!Spec => Board!ClearsOwn
<1> DEFINE A == \A c \in cbPastes :
       /\ cbCall[c].step # "empty" /\ cbCall'[c].step = "empty" =>
            /\ cbBoard.who = cbCall[c].saw.who
            /\ IF cbCall[c].got \in cbTokens THEN cbBoard.who = cbCall[c].got ELSE cbCall[c].saw.op = "cut"
       /\ cbCall[c].step = "empty" /\ cbCall'[c].step # "empty" =>
            cbBoard.who \in {cbCall[c].saw.who, cbOther}
<1>1. ASSUME BoardIInv, [Board!Next]_Board!vars PROVE A
  <2>1. SUFFICES ASSUME NEW c \in cbPastes, cbCall[c].step # "empty", cbCall'[c].step = "empty"
                 PROVE  /\ cbBoard.who = cbCall[c].saw.who
                        /\ IF cbCall[c].got \in cbTokens THEN cbBoard.who = cbCall[c].got
                           ELSE cbCall[c].saw.op = "cut"
    BY <1>1 DEF BoardIInv, BoardWindowOK, BoardCallers
  <2>2. ASSUME UNCHANGED cbCall PROVE FALSE
    BY <2>1, <2>2
  <2>3. cbCall \in [BoardCallers -> BoardCalls] /\ c \in BoardCallers /\ BoardCallOK(cbCall[c])
    BY <1>1 DEF BoardIInv, BoardData, BoardTypeInv, BoardCallers
  <2>4. ASSUME NEW d \in BoardCallers, Board!CallStep(d)
        PROVE  cbCall[c].step = "compare" /\ cbBoard.who = cbCall[c].saw.who
    <3>1. CASE Board!CompareToken(d)
      <4>1. d = c
        BY <1>1, <2>1, <2>3, <3>1, BoardOneCall DEF Board!CompareToken
      <4>2. cbBoard.who = cbCall[c].saw.who
        BY <1>1, <2>1, <2>3, <3>1, <4>1, BoardOneCall DEF Board!CompareToken, BoardCalls
      <4> QED BY <3>1, <4>1, <4>2 DEF Board!CompareToken
    <3>2. CASE ~Board!CompareToken(d)
      BY <1>1, <2>1, <2>3, <2>4, <3>2, BoardCallElsewhere
    <3> QED BY <3>1, <3>2
  <2>5. ASSUME NEW t \in cbTokens, Board!CopyBegins(t) \/ Board!CancelOld(t) \/ Board!WriteBoard(t) \/ Board!StartStaging(t)
        PROVE FALSE
    BY <2>2, <2>5 DEF Board!CopyBegins, Board!CancelOld, Board!WriteBoard,
      Board!StartStaging
  <2>6. ASSUME NEW t \in cbTokens, Board!StagingStep(t) PROVE FALSE
    BY <2>2, <2>6 DEF Board!StagingStep, Board!Measure, Board!Download,
      Board!Downloaded, Board!DownloadFails, Board!Compare, Board!PublishFiles,
      Board!Look, Board!Clean, Board!rest
  <2>7. ASSUME NEW k \in cbCleaners, Board!CleanerRuns(k) PROVE FALSE
    BY <2>2, <2>7 DEF Board!CleanerRuns, Board!rest
  <2>8. ASSUME Board!Foreign PROVE FALSE
    BY <2>2, <2>8 DEF Board!Foreign
  <2>9. ASSUME UNCHANGED Board!vars PROVE FALSE
    BY <2>2, <2>9 DEF Board!vars
  <2>10. cbCall[c].step = "compare" /\ cbBoard.who = cbCall[c].saw.who
    BY <1>1, <2>4, <2>5, <2>6, <2>7, <2>8, <2>9 DEF Board!Next, BoardCallers
  <2> QED BY <2>3, <2>10 DEF BoardCallOK
<1> QED BY <1>1, BoardInvariant, PTL DEF Board!Spec, Board!ClearsOwn

-----------------------------------------------------------------------------
(* Proofs about Dragging for every number of drags, drops and files.         *)
DragDropSessions == [step : {"new", "moving", "released", "over"}, place : DragDrop!Places,
             handled : BOOLEAN, taken : BOOLEAN, drops : Nat, ended : BOOLEAN]
DragDropPromises == [stage : {"none", "asked", "writing", "done", "failed"},
             done : 0..drItems, made : 0..drItems]
DragDropAsks == [sent : BOOLEAN, here : BOOLEAN, asked : {"no", "waiting", "paths", "unavailable"}]

\* How often a drag was reported, and that only macOS reports it before its end.
DragDropReported(r) ==
  /\ r.step \in {"new", "moving"} => ~r.handled /\ r.drops = 0 /\ ~r.taken
  /\ r.step = "released" => r.drops = IF r.handled THEN 1 ELSE 0
  /\ r.drops <= 1
  /\ r.handled => drOs = "macos" /\ r.place = "page"
  /\ r.taken => DragDrop!Foreign(r.place)
  /\ drOs = "windows" /\ r.taken => r.drops = 0

DragDropPromised(p) ==
  /\ p.stage \in {"none", "asked", "failed"} => p.made = 0
  /\ p.stage \in {"none", "asked"} => p.done = 0
  /\ p.stage \in {"writing", "done"} => p.made = p.done
  /\ p.stage = "done" => p.done = drItems

\* Nobody writes for a drag that was not released.
DragDropUnasked(d) == drDrag[d].step \in {"new", "moving"} => drPromise[d].stage = "none"

DragDropDelegates ==
  drActive \in drDrags \cup {None} /\ drDelegates \in Seq(drDrags) /\ Len(drDelegates) <= drKept

DragDropIInv ==
  /\ drOs \in {"macos", "windows"} /\ DragDropDelegates
  /\ drDrag \in [drDrags -> DragDropSessions] /\ \A d \in drDrags : DragDropReported(drDrag[d])
  /\ drPromise \in [drDrags -> DragDropPromises] /\ \A d \in drDrags : DragDropPromised(drPromise[d])
  /\ \A d \in drDrags : DragDropUnasked(d)
  /\ drDrop \in [drDrops -> DragDropAsks] /\ \A f \in drDrops : drDrop[f].asked = "paths" => drDrop[f].here

LEMMA DragDropInitHolds ==
  ASSUME DragDrop!DragAssumption
  PROVE  DragDrop!Init => DragDropIInv
<1> SUFFICES ASSUME DragDrop!Init PROVE DragDropIInv
  OBVIOUS
<1>1. drDrag \in [drDrags -> DragDropSessions] /\ \A d \in drDrags : DragDropReported(drDrag[d])
  BY DEF DragDrop!Init, DragDropSessions, DragDrop!Places, DragDropReported,
    DragDrop!Foreign
<1>2. drPromise \in [drDrags -> DragDropPromises] /\ \A d \in drDrags : DragDropPromised(drPromise[d]) /\ DragDropUnasked(d)
  BY DEF DragDrop!DragAssumption, DragDrop!Init, DragDropPromises, DragDropPromised,
    DragDropUnasked
<1>3. drDrop \in [drDrops -> DragDropAsks] /\ \A f \in drDrops : drDrop[f].asked # "paths"
  BY DEF DragDrop!Init, DragDropAsks
<1> QED BY <1>1, <1>2, <1>3 DEF DragDrop!DragAssumption, DragDrop!Init, DragDropIInv,
    DragDropDelegates

\* The delegates that are kept are as many as there may be.
LEMMA DragDropLastKept ==
  ASSUME NEW s \in Seq(drDrags), NEW n \in Nat \ {0}
  PROVE  DragDrop!Last(s, n) \in Seq(drDrags) /\ Len(DragDrop!Last(s, n)) <= n
<1>1. CASE Len(s) > n
  <2>1. DragDrop!Last(s, n) = SubSeq(s, Len(s) - n + 1, Len(s))
    BY <1>1 DEF DragDrop!Last
  <2>2. Len(s) - n + 1 \in 1..Len(s) /\ Len(s) \in Nat
    BY <1>1
  <2>3. SubSeq(s, Len(s) - n + 1, Len(s)) \in Seq(drDrags)
    BY <2>2
  <2>4. Len(SubSeq(s, Len(s) - n + 1, Len(s))) = Len(s) - (Len(s) - n + 1) + 1
    BY <2>2
  <2> QED BY <2>1, <2>2, <2>3, <2>4
<1>2. CASE Len(s) <= n
  BY <1>2 DEF DragDrop!Last
<1> QED BY <1>1, <1>2

\* A step of one session.
LEMMA DragDropPutHolds ==
  ASSUME DragDropIInv, NEW d \in drDrags, NEW r \in DragDropSessions, DragDrop!Put(d, r),
         DragDropReported(r), drOs' = drOs,
         r.step \in {"new", "moving"} => drDrag[d].step \in {"new", "moving"}
  PROVE  /\ drDrag' \in [drDrags -> DragDropSessions] /\ \A e \in drDrags : DragDropReported(drDrag[e])'
         /\ drPromise' = drPromise => \A e \in drDrags : DragDropUnasked(e)'
<1>1. drDrag' \in [drDrags -> DragDropSessions] /\ drDrag'[d] = r /\ \A e \in drDrags \ {d} : drDrag'[e] = drDrag[e]
  BY DEF DragDropIInv, DragDrop!Put
<1>2. \A e \in drDrags : DragDropReported(drDrag[e])'
  BY <1>1 DEF DragDropIInv, DragDropReported
<1>3. ASSUME drPromise' = drPromise, NEW e \in drDrags PROVE DragDropUnasked(e)'
  BY <1>1, <1>3 DEF DragDropIInv, DragDropUnasked
<1> QED BY <1>1, <1>2, <1>3

LEMMA DragDropStartDragHolds ==
  ASSUME DragDrop!DragAssumption, DragDropIInv, NEW d \in drDrags, DragDrop!StartDrag(d)
  PROVE  DragDropIInv'
<1>1. drDrag[d].step = "new" /\ UNCHANGED <<drPromise, drDrop, drOs>>
  BY DEF DragDrop!StartDrag
<1>2. PICK s \in {"moving", "over"} : DragDrop!Put(d, [drDrag[d] EXCEPT !.step = s])
  BY DEF DragDrop!StartDrag
<1> DEFINE r == [drDrag[d] EXCEPT !.step = s]
<1>3. /\ r \in DragDropSessions /\ r.step = s /\ r.handled = drDrag[d].handled /\ r.drops = drDrag[d].drops
      /\ r.taken = drDrag[d].taken /\ r.place = drDrag[d].place
  BY DEF DragDropIInv, DragDropSessions
<1>4. DragDrop!Put(d, r)
  BY <1>2
<1> HIDE DEF r
<1>5. DragDropReported(r)
  BY <1>1, <1>3 DEF DragDropIInv, DragDropReported
<1>6. DragDropDelegates'
  <2>1. Append(drDelegates, d) \in Seq(drDrags) /\ drKept \in Nat \ {0}
    BY DEF DragDrop!DragAssumption, DragDropIInv, DragDropDelegates
  <2>2. /\ DragDrop!Last(Append(drDelegates, d), drKept) \in Seq(drDrags)
        /\ Len(DragDrop!Last(Append(drDelegates, d), drKept)) <= drKept
    BY <2>1, DragDropLastKept
  <2>3. drActive' \in {d, drActive}
        /\ drDelegates' \in {DragDrop!Last(Append(drDelegates, d), drKept), drDelegates}
    BY DEF DragDrop!StartDrag
  <2> QED BY <2>2, <2>3 DEF DragDropIInv, DragDropDelegates
<1>7. /\ drDrag' \in [drDrags -> DragDropSessions] /\ \A e \in drDrags : DragDropReported(drDrag[e])'
      /\ \A e \in drDrags : DragDropUnasked(e)'
  BY <1>1, <1>3, <1>4, <1>5, DragDropPutHolds
<1> QED BY <1>1, <1>6, <1>7 DEF DragDropIInv, DragDropPromised

LEMMA DragDropReleaseHolds ==
  ASSUME DragDrop!DragAssumption, DragDropIInv, NEW d \in drDrags, DragDrop!Release(d)
  PROVE  DragDropIInv'
<1>1. drDrag[d].step = "moving" /\ UNCHANGED <<drActive, drDelegates, drDrop, drOs>>
  BY DEF DragDrop!Release
<1>2. PICK p \in DragDrop!Places, taken \in BOOLEAN :
        /\ taken => DragDrop!Foreign(p)
        /\ DragDrop!Put(d, [drDrag[d] EXCEPT !.step = "released", !.place = p, !.taken = taken])
        /\ drPromise' = IF taken /\ drOs = "macos"
                      THEN [drPromise EXCEPT ![d].stage = "asked"] ELSE drPromise
  BY DEF DragDrop!Release
<1> DEFINE r == [drDrag[d] EXCEPT !.step = "released", !.place = p, !.taken = taken]
           q == [drPromise[d] EXCEPT !.stage = "asked"]
<1>3. /\ r \in DragDropSessions /\ r.step = "released" /\ r.place = p /\ r.taken = taken
      /\ r.handled = drDrag[d].handled /\ r.drops = drDrag[d].drops
  BY DEF DragDropIInv, DragDropSessions
<1>4. q \in DragDropPromises /\ q.stage = "asked" /\ q.made = drPromise[d].made /\ q.done = drPromise[d].done
  BY DEF DragDropIInv, DragDropPromises
<1>5. DragDrop!Put(d, r) /\ (drPromise' = drPromise \/ drPromise' = [drPromise EXCEPT ![d] = q])
  BY <1>2
<1> HIDE DEF r, q
<1>6. DragDropReported(r)
  BY <1>1, <1>2, <1>3 DEF DragDropIInv, DragDropReported
<1>7. drDrag' \in [drDrags -> DragDropSessions] /\ \A e \in drDrags : DragDropReported(drDrag[e])'
  BY <1>1, <1>3, <1>5, <1>6, DragDropPutHolds
<1>8. /\ drPromise' \in [drDrags -> DragDropPromises] /\ \A e \in drDrags : DragDropPromised(drPromise'[e])
      /\ \A e \in drDrags \ {d} : drPromise'[e] = drPromise[e]
  <2>1. drPromise[d].stage = "none" /\ DragDropPromised(drPromise[d]) /\ drPromise \in [drDrags -> DragDropPromises]
    BY <1>1 DEF DragDropIInv, DragDropUnasked
  <2>2. DragDropPromised(q)
    BY <1>4, <2>1 DEF DragDropPromised
  <2> QED BY <1>4, <1>5, <2>1, <2>2 DEF DragDropIInv
<1>9. \A e \in drDrags : DragDropUnasked(e)'
  BY <1>3, <1>5, <1>8 DEF DragDropIInv, DragDropUnasked, DragDrop!Put
<1> QED BY <1>1, <1>7, <1>8, <1>9 DEF DragDropIInv, DragDropDelegates, DragDropPromised

LEMMA DragDropPerformHolds ==
  ASSUME DragDrop!DragAssumption, DragDropIInv, NEW d \in drDrags, DragDrop!Perform(d)
  PROVE  DragDropIInv'
<1> DEFINE h == drActive = d
           n == IF drActive = d THEN drDrag[d].drops + 1 ELSE drDrag[d].drops
           r == [drDrag[d] EXCEPT !.handled = h, !.drops = n]
<1>1. /\ drOs = "macos" /\ drDrag[d].step = "released" /\ drDrag[d].place = "page"
      /\ ~drDrag[d].handled /\ UNCHANGED <<drActive, drDelegates, drPromise, drDrop, drOs>>
  BY DEF DragDrop!Perform
<1>2. DragDrop!Put(d, r)
  BY DEF DragDrop!Perform
<1>3. h \in BOOLEAN /\ drDrag[d].drops = 0 /\ (h <=> n = 1) /\ n \in {0, 1}
  BY <1>1 DEF DragDropIInv, DragDropReported
<1>7. n \in Nat /\ drDrag[d] \in DragDropSessions
  BY <1>3 DEF DragDropIInv
<1> HIDE DEF h, n
<1>4. /\ r \in DragDropSessions /\ r.step = drDrag[d].step /\ r.place = drDrag[d].place
      /\ r.taken = drDrag[d].taken /\ r.handled = h /\ r.drops = n
  BY <1>3, <1>7 DEF DragDropSessions
<1> HIDE DEF r
<1>5. DragDropReported(r)
  BY <1>1, <1>3, <1>4 DEF DragDropIInv, DragDropReported
<1>6. /\ drDrag' \in [drDrags -> DragDropSessions] /\ \A e \in drDrags : DragDropReported(drDrag[e])'
      /\ \A e \in drDrags : DragDropUnasked(e)'
  BY <1>1, <1>2, <1>4, <1>5, DragDropPutHolds
<1> QED BY <1>1, <1>6 DEF DragDropIInv, DragDropDelegates, DragDropPromised

LEMMA DragDropEndedHolds ==
  ASSUME DragDrop!DragAssumption, DragDropIInv, NEW d \in drDrags, DragDrop!Ended(d)
  PROVE  DragDropIInv'
<1> DEFINE n == IF DragDrop!Internal(d) THEN drDrag[d].drops + 1 ELSE drDrag[d].drops
           r == [drDrag[d] EXCEPT !.step = "over", !.ended = TRUE, !.drops = n]
<1>1. drDrag[d].step = "released" /\ drActive' = None /\ UNCHANGED <<drDelegates, drPromise, drDrop, drOs>>
  BY DEF DragDrop!Ended
<1>2. DragDrop!Put(d, r)
  BY DEF DragDrop!Ended
<1>3. /\ n \in {0, 1} /\ (drDrag[d].handled => n = 1)
      /\ drOs = "windows" /\ drDrag[d].taken => n = 0
  BY <1>1 DEF DragDropIInv, DragDropReported, DragDrop!Internal, DragDrop!InView,
    DragDrop!Foreign
<1>7. n \in Nat /\ drDrag[d] \in DragDropSessions
  BY <1>3 DEF DragDropIInv
<1> HIDE DEF n
<1>4. /\ r \in DragDropSessions /\ r.step = "over" /\ r.place = drDrag[d].place
      /\ r.taken = drDrag[d].taken /\ r.handled = drDrag[d].handled /\ r.drops = n
  BY <1>3, <1>7 DEF DragDropSessions
<1> HIDE DEF r
<1>5. DragDropReported(r)
  BY <1>1, <1>3, <1>4 DEF DragDropIInv, DragDropReported
<1>6. /\ drDrag' \in [drDrags -> DragDropSessions] /\ \A e \in drDrags : DragDropReported(drDrag[e])'
      /\ \A e \in drDrags : DragDropUnasked(e)'
  BY <1>1, <1>2, <1>4, <1>5, DragDropPutHolds
<1> QED BY <1>1, <1>6 DEF DragDropIInv, DragDropDelegates, DragDropPromised

LEMMA DragDropPromiseStepHolds ==
  ASSUME DragDrop!DragAssumption, DragDropIInv, NEW d \in drDrags, DragDrop!PromiseStep(d)
  PROVE  DragDropIInv'
<1>1. UNCHANGED <<drDrag, drActive, drDelegates, drDrop, drOs>> /\ drPromise[d].stage \in {"asked", "writing"}
  BY DEF DragDrop!PromiseStep, DragDrop!WritePromise, DragDrop!WriteItem,
    DragDrop!WriteFails, DragDrop!session
<1>2. drPromise[d] \in DragDropPromises /\ DragDropPromised(drPromise[d]) /\ drItems \in Nat
  BY DEF DragDropIInv, DragDrop!DragAssumption
<1>3. PICK r : DragDrop!Promise(d, r) /\ r \in DragDropPromises /\ DragDropPromised(r)
  <2>1. CASE DragDrop!WritePromise(d)
    <3> DEFINE s == IF DragDrop!Alive(d) THEN "writing" ELSE "failed"
               r == [drPromise[d] EXCEPT !.stage = s]
    <3>1. s \in {"writing", "failed"} /\ drPromise[d].stage = "asked" /\ DragDrop!Promise(d, r)
      BY <2>1 DEF DragDrop!WritePromise
    <3> HIDE DEF s
    <3>2. r \in DragDropPromises /\ r.stage = s /\ r.made = drPromise[d].made /\ r.done = drPromise[d].done
      BY <1>2, <3>1 DEF DragDropPromises
    <3> HIDE DEF r
    <3>3. DragDropPromised(r)
      BY <1>2, <3>1, <3>2 DEF DragDropPromised
    <3> QED BY <3>1, <3>2, <3>3
  <2>2. CASE DragDrop!WriteItem(d) /\ drPromise[d].done = drItems
    <3> DEFINE r == [drPromise[d] EXCEPT !.stage = "done"]
    <3>1. drPromise[d].stage = "writing" /\ DragDrop!Promise(d, r)
      BY <2>2 DEF DragDrop!WriteItem
    <3>2. r \in DragDropPromises /\ r.stage = "done" /\ r.made = drPromise[d].made /\ r.done = drPromise[d].done
      BY <1>2 DEF DragDropPromises
    <3> HIDE DEF r
    <3>3. DragDropPromised(r)
      BY <1>2, <2>2, <3>1, <3>2 DEF DragDropPromised
    <3> QED BY <3>1, <3>2, <3>3
  <2>3. CASE DragDrop!WriteItem(d) /\ drPromise[d].done # drItems
    <3> DEFINE n == drPromise[d].done + 1
               m == drPromise[d].made + 1
               r == [drPromise[d] EXCEPT !.done = n, !.made = m]
    <3>1. drPromise[d].stage = "writing" /\ DragDrop!Promise(d, r)
      BY <2>3 DEF DragDrop!WriteItem
    <3>2. n \in 0..drItems /\ m = n
      BY <1>2, <2>3, <3>1 DEF DragDropPromises, DragDropPromised
    <3> HIDE DEF n, m
    <3>3. r \in DragDropPromises /\ r.stage = "writing" /\ r.made = m /\ r.done = n
      BY <1>2, <3>1, <3>2 DEF DragDropPromises
    <3> HIDE DEF r
    <3>4. DragDropPromised(r)
      BY <3>2, <3>3 DEF DragDropPromised
    <3> QED BY <3>1, <3>3, <3>4
  <2>4. CASE DragDrop!WriteFails(d)
    <3> DEFINE r == [drPromise[d] EXCEPT !.stage = "failed", !.made = 0]
    <3>1. DragDrop!Promise(d, r)
      BY <2>4 DEF DragDrop!WriteFails
    <3>0. 0 \in 0..drItems
      BY <1>2
    <3>2. r \in DragDropPromises /\ r.stage = "failed" /\ r.made = 0
      BY <1>2, <3>0 DEF DragDropPromises
    <3> HIDE DEF r
    <3>3. DragDropPromised(r)
      BY <3>2 DEF DragDropPromised
    <3> QED BY <3>1, <3>2, <3>3
  <2> QED BY <2>1, <2>2, <2>3, <2>4 DEF DragDrop!PromiseStep
<1>4. /\ drPromise' \in [drDrags -> DragDropPromises] /\ \A e \in drDrags : DragDropPromised(drPromise'[e])
      /\ \A e \in drDrags \ {d} : drPromise'[e] = drPromise[e]
  BY <1>3 DEF DragDropIInv, DragDrop!Promise
<1>5. \A e \in drDrags : DragDropUnasked(e)'
  BY <1>1, <1>4 DEF DragDropIInv, DragDropUnasked
<1>6. \A e \in drDrags : DragDropPromised(drPromise[e])'
  BY <1>4 DEF DragDropPromised
<1> QED BY <1>1, <1>4, <1>5, <1>6 DEF DragDropIInv, DragDropReported, DragDropDelegates

LEMMA DragDropDropHolds ==
  ASSUME DragDrop!DragAssumption, DragDropIInv, NEW f \in drDrops,
         DragDrop!PageDrops(f) \/ DragDrop!DropStep(f)
  PROVE  DragDropIInv'
<1>1. UNCHANGED <<drDrag, drActive, drDelegates, drPromise, drOs>>
  BY DEF DragDrop!PageDrops, DragDrop!DropStep, DragDrop!MessageArrives, DragDrop!Takes,
    DragDrop!TakeTimesOut, DragDrop!others
<1>2. PICK r : DragDrop!Drop(f, r) /\ r \in DragDropAsks /\ (r.asked = "paths" => r.here)
  <2>1. ASSUME NEW sent \in BOOLEAN, NEW here \in BOOLEAN,
               NEW asked \in {"no", "waiting", "paths", "unavailable"},
               asked = "paths" => here,
               DragDrop!Drop(f, [drDrop[f] EXCEPT !.sent = sent, !.here = here, !.asked = asked])
        PROVE  \E r : DragDrop!Drop(f, r) /\ r \in DragDropAsks /\ (r.asked = "paths" => r.here)
    <3> DEFINE r == [drDrop[f] EXCEPT !.sent = sent, !.here = here, !.asked = asked]
    <3>1. r \in DragDropAsks /\ r.here = here /\ r.asked = asked
      BY DEF DragDropIInv, DragDropAsks
    <3>2. DragDrop!Drop(f, r)
      BY <2>1
    <3> HIDE DEF r
    <3> QED BY <2>1, <3>1, <3>2
  <2>2. drDrop[f] \in DragDropAsks /\ (drDrop[f].asked = "paths" => drDrop[f].here)
    BY DEF DragDropIInv
  <2>3. CASE DragDrop!PageDrops(f)
    <3> DEFINE h == drDrop[f].here
    <3>1. DragDrop!Drop(f, [drDrop[f] EXCEPT !.sent = TRUE, !.here = h, !.asked = "waiting"])
      BY <2>2, <2>3 DEF DragDrop!PageDrops, DragDrop!Drop, DragDropAsks
    <3>2. h \in BOOLEAN
      BY <2>2 DEF DragDropAsks
    <3> HIDE DEF h
    <3> QED BY <2>1, <3>1, <3>2
  <2>4. CASE DragDrop!MessageArrives(f)
    <3> DEFINE a == drDrop[f].asked
               s == drDrop[f].sent
    <3>1. DragDrop!Drop(f, [drDrop[f] EXCEPT !.sent = s, !.here = TRUE, !.asked = a])
      BY <2>2, <2>4 DEF DragDrop!MessageArrives, DragDrop!Drop, DragDropAsks
    <3>2. s \in BOOLEAN /\ a \in {"no", "waiting", "paths", "unavailable"}
      BY <2>2 DEF DragDropAsks
    <3> HIDE DEF s, a
    <3> QED BY <2>1, <3>1, <3>2
  <2>5. CASE DragDrop!Takes(f) \/ DragDrop!TakeTimesOut(f)
    <3> DEFINE h == drDrop[f].here
               s == drDrop[f].sent
    <3>1. \E a \in {"paths", "unavailable"} : (a = "paths" => h)
            /\ DragDrop!Drop(f, [drDrop[f] EXCEPT !.sent = s, !.here = h, !.asked = a])
      BY <2>2, <2>5 DEF DragDrop!Takes, DragDrop!TakeTimesOut, DragDrop!Drop,
        DragDropAsks
    <3>2. s \in BOOLEAN /\ h \in BOOLEAN
      BY <2>2 DEF DragDropAsks
    <3> HIDE DEF s, h
    <3> QED BY <2>1, <3>1, <3>2
  <2> QED BY <2>3, <2>4, <2>5 DEF DragDrop!DropStep
<1>3. drDrop' \in [drDrops -> DragDropAsks] /\ \A g \in drDrops : drDrop'[g].asked = "paths" => drDrop'[g].here
  BY <1>2 DEF DragDropIInv, DragDrop!Drop
<1> QED BY <1>1, <1>3 DEF DragDropIInv, DragDropReported, DragDropPromised,
    DragDropUnasked, DragDropDelegates

LEMMA DragDropInvariance ==
  ASSUME DragDrop!DragAssumption
  PROVE  DragDrop!Spec => []DragDropIInv
<1>1. ASSUME DragDropIInv, [DragDrop!Next]_DragDrop!vars PROVE DragDropIInv'
  <2>1. CASE UNCHANGED DragDrop!vars
    BY <1>1, <2>1 DEF DragDrop!vars, DragDropIInv, DragDropReported, DragDropPromised,
      DragDropUnasked, DragDropDelegates
  <2>2. ASSUME NEW d \in drDrags, DragDrop!StartDrag(d) \/ DragDrop!SessionStep(d) \/ DragDrop!PromiseStep(d) PROVE DragDropIInv'
    BY <1>1, <2>2, DragDropStartDragHolds, DragDropReleaseHolds, DragDropPerformHolds,
      DragDropEndedHolds, DragDropPromiseStepHolds DEF DragDrop!SessionStep
  <2>3. ASSUME NEW f \in drDrops, DragDrop!PageDrops(f) \/ DragDrop!DropStep(f) PROVE DragDropIInv'
    BY <1>1, <2>3, DragDropDropHolds
  <2> QED BY <1>1, <2>1, <2>2, <2>3 DEF DragDrop!Next
<1> QED BY <1>1, DragDropInitHolds, PTL DEF DragDrop!Spec

(* The variables of Dragging have their types.                               *)
THEOREM DragDropTypeCorrect ==
  ASSUME DragDrop!DragAssumption
  PROVE  DragDrop!Spec => []DragDrop!TypeOK
<1>1. DragDropIInv => DragDrop!TypeOK
  BY DEF DragDropIInv, DragDropSessions, DragDropPromises, DragDropDelegates,
    DragDrop!TypeOK
<1> QED BY <1>1, DragDropInvariance, PTL

(* Neither way of noticing an internal drop repeats the other.               *)
THEOREM DragDropDropsAreOnce ==
  ASSUME DragDrop!DragAssumption
  PROVE  DragDrop!Spec => []DragDrop!DroppedOnce /\ []DragDrop!OneTargetOnWindows
<1>1. DragDropIInv => DragDrop!DroppedOnce /\ DragDrop!OneTargetOnWindows
  BY DEF DragDropIInv, DragDropReported, DragDrop!DroppedOnce,
    DragDrop!OneTargetOnWindows, DragDrop!OneTarget
<1> QED BY <1>1, DragDropInvariance, PTL

(* A promise that fails leaves nothing, one that is written has every file.  *)
THEOREM DragDropPromisesAreWhole ==
  ASSUME DragDrop!DragAssumption
  PROVE  DragDrop!Spec => []DragDrop!PromiseWhole
<1>1. DragDropIInv => DragDrop!PromiseWhole
  BY DEF DragDropIInv, DragDropPromised, DragDrop!PromiseWhole
<1> QED BY <1>1, DragDropInvariance, PTL

(* The paths that a drop is given are those of its own message.              *)
THEOREM DragDropPathsAreOwn ==
  ASSUME DragDrop!DragAssumption
  PROVE  DragDrop!Spec => []DragDrop!OwnPaths
<1>1. DragDropIInv => DragDrop!OwnPaths
  BY DEF DragDropIInv, DragDrop!OwnPaths
<1> QED BY <1>1, DragDropInvariance, PTL

-----------------------------------------------------------------------------
(* Proofs about ShellObjects for every number of calls and every size.       *)

\* What the instance calls finite, and counts, is what this module does.
LEMMA ShellThreadFinite ==
  \A S : (ShellThread!IsFiniteSet(S) <=> IsFiniteSet(S)) /\ ShellThread!Cardinality(S) = Cardinality(S)
<1>1. \A S : ShellThread!IsFiniteSet(S) <=> IsFiniteSet(S)
  BY DEF ShellThread!IsFiniteSet, IsFiniteSet
<1>2. \A S : ShellThread!Cardinality(S) = Cardinality(S)
  BY <1>1 DEF ShellThread!Cardinality, Cardinality, ShellThread!IsFiniteSet, IsFiniteSet
<1> QED BY <1>1, <1>2

ShellThreadSteps == {"new", "pushed", "ran", "waiting", "unanswered", "done"}

\* The calls that have sent their message.
ShellThreadTold == {c \in soCalls : soCall[c] \in {"waiting", "unanswered", "done"}}

ShellThreadDistinct(q) == \A i, j \in 1..Len(q) : q[i] = q[j] => i = j
ShellThreadIn(x, q) == \E i \in 1..Len(q) : q[i] = x

ShellThreadThreadOK ==
  /\ soCall \in [soCalls -> ShellThreadSteps] /\ soQueue \in Seq(soCalls) /\ soRunning \in soCalls \cup {None}
  /\ soHolder \in {"thread", None} /\ (soRunning # None => soHolder = "thread" /\ soCall[soRunning] # "new")
  /\ ShellThreadDistinct(soQueue) /\ ~ShellThreadIn(soRunning, soQueue)
  /\ \A i \in 1..Len(soQueue) : soCall[soQueue[i]] # "new"
  /\ soPosted \in Nat /\ soPosted <= Cardinality(ShellThreadTold)

ShellThreadStreamOK ==
  /\ soPosition \in Nat /\ soReader \in 0..soSize \cup {None} /\ soBroken \in BOOLEAN
  /\ ~soBroken /\ soReader # None => soReader = IF soPosition < soSize THEN soPosition ELSE soSize

ShellThreadIInv == ShellThreadThreadOK /\ ShellThreadStreamOK

LEMMA ShellThreadInitHolds ==
  ASSUME ShellThread!ObjectAssumption
  PROVE  ShellThread!Init => ShellThreadIInv
<1> SUFFICES ASSUME ShellThread!Init PROVE ShellThreadIInv
  OBVIOUS
<1>1. /\ soCall \in [soCalls -> ShellThreadSteps] /\ soQueue \in Seq(soCalls) /\ soRunning = None /\ soHolder = None
      /\ Len(soQueue) = 0 /\ soPosted = 0
  BY DEF ShellThread!Init, ShellThreadSteps
<1>2. ShellThreadTold = {}
  BY DEF ShellThread!Init, ShellThreadTold
<1>3. Cardinality(ShellThreadTold) = 0
  BY <1>2, FS_EmptySet
<1>4. ShellThreadThreadOK
  BY <1>1, <1>3 DEF ShellThreadThreadOK, ShellThreadDistinct, ShellThreadIn
<1>5. ShellThreadStreamOK
  BY DEF ShellThread!Init, ShellThreadStreamOK, ShellThread!ObjectAssumption
<1> QED BY <1>4, <1>5 DEF ShellThreadIInv

\* The messages are at most as many as the calls that sent one.
LEMMA ShellThreadToldGrows ==
  ASSUME ShellThread!ObjectAssumption, NEW A, NEW B, A \subseteq B, B \subseteq soCalls
  PROVE  Cardinality(A) \in Nat /\ Cardinality(B) \in Nat /\ Cardinality(A) <= Cardinality(B)
<1>1. IsFiniteSet(B)
  BY FS_Subset, ShellThreadFinite DEF ShellThread!ObjectAssumption
<1> QED BY <1>1, FS_Subset, FS_CardinalityType

LEMMA ShellThreadPushHolds ==
  ASSUME ShellThread!ObjectAssumption, ShellThreadIInv, NEW c \in soCalls,
         ShellThread!Push(c)
  PROVE  ShellThreadThreadOK'
<1>1. /\ soCall[c] = "new" /\ soHolder = None /\ soQueue' = Append(soQueue, c)
      /\ soCall' = [soCall EXCEPT ![c] = "pushed"] /\ UNCHANGED <<soHolder, soPosted, soRunning>>
  BY DEF ShellThread!Push, ShellThread!Step
<1>2. /\ soCall \in [soCalls -> ShellThreadSteps] /\ soQueue \in Seq(soCalls) /\ soRunning = None /\ c # None
      /\ None \notin soCalls
  BY <1>1 DEF ShellThreadIInv, ShellThreadThreadOK, ShellThread!ObjectAssumption
<1>3. soCall' \in [soCalls -> ShellThreadSteps] /\ \A d \in soCalls : soCall'[d] = "new" => soCall[d] = "new" /\ d # c
  BY <1>1, <1>2 DEF ShellThreadSteps
<1>4. /\ soQueue' \in Seq(soCalls) /\ Len(soQueue') = Len(soQueue) + 1 /\ Len(soQueue) \in Nat
      /\ soQueue'[Len(soQueue) + 1] = c /\ \A i \in 1..Len(soQueue) : soQueue'[i] = soQueue[i]
  BY <1>1, <1>2
<1>5. \A i \in 1..Len(soQueue) : soQueue[i] # c /\ soQueue[i] # None /\ soQueue[i] \in soCalls
  BY <1>1, <1>2 DEF ShellThreadIInv, ShellThreadThreadOK
<1>6. \A i \in 1..Len(soQueue') : i \in 1..Len(soQueue) \/ i = Len(soQueue) + 1
  BY <1>4
<1>7. ShellThreadDistinct(soQueue')
  <2> SUFFICES ASSUME NEW i \in 1..Len(soQueue'), NEW j \in 1..Len(soQueue'), soQueue'[i] = soQueue'[j]
               PROVE  i = j
    BY DEF ShellThreadDistinct
  <2> QED BY <1>4, <1>5, <1>6 DEF ShellThreadIInv, ShellThreadThreadOK,
      ShellThreadDistinct
<1>8. ~ShellThreadIn(soRunning', soQueue') /\ \A i \in 1..Len(soQueue') : soCall'[soQueue'[i]] # "new"
  BY <1>1, <1>2, <1>3, <1>4, <1>5, <1>6 DEF ShellThreadIn, ShellThreadIInv,
    ShellThreadThreadOK
<1>9. ShellThreadTold' = ShellThreadTold
  BY <1>1, <1>2 DEF ShellThreadTold
<1> QED BY <1>1, <1>2, <1>3, <1>4, <1>7, <1>8, <1>9 DEF ShellThreadIInv,
    ShellThreadThreadOK

LEMMA ShellThreadPostMessageHolds ==
  ASSUME ShellThread!ObjectAssumption, ShellThreadIInv, NEW c \in soCalls,
         ShellThread!PostMessage(c)
  PROVE  ShellThreadThreadOK'
<1>1. PICK s \in {"done", "waiting"} :
        /\ soCall[c] \in {"pushed", "ran"} /\ soPosted' = soPosted + 1
        /\ soCall' = [soCall EXCEPT ![c] = s] /\ UNCHANGED <<soQueue, soHolder, soRunning>>
  BY DEF ShellThread!PostMessage, ShellThread!Step
<1>2. soCall \in [soCalls -> ShellThreadSteps] /\ soCall' \in [soCalls -> ShellThreadSteps] /\ soCall'[c] = s
  BY <1>1 DEF ShellThreadIInv, ShellThreadThreadOK, ShellThreadSteps
<1>3. \A d \in soCalls : soCall[d] # "new" => soCall'[d] # "new"
  BY <1>1, <1>2
<1>4. ShellThreadTold' = ShellThreadTold \cup {c} /\ c \notin ShellThreadTold /\ ShellThreadTold \subseteq soCalls
  BY <1>1, <1>2 DEF ShellThreadTold
<1>5. Cardinality(ShellThreadTold') = Cardinality(ShellThreadTold) + 1 /\ Cardinality(ShellThreadTold) \in Nat
  <2>1. IsFiniteSet(ShellThreadTold)
    BY <1>4, FS_Subset, ShellThreadFinite DEF ShellThread!ObjectAssumption
  <2> QED BY <1>4, <2>1, FS_AddElement, FS_CardinalityType
<1> QED BY <1>1, <1>2, <1>3, <1>5 DEF ShellThreadIInv, ShellThreadThreadOK,
    ShellThreadDistinct, ShellThreadIn

LEMMA ShellThreadTimesOutHolds ==
  ASSUME ShellThread!ObjectAssumption, ShellThreadIInv, NEW c \in soCalls,
         ShellThread!TimesOut(c)
  PROVE  ShellThreadThreadOK'
<1>1. /\ soCall[c] = "waiting" /\ soCall' = [soCall EXCEPT ![c] = "unanswered"]
      /\ UNCHANGED <<soQueue, soHolder, soPosted, soRunning>>
  BY DEF ShellThread!TimesOut, ShellThread!Step
<1>2. soCall \in [soCalls -> ShellThreadSteps] /\ soCall' \in [soCalls -> ShellThreadSteps]
  BY <1>1 DEF ShellThreadIInv, ShellThreadThreadOK, ShellThreadSteps
<1>3. ShellThreadTold' = ShellThreadTold
  BY <1>1, <1>2 DEF ShellThreadTold
<1>4. \A d \in soCalls : soCall[d] # "new" => soCall'[d] # "new"
  BY <1>1, <1>2
<1> QED BY <1>1, <1>2, <1>3, <1>4 DEF ShellThreadIInv, ShellThreadThreadOK,
    ShellThreadDistinct, ShellThreadIn

LEMMA ShellThreadPopHolds ==
  ASSUME ShellThread!ObjectAssumption, ShellThreadIInv, ShellThread!Pop
  PROVE  ShellThreadThreadOK'
<1>1. soHolder = None /\ soRunning = None /\ soPosted \in Nat \ {0} /\ soCall' = soCall
  BY DEF ShellThread!Pop, ShellThreadIInv, ShellThreadThreadOK,
    ShellThread!ObjectAssumption
<1>2. CASE soQueue = <<>>
  <2>1. soPosted' = soPosted - 1 /\ UNCHANGED <<soQueue, soHolder, soRunning>>
    BY <1>2 DEF ShellThread!Pop
  <2>2. ShellThreadTold' = ShellThreadTold
    BY <1>1 DEF ShellThreadTold
  <2>3. soPosted' \in Nat /\ soPosted' <= Cardinality(ShellThreadTold)
    <3>1. Cardinality(ShellThreadTold) \in Nat
      BY ShellThreadToldGrows DEF ShellThreadTold
    <3> QED BY <1>1, <2>1, <3>1 DEF ShellThreadIInv, ShellThreadThreadOK
  <2> QED BY <1>1, <2>1, <2>2, <2>3 DEF ShellThreadIInv, ShellThreadThreadOK,
      ShellThreadDistinct, ShellThreadIn
<1>3. CASE soQueue # <<>>
  <2>1. soRunning' = Head(soQueue) /\ soQueue' = Tail(soQueue) /\ soHolder' = "thread" /\ soPosted' = soPosted
    BY <1>3 DEF ShellThread!Pop
  <2>2. soQueue \in Seq(soCalls) /\ Len(soQueue) \in Nat \ {0} /\ Head(soQueue) = soQueue[1]
    BY <1>3 DEF ShellThreadIInv, ShellThreadThreadOK
  <2>3. /\ soQueue' \in Seq(soCalls) /\ Len(soQueue') = Len(soQueue) - 1
        /\ \A i \in 1..Len(soQueue') : soQueue'[i] = soQueue[i + 1] /\ i + 1 \in 1..Len(soQueue)
    BY <2>1, <2>2
  <2>4. soRunning' \in soCalls /\ soCall'[soRunning'] # "new"
    BY <1>1, <2>1, <2>2 DEF ShellThreadIInv, ShellThreadThreadOK
  <2>5. ShellThreadDistinct(soQueue')
    <3> SUFFICES ASSUME NEW i \in 1..Len(soQueue'), NEW j \in 1..Len(soQueue'), soQueue'[i] = soQueue'[j]
                 PROVE  i = j
      BY DEF ShellThreadDistinct
    <3>1. i + 1 = j + 1
      BY <2>3 DEF ShellThreadIInv, ShellThreadThreadOK, ShellThreadDistinct
    <3> QED BY <3>1
  <2>6. ~ShellThreadIn(soRunning', soQueue')
    <3> SUFFICES ASSUME NEW i \in 1..Len(soQueue'), soQueue'[i] = soRunning' PROVE FALSE
      BY DEF ShellThreadIn
    <3>1. 1 \in 1..Len(soQueue) /\ i + 1 \in 1..Len(soQueue) /\ soQueue[i + 1] = soQueue[1]
      BY <2>1, <2>2, <2>3
    <3>2. i + 1 = 1
      BY <3>1 DEF ShellThreadIInv, ShellThreadThreadOK, ShellThreadDistinct
    <3> QED BY <3>2
  <2>7. \A i \in 1..Len(soQueue') : soCall'[soQueue'[i]] # "new"
    BY <1>1, <2>3 DEF ShellThreadIInv, ShellThreadThreadOK
  <2>8. ShellThreadTold' = ShellThreadTold
    BY <1>1 DEF ShellThreadTold
  <2> QED BY <1>1, <2>1, <2>3, <2>4, <2>5, <2>6, <2>7, <2>8 DEF ShellThreadIInv,
      ShellThreadThreadOK
<1> QED BY <1>2, <1>3

LEMMA ShellThreadJobEndsHolds ==
  ASSUME ShellThread!ObjectAssumption, ShellThreadIInv, ShellThread!JobEnds
  PROVE  ShellThreadThreadOK'
<1>1. /\ soRunning \in soCalls /\ soRunning' = None /\ soHolder' = None /\ UNCHANGED <<soQueue, soPosted>>
      /\ None \notin soCalls
  BY DEF ShellThread!JobEnds, ShellThreadIInv, ShellThreadThreadOK,
    ShellThread!ObjectAssumption
<1>2. soCall \in [soCalls -> ShellThreadSteps]
  BY DEF ShellThreadIInv, ShellThreadThreadOK
<1>3. \/ soCall' = soCall
      \/ soCall[soRunning] = "pushed" /\ soCall' = [soCall EXCEPT ![soRunning] = "ran"]
      \/ soCall[soRunning] # "pushed" /\ soCall' = [soCall EXCEPT ![soRunning] = "done"]
  BY DEF ShellThread!JobEnds, ShellThread!Step
<1>4. /\ soCall' \in [soCalls -> ShellThreadSteps] /\ ShellThreadTold \subseteq ShellThreadTold'
      /\ \A d \in soCalls : soCall[d] # "new" => soCall'[d] # "new"
  BY <1>1, <1>2, <1>3 DEF ShellThreadSteps, ShellThreadTold
<1>5. Cardinality(ShellThreadTold) \in Nat /\ Cardinality(ShellThreadTold') \in Nat
      /\ Cardinality(ShellThreadTold) <= Cardinality(ShellThreadTold')
  BY <1>4, ShellThreadToldGrows DEF ShellThreadTold
<1>6. soPosted' \in Nat /\ soPosted' <= Cardinality(ShellThreadTold')
  BY <1>1, <1>5 DEF ShellThreadIInv, ShellThreadThreadOK
<1>7. ~ShellThreadIn(soRunning', soQueue')
  BY <1>1 DEF ShellThreadIn, ShellThreadIInv, ShellThreadThreadOK
<1> QED BY <1>1, <1>4, <1>6, <1>7 DEF ShellThreadIInv, ShellThreadThreadOK,
    ShellThreadDistinct

LEMMA ShellThreadAheadIn ==
  ASSUME ShellThread!ObjectAssumption, NEW n \in Nat, soReader \in 0..soSize
  PROVE  ShellThread!Ahead(n) \in 0..soSize /\ ShellThread!Ahead(n) >= soReader
  BY DEF ShellThread!Ahead, ShellThread!ObjectAssumption

LEMMA ShellThreadReadHolds ==
  ASSUME ShellThread!ObjectAssumption, ShellThreadIInv, NEW n \in Nat, ShellThread!Read(n)
  PROVE  ShellThreadStreamOK'
<1>1. soReader \in 0..soSize /\ soPosition \in Nat /\ soSize \in Nat
  BY DEF ShellThread!Read, ShellThreadIInv, ShellThreadStreamOK,
    ShellThread!ObjectAssumption
<1>2. CASE /\ soReader' = ShellThread!Ahead(n) /\ soPosition' = soPosition + (ShellThread!Ahead(n) - soReader)
           /\ UNCHANGED soBroken
  <2>1. ShellThread!Ahead(n) \in 0..soSize /\ ShellThread!Ahead(n) >= soReader
    BY <1>1, ShellThreadAheadIn
  <2>2. soPosition' \in Nat /\ soReader' \in 0..soSize
    BY <1>1, <1>2, <2>1
  <2>3. ASSUME ~soBroken PROVE soReader' = IF soPosition' < soSize THEN soPosition' ELSE soSize
    BY <1>1, <1>2, <2>1, <2>3 DEF ShellThreadIInv, ShellThreadStreamOK,
      ShellThread!Ahead, ShellThread!ObjectAssumption
  <2> QED BY <1>2, <2>2, <2>3 DEF ShellThreadIInv, ShellThreadStreamOK
<1>3. CASE /\ soBroken' = TRUE /\ UNCHANGED soPosition /\ \E m \in 0..n : soReader' = ShellThread!Ahead(m)
  <2>1. PICK m \in 0..n : soReader' = ShellThread!Ahead(m)
    BY <1>3
  <2>2. soReader' \in 0..soSize
    BY <1>1, <2>1, ShellThreadAheadIn
  <2> QED BY <1>1, <1>3, <2>2 DEF ShellThreadStreamOK
<1> QED BY <1>2, <1>3 DEF ShellThread!Read

LEMMA ShellThreadSeekHolds ==
  ASSUME ShellThread!ObjectAssumption, ShellThreadIInv, NEW p \in Nat, ShellThread!Seek(p)
  PROVE  ShellThreadStreamOK'
<1> DEFINE skips == p > soPosition /\ soReader # None /\ p - soPosition <= soShort
<1>1. soPosition \in Nat /\ soReader \in 0..soSize \cup {None} /\ soBroken \in BOOLEAN /\ soSize \in Nat
      /\ None \notin Int
  BY DEF ShellThreadIInv, ShellThreadStreamOK, ShellThread!ObjectAssumption
<1>2. CASE skips /\ soReader' = ShellThread!Ahead(p - soPosition) /\ soPosition' = p /\ soBroken' = soBroken
  <2>1. soReader \in 0..soSize /\ p - soPosition \in Nat
    BY <1>1, <1>2
  <2>2. soReader' \in 0..soSize
    BY <1>2, <2>1, ShellThreadAheadIn
  <2>3. ASSUME ~soBroken PROVE soReader' = IF soPosition' < soSize THEN soPosition' ELSE soSize
    BY <1>1, <1>2, <2>1, <2>3 DEF ShellThreadIInv, ShellThreadStreamOK,
      ShellThread!Ahead
  <2> QED BY <1>1, <1>2, <2>2, <2>3 DEF ShellThreadStreamOK
<1>3. CASE ~skips /\ soReader' = None /\ soPosition' = p /\ soBroken' = FALSE
  BY <1>1, <1>3 DEF ShellThreadStreamOK
<1>4. CASE /\ skips /\ soBroken' = TRUE /\ soPosition' = soPosition
           /\ \E m \in 0..(p - soPosition) : soReader' = ShellThread!Ahead(m)
  <2>1. PICK m \in 0..(p - soPosition) : soReader' = ShellThread!Ahead(m)
    BY <1>4
  <2>2. soReader \in 0..soSize /\ m \in Nat
    BY <1>1, <1>4
  <2>3. soReader' \in 0..soSize
    BY <2>1, <2>2, ShellThreadAheadIn
  <2> QED BY <1>1, <1>4, <2>3 DEF ShellThreadStreamOK
<1>5. ASSUME soReader' = (IF skips THEN ShellThread!Ahead(p - soPosition) ELSE None), soPosition' = p,
             soBroken' = (soBroken /\ skips)
      PROVE  ShellThreadStreamOK'
  <2>1. CASE skips
    <3>1. soBroken' = soBroken
      BY <1>1, <1>5, <2>1
    <3> QED BY <1>2, <1>5, <2>1, <3>1
  <2>2. CASE ~skips
    <3>1. soBroken' = FALSE
      BY <1>5, <2>2
    <3> QED BY <1>3, <1>5, <2>2, <3>1
  <2> QED BY <2>1, <2>2
<1> HIDE DEF skips
<1>6. /\ p \in Nat
      /\ \/ soReader' = (IF skips THEN ShellThread!Ahead(p - soPosition) ELSE None) /\ soPosition' = p
           /\ soBroken' = (soBroken /\ skips)
         \/ /\ skips /\ soBroken' = TRUE /\ soPosition' = soPosition
            /\ \E m \in 0..(p - soPosition) : soReader' = ShellThread!Ahead(m)
  BY DEF ShellThread!Seek, skips
<1> QED BY <1>4, <1>5, <1>6

LEMMA ShellThreadInvariance ==
  ASSUME ShellThread!ObjectAssumption
  PROVE  ShellThread!Spec => []ShellThreadIInv
<1>1. ASSUME ShellThreadIInv, [ShellThread!Next]_ShellThread!vars PROVE ShellThreadIInv'
  <2>1. ASSUME UNCHANGED ShellThread!thread PROVE ShellThreadThreadOK'
    BY <1>1, <2>1 DEF ShellThread!thread, ShellThreadIInv, ShellThreadThreadOK,
      ShellThreadDistinct, ShellThreadIn, ShellThreadTold
  <2>2. ASSUME UNCHANGED ShellThread!stream PROVE ShellThreadStreamOK'
    BY <1>1, <2>2 DEF ShellThread!stream, ShellThreadIInv, ShellThreadStreamOK
  <2>3. CASE UNCHANGED ShellThread!vars
    BY <2>1, <2>2, <2>3 DEF ShellThread!vars, ShellThreadIInv
  <2>4. ASSUME NEW c \in soCalls, ShellThread!Push(c) \/ ShellThread!PostMessage(c) \/ ShellThread!TimesOut(c) PROVE ShellThreadIInv'
    <3>1. UNCHANGED ShellThread!stream
      BY <2>4 DEF ShellThread!Push, ShellThread!PostMessage, ShellThread!TimesOut
    <3> QED BY <1>1, <2>2, <2>4, <3>1, ShellThreadPushHolds,
        ShellThreadPostMessageHolds, ShellThreadTimesOutHolds DEF ShellThreadIInv
  <2>5. CASE ShellThread!ThreadStep
    <3>1. UNCHANGED ShellThread!stream
      BY <2>5 DEF ShellThread!ThreadStep, ShellThread!Pop, ShellThread!JobEnds
    <3> QED BY <1>1, <2>2, <2>5, <3>1, ShellThreadPopHolds, ShellThreadJobEndsHolds
        DEF ShellThreadIInv, ShellThread!ThreadStep
  <2>6. CASE ShellThread!GetData
    BY <2>1, <2>2, <2>6 DEF ShellThread!GetData, ShellThreadIInv
  <2>7. CASE ShellThread!Open
    <3>1. ShellThreadStreamOK'
      BY <1>1, <2>7 DEF ShellThread!Open, ShellThreadIInv, ShellThreadStreamOK,
        ShellThread!ObjectAssumption
    <3> QED BY <2>1, <2>7, <3>1 DEF ShellThread!Open, ShellThreadIInv
  <2>8. ASSUME NEW n \in 1..2, ShellThread!Read(n) PROVE ShellThreadIInv'
    <3>1. ShellThreadStreamOK'
      BY <1>1, <2>8, ShellThreadReadHolds
    <3> QED BY <2>1, <2>8, <3>1 DEF ShellThread!Read, ShellThreadIInv
  <2>9. ASSUME NEW p \in 0..(soSize + 1), ShellThread!Seek(p) PROVE ShellThreadIInv'
    <3>1. ShellThreadStreamOK'
      BY <1>1, <2>9, ShellThreadSeekHolds
    <3> QED BY <2>1, <2>9, <3>1 DEF ShellThread!Seek, ShellThreadIInv
  <2> QED BY <1>1, <2>3, <2>4, <2>5, <2>6, <2>7, <2>8, <2>9 DEF ShellThread!Next
<1> QED BY <1>1, ShellThreadInitHolds, PTL DEF ShellThread!Spec

(* The variables of ShellObjects have their types: there are never more     *)
(* messages than calls.                                                     *)
THEOREM ShellThreadTypeCorrect ==
  ASSUME ShellThread!ObjectAssumption
  PROVE  ShellThread!Spec => []ShellThread!TypeOK
<1>1. ASSUME ShellThreadIInv PROVE ShellThread!TypeOK
  <2>1. Cardinality(ShellThreadTold) \in Nat /\ Cardinality(soCalls) \in Nat
        /\ Cardinality(ShellThreadTold) <= Cardinality(soCalls)
    BY ShellThreadToldGrows DEF ShellThreadTold
  <2> QED BY <1>1, <2>1, ShellThreadFinite DEF ShellThreadIInv, ShellThreadThreadOK, ShellThreadStreamOK,
      ShellThread!TypeOK
<1> QED BY <1>1, ShellThreadInvariance, PTL

(* The open download stands where the client is, across any seeks and      *)
(* failed openings, except after a failed read or skip until it is opened   *)
(* anew.                                                                    *)
THEOREM ShellThreadStreamInStep ==
  ASSUME ShellThread!ObjectAssumption
  PROVE  ShellThread!Spec => []ShellThread!InStep
<1>1. ShellThreadIInv => ShellThread!InStep
  BY DEF ShellThreadIInv, ShellThreadStreamOK, ShellThread!InStep, ShellThread!Placed
<1> QED BY <1>1, ShellThreadInvariance, PTL

(* A job runs under the lock, after it was pushed, and once.                *)
THEOREM ShellThreadJobsRunOnce ==
  ASSUME ShellThread!ObjectAssumption
  PROVE  ShellThread!Spec => []ShellThread!RunsOnce
<1>1. ShellThreadIInv => ShellThread!RunsOnce
  BY DEF ShellThreadIInv, ShellThreadThreadOK, ShellThreadDistinct, ShellThreadIn,
    ShellThread!RunsOnce
<1> QED BY <1>1, ShellThreadInvariance, PTL

-----------------------------------------------------------------------------
(* Proofs about DiskImage for every number of calls, images and devices.     *)
DisksStages == {"idle", "status", "mounts", "read", "attach", "eject", "exit", "answered"}

DisksRecords ==
    [stage : DisksStages, action : {"status", "mount", "unmount", None}, image : diImages \cup {None},
     device : diDevices \cup {None}, lost : BOOLEAN, mixed : BOOLEAN]

\* The stages between a status that found a device and its use.
DisksHolding == {"mounts", "read", "eject"}

\* A call that asks or acts has an image; one that holds a device has the
\* device of its image, unless it was told of the loss.
DisksCallOK(r, a) ==
    /\ r.stage \in DisksHolding \cup {"status", "attach"} =>
         r.image \in diImages /\ r.action \in {"status", "mount", "unmount"}
    /\ r.stage \in DisksHolding => r.device \in diDevices /\ (~r.lost => a[r.image] = r.device)

DisksApart(a) == \A i, j \in diImages : i # j => a[i] = None \/ a[i] # a[j]

DisksTypeInv ==
    /\ diSystem \in diSystems
    /\ diAttached \in [diImages -> diDevices \cup {None}]
    /\ diBuffer \in diCalls \cup {None}
    /\ diAt \in [diCalls -> DisksRecords]

DisksIInv ==
    /\ DisksTypeInv
    /\ DisksApart(diAttached)
    /\ \A c \in diCalls : DisksCallOK(diAt[c], diAttached)

LEMMA DisksIdleFits == Disks!Idle \in DisksRecords /\ \A a : DisksCallOK(Disks!Idle, a)
  BY DEF Disks!Idle, DisksRecords, DisksCallOK, DisksStages, DisksHolding

LEMMA DisksInitHolds == Disks!Init => DisksIInv
<1> SUFFICES ASSUME Disks!Init PROVE DisksIInv
  OBVIOUS
<1>1. diAt = [c \in diCalls |-> Disks!Idle]
  BY DEF Disks!Init
<1>2. DisksTypeInv /\ DisksApart(diAttached)
  <2>1. diAttached \in [diImages -> diDevices \cup {None}] /\ DisksApart(diAttached)
    BY DEF Disks!Init, DisksApart
  <2> QED BY <1>1, <2>1, DisksIdleFits DEF Disks!Init, DisksTypeInv
<1>3. \A c \in diCalls : DisksCallOK(diAt[c], diAttached)
  BY <1>1, DisksIdleFits
<1> QED BY <1>2, <1>3 DEF DisksIInv

-----------------------------------------------------------------------------
\* Steps of a call that leave the images alone.

LEMMA DisksCallHolds ==
  ASSUME DisksIInv, NEW c \in diCalls, NEW r \in DisksRecords,
         diAt' = [diAt EXCEPT ![c] = r],
         DisksCallOK(r, diAttached), UNCHANGED <<diSystem, diAttached>>, diBuffer' \in diCalls \cup {None}
  PROVE  DisksIInv'
<1>1. DisksTypeInv'
  BY DEF DisksIInv, DisksTypeInv
<1>2. \A d \in diCalls : DisksCallOK(diAt[d], diAttached)'
  BY DEF DisksIInv, DisksTypeInv
<1> QED BY <1>1, <1>2 DEF DisksIInv, DisksApart

LEMMA DisksCallKnown ==
  ASSUME DisksIInv, NEW c \in diCalls
  PROVE  diAt[c] \in DisksRecords /\ DisksCallOK(diAt[c], diAttached)
  BY DEF DisksIInv, DisksTypeInv

LEMMA DisksOperateHolds ==
  ASSUME Disks!DiskAssumption, DisksIInv, NEW c \in diCalls,
         NEW action \in {"status", "mount", "unmount"},
         NEW i \in diPaths[diSystem], Disks!Operate(c, action, i)
  PROVE  DisksIInv'
<1> DEFINE refused == [Disks!Idle EXCEPT !.stage = "answered"]
           asked == [Disks!Idle EXCEPT !.stage = "status", !.action = action, !.image = i]
<1>1. refused \in DisksRecords /\ DisksCallOK(refused, diAttached)
  BY DEF Disks!Idle, DisksRecords, DisksCallOK, DisksStages, DisksHolding
<1>2. ASSUME i \notin diRejected PROVE asked \in DisksRecords /\ DisksCallOK(asked, diAttached)
  <2>1. i \in diImages
    BY <1>2 DEF Disks!DiskAssumption, DisksIInv, DisksTypeInv
  <2> QED BY <2>1 DEF Disks!Idle, DisksRecords, DisksCallOK, DisksStages, DisksHolding
<1>3. /\ diAt' = [diAt EXCEPT ![c] = IF i \in diRejected THEN refused ELSE asked]
      /\ UNCHANGED <<diSystem, diAttached, diBuffer>>
  BY DEF Disks!Operate
<1> HIDE DEF refused, asked
<1>4. PICK r \in DisksRecords : diAt' = [diAt EXCEPT ![c] = r] /\ DisksCallOK(r, diAttached)
  BY <1>1, <1>2, <1>3
<1> QED BY <1>3, <1>4, DisksCallHolds DEF DisksIInv, DisksTypeInv

\* What follows a status fits the device that was found.
LEMMA DisksFollowsFits ==
  ASSUME NEW c, diAt[c].action \in {"status", "mount", "unmount"}, NEW d
  PROVE  /\ Disks!Follows(c, d) \in {"answered", "attach", "eject"}
         /\ Disks!Follows(c, d) = "eject" => d # None
  BY DEF Disks!Follows

LEMMA DisksStatusHolds ==
  ASSUME Disks!DiskAssumption, DisksIInv, NEW c \in diCalls, Disks!Status(c)
  PROVE  DisksIInv'
<1>1. /\ diAt[c].stage = "status" /\ UNCHANGED <<diSystem, diAttached, diBuffer>>
      /\ diAt[c] \in DisksRecords /\ diAt[c].image \in diImages
      /\ diAt[c].action \in {"status", "mount", "unmount"}
  BY DisksCallKnown DEF Disks!Status, DisksCallOK
<1> DEFINE d == diAttached[diAt[c].image]
           s == IF diSystem = "diskutil" /\ d # None THEN "mounts" ELSE Disks!Follows(c, d)
           r == [diAt[c] EXCEPT !.stage = s, !.device = d]
<1>2. d \in diDevices \cup {None}
  BY <1>1 DEF DisksIInv, DisksTypeInv
<1>3. s \in {"answered", "attach", "eject", "mounts"} /\ (s \in {"eject", "mounts"} => d # None)
  BY <1>1, DisksFollowsFits
<1>4. diAt' = [diAt EXCEPT ![c] = r]
  BY <1>1 DEF Disks!Status, DisksIInv, DisksTypeInv, DisksRecords
<1> HIDE DEF s
<1>5. r \in DisksRecords /\ r.stage = s /\ r.device = d /\ r.image = diAt[c].image /\ r.action = diAt[c].action
  BY <1>1, <1>2, <1>3 DEF DisksRecords, DisksStages
<1> HIDE DEF r
<1>6. DisksCallOK(r, diAttached)
  BY <1>1, <1>2, <1>3, <1>5 DEF DisksCallOK, DisksHolding
<1> QED BY <1>1, <1>4, <1>5, <1>6, DisksCallHolds DEF DisksIInv, DisksTypeInv

LEMMA DisksMountsHolds ==
  ASSUME Disks!DiskAssumption, DisksIInv, NEW c \in diCalls, Disks!Mounts(c)
  PROVE  DisksIInv'
<1> DEFINE r == [diAt[c] EXCEPT !.stage = "read"]
<1>1. /\ diAt[c].stage = "mounts" /\ UNCHANGED <<diSystem, diAttached>> /\ diBuffer' = c
      /\ diAt' = [diAt EXCEPT ![c] = r]
  BY DEF Disks!Mounts
<1>2. /\ r \in DisksRecords /\ r.stage = "read" /\ r.image = diAt[c].image /\ r.device = diAt[c].device
      /\ r.action = diAt[c].action /\ r.lost = diAt[c].lost
  BY DisksCallKnown DEF DisksRecords, DisksStages
<1> HIDE DEF r
<1>3. DisksCallOK(r, diAttached)
  BY <1>1, <1>2, DisksCallKnown DEF DisksCallOK, DisksHolding
<1> QED BY <1>1, <1>2, <1>3, DisksCallHolds

LEMMA DisksReadHolds ==
  ASSUME Disks!DiskAssumption, DisksIInv, NEW c \in diCalls, Disks!Read(c) PROVE DisksIInv'
<1> DEFINE m == diBuffer # c
           s == Disks!Follows(c, diAt[c].device)
           r == [diAt[c] EXCEPT !.mixed = m, !.stage = s]
<1>1. /\ diAt[c].stage = "read" /\ UNCHANGED <<diSystem, diAttached, diBuffer>>
      /\ diAt[c] \in DisksRecords /\ diAt[c].action \in {"status", "mount", "unmount"}
  BY DisksCallKnown DEF Disks!Read, DisksCallOK, DisksHolding
<1>2. m \in BOOLEAN /\ s \in {"answered", "attach", "eject"}
  BY <1>1, DisksFollowsFits
<1>3. diAt' = [diAt EXCEPT ![c] = r]
  BY <1>1 DEF Disks!Read, DisksIInv, DisksTypeInv, DisksRecords
<1> HIDE DEF m, s
<1>4. /\ r \in DisksRecords /\ r.stage = s /\ r.image = diAt[c].image /\ r.device = diAt[c].device
      /\ r.action = diAt[c].action /\ r.lost = diAt[c].lost
  BY <1>1, <1>2 DEF DisksRecords, DisksStages
<1> HIDE DEF r
<1>5. DisksCallOK(r, diAttached)
  BY <1>1, <1>2, <1>4, DisksCallKnown DEF DisksCallOK, DisksHolding
<1> QED BY <1>1, <1>3, <1>4, <1>5, DisksCallHolds DEF DisksIInv, DisksTypeInv

\* The end of a call, however it comes.
LEMMA DisksEndHolds ==
  ASSUME Disks!DiskAssumption, DisksIInv, NEW c \in diCalls,
         Disks!Exits(c) \/ Disks!Killed(c) \/ Disks!Answered(c)
  PROVE  DisksIInv'
<1> DEFINE r == [diAt[c] EXCEPT !.stage = "answered"]
<1>1. UNCHANGED <<diSystem, diAttached, diBuffer>>
  BY DEF Disks!Exits, Disks!Killed, Disks!Answered
<1>2. r \in DisksRecords /\ r.stage = "answered"
  BY DisksCallKnown DEF DisksRecords, DisksStages
<1>3. diAt' = [diAt EXCEPT ![c] = r] \/ diAt' = [diAt EXCEPT ![c] = Disks!Idle]
  BY DEF Disks!Exits, Disks!Killed, Disks!Answered
<1> HIDE DEF r
<1>4. DisksCallOK(r, diAttached)
  BY <1>2 DEF DisksCallOK, DisksHolding
<1> QED BY <1>1, <1>2, <1>3, <1>4, DisksIdleFits, DisksCallHolds DEF DisksIInv,
    DisksTypeInv

-----------------------------------------------------------------------------
\* Steps that attach and eject.

\* An image gets a free device: no call holds a device of it.
LEMMA DisksAttachedHolds ==
  ASSUME Disks!DiskAssumption, DisksIInv, NEW i \in diImages, diAttached[i] = None,
         NEW d \in Disks!Free,
         diAttached' = [diAttached EXCEPT ![i] = d]
  PROVE  /\ diAttached' \in [diImages -> diDevices \cup {None}] /\ DisksApart(diAttached')
         /\ \A c \in diCalls : DisksCallOK(diAt[c], diAttached')
<1>1. d \in diDevices /\ \A j \in diImages : diAttached[j] # d
  BY DEF Disks!Free
<1>2. diAttached' \in [diImages -> diDevices \cup {None}]
  BY <1>1 DEF DisksIInv, DisksTypeInv
<1>3. DisksApart(diAttached')
  BY <1>1 DEF DisksIInv, DisksTypeInv, DisksApart
<1>4. ASSUME NEW c \in diCalls PROVE DisksCallOK(diAt[c], diAttached')
  <2>1. DisksCallOK(diAt[c], diAttached) /\ None \notin diDevices
    BY DEF DisksIInv, Disks!DiskAssumption
  <2>2. CASE diAt[c].stage \in DisksHolding /\ ~diAt[c].lost
    <3>1. diAt[c].image \in diImages /\ diAttached[diAt[c].image] = diAt[c].device /\ diAt[c].device # None
      BY <2>1, <2>2 DEF DisksCallOK
    <3>2. diAttached'[diAt[c].image] = diAt[c].device
      BY <3>1 DEF DisksIInv, DisksTypeInv
    <3> QED BY <2>1, <3>2 DEF DisksCallOK
  <2>3. CASE ~(diAt[c].stage \in DisksHolding /\ ~diAt[c].lost)
    BY <2>1, <2>3 DEF DisksCallOK
  <2> QED BY <2>2, <2>3
<1> QED BY <1>2, <1>3, <1>4

LEMMA DisksAttachHolds ==
  ASSUME Disks!DiskAssumption, DisksIInv, NEW c \in diCalls, Disks!Attach(c)
  PROVE  DisksIInv'
<1> DEFINE r == [diAt[c] EXCEPT !.stage = "exit"]
<1>1. /\ diAt[c].stage = "attach" /\ diAt' = [diAt EXCEPT ![c] = r] /\ UNCHANGED <<diSystem, diBuffer>>
      /\ diAt[c].image \in diImages
  BY DisksCallKnown DEF Disks!Attach, DisksCallOK
<1>2. r \in DisksRecords /\ r.stage = "exit"
  BY DisksCallKnown DEF DisksRecords, DisksStages
<1> HIDE DEF r
<1>3. \A a : DisksCallOK(r, a)
  BY <1>2 DEF DisksCallOK, DisksHolding
<1>4. /\ diAttached' \in [diImages -> diDevices \cup {None}] /\ DisksApart(diAttached')
      /\ \A d \in diCalls : DisksCallOK(diAt[d], diAttached')
  <2>1. CASE diAttached[diAt[c].image] # None
    BY <2>1 DEF Disks!Attach, DisksIInv, DisksTypeInv, DisksApart
  <2>2. CASE diAttached[diAt[c].image] = None
    <3>1. PICK d \in Disks!Free : diAttached' = [diAttached EXCEPT ![diAt[c].image] = d]
      BY <2>2 DEF Disks!Attach
    <3> QED BY <1>1, <2>2, <3>1, DisksAttachedHolds
  <2> QED BY <2>1, <2>2
<1>5. DisksTypeInv'
  BY <1>1, <1>2, <1>4 DEF DisksIInv, DisksTypeInv
<1>6. \A d \in diCalls : DisksCallOK(diAt'[d], diAttached')
  BY <1>1, <1>3, <1>4 DEF DisksIInv, DisksTypeInv
<1> QED BY <1>4, <1>5, <1>6 DEF DisksIInv

\* Images lose their devices, and the calls that hold one of them are told.
LEMMA DisksLossFits ==
  ASSUME Disks!DiskAssumption, DisksIInv, NEW gone, NEW c \in diCalls, NEW a,
         \A i \in diImages : i \notin gone => a[i] = diAttached[i],
         NEW r, r = [diAt[c] EXCEPT !.lost = @ \/ (diAt[c].image \in gone /\ diAt[c].device # None)]
  PROVE  r \in DisksRecords /\ DisksCallOK(r, a)
<1> DEFINE l == diAt[c].lost \/ (diAt[c].image \in gone /\ diAt[c].device # None)
<1>1. l \in BOOLEAN /\ (~l => ~diAt[c].lost /\ (diAt[c].image \notin gone \/ diAt[c].device = None))
  BY DisksCallKnown DEF DisksRecords
<1>2. r = [diAt[c] EXCEPT !.lost = l]
  BY DisksCallKnown DEF DisksRecords
<1> HIDE DEF l
<1>3. /\ r \in DisksRecords /\ r.lost = l /\ r.stage = diAt[c].stage /\ r.image = diAt[c].image
      /\ r.device = diAt[c].device /\ r.action = diAt[c].action
  BY <1>1, <1>2, DisksCallKnown DEF DisksRecords
<1>4. DisksCallOK(r, a)
  BY <1>1, <1>3, DisksCallKnown DEF DisksCallOK, Disks!DiskAssumption
<1> QED BY <1>3, <1>4

LEMMA DisksEjectHolds ==
  ASSUME Disks!DiskAssumption, DisksIInv, NEW c \in diCalls, Disks!Eject(c) PROVE DisksIInv'
<1> DEFINE gone == {i \in Disks!Ejected(c) : diAttached[i] # None}
           r == [diAt[c] EXCEPT !.stage = "exit"]
           told(x) == [diAt[x] EXCEPT !.lost = @ \/ (diAt[x].image \in gone /\ diAt[x].device # None)]
<1>1. /\ diAt[c].stage = "eject" /\ UNCHANGED <<diSystem, diBuffer>>
      /\ diAttached' = [i \in diImages |-> IF i \in gone THEN None ELSE diAttached[i]]
      /\ diAt' = [x \in diCalls |-> IF x = c THEN r ELSE told(x)]
  BY DEF Disks!Eject
<1>2. r \in DisksRecords /\ r.stage = "exit"
  BY DisksCallKnown DEF DisksRecords, DisksStages
<1> HIDE DEF r, gone
<1>3. \A i \in diImages : i \notin gone => diAttached'[i] = diAttached[i]
  BY <1>1
<1>4. \A x \in diCalls : told(x) \in DisksRecords /\ DisksCallOK(told(x), diAttached')
  BY <1>3, DisksLossFits
<1> HIDE DEF told
<1>5. diAttached' \in [diImages -> diDevices \cup {None}] /\ DisksApart(diAttached')
  BY <1>1 DEF DisksIInv, DisksTypeInv, DisksApart
<1>6. DisksCallOK(r, diAttached')
  BY <1>2 DEF DisksCallOK, DisksHolding
<1>7. DisksTypeInv'
  BY <1>1, <1>2, <1>4, <1>5 DEF DisksIInv, DisksTypeInv
<1>8. \A x \in diCalls : DisksCallOK(diAt'[x], diAttached')
  BY <1>1, <1>4, <1>6
<1> QED BY <1>5, <1>7, <1>8 DEF DisksIInv

LEMMA DisksOutsideHolds ==
  ASSUME Disks!DiskAssumption, DisksIInv, NEW i \in diImages, Disks!Outside(i)
  PROVE  DisksIInv'
<1>1. UNCHANGED <<diSystem, diBuffer>>
  BY DEF Disks!Outside
<1>2. CASE diAttached[i] = None /\ diAt' = diAt /\ \E d \in Disks!Free : diAttached' = [diAttached EXCEPT ![i] = d]
  <2>1. PICK d \in Disks!Free : diAttached' = [diAttached EXCEPT ![i] = d]
    BY <1>2
  <2>2. /\ diAttached' \in [diImages -> diDevices \cup {None}] /\ DisksApart(diAttached')
        /\ \A c \in diCalls : DisksCallOK(diAt[c], diAttached')
    BY <1>2, <2>1, DisksAttachedHolds
  <2> QED BY <1>1, <1>2, <2>2 DEF DisksIInv, DisksTypeInv
<1>3. CASE diAttached[i] # None /\ diAttached' = [diAttached EXCEPT ![i] = None] /\ diAt' = Disks!Loses(i)
  <2> DEFINE told(x) == [diAt[x] EXCEPT !.lost = @ \/ (diAt[x].image \in {i} /\ diAt[x].device # None)]
  <2>1. diAt' = [x \in diCalls |-> told(x)]
    BY <1>3 DEF Disks!Loses, DisksIInv, DisksTypeInv, DisksRecords
  <2>2. \A j \in diImages : j \notin {i} => diAttached'[j] = diAttached[j]
    BY <1>3 DEF DisksIInv, DisksTypeInv
  <2>3. \A x \in diCalls : told(x) \in DisksRecords /\ DisksCallOK(told(x), diAttached')
    BY <2>2, DisksLossFits
  <2> HIDE DEF told
  <2>4. diAttached' \in [diImages -> diDevices \cup {None}] /\ DisksApart(diAttached')
    BY <1>3 DEF DisksIInv, DisksTypeInv, DisksApart
  <2> QED BY <1>1, <2>1, <2>3, <2>4 DEF DisksIInv, DisksTypeInv
<1> QED BY <1>2, <1>3 DEF Disks!Outside

LEMMA DisksNextHolds ==
  ASSUME Disks!DiskAssumption, DisksIInv, [Disks!Next]_Disks!vars
  PROVE  DisksIInv'
<1>1. CASE UNCHANGED Disks!vars
  BY <1>1 DEF Disks!vars, DisksIInv, DisksTypeInv, DisksApart
<1> QED BY <1>1, DisksOperateHolds, DisksStatusHolds, DisksMountsHolds, DisksReadHolds,
    DisksAttachHolds, DisksEjectHolds, DisksEndHolds, DisksOutsideHolds DEF Disks!Next

LEMMA DisksInvariant == ASSUME Disks!DiskAssumption PROVE Disks!Spec => []DisksIInv
  BY DisksInitHolds, DisksNextHolds, PTL DEF Disks!Spec

(* Every variable has its type. *)
THEOREM DisksTypeCorrect == ASSUME Disks!DiskAssumption PROVE Disks!Spec => []Disks!TypeOK
<1>1. DisksIInv => Disks!TypeOK
  BY DEF DisksIInv, DisksTypeInv, Disks!TypeOK, DisksRecords, DisksStages, Disks!Running
<1> QED BY <1>1, DisksInvariant, PTL

(* An image is ejected by a call for it, or by one whose device was lost. *)
THEOREM DisksEjectsOwnOnly ==
  ASSUME Disks!DiskAssumption
  PROVE  Disks!Spec => Disks!EjectsOwn
<1> DEFINE A == \A c \in diCalls, i \in diImages :
          (diAt[c].stage = "eject" /\ diAt'[c].stage = "exit" /\ diAttached[i] # None /\ diAttached'[i] = None)
             => diAt[c].image = i \/ (diSystem # "windows" /\ diAt[c].lost)
<1>1. ASSUME DisksIInv, [Disks!Next]_Disks!vars PROVE A
  <2> SUFFICES ASSUME NEW c \in diCalls, NEW i \in diImages, diAt[c].stage = "eject",
                      diAt'[c].stage = "exit", diAttached[i] # None, diAttached'[i] = None
               PROVE  diAt[c].image = i \/ (diSystem # "windows" /\ diAt[c].lost)
    OBVIOUS
  <2>1. diAt \in [diCalls -> DisksRecords] /\ diAt[c] \in DisksRecords
    BY <1>1 DEF DisksIInv, DisksTypeInv
  <2>4. diAttached' # diAttached
    OBVIOUS
  <2>5. ASSUME NEW d \in diCalls, Disks!Attach(d) PROVE FALSE
    <3>1. diAttached[diAt[d].image] = None
      BY <2>4, <2>5 DEF Disks!Attach
    <3>2. PICK e \in Disks!Free : diAttached' = [diAttached EXCEPT ![diAt[d].image] = e]
      BY <2>5, <3>1 DEF Disks!Attach
    <3>3. diAttached'[i] = diAttached[i]
      BY <3>1, <3>2, <1>1 DEF DisksIInv, DisksTypeInv
    <3> QED BY <3>3
  <2>6. ASSUME NEW d \in diCalls, Disks!Eject(d) PROVE diAt[c].image = i \/ (diSystem # "windows" /\ diAt[c].lost)
    <3>1. i \in Disks!Ejected(d)
      BY <2>6 DEF Disks!Eject
    <3>2. c = d
      <4> SUFFICES ASSUME c # d PROVE FALSE
        OBVIOUS
      <4>1. diAt'[c] = [diAt[c] EXCEPT !.lost = @ \/ (diAt[c].image \in {j \in Disks!Ejected(d) : diAttached[j] # None}
                                                      /\ diAt[c].device # None)]
        BY <2>6 DEF Disks!Eject
      <4>2. diAt'[c].stage = diAt[c].stage
        BY <2>1, <4>1 DEF DisksRecords
      <4> QED BY <4>2
    <3>3. CASE diSystem = "windows"
      BY <3>1, <3>2, <3>3 DEF Disks!Ejected
    <3>4. CASE diSystem # "windows" /\ ~diAt[c].lost
      <4>1. diAttached[i] = diAt[c].device
        BY <3>1, <3>2, <3>4 DEF Disks!Ejected
      <4>2. diAt[c].image \in diImages /\ diAttached[diAt[c].image] = diAt[c].device
        BY <1>1, <3>4 DEF DisksIInv, DisksCallOK, DisksHolding
      <4> QED BY <4>1, <4>2, <1>1 DEF DisksIInv, DisksApart
    <3> QED BY <3>3, <3>4
  <2>7. ASSUME NEW j \in diImages, Disks!Outside(j) PROVE FALSE
    <3>1. CASE diAt' = diAt
      BY <3>1
    <3>2. CASE diAt' = Disks!Loses(j)
      <4>1. diAt'[c] = [diAt[c] EXCEPT !.lost = @ \/ (diAt[c].image = j /\ diAt[c].device # None)]
        BY <3>2 DEF Disks!Loses
      <4>2. diAt'[c].stage = diAt[c].stage
        BY <2>1, <4>1 DEF DisksRecords
      <4> QED BY <4>2
    <3> QED BY <2>7, <3>1, <3>2 DEF Disks!Outside
  <2>8. ASSUME diAttached' = diAttached PROVE FALSE
    BY <2>4, <2>8
  <2> QED BY <1>1, <2>5, <2>6, <2>7, <2>8 DEF Disks!Next, Disks!vars, Disks!Operate,
      Disks!Status, Disks!Mounts, Disks!Read, Disks!Exits, Disks!Killed, Disks!Answered
<1> QED BY <1>1, DisksInvariant, PTL DEF Disks!Spec, Disks!EjectsOwn

-----------------------------------------------------------------------------
(* Proofs about Scans for every number of walks, entries, results and slots. *)

\* What the instance calls finite, and counts, is what this module does.
LEMMA ScanFinite ==
  \A S : (Scan!IsFiniteSet(S) <=> IsFiniteSet(S)) /\ Scan!Cardinality(S) = Cardinality(S)
<1>1. \A S : Scan!IsFiniteSet(S) <=> IsFiniteSet(S)
  BY DEF Scan!IsFiniteSet, IsFiniteSet
<1>2. \A S : Scan!Cardinality(S) = Cardinality(S)
  BY <1>1 DEF Scan!Cardinality, Cardinality, Scan!IsFiniteSet, IsFiniteSet
<1> QED BY <1>1, <1>2

ScanVersions == Nat \cup {None}

ScanRecords == [stage : Scan!Stages, seen : 0..seEntries, count : Nat, batch : Nat, handed : Nat,
            limited : BOOLEAN, cancelled : BOOLEAN, failed : BOOLEAN, version : ScanVersions,
            generation : Nat]

\* What a search counted was handed over or waits in its batch, until its flag
\* is set; and what it says at its end is what it did.
ScanHonest(w, r) ==
  /\ r.stage \in {"new", "walking", "flushing"} /\ w \notin seFlags => r.handed + r.batch = r.count
  /\ r.stage = "outcome" /\ w \notin seFlags => r.handed = r.count
  /\ r.stage \in {"flushing", "outcome"} /\ w \notin seFlags => r.limited \/ r.seen = seEntries
  /\ r.stage \in {"answered", "over"} =>
       r.cancelled \/ r.failed \/ (r.handed = r.count /\ (r.limited \/ r.seen = seEntries))

ScanWhole(w, r) ==
  /\ r.stage = "queued" => w \in seStatuses
  /\ w \in seSearches => ScanHonest(w, r)

ScanWalksOK ==
  /\ seWalk \in [Scan!Walks -> ScanRecords]
  /\ \A w \in Scan!Walks : ScanWhole(w, seWalk[w])

ScanTaken == {w \in seStatuses : seWalk[w].stage = "walking"}

ScanSlotsOK == IsFiniteSet(ScanTaken) /\ sePermits = Cardinality(ScanTaken) /\ sePermits <= seSlots

ScanRowsOK ==
  /\ seFlags \subseteq Scan!Walks /\ seJobs \subseteq Scan!Walks
  /\ seDisk \in Nat /\ seGeneration \in Nat /\ seBadge \in ScanVersions
  /\ seOs = "macos" /\ seBadge # None => seBadge = seRow

ScanIInv == ScanWalksOK /\ ScanSlotsOK /\ ScanRowsOK

LEMMA ScanKinds ==
  ASSUME Scan!ScanAssumption
  PROVE  /\ seSearches \subseteq Scan!Walks /\ seStatuses \subseteq Scan!Walks
         /\ \A w \in seSearches : w \notin seSizes /\ w \notin seStatuses
         /\ \A w \in seStatuses : w \notin seSizes
  BY DEF Scan!ScanAssumption, Scan!Walks

LEMMA ScanInitHolds == ASSUME Scan!ScanAssumption PROVE Scan!Init => ScanIInv
<1> SUFFICES ASSUME Scan!Init PROVE ScanIInv
  OBVIOUS
<1>1. seWalk \in [Scan!Walks -> ScanRecords] /\ \A w \in Scan!Walks : seWalk[w].stage = "new"
  BY DEF Scan!Init, ScanRecords, Scan!Stages, ScanVersions, Scan!ScanAssumption
<1>2. \A w \in Scan!Walks : ScanWhole(w, seWalk[w])
  BY DEF Scan!Init, ScanWhole, ScanHonest
<1>3. ScanTaken = {}
  BY <1>1, ScanKinds DEF ScanTaken
<1>4. ScanSlotsOK
  BY <1>3, FS_EmptySet DEF Scan!Init, ScanSlotsOK, Scan!ScanAssumption
<1>5. seFlags = {} /\ seJobs = {} /\ seDisk = 0 /\ seGeneration = 0 /\ seBadge = None
  BY DEF Scan!Init, Scan!ScanAssumption
<1>6. ScanRowsOK
  BY <1>5 DEF ScanRowsOK, ScanVersions
<1> QED BY <1>1, <1>2, <1>4, <1>6 DEF ScanIInv, ScanWalksOK

\* A step of one walk.
LEMMA ScanPutHolds ==
  ASSUME Scan!ScanAssumption, ScanIInv, NEW w \in Scan!Walks, NEW r \in ScanRecords,
         Scan!Put(w, r),
         ScanWhole(w, r), seFlags' = seFlags
  PROVE  ScanWalksOK' /\ seWalk'[w] = r /\ \A v \in Scan!Walks \ {w} : seWalk'[v] = seWalk[v]
<1>1. /\ seWalk' \in [Scan!Walks -> ScanRecords] /\ seWalk'[w] = r
      /\ \A v \in Scan!Walks \ {w} : seWalk'[v] = seWalk[v]
  BY DEF ScanIInv, ScanWalksOK, Scan!Put
<1>2. ASSUME NEW v \in Scan!Walks PROVE ScanWhole(v, seWalk[v])'
  BY <1>1 DEF ScanIInv, ScanWalksOK, ScanWhole, ScanHonest
<1> QED BY <1>1, <1>2 DEF ScanWalksOK

LEMMA ScanSameSlots ==
  ASSUME Scan!ScanAssumption, ScanIInv, NEW w \in Scan!Walks, NEW r \in ScanRecords,
         seWalk'[w] = r, \A v \in Scan!Walks \ {w} : seWalk'[v] = seWalk[v],
         w \in seStatuses => (r.stage = "walking" <=> seWalk[w].stage = "walking"),
         sePermits' = sePermits
  PROVE  ScanSlotsOK'
<1>1. ScanTaken' = ScanTaken
  BY ScanKinds DEF ScanTaken
<1> QED BY <1>1 DEF ScanIInv, ScanSlotsOK

LEMMA ScanSlotGiven ==
  ASSUME Scan!ScanAssumption, ScanIInv, NEW w \in seStatuses, NEW r \in ScanRecords,
         seWalk'[w] = r, \A v \in Scan!Walks \ {w} : seWalk'[v] = seWalk[v],
         seWalk[w].stage = "walking", r.stage # "walking", sePermits' = sePermits - 1
  PROVE  ScanSlotsOK'
<1>1. ScanTaken' = ScanTaken \ {w} /\ w \in ScanTaken
  BY ScanKinds DEF ScanTaken
<1>2. /\ IsFiniteSet(ScanTaken \ {w}) /\ Cardinality(ScanTaken \ {w}) = Cardinality(ScanTaken) - 1
      /\ Cardinality(ScanTaken) \in Nat
  BY <1>1, FS_RemoveElement, FS_CardinalityType DEF ScanIInv, ScanSlotsOK
<1>3. seSlots \in Nat /\ Cardinality(ScanTaken) <= seSlots
  BY DEF Scan!ScanAssumption, ScanIInv, ScanSlotsOK
<1> QED BY <1>1, <1>2, <1>3 DEF ScanIInv, ScanSlotsOK

LEMMA ScanSlotTaken ==
  ASSUME Scan!ScanAssumption, ScanIInv, NEW w \in seStatuses, NEW r \in ScanRecords,
         seWalk'[w] = r, \A v \in Scan!Walks \ {w} : seWalk'[v] = seWalk[v],
         seWalk[w].stage # "walking", r.stage = "walking", sePermits < seSlots, sePermits' = sePermits + 1
  PROVE  ScanSlotsOK'
<1>1. ScanTaken' = ScanTaken \cup {w} /\ w \notin ScanTaken
  BY ScanKinds DEF ScanTaken
<1>2. /\ IsFiniteSet(ScanTaken \cup {w}) /\ Cardinality(ScanTaken \cup {w}) = Cardinality(ScanTaken) + 1
      /\ Cardinality(ScanTaken) \in Nat
  BY <1>1, FS_AddElement, FS_CardinalityType DEF ScanIInv, ScanSlotsOK
<1>3. seSlots \in Nat
  BY DEF Scan!ScanAssumption
<1> QED BY <1>1, <1>2, <1>3 DEF ScanIInv, ScanSlotsOK

LEMMA ScanStartHolds ==
  ASSUME Scan!ScanAssumption, ScanIInv, NEW w \in Scan!Walks, Scan!Start(w)
  PROVE  ScanIInv'
<1> DEFINE s == IF w \in seStatuses THEN "queued" ELSE "walking"
           r == [seWalk[w] EXCEPT !.stage = s, !.generation = seGeneration]
<1>1. /\ seWalk[w].stage = "new" /\ Scan!Put(w, r) /\ seJobs' = seJobs \cup {w}
      /\ UNCHANGED <<seFlags, sePermits, Scan!files>>
  BY DEF Scan!Start
<1>2. s \in Scan!Stages /\ s \in {"queued", "walking"} /\ (w \notin seStatuses => s = "walking")
      /\ (w \in seStatuses => s = "queued") /\ seGeneration \in Nat
  BY DEF Scan!Stages, ScanIInv, ScanRowsOK
<1> HIDE DEF s
<1>3. /\ r \in ScanRecords /\ r.stage = s /\ r.handed = seWalk[w].handed /\ r.batch = seWalk[w].batch
      /\ r.count = seWalk[w].count
  BY <1>2 DEF ScanIInv, ScanWalksOK, ScanRecords
<1> HIDE DEF r
<1>4. ScanWhole(w, r)
  BY <1>1, <1>2, <1>3, ScanKinds DEF ScanIInv, ScanWalksOK, ScanWhole, ScanHonest
<1>5. ScanWalksOK' /\ seWalk'[w] = r /\ \A v \in Scan!Walks \ {w} : seWalk'[v] = seWalk[v]
  BY <1>1, <1>3, <1>4, ScanPutHolds
<1>6. ScanSlotsOK'
  BY <1>1, <1>2, <1>3, <1>5, ScanSameSlots
<1> QED BY <1>1, <1>5, <1>6 DEF ScanIInv, ScanRowsOK, Scan!files

LEMMA ScanCancelHolds ==
  ASSUME Scan!ScanAssumption, ScanIInv, NEW w \in Scan!Walks, Scan!Cancel(w)
  PROVE  ScanIInv'
<1>1. seFlags' = seFlags \cup {w} /\ UNCHANGED <<seWalk, seJobs, sePermits, Scan!files>>
  BY DEF Scan!Cancel
<1>2. ScanWalksOK'
  BY <1>1 DEF ScanIInv, ScanWalksOK, ScanWhole, ScanHonest
<1>3. ScanSlotsOK'
  BY <1>1 DEF ScanIInv, ScanSlotsOK, ScanTaken
<1> QED BY <1>1, <1>2, <1>3 DEF ScanIInv, ScanRowsOK, Scan!files

LEMMA ScanAcquireHolds ==
  ASSUME Scan!ScanAssumption, ScanIInv, NEW w \in Scan!Walks, Scan!Acquire(w)
  PROVE  ScanIInv'
<1>1. seWalk[w].stage = "queued" /\ UNCHANGED <<seFlags, seJobs, Scan!files>>
  BY DEF Scan!Acquire
<1>2. w \in seStatuses /\ w \notin seSearches
  BY <1>1, ScanKinds DEF ScanIInv, ScanWalksOK, ScanWhole
<1>3. CASE Scan!Put(w, [seWalk[w] EXCEPT !.stage = "answered", !.cancelled = TRUE]) /\ sePermits' = sePermits
  <2> DEFINE r == [seWalk[w] EXCEPT !.stage = "answered", !.cancelled = TRUE]
  <2>1. r \in ScanRecords /\ r.stage = "answered"
    BY DEF ScanIInv, ScanWalksOK, ScanRecords, Scan!Stages
  <2>2. Scan!Put(w, r)
    BY <1>3
  <2> HIDE DEF r
  <2>6. ScanWhole(w, r)
    BY <1>2, <2>1 DEF ScanWhole
  <2>3. ScanWalksOK' /\ seWalk'[w] = r /\ \A v \in Scan!Walks \ {w} : seWalk'[v] = seWalk[v]
    BY <1>1, <2>1, <2>2, <2>6, ScanPutHolds
  <2>4. ScanSlotsOK'
    BY <1>1, <1>3, <2>1, <2>3, ScanSameSlots
  <2> QED BY <1>1, <2>3, <2>4 DEF ScanIInv, ScanRowsOK, Scan!files
<1>4. CASE /\ sePermits < seSlots /\ sePermits' = sePermits + 1
           /\ Scan!Put(w, [seWalk[w] EXCEPT !.stage = "walking"])
  <2> DEFINE r == [seWalk[w] EXCEPT !.stage = "walking"]
  <2>1. r \in ScanRecords /\ r.stage = "walking"
    BY DEF ScanIInv, ScanWalksOK, ScanRecords, Scan!Stages
  <2>2. Scan!Put(w, r)
    BY <1>4
  <2> HIDE DEF r
  <2>6. ScanWhole(w, r)
    BY <1>2, <2>1 DEF ScanWhole
  <2>3. ScanWalksOK' /\ seWalk'[w] = r /\ \A v \in Scan!Walks \ {w} : seWalk'[v] = seWalk[v]
    BY <1>1, <2>1, <2>2, <2>6, ScanPutHolds
  <2>5. ScanSlotsOK'
    BY <1>1, <1>2, <1>4, <2>1, <2>3, ScanSlotTaken
  <2> QED BY <1>1, <2>3, <2>5 DEF ScanIInv, ScanRowsOK, Scan!files
<1> QED BY <1>3, <1>4 DEF Scan!Acquire

\* What a step that takes and gives no slot and shows nothing keeps.
LEMMA ScanQuietStep ==
  ASSUME Scan!ScanAssumption, ScanIInv, NEW w \in Scan!Walks, NEW r \in ScanRecords,
         Scan!Put(w, r), ScanWhole(w, r),
         w \in seStatuses => (r.stage = "walking" <=> seWalk[w].stage = "walking"),
         UNCHANGED <<seFlags, seJobs, sePermits, Scan!files>>
  PROVE  ScanIInv'
<1>1. ScanWalksOK' /\ seWalk'[w] = r /\ \A v \in Scan!Walks \ {w} : seWalk'[v] = seWalk[v]
  BY ScanPutHolds
<1>2. ScanSlotsOK'
  BY <1>1, ScanSameSlots
<1> QED BY <1>1, <1>2 DEF ScanIInv, ScanRowsOK, Scan!files

\* A batch that is handed over: its search is not cancelled, or nobody asks.
LEMMA ScanHandedOver ==
  ASSUME NEW w \in Scan!Walks, NEW r \in ScanRecords
  PROVE  /\ Scan!HandOver(w, r) \in ScanRecords
         /\ Scan!HandOver(w, r).batch = 0 /\ Scan!HandOver(w, r).count = r.count
         /\ Scan!HandOver(w, r).stage = r.stage /\ Scan!HandOver(w, r).seen = r.seen
         /\ Scan!HandOver(w, r).limited = r.limited
         /\ w \notin seFlags => Scan!HandOver(w, r).handed = r.handed + r.batch
<1> DEFINE n == IF w \in seFlags THEN r.handed ELSE r.handed + r.batch
<1>1. n \in Nat /\ (w \notin seFlags => n = r.handed + r.batch)
  BY DEF ScanRecords
<1>2. Scan!HandOver(w, r) = [r EXCEPT !.batch = 0, !.handed = n]
  BY DEF Scan!HandOver
<1> HIDE DEF n
<1>3. [r EXCEPT !.batch = 0, !.handed = n] \in ScanRecords
  BY <1>1 DEF ScanRecords
<1>4. /\ Scan!HandOver(w, r).batch = 0 /\ Scan!HandOver(w, r).count = r.count
      /\ Scan!HandOver(w, r).stage = r.stage /\ Scan!HandOver(w, r).seen = r.seen
      /\ Scan!HandOver(w, r).limited = r.limited /\ Scan!HandOver(w, r).handed = n
  BY <1>2 DEF ScanRecords
<1> QED BY <1>1, <1>2, <1>3, <1>4

LEMMA ScanEntryHolds ==
  ASSUME Scan!ScanAssumption, ScanIInv, NEW w \in Scan!Walks, Scan!Entry(w)
  PROVE  ScanIInv'
<1> DEFINE o == seWalk[w]
           seen == seWalk[w].seen + 1
           count == seWalk[w].count + 1
           batch == seWalk[w].batch + 1
<1>1. /\ o.stage = "walking" /\ w \notin seFlags /\ UNCHANGED <<seFlags, seJobs, sePermits, Scan!files>>
      /\ o \in ScanRecords /\ ScanWhole(w, o)
  BY DEF Scan!Entry, ScanIInv, ScanWalksOK
<1>2. seen \in 0..seEntries /\ count \in Nat /\ batch \in Nat /\ seDisk \in ScanVersions
  BY <1>1 DEF Scan!Entry, ScanRecords, ScanIInv, ScanRowsOK, ScanVersions,
    Scan!ScanAssumption
<1>3. CASE Scan!Put(w, [o EXCEPT !.seen = seen])
  <2> DEFINE r == [o EXCEPT !.seen = seen]
  <2>1. /\ r \in ScanRecords /\ r.stage = o.stage /\ r.handed = o.handed /\ r.batch = o.batch
        /\ r.count = o.count
    BY <1>1, <1>2 DEF ScanRecords
  <2>2. Scan!Put(w, r)
    BY <1>3
  <2> HIDE DEF r
  <2>3. ScanWhole(w, r)
    BY <1>1, <2>1 DEF ScanWhole, ScanHonest
  <2> QED BY <1>1, <2>1, <2>2, <2>3, ScanQuietStep
<1>4. CASE Scan!Put(w, [o EXCEPT !.limited = TRUE, !.stage = "flushing"]) /\ w \in seSearches
  <2> DEFINE r == [o EXCEPT !.limited = TRUE, !.stage = "flushing"]
  <2>1. /\ r \in ScanRecords /\ r.stage = "flushing" /\ r.handed = o.handed /\ r.batch = o.batch
        /\ r.count = o.count /\ r.limited
    BY <1>1 DEF ScanRecords, Scan!Stages
  <2>2. Scan!Put(w, r)
    BY <1>4
  <2> HIDE DEF r
  <2>3. ScanWhole(w, r)
    BY <1>1, <2>1 DEF ScanWhole, ScanHonest
  <2>4. ScanWalksOK' /\ seWalk'[w] = r /\ \A v \in Scan!Walks \ {w} : seWalk'[v] = seWalk[v]
    BY <1>1, <2>1, <2>2, <2>3, ScanPutHolds
  <2>5. ScanSlotsOK'
    BY <1>1, <1>4, <2>1, <2>4, ScanKinds, ScanSameSlots
  <2> QED BY <1>1, <2>4, <2>5 DEF ScanIInv, ScanRowsOK, Scan!files
<1>5. CASE Scan!Put(w, Scan!Found(w))
  <2> DEFINE r == [o EXCEPT !.seen = seen, !.count = count, !.batch = batch]
             h == Scan!HandOver(w, r)
  <2>1. /\ r \in ScanRecords /\ r.stage = o.stage /\ r.handed = o.handed /\ r.batch = batch
        /\ r.count = count
    BY <1>1, <1>2 DEF ScanRecords
  <2>2. Scan!Put(w, r) \/ Scan!Put(w, h)
    BY <1>5 DEF Scan!Found
  <2> HIDE DEF r
  <2>3. ScanWhole(w, r)
    BY <1>1, <2>1 DEF ScanWhole, ScanHonest, ScanRecords
  <2>4. /\ h \in ScanRecords /\ h.stage = r.stage /\ h.batch = 0 /\ h.count = r.count
        /\ w \notin seFlags => h.handed = r.handed + r.batch
    BY <2>1, ScanHandedOver
  <2> HIDE DEF h
  <2>5. ScanWhole(w, h)
    BY <1>1, <2>1, <2>3, <2>4 DEF ScanWhole, ScanHonest, ScanRecords
  <2>6. CASE Scan!Put(w, r)
    BY <1>1, <2>1, <2>3, <2>6, ScanQuietStep
  <2>7. CASE Scan!Put(w, h)
    BY <1>1, <2>1, <2>4, <2>5, <2>7, ScanQuietStep
  <2> QED BY <2>2, <2>6, <2>7
<1>6. CASE Scan!Put(w, [o EXCEPT !.seen = seen, !.count = count]) /\ w \in seSizes
  <2> DEFINE r == [o EXCEPT !.seen = seen, !.count = count]
  <2>1. r \in ScanRecords /\ r.stage = o.stage
    BY <1>1, <1>2 DEF ScanRecords
  <2>2. Scan!Put(w, r)
    BY <1>6
  <2> HIDE DEF r
  <2>3. ScanWhole(w, r)
    BY <1>1, <1>6, <2>1, ScanKinds DEF ScanWhole
  <2> QED BY <1>1, <2>1, <2>2, <2>3, ScanQuietStep
<1>7. CASE Scan!Put(w, [o EXCEPT !.seen = seen, !.version = seDisk]) /\ w \in seStatuses
  <2> DEFINE r == [o EXCEPT !.seen = seen, !.version = seDisk]
  <2>1. r \in ScanRecords /\ r.stage = o.stage
    BY <1>1, <1>2 DEF ScanRecords
  <2>2. Scan!Put(w, r)
    BY <1>7
  <2> HIDE DEF r
  <2>3. ScanWhole(w, r)
    BY <1>1, <1>7, <2>1, ScanKinds DEF ScanWhole
  <2> QED BY <1>1, <2>1, <2>2, <2>3, ScanQuietStep
<1> QED BY <1>3, <1>4, <1>5, <1>6, <1>7 DEF Scan!Entry

LEMMA ScanLeavesHolds ==
  ASSUME Scan!ScanAssumption, ScanIInv, NEW w \in Scan!Walks, Scan!Leaves(w)
  PROVE  ScanIInv'
<1>1. /\ seWalk[w].stage = "walking" /\ (w \in seFlags \/ seWalk[w].seen = seEntries)
      /\ UNCHANGED <<seFlags, seJobs, Scan!files>> /\ seWalk[w] \in ScanRecords /\ ScanWhole(w, seWalk[w])
  BY DEF Scan!Leaves, ScanIInv, ScanWalksOK
<1>2. CASE w \in seStatuses
  <2> DEFINE b == seWalk[w].seen < seEntries
             r == [seWalk[w] EXCEPT !.stage = "answered", !.cancelled = b]
  <2>1. Scan!Put(w, r) /\ sePermits' = sePermits - 1
    BY <1>2 DEF Scan!Leaves
  <2>2. b \in BOOLEAN
    OBVIOUS
  <2> HIDE DEF b
  <2>3. r \in ScanRecords /\ r.stage = "answered"
    BY <1>1, <2>2 DEF ScanRecords, Scan!Stages
  <2> HIDE DEF r
  <2>4. ScanWhole(w, r)
    BY <1>2, <2>3, ScanKinds DEF ScanWhole
  <2>5. ScanWalksOK' /\ seWalk'[w] = r /\ \A v \in Scan!Walks \ {w} : seWalk'[v] = seWalk[v]
    BY <1>1, <2>1, <2>3, <2>4, ScanPutHolds
  <2>6. ScanSlotsOK'
    BY <1>1, <1>2, <2>1, <2>3, <2>5, ScanSlotGiven
  <2> QED BY <1>1, <2>5, <2>6 DEF ScanIInv, ScanRowsOK, Scan!files
<1>3. CASE w \notin seStatuses
  <2> DEFINE r == [seWalk[w] EXCEPT !.stage = "flushing"]
  <2>1. Scan!Put(w, r) /\ sePermits' = sePermits
    BY <1>3 DEF Scan!Leaves
  <2>2. /\ r \in ScanRecords /\ r.stage = "flushing" /\ r.handed = seWalk[w].handed
        /\ r.batch = seWalk[w].batch /\ r.count = seWalk[w].count /\ r.seen = seWalk[w].seen
    BY <1>1 DEF ScanRecords, Scan!Stages
  <2> HIDE DEF r
  <2>3. ScanWhole(w, r)
    BY <1>1, <2>2 DEF ScanWhole, ScanHonest
  <2>4. ScanWalksOK' /\ seWalk'[w] = r /\ \A v \in Scan!Walks \ {w} : seWalk'[v] = seWalk[v]
    BY <1>1, <2>1, <2>2, <2>3, ScanPutHolds
  <2>5. ScanSlotsOK'
    BY <1>3, <2>1, <2>2, <2>4, ScanSameSlots
  <2> QED BY <1>1, <2>4, <2>5 DEF ScanIInv, ScanRowsOK, Scan!files
<1> QED BY <1>2, <1>3

LEMMA ScanFlushHolds ==
  ASSUME Scan!ScanAssumption, ScanIInv, NEW w \in Scan!Walks, Scan!Flush(w)
  PROVE  ScanIInv'
<1> DEFINE h == Scan!HandOver(w, seWalk[w])
           r == [h EXCEPT !.stage = "outcome"]
<1>1. /\ seWalk[w].stage = "flushing" /\ Scan!Put(w, r) /\ UNCHANGED <<seFlags, seJobs, sePermits, Scan!files>>
      /\ seWalk[w] \in ScanRecords /\ ScanWhole(w, seWalk[w])
  BY DEF Scan!Flush, ScanIInv, ScanWalksOK
<1>2. /\ h \in ScanRecords /\ h.count = seWalk[w].count /\ h.seen = seWalk[w].seen
      /\ h.limited = seWalk[w].limited
      /\ w \notin seFlags => h.handed = seWalk[w].handed + seWalk[w].batch
  BY <1>1, ScanHandedOver
<1> HIDE DEF h
<1>3. /\ r \in ScanRecords /\ r.stage = "outcome" /\ r.handed = h.handed /\ r.count = h.count
      /\ r.limited = h.limited /\ r.seen = h.seen
  BY <1>2 DEF ScanRecords, Scan!Stages
<1> HIDE DEF r
<1>4. ScanWhole(w, r)
  BY <1>1, <1>2, <1>3 DEF ScanWhole, ScanHonest
<1> QED BY <1>1, <1>3, <1>4, ScanQuietStep

LEMMA ScanOutcomeHolds ==
  ASSUME Scan!ScanAssumption, ScanIInv, NEW w \in Scan!Walks, Scan!Outcome(w)
  PROVE  ScanIInv'
<1> DEFINE b == w \in seFlags
           r == [seWalk[w] EXCEPT !.stage = "answered", !.cancelled = b]
<1>1. /\ seWalk[w].stage = "outcome" /\ Scan!Put(w, r) /\ UNCHANGED <<seFlags, seJobs, sePermits, Scan!files>>
      /\ seWalk[w] \in ScanRecords /\ ScanWhole(w, seWalk[w])
  BY DEF Scan!Outcome, ScanIInv, ScanWalksOK
<1>2. b \in BOOLEAN /\ (w \in seFlags <=> b)
  OBVIOUS
<1> HIDE DEF b
<1>3. /\ r \in ScanRecords /\ r.stage = "answered" /\ r.handed = seWalk[w].handed
      /\ r.count = seWalk[w].count /\ r.limited = seWalk[w].limited /\ r.seen = seWalk[w].seen
      /\ r.cancelled = b
  BY <1>1, <1>2 DEF ScanRecords, Scan!Stages
<1> HIDE DEF r
<1>4. ScanWhole(w, r)
  BY <1>1, <1>2, <1>3 DEF ScanWhole, ScanHonest
<1> QED BY <1>1, <1>3, <1>4, ScanQuietStep

LEMMA ScanFailsHolds ==
  ASSUME Scan!ScanAssumption, ScanIInv, NEW w \in Scan!Walks, Scan!Fails(w)
  PROVE  ScanIInv'
<1> DEFINE r == [seWalk[w] EXCEPT !.stage = "answered", !.failed = TRUE]
<1>1. /\ seWalk[w].stage = "walking" /\ Scan!Put(w, r) /\ UNCHANGED <<seFlags, seJobs, Scan!files>>
      /\ sePermits' = (IF w \in seStatuses THEN sePermits - 1 ELSE sePermits) /\ seWalk[w] \in ScanRecords
  BY DEF Scan!Fails, ScanIInv, ScanWalksOK
<1>2. r \in ScanRecords /\ r.stage = "answered" /\ r.failed
  BY <1>1 DEF ScanRecords, Scan!Stages
<1> HIDE DEF r
<1>3. ScanWhole(w, r)
  BY <1>2 DEF ScanWhole, ScanHonest
<1>4. ScanWalksOK' /\ seWalk'[w] = r /\ \A v \in Scan!Walks \ {w} : seWalk'[v] = seWalk[v]
  BY <1>1, <1>2, <1>3, ScanPutHolds
<1>5. ScanSlotsOK'
  BY <1>1, <1>2, <1>4, ScanSlotGiven, ScanSameSlots
<1> QED BY <1>1, <1>4, <1>5 DEF ScanIInv, ScanRowsOK, Scan!files

LEMMA ScanWindowHolds ==
  ASSUME Scan!ScanAssumption, ScanIInv, Scan!Change \/ Scan!Relist
  PROVE  ScanIInv'
<1>1. /\ UNCHANGED <<seWalk, seJobs, sePermits, seOs>>
      /\ seFlags \subseteq seFlags' /\ seFlags' \subseteq seFlags \cup seJobs
  BY DEF Scan!Change, Scan!Relist
<1>2. ScanWalksOK'
  BY <1>1 DEF ScanIInv, ScanWalksOK, ScanWhole, ScanHonest
<1>3. ScanSlotsOK'
  BY <1>1 DEF ScanIInv, ScanSlotsOK, ScanTaken
<1>4. ScanRowsOK'
  BY <1>1 DEF Scan!Change, Scan!Relist, ScanIInv, ScanRowsOK, ScanVersions,
    Scan!ScanAssumption
<1> QED BY <1>2, <1>3, <1>4 DEF ScanIInv

LEMMA ScanAnswerHolds ==
  ASSUME Scan!ScanAssumption, ScanIInv, NEW w \in Scan!Walks, Scan!Answer(w)
  PROVE  ScanIInv'
<1> DEFINE r == [seWalk[w] EXCEPT !.stage = "over"]
<1>1. /\ seWalk[w].stage = "answered" /\ Scan!Put(w, r) /\ seJobs' = seJobs \ {w}
      /\ seBadge' = (IF w \in seStatuses /\ Scan!Applies(w) THEN seWalk[w].version ELSE seBadge)
      /\ UNCHANGED <<seFlags, sePermits, seDisk, seRow, seGeneration, seOs>>
      /\ seWalk[w] \in ScanRecords /\ ScanWhole(w, seWalk[w])
  BY DEF Scan!Answer, ScanIInv, ScanWalksOK
<1>2. /\ r \in ScanRecords /\ r.stage = "over" /\ r.handed = seWalk[w].handed
      /\ r.count = seWalk[w].count /\ r.limited = seWalk[w].limited /\ r.seen = seWalk[w].seen
      /\ r.cancelled = seWalk[w].cancelled /\ r.failed = seWalk[w].failed
  BY <1>1 DEF ScanRecords, Scan!Stages
<1> HIDE DEF r
<1>3. ScanWhole(w, r)
  BY <1>1, <1>2 DEF ScanWhole, ScanHonest
<1>4. ScanWalksOK' /\ seWalk'[w] = r /\ \A v \in Scan!Walks \ {w} : seWalk'[v] = seWalk[v]
  BY <1>1, <1>2, <1>3, ScanPutHolds
<1>5. ScanSlotsOK'
  BY <1>1, <1>2, <1>4, ScanSameSlots
<1>6. ScanRowsOK'
  BY <1>1 DEF ScanIInv, ScanRowsOK, Scan!Applies, ScanRecords
<1> QED BY <1>4, <1>5, <1>6 DEF ScanIInv

LEMMA ScanInvariance == ASSUME Scan!ScanAssumption PROVE Scan!Spec => []ScanIInv
<1>1. ASSUME ScanIInv, [Scan!Next]_Scan!vars PROVE ScanIInv'
  <2>1. CASE UNCHANGED Scan!vars
    BY <1>1, <2>1 DEF Scan!vars, ScanIInv, ScanWalksOK, ScanSlotsOK, ScanRowsOK,
      ScanWhole, ScanHonest, ScanTaken
  <2>2. ASSUME NEW w \in Scan!Walks, Scan!Start(w) \/ Scan!Cancel(w) \/ Scan!Acquire(w) PROVE ScanIInv'
    BY <1>1, <2>2, ScanStartHolds, ScanCancelHolds, ScanAcquireHolds
  <2>3. ASSUME NEW w \in Scan!Walks, Scan!Step(w) PROVE ScanIInv'
    BY <1>1, <2>3, ScanEntryHolds, ScanLeavesHolds, ScanFlushHolds, ScanOutcomeHolds,
      ScanFailsHolds, ScanAnswerHolds DEF Scan!Step
  <2>4. CASE Scan!Change \/ Scan!Relist
    BY <1>1, <2>4, ScanWindowHolds
  <2> QED BY <1>1, <2>1, <2>2, <2>3, <2>4 DEF Scan!Next
<1> QED BY <1>1, ScanInitHolds, PTL DEF Scan!Spec

(* The variables of Scans have their types.                                 *)
THEOREM ScanTypeCorrect == ASSUME Scan!ScanAssumption PROVE Scan!Spec => []Scan!TypeOK
<1>1. ScanIInv => Scan!TypeOK
  BY DEF ScanIInv, ScanWalksOK, ScanRowsOK, ScanRecords, ScanVersions, Scan!TypeOK
<1> QED BY <1>1, ScanInvariance, PTL

(* A search that ends without an error or a cancel has handed over all that *)
(* it counted, whenever the cancel came.                                    *)
THEOREM ScanSearchesAreComplete ==
  ASSUME Scan!ScanAssumption
  PROVE  Scan!Spec => []Scan!CompleteOrCancelled
<1>1. ScanIInv => Scan!CompleteOrCancelled
  BY DEF ScanIInv, ScanWalksOK, Scan!Walks, ScanWhole, ScanHonest,
    Scan!CompleteOrCancelled
<1> QED BY <1>1, ScanInvariance, PTL

(* No way out of a status batch keeps its slot.                             *)
THEOREM ScanSlotsComeBack ==
  ASSUME Scan!ScanAssumption
  PROVE  Scan!Spec => []Scan!SlotsReturned
<1>1. ScanIInv => Scan!SlotsReturned
  BY ScanFinite DEF ScanIInv, ScanSlotsOK, ScanTaken, Scan!SlotsReturned
<1> QED BY <1>1, ScanInvariance, PTL

(* On macOS a status meets the version of the file that its row shows.      *)
THEOREM ScanStatusesFit ==
  ASSUME Scan!ScanAssumption
  PROVE  Scan!Spec => []Scan!StatusFitsRowOnMac
<1>1. ScanIInv => Scan!StatusFitsRowOnMac
  BY DEF ScanIInv, ScanRowsOK, Scan!StatusFitsRowOnMac, Scan!StatusFitsRow
<1> QED BY <1>1, ScanInvariance, PTL

-----------------------------------------------------------------------------
(* Proofs about Archives for every number of operations and faults.          *)
ArchiveAnswers == {"ok", "ECANCELLED", "EARCHIVE_WORKER", "EARCHIVE_CLEANUP", None}

ArchiveRecords == [step : Archive!Steps, action : {"create", "extract"}, dir : BOOLEAN, output : Archive!Outputs,
            answer : ArchiveAnswers]

ArchiveWorkers == {"version", "work", "publish", "renamed", "done", "failed", "killed", None}

\* An operation that runs, or has run, the worker w, and whether the target is
\* its result.
ArchiveStands(r, w, mine) ==
  /\ r.step \in {"new", "version", "stage"} => ~mine /\ ~r.dir /\ r.output = "absent"
  /\ r.step \in {"new", "stage", "cleanup", "finish", "emit", "over"} => w = None
  /\ r.step = "version" => w \in {"version", "done", "failed", "killed", None}
  /\ r.step = "work" => /\ w \in {"work", "done", "failed", "killed", None}
                        /\ ~mine /\ r.dir /\ (w # None => r.output # "absent")
                        /\ (w = "done" => r.output = "whole")
  /\ r.step = "publish" => /\ w \in {"publish", "renamed", "done", "failed", "killed", None}
                           /\ mine <=> r.output = "absent"
                           /\ w \in {"publish", "failed", None} => ~mine
                           /\ w \in {"renamed", "done"} => mine
  /\ r.step = "cleanup" => (mine <=> r.answer = "ok")
  /\ r.step \in {"finish", "emit", "over"} =>
       /\ r.answer = "ok" => mine
       /\ mine => r.answer \in {"ok", "EARCHIVE_CLEANUP"}
       /\ r.dir => r.answer = "EARCHIVE_CLEANUP"

ArchiveIInv ==
  /\ arJob \in [arJobs -> ArchiveRecords] /\ arWorker \in [arJobs -> ArchiveWorkers]
  /\ arKnown \subseteq arJobs /\ arFlags \subseteq arJobs /\ arTarget \in arJobs \cup {"foreign", None}
  /\ \A j \in arJobs : ArchiveStands(arJob[j], arWorker[j], arTarget = j)

LEMMA ArchiveInitHolds == ASSUME Archive!ArchiveAssumption PROVE Archive!Init => ArchiveIInv
<1> SUFFICES ASSUME Archive!Init PROVE ArchiveIInv
  OBVIOUS
<1>1. arJob \in [arJobs -> ArchiveRecords] /\ arWorker \in [arJobs -> ArchiveWorkers]
  BY DEF Archive!Init, ArchiveRecords, Archive!Steps, Archive!Outputs, ArchiveAnswers,
    ArchiveWorkers
<1>2. ASSUME NEW j \in arJobs PROVE ArchiveStands(arJob[j], arWorker[j], arTarget = j)
  BY DEF Archive!Init, ArchiveStands, Archive!ArchiveAssumption
<1> QED BY <1>1, <1>2 DEF Archive!Init, ArchiveIInv

\* A step of one operation and its worker; the others see at most that the
\* target is taken.
LEMMA ArchiveStepHolds ==
  ASSUME Archive!ArchiveAssumption, ArchiveIInv, NEW j \in arJobs, NEW r \in ArchiveRecords,
         NEW w \in ArchiveWorkers,
         arJob' = [arJob EXCEPT ![j] = r], arWorker' = [arWorker EXCEPT ![j] = w],
         arKnown' \subseteq arJobs, arFlags' \subseteq arJobs,
         arTarget' = arTarget \/ (arTarget = None /\ arTarget' = j),
         ArchiveStands(r, w, arTarget' = j)
  PROVE  ArchiveIInv'
<1>1. /\ arJob' \in [arJobs -> ArchiveRecords] /\ arWorker' \in [arJobs -> ArchiveWorkers]
      /\ arJob'[j] = r /\ arWorker'[j] = w
      /\ \A k \in arJobs \ {j} : arJob'[k] = arJob[k] /\ arWorker'[k] = arWorker[k]
  BY DEF ArchiveIInv
<1>2. arTarget' \in arJobs \cup {"foreign", None}
  BY DEF ArchiveIInv
<1>3. ASSUME NEW k \in arJobs \ {j} PROVE (arTarget' = k) <=> (arTarget = k)
  BY DEF Archive!ArchiveAssumption
<1>4. ASSUME NEW k \in arJobs \ {j} PROVE ArchiveStands(arJob'[k], arWorker'[k], arTarget' = k)
  <2>1. ArchiveStands(arJob[k], arWorker[k], arTarget = k)
    BY DEF ArchiveIInv
  <2> QED BY <1>1, <1>3, <2>1 DEF ArchiveStands
<1>5. ASSUME NEW k \in arJobs PROVE ArchiveStands(arJob'[k], arWorker'[k], arTarget' = k)
  BY <1>1, <1>4
<1> QED BY <1>1, <1>2, <1>5 DEF ArchiveIInv, ArchiveStands

LEMMA ArchiveCommandsHold ==
  ASSUME Archive!ArchiveAssumption, ArchiveIInv, NEW j \in arJobs,
         Archive!Cancel(j) \/ Archive!Foreign
  PROVE  ArchiveIInv'
<1>1. UNCHANGED <<arJob, arWorker, arKnown>> /\ arFlags' \subseteq arJobs
      /\ (arTarget' = arTarget \/ (arTarget = None /\ arTarget' = "foreign"))
  BY DEF Archive!Cancel, Archive!Foreign, ArchiveIInv
<1>2. ASSUME NEW k \in arJobs PROVE (arTarget' = k) <=> (arTarget = k)
  BY <1>1 DEF Archive!ArchiveAssumption
<1> QED BY <1>1, <1>2 DEF ArchiveIInv, ArchiveStands

LEMMA ArchiveStartHolds ==
  ASSUME Archive!ArchiveAssumption, ArchiveIInv, NEW j \in arJobs, Archive!Start(j)
  PROVE  ArchiveIInv'
<1>1. PICK a \in {"create", "extract"} : Archive!Put(j, [arJob[j] EXCEPT !.step = "version", !.action = a])
  BY DEF Archive!Start
<1> DEFINE r == [arJob[j] EXCEPT !.step = "version", !.action = a]
<1>2. /\ arJob[j].step = "new" /\ arJob' = [arJob EXCEPT ![j] = r] /\ arKnown' = {j}
      /\ UNCHANGED <<arWorker, arFlags, arTarget>>
  BY <1>1 DEF Archive!Start, Archive!Put
<1>6. arJob[j] \in ArchiveRecords
  BY DEF ArchiveIInv
<1>3. r \in ArchiveRecords /\ r.step = "version" /\ r.dir = arJob[j].dir /\ r.output = arJob[j].output
  BY <1>6 DEF ArchiveRecords, Archive!Steps
<1> HIDE DEF r
<1>4. arWorker[j] \in ArchiveWorkers /\ arWorker' = [arWorker EXCEPT ![j] = arWorker[j]] /\ arFlags \subseteq arJobs
      /\ ArchiveStands(arJob[j], arWorker[j], arTarget = j)
  BY <1>2 DEF ArchiveIInv
<1>5. ArchiveStands(r, arWorker[j], arTarget' = j)
  BY <1>2, <1>3, <1>4 DEF ArchiveStands
<1> QED BY <1>2, <1>3, <1>4, <1>5, ArchiveStepHolds

LEMMA ArchiveSpawnHolds ==
  ASSUME Archive!ArchiveAssumption, ArchiveIInv, NEW j \in arJobs, Archive!Spawn(j)
  PROVE  ArchiveIInv'
<1>1. /\ arJob[j].step \in {"version", "work", "publish"} /\ arWorker[j] = None
      /\ arWorker' = [arWorker EXCEPT ![j] = arJob[j].step] /\ UNCHANGED <<arKnown, arFlags, arTarget>>
      /\ arKnown \subseteq arJobs /\ arFlags \subseteq arJobs
  BY DEF Archive!Spawn, Archive!WorkerSteps, Archive!Run, ArchiveIInv
<1>2. arJob[j] \in ArchiveRecords /\ ArchiveStands(arJob[j], arWorker[j], arTarget = j) /\ arJob[j].step \in ArchiveWorkers
  BY <1>1 DEF ArchiveIInv, ArchiveWorkers
<1>3. None \notin {"version", "work", "publish"}
  BY DEF Archive!ArchiveAssumption
<1>4. CASE arJob[j].step = "work"
  <2> DEFINE r == [arJob[j] EXCEPT !.output = "partial"]
  <2>1. arJob' = [arJob EXCEPT ![j] = r]
    BY <1>4 DEF Archive!Spawn, Archive!Put
  <2>2. r \in ArchiveRecords /\ r.step = "work" /\ r.dir = arJob[j].dir /\ r.output = "partial"
    BY <1>2, <1>4 DEF ArchiveRecords, Archive!Outputs
  <2> HIDE DEF r
  <2>3. ArchiveStands(r, arJob[j].step, arTarget' = j)
    BY <1>1, <1>2, <1>3, <1>4, <2>2 DEF ArchiveStands
  <2> QED BY <1>1, <1>2, <2>1, <2>2, <2>3, ArchiveStepHolds
<1>5. CASE arJob[j].step # "work"
  <2>1. arJob' = [arJob EXCEPT ![j] = arJob[j]]
    BY <1>5 DEF Archive!Spawn, ArchiveIInv
  <2>2. ArchiveStands(arJob[j], arJob[j].step, arTarget' = j)
    BY <1>1, <1>2, <1>3, <1>5 DEF ArchiveStands
  <2> QED BY <1>1, <1>2, <2>1, <2>2, ArchiveStepHolds
<1> QED BY <1>4, <1>5

LEMMA ArchiveWorkerActsHolds ==
  ASSUME Archive!ArchiveAssumption, ArchiveIInv, NEW j \in arJobs, Archive!WorkerActs(j)
  PROVE  ArchiveIInv'
<1>1. /\ arJob[j] \in ArchiveRecords /\ arWorker[j] \in ArchiveWorkers /\ ArchiveStands(arJob[j], arWorker[j], arTarget = j)
      /\ UNCHANGED <<arKnown, arFlags>> /\ arKnown \subseteq arJobs /\ arFlags \subseteq arJobs
      /\ None \notin {"version", "work", "publish", "renamed", "done", "failed", "killed"}
      /\ arJob[j].step \in Archive!Steps
  BY DEF Archive!WorkerActs, ArchiveIInv, ArchiveRecords, Archive!ArchiveAssumption
<1>2. ASSUME NEW w \in {"done", "failed"}, arWorker' = [arWorker EXCEPT ![j] = w], arJob' = arJob,
             arTarget' = arTarget,
             \/ arWorker[j] = "version"
             \/ arWorker[j] \in {"work", "publish"} /\ w = "failed"
             \/ arWorker[j] = "renamed" /\ w = "done"
      PROVE  ArchiveIInv'
  <2>1. w \in ArchiveWorkers /\ arJob' = [arJob EXCEPT ![j] = arJob[j]]
    BY <1>2 DEF ArchiveWorkers, ArchiveIInv
  <2>2. ArchiveStands(arJob[j], w, arTarget' = j)
    BY <1>1, <1>2 DEF ArchiveStands, Archive!Steps
  <2> QED BY <1>1, <1>2, <2>1, <2>2, ArchiveStepHolds
<1>3. CASE /\ arWorker[j] = "work" /\ Archive!Run(j, "done") /\ arTarget' = arTarget
           /\ Archive!Put(j, [arJob[j] EXCEPT !.output = "whole"])
  <2> DEFINE r == [arJob[j] EXCEPT !.output = "whole"]
  <2>1. arJob' = [arJob EXCEPT ![j] = r] /\ arWorker' = [arWorker EXCEPT ![j] = "done"]
    BY <1>3 DEF Archive!Put, Archive!Run
  <2>2. r \in ArchiveRecords /\ r.step = arJob[j].step /\ r.dir = arJob[j].dir /\ r.output = "whole"
        /\ "done" \in ArchiveWorkers
    BY <1>1 DEF ArchiveRecords, Archive!Outputs, ArchiveWorkers
  <2> HIDE DEF r
  <2>3. ArchiveStands(r, "done", arTarget' = j)
    BY <1>1, <1>3, <2>2 DEF ArchiveStands, Archive!Steps
  <2> QED BY <1>1, <1>3, <2>1, <2>2, <2>3, ArchiveStepHolds
<1>4. CASE Archive!Rename(j) /\ Archive!Run(j, "renamed")
  <2> DEFINE b == arJob[j].action = "create"
             r == [arJob[j] EXCEPT !.output = "absent", !.dir = b]
  <2>1. /\ arWorker[j] = "publish" /\ arTarget = None /\ arTarget' = j
        /\ arJob' = [arJob EXCEPT ![j] = r] /\ arWorker' = [arWorker EXCEPT ![j] = "renamed"]
    BY <1>4 DEF Archive!Rename, Archive!Put, Archive!Run
  <2>2. b \in BOOLEAN
    OBVIOUS
  <2> HIDE DEF b
  <2>3. r \in ArchiveRecords /\ r.step = arJob[j].step /\ r.output = "absent" /\ "renamed" \in ArchiveWorkers
    BY <1>1, <2>2 DEF ArchiveRecords, Archive!Outputs, ArchiveWorkers
  <2> HIDE DEF r
  <2>4. ArchiveStands(r, "renamed", arTarget' = j)
    BY <1>1, <2>1, <2>3 DEF ArchiveStands, Archive!Steps
  <2> QED BY <1>1, <2>1, <2>3, <2>4, ArchiveStepHolds
<1> QED BY <1>2, <1>3, <1>4 DEF Archive!WorkerActs, Archive!WorkerRuns, Archive!Run

LEMMA ArchiveKillHolds ==
  ASSUME Archive!ArchiveAssumption, ArchiveIInv, NEW j \in arJobs, Archive!Kill(j)
  PROVE  ArchiveIInv'
<1>1. /\ arWorker[j] # None /\ arWorker' = [arWorker EXCEPT ![j] = "killed"]
      /\ arJob' = [arJob EXCEPT ![j] = arJob[j]] /\ UNCHANGED <<arKnown, arFlags, arTarget>>
      /\ arJob[j] \in ArchiveRecords /\ "killed" \in ArchiveWorkers /\ arKnown \subseteq arJobs /\ arFlags \subseteq arJobs
      /\ ArchiveStands(arJob[j], arWorker[j], arTarget = j)
      /\ arWorker[j] \notin {"done", "failed", "killed"}
  BY DEF Archive!Kill, Archive!Run, ArchiveIInv, ArchiveWorkers, Archive!Ended
<1>2. ArchiveStands(arJob[j], "killed", arTarget' = j)
  BY <1>1 DEF ArchiveStands, Archive!ArchiveAssumption
<1> QED BY <1>1, <1>2, ArchiveStepHolds

\* The three workers return to perform, which goes on or gives up.
LEMMA ArchiveReturnsHold ==
  ASSUME Archive!ArchiveAssumption, ArchiveIInv, NEW j \in arJobs,
         Archive!Version(j) \/ Archive!Work(j) \/ Archive!Publish(j)
  PROVE  ArchiveIInv'
<1>1. /\ arJob[j] \in ArchiveRecords /\ arWorker[j] \in ArchiveWorkers /\ ArchiveStands(arJob[j], arWorker[j], arTarget = j)
      /\ arWorker' = [arWorker EXCEPT ![j] = None] /\ None \in ArchiveWorkers
      /\ UNCHANGED <<arKnown, arFlags, arTarget>> /\ arKnown \subseteq arJobs /\ arFlags \subseteq arJobs
      /\ Archive!CanReturn(j)
  BY DEF Archive!Version, Archive!Work, Archive!Publish, Archive!Run, ArchiveIInv,
    ArchiveWorkers
<1>2. /\ Archive!Returned(j) \in ArchiveAnswers \ {None} /\ Archive!Returned(j) # "EARCHIVE_CLEANUP"
      /\ Archive!Returned(j) = "ok" => arWorker[j] = "done"
  BY DEF Archive!Returned, ArchiveAnswers, Archive!ArchiveAssumption
<1>3. ASSUME NEW s \in {"stage", "publish"}, Archive!Put(j, [arJob[j] EXCEPT !.step = s]),
             IF s = "stage" THEN arJob[j].step = "version" ELSE arJob[j].step = "work" /\ arWorker[j] = "done"
      PROVE  ArchiveIInv'
  <2> DEFINE r == [arJob[j] EXCEPT !.step = s]
  <2>0. s \in Archive!Steps /\ arJob[j] \in ArchiveRecords
    BY <1>1 DEF Archive!Steps
  <2>1. /\ r \in ArchiveRecords /\ r.step = s /\ r.dir = arJob[j].dir /\ r.output = arJob[j].output
    BY <2>0 DEF ArchiveRecords
  <2>2. arJob' = [arJob EXCEPT ![j] = r]
    BY <1>3 DEF Archive!Put
  <2> HIDE DEF r
  <2>3. ArchiveStands(r, None, arTarget' = j)
    BY <1>1, <1>3, <2>1 DEF ArchiveStands, Archive!ArchiveAssumption
  <2> QED BY <1>1, <2>1, <2>2, <2>3, ArchiveStepHolds
<1>4. ASSUME NEW s \in {"finish", "cleanup"}, NEW a \in ArchiveAnswers \ {None, "EARCHIVE_CLEANUP"},
             Archive!Put(j, [arJob[j] EXCEPT !.step = s, !.answer = a]),
             \/ arJob[j].step = "version" /\ s = "finish" /\ a # "ok"
             \/ arJob[j].step = "work" /\ s = "cleanup" /\ a # "ok"
             \/ arJob[j].step = "publish" /\ s = "cleanup" /\ (a = "ok" <=> arJob[j].output = "absent")
      PROVE  ArchiveIInv'
  <2> DEFINE r == [arJob[j] EXCEPT !.step = s, !.answer = a]
  <2>0. s \in Archive!Steps /\ a \in ArchiveAnswers /\ arJob[j] \in ArchiveRecords
    BY <1>1 DEF Archive!Steps
  <2>1. /\ r \in ArchiveRecords /\ r.step = s /\ r.dir = arJob[j].dir /\ r.output = arJob[j].output
        /\ r.answer = a
    BY <2>0 DEF ArchiveRecords
  <2>2. arJob' = [arJob EXCEPT ![j] = r]
    BY <1>4 DEF Archive!Put
  <2> HIDE DEF r
  <2>3. ArchiveStands(r, None, arTarget' = j)
    BY <1>1, <1>4, <2>1 DEF ArchiveStands
  <2> QED BY <1>1, <2>1, <2>2, <2>3, ArchiveStepHolds
<1>5. CASE Archive!Version(j)
  BY <1>2, <1>3, <1>4, <1>5 DEF Archive!Version
<1>6. CASE Archive!Work(j)
  BY <1>2, <1>3, <1>4, <1>6 DEF Archive!Work
<1>7. CASE Archive!Publish(j)
  <2> DEFINE a == IF arJob[j].output = "absent" THEN "ok" ELSE Archive!Returned(j)
  <2>1. arJob[j].step = "publish" /\ Archive!Put(j, [arJob[j] EXCEPT !.step = "cleanup", !.answer = a])
    BY <1>7 DEF Archive!Publish
  <2>2. a = "ok" <=> arJob[j].output = "absent"
    BY <1>1, <1>2, <2>1 DEF ArchiveStands
  <2>3. a \in ArchiveAnswers \ {None, "EARCHIVE_CLEANUP"}
    BY <1>2 DEF ArchiveAnswers, Archive!ArchiveAssumption
  <2> HIDE DEF a
  <2> QED BY <1>4, <2>1, <2>2, <2>3
<1> QED BY <1>5, <1>6, <1>7

LEMMA ArchiveEndsHold ==
  ASSUME Archive!ArchiveAssumption, ArchiveIInv, NEW j \in arJobs,
         Archive!Stage(j) \/ Archive!Cleanup(j) \/ Archive!Finish(j) \/ Archive!Emit(j)
  PROVE  ArchiveIInv'
<1>1. /\ arJob[j] \in ArchiveRecords /\ arWorker[j] \in ArchiveWorkers /\ ArchiveStands(arJob[j], arWorker[j], arTarget = j)
      /\ arWorker' = [arWorker EXCEPT ![j] = arWorker[j]] /\ UNCHANGED <<arFlags, arTarget>>
      /\ arKnown' \subseteq arJobs /\ arFlags \subseteq arJobs
  BY DEF Archive!Stage, Archive!Cleanup, Archive!Finish, Archive!Emit, ArchiveIInv
<1>2. ASSUME NEW r \in ArchiveRecords, Archive!Put(j, r), ArchiveStands(r, arWorker[j], arTarget = j) PROVE ArchiveIInv'
  BY <1>1, <1>2, ArchiveStepHolds DEF Archive!Put
<1>3. CASE Archive!Stage(j)
  <2> DEFINE r == [arJob[j] EXCEPT !.step = "work", !.dir = TRUE]
  <2>1. r \in ArchiveRecords /\ r.step = "work" /\ r.dir = TRUE
    BY <1>1 DEF ArchiveRecords, Archive!Steps
  <2>2. Archive!Put(j, r) /\ arJob[j].step = "stage"
    BY <1>3 DEF Archive!Stage
  <2> HIDE DEF r
  <2>3. ArchiveStands(r, arWorker[j], arTarget = j)
    BY <1>1, <2>1, <2>2 DEF ArchiveStands, Archive!ArchiveAssumption
  <2> QED BY <1>2, <2>1, <2>2, <2>3
<1>4. CASE Archive!Cleanup(j)
  <2>1. CASE Archive!Put(j, [arJob[j] EXCEPT !.step = "finish", !.dir = FALSE, !.output = "absent"])
    <3> DEFINE r == [arJob[j] EXCEPT !.step = "finish", !.dir = FALSE, !.output = "absent"]
    <3>1. r \in ArchiveRecords /\ r.step = "finish" /\ r.dir = FALSE /\ r.answer = arJob[j].answer
      BY <1>1 DEF ArchiveRecords, Archive!Steps, Archive!Outputs
    <3> HIDE DEF r
    <3>2. ArchiveStands(r, arWorker[j], arTarget = j)
      BY <1>1, <1>4, <3>1 DEF ArchiveStands, Archive!Cleanup
    <3> QED BY <1>2, <2>1, <3>1, <3>2 DEF r
  <2>2. CASE Archive!Put(j, [arJob[j] EXCEPT !.step = "finish", !.answer = "EARCHIVE_CLEANUP"])
    <3> DEFINE r == [arJob[j] EXCEPT !.step = "finish", !.answer = "EARCHIVE_CLEANUP"]
    <3>1. r \in ArchiveRecords /\ r.step = "finish" /\ r.answer = "EARCHIVE_CLEANUP"
      BY <1>1 DEF ArchiveRecords, Archive!Steps, ArchiveAnswers
    <3> HIDE DEF r
    <3>2. ArchiveStands(r, arWorker[j], arTarget = j)
      BY <1>1, <1>4, <3>1 DEF ArchiveStands, Archive!Cleanup
    <3> QED BY <1>2, <2>2, <3>1, <3>2 DEF r
  <2> QED BY <1>4, <2>1, <2>2 DEF Archive!Cleanup
<1>5. CASE Archive!Finish(j) \/ Archive!Emit(j)
  <2>1. PICK s \in {"emit", "over"} : Archive!Put(j, [arJob[j] EXCEPT !.step = s])
    BY <1>5 DEF Archive!Finish, Archive!Emit
  <2> DEFINE r == [arJob[j] EXCEPT !.step = s]
  <2>0. s \in Archive!Steps /\ arJob[j] \in ArchiveRecords
    BY <1>1 DEF Archive!Steps
  <2>2. /\ r \in ArchiveRecords /\ r.step = s /\ r.dir = arJob[j].dir /\ r.answer = arJob[j].answer
    BY <2>0 DEF ArchiveRecords
  <2>3. Archive!Put(j, r) /\ arJob[j].step \in {"finish", "emit"}
    BY <1>5, <2>1 DEF Archive!Finish, Archive!Emit
  <2> HIDE DEF r
  <2>4. ArchiveStands(r, arWorker[j], arTarget = j)
    BY <1>1, <2>1, <2>2, <2>3 DEF ArchiveStands
  <2> QED BY <1>2, <2>2, <2>3, <2>4
<1> QED BY <1>3, <1>4, <1>5

LEMMA ArchiveInvariance ==
  ASSUME Archive!ArchiveAssumption
  PROVE  Archive!Spec => []ArchiveIInv
<1>1. ASSUME ArchiveIInv, [Archive!Next]_Archive!vars PROVE ArchiveIInv'
  <2>1. CASE UNCHANGED Archive!vars
    BY <1>1, <2>1 DEF Archive!vars, ArchiveIInv, ArchiveStands
  <2>2. CASE Archive!Foreign
    <3>1. CASE arJobs = {}
      BY <1>1, <2>2, <3>1 DEF Archive!Foreign, ArchiveIInv
    <3>2. CASE arJobs # {}
      BY <1>1, <2>2, <3>2, ArchiveCommandsHold
    <3> QED BY <3>1, <3>2
  <2>3. ASSUME NEW j \in arJobs, Archive!Start(j) \/ Archive!Cancel(j) \/ Archive!Spawn(j) \/ Archive!WorkerActs(j) \/ Archive!Kill(j)
        PROVE  ArchiveIInv'
    BY <1>1, <2>3, ArchiveStartHolds, ArchiveCommandsHold, ArchiveSpawnHolds,
      ArchiveWorkerActsHolds, ArchiveKillHolds
  <2>4. ASSUME NEW j \in arJobs, Archive!Perform(j) PROVE ArchiveIInv'
    BY <1>1, <2>4, ArchiveReturnsHold, ArchiveEndsHold DEF Archive!Perform
  <2> QED BY <1>1, <2>1, <2>2, <2>3, <2>4 DEF Archive!Next
<1> QED BY <1>1, ArchiveInitHolds, PTL DEF Archive!Spec

(* The variables of Archives have their types.                              *)
THEOREM ArchiveTypeCorrect ==
  ASSUME Archive!ArchiveAssumption
  PROVE  Archive!Spec => []Archive!TypeOK
<1>1. ArchiveIInv => Archive!TypeOK
  BY DEF ArchiveIInv, ArchiveRecords, Archive!TypeOK
<1> QED BY <1>1, ArchiveInvariance, PTL

(* What is answered agrees with whether the rename took place.              *)
THEOREM ArchiveAnswersAreTrue ==
  ASSUME Archive!ArchiveAssumption
  PROVE  Archive!Spec => []Archive!AnswerIsTrue
<1>1. ArchiveIInv => Archive!AnswerIsTrue
  BY DEF ArchiveIInv, ArchiveStands, Archive!AnswerIsTrue
<1> QED BY <1>1, ArchiveInvariance, PTL

(* An operation that has answered leaves no folder and no worker.           *)
THEOREM ArchiveLeavesNothing ==
  ASSUME Archive!ArchiveAssumption
  PROVE  Archive!Spec => []Archive!NothingLeft
<1>1. ArchiveIInv => Archive!NothingLeft
  BY DEF ArchiveIInv, ArchiveStands, Archive!NothingLeft
<1> QED BY <1>1, ArchiveInvariance, PTL

(* The target that somebody has keeps what it has.                          *)
THEOREM ArchiveTargetStays == Archive!Spec => Archive!NeverReplaced
<1>1. [Archive!Next]_Archive!vars => [arTarget # None => arTarget' = arTarget]_Archive!vars
  BY DEF Archive!Next, Archive!vars, Archive!Start, Archive!Cancel, Archive!Foreign,
    Archive!Spawn, Archive!WorkerActs, Archive!WorkerRuns, Archive!Rename, Archive!Kill,
    Archive!Perform, Archive!Version, Archive!Stage, Archive!Work, Archive!Publish,
    Archive!Cleanup, Archive!Finish, Archive!Emit
<1> QED BY <1>1, PTL DEF Archive!Spec, Archive!NeverReplaced

-----------------------------------------------------------------------------
(* Proofs about CloudContent for every number of files and operations.       *)

\* What the instance calls finite, and counts, is what this module does.
LEMMA ContentFinite ==
  \A S : (Content!IsFiniteSet(S) <=> IsFiniteSet(S)) /\ Content!Cardinality(S) = Cardinality(S)
<1>1. \A S : Content!IsFiniteSet(S) <=> IsFiniteSet(S)
  BY DEF Content!IsFiniteSet, IsFiniteSet
<1>2. \A S : Content!Cardinality(S) = Cardinality(S)
  BY <1>1 DEF Content!Cardinality, Cardinality, Content!IsFiniteSet, IsFiniteSet
<1> QED BY <1>1, <1>2

ContentFileStates == [size : ccSizes, bytes : Nat, ubiquitous : BOOLEAN, fetching : BOOLEAN, error : BOOLEAN,
               evicted : BOOLEAN]

ContentRecords == [file : ccFiles, stage : Content!Stages, read : Nat, held : BOOLEAN, seen : Nat,
            idle : 0..ccStall, quiet : 0..ccStall, was : 0..ccStall]

\* The stages of an operation that the watchdog sees.
ContentWatching == {"waiting", "polled", "looked"}

\* What was read and seen of a file is not more than is here, and as long as
\* nothing was added to what was seen, it was quiet for as long as the watchdog
\* counted.  An eviction ends that.
ContentOpOK(r, f) ==
  ~f.evicted =>
    /\ r.read <= f.bytes /\ r.seen <= f.bytes
    /\ r.stage \in ContentWatching => f.bytes > r.seen \/ r.quiet >= r.idle
    /\ r.stage = "looked" => r.read > r.seen \/ r.was >= r.idle
    /\ r.stage = "stalled" => r.was >= ccStall

ContentOpInv ==
  /\ ccOs \in ccSystems /\ ccFile \in [ccFiles -> ContentFileStates] /\ ccOp \in [ccOps -> ContentRecords]
  /\ \A f \in ccFiles : ccFile[f].bytes <= ccFile[f].size
  /\ \A o \in ccOps : ContentOpOK(ccOp[o], ccFile[ccOp[o].file])

ContentCoordinatorInv ==
  /\ ccCoordinator \in [ccFiles -> {"none", "active", "failed"}] /\ ccThreads \in [ccFiles -> 0..1]
  /\ \A f \in ccFiles : ccThreads[f] = 1 <=> ccCoordinator[f] = "active"
  /\ \A f \in ccFiles : ccCoordinator[f] = "active" => ccOps # {}

ContentHydrationInv ==
  /\ ccHydration \in [ccOps -> {"none", "pending", "done", "failed"}]
  /\ ccOperations \subseteq ccOps \ ccOpenings
  /\ \A o \in ccOps : ccHydration[o] = "pending" => o \in ccOperations \/ ccOp[o].stage = "hydrating"

ContentIInv == ContentOpInv /\ ContentCoordinatorInv /\ ContentHydrationInv

LEMMA ContentInitHolds == ASSUME Content!CloudAssumption PROVE Content!Init => ContentIInv
<1> SUFFICES ASSUME Content!Init PROVE ContentIInv
  OBVIOUS
<1>1. ccSizes \subseteq Nat \ {0} /\ ccStall \in Nat \ {0}
  BY DEF Content!CloudAssumption
<1>2. PICK target \in [ccOps -> ccFiles] :
        ccOp = [o \in ccOps |-> [file |-> target[o], stage |-> "new", read |-> 0, held |-> FALSE,
                             seen |-> 0, idle |-> 0, quiet |-> 0, was |-> 0]]
  BY DEF Content!Init
<1>3. ccOp \in [ccOps -> ContentRecords]
  BY <1>1, <1>2 DEF ContentRecords, Content!Stages
<1>4. /\ ccFile \in [ccFiles -> ContentFileStates] /\ ccOs \in ccSystems
      /\ \A f \in ccFiles : ccFile[f].bytes \in Nat /\ ccFile[f].bytes <= ccFile[f].size
  <2> DEFINE first == [size : ccSizes, bytes : {0} \cup ccSizes, ubiquitous : BOOLEAN,
                       fetching : {FALSE}, error : {FALSE}, evicted : {FALSE}]
  <2>1. /\ ccFile \in [ccFiles -> first] /\ ccOs \in ccSystems
        /\ \A f \in ccFiles : ccFile[f].bytes \in {0, ccFile[f].size}
    BY DEF Content!Init
  <2>2. \A n \in {0} \cup ccSizes : n \in Nat
    BY <1>1
  <2>3. \A x \in first : x \in ContentFileStates /\ x.size \in Nat
    BY <1>1, <2>2 DEF ContentFileStates
  <2> HIDE DEF first
  <2>4. ccFile \in [ccFiles -> ContentFileStates] /\ \A f \in ccFiles : ccFile[f].size \in Nat
    BY <2>1, <2>3
  <2> QED BY <2>1, <2>4
<1>5. \A o \in ccOps : ContentOpOK(ccOp[o], ccFile[ccOp[o].file])
  BY <1>1, <1>2, <1>4 DEF ContentOpOK, ContentWatching
<1>6. ContentCoordinatorInv /\ ContentHydrationInv
  BY DEF Content!Init, ContentCoordinatorInv, ContentHydrationInv
<1> QED BY <1>3, <1>4, <1>5, <1>6 DEF ContentIInv, ContentOpInv

-----------------------------------------------------------------------------
\* The operations and what they saw of their files.

\* The files keep their bytes: what RequestDownload tells the system is not
\* about them.
ContentSameBytes ==
  /\ ccFile' \in [ccFiles -> ContentFileStates]
  /\ \A f \in ccFiles : /\ ccFile'[f].bytes = ccFile[f].bytes /\ ccFile'[f].size = ccFile[f].size
                        /\ ccFile'[f].evicted = ccFile[f].evicted

LEMMA ContentKnown ==
  ASSUME Content!CloudAssumption, ContentIInv, NEW o \in ccOps
  PROVE  /\ ccOp[o] \in ContentRecords /\ ccOp[o].file \in ccFiles /\ Content!Of(o) \in ContentFileStates
         /\ Content!Of(o).bytes \in Nat /\ ccStall \in Nat \ {0}
         /\ ccOp[o].read \in Nat /\ ccOp[o].seen \in Nat /\ ccOp[o].idle \in 0..ccStall
         /\ ccOp[o].quiet \in 0..ccStall /\ ccOp[o].was \in 0..ccStall /\ ContentOpOK(ccOp[o], Content!Of(o))
  BY DEF ContentIInv, ContentOpInv, ContentRecords, ContentFileStates, Content!Of,
    Content!CloudAssumption

LEMMA ContentUnmoved ==
  ASSUME ContentIInv, ContentSameBytes, UNCHANGED <<ccOs, ccOp>>
  PROVE  ContentOpInv'
  BY DEF ContentIInv, ContentOpInv, ContentOpOK, ContentSameBytes, ContentRecords

LEMMA ContentStepHolds ==
  ASSUME ContentIInv, NEW o \in ccOps, NEW r \in ContentRecords,
         ccOp' = [ccOp EXCEPT ![o] = r],
         r.file = ccOp[o].file, ContentOpOK(r, Content!Of(o)), ContentSameBytes, UNCHANGED ccOs
  PROVE  ContentOpInv'
<1>1. ccOp' \in [ccOps -> ContentRecords]
  BY DEF ContentIInv, ContentOpInv
<1>2. \A x \in ccOps : ccOp'[x].file \in ccFiles /\ ccOp'[x].file = ccOp[x].file
  BY <1>1 DEF ContentIInv, ContentOpInv, ContentRecords
<1>3. \A x \in ccOps : ContentOpOK(ccOp'[x], ccFile[ccOp[x].file])
  BY DEF ContentIInv, ContentOpInv, Content!Of
<1>4. \A x \in ccOps : ContentOpOK(ccOp'[x], ccFile'[ccOp'[x].file])
  BY <1>2, <1>3 DEF ContentOpOK, ContentSameBytes
<1> QED BY <1>1, <1>4 DEF ContentIInv, ContentOpInv, ContentSameBytes

\* A step that changes the stage only.
LEMMA ContentMoveHolds ==
  ASSUME Content!CloudAssumption, ContentIInv, NEW o \in ccOps,
         NEW s \in Content!Stages \ {"looked"}, Content!Move(o, s),
         s \in ContentWatching => ccOp[o].stage \in ContentWatching,
         s = "stalled" => Content!Of(o).evicted \/ ccOp[o].was >= ccStall, ContentSameBytes, UNCHANGED ccOs
  PROVE  ContentOpInv'
<1> DEFINE r == [ccOp[o] EXCEPT !.stage = s]
<1>1. ccOp' = [ccOp EXCEPT ![o] = r]
  BY DEF Content!Move, ContentIInv, ContentOpInv, ContentRecords
<1>2. /\ r \in ContentRecords /\ r.stage = s /\ r.file = ccOp[o].file /\ r.read = ccOp[o].read
      /\ r.seen = ccOp[o].seen /\ r.idle = ccOp[o].idle /\ r.quiet = ccOp[o].quiet /\ r.was = ccOp[o].was
  BY ContentKnown DEF ContentRecords
<1> HIDE DEF r
<1>3. ContentOpOK(r, Content!Of(o))
  BY <1>2, ContentKnown DEF ContentOpOK
<1> QED BY <1>1, <1>2, <1>3, ContentStepHolds

LEMMA ContentReadsHolds ==
  ASSUME Content!CloudAssumption, ContentIInv, NEW o \in ccOps,
         NEW s \in {"judge", "looked"}, Content!Reads(o, s),
         s = "looked" => ccOp[o].stage = "polled", ContentSameBytes, UNCHANGED ccOs
  PROVE  ContentOpInv'
<1> DEFINE r == [ccOp[o] EXCEPT !.stage = s, !.read = Content!Of(o).bytes, !.was = ccOp[o].quiet]
<1>1. ccOp' = [ccOp EXCEPT ![o] = r]
  BY DEF Content!Reads, ContentIInv, ContentOpInv, ContentRecords
<1>2. /\ r \in ContentRecords /\ r.stage = s /\ r.file = ccOp[o].file /\ r.read = Content!Of(o).bytes
      /\ r.seen = ccOp[o].seen /\ r.idle = ccOp[o].idle /\ r.quiet = ccOp[o].quiet /\ r.was = ccOp[o].quiet
  BY ContentKnown DEF ContentRecords, Content!Stages
<1> HIDE DEF r
<1>3. ContentOpOK(r, Content!Of(o))
  BY <1>2, ContentKnown DEF ContentOpOK, ContentWatching
<1> QED BY <1>1, <1>2, <1>3, ContentStepHolds

\* The clock of the watchdog starts over with what was read.
LEMMA ContentRestartHolds ==
  ASSUME Content!CloudAssumption, ContentIInv, NEW o \in ccOps, ContentSameBytes,
         UNCHANGED ccOs,
         ccOp' = [ccOp EXCEPT ![o].stage = "waiting", ![o].seen = ccOp[o].read, ![o].idle = 0]
  PROVE  ContentOpInv'
<1> DEFINE r == [ccOp[o] EXCEPT !.stage = "waiting", !.seen = ccOp[o].read, !.idle = 0]
<1>1. ccOp' = [ccOp EXCEPT ![o] = r]
  BY DEF ContentIInv, ContentOpInv, ContentRecords
<1>2. 0 \in 0..ccStall
  BY ContentKnown
<1>3. /\ r \in ContentRecords /\ r.stage = "waiting" /\ r.file = ccOp[o].file /\ r.read = ccOp[o].read
      /\ r.seen = ccOp[o].read /\ r.idle = 0 /\ r.quiet = ccOp[o].quiet /\ r.was = ccOp[o].was
  BY <1>2, ContentKnown DEF ContentRecords, Content!Stages
<1> HIDE DEF r
<1>4. ContentOpOK(r, Content!Of(o))
  BY <1>3, ContentKnown DEF ContentOpOK, ContentWatching
<1> QED BY <1>1, <1>3, <1>4, ContentStepHolds

LEMMA ContentSame == ASSUME ContentIInv, UNCHANGED ccFile PROVE ContentSameBytes
  BY DEF ContentSameBytes, ContentIInv, ContentOpInv

LEMMA ContentPrepareHolds ==
  ASSUME Content!CloudAssumption, ContentIInv, NEW o \in ccOps,
         Content!Prepare(o) \/ Content!ReadsMetadata(o)
  PROVE  ContentOpInv'
  BY ContentSame, ContentReadsHolds DEF Content!Prepare, Content!ReadsMetadata

LEMMA ContentRegisteredHolds ==
  ASSUME Content!CloudAssumption, ContentIInv, NEW o \in ccOps, Content!Registered(o),
         ContentSameBytes, UNCHANGED ccOs
  PROVE  ContentOpInv'
<1>1. CASE o \in ccOpenings
  <2>1. PICK s \in {"hydrating", "failed"} : Content!Move(o, s)
    BY <1>1 DEF Content!Registered
  <2> QED BY <2>1, ContentMoveHolds DEF Content!Stages, ContentWatching
<1>2. CASE o \notin ccOpenings
  BY <1>2, ContentRestartHolds DEF Content!Registered
<1> QED BY <1>1, <1>2

LEMMA ContentJudgesHolds ==
  ASSUME Content!CloudAssumption, ContentIInv, NEW o \in ccOps, Content!Judges(o)
  PROVE  ContentOpInv'
<1>1. ContentSameBytes /\ UNCHANGED ccOs
  BY ContentSame DEF Content!Judges
<1>2. Content!Registered(o) \/ \E s \in {"ready", "failed", "request"} : Content!Move(o, s)
  BY DEF Content!Judges
<1> QED BY <1>1, <1>2, ContentRegisteredHolds, ContentMoveHolds DEF Content!Stages,
    ContentWatching

LEMMA ContentRequestsHolds ==
  ASSUME Content!CloudAssumption, ContentIInv, NEW o \in ccOps, Content!Requests(o)
  PROVE  ContentOpInv'
<1>1. ContentSameBytes
  <2>1. CASE UNCHANGED ccFile
    BY <2>1, ContentSame
  <2>2. CASE ccFile' = [ccFile EXCEPT ![ccOp[o].file].fetching = Content!Partial(ccOp[o].file),
                                  ![ccOp[o].file].error = FALSE]
    <3> DEFINE b == Content!Partial(ccOp[o].file)
               g == [ccFile[ccOp[o].file] EXCEPT !.fetching = b, !.error = FALSE]
    <3>1. b \in BOOLEAN
      BY DEF Content!Partial
    <3>2. ccFile' = [ccFile EXCEPT ![ccOp[o].file] = g]
      BY <2>2 DEF ContentIInv, ContentOpInv, ContentFileStates
    <3> HIDE DEF b
    <3>3. /\ g \in ContentFileStates /\ g.bytes = ccFile[ccOp[o].file].bytes
          /\ g.size = ccFile[ccOp[o].file].size /\ g.evicted = ccFile[ccOp[o].file].evicted
      BY <3>1, ContentKnown DEF ContentFileStates, Content!Of
    <3> HIDE DEF g
    <3> QED BY <3>2, <3>3 DEF ContentSameBytes, ContentIInv, ContentOpInv
  <2> QED BY <2>1, <2>2 DEF Content!Requests, Content!RequestDownload
<1> QED BY <1>1, ContentRegisteredHolds DEF Content!Requests

LEMMA ContentHydratedHolds ==
  ASSUME Content!CloudAssumption, ContentIInv, NEW o \in ccOps, Content!Hydrated(o)
  PROVE  ContentOpInv'
<1>1. PICK s \in {"ready", "failed"} : Content!Move(o, s)
  BY DEF Content!Hydrated
<1>2. ContentSameBytes /\ UNCHANGED ccOs
  BY ContentSame DEF Content!Hydrated
<1> QED BY <1>1, <1>2, ContentMoveHolds DEF Content!Stages, ContentWatching

LEMMA ContentPollHolds ==
  ASSUME Content!CloudAssumption, ContentIInv, NEW o \in ccOps, Content!Poll(o)
  PROVE  ContentOpInv'
<1>1. ccOp[o].stage = "waiting" /\ ContentSameBytes /\ UNCHANGED ccOs
  BY ContentSame DEF Content!Poll
<1>2. CASE \E s \in {"lost", "failed"} : Content!Move(o, s)
  BY <1>1, <1>2, ContentMoveHolds DEF Content!Stages, ContentWatching
<1>3. CASE ccOp' = [ccOp EXCEPT ![o].stage = "polled", ![o].held = ccHydration[o] = "pending"]
  <2> DEFINE b == ccHydration[o] = "pending"
             r == [ccOp[o] EXCEPT !.stage = "polled", !.held = b]
  <2>1. b \in BOOLEAN
    OBVIOUS
  <2>2. ccOp' = [ccOp EXCEPT ![o] = r]
    BY <1>3 DEF ContentIInv, ContentOpInv, ContentRecords
  <2> HIDE DEF b
  <2>3. /\ r \in ContentRecords /\ r.stage = "polled" /\ r.file = ccOp[o].file /\ r.read = ccOp[o].read
        /\ r.seen = ccOp[o].seen /\ r.idle = ccOp[o].idle /\ r.quiet = ccOp[o].quiet
        /\ r.was = ccOp[o].was
    BY <2>1, ContentKnown DEF ContentRecords, Content!Stages
  <2> HIDE DEF r
  <2>4. ContentOpOK(r, Content!Of(o))
    BY <1>1, <2>3, ContentKnown DEF ContentOpOK, ContentWatching
  <2> QED BY <1>1, <2>2, <2>3, <2>4, ContentStepHolds
<1> QED BY <1>2, <1>3 DEF Content!Poll

\* The watchdog ends an operation only after it was quiet long enough.
LEMMA ContentWatchedHolds ==
  ASSUME Content!CloudAssumption, ContentIInv, NEW o \in ccOps, ccOp[o].stage = "looked",
         Content!Watched(o), ContentSameBytes,
         UNCHANGED ccOs
  PROVE  ContentOpInv'
<1>1. CASE ccOp[o].read > ccOp[o].seen
  BY <1>1, ContentRestartHolds DEF Content!Watched
<1>2. CASE ccOp[o].read <= ccOp[o].seen /\ ccOp[o].idle >= ccStall
  <2>1. Content!Move(o, "stalled")
    BY <1>2, ContentKnown DEF Content!Watched
  <2>2. Content!Of(o).evicted \/ ccOp[o].was >= ccStall
    BY <1>2, ContentKnown DEF ContentOpOK
  <2> QED BY <2>1, <2>2, ContentMoveHolds DEF Content!Stages, ContentWatching
<1>3. CASE ccOp[o].read <= ccOp[o].seen /\ ~(ccOp[o].idle >= ccStall)
  <2>1. Content!Move(o, "waiting")
    BY <1>3, ContentKnown DEF Content!Watched
  <2> QED BY <2>1, ContentMoveHolds DEF Content!Stages, ContentWatching
<1> QED BY <1>1, <1>2, <1>3, ContentKnown

LEMMA ContentAnswerHolds ==
  ASSUME Content!CloudAssumption, ContentIInv, NEW o \in ccOps, Content!Answer(o)
  PROVE  ContentOpInv'
<1>1. ccOp[o].stage = "looked" /\ ContentSameBytes /\ UNCHANGED ccOs
  BY ContentSame DEF Content!Answer
<1>2. Content!Watched(o) \/ \E s \in {"failed", "waiting", "lost", "ready"} : Content!Move(o, s)
  BY DEF Content!Answer
<1> QED BY <1>1, <1>2, ContentWatchedHolds, ContentMoveHolds DEF Content!Stages,
    ContentWatching

LEMMA ContentCancelHolds ==
  ASSUME Content!CloudAssumption, ContentIInv, NEW o \in ccOps, Content!Cancel(o)
  PROVE  ContentOpInv'
<1>1. ContentSameBytes /\ UNCHANGED ccOs
  BY ContentSame DEF Content!Cancel
<1>2. CASE ccOp[o].stage = "waiting"
  <2>1. Content!Move(o, "cancelled")
    BY <1>2 DEF Content!Cancel, Content!Move
  <2> QED BY <1>1, <2>1, ContentMoveHolds DEF Content!Stages, ContentWatching
<1>3. CASE ccOp[o].stage # "waiting"
  <2>1. ccOp' = ccOp
    BY <1>3 DEF Content!Cancel, ContentIInv, ContentOpInv, ContentRecords
  <2> QED BY <1>1, <2>1, ContentUnmoved
<1> QED BY <1>2, <1>3

LEMMA ContentTickHolds ==
  ASSUME Content!CloudAssumption, ContentIInv, NEW o \in ccOps, Content!Tick(o)
  PROVE  ContentOpInv'
<1> DEFINE q == IF ccOp[o].quiet < ccStall THEN ccOp[o].quiet + 1 ELSE ccStall
           i == ccOp[o].idle + 1
           r == [ccOp[o] EXCEPT !.idle = i, !.quiet = q]
<1>1. ccOp[o].stage = "waiting" /\ ccOp[o].idle < ccStall /\ ContentSameBytes /\ UNCHANGED ccOs
  BY ContentSame DEF Content!Tick
<1>2. /\ q \in 0..ccStall /\ i \in 0..ccStall /\ (ccOp[o].quiet >= ccOp[o].idle => q >= i)
  BY <1>1, ContentKnown
<1>3. ccOp' = [ccOp EXCEPT ![o] = r]
  BY <1>1 DEF Content!Tick, ContentIInv, ContentOpInv, ContentRecords
<1> HIDE DEF q, i
<1>4. /\ r \in ContentRecords /\ r.stage = "waiting" /\ r.file = ccOp[o].file /\ r.read = ccOp[o].read
      /\ r.seen = ccOp[o].seen /\ r.idle = i /\ r.quiet = q /\ r.was = ccOp[o].was
  BY <1>1, <1>2, ContentKnown DEF ContentRecords
<1> HIDE DEF r
<1>5. ContentOpOK(r, Content!Of(o))
  BY <1>1, <1>2, <1>4, ContentKnown DEF ContentOpOK, ContentWatching
<1> QED BY <1>1, <1>3, <1>4, <1>5, ContentStepHolds

\* A file grows: whoever saw less of it sees more now.
LEMMA ContentTransferHolds ==
  ASSUME Content!CloudAssumption, ContentIInv, NEW f \in ccFiles, Content!Transfer(f)
  PROVE  ContentOpInv'
<1> DEFINE b == ccFile[f].fetching /\ ccFile[f].bytes + 1 < ccFile[f].size
           g == [ccFile[f] EXCEPT !.bytes = @ + 1, !.fetching = b]
           r(o) == [ccOp[o] EXCEPT !.quiet = IF ccOp[o].file = f THEN 0 ELSE @]
<1>1. /\ ccFile[f] \in ContentFileStates /\ ccFile[f].bytes \in Nat /\ ccFile[f].size \in Nat
      /\ ccFile[f].bytes < ccFile[f].size
  BY DEF Content!Transfer, Content!Partial, ContentIInv, ContentOpInv,
    ContentFileStates, Content!CloudAssumption
<1>2. b \in BOOLEAN /\ ccFile[f].bytes + 1 \in Nat /\ ccFile[f].bytes + 1 <= ccFile[f].size
  BY <1>1 DEF ContentFileStates
<1>3. ccFile' = [ccFile EXCEPT ![f] = g] /\ ccOp' = [o \in ccOps |-> r(o)] /\ UNCHANGED ccOs
  BY <1>1 DEF Content!Transfer, ContentIInv, ContentOpInv, ContentFileStates
<1> HIDE DEF b
<1>4. /\ g \in ContentFileStates /\ g.bytes = ccFile[f].bytes + 1 /\ g.evicted = ccFile[f].evicted
      /\ g.bytes <= g.size
  BY <1>1, <1>2 DEF ContentFileStates
<1> HIDE DEF g
<1>5. ccFile' \in [ccFiles -> ContentFileStates] /\ ccFile'[f] = g /\ \A x \in ccFiles \ {f} : ccFile'[x] = ccFile[x]
  BY <1>3, <1>4 DEF ContentIInv, ContentOpInv
<1>7. \A x \in ccFiles : ccFile'[x].bytes <= ccFile'[x].size
  BY <1>4, <1>5 DEF ContentIInv, ContentOpInv
<1>6. ASSUME NEW o \in ccOps
      PROVE  /\ r(o) \in ContentRecords /\ r(o).file = ccOp[o].file /\ ContentOpOK(r(o), ccFile'[ccOp[o].file])
  <2> DEFINE q == IF ccOp[o].file = f THEN 0 ELSE ccOp[o].quiet
             s == r(o)
  <2>1. q \in 0..ccStall
    BY ContentKnown
  <2>2. s = [ccOp[o] EXCEPT !.quiet = q]
    OBVIOUS
  <2> HIDE DEF q, r, s
  <2>3. /\ s \in ContentRecords /\ s.stage = ccOp[o].stage /\ s.file = ccOp[o].file /\ s.read = ccOp[o].read
        /\ s.seen = ccOp[o].seen /\ s.idle = ccOp[o].idle /\ s.quiet = q /\ s.was = ccOp[o].was
    BY <2>1, <2>2, ContentKnown DEF ContentRecords
  <2>4. CASE ccOp[o].file = f
    <3>1. ccFile'[ccOp[o].file] = g /\ Content!Of(o) = ccFile[f]
      BY <1>5, <2>4 DEF Content!Of
    <3> QED BY <1>1, <1>4, <2>3, <3>1, ContentKnown DEF ContentOpOK, s
  <2>5. CASE ccOp[o].file # f
    <3>1. ccFile'[ccOp[o].file] = Content!Of(o)
      BY <1>5, <2>5, ContentKnown DEF Content!Of
    <3>2. q = ccOp[o].quiet
      BY <2>5 DEF q
    <3> QED BY <2>3, <3>1, <3>2, ContentKnown DEF ContentOpOK, s
  <2> QED BY <2>3, <2>4, <2>5 DEF s
<1> HIDE DEF r
<1> QED BY <1>3, <1>5, <1>6, <1>7 DEF ContentIInv, ContentOpInv

LEMMA ContentFaultHolds ==
  ASSUME Content!CloudAssumption, ContentIInv, NEW f \in ccFiles, Content!Fault(f)
  PROVE  ContentOpInv'
<1>1. ccOp' = ccOp /\ ccOs' = ccOs /\ ccFile[f] \in ContentFileStates
  BY DEF Content!Fault, ContentIInv, ContentOpInv
<1>2. CASE \E told \in BOOLEAN :
             ccFile' = [ccFile EXCEPT ![f].fetching = FALSE, ![f].error = told]
  <2>1. PICK told \in BOOLEAN : ccFile' = [ccFile EXCEPT ![f].fetching = FALSE, ![f].error = told]
    BY <1>2
  <2> DEFINE g == [ccFile[f] EXCEPT !.fetching = FALSE, !.error = told]
  <2>2. ccFile' = [ccFile EXCEPT ![f] = g]
    BY <2>1 DEF ContentIInv, ContentOpInv, ContentFileStates
  <2>3. /\ g \in ContentFileStates /\ g.bytes = ccFile[f].bytes /\ g.size = ccFile[f].size
        /\ g.evicted = ccFile[f].evicted
    BY <1>1 DEF ContentFileStates
  <2> HIDE DEF g
  <2>4. ContentSameBytes
    BY <2>2, <2>3 DEF ContentSameBytes, ContentIInv, ContentOpInv
  <2> QED BY <1>1, <2>4, ContentUnmoved
<1>3. CASE ccFile' = [ccFile EXCEPT ![f].bytes = 0, ![f].evicted = TRUE]
  <2> DEFINE g == [ccFile[f] EXCEPT !.bytes = 0, !.evicted = TRUE]
  <2>1. ccFile' = [ccFile EXCEPT ![f] = g]
    BY <1>3 DEF ContentIInv, ContentOpInv, ContentFileStates
  <2>2. ccFile[f].size \in Nat
    BY DEF ContentIInv, ContentOpInv, ContentFileStates, Content!CloudAssumption
  <2>3. g \in ContentFileStates /\ g.evicted /\ g.bytes = 0 /\ g.size = ccFile[f].size
    BY <1>1 DEF ContentFileStates
  <2> HIDE DEF g
  <2>4. ccFile' \in [ccFiles -> ContentFileStates] /\ \A x \in ccFiles : ccFile'[x] = ccFile[x] \/ ccFile'[x].evicted
    BY <2>1, <2>3 DEF ContentIInv, ContentOpInv
  <2>5. \A o \in ccOps : ContentOpOK(ccOp'[o], ccFile'[ccOp'[o].file])
    BY <1>1, <2>4, ContentKnown DEF ContentOpOK, Content!Of
  <2>6. \A x \in ccFiles : ccFile'[x].bytes <= ccFile'[x].size
    BY <2>2, <2>1, <2>3 DEF ContentIInv, ContentOpInv
  <2> QED BY <1>1, <2>4, <2>5, <2>6 DEF ContentIInv, ContentOpInv
<1> QED BY <1>2, <1>3 DEF Content!Fault

LEMMA ContentOpHolds ==
  ASSUME Content!CloudAssumption, ContentIInv, [Content!Next]_Content!vars
  PROVE  ContentOpInv'
<1>1. ASSUME NEW o \in ccOps, Content!HydrationEnds(o) PROVE ContentOpInv'
  BY <1>1, ContentSame, ContentUnmoved DEF Content!HydrationEnds
<1>2. ASSUME NEW f \in ccFiles, Content!CoordinatorEnds(f) PROVE ContentOpInv'
  BY <1>2, ContentSame, ContentUnmoved DEF Content!CoordinatorEnds
<1>3. CASE UNCHANGED Content!vars
  BY <1>3, ContentSame, ContentUnmoved DEF Content!vars
<1>4. ASSUME NEW o \in ccOps, Content!Step(o) PROVE ContentOpInv'
  BY <1>4, ContentPrepareHolds, ContentJudgesHolds, ContentRequestsHolds,
    ContentHydratedHolds, ContentPollHolds, ContentAnswerHolds DEF Content!Step
<1> QED BY <1>1, <1>2, <1>3, <1>4, ContentPrepareHolds, ContentCancelHolds,
    ContentTickHolds, ContentTransferHolds, ContentFaultHolds DEF Content!Next

-----------------------------------------------------------------------------
\* The coordinated reads.

LEMMA ContentTakenHolds ==
  ASSUME ContentIInv, NEW o \in ccOps, Content!FailureTaken(o), ccThreads' = ccThreads
  PROVE  ContentCoordinatorInv'
  BY DEF ContentIInv, ContentCoordinatorInv, Content!FailureTaken

LEMMA ContentCoordinatorHolds ==
  ASSUME Content!CloudAssumption, ContentIInv, [Content!Next]_Content!vars
  PROVE  ContentCoordinatorInv'
<1>1. ASSUME UNCHANGED <<ccCoordinator, ccThreads>> PROVE ContentCoordinatorInv'
  BY <1>1 DEF ContentIInv, ContentCoordinatorInv
<1>2. ASSUME NEW f \in ccFiles, Content!CoordinatorEnds(f) PROVE ContentCoordinatorInv'
  <2>1. ccThreads[f] = 1 /\ ccThreads' = [ccThreads EXCEPT ![f] = 0]
    <3>1. ccThreads[f] \in 0..1 /\ ccThreads[f] > 0 /\ ccThreads' = [ccThreads EXCEPT ![f] = @ - 1]
      BY <1>2 DEF Content!CoordinatorEnds, ContentIInv, ContentCoordinatorInv
    <3>2. ccThreads[f] = 1
      BY <3>1
    <3> QED BY <3>1, <3>2
  <2>2. PICK s \in {"none", "failed"} : ccCoordinator' = [ccCoordinator EXCEPT ![f] = s]
    BY <1>2 DEF Content!CoordinatorEnds
  <2> QED BY <2>1, <2>2 DEF ContentIInv, ContentCoordinatorInv
<1>3. ASSUME NEW o \in ccOps, Content!Requests(o) PROVE ContentCoordinatorInv'
  <2>1. CASE UNCHANGED <<ccCoordinator, ccThreads>>
    BY <1>1, <2>1
  <2>2. CASE ~UNCHANGED <<ccCoordinator, ccThreads>>
    <3> DEFINE f == ccOp[o].file
    <3>1. /\ ccCoordinator[f] # "active" /\ ccCoordinator' = [ccCoordinator EXCEPT ![f] = "active"]
          /\ ccThreads' = [ccThreads EXCEPT ![f] = @ + 1]
      BY <1>3, <2>2 DEF Content!Requests, Content!RequestDownload
    <3>2. f \in ccFiles /\ ccThreads[f] = 0
      BY <3>1, ContentKnown DEF ContentIInv, ContentCoordinatorInv
    <3> HIDE DEF f
    <3> QED BY <3>1, <3>2 DEF ContentIInv, ContentCoordinatorInv
  <2> QED BY <2>1, <2>2
<1>4. ASSUME NEW o \in ccOps, Content!Step(o) PROVE ContentCoordinatorInv'
  <2>1. CASE Content!Judges(o) \/ Content!Answer(o)
    BY <2>1, ContentTakenHolds DEF Content!Judges, Content!Answer
  <2> QED BY <1>1, <1>3, <1>4, <2>1 DEF Content!Step, Content!ReadsMetadata,
      Content!Hydrated, Content!Poll
<1>5. ASSUME NEW o \in ccOps, Content!Prepare(o) \/ Content!Cancel(o) \/ Content!Tick(o) \/ Content!HydrationEnds(o)
      PROVE  ContentCoordinatorInv'
  BY <1>1, <1>5 DEF Content!Prepare, Content!Cancel, Content!Tick, Content!HydrationEnds
<1>6. ASSUME NEW f \in ccFiles, Content!Transfer(f) \/ Content!Fault(f) PROVE ContentCoordinatorInv'
  BY <1>1, <1>6 DEF Content!Transfer, Content!Fault
<1> QED BY <1>1, <1>2, <1>4, <1>5, <1>6 DEF Content!Next, Content!vars

-----------------------------------------------------------------------------
\* The hydrations.

\* Hydrations and their openings stay, and nobody leaves the map.
LEMMA ContentOwnedStays ==
  ASSUME ContentIInv, ccHydration' = ccHydration, ccOperations \subseteq ccOperations',
         ccOperations' \subseteq ccOps \ ccOpenings,
         \A x \in ccOps : ccOp[x].stage = "hydrating" => ccOp'[x].stage = "hydrating"
  PROVE  ContentHydrationInv'
  BY DEF ContentIInv, ContentHydrationInv

LEMMA ContentRemovedOwned ==
  ASSUME ContentIInv, NEW o \in ccOps, Content!Removed(o),
         \A x \in ccOps \ {o} : ccOp[x].stage = "hydrating" => ccOp'[x].stage = "hydrating"
  PROVE  ContentHydrationInv'
  BY DEF ContentIInv, ContentHydrationInv, Content!Removed

\* A step of one operation leaves the stages of the others.
LEMMA ContentOthersStay ==
  ASSUME Content!CloudAssumption, ContentIInv, NEW o \in ccOps,
         Content!Prepare(o) \/ Content!Step(o) \/ Content!Cancel(o) \/ Content!Tick(o) \/ Content!HydrationEnds(o)
  PROVE  /\ \A x \in ccOps \ {o} : ccOp'[x] = ccOp[x]
         /\ Content!Cancel(o) \/ Content!Tick(o) \/ Content!HydrationEnds(o) =>
              (ccOp[o].stage = "hydrating" => ccOp'[o].stage = "hydrating")
<1>1. ccOp \in [ccOps -> ContentRecords]
  BY DEF ContentIInv, ContentOpInv
<1>2. \A x \in ccOps \ {o} : ccOp'[x] = ccOp[x]
  <2>1. ASSUME \E s : Content!Move(o, s) PROVE \A x \in ccOps \ {o} : ccOp'[x] = ccOp[x]
    BY <1>1, <2>1 DEF Content!Move
  <2>2. CASE Content!Prepare(o) \/ Content!ReadsMetadata(o)
    BY <1>1, <2>2 DEF Content!Prepare, Content!ReadsMetadata, Content!Reads
  <2>3. ASSUME Content!Registered(o) PROVE \A x \in ccOps \ {o} : ccOp'[x] = ccOp[x]
    BY <1>1, <2>1, <2>3 DEF Content!Registered
  <2>4. CASE Content!Judges(o)
    BY <2>1, <2>3, <2>4 DEF Content!Judges
  <2>5. CASE Content!Requests(o) \/ Content!Hydrated(o)
    BY <2>1, <2>3, <2>5 DEF Content!Requests, Content!Hydrated
  <2>6. CASE Content!Poll(o)
    BY <1>1, <2>1, <2>6 DEF Content!Poll
  <2>7. ASSUME Content!Watched(o) PROVE \A x \in ccOps \ {o} : ccOp'[x] = ccOp[x]
    BY <1>1, <2>1, <2>7 DEF Content!Watched
  <2>8. CASE Content!Answer(o)
    BY <2>1, <2>7, <2>8 DEF Content!Answer
  <2>9. CASE Content!Cancel(o) \/ Content!Tick(o) \/ Content!HydrationEnds(o)
    BY <1>1, <2>9 DEF Content!Cancel, Content!Tick, Content!HydrationEnds
  <2> QED BY <2>2, <2>4, <2>5, <2>6, <2>8, <2>9 DEF Content!Step
<1>3. Content!Cancel(o) \/ Content!Tick(o) \/ Content!HydrationEnds(o) =>
        (ccOp[o].stage = "hydrating" => ccOp'[o].stage = "hydrating")
  BY <1>1 DEF Content!Cancel, Content!Tick, Content!HydrationEnds, ContentRecords
<1> QED BY <1>2, <1>3

LEMMA ContentStepOwned ==
  ASSUME Content!CloudAssumption, ContentIInv, NEW o \in ccOps, Content!Step(o)
  PROVE  ContentHydrationInv'
<1>1. \A x \in ccOps \ {o} : ccOp'[x] = ccOp[x]
  BY ContentOthersStay
<1>2. CASE Content!Hydrated(o)
  <2>1. ccOperations' = ccOperations /\ ccHydration' = [ccHydration EXCEPT ![o] = "none"]
    BY <1>2 DEF Content!Hydrated
  <2> QED BY <1>1, <2>1 DEF ContentIInv, ContentHydrationInv
<1>3. CASE Content!Requests(o)
  <2>1. ccOp[o].stage = "request" /\ ccOperations' \in {ccOperations, ccOperations \cup {o}}
        /\ (o \in ccOpenings => ccOperations' = ccOperations)
    BY <1>3 DEF Content!Requests, Content!Registered
  <2>2. ccOperations' \subseteq ccOps \ ccOpenings
    BY <2>1 DEF ContentIInv, ContentHydrationInv
  <2>3. CASE ccOs # "windows"
    <3>1. ccHydration' = ccHydration
      BY <1>3, <2>3 DEF Content!Requests
    <3> QED BY <1>1, <2>1, <2>2, <3>1, ContentOwnedStays
  <2>4. CASE ccOs = "windows"
    <3>1. ccHydration' = [ccHydration EXCEPT ![o] = "pending"]
      BY <1>3, <2>4 DEF Content!Requests
    <3>2. o \in ccOperations' \/ ccOp'[o].stage = "hydrating"
      BY <1>3, <2>4 DEF Content!Requests, Content!Registered, Content!Move, ContentIInv,
        ContentOpInv, ContentRecords
    <3> QED BY <1>1, <2>1, <2>2, <3>1, <3>2 DEF ContentIInv, ContentHydrationInv
  <2> QED BY <2>3, <2>4
<1>4. CASE Content!Judges(o)
  <2>1. ccOp[o].stage = "judge" /\ ccOperations' \in {ccOperations, ccOperations \cup {o}}
        /\ (o \in ccOpenings => ccOperations' = ccOperations) /\ ccHydration' = ccHydration
    BY <1>4 DEF Content!Judges, Content!Registered
  <2>2. ccOperations' \subseteq ccOps \ ccOpenings
    BY <2>1 DEF ContentIInv, ContentHydrationInv
  <2> QED BY <1>1, <2>1, <2>2, ContentOwnedStays
<1>5. CASE Content!ReadsMetadata(o) \/ Content!Poll(o) \/ Content!Answer(o)
  <2>1. ccOp[o].stage # "hydrating"
    BY <1>5 DEF Content!ReadsMetadata, Content!Poll, Content!Answer
  <2>2. Content!Removed(o) \/ UNCHANGED <<ccOperations, ccHydration>>
    BY <1>5 DEF Content!ReadsMetadata, Content!Poll, Content!Answer, Content!Watched
  <2>3. ccOperations \subseteq ccOps \ ccOpenings
    BY DEF ContentIInv, ContentHydrationInv
  <2> QED BY <1>1, <2>1, <2>2, <2>3, ContentOwnedStays, ContentRemovedOwned
<1> QED BY <1>2, <1>3, <1>4, <1>5 DEF Content!Step

LEMMA ContentHydrationHolds ==
  ASSUME Content!CloudAssumption, ContentIInv, [Content!Next]_Content!vars
  PROVE  ContentHydrationInv'
<1>1. ccOperations \subseteq ccOps \ ccOpenings
  BY DEF ContentIInv, ContentHydrationInv
<1>2. ASSUME NEW o \in ccOps, Content!Prepare(o) \/ Content!Tick(o) PROVE ContentHydrationInv'
  BY <1>1, <1>2, ContentOthersStay, ContentOwnedStays DEF Content!Prepare, Content!Tick
<1>3. ASSUME NEW o \in ccOps, Content!Cancel(o) PROVE ContentHydrationInv'
  BY <1>3, ContentOthersStay, ContentRemovedOwned DEF Content!Cancel
<1>4. ASSUME NEW o \in ccOps, Content!HydrationEnds(o) PROVE ContentHydrationInv'
  BY <1>4 DEF Content!HydrationEnds, ContentIInv, ContentHydrationInv
<1>5. ASSUME NEW f \in ccFiles, Content!Transfer(f) PROVE ContentHydrationInv'
  <2>1. \A x \in ccOps : ccOp'[x].stage = ccOp[x].stage
    BY <1>5 DEF Content!Transfer, ContentIInv, ContentOpInv, ContentRecords
  <2> QED BY <1>1, <1>5, <2>1, ContentOwnedStays DEF Content!Transfer
<1>6. ASSUME UNCHANGED <<ccHydration, ccOperations, ccOp>> PROVE ContentHydrationInv'
  BY <1>1, <1>6, ContentOwnedStays
<1>7. ASSUME NEW f \in ccFiles, Content!Fault(f) \/ Content!CoordinatorEnds(f) PROVE ContentHydrationInv'
  BY <1>6, <1>7 DEF Content!Fault, Content!CoordinatorEnds
<1> QED BY <1>2, <1>3, <1>4, <1>5, <1>6, <1>7, ContentStepOwned DEF Content!Next,
    Content!vars

LEMMA ContentInvariant == ASSUME Content!CloudAssumption PROVE Content!Spec => []ContentIInv
<1>1. ContentIInv /\ [Content!Next]_Content!vars => ContentIInv'
  BY ContentOpHolds, ContentCoordinatorHolds, ContentHydrationHolds DEF ContentIInv
<1> QED BY <1>1, ContentInitHolds, PTL DEF Content!Spec

(* Every variable has its type. *)
THEOREM ContentTypeCorrect ==
  ASSUME Content!CloudAssumption
  PROVE  Content!Spec => []Content!TypeOK
<1>1. ccOps # {} => Cardinality(ccOps) \in Nat \ {0}
  BY FS_EmptySet, FS_CardinalityType, ContentFinite DEF Content!CloudAssumption
<1>2. ASSUME ContentIInv PROVE Content!TypeOK
  <2>1. /\ ccOs \in ccSystems /\ ccOperations \subseteq ccOps \ ccOpenings
        /\ \A f \in ccFiles : ccCoordinator[f] \in {"none", "active", "failed"}
    BY <1>2 DEF ContentIInv, ContentOpInv, ContentCoordinatorInv, ContentHydrationInv
  <2>5. ASSUME NEW f \in ccFiles PROVE ccFile[f].bytes \in 0..ccFile[f].size
    <3>1. ccFile[f].bytes \in Nat /\ ccFile[f].size \in Nat /\ ccFile[f].bytes <= ccFile[f].size
      BY <1>2 DEF ContentIInv, ContentOpInv, ContentFileStates, Content!CloudAssumption
    <3> QED BY <3>1
  <2>2. \A o \in ccOps : ccOp[o].stage \in Content!Stages /\ ccOp[o].idle \in 0..ccStall
                       /\ ccHydration[o] \in {"none", "pending", "done", "failed"}
    BY <1>2 DEF ContentIInv, ContentOpInv, ContentHydrationInv, ContentRecords
  <2>3. Cardinality(ccOps) \in Nat
    BY FS_CardinalityType, ContentFinite DEF Content!CloudAssumption
  <2>4. ASSUME NEW f \in ccFiles PROVE ccThreads[f] \in 0..Cardinality(ccOps)
    <3>1. ccThreads[f] = 0 \/ (ccThreads[f] = 1 /\ ccOps # {})
      BY <1>2 DEF ContentIInv, ContentCoordinatorInv
    <3> QED BY <1>1, <2>3, <3>1
  <2> QED BY <2>1, <2>2, <2>4, <2>5, ContentFinite DEF Content!TypeOK
<1> QED BY <1>2, ContentInvariant, PTL

(* A file that keeps growing is never given up. *)
THEOREM ContentOnlyQuietStalls ==
  ASSUME Content!CloudAssumption
  PROVE  Content!Spec => []Content!StalledOnlyWhenQuiet
<1>1. ContentIInv => Content!StalledOnlyWhenQuiet
  BY DEF ContentIInv, ContentOpInv, ContentOpOK, Content!Of,
    Content!StalledOnlyWhenQuiet
<1> QED BY <1>1, ContentInvariant, PTL

(* One coordinated read per path, and the map says whether it runs. *)
THEOREM ContentOneCoordinatedRead ==
  ASSUME Content!CloudAssumption
  PROVE  Content!Spec => []Content!CoordinatedOnce
<1>1. ContentIInv => Content!CoordinatedOnce
  BY DEF ContentIInv, ContentCoordinatorInv, Content!CoordinatedOnce
<1> QED BY <1>1, ContentInvariant, PTL

(* A hydration is pending only for whoever waits for it. *)
THEOREM ContentHydrationsOwned ==
  ASSUME Content!CloudAssumption
  PROVE  Content!Spec => []Content!HydrationOwned
<1>1. ContentIInv => Content!HydrationOwned
  BY DEF ContentIInv, ContentHydrationInv, Content!HydrationOwned
<1> QED BY <1>1, ContentInvariant, PTL
-----------------------------------------------------------------------------
(* What the parts promise, for Desktop.                                     *)
LEMMA BoardPart == DesktopSpec => Board!Spec
<1>1. DesktopInit => Board!Init
  BY DEF DesktopInit
<1>2. [DesktopNext]_desktopVars => [Board!Next]_Board!vars
  BY DEF DesktopNext, desktopVars, cbVars, Board!vars
<1> QED BY <1>1, <1>2, PTL DEF DesktopSpec, Board!Spec

LEMMA DragDropPart == DesktopSpec => DragDrop!Spec
<1>1. DesktopInit => DragDrop!Init
  BY DEF DesktopInit
<1>2. [DesktopNext]_desktopVars => [DragDrop!Next]_DragDrop!vars
  BY DEF DesktopNext, desktopVars, drVars, DragDrop!vars
<1> QED BY <1>1, <1>2, PTL DEF DesktopSpec, DragDrop!Spec

LEMMA ShellThreadPart == DesktopSpec => ShellThread!Spec
<1>1. DesktopInit => ShellThread!Init
  BY DEF DesktopInit
<1>2. [DesktopNext]_desktopVars => [ShellThread!Next]_ShellThread!vars
  BY DEF DesktopNext, desktopVars, soVars, ShellThread!vars, ShellThread!thread, ShellThread!stream
<1> QED BY <1>1, <1>2, PTL DEF DesktopSpec, ShellThread!Spec

LEMMA DisksPart == DesktopSpec => Disks!Spec
<1>1. DesktopInit => Disks!Init
  BY DEF DesktopInit
<1>2. [DesktopNext]_desktopVars => [Disks!Next]_Disks!vars
  BY DEF DesktopNext, desktopVars, diVars, Disks!vars
<1> QED BY <1>1, <1>2, PTL DEF DesktopSpec, Disks!Spec

LEMMA ScanPart == DesktopSpec => Scan!Spec
<1>1. DesktopInit => Scan!Init
  BY DEF DesktopInit
<1>2. [DesktopNext]_desktopVars => [Scan!Next]_Scan!vars
  BY DEF DesktopNext, desktopVars, seVars, Scan!vars
<1> QED BY <1>1, <1>2, PTL DEF DesktopSpec, Scan!Spec

LEMMA ArchivePart == DesktopSpec => Archive!Spec
<1>1. DesktopInit => Archive!Init
  BY DEF DesktopInit
<1>2. [DesktopNext]_desktopVars => [Archive!Next]_Archive!vars
  BY DEF DesktopNext, desktopVars, arVars, Archive!vars
<1> QED BY <1>1, <1>2, PTL DEF DesktopSpec, Archive!Spec

LEMMA ContentPart == DesktopSpec => Content!Spec
<1>1. DesktopInit => Content!Init
  BY DEF DesktopInit
<1>2. [DesktopNext]_desktopVars => [Content!Next]_Content!vars
  BY DEF DesktopNext, desktopVars, ccVars, Content!vars
<1> QED BY <1>1, <1>2, PTL DEF DesktopSpec, Content!Spec

(* A staging that fails leaves no files unless its publication was rejected, *)
(* a selection is pasted only by a read that found it, a drag is dropped on  *)
(* the page at most once and on Windows not on another program too, promises *)
(* are whole or absent, and a stream is where its client is, except from a   *)
(* failed read or skip to the next opening; for any number of copies, pastes,*)
(* drags, drops, files and calls, and any sizes (shell_integration:          *)
(* clipboard.rs, staging.rs, macos.rs, windows.rs).                          *)
THEOREM ExchangeIsHonest == DesktopSpec => []ExchangeHonest
<1>1. Board!ClipboardAssumption /\ DragDrop!DragAssumption /\ ShellThread!ObjectAssumption
  BY Instances
<1>2. Board!Spec => []Board!TypeOK /\ []Board!FailedLeavesNothing /\ []Board!CutDies
  BY <1>1, BoardTypeCorrect, BoardFailuresLeaveNothing, BoardCutsDie
<1>3. DragDrop!Spec => []DragDrop!TypeOK /\ []DragDrop!DroppedOnce
  BY <1>1, DragDropTypeCorrect, DragDropDropsAreOnce, PTL
<1>4. DragDrop!Spec => []DragDrop!OneTargetOnWindows
  BY <1>1, DragDropDropsAreOnce, PTL
<1>5. DragDrop!Spec => []DragDrop!PromiseWhole /\ []DragDrop!OwnPaths
  BY <1>1, DragDropPromisesAreWhole, DragDropPathsAreOwn
<1>6. ShellThread!Spec => []ShellThread!TypeOK /\ []ShellThread!InStep /\ []ShellThread!RunsOnce
  BY <1>1, ShellThreadTypeCorrect, ShellThreadStreamInStep, ShellThreadJobsRunOnce
<1> QED BY <1>2, <1>3, <1>4, <1>5, <1>6, BoardPart, DragDropPart, ShellThreadPart, PTL
        DEF ExchangeHonest

(* What the panels show of content is so: scans are complete or say that     *)
(* they are not, an archive that is reported is there, a download is started *)
(* once and called stalled only when nothing moves; for any number of walks, *)
(* entries, operations, files and faults (filesystem/search.rs, size.rs,     *)
(* cloud_status.rs, archives.rs, availability.rs, content.rs).               *)
THEOREM ContentIsTrue == DesktopSpec => []ContentTrue
<1>1. Disks!DiskAssumption /\ Scan!ScanAssumption
  BY Instances
<1>2. Archive!ArchiveAssumption /\ Content!CloudAssumption
  BY Instances
<1>3. Disks!Spec => []Disks!TypeOK
  BY <1>1, DisksTypeCorrect
<1>4. Scan!Spec => []Scan!TypeOK /\ []Scan!CompleteOrCancelled
  BY <1>1, ScanTypeCorrect, ScanSearchesAreComplete
<1>5. Scan!Spec => []Scan!SlotsReturned /\ []Scan!StatusFitsRowOnMac
  BY <1>1, ScanSlotsComeBack, ScanStatusesFit
<1>6. Archive!Spec => []Archive!TypeOK /\ []Archive!AnswerIsTrue /\ []Archive!NothingLeft
  BY <1>2, ArchiveTypeCorrect, ArchiveAnswersAreTrue, ArchiveLeavesNothing
<1>7. Content!Spec => []Content!TypeOK /\ []Content!StalledOnlyWhenQuiet
  BY <1>2, ContentTypeCorrect, ContentOnlyQuietStalls
<1>8. Content!Spec => []Content!CoordinatedOnce /\ []Content!HydrationOwned
  BY <1>2, ContentOneCoordinatedRead, ContentHydrationsOwned
<1> QED BY <1>3, <1>4, <1>5, <1>6, <1>7, <1>8, DisksPart, ScanPart, ArchivePart, ContentPart, PTL
        DEF ContentTrue

(* The clipboard is written by a staging and cleared by a paste only after a *)
(* look that found its selection, and never over another one of ours; another*)
(* program that comes in between is overwritten.  An archive replaces        *)
(* nothing, and an eject takes the image of another call only on macOS, when *)
(* its own image lost the device that was read; for any number of copies,    *)
(* operations, calls, images and devices (shell_integration/mod.rs,          *)
(* macos.rs, windows.rs, filesystem/archives.rs, disk_image).                *)
THEOREM OthersAreUntouched == DesktopSpec => OthersUntouched
<1>1. Board!ClipboardAssumption /\ Disks!DiskAssumption
  BY Instances
<1>2. Board!Spec => Board!StagedOverOwnOnly
  BY <1>1, BoardStagedOverOwn
<1>3. Board!Spec => Board!ClearsOwn
  BY <1>1, BoardClearsOwnOnly
<1>4. Archive!Spec => Archive!NeverReplaced
  BY ArchiveTargetStays
<1>5. Disks!Spec => Disks!EjectsOwn
  BY <1>1, DisksEjectsOwnOnly
<1> QED BY <1>2, <1>3, <1>4, <1>5, BoardPart, ArchivePart, DisksPart, PTL DEF OthersUntouched

-----------------------------------------------------------------------------
(* The helper of file operations (OperationHelper), for both kinds of        *)
(* operation: the registry keeps every cancellation, a success is the        *)
(* success of a helper that ended, and nothing happens after the answer.     *)
(* A cancellation that was delivered before the registration, and did not  *)
(* expire, is waiting in the registry; the one that comes after it finds   *)
(* the job.                                                                *)
EarlyOK ==
  pc \in {"none", "sent"} /\ cancel = "done" /\ ~forgotten => early

(* What the helper has reported when it is gone, and when it is there.     *)
ExitOK ==
  /\ exit = "success" => helper = "gone" /\ result \in {"ok", "error"}
  /\ pc = "collect" => exit = "success"
  /\ answer = "ok" => result = "ok" /\ exit = "success"

(* An answer is given when there is no helper, or none that can go on.     *)
AnswerOK ==
  /\ pc \in {"none", "sent", "queued"} => helper = "none"
  /\ pc \in {"none", "sent", "queued", "watch", "grace", "kill", "collect"}
        => answer = "none"
  /\ answer # "none" => helper \in {"none", "gone"} \/ signal
  /\ pc \in {"finish", "answered"} => answer # "none"

IInv == TypeOK /\ EarlyOK /\ CancelKept /\ ExitOK /\ AnswerOK

-----------------------------------------------------------------------------
LEMMA InitIInv == Init => IInv
BY DEF Init, IInv, TypeOK, EarlyOK, CancelKept, ExitOK, AnswerOK

LEMMA WindowStep == IInv /\ UiStep => IInv'
<1>1. IInv /\ UiRequests => IInv'
  BY DEF IInv, TypeOK, EarlyOK, CancelKept, ExitOK, AnswerOK, UiRequests,
         registry, parent, worker
<1>2. IInv /\ UiInvokes => IInv'
  BY DEF IInv, TypeOK, EarlyOK, CancelKept, ExitOK, AnswerOK, UiInvokes,
         registry, worker
<1>3. IInv /\ UiStops => IInv'
  BY DEF IInv, TypeOK, EarlyOK, CancelKept, ExitOK, AnswerOK, UiStops,
         registry, parent, worker
<1>4. IInv /\ UiAnswered => IInv'
  BY DEF IInv, TypeOK, EarlyOK, CancelKept, ExitOK, AnswerOK, UiAnswered,
         registry, parent, worker
<1>5. IInv /\ UiGone => IInv'
  BY DEF IInv, TypeOK, EarlyOK, CancelKept, ExitOK, AnswerOK, UiGone,
         registry, parent, worker
<1> QED BY <1>1, <1>2, <1>3, <1>4, <1>5 DEF UiStep

LEMMA RegistryStep ==
  IInv /\ (Register \/ Cancel \/ Forget \/ Shutdown) => IInv'
<1>1. ASSUME IInv, Register PROVE IInv'
  <2>1. TypeOK'
    <3>1. active' /\ active' \in BOOLEAN /\ early' \in BOOLEAN
          /\ flag' \in BOOLEAN
      BY Zenon, <1>1 DEF IInv, TypeOK, Register, RegisterWith
    <3> QED BY <1>1, <3>1 DEF IInv, TypeOK, Register, RegisterWith, worker
  <2>2. CancelKept'
    BY <1>1 DEF IInv, TypeOK, EarlyOK, CancelKept, Register, RegisterWith,
                worker
  <2>3. EarlyOK' /\ ExitOK' /\ AnswerOK'
    BY <1>1 DEF IInv, TypeOK, EarlyOK, ExitOK, AnswerOK, Register,
                RegisterWith, worker
  <2> QED BY <2>1, <2>2, <2>3 DEF IInv
<1>2. ASSUME IInv, Cancel PROVE IInv'
  <2>1. early' \in BOOLEAN /\ flag' \in BOOLEAN
    BY Zenon, <1>2 DEF IInv, TypeOK, Cancel
  <2>2. TypeOK'
    BY <1>2, <2>1 DEF IInv, TypeOK, Cancel, parent, worker
  <2>3. CancelKept'
    BY <1>2 DEF IInv, TypeOK, EarlyOK, CancelKept, Cancel, parent, worker
  <2>4. EarlyOK' /\ ExitOK' /\ AnswerOK'
    BY <1>2 DEF IInv, TypeOK, EarlyOK, ExitOK, AnswerOK, Cancel, parent,
                worker
  <2> QED BY <2>2, <2>3, <2>4 DEF IInv
<1>3. ASSUME IInv, Forget PROVE IInv'
  <2>1. early' \in BOOLEAN /\ forgotten' \in BOOLEAN
    BY Zenon, <1>3 DEF Forget
  <2>2. TypeOK'
    BY <1>3, <2>1 DEF IInv, TypeOK, Forget, parent, worker
  <2>3. forgotten' /\ (active <=> active') /\ (closed <=> closed')
        /\ (flag <=> flag')
    BY Zenon, <1>3 DEF Forget
  <2>4. CancelKept'
    BY Zenon, <1>3, <2>3 DEF IInv, CancelKept
  <2>5. EarlyOK' /\ ExitOK' /\ AnswerOK'
    BY <1>3 DEF IInv, TypeOK, EarlyOK, ExitOK, AnswerOK, Forget, parent,
                worker
  <2> QED BY <2>2, <2>4, <2>5 DEF IInv
<1>4. IInv /\ Shutdown => IInv'
  BY DEF IInv, TypeOK, EarlyOK, CancelKept, ExitOK, AnswerOK, Shutdown,
         parent, worker
<1> QED BY <1>1, <1>2, <1>3, <1>4

LEMMA SupervisorStep ==
  IInv /\ (ParentStep \/ WatchStops \/ WriteFrame \/ DeadlinePasses \/ Crash)
    => IInv'
<1> USE DEF IInv, TypeOK, EarlyOK, CancelKept, ExitOK, AnswerOK, registry,
            worker
<1>1. IInv /\ Refused => IInv'
  BY DEF Refused, Returns
<1>2. IInv /\ Spawn => IInv'
  BY DEF Spawn
<1>3. IInv /\ WatchSeesExit => IInv'
  BY DEF WatchSeesExit, Returns
<1>4. IInv /\ GraceEnds => IInv'
  BY DEF GraceEnds
<1>5. IInv /\ Kill => IInv'
  BY DEF Kill, Returns
<1>6. IInv /\ Collect => IInv'
  BY DEF Collect, Returns
<1>7. ASSUME IInv, Finish PROVE IInv'
  <2>1. early' \in BOOLEAN /\ active' \in BOOLEAN /\ ~active'
    BY Zenon, <1>7 DEF Finish
  <2> QED BY <1>7, <2>1 DEF Finish
<1>8. IInv /\ WatchStops => IInv'
  BY DEF WatchStops, WatchStopsWhen
<1>9. IInv /\ WriteFrame => IInv'
  BY DEF WriteFrame
<1>10. IInv /\ DeadlinePasses => IInv'
  BY DEF DeadlinePasses
<1>11. IInv /\ Crash => IInv'
  BY DEF Crash
<1> QED
  BY <1>1, <1>2, <1>3, <1>4, <1>5, <1>6, <1>7, <1>8, <1>9, <1>10, <1>11
  DEF ParentStep

LEMMA WorkerStep ==
  IInv /\ (HelperStep \/ Work \/ Hang \/ SeeByte \/ HelperCrashes) => IInv'
<1> USE DEF IInv, TypeOK, EarlyOK, CancelKept, ExitOK, AnswerOK, registry,
            parent
<1>1. IInv /\ ReadFrame => IInv'
  BY DEF ReadFrame
<1>2. IInv /\ FrameMissing => IInv'
  BY DEF FrameMissing, Reported
<1>3. IInv /\ SeeEof => IInv'
  BY DEF SeeEof, Dies
<1>4. IInv /\ Killed => IInv'
  BY DEF Killed, Dies
<1>5. IInv /\ Work => IInv'
  BY DEF Work, Reported
<1>6. IInv /\ Hang => IInv'
  BY DEF Hang
<1>7. IInv /\ SeeByte => IInv'
  BY DEF SeeByte, worker
<1>8. IInv /\ HelperCrashes => IInv'
  BY DEF HelperCrashes, Dies
<1> QED BY <1>1, <1>2, <1>3, <1>4, <1>5, <1>6, <1>7, <1>8 DEF HelperStep

LEMMA Unchanged == IInv /\ UNCHANGED vars => IInv'
BY DEF IInv, TypeOK, EarlyOK, CancelKept, ExitOK, AnswerOK, vars, registry,
       parent, worker

LEMMA NextIInv == IInv /\ [Next]_vars => IInv'
BY WindowStep, RegistryStep, SupervisorStep, WorkerStep, Unchanged
DEF Next, Done

LEMMA Invariance == Spec => []IInv
BY InitIInv, NextIInv, PTL DEF Spec

-----------------------------------------------------------------------------
(* Type correctness, and the registry has a job exactly while its command  *)
(* runs.                                                                   *)
THEOREM TypeCorrect == Spec => []TypeOK
<1>1. IInv => TypeOK
  BY DEF IInv
<1> QED BY Invariance, <1>1, PTL

(* No cancellation and no shutdown is lost, whichever of it and of the     *)
(* registration comes first (register, cancel, finish, shutdown).          *)
THEOREM CancelCorrect == Spec => []CancelKept
<1>1. IInv => CancelKept
  BY DEF IInv
<1> QED BY Invariance, <1>1, PTL

(* A success of the window is the success of the operation                 *)
(* (execute_with_progress).                                                *)
THEOREM SuccessCorrect == Spec => []TrueSuccess
<1>1. IInv => TrueSuccess
  BY DEF IInv, ExitOK, TrueSuccess
<1> QED BY Invariance, <1>1, PTL

(* One step of any actor, after the answer.                                *)
LEMMA NoLateStep ==
  ASSUME IInv, [Next]_vars, answer # "none"
  PROVE  /\ result' = result
         /\ helper' = "working" => helper = "working"
<1>1. CASE UiStep
  BY <1>1 DEF UiStep, UiRequests, UiInvokes, UiStops, UiAnswered, UiGone,
              worker
<1>2. CASE Register \/ Cancel \/ Forget \/ Shutdown
  BY <1>2 DEF Register, RegisterWith, Cancel, Forget, Shutdown, worker
<1>3. CASE Spawn
  BY <1>3 DEF Spawn, IInv, AnswerOK
<1>4. CASE (ParentStep /\ ~Spawn) \/ WatchStops \/ WriteFrame
              \/ DeadlinePasses \/ Crash
  BY <1>4 DEF ParentStep, Refused, WatchSeesExit, GraceEnds, Kill, Collect,
              Finish, WatchStops, WatchStopsWhen, WriteFrame, DeadlinePasses,
              Crash, worker
<1>5. CASE ReadFrame \/ FrameMissing \/ Work
  BY <1>5 DEF ReadFrame, FrameMissing, Work, IInv, AnswerOK
<1>6. CASE SeeEof \/ Killed \/ HelperCrashes \/ Hang \/ SeeByte
  BY <1>6 DEF SeeEof, Killed, HelperCrashes, Dies, Hang, SeeByte, worker
<1>7. CASE UNCHANGED vars
  BY <1>7 DEF vars, worker
<1> QED
  BY <1>1, <1>2, <1>3, <1>4, <1>5, <1>6, <1>7
  DEF Next, HelperStep, ParentStep, Done

(* After the answer, whatever it is, the operation neither begins nor      *)
(* completes anything (execute_with_progress).                             *)
THEOREM NoLateWorkCorrect == Spec => NoLateWork
<1>1. IInv /\ [Next]_vars =>
        [answer # "none" =>
           /\ result' = result
           /\ helper' = "working" => helper = "working"]_vars
  BY NoLateStep
<1> QED BY Invariance, <1>1, PTL DEF Spec, NoLateWork
=============================================================================
