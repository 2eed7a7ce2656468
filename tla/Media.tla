------------------------------- MODULE Media --------------------------------
(***************************************************************************)
(* The player, its history and its views, the thumbnails and the server of *)
(* media. A behaviour runs one part: one component, while the others stand *)
(* still, and "part" says which one runs. The parts share nothing in the   *)
(* program but the process they run in; they are put together so that one  *)
(* run answers for all of them. Fairness is the one that the module of the *)
(* part states.                                                            *)
(***************************************************************************)
EXTENDS Naturals

CONSTANTS
  None,  \* of all parts
  psCallers, psSessions, psVideos, psAutoplays, psBackends, psMaxOpens,
  psBounds,
  pcLast, pcLevels, pcMaxRequests, pcMaxOpens, pcBounds, pcKinds,
  vwKinds, vwCallers, vwCommands, vwBounds, vwMaxFaults, vwExits,
  thRequests, thOwners, thFiles, thMaxSources, thMemory,
  rgFetches, rgStreams, rgMaxSize, rgChunk, rgMaxChanges, rgMaxReads,
  rgMixes

VARIABLES
  part,  \* the part that runs
  psMade, psOpening, psRunning, psCancelled, psAudibility, psPlayer, psPc,
  psCall, psLate, psCalls,
  pcCtl, pcMpv, pcQueue, pcAnswer, pcJobs, pcRow, pcVersion, pcCount,
  pcGhost,
  vwKind, vwMain, vwSurface, vwLife, vwMpv, vwRender, vwCall, vwCover,
  vwCount,
  thWorker, thActive, thFlags, thCancelled, thOwner, thChild, thSources,
  thBinary, thReq, thSession, thDoomed,
  rgSize, rgChanges, rgFetch, rgRegistry, rgStream

\* The commands of all panels on their players.
Players == INSTANCE PlayerSessions WITH
  Callers <- psCallers, Sessions <- psSessions, Videos <- psVideos,
  Autoplays <- psAutoplays, Backends <- psBackends, MaxOpens <- psMaxOpens,
  Bounds <- psBounds, made <- psMade, opening <- psOpening, running <- psRunning,
  cancelled <- psCancelled, audibility <- psAudibility, player <- psPlayer,
  pc <- psPc, call <- psCall, late <- psLate, calls <- psCalls
psVars == <<psMade, psOpening, psRunning, psCancelled, psAudibility, psPlayer, psPc,
  psCall, psLate, psCalls>>

\* The control thread of one player, and the history of its file.
Control == INSTANCE PlayerControl WITH
  Last <- pcLast, Levels <- pcLevels, MaxRequests <- pcMaxRequests,
  MaxOpens <- pcMaxOpens, Bounds <- pcBounds, Kinds <- pcKinds, ctl <- pcCtl,
  mpv <- pcMpv, queue <- pcQueue, answer <- pcAnswer, jobs <- pcJobs,
  row <- pcRow, version <- pcVersion, count <- pcCount, ghost <- pcGhost
pcVars == <<pcCtl, pcMpv, pcQueue, pcAnswer, pcJobs, pcRow, pcVersion, pcCount,
  pcGhost>>

\* The views of one player, and the cover.
Views == INSTANCE Presentation WITH
  Kinds <- vwKinds, Callers <- vwCallers, Commands <- vwCommands,
  Bounds <- vwBounds, MaxFaults <- vwMaxFaults, Exits <- vwExits, kind <- vwKind,
  main <- vwMain, surface <- vwSurface, life <- vwLife, mpv <- vwMpv,
  render <- vwRender, call <- vwCall, cover <- vwCover, count <- vwCount
vwVars == <<vwKind, vwMain, vwSurface, vwLife, vwMpv, vwRender, vwCall, vwCover,
  vwCount>>

\* The worker that makes thumbnails, and its decoder.
Thumbs == INSTANCE Thumbnails WITH
  Requests <- thRequests, Owners <- thOwners, Files <- thFiles,
  MaxSources <- thMaxSources, Memory <- thMemory, worker <- thWorker,
  active <- thActive, flags <- thFlags, cancelled <- thCancelled,
  owner <- thOwner, child <- thChild, sources <- thSources, binary <- thBinary,
  req <- thReq, session <- thSession, doomed <- thDoomed
thVars == <<thWorker, thActive, thFlags, thCancelled, thOwner, thChild, thSources,
  thBinary, thReq, thSession, thDoomed>>

\* Ranges and streams of one file.
Server == INSTANCE MediaServer WITH
  Fetches <- rgFetches, Streams <- rgStreams, MaxSize <- rgMaxSize,
  Chunk <- rgChunk, MaxChanges <- rgMaxChanges, MaxReads <- rgMaxReads,
  Mixes <- rgMixes, size <- rgSize, changes <- rgChanges, fetch <- rgFetch,
  registry <- rgRegistry, stream <- rgStream
rgVars == <<rgSize, rgChanges, rgFetch, rgRegistry, rgStream>>

ASSUME Instances ==
  /\ Players!PlayerAssumption
  /\ Control!ControlAssumption
  /\ Views!PresentationAssumption
  /\ Thumbs!ThumbnailAssumption
  /\ Server!ServerAssumption

vars == <<part, psVars, pcVars, vwVars, thVars, rgVars>>

Init ==
  /\ part \in {"sessions", "control", "views", "thumbnails", "server"}
  /\ Players!Init
  /\ Control!Init
  /\ Views!Init
  /\ part # "views" =>
       vwKind = CHOOSE k \in vwKinds : TRUE
  /\ Thumbs!Init
  /\ part # "thumbnails" =>
       \A r \in thRequests : thReq[r].file = CHOOSE f \in thFiles : TRUE
  /\ Server!Init
  /\ part # "server" =>
       /\ rgSize = 0
       /\ \A f \in rgFetches : rgFetch[f].via = "protocol"

Next ==
  \/ part = "sessions" /\ Players!Next
     /\ UNCHANGED <<part, pcVars, vwVars, thVars, rgVars>>
  \/ part = "control" /\ Control!Next
     /\ UNCHANGED <<part, psVars, vwVars, thVars, rgVars>>
  \/ part = "views" /\ Views!Next
     /\ UNCHANGED <<part, psVars, pcVars, thVars, rgVars>>
  \/ part = "thumbnails" /\ Thumbs!Next
     /\ UNCHANGED <<part, psVars, pcVars, vwVars, rgVars>>
  \/ part = "server" /\ Server!Next
     /\ UNCHANGED <<part, psVars, pcVars, vwVars, thVars>>

Spec ==
  /\ Init /\ [][Next]_vars
  /\ \A c \in psCallers : WF_psVars(part = "sessions" /\ Players!CallStep(c))
  /\ \A a \in 1..psMaxOpens : WF_psVars(part = "sessions" /\ Players!ControlStep(a))
  /\ \A a \in 1..psMaxOpens : WF_psVars(part = "sessions" /\ Players!FinishLoad(a))
  /\ WF_pcVars(part = "control" /\ Control!Handle)
  /\ WF_pcVars(part = "control" /\ Control!AwaitSeek)
  /\ WF_pcVars(part = "control" /\ Control!TrackEnds)
  /\ WF_pcVars(part = "control" /\ Control!Restored)
  /\ WF_pcVars(part = "control" /\ Control!Worker)
  /\ WF_pcVars(part = "control" /\ Control!FileLoaded)
  /\ WF_pcVars(part = "control" /\ (Control!Started \/ Control!NotStarted))
  /\ WF_vwVars(part = "views" /\ Views!Starts)
  /\ WF_vwVars(part = "views" /\ (Views!Started \/ Views!NotStarted))
  /\ WF_vwVars(part = "views" /\ Views!CloseHidden)
  /\ WF_vwVars(part = "views" /\ Views!StopRenderer)
  /\ WF_vwVars(part = "views" /\ Views!Destroy)
  /\ WF_vwVars(part = "views" /\ Views!Release)
  /\ WF_vwVars(part = "views" /\ Views!MakeContext)
  /\ WF_vwVars(part = "views" /\ Views!Swap)
  /\ WF_vwVars(part = "views" /\ Views!FreeContext)
  /\ SF_vwVars(part = "views" /\ Views!MainRuns)
  /\ \A c \in vwCallers : WF_vwVars(part = "views" /\ Views!Posts(c))
  /\ \A c \in vwCallers : WF_vwVars(part = "views" /\ Views!Returns(c))
  /\ \A r \in thRequests : WF_thVars(part = "thumbnails" /\ Thumbs!Step(r))
  /\ \A o \in thOwners : WF_thVars(part = "thumbnails" /\ Thumbs!ClearSources(o))

-----------------------------------------------------------------------------
(***************************************************************************)
(* Of the players of all panels one is heard, a command meets the player of *)
(* its own session, and a session that was closed stays closed, however its *)
(* opening and its calls overlap the close.                                 *)
(***************************************************************************)
PlayersBehave ==
  /\ Players!TypeOK
  /\ Players!OneHeard /\ Players!OwnPlayerOnly /\ Players!ClosedForGood /\ Players!CloseReaches

(***************************************************************************)
(* A pause holds against what the player does by itself, a seek gives the   *)
(* volume back that the user chose, and the position at which a session     *)
(* ends is the one at which the next one resumes, unless a write failed, a  *)
(* pause came while a load with its resume was under way, or the file was   *)
(* replaced.                                                                *)
(***************************************************************************)
PlaybackKept ==
  /\ Control!TypeOK
  /\ Control!PauseWins /\ Control!VolumeRestored /\ Control!HistoryKept /\ Control!ResumesThere

(***************************************************************************)
(* The native views of a player live as long as a task uses them.  However  *)
(* many waits end early, the render context is freed before its handle is   *)
(* destroyed, but for a thread whose frame failed, which leaves it behind.  *)
(* On macOS the cover is as the last command wants it, once the main thread *)
(* has done the tasks of those that gave up.                                *)
(***************************************************************************)
ViewsInOrder ==
  /\ Views!TypeOK
  /\ Views!LiveViews /\ Views!TornDownInOrder /\ Views!CoverFollowsLast

(***************************************************************************)
(* What a media element is given is what it asked for: the bytes of its     *)
(* range without a gap, none of a stream that was cancelled, and no         *)
(* thumbnail of a request that was cancelled or by a second decoder.        *)
(***************************************************************************)
MediaTrue ==
  /\ Thumbs!TypeOK /\ Server!TypeOK
  /\ Thumbs!CancelledYieldsNothing /\ Thumbs!OneDecoder
  /\ Server!RangeIsWanted /\ Server!PiecesTile /\ Server!QuietAfterCancel

(***************************************************************************)
(* Every command of a player, every request of a session and of a thumbnail *)
(* is answered; the end of a session reaps the decoder of its thumbnails,   *)
(* and the views go with their session and, once retired, are not shown.    *)
(***************************************************************************)
MediaAnswers ==
  /\ Players!CommandsReturn /\ Control!Answered
  /\ Thumbs!RequestsAnswered /\ Thumbs!EndReaps
  /\ Views!ViewsGo /\ Views!CommandsReturn /\ Views!RetiredStaysHidden
=============================================================================
