------------------------------ MODULE Desktop -------------------------------
(***************************************************************************)
(* What the panels exchange with the desktop and show of their content:     *)
(* clipboard, drags, shell objects, disk images, scans, archives and files  *)
(* in the cloud. A behaviour runs one part: one component, while the others *)
(* stand still, and "part" says which one runs. The parts share nothing in  *)
(* the program but the process they run in; they are put together so that   *)
(* one run answers for all of them. Fairness is the one that the module of  *)
(* the part states.                                                         *)
(***************************************************************************)
EXTENDS Naturals

CONSTANTS
  None,  \* of all parts
  cbTokens, cbReads, cbPastes, cbItems, cbCuts, cbRemotes, cbMixes, cbSystems,
  cbOther,
  drDrags, drDrops, drKept, drItems, drSystems,
  soCalls, soHangs, soSize, soShort, soMaxFaults,
  diCalls, diImages, diRejected, diDevices, diSystems, diPaths, diMaxOutside,
  seSearches, seSizes, seStatuses, seEntries, seBatchSize, seMaxResults, seSlots,
  seMixes, seSystems,
  arJobs, arMaxFaults,
  ccOps, ccOpenings, ccFiles, ccSystems, ccSizes, ccMixes, ccStall, ccMaxFaults

VARIABLES
  part,  \* the part that runs
  cbMemory, cbBoard, cbCopy, cbCall, cbJob, cbFlags, cbStaging, cbDirs, cbCleaners,
  cbForeign, cbFaults, cbOs,
  drDrag, drActive, drDelegates, drPromise, drDrop, drOs,
  soCall, soQueue, soHolder, soPosted, soRunning, soEntries, soReader, soPosition,
  soServed, soBroken, soFaults,
  diSystem, diAttached, diBuffer, diAt, diOutside,
  seWalk, seFlags, seJobs, sePermits, seDisk, seRow, seBadge, seGeneration, seOs,
  arJob, arWorker, arKnown, arFlags, arTarget, arFaults,
  ccOs, ccFile, ccCoordinator, ccThreads, ccHydration, ccOperations, ccOp, ccFaults

\* Copies, cuts and pastes with the staging of remote files.
Board == INSTANCE Clipboard WITH
  Tokens <- cbTokens, Reads <- cbReads, Pastes <- cbPastes, Items <- cbItems,
  Cuts <- cbCuts, Remotes <- cbRemotes, Mixes <- cbMixes, Systems <- cbSystems,
  Other <- cbOther, memory <- cbMemory, board <- cbBoard, copy <- cbCopy,
  call <- cbCall, job <- cbJob, flags <- cbFlags, staging <- cbStaging,
  dirs <- cbDirs, cleaners <- cbCleaners, foreign <- cbForeign,
  faults <- cbFaults, os <- cbOs
cbVars == <<cbMemory, cbBoard, cbCopy, cbCall, cbJob, cbFlags, cbStaging, cbDirs,
  cbCleaners, cbForeign, cbFaults, cbOs>>

\* Drags out of the window, promised files, and drops onto the page.
DragDrop == INSTANCE Dragging WITH
  Drags <- drDrags, Drops <- drDrops, Kept <- drKept, Items <- drItems,
  Systems <- drSystems, drag <- drDrag, active <- drActive,
  delegates <- drDelegates, promise <- drPromise, drop <- drDrop, os <- drOs
drVars == <<drDrag, drActive, drDelegates, drPromise, drDrop, drOs>>

\* The jobs of the shell thread and the stream of a virtual file.
ShellThread == INSTANCE ShellObjects WITH
  Calls <- soCalls, Hangs <- soHangs, Size <- soSize, Short <- soShort,
  MaxFaults <- soMaxFaults, call <- soCall, queue <- soQueue,
  holder <- soHolder, posted <- soPosted, running <- soRunning,
  entries <- soEntries, reader <- soReader, position <- soPosition,
  served <- soServed, broken <- soBroken, faults <- soFaults
soVars == <<soCall, soQueue, soHolder, soPosted, soRunning, soEntries, soReader,
  soPosition, soServed, soBroken, soFaults>>

\* Calls for disk images, and others who attach and eject them.
Disks == INSTANCE DiskImage WITH
  Calls <- diCalls, Images <- diImages, Rejected <- diRejected,
  Devices <- diDevices, Systems <- diSystems, Paths <- diPaths,
  MaxOutside <- diMaxOutside, system <- diSystem, attached <- diAttached,
  buffer <- diBuffer, at <- diAt, outside <- diOutside
diVars == <<diSystem, diAttached, diBuffer, diAt, diOutside>>

\* Searches, sizes and batches of cloud status.
Scan == INSTANCE Scans WITH
  Searches <- seSearches, Sizes <- seSizes, Statuses <- seStatuses,
  Entries <- seEntries, BatchSize <- seBatchSize, MaxResults <- seMaxResults,
  Slots <- seSlots, Mixes <- seMixes, Systems <- seSystems, walk <- seWalk,
  flags <- seFlags, jobs <- seJobs, permits <- sePermits, disk <- seDisk,
  row <- seRow, badge <- seBadge, generation <- seGeneration, os <- seOs
seVars == <<seWalk, seFlags, seJobs, sePermits, seDisk, seRow, seBadge,
  seGeneration, seOs>>

\* Operations that create or extract archives, with their workers.
Archive == INSTANCE Archives WITH
  Jobs <- arJobs, MaxFaults <- arMaxFaults, job <- arJob, worker <- arWorker,
  known <- arKnown, flags <- arFlags, target <- arTarget, faults <- arFaults
arVars == <<arJob, arWorker, arKnown, arFlags, arTarget, arFaults>>

\* Preparations and openings of files in the cloud.
Content == INSTANCE CloudContent WITH
  Ops <- ccOps, Openings <- ccOpenings, Files <- ccFiles, Systems <- ccSystems,
  Sizes <- ccSizes, Mixes <- ccMixes, Stall <- ccStall,
  MaxFaults <- ccMaxFaults, os <- ccOs, file <- ccFile,
  coordinator <- ccCoordinator, threads <- ccThreads, hydration <- ccHydration,
  operations <- ccOperations, op <- ccOp, faults <- ccFaults
ccVars == <<ccOs, ccFile, ccCoordinator, ccThreads, ccHydration, ccOperations,
  ccOp, ccFaults>>

ASSUME Instances ==
  /\ Board!ClipboardAssumption
  /\ DragDrop!DragAssumption
  /\ ShellThread!ObjectAssumption
  /\ Disks!DiskAssumption
  /\ Scan!ScanAssumption
  /\ Archive!ArchiveAssumption
  /\ Content!CloudAssumption

desktopVars == <<part, cbVars, drVars, soVars, diVars, seVars, arVars, ccVars>>

DesktopInit ==
  /\ part \in {"clipboard", "dragging", "objects", "images", "scans", "archives",
               "content"}
  /\ Board!Init
  /\ part # "clipboard" => cbOs = CHOOSE s \in cbSystems : TRUE
  /\ DragDrop!Init
  /\ part # "dragging" => drOs = CHOOSE s \in drSystems : TRUE
  /\ ShellThread!Init
  /\ Disks!Init
  /\ part # "images" =>
       /\ diSystem = CHOOSE s \in diSystems : TRUE
       /\ diAttached = [i \in diImages |-> None]
  /\ Scan!Init
  /\ part # "scans" => seOs = CHOOSE s \in seSystems : TRUE
  /\ Archive!Init
  /\ Content!Init
  /\ part # "content" =>
       /\ ccOs = CHOOSE s \in ccSystems : TRUE
       /\ \A f \in ccFiles :
            /\ ccFile[f].size = CHOOSE n \in ccSizes : TRUE
            /\ ccFile[f].bytes = 0 /\ ~ccFile[f].ubiquitous

DesktopNext ==
  \/ part = "clipboard" /\ Board!Next
     /\ UNCHANGED <<part, drVars, soVars, diVars, seVars, arVars, ccVars>>
  \/ part = "dragging" /\ DragDrop!Next
     /\ UNCHANGED <<part, cbVars, soVars, diVars, seVars, arVars, ccVars>>
  \/ part = "objects" /\ ShellThread!Next
     /\ UNCHANGED <<part, cbVars, drVars, diVars, seVars, arVars, ccVars>>
  \/ part = "images" /\ Disks!Next
     /\ UNCHANGED <<part, cbVars, drVars, soVars, seVars, arVars, ccVars>>
  \/ part = "scans" /\ Scan!Next
     /\ UNCHANGED <<part, cbVars, drVars, soVars, diVars, arVars, ccVars>>
  \/ part = "archives" /\ Archive!Next
     /\ UNCHANGED <<part, cbVars, drVars, soVars, diVars, seVars, ccVars>>
  \/ part = "content" /\ Content!Next
     /\ UNCHANGED <<part, cbVars, drVars, soVars, diVars, seVars, arVars>>

DesktopSpec ==
  /\ DesktopInit /\ [][DesktopNext]_desktopVars
  /\ \A t \in cbTokens : WF_cbVars(part = "clipboard" /\ Board!StagingStep(t))
  /\ \A t \in cbTokens : WF_cbVars(part = "clipboard" /\ Board!StartStaging(t))
  /\ \A c \in cbPastes : WF_cbVars(part = "clipboard" /\ Board!Clear(c))
  /\ \A d \in drDrags : WF_drVars(part = "dragging" /\ DragDrop!SessionStep(d))
  /\ \A d \in drDrags : WF_drVars(part = "dragging" /\ DragDrop!PromiseStep(d))
  /\ \A d \in drDrops : WF_drVars(part = "dragging" /\ DragDrop!DropStep(d))
  /\ WF_soVars(part = "objects" /\ ShellThread!ThreadStep)
  /\ \A c \in soCalls : WF_soVars(part = "objects" /\ ShellThread!Push(c))
  /\ \A c \in soCalls : WF_soVars(part = "objects" /\ ShellThread!PostMessage(c))
  /\ \A c \in soCalls : WF_soVars(part = "objects" /\ ShellThread!TimesOut(c))
  /\ \A c \in diCalls : WF_diVars(part = "images" /\ Disks!Killed(c))
  /\ \A c \in diCalls :
       WF_diVars(part = "images" /\ (Disks!Mounts(c) \/ Disks!Read(c) \/ Disks!Answered(c)))
  /\ \A w \in Scan!Walks : WF_seVars(part = "scans" /\ Scan!Step(w))
  /\ \A w \in Scan!Walks : WF_seVars(part = "scans" /\ Scan!Acquire(w))
  /\ \A j \in arJobs : WF_arVars(part = "archives" /\ Archive!Spawn(j))
  /\ \A j \in arJobs : WF_arVars(part = "archives" /\ Archive!WorkerActs(j))
  /\ \A j \in arJobs : WF_arVars(part = "archives" /\ Archive!Kill(j))
  /\ \A j \in arJobs : WF_arVars(part = "archives" /\ Archive!Perform(j))
  /\ \A o \in ccOps : WF_ccVars(part = "content" /\ Content!Step(o))
  /\ \A o \in ccOps : SF_ccVars(part = "content" /\ Content!Tick(o))
  /\ \A o \in ccOps : WF_ccVars(part = "content" /\ Content!HydrationEnds(o))
  /\ \A f \in ccFiles : WF_ccVars(part = "content" /\ Content!Transfer(f))
  /\ \A f \in ccFiles : WF_ccVars(part = "content" /\ Content!CoordinatorEnds(f))

-----------------------------------------------------------------------------
(***************************************************************************)
(* What is handed to other programs and taken from them is whole: a staging *)
(* that fails, is stopped or comes too late leaves no files, unless the     *)
(* system rejected its publication; a selection is pasted only by a read    *)
(* that found it on the clipboard; a drag is dropped on the page at most    *)
(* once and, on Windows, only when no other program took it; a promised     *)
(* file is whole or absent, and a drop gets its own paths; and the stream   *)
(* of a virtual file returns the bytes of the place the client is at, until *)
(* a read or a skip fails and again from the next opening on.               *)
(***************************************************************************)
ExchangeHonest ==
  /\ Board!TypeOK /\ DragDrop!TypeOK /\ ShellThread!TypeOK
  /\ Board!FailedLeavesNothing /\ Board!CutDies
  /\ DragDrop!DroppedOnce /\ DragDrop!OneTargetOnWindows
  /\ DragDrop!PromiseWhole /\ DragDrop!OwnPaths
  /\ ShellThread!InStep /\ ShellThread!RunsOnce

(***************************************************************************)
(* What the panels are told about content is true: a scan is complete or    *)
(* says that it is not, gives back its slot, and on macOS a status meets    *)
(* the entry it was read for; an archive that is reported is there and nothing else   *)
(* is left; a download is started once, ends with its owner and is called   *)
(* stalled only when nothing moves.                                         *)
(***************************************************************************)
ContentTrue ==
  /\ Disks!TypeOK /\ Scan!TypeOK /\ Archive!TypeOK /\ Content!TypeOK
  /\ Scan!CompleteOrCancelled /\ Scan!SlotsReturned /\ Scan!StatusFitsRowOnMac
  /\ Archive!AnswerIsTrue /\ Archive!NothingLeft
  /\ Content!StalledOnlyWhenQuiet /\ Content!CoordinatedOnce /\ Content!HydrationOwned

(***************************************************************************)
(* Nothing of somebody else is touched knowingly: staged files go to the    *)
(* clipboard, and a paste clears it, only after a look that found the       *)
(* selection in question there, and never over another selection of ours;   *)
(* another program that takes the clipboard between the look and the write  *)
(* is overwritten.  An archive replaces nothing.  An eject takes the image  *)
(* it was asked for: on Windows always, on macOS unless somebody ejected    *)
(* that image after its device was read.                                    *)
(***************************************************************************)
OthersUntouched ==
  /\ Board!StagedOverOwnOnly /\ Board!ClearsOwn
  /\ Archive!NeverReplaced /\ Disks!EjectsOwn

(***************************************************************************)
(* What was begun ends, each under the fairness its module states: a        *)
(* staging, a drag and a drop, a job of the shell thread and its call, a    *)
(* call for an image, a walk, an archive and a preparation.                 *)
(***************************************************************************)
DesktopEnds ==
  /\ Board!StagingEnds /\ DragDrop!DragsEnd /\ ShellThread!JobsRun
  /\ \A c \in soCalls : []<>(part = "objects" => ShellThread!Returned(c))
  /\ Disks!CallsAnswer /\ Scan!WalksEnd /\ Archive!JobsAnswer /\ Content!PreparationsEnd
=============================================================================
