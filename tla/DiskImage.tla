----------------------------- MODULE DiskImage -----------------------------
(***************************************************************************)
(* Mounting and ejecting disk images: shell_integration/disk_image and the  *)
(* command disk_image_operate of commands/shell.rs.                         *)
(*                                                                         *)
(* Every call runs on a blocking thread of its own.  It asks the system for *)
(* the status of the image and then, in a second process, attaches or       *)
(* ejects it.  Finder, Explorer and other calls attach and eject images in  *)
(* between, and the system gives a free device name to the next image.      *)
(***************************************************************************)
EXTENDS Naturals, FiniteSets

CONSTANTS
    Calls,
    Images,     \* files that validate_image accepts
    Rejected,   \* paths it refuses: remote, relative, another type, gone
    Devices,    \* whole-disk device names
    Systems,    \* "diskutil" (macOS 27), "hdiutil" (before), "windows"
    Paths,      \* [Systems -> images and rejected paths that occur there]
    MaxOutside, \* [Systems -> images attached or ejected by others]
    None

DiskAssumption ==
    /\ IsFiniteSet(Images) /\ IsFiniteSet(Devices)
    /\ Cardinality(Devices) >= Cardinality(Images)  \* a device for every image
    /\ Systems \subseteq {"diskutil", "hdiutil", "windows"} /\ MaxOutside \in [Systems -> Nat]
    /\ Paths \in [Systems -> SUBSET (Images \cup Rejected)] /\ None \notin Devices

VARIABLES
    system,
    attached,   \* [Images -> Devices or None]
    buffer,     \* what libc's buffer of mounts was last filled for: a call
    at,         \* the calls
    outside

vars == <<system, attached, buffer, at, outside>>

Idle == [stage |-> "idle", action |-> None, image |-> None, device |-> None,
         lost |-> FALSE, mixed |-> FALSE]

Init ==
    /\ system \in Systems
    /\ attached \in {f \in [Images -> Devices \cup {None}] :
                        /\ \A i, j \in Images : i # j => f[i] = None \/ f[i] # f[j]
                        /\ \A i \in Images \ Paths[system] : f[i] = None}
    /\ buffer = None
    /\ at = [c \in Calls |-> Idle]
    /\ outside = 0

Free == Devices \ {attached[i] : i \in Images}

\* disk_image_operate and validate_image: a refused path runs no tool.
Operate(c, action, i) ==
    /\ at[c].stage = "idle"
    /\ at' = [at EXCEPT ![c] = IF i \in Rejected
                               THEN [Idle EXCEPT !.stage = "answered"]
                               ELSE [Idle EXCEPT !.stage = "status", !.action = action, !.image = i]]
    /\ UNCHANGED <<system, attached, buffer, outside>>

\* What follows the status: the answer, or the second tool.
Follows(c, device) ==
    CASE at[c].action = "status" -> "answered"
      [] at[c].action = "mount" -> IF device = None THEN "attach" ELSE "answered"
      [] at[c].action = "unmount" -> IF device = None THEN "answered" ELSE "eject"

\* ioreg, hdiutil info or Get-DiskImage.  With diskutil an attached image's
\* mount points are then read from the list of mounts.
Status(c) ==
    /\ at[c].stage = "status"
    /\ LET d == attached[at[c].image]
       IN  at' = [at EXCEPT ![c].device = d,
                     ![c].stage = IF system = "diskutil" /\ d # None THEN "mounts"
                                  ELSE Follows(c, d)]
    /\ UNCHANGED <<system, attached, buffer, outside>>

\* getmntinfo fills the one buffer that libc owns ...
Mounts(c) ==
    /\ at[c].stage = "mounts"
    /\ buffer' = c
    /\ at' = [at EXCEPT ![c].stage = "read"]
    /\ UNCHANGED <<system, attached, outside>>

\* ... and the call reads it: freed or refilled when another call came between.
Read(c) ==
    /\ at[c].stage = "read"
    /\ at' = [at EXCEPT ![c].mixed = (buffer # c), ![c].stage = Follows(c, at[c].device)]
    /\ UNCHANGED <<system, attached, buffer, outside>>

\* The calls that have a device which is about to be taken from their image.
Loses(i) == [c \in Calls |-> [at[c] EXCEPT !.lost = @ \/ (at[c].image = i /\ at[c].device # None)]]

\* diskutil image attach, hdiutil attach or Mount-DiskImage: an image that
\* somebody attached since the status keeps its device.
Attach(c) ==
    /\ at[c].stage = "attach"
    /\ IF attached[at[c].image] # None THEN UNCHANGED attached
       ELSE \E d \in Free : attached' = [attached EXCEPT ![at[c].image] = d]
    /\ at' = [at EXCEPT ![c].stage = "exit"]
    /\ UNCHANGED <<system, buffer, outside>>

\* mutant: Windows is told the device that the status found
EjectedByDevice(c) == {i \in Images : attached[i] = at[c].device}

\* macOS ejects a device, Windows dismounts a path.
Ejected(c) ==
    IF system = "windows" THEN {at[c].image} ELSE {i \in Images : attached[i] = at[c].device}

\* diskutil eject, hdiutil detach or Dismount-DiskImage.
Eject(c) ==
    /\ at[c].stage = "eject"
    /\ LET gone == {i \in Ejected(c) : attached[i] # None}
       IN  /\ attached' = [i \in Images |-> IF i \in gone THEN None ELSE attached[i]]
           /\ at' = [x \in Calls |->
                       IF x = c THEN [at[c] EXCEPT !.stage = "exit"]
                       ELSE [at[x] EXCEPT !.lost = @ \/ (at[x].image \in gone /\ at[x].device # None)]]
    /\ UNCHANGED <<system, buffer, outside>>

\* mutant: the deadline covers the status only
RunningStatus == {"status"}

\* The process ends and its output is read; or it fails, before or after it
\* had its effect; or it hangs, and is killed at the deadline.
Running == {"status", "attach", "eject", "exit"}

Exits(c) ==
    /\ at[c].stage = "exit"
    /\ at' = [at EXCEPT ![c].stage = "answered"]
    /\ UNCHANGED <<system, attached, buffer, outside>>

Killed(c) ==
    /\ at[c].stage \in Running
    /\ at' = [at EXCEPT ![c].stage = "answered"]
    /\ UNCHANGED <<system, attached, buffer, outside>>

\* The answer reaches the window; the thread takes another call.
Answered(c) ==
    /\ at[c].stage = "answered"
    /\ at' = [at EXCEPT ![c] = Idle]
    /\ UNCHANGED <<system, attached, buffer, outside>>

\* Finder or Explorer.
Outside(i) ==
    /\ outside < MaxOutside[system] /\ i \in Paths[system]
    /\ outside' = outside + 1
    /\ \/ /\ attached[i] = None
          /\ \E d \in Free : attached' = [attached EXCEPT ![i] = d]
          /\ UNCHANGED at
       \/ /\ attached[i] # None
          /\ attached' = [attached EXCEPT ![i] = None]
          /\ at' = Loses(i)
    /\ UNCHANGED <<system, buffer>>

Next ==
    \/ \E c \in Calls : \/ \E action \in {"status", "mount", "unmount"}, i \in Paths[system] :
                              Operate(c, action, i)
                        \/ Status(c) \/ Mounts(c) \/ Read(c) \/ Attach(c) \/ Eject(c)
                        \/ Exits(c) \/ Killed(c) \/ Answered(c)
    \/ \E i \in Images : Outside(i)

Spec == Init /\ [][Next]_vars

\* The deadline and the program's own steps; a tool owes nothing.
Fairness == \A c \in Calls : WF_vars(Killed(c)) /\ WF_vars(Mounts(c) \/ Read(c) \/ Answered(c))

-----------------------------------------------------------------------------
TypeOK ==
    /\ system \in Systems
    /\ attached \in [Images -> Devices \cup {None}]
    /\ buffer \in Calls \cup {None}
    /\ \A c \in Calls : /\ at[c].stage \in Running \cup {"idle", "mounts", "read", "answered"}
                        /\ at[c].device \in Devices \cup {None}

(***************************************************************************)
(* An image is ejected by a call for that image and by no other one.  On    *)
(* macOS that needs the image to keep its device from the status on: eject  *)
(* names the device, which may have gone to another image meanwhile.  On    *)
(* Windows it holds without a condition.                                    *)
(***************************************************************************)
EjectsOwn ==
    [][\A c \in Calls, i \in Images :
          (at[c].stage = "eject" /\ at'[c].stage = "exit" /\ attached[i] # None /\ attached'[i] = None)
             => at[c].image = i \/ (system # "windows" /\ at[c].lost)]_vars

(***************************************************************************)
(* macos.rs mount_points, of getmntinfo's buffer: "it is read before any    *)
(* further call".  (Not so: two status calls run at the same time.)         *)
(***************************************************************************)
BufferIsOwn == \A c \in Calls : ~at[c].mixed

(***************************************************************************)
(* Every call answers, although a tool may hang for ever.                   *)
(***************************************************************************)
CallsAnswer == \A c \in Calls : []<>(at[c].stage = "idle")
=============================================================================
