-------------------------------- MODULE Scans --------------------------------
(***************************************************************************)
(* Long walks through folders that the window can cancel: searches         *)
(* (filesystem/search.rs), folder sizes (filesystem/size.rs) and batches   *)
(* of cloud status (filesystem/cloud_status.rs, availability/onedrive.rs), *)
(* with the commands that start and cancel them (commands/filesystem.rs).  *)
(* A walk looks at a shared flag before every entry; a search hands its    *)
(* results over in batches; a status batch waits for one of a few slots,   *)
(* and what it found is laid over rows that may have changed meanwhile     *)
(* (src/utils/directoryListing.js).                                        *)
(***************************************************************************)
EXTENDS Naturals, FiniteSets

CONSTANTS
  Searches, Sizes, Statuses,  \* the walks, by kind
  Entries,     \* entries of the folder that is walked
  BatchSize,   \* results handed over at once: 25
  MaxResults,  \* results of a search: 10000
  Slots,       \* status batches at once: 2
  Mixes,       \* [walks, changes] that occur together: the walks that are started,
               \* and how often the file changes whose row is shown
  Systems,     \* subset of {"macos", "windows"}
  None

Walks == Searches \cup Sizes \cup Statuses

ScanAssumption ==
  /\ Entries \in Nat /\ BatchSize \in Nat \ {0} /\ MaxResults \in Nat \ {0}
  /\ Slots \in Nat \ {0} /\ Mixes \subseteq [walks : SUBSET Walks, changes : Nat] /\ None \notin Nat
  /\ Systems \subseteq {"macos", "windows"}
  /\ Searches \cap Sizes = {} /\ Statuses \cap (Searches \cup Sizes) = {}

VARIABLES
  walk,       \* each walk: stage, entries seen, results, batch, handed over, outcome
  flags,      \* walks whose flag is set
  jobs,       \* walks the commands know
  permits,    \* slots taken
  disk, row,  \* the version of a file on disk and the one its row shows
  badge,      \* the version whose status the row shows, or None
  generation, \* of the listing that the window shows
  os

vars == <<walk, flags, jobs, permits, disk, row, badge, generation, os>>

Stages == {"new", "queued", "walking", "flushing", "outcome", "answered", "over"}

Init ==
  /\ walk = [w \in Walks |-> [stage |-> "new", seen |-> 0, count |-> 0, batch |-> 0,
                              handed |-> 0, limited |-> FALSE, cancelled |-> FALSE,
                              failed |-> FALSE, version |-> None, generation |-> 0]]
  /\ flags = {} /\ jobs = {} /\ permits = 0
  /\ disk = 0 /\ row = 0 /\ badge = None /\ generation = 0
  /\ os \in Systems

Put(w, r) == walk' = [walk EXCEPT ![w] = r]
files == <<disk, row, badge, generation, os>>

\* The bound of a behaviour.
Started == {w \in Walks : walk[w].stage # "new"}
May(walks, changes) == \E m \in Mixes : walks \subseteq m.walks /\ changes <= m.changes

-----------------------------------------------------------------------------
(* The commands: a walk is known before its thread starts.                 *)

Start(w) ==
  /\ walk[w].stage = "new" /\ May(Started \cup {w}, disk)
  /\ Put(w, [walk[w] EXCEPT !.stage = IF w \in Statuses THEN "queued" ELSE "walking",
                            !.generation = generation])
  /\ jobs' = jobs \cup {w}
  /\ UNCHANGED <<flags, permits, files>>

\* Only a walk that is known can be cancelled; the window cancels its status
\* batches when it lists the folder again.
Cancel(w) ==
  /\ w \in jobs \ flags
  /\ flags' = flags \cup {w}
  /\ UNCHANGED <<walk, jobs, permits, files>>

FailsLeaving(w) ==  \* mutant: the error path of a batch keeps its slot
  /\ walk[w].stage = "walking"
  /\ Put(w, [walk[w] EXCEPT !.stage = "answered", !.failed = TRUE])
  /\ UNCHANGED <<permits, flags, jobs, files>>

AcquireLeaks(w) ==  \* mutant: a cancelled waiter keeps the slot it was given
  /\ walk[w].stage = "queued" /\ permits < Slots
  /\ permits' = permits + 1
  /\ Put(w, [walk[w] EXCEPT !.stage = IF w \in flags THEN "outcome" ELSE "walking",
                            !.cancelled = w \in flags])
  /\ UNCHANGED <<flags, jobs, files>>

\* acquire: the flag is looked at before a slot is taken, and every 50 ms.
Acquire(w) ==
  /\ walk[w].stage = "queued"
  /\ \/ /\ w \in flags
        /\ Put(w, [walk[w] EXCEPT !.stage = "answered", !.cancelled = TRUE])
        /\ UNCHANGED permits
     \/ /\ w \notin flags /\ permits < Slots
        /\ permits' = permits + 1
        /\ Put(w, [walk[w] EXCEPT !.stage = "walking"])
  /\ UNCHANGED <<flags, jobs, files>>

-----------------------------------------------------------------------------
(* The walk.                                                               *)

\* on_batch: results of a cancelled search are dropped.
HandOver(w, r) ==
  [r EXCEPT !.batch = 0, !.handed = IF w \in flags THEN @ ELSE @ + r.batch]

\* One more entry, that matches or not; a batch that is full is handed over.
Found(w) ==
  LET r == [walk[w] EXCEPT !.seen = @ + 1, !.count = @ + 1, !.batch = @ + 1]
  IN IF r.batch = BatchSize THEN HandOver(w, r) ELSE r

Entry(w) ==
  /\ walk[w].stage = "walking" /\ w \notin flags /\ walk[w].seen < Entries
  /\ \/ /\ w \in Searches
        /\ \/ Put(w, [walk[w] EXCEPT !.seen = @ + 1])
           \/ IF walk[w].count >= MaxResults
              THEN Put(w, [walk[w] EXCEPT !.limited = TRUE, !.stage = "flushing"])
              ELSE Put(w, Found(w))
     \/ /\ w \in Sizes
        /\ Put(w, [walk[w] EXCEPT !.seen = @ + 1, !.count = @ + 1])
     \/ /\ w \in Statuses  \* macOS tells which metadata it looked at
        /\ Put(w, [walk[w] EXCEPT !.seen = @ + 1, !.version = disk])
  /\ UNCHANGED <<flags, jobs, permits, files>>

\* The walk is through, or has seen the flag; a status batch is given up.
Leaves(w) ==
  /\ walk[w].stage = "walking" /\ (w \in flags \/ walk[w].seen = Entries)
  /\ IF w \in Statuses
     THEN /\ Put(w, [walk[w] EXCEPT !.stage = "answered",
                                    !.cancelled = walk[w].seen < Entries])
          /\ permits' = permits - 1
     ELSE Put(w, [walk[w] EXCEPT !.stage = "flushing"]) /\ UNCHANGED permits
  /\ UNCHANGED <<flags, jobs, files>>

FlushForgets(w) ==  \* mutant: the last results are not handed over
  /\ walk[w].stage = "flushing"
  /\ Put(w, [walk[w] EXCEPT !.stage = "outcome", !.cancelled = w \in flags])
  /\ UNCHANGED <<flags, jobs, permits, files>>

Flush(w) ==
  /\ walk[w].stage = "flushing"
  /\ Put(w, [HandOver(w, walk[w]) EXCEPT !.stage = "outcome"])
  /\ UNCHANGED <<flags, jobs, permits, files>>

\* Whether it was cancelled is read after the last results were handed over.
Outcome(w) ==
  /\ walk[w].stage = "outcome"
  /\ Put(w, [walk[w] EXCEPT !.stage = "answered", !.cancelled = w \in flags])
  /\ UNCHANGED <<flags, jobs, permits, files>>

\* The folder cannot be walked, or a search meets an error that it does not
\* skip: sizes count those of the folders below.
Fails(w) ==
  /\ walk[w].stage = "walking"
  /\ w \in Sizes => walk[w].seen = 0
  /\ Put(w, [walk[w] EXCEPT !.stage = "answered", !.failed = TRUE])
  /\ permits' = IF w \in Statuses THEN permits - 1 ELSE permits
  /\ UNCHANGED <<flags, jobs, files>>

-----------------------------------------------------------------------------
(* The window.                                                             *)

Change ==
  /\ May(Started, disk + 1) /\ disk' = disk + 1
  /\ UNCHANGED <<walk, flags, jobs, permits, row, badge, generation, os>>

\* The folder is listed again: batches of the old listing are cancelled, and
\* a row that has not changed keeps its status.
Relist ==
  /\ row # disk /\ row' = disk /\ badge' = None
  /\ generation' = generation + 1
  /\ flags' = flags \cup (jobs \cap Statuses)
  /\ UNCHANGED <<walk, jobs, permits, disk, os>>

AppliesLate(w) == walk[w].version # None  \* mutant: any listing takes it

\* A status of an older listing is dropped, and on macOS one of metadata
\* that are not those of the row.
Applies(w) ==
  /\ walk[w].version # None /\ ~walk[w].cancelled /\ ~walk[w].failed
  /\ walk[w].generation = generation
  /\ os = "macos" => walk[w].version = row

\* The answer reaches the window and the job is forgotten.
Answer(w) ==
  /\ walk[w].stage = "answered"
  /\ Put(w, [walk[w] EXCEPT !.stage = "over"])
  /\ jobs' = jobs \ {w}
  /\ badge' = IF w \in Statuses /\ Applies(w) THEN walk[w].version ELSE badge
  /\ UNCHANGED <<flags, permits, disk, row, generation, os>>

Step(w) ==
  Entry(w) \/ Leaves(w) \/ Flush(w) \/ Outcome(w) \/ Fails(w) \/ Answer(w)

Next ==
  \/ \E w \in Walks : Start(w) \/ Cancel(w) \/ Acquire(w) \/ Step(w)
  \/ Change \/ Relist

Spec == Init /\ [][Next]_vars

TypeOK ==
  /\ flags \subseteq Walks /\ jobs \subseteq Walks /\ badge \in Nat \cup {None}
  /\ \A w \in Walks : walk[w].stage \in Stages /\ walk[w].seen \in 0..Entries

(* A search that does not say that it failed or was cancelled has handed   *)
(* over every result it counted, and has seen every entry unless it says   *)
(* that it was limited: a cancel between the last two looks at the flag    *)
(* loses nothing in silence.                                               *)
CompleteOrCancelled ==
  \A w \in Searches :
    walk[w].stage \in {"answered", "over"} /\ ~(walk[w].cancelled \/ walk[w].failed)
      => /\ walk[w].handed = walk[w].count
         /\ walk[w].limited \/ walk[w].seen = Entries

(* The slots that are taken are those of the status batches that walk: no  *)
(* way out of a batch loses one, or none would be inspected any more.      *)
SlotsReturned ==
  permits = Cardinality({w \in Statuses : walk[w].stage = "walking"}) /\ permits <= Slots

(* filesystem/cloud_status.rs:33: "a status is never applied to an entry   *)
(* that has since been replaced".  Not so on Windows.                      *)
StatusFitsRow == badge # None => badge = row

\* What the code keeps of it: where the inspected metadata have a time.
StatusFitsRowOnMac == os = "macos" => StatusFitsRow

(* The threads run, and a slot that is returned is not always taken by the *)
(* same waiters.                                                           *)
Fairness == \A w \in Walks : WF_vars(Step(w)) /\ WF_vars(Acquire(w))

(* Every walk that was started answers.                                    *)
WalksEnd == \A w \in Walks : []<>(walk[w].stage \in {"new", "over"})
=============================================================================
