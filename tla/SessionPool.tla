----------------------------- MODULE SessionPool -----------------------------
(***************************************************************************)
(* What the pool of src-tauri/src/ftp/pool.rs promises, without its locks, *)
(* counters and waiting: a bounded set of sessions, each of them either    *)
(* free or in the hands of one thread, that passes from thread to thread   *)
(* only through the pool and only when nothing of it is doubtful.          *)
(***************************************************************************)
EXTENDS Naturals, FiniteSets

CONSTANTS Threads, Sessions, Limit

VARIABLES
  free,      \* pooled sessions
  holds,     \* the sessions in each thread's hands
  doubtful   \* sessions with a reply or a transfer outstanding

poolVars == <<free, holds, doubtful>>

Existing == free \cup UNION {holds[p] : p \in Threads}

PoolInit ==
  /\ \E s \in Sessions : free = {s}
  /\ holds = [p \in Threads |-> {}]
  /\ doubtful = {}

(* A new session comes into existence within the limit.                    *)
Open(p) ==
  /\ Cardinality(Existing) < Limit
  /\ \E s \in Sessions \ Existing :
       holds' = [holds EXCEPT ![p] = @ \cup {s}]
  /\ UNCHANGED <<free, doubtful>>

(* A thread takes free sessions: one, or all of them.                      *)
Take(p) ==
  /\ \E S \in SUBSET free :
       /\ free'  = free \ S
       /\ holds' = [holds EXCEPT ![p] = @ \cup S]
  /\ UNCHANGED doubtful

Use(p) ==
  /\ \E s \in holds[p] : doubtful' \in {doubtful \cup {s}, doubtful \ {s}}
  /\ UNCHANGED <<free, holds>>

Park(p) ==
  /\ \E s \in holds[p] \ doubtful :
       /\ free'  = free \cup {s}
       /\ holds' = [holds EXCEPT ![p] = @ \ {s}]
  /\ UNCHANGED doubtful

Discard(p) ==
  /\ \E s \in holds[p] :
       /\ holds'    = [holds EXCEPT ![p] = @ \ {s}]
       /\ doubtful' = doubtful \ {s}
  /\ UNCHANGED free

(* The connection itself is dropped with what is still pooled.             *)
Drop == free' = {} /\ UNCHANGED <<holds, doubtful>>

PoolNext ==
  \/ \E p \in Threads : Open(p) \/ Take(p) \/ Use(p) \/ Park(p) \/ Discard(p)
  \/ Drop

PoolSpec == PoolInit /\ [][PoolNext]_poolVars
=============================================================================
