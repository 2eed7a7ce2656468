------------------------------- MODULE Sqlite -------------------------------
(***************************************************************************)
(* The sessions of the database editor (sqlite.rs, commands/sqlite.rs):    *)
(* at most Limit open databases, each with one request at a time; a script *)
(* is run statement by statement; Stop, the end of a tab and the deadline  *)
(* of 30 s end the session, and the connection goes with its last user.    *)
(*                                                                         *)
(* A statement is what it does to the transaction and to the file: SQLite  *)
(* itself is external, with its lock for writers, and its rule that an     *)
(* interrupted write rolls its whole transaction back.  A session's name   *)
(* is used once, as the editor draws a random one for each opening.        *)
(***************************************************************************)
EXTENDS Naturals, Sequences, FiniteSets

CONSTANTS
  Sessions,       \* openings of one database file
  Requests,
  Scripts,        \* sequences of statements
  Limit,          \* open databases
  MaxStatements   \* of one script

SqliteAssumption ==
  /\ Limit \in Nat \ {0} /\ MaxStatements \in Nat \ {0}
  /\ \A s \in Scripts : s \in Seq(STRING) /\ s # <<>>
  /\ "nobody" \notin Requests

VARIABLES
  session,   \* each: where it is, its user, its transaction, its changes, and what the tab shows
  run,       \* each request
  disk,      \* the changes that are committed
  foreign    \* whether a script reached another file

vars == <<session, run, disk, foreign>>

Init ==
  /\ session = [s \in Sessions |->
       [pc |-> "new", user |-> "nobody", vacuum |-> FALSE, tx |-> FALSE, pending |-> {}, shows |-> FALSE]]
  /\ run = [r \in Requests |->
       [pc |-> "new", of |-> "none", script |-> <<>>, at |-> 0, watched |-> FALSE, late |-> FALSE,
        failed |-> FALSE, answer |-> "none"]]
  /\ disk = {} /\ foreign = FALSE

Open == {s \in Sessions : session[s].pc = "open"}
Held(s, but) == \E r \in Requests \ {but} : run[r].of = s /\ run[r].pc \in {"look", "run", "end"}

\* Dropping the connection rolls an open transaction back.
Dropped(s) == [s EXCEPT !.pc = "gone", !.user = "nobody", !.tx = FALSE, !.pending = {}]

-----------------------------------------------------------------------------
(* open and close.                                                         *)

\* The header, a read-only look at the schema, then the connection.
OpenDatabase(s) ==
  /\ session[s].pc = "new"
  /\ session' = [session EXCEPT ![s].pc = "opening"]
  /\ UNCHANGED <<run, disk, foreign>>

Insert(s) ==
  /\ session[s].pc = "opening"
  /\ session' = [session EXCEPT ![s].pc = IF Cardinality(Open) >= Limit THEN "gone" ELSE "open"]
  /\ UNCHANGED <<run, disk, foreign>>

\* The session leaves the table; its requests are interrupted.
Removed(s) ==
  IF Held(s, "nobody") THEN [session[s] EXCEPT !.pc = "closed"] ELSE Dropped(session[s])

Close(s) ==
  /\ session[s].pc = "open"
  /\ session' = [session EXCEPT ![s] = Removed(s)]
  /\ UNCHANGED <<run, disk, foreign>>

-----------------------------------------------------------------------------
(* run.                                                                    *)

Answers(r, answer) == run' = [run EXCEPT ![r].pc = "done", ![r].answer = answer]

\* "The database session ended", or a share of the session.
Look(r) ==
  /\ run[r].pc = "new"
  /\ \E s \in Sessions, script \in Scripts :
       IF s \in Open
       THEN run' = [run EXCEPT ![r].pc = "look", ![r].of = s, ![r].script = script, ![r].at = 1]
       ELSE session[s].pc \in {"closed", "gone"} /\ Answers(r, "gone")
  /\ UNCHANGED <<session, disk, foreign>>

\* The last user of a closed session takes the connection along.
Leaves(r, s) ==
  IF s.pc = "closed" /\ ~Held(run[r].of, r) THEN Dropped(s) ELSE s

\* try_lock, the handler that looks at the flag and the clock, and the flag once more.
LockUnwatched(r) ==  \* mutant: no progress handler
  /\ run[r].pc = "look" /\ session[run[r].of].user = "nobody"
  /\ session' = [session EXCEPT ![run[r].of].user = r]
  /\ run' = [run EXCEPT ![r].pc = IF session[run[r].of].pc = "closed" THEN "end" ELSE "run"]
  /\ UNCHANGED <<disk, foreign>>
Lock(r) ==
  LET s == run[r].of
  IN /\ run[r].pc = "look"
     /\ \/ /\ session[s].user # "nobody" /\ Answers(r, "busy")
           /\ session' = [session EXCEPT ![s] = Leaves(r, @)]
        \/ /\ session[s].user = "nobody"
           /\ session' = [session EXCEPT ![s].user = r]
           /\ run' = [run EXCEPT ![r].pc = IF session[s].pc = "closed" THEN "end" ELSE "run",
                                 ![r].watched = TRUE]
     /\ UNCHANGED <<disk, foreign>>

\* Thirty seconds.
Expire(r) ==
  /\ run[r].pc = "run" /\ ~run[r].late
  /\ run' = [run EXCEPT ![r].late = TRUE]
  /\ UNCHANGED <<session, disk, foreign>>

Statement(r) == run[r].script[run[r].at]
Change(r) == <<r, run[r].at>>
Locked(s) == \E t \in Sessions \ {s} : session[t].pending # {}

\* The authorizer: no other file, but for the nameless one of a VACUUM that runs.
Denied(r, s) == Statement(r) = "attach" /\ ~s.vacuum

\* What SQLite refuses.
Refused(r, s) ==
  \/ Statement(r) = "bad" \/ Denied(r, s)
  \/ Statement(r) \in {"begin", "vacuum"} /\ s.tx
  \/ Statement(r) \in {"commit", "rollback"} /\ ~s.tx
  \/ Statement(r) \in {"write", "vacuum"} /\ Locked(run[r].of)

\* A statement to its end, every row of it, whatever the preview keeps.
Done(r, s) ==
  CASE Statement(r) = "begin" -> [s EXCEPT !.tx = TRUE]
    [] Statement(r) = "write" /\ s.tx -> [s EXCEPT !.pending = @ \cup {Change(r)}]
    [] Statement(r) \in {"commit", "rollback"} -> [s EXCEPT !.tx = FALSE, !.pending = {}]
    [] OTHER -> s

Committed(r, s) ==
  CASE Statement(r) = "write" /\ ~s.tx -> {Change(r)}
    [] Statement(r) = "commit" -> s.pending
    [] OTHER -> {}

\* VacuumGuard ends with the statement.
UnguardedAfter(r, s) == [s EXCEPT !.vacuum = Statement(r) = "vacuum"]  \* mutant: no guard
After(r, s) == [s EXCEPT !.vacuum = FALSE]

More(r) == run[r].at < Len(run[r].script)
Next1(r) ==
  run' = [run EXCEPT ![r].at = @ + 1, ![r].pc = IF More(r) THEN "run" ELSE "end"]
Fails(r) == run' = [run EXCEPT ![r].pc = "end", ![r].failed = TRUE]

Executes(r) ==
  LET s == session[run[r].of]
  IN /\ run[r].pc = "run" /\ run[r].at <= MaxStatements
     /\ Statement(r) # "endless" /\ ~Refused(r, s)
     /\ session' = [session EXCEPT ![run[r].of] = After(r, Done(r, s))]
     /\ disk' = disk \cup Committed(r, s)
     /\ foreign' = (foreign \/ Statement(r) = "attach")
     /\ Next1(r)

\* The first error ends the script; more statements than allowed are one.
FailsAt(r) ==
  /\ run[r].pc = "run" /\ (run[r].at > MaxStatements \/ Refused(r, session[run[r].of]))
  /\ Fails(r)
  /\ UNCHANGED <<session, disk, foreign>>

\* A statement that the handler or the interrupt meets while it runs.
InterruptedOn(r) ==  \* mutant: the script goes on behind it
  LET s == run[r].of
  IN /\ run[r].pc = "run" /\ run[r].watched
     /\ run[r].late \/ session[s].pc = "closed"
     /\ session' = [session EXCEPT ![s] = IF Statement(r) = "write" /\ @.tx
                                           THEN [@ EXCEPT !.tx = FALSE, !.pending = {}] ELSE @]
     /\ Next1(r)
     /\ UNCHANGED <<disk, foreign>>
Interrupted(r) ==
  LET s == run[r].of
  IN /\ run[r].pc = "run" /\ run[r].watched
     /\ run[r].late \/ session[s].pc = "closed"
     /\ session' = [session EXCEPT ![s] = IF Statement(r) = "write" /\ @.tx
                                           THEN [@ EXCEPT !.tx = FALSE, !.pending = {}] ELSE @]
     /\ Fails(r)
     /\ UNCHANGED <<disk, foreign>>

\* The answer, with the state of the transaction; a stop or the deadline closes the session.
EndsOpen(r) ==  \* mutant: the deadline leaves the session in the table
  LET s == run[r].of
      now == [session[s] EXCEPT !.user = "nobody", !.shows = session[s].tx /\ ~run[r].late]
  IN /\ run[r].pc = "end"
     /\ session' = [session EXCEPT ![s] = Leaves(r, now)]
     /\ Answers(r, IF now.pc = "closed" \/ run[r].late THEN "cancelled"
                   ELSE IF run[r].failed THEN "error" ELSE "ok")
     /\ UNCHANGED <<disk, foreign>>
Ends(r) ==
  LET s == run[r].of
      now == [session[s] EXCEPT !.user = "nobody"]
  IN /\ run[r].pc = "end"
     /\ IF now.pc = "closed" \/ run[r].late
        THEN /\ session' = [session EXCEPT ![s] = Leaves(r, [now EXCEPT !.pc = "closed", !.shows = FALSE])]
             /\ Answers(r, "cancelled")
        ELSE /\ session' = [session EXCEPT ![s] = [now EXCEPT !.shows = now.tx]]
             /\ Answers(r, IF run[r].failed THEN "error" ELSE "ok")
     /\ UNCHANGED <<disk, foreign>>

-----------------------------------------------------------------------------
Runs(r) == Lock(r) \/ Executes(r) \/ FailsAt(r) \/ Interrupted(r) \/ Ends(r)

Next ==
  \/ \E s \in Sessions : OpenDatabase(s) \/ Insert(s) \/ Close(s)
  \/ \E r \in Requests : Look(r) \/ Expire(r) \/ Runs(r)

Spec == Init /\ [][Next]_vars

TypeOK ==
  /\ \A s \in Sessions : /\ session[s].pc \in {"new", "opening", "open", "closed", "gone"}
                         /\ session[s].user \in Requests \cup {"nobody"}
                         /\ session[s].pending \subseteq Requests \X Nat
  /\ \A r \in Requests : run[r].pc \in {"new", "look", "run", "end", "done"}
  /\ disk \subseteq Requests \X Nat

(* "The toolbar indicates an open transaction": while nobody uses a        *)
(* session of the table, the last answer tells whether its transaction is  *)
(* open; and when a request was answered that its uncommitted changes were *)
(* rolled back, its session is gone for good and keeps nothing, unless     *)
(* another request still has to find out.                                  *)
AnswerTellsTransaction ==
  /\ \A s \in Open : session[s].user = "nobody" => session[s].shows = session[s].tx
  /\ \A r \in Requests : run[r].answer = "cancelled" =>
       /\ session[run[r].of].pc \in {"closed", "gone"}
       /\ session[run[r].of].pending # {} => Held(run[r].of, r)

(* "Query stopped; uncommitted changes were rolled back": of a request     *)
(* that is answered so, no write behind BEGIN is in the file, neither from *)
(* before nor from after the statement that was interrupted, unless the    *)
(* script itself has committed it or ended its transaction before it.      *)
Uncommitted(r) ==
  LET script == run[r].script
      Begun(i) == \E b \in 1..i : /\ script[b] = "begin"
                                  /\ \A k \in b..i : script[k] # "rollback"
                                  /\ \A k \in b..Len(script) : script[k] # "commit"
  IN {<<r, i>> : i \in {j \in DOMAIN script : script[j] = "write" /\ Begun(j)}}
StoppedRollsBack ==
  \A r \in Requests : run[r].answer = "cancelled" => Uncommitted(r) \cap disk = {}

Serves(r) == run[r].pc \in {"run", "end"}

(* A script never reaches a file other than the opened one, nor one of     *)
(* SQLite's own after a VACUUM; and a connection never serves two requests.*)
ScopedToFile ==
  /\ ~foreign
  /\ \A r, q \in Requests : Serves(r) /\ Serves(q) /\ run[r].of = run[q].of => r = q

(* Threads run, and clocks reach their deadlines.                          *)
Fairness ==
  \A r \in Requests : WF_vars(Runs(r)) /\ WF_vars(Expire(r) /\ Statement(r) = "endless")

(* Every request is answered, an endless query too.                        *)
RunsEnd == \A r \in Requests : []<>(run[r].pc \in {"new", "done"})
=============================================================================
