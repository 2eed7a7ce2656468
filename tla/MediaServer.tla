----------------------------- MODULE MediaServer -----------------------------
(***************************************************************************)
(* Handing the bytes of a file to a player: by ranges, through the custom  *)
(* protocol of the window (media/mod.rs) or the loopback HTTP server       *)
(* (media/http.rs), and as a stream with callbacks for libmpv              *)
(* (mpv/stream.rs, media/source.rs), all from provider_content.rs.         *)
(* The size that a response announces is read before the file is opened    *)
(* for its bytes, and the HTTP server has sent its headers by then; a      *)
(* player that wants the whole file asks again from where a piece ended.   *)
(***************************************************************************)
EXTENDS Naturals

CONSTANTS
  Fetches,     \* players that read by ranges
  Streams,     \* openings of the native player
  MaxSize,     \* sizes of the file: 0..MaxSize
  Chunk,       \* bytes in one response of the protocol: 1 MiB
  MaxChanges,  \* times another program truncates or extends the file
  MaxReads,    \* reads of a stream that are looked at
  Mixes,       \* bound: sets of players and openings that come in one run
  None

ServerAssumption ==
  /\ MaxSize \in Nat /\ Chunk \in Nat \ {0} /\ MaxChanges \in Nat /\ MaxReads \in Nat
  /\ Mixes \subseteq SUBSET (Fetches \cup Streams)
  /\ None \notin Nat

VARIABLES
  size,      \* of the file, now
  changes,
  fetch,     \* each player: step, the range it asks for, what it was announced and got
  registry,  \* streams whose source is registered
  stream     \* each stream: step, reads under way and done, whether it is cancelled

vars == <<size, changes, fetch, registry, stream>>

Vias == {"protocol", "http"}

\* A Range header: none, "first-last", "first-" or "-suffix".
Headers ==
  [first : {None}, last : {None}]
    \cup [first : 0..(MaxSize + 1), last : 0..(MaxSize + 1) \cup {None}]
    \cup [first : {None}, last : 0..(MaxSize + 1)]
Plain == [first |-> None, last |-> None]

Init ==
  /\ size \in 0..MaxSize /\ changes = 0
  /\ \E v \in [Fetches -> Vias] :
       fetch = [f \in Fetches |->
                  [via |-> v[f], step |-> "new", header |-> Plain, size |-> 0, status |-> 0,
                   start |-> 0, end |-> 0, next |-> 0, got |-> 0, changed |-> FALSE]]
  /\ registry = {}
  /\ stream = [s \in Streams |-> [step |-> "new", cancelled |-> FALSE, done |-> 0,
                                  reading |-> FALSE, late |-> 0]]

Least(a, b) == IF a < b THEN a ELSE b
Minus(a, b) == IF a > b THEN a - b ELSE 0
Put(f, r) == fetch' = [fetch EXCEPT ![f] = r]
\* Those that have begun, and which may join them.
Begun == {f \in Fetches : fetch[f].step # "new"} \cup {s \in Streams : stream[s].step # "new"}
MayBegin(x) == \E mix \in Mixes : Begun \cup {x} \subseteq mix

server == <<size, changes, registry, stream>>

-----------------------------------------------------------------------------
(* parse_range and bound_range.                                            *)

Bad == [first |-> 1, last |-> 0]

ParseRangeUnclipped(h, total) ==  \* mutant: the last byte is taken as it was asked for
  IF h = Plain THEN [first |-> 0, last |-> Minus(total, 1)]
  ELSE IF total = 0 THEN Bad
  ELSE IF h.first = None
  THEN IF h.last = 0 THEN Bad ELSE [first |-> Minus(total, h.last), last |-> total - 1]
  ELSE LET last == IF h.last = None THEN total - 1 ELSE h.last
       IN IF h.first >= total \/ last < h.first THEN Bad
          ELSE [first |-> h.first, last |-> last]

\* The bytes of a file of this size that a header asks for, or Bad.
ParseRange(h, total) ==
  IF h = Plain THEN [first |-> 0, last |-> Minus(total, 1)]
  ELSE IF total = 0 THEN Bad
  ELSE IF h.first = None
  THEN IF h.last = 0 THEN Bad ELSE [first |-> Minus(total, h.last), last |-> total - 1]
  ELSE LET last == IF h.last = None THEN total - 1 ELSE h.last
       IN IF h.first >= total \/ last < h.first THEN Bad
          ELSE [first |-> h.first, last |-> Least(last, total - 1)]

BoundRange(via, h, r) ==
  IF via = "protocol" /\ h # Plain
  THEN [r EXCEPT !.last = Least(@, r.first + Chunk - 1)] ELSE r

-----------------------------------------------------------------------------
(* A player that reads by ranges: the first request asks for anything, the *)
(* next ones for what follows the piece before.                            *)

Ask(f) ==
  /\ fetch[f].step = "new" /\ MayBegin(f)
  /\ \E h \in Headers : Put(f, [fetch[f] EXCEPT !.step = "asked", !.header = h])
  /\ UNCHANGED server

AskNext(f) ==
  /\ fetch[f].step = "piece" /\ fetch[f].next < fetch[f].size
  /\ Put(f, [fetch[f] EXCEPT !.step = "asked",
                             !.header = [first |-> fetch[f].next, last |-> None]])
  /\ UNCHANGED server

\* ContentSource::open and parse_range: the size is that of this moment.
Opens(f) ==
  /\ fetch[f].step = "asked"
  /\ LET h == fetch[f].header
         r == BoundRange(fetch[f].via, h, ParseRange(h, size))
     IN IF r = Bad THEN Put(f, [fetch[f] EXCEPT !.step = "failed", !.status = 416])
        ELSE Put(f, [fetch[f] EXCEPT !.step = "opened", !.size = size,
                       !.start = r.first, !.end = r.last,
                       !.status = IF h = Plain THEN 200 ELSE 206])
  /\ UNCHANGED server

Length(f) == IF fetch[f].size = 0 THEN 0 ELSE fetch[f].end - fetch[f].start + 1

\* copy_range reads what is there by now.
Copied(f) == Least(Length(f), Minus(size, fetch[f].start))

Delivered(f, n) ==
  [fetch[f] EXCEPT !.step = "piece", !.next = fetch[f].start + n, !.got = @ + n]

AnswersShort(f) ==  \* mutant: a short read is a short body
  /\ fetch[f].step = "opened"
  /\ Put(f, Delivered(f, Copied(f)))
  /\ UNCHANGED server

\* The protocol answers EUNEXPECTED_EOF instead; the HTTP server has sent its
\* headers and closes the connection before the announced length.
Answers(f) ==
  /\ fetch[f].step = "opened"
  /\ IF Copied(f) = Length(f) THEN Put(f, Delivered(f, Length(f)))
     ELSE Put(f, [fetch[f] EXCEPT !.step = "failed",
                    !.status = IF fetch[f].via = "http" THEN @ ELSE 500])
  /\ UNCHANGED server

\* An I/O error, or a file that is gone.
Fails(f) ==
  /\ fetch[f].step \in {"asked", "opened"}
  /\ Put(f, [fetch[f] EXCEPT !.step = "failed",
               !.status = IF fetch[f].via = "http" /\ fetch[f].step = "opened" THEN @ ELSE 500])
  /\ UNCHANGED server

Done(f) ==
  /\ fetch[f].step = "piece" /\ fetch[f].next >= fetch[f].size
  /\ Put(f, [fetch[f] EXCEPT !.step = "done"])
  /\ UNCHANGED server

Change ==
  /\ changes < MaxChanges /\ changes' = changes + 1
  /\ size' \in 0..MaxSize \ {size}
  /\ fetch' = [f \in Fetches |-> [fetch[f] EXCEPT !.changed = TRUE]]
  /\ UNCHANGED <<registry, stream>>

-----------------------------------------------------------------------------
(* A stream of the native player.  libmpv reads in one thread and cancels  *)
(* from another; it closes when no read is under way.                      *)

Stream(s, r) == stream' = [stream EXCEPT ![s] = r]
ranges == <<size, changes, fetch>>

\* resolve registers the source before the player is started.
Register(s) ==
  /\ stream[s].step = "new" /\ MayBegin(s)
  /\ registry' = registry \cup {s}
  /\ Stream(s, [stream[s] EXCEPT !.step = "registered"])
  /\ UNCHANGED ranges

\* A player that cannot be started leaves its address registered; one that
\* cannot load, or has let go of the file, removes it.
StartFails(s) ==
  /\ stream[s].step = "registered"
  /\ Stream(s, [stream[s] EXCEPT !.step = "unstarted"])
  /\ UNCHANGED <<registry, ranges>>

Load(s) ==
  /\ stream[s].step = "registered"
  /\ Stream(s, [stream[s] EXCEPT !.step = "loading"])
  /\ UNCHANGED <<registry, ranges>>

\* open_stream: an address that is not registered any more is refused.
OpenStream(s) ==
  /\ stream[s].step = "loading"
  /\ Stream(s, [stream[s] EXCEPT !.step = IF s \in registry THEN "open" ELSE "closed"])
  /\ UNCHANGED <<registry, ranges>>

Remove(s) ==
  /\ stream[s].step \in {"loading", "open", "closed"} /\ s \in registry
  /\ registry' = registry \ {s}
  /\ UNCHANGED <<stream, ranges>>

ReadBlind(s) ==  \* mutant: the flag is not looked at
  /\ stream[s].step = "open" /\ ~stream[s].reading /\ stream[s].done < MaxReads
  /\ Stream(s, [stream[s] EXCEPT !.reading = TRUE, !.done = @ + 1])
  /\ UNCHANGED <<registry, ranges>>

\* read_stream: the flag is looked at once, before the bytes are read.
ReadStream(s) ==
  /\ stream[s].step = "open" /\ ~stream[s].reading /\ stream[s].done < MaxReads
  /\ Stream(s, [stream[s] EXCEPT !.reading = ~stream[s].cancelled, !.done = @ + 1])
  /\ UNCHANGED <<registry, ranges>>

ReadReturns(s) ==
  /\ stream[s].reading
  /\ Stream(s, [stream[s] EXCEPT !.reading = FALSE,
                  !.late = IF stream[s].cancelled THEN @ + 1 ELSE @])
  /\ UNCHANGED <<registry, ranges>>

CancelStream(s) ==
  /\ stream[s].step = "open" /\ ~stream[s].cancelled
  /\ Stream(s, [stream[s] EXCEPT !.cancelled = TRUE])
  /\ UNCHANGED <<registry, ranges>>

CloseStream(s) ==
  /\ stream[s].step = "open" /\ ~stream[s].reading
  /\ Stream(s, [stream[s] EXCEPT !.step = "closed"])
  /\ UNCHANGED <<registry, ranges>>

Serve(f) == AskNext(f) \/ Opens(f) \/ Answers(f) \/ Fails(f) \/ Done(f)

Next ==
  \/ \E f \in Fetches : Ask(f) \/ Serve(f)
  \/ Change
  \/ \E s \in Streams :
       Register(s) \/ StartFails(s) \/ Load(s) \/ OpenStream(s) \/ Remove(s)
         \/ ReadStream(s) \/ ReadReturns(s) \/ CancelStream(s) \/ CloseStream(s)

Spec == Init /\ [][Next]_vars

TypeOK ==
  /\ size \in 0..MaxSize /\ changes \in 0..MaxChanges
  /\ fetch \in [Fetches -> [via : Vias, header : Headers, size : 0..MaxSize,
                            step : {"new", "asked", "opened", "piece", "failed", "done"},
                            status : {0, 200, 206, 416, 500}, start : Nat, end : Nat,
                            next : Nat, got : Nat, changed : BOOLEAN]]
  /\ registry \subseteq Streams
  /\ stream \in [Streams -> [step : {"new", "registered", "unstarted", "loading", "open",
                                     "closed"},
                             cancelled : BOOLEAN, done : 0..MaxReads, reading : BOOLEAN,
                             late : Nat]]

\* What a header asks for, as a set of places.
Wanted(h, total) ==
  {i \in 0..(total - 1) :
     \/ h = Plain
     \/ h.first # None /\ h.first <= i /\ (h.last = None \/ i <= h.last)
     \/ h.first = None /\ h # Plain /\ i + h.last >= total}

(* A response carries exactly the bytes that the header asks for and the   *)
(* file had, or through the protocol the first Chunk of them; what is not  *)
(* satisfiable is refused, and nothing else.                               *)
RangeIsWanted ==
  \A f \in Fetches :
    LET w == Wanted(fetch[f].header, fetch[f].size) IN
    /\ fetch[f].step \in {"opened", "piece"} /\ fetch[f].size > 0 =>
         /\ fetch[f].start..fetch[f].end \subseteq w
         /\ fetch[f].start \in w /\ \A i \in w : i >= fetch[f].start
         /\ \/ fetch[f].start..fetch[f].end = w
            \/ fetch[f].via = "protocol" /\ Length(f) = Chunk
    /\ fetch[f].status = 416 /\ ~fetch[f].changed =>
         Wanted(fetch[f].header, size) = {}

(* A player that follows the pieces of a file that nobody changes has it   *)
(* from its first piece to the end, with no gap and nothing twice; and a   *)
(* piece is complete even when the file does change, or it is not a piece. *)
PiecesTile ==
  \A f \in Fetches :
    /\ fetch[f].step = "piece" => fetch[f].next = fetch[f].start + Length(f)
    /\ fetch[f].step = "piece" /\ ~fetch[f].changed => fetch[f].next <= fetch[f].size

(* After a stream was cancelled at most the read that was under way still  *)
(* returns bytes: libmpv is not kept waiting by the ones it queues.        *)
QuietAfterCancel == \A s \in Streams : stream[s].late <= 1
=============================================================================
