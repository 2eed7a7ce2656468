----------------------------- MODULE FtpListing -----------------------------
(***************************************************************************)
(* What one FTP session asks of its server to list, look up, read and save: *)
(* ftp/connection.rs (negotiate, list, stat, with_passive_fallback),        *)
(* ftp/listing.rs, ftp/errors.rs and the operations of ftp/mod.rs on top.   *)
(*                                                                         *)
(* The session is told by FEAT what the server offers, and finds out by a   *)
(* reply 500 to 502 what it does not.  Every data command takes a passive   *)
(* connection first.  One folder is followed, with the items in it; the     *)
(* file that is read may grow meanwhile.  Sessions that are lost, and the   *)
(* completion of transfers, are the subject of FtpPool.                     *)
(***************************************************************************)
EXTENDS Naturals

CONSTANTS
    Names,      \* items of the folder
    Unsafe,     \* names that are not one safe path component
    Odd,        \* names whose LIST line neither format reads
    Limit,      \* the largest file that is read
    MaxCalls,   \* calls in a behaviour
    None

NamesAssumption == Unsafe \subseteq Names /\ Odd \subseteq Names /\ Limit \in Nat

VARIABLES
    server,     \* [feat, does, cdir]: what FEAT lists, what it does, how MLST answers
    there,      \* [Names -> "absent", "file", "directory"]
    denied,     \* items the server does not let this user see by name
    size,       \* the size of the files
    caps,       \* Capabilities: mlsd, mlst, epsv
    call,       \* the call under way
    calls

vars == <<server, there, denied, size, caps, call, calls>>

Commands == {"mlsd", "mlst", "epsv"}
Operations == {"list", "complete", "stat", "read", "save"}

\* stage: the command to send next; known: the size a lookup has reported.
Waiting == [op |-> "none", name |-> None, stage |-> "none", passive |-> FALSE,
            known |-> None, answer |-> None]

Existing == {n \in Names : there[n] # "absent"}

\* FEAT names MLST; the session takes it for MLSD and MLST.
Negotiated(feat) ==
    {c \in Commands : (c = "epsv" /\ "epsv" \in feat) \/ (c # "epsv" /\ "mlst" \in feat)}

Init ==
    /\ server \in {s \in [feat: SUBSET {"mlst", "epsv"}, does: SUBSET Commands, cdir: BOOLEAN] :
                   s.cdir => "mlst" \in s.does}
    /\ there \in [Names -> {"absent", "file", "directory"}]
    /\ \A n \in Unsafe : there[n] # "directory"  \* no call follows such an item
    /\ denied \in SUBSET (Names \ Unsafe)
    /\ size \in 0..Limit
    /\ caps = Negotiated(server.feat)
    /\ call = Waiting
    /\ calls = 0

-----------------------------------------------------------------------------
(* A call: which command comes first.                                       *)

Listing == IF "mlsd" \in caps THEN "mlsd" ELSE "list"
Lookup == IF "mlst" \in caps THEN "mlst" ELSE Listing

Begin(op, n) ==
    /\ call.stage \in {"none", "done"} /\ calls < MaxCalls
    /\ call' = [Waiting EXCEPT !.op = op, !.name = n,
                   !.stage = CASE op \in {"list", "complete"} -> Listing
                               [] op \in {"stat", "read"} -> Lookup
                               [] op = "save" -> "stor"]
    /\ calls' = calls + 1
    /\ UNCHANGED <<server, there, denied, size, caps>>

Reply(x) == call' = [call EXCEPT !.stage = "done", !.passive = FALSE, !.answer = x]
Answers(x) == Reply(<<"ok", x>>)
Fail == Reply(<<"error">>)

DataStages == {"mlsd", "list", "retr", "stor"}

\* mutant: the fallback is not remembered
PassiveForgets ==
    /\ call.stage \in DataStages /\ ~call.passive
    /\ IF "epsv" \in caps /\ "epsv" \notin server.does
       THEN UNCHANGED <<caps, call>>
       ELSE call' = [call EXCEPT !.passive = TRUE] /\ UNCHANGED caps
    /\ UNCHANGED <<server, there, denied, size, calls>>

\* EPSV or PASV.  A server that does not know EPSV is asked by PASV, and the
\* session remembers it.
Passive ==
    /\ call.stage \in DataStages /\ ~call.passive
    /\ IF "epsv" \in caps /\ "epsv" \notin server.does
       THEN caps' = caps \ {"epsv"} /\ UNCHANGED call
       ELSE call' = [call EXCEPT !.passive = TRUE] /\ UNCHANGED caps
    /\ UNCHANGED <<server, there, denied, size, calls>>

\* The entries of a listing, and whether a name was rejected as unsafe.  A
\* LIST line that neither parser reads is not counted.
Entries(command) ==
    {n \in Existing \ Unsafe : command = "mlsd" \/ n \notin Odd}
Rejected(command) ==
    Existing \cap (IF command = "mlsd" THEN Unsafe ELSE Unsafe \ Odd) # {}

\* mutant: recursive operations take the listing that the panel shows
ListedAnyway(op, command) == <<"ok", Entries(command)>>

\* complete_listing refuses what list shows without the unsafe names.
Listed(op, command) ==
    IF op = "complete" /\ Rejected(command) THEN <<"error">> ELSE <<"ok", Entries(command)>>

\* What follows a lookup: a stat is answered; a read goes on for a file of at
\* most Limit bytes; the lookup of a save only dates the file.
Found(kind, bytes) ==
    IF call.op # "read" THEN Answers(IF call.op = "save" THEN "ok" ELSE kind)
    ELSE IF kind # "file" \/ (bytes # None /\ bytes > Limit) THEN Fail
    ELSE call' = [call EXCEPT !.stage = "retr", !.passive = FALSE, !.known = bytes]

\* None of a stat is the absent item; a read reports ENOENT.
Missing == IF call.op = "read" THEN Fail
           ELSE Answers(IF call.op = "save" THEN "ok" ELSE "absent")

\* mutant: an answer that is not understood is a missing item
MlstMisread ==
    /\ call.stage = "mlst"
    /\ IF "mlst" \notin server.does
       THEN /\ caps' = caps \ {"mlst"}
            /\ call' = [call EXCEPT !.stage = Listing]
       ELSE /\ UNCHANGED caps
            /\ IF there[call.name] = "absent" \/ call.name \in denied
                  \/ (there[call.name] = "directory" /\ server.cdir)
               THEN Missing
               ELSE Found(there[call.name], size)
    /\ UNCHANGED <<server, there, denied, size, calls>>

\* MLST.  A server that answers for a folder as Type=cdir is not understood:
\* the folder's own listing is asked for the name.
Mlst ==
    /\ call.stage = "mlst"
    /\ IF "mlst" \notin server.does
       THEN /\ caps' = caps \ {"mlst"}
            /\ call' = [call EXCEPT !.stage = Listing]
       ELSE /\ UNCHANGED caps
            /\ IF there[call.name] = "absent" \/ call.name \in denied THEN Missing
               ELSE IF there[call.name] = "directory" /\ server.cdir
               THEN call' = [call EXCEPT !.stage = Listing]
               ELSE Found(there[call.name], size)
    /\ UNCHANGED <<server, there, denied, size, calls>>

\* MLSD or LIST over the open passive connection.
List ==
    /\ call.stage \in {"mlsd", "list"} /\ call.passive
    /\ IF call.stage = "mlsd" /\ "mlsd" \notin server.does
       THEN \* 500 to 502: EPSV is suspected first, MLSD after that
            IF "epsv" \in caps
            THEN caps' = caps \ {"epsv"} /\ call' = [call EXCEPT !.passive = FALSE]
            ELSE caps' = caps \ {"mlsd"} /\ call' = [call EXCEPT !.stage = "list", !.passive = FALSE]
       ELSE /\ UNCHANGED caps
            /\ IF call.op \in {"list", "complete"} THEN Reply(Listed(call.op, call.stage))
               ELSE IF call.name \notin Entries(call.stage) THEN Missing
               ELSE Found(there[call.name], IF there[call.name] = "file" THEN size ELSE None)
    /\ UNCHANGED <<server, there, denied, size, calls>>

\* mutant: the reported size is trusted
RetrieveTrusting ==
    /\ call.stage = "retr" /\ call.passive
    /\ Answers(size)
    /\ UNCHANGED <<server, there, denied, size, caps, calls>>

\* The reader stops at the limit, whatever size was reported before.
Retrieve ==
    /\ call.stage = "retr" /\ call.passive
    /\ IF size > Limit THEN Fail ELSE Answers(size)
    /\ UNCHANGED <<server, there, denied, size, caps, calls>>

\* STOR, accepted or refused.  A refusal of 500 to 502 sends it once more by
\* PASV.  After the confirmed upload the time of the file is looked up.
Store ==
    /\ call.stage = "stor" /\ call.passive
    /\ LET refused == there[call.name] = "directory" \/ call.name \in denied
       IN  \/ /\ ~refused
              /\ there' = [there EXCEPT ![call.name] = "file"]
              /\ call' = [call EXCEPT !.stage = Lookup, !.passive = FALSE]
              /\ UNCHANGED caps
           \/ /\ refused /\ "epsv" \in caps
              /\ caps' = caps \ {"epsv"} /\ call' = [call EXCEPT !.passive = FALSE]
              /\ UNCHANGED there
           \/ refused /\ Fail /\ UNCHANGED <<caps, there>>
    /\ UNCHANGED <<server, denied, size, calls>>

\* Another user writes to the file.
Grow ==
    /\ size <= Limit
    /\ size' = size + 1
    /\ UNCHANGED <<server, there, denied, caps, call, calls>>

Works == Passive \/ Mlst \/ List \/ Retrieve \/ Store

Next ==
    \/ \E op \in Operations, n \in Names \ Unsafe : Begin(op, n)
    \/ Works
    \/ Grow

Spec == Init /\ [][Next]_vars

\* The server answers every command: a session that it leaves without an
\* answer is lost after the timeout of the socket, see FtpPool.
Fairness == WF_vars(Works)

-----------------------------------------------------------------------------
TypeOK ==
    /\ there \in [Names -> {"absent", "file", "directory"}]
    /\ size \in 0..(Limit + 1)
    /\ caps \subseteq Commands
    /\ call.stage \in DataStages \cup {"none", "mlst", "done"}

Answered == call.stage = "done" /\ call.answer[1] = "ok"
Answer == call.answer[2]

(***************************************************************************)
(* complete_listing "is refused as a whole instead of being processed in    *)
(* part": a recursive operation sees every item of the folder or an error,  *)
(* whichever of MLSD and LIST the server turns out to know, but for the     *)
(* items on lines of LIST that neither parser reads: they are left out      *)
(* without an error (RemoteCopy shows what that does to a move).  The       *)
(* listing that the panel shows leaves out the unsafe names as well, and    *)
(* neither shows what is not there.                                         *)
(***************************************************************************)
LeftOut(op) == (IF "mlsd" \in caps THEN {} ELSE Odd) \cup (IF op = "list" THEN Unsafe ELSE {})
ListingWhole ==
    (Answered /\ call.op \in {"list", "complete"}) =>
        Answer \subseteq Existing /\ Existing \ Answer \subseteq LeftOut(call.op)

\* Does not hold: LIST lines that no parser reads are left out (listing.rs).
NothingLeftOut == (Answered /\ call.op = "complete") => Answer = Existing

(***************************************************************************)
(* "The entry at path, or None if the server says it does not exist": an    *)
(* item that is there is not reported missing because the server lacks      *)
(* MLST, MLSD or EPSV or answers MLST in its own way, unless the server     *)
(* denies it to this user or LIST shows it on a line no parser reads.       *)
(***************************************************************************)
StatTrue ==
    (Answered /\ call.op = "stat") =>
        \/ Answer = there[call.name]
        \/ Answer = "absent"
             /\ call.name \in denied \cup (IF "mlsd" \in caps THEN {} ELSE Odd)

(***************************************************************************)
(* No read returns more than the limit, though the size is looked up by one *)
(* command and the content read by another.                                 *)
(***************************************************************************)
ReadLimited == (Answered /\ call.op = "read") => Answer <= Limit

(***************************************************************************)
(* Every call ends: the falls back from EPSV, MLST and MLSD are remembered  *)
(* and so cannot go round.                                                  *)
(***************************************************************************)
CallsEnd == []<>(call.stage \in {"none", "done"})
=============================================================================
