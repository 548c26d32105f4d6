----------------------------- MODULE AuditSpool -----------------------------
(***************************************************************************)
(* The audit spool (deputyctl audit emit, audit flush): newline-delimited  *)
(* events in a local file, uploaded as one batch and then truncated.  No   *)
(* process locks the file.  An emitted event goes out in two writes, the   *)
(* text and the newline; a flush reads the file, posts what it read and    *)
(* truncates whatever the file holds by then.                             *)
(***************************************************************************)
EXTENDS Integers, Sequences, SequencesExt, FiniteSets

CONSTANTS
    Events,
    Flushers,   \* concurrent runs of audit flush
    NL          \* the newline

ASSUME NewlineAssumption == NL \notin Events

VARIABLES
    spool,      \* the file: events and newlines
    writing,    \* emitters that have written their event and not the newline
    emitted,    \* events emitted so far, in order
    flush,      \* a flush: "idle", "read" or "accepted" (a 2xx came back)
    body,       \* what a flush has read
    batches,    \* the batches that the API has accepted
    exposed     \* history: events appended between the read and the truncation
                \* of one flush

spoolVars == <<spool, writing, emitted, flush, body, batches, exposed>>

\* Bound: the API is sent a batch again at most this often.
MaxBatches == 3

SpoolInit ==
    /\ spool = <<>> /\ writing = {} /\ emitted = <<>>
    /\ flush = [f \in Flushers |-> "idle"]
    /\ body = [f \in Flushers |-> <<>>]
    /\ batches = <<>>
    /\ exposed = {}

\* The batch of a spool: its order is not looked at by any property.
EventsOf(s) == ToSet(s) \ {NL}

-----------------------------------------------------------------------------
(* audit emit *)

\* append_event: the file is opened for appending and the text written.
EmitText(e) ==
    /\ e \notin ToSet(emitted)
    /\ spool' = Append(spool, e)
    /\ emitted' = Append(emitted, e)
    /\ writing' = writing \cup {e}
    /\ exposed' = IF \E f \in Flushers : flush[f] # "idle" THEN exposed \cup {e} ELSE exposed
    /\ UNCHANGED <<flush, body, batches>>

EmitNewline(e) ==
    /\ e \in writing
    /\ spool' = Append(spool, NL)
    /\ writing' = writing \ {e}
    /\ UNCHANGED <<emitted, flush, body, batches, exposed>>

EmitDies(e) ==
    /\ e \in writing
    /\ writing' = writing \ {e}
    /\ UNCHANGED <<spool, emitted, flush, body, batches, exposed>>

-----------------------------------------------------------------------------
(* audit flush *)

\* An empty spool ends the command.
FlushRead(f) ==
    /\ flush[f] = "idle" /\ EventsOf(spool) # {}
    /\ body' = [body EXCEPT ![f] = spool]
    /\ flush' = [flush EXCEPT ![f] = "read"]
    /\ UNCHANGED <<spool, writing, emitted, batches, exposed>>

\* The command ends: refused, unreachable, killed, or done.
FlushEnds(f) ==
    /\ flush' = [flush EXCEPT ![f] = "idle"]
    /\ body' = [body EXCEPT ![f] = <<>>]

\* The API takes the batch; the answer may be lost on the way back, or the
\* flush be killed before it truncates.
Accept(f) ==
    /\ flush[f] = "read" /\ Len(batches) < MaxBatches
    /\ batches' = Append(batches, EventsOf(body[f]))
    /\ \/ flush' = [flush EXCEPT ![f] = "accepted"] /\ UNCHANGED body
       \/ FlushEnds(f)
    /\ UNCHANGED <<spool, writing, emitted, exposed>>

\* Mutant: any response at all truncates.
RejectTruncates(f) ==
    /\ flush[f] = "read"
    /\ FlushEnds(f)
    /\ spool' = <<>>
    /\ UNCHANGED <<writing, emitted, batches, exposed>>

\* No token, no connection, or a status that is not 2xx: the spool stays.
Reject(f) ==
    /\ flush[f] = "read"
    /\ FlushEnds(f)
    /\ UNCHANGED <<spool, writing, emitted, batches, exposed>>

\* fs::write(&spool, ""): all of it, whatever was appended since the read.
Truncate(f) ==
    /\ flush[f] = "accepted"
    /\ spool' = <<>>
    /\ FlushEnds(f)
    /\ UNCHANGED <<writing, emitted, batches, exposed>>

SpoolNext ==
    \/ \E e \in Events : EmitText(e) \/ EmitNewline(e) \/ EmitDies(e)
    \/ \E f \in Flushers : FlushRead(f) \/ Accept(f) \/ Reject(f) \/ Truncate(f)

SpoolSpec == SpoolInit /\ [][SpoolNext]_spoolVars

-----------------------------------------------------------------------------
(* Properties *)

Uploaded == UNION ToSet(batches)

\* An emitted event is in the spool or with the API, whatever fails, repeats,
\* overlaps or dies, unless it was appended in the middle of a flush.
NothingLost ==
    \A e \in ToSet(emitted) \ exposed : e \in ToSet(spool) \/ e \in Uploaded

=============================================================================
