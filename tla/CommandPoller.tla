---------------------------- MODULE CommandPoller ----------------------------
(***************************************************************************)
(* The device side of the fleet command queue (deputyctl commands poll).   *)
(* An account owner enqueues commands at the API; a poller fetches the     *)
(* pending ones, hands each to the resident deputyd and posts the outcome. *)
(* A command stays pending at the API until an outcome is recorded, so a   *)
(* lost post, a crash or a second poller (`poll --once` beside the         *)
(* service) delivers it again.  The API and deputyd are external: the API  *)
(* lists pending commands in the order they were enqueued, deputyd runs a  *)
(* command it is asked to run, or fails.                                   *)
(***************************************************************************)
EXTENDS Integers, Sequences, SequencesExt

CONSTANTS
    Commands,   \* command ids
    Pollers,    \* processes that drain the queue
    Service,    \* the one that systemd keeps running
    MaxTime,    \* bound on the clock
    None

ASSUME PollersAssumption == Service \in Pollers
ASSUME ClockAssumption == MaxTime \in Nat
Outcomes == {"completed", "failed", "unsupported", "expired"}

ASSUME NoneAssumption == None \notin Nat \cup Commands \cup Outcomes

VARIABLES
    status,     \* what the API records of each command
    queue,      \* commands in the order they were enqueued
    kind,       \* each command's: "known" if queued_agent_command translates it,
                \* "unknown", or "future" if this build does not speak its protocol
    expires,    \* each command's expires_at, None when absent or unreadable
    clock,
    batch,      \* what a poller still has to drain of its last fetch
    pc,         \* "idle", "drain", "run" (asked deputyd) or "post"
    outcome,    \* the outcome a poller is about to post
    ran,        \* times deputyd ran a command: 0, 1, or 2 for more
    applied,    \* the command deputyd ran last
    doubtful    \* history: commands whose result did not reach the API when it
                \* was due, and those that two pollers held at once

vars == <<status, queue, kind, expires, clock, batch, pc, outcome, ran, applied, doubtful>>

Init ==
    /\ status = [c \in Commands |-> "absent"]
    /\ queue = <<>>
    /\ kind \in [Commands -> {"known", "unknown", "future"}]
    /\ expires = [c \in Commands |-> None]
    /\ clock = 0
    /\ batch = [p \in Pollers |-> <<>>]
    /\ pc = [p \in Pollers |-> "idle"]
    /\ outcome = [p \in Pollers |-> None]
    /\ ran = [c \in Commands |-> 0]
    /\ applied = None
    /\ doubtful = {}

-----------------------------------------------------------------------------
(* The API and the clock *)

Enqueue(c, e) ==
    /\ status[c] = "absent"
    /\ e \in (clock + 1 .. MaxTime) \cup {None}
    /\ status' = [status EXCEPT ![c] = "pending"]
    /\ queue' = Append(queue, c)
    /\ expires' = [expires EXCEPT ![c] = e]
    /\ UNCHANGED <<kind, clock, batch, pc, outcome, ran, applied, doubtful>>

Tick ==
    /\ clock < MaxTime
    /\ clock' = clock + 1
    /\ UNCHANGED <<status, queue, kind, expires, batch, pc, outcome, ran, applied, doubtful>>

\* c was enqueued before d.
Before(c, d) == \E i, j \in DOMAIN queue : i < j /\ queue[i] = c /\ queue[j] = d

\* GET .../commands/pending: the pending ones in that order.
IsPending(s) ==
    /\ ToSet(s) = {c \in Commands : status[c] = "pending"}
    /\ \A k, l \in DOMAIN s : k < l => Before(s[k], s[l])
Lists == UNION {[1 .. n -> Commands] : n \in 1 .. Len(queue)}

-----------------------------------------------------------------------------
(* A poller *)

\* What the other pollers hold of the commands in s.
HeldBesides(p, s) == ToSet(s) \cap UNION {ToSet(batch[q]) : q \in Pollers \ {p}}

\* Mutant: the list is drained from its end.
FetchReversed(p) ==
    /\ pc[p] = "idle"
    /\ \E s \in Lists :
        /\ IsPending(s)
        /\ batch' = [batch EXCEPT ![p] = Reverse(s)]
        /\ doubtful' = doubtful \cup HeldBesides(p, s)
    /\ pc' = [pc EXCEPT ![p] = "drain"]
    /\ UNCHANGED <<status, queue, kind, expires, clock, outcome, ran, applied>>

\* drain_once; a failed or empty fetch changes nothing.
Fetch(p) ==
    /\ pc[p] = "idle"
    /\ \E s \in Lists :
        /\ IsPending(s)
        /\ batch' = [batch EXCEPT ![p] = s]
        /\ doubtful' = doubtful \cup HeldBesides(p, s)
    /\ pc' = [pc EXCEPT ![p] = "drain"]
    /\ UNCHANGED <<status, queue, kind, expires, clock, outcome, ran, applied>>

command_expired(c) == expires[c] # None /\ clock >= expires[c]

\* The cloud's name and parameters have a typed command of deputyd's.
queued_agent_command(c) == kind[c] # "unknown"

\* What drain_once decides about a command without asking deputyd: protocol
\* first, then expiry, then the allow-list of the executor.
Refusal(c) ==
    IF kind[c] = "future" THEN "unsupported"
    ELSE IF command_expired(c) THEN "expired"
    ELSE IF ~queued_agent_command(c) THEN "unsupported"
    ELSE "none"

\* Mutant: a refused command is skipped without an outcome.
RefuseSilently(p) ==
    /\ pc[p] = "drain" /\ Refusal(Head(batch[p])) # "none"
    /\ batch' = [batch EXCEPT ![p] = Tail(@)]
    /\ pc' = [pc EXCEPT ![p] = IF Tail(batch[p]) = <<>> THEN "idle" ELSE "drain"]
    /\ UNCHANGED <<status, queue, kind, expires, clock, outcome, ran, applied, doubtful>>

Refuse(p) ==
    /\ pc[p] = "drain" /\ Refusal(Head(batch[p])) # "none"
    /\ outcome' = [outcome EXCEPT ![p] = Refusal(Head(batch[p]))]
    /\ pc' = [pc EXCEPT ![p] = "post"]
    /\ UNCHANGED <<status, queue, kind, expires, clock, batch, ran, applied, doubtful>>

\* The request is written to deputyd's socket.
Ask(p) ==
    /\ pc[p] = "drain" /\ Refusal(Head(batch[p])) = "none"
    /\ pc' = [pc EXCEPT ![p] = "run"]
    /\ UNCHANGED <<status, queue, kind, expires, clock, batch, outcome, ran, applied, doubtful>>

\* deputyd's answer: a result, an error, a success without a result, or none
\* because it closed the socket.
Answers == {"result", "error", "empty", "none"}
ensure_success(answer) == IF answer = "result" THEN "completed" ELSE "failed"

\* deputyd runs the command and answers whatever it answers.
Run(p) ==
    LET c == Head(batch[p]) IN
    /\ pc[p] = "run"
    /\ ran' = [ran EXCEPT ![c] = IF @ = 0 THEN 1 ELSE 2]
    /\ applied' = c
    /\ \E answer \in Answers : outcome' = [outcome EXCEPT ![p] = ensure_success(answer)]
    /\ pc' = [pc EXCEPT ![p] = "post"]
    /\ UNCHANGED <<status, queue, kind, expires, clock, batch, doubtful>>

\* deputyd is not there, or answers with an error before doing anything.
RunFails(p) ==
    /\ pc[p] = "run"
    /\ outcome' = [outcome EXCEPT ![p] = ensure_success("none")]
    /\ pc' = [pc EXCEPT ![p] = "post"]
    /\ UNCHANGED <<status, queue, kind, expires, clock, batch, ran, applied, doubtful>>

\* The poller goes on to the next command of its batch.
Advance(p) ==
    /\ batch' = [batch EXCEPT ![p] = Tail(@)]
    /\ pc' = [pc EXCEPT ![p] = IF Tail(batch[p]) = <<>> THEN "idle" ELSE "drain"]
    /\ outcome' = [outcome EXCEPT ![p] = None]

\* Mutant: every outcome is posted as completed.
PostedCompleted(p) == "completed"

Posted(p) == outcome[p]

\* Mutant: failures are not posted.
PostOnlySuccess(p) ==
    LET c == Head(batch[p]) IN
    /\ pc[p] = "post"
    /\ status' = IF Posted(p) = "failed" THEN status
                 ELSE [status EXCEPT ![c] = Posted(p)]
    /\ Advance(p)
    /\ UNCHANGED <<queue, kind, expires, clock, ran, applied, doubtful>>

\* POST .../commands/:id/result reaches the API, whether or not the response
\* comes back.  What the API does with a second result is its own business.
Post(p) ==
    LET c == Head(batch[p]) IN
    /\ pc[p] = "post"
    /\ \/ status' = [status EXCEPT ![c] = Posted(p)]
       \/ status[c] # "pending" /\ UNCHANGED status
    /\ Advance(p)
    /\ UNCHANGED <<queue, kind, expires, clock, ran, applied, doubtful>>

\* The post fails: it is logged, and the command stays pending at the API.
PostLost(p) ==
    /\ pc[p] = "post"
    /\ Advance(p)
    /\ doubtful' = doubtful \cup {Head(batch[p])}
    /\ UNCHANGED <<status, queue, kind, expires, clock, ran, applied>>

\* The poller is killed; the service manager starts it again.
Crash(p) ==
    /\ pc[p] # "idle"
    /\ batch' = [batch EXCEPT ![p] = <<>>]
    /\ pc' = [pc EXCEPT ![p] = "idle"]
    /\ outcome' = [outcome EXCEPT ![p] = None]
    /\ doubtful' = IF pc[p] = "post" THEN doubtful \cup {Head(batch[p])} ELSE doubtful
    /\ UNCHANGED <<status, queue, kind, expires, clock, ran, applied>>

PollerNext(p) ==
    \/ Fetch(p) \/ Refuse(p) \/ Ask(p) \/ Run(p) \/ RunFails(p)
    \/ Post(p) \/ PostLost(p) \/ Crash(p)

Next ==
    \/ \E c \in Commands, e \in (1 .. MaxTime) \cup {None} : Enqueue(c, e)
    \/ Tick
    \/ \E p \in Pollers : PollerNext(p)

Spec == Init /\ [][Next]_vars

\* The service is restarted and polls again, deputyd answers it now and then, and
\* a post gets through now and then; a poll --once may stop anywhere.
Fairness ==
    /\ SF_vars(Fetch(Service)) /\ SF_vars(Refuse(Service)) /\ SF_vars(Ask(Service))
    /\ SF_vars(Run(Service) \/ RunFails(Service)) /\ SF_vars(Post(Service))
FairSpec == Spec /\ Fairness

-----------------------------------------------------------------------------
(* Properties *)

\* A recorded outcome is true of the device whatever was lost, repeated or
\* killed: "completed" only of a command that deputyd ran, "unsupported" only
\* of one that it never did.
OutcomesAreTrue ==
    \A c \in Commands :
        /\ status[c] = "completed" => ran[c] > 0
        /\ status[c] = "unsupported" => ran[c] = 0

\* There are finitely many commands: every one that was enqueued gets an outcome, however often posts are
\* lost and pollers die.
EveryCommandSettles ==
    []<>(\A c \in Commands : status[c] # "pending")

\* A command runs again only if its own result was lost or two pollers held it.
RunsOnce == \A c \in Commands : ran[c] > 1 => c \in doubtful

\* The device follows the queue: a command that runs after a later one is such a
\* command too, so an operator's stop is not undone by an earlier start otherwise.
FollowsQueue ==
    [][\A i, j \in 1 .. Len(queue) :
           i < j /\ applied = queue[j] /\ applied' = queue[i] => queue[i] \in doubtful]_vars

=============================================================================
