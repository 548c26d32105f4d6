---------------------------- MODULE Cloud_proofs ----------------------------
(***************************************************************************)
(* The two conversations of a device with the cloud.  The fleet commands   *)
(* (CommandPoller) for any number of commands and pollers, lost posts and  *)
(* deaths: their outcomes are true, and what nobody else touches runs once *)
(* and in order.  The integrated tunnel (TunnelMux) for any number of      *)
(* streams, identifiers, services and frames, in any interleaving of the   *)
(* cloud, the loop, the tasks and the local services: no data of a stream  *)
(* reach another one.                                                      *)
(***************************************************************************)
EXTENDS CommandPoller, TunnelMux, TLAPS

Runnable == {c \in Commands : kind[c] = "known"}

\* The types the argument needs; what a batch holds is left out,
\* because a result for an id that is not a command changes no function.
Types ==
    /\ batch = [p \in Pollers |-> batch[p]]
    /\ kind \in [Commands -> {"known", "unknown", "future"}]
    /\ status \in [Commands -> {"absent", "pending"} \cup Outcomes]
    /\ pc \in [Pollers -> {"idle", "drain", "run", "post"}]
    /\ outcome \in [Pollers -> Outcomes \cup {None}]
    /\ ran \in [Commands -> 0 .. 2]

\* Only a command that passed drain_once's checks ever runs.
OnlyRunnable == \A c \in Commands : ran[c] > 0 => c \in Runnable

\* The outcome that a poller is about to post fits the head of its batch.
Fits(p, c) ==
    /\ pc[p] = "run" => c \in Runnable
    /\ pc[p] = "post" /\ outcome[p] = "completed" => c \in Runnable /\ ran[c] > 0
    /\ pc[p] = "post" /\ outcome[p] = "unsupported" => c \notin Runnable
InHand ==
    \A p \in Pollers :
        /\ pc[p] = "post" => outcome[p] \in Outcomes
        /\ Head(batch[p]) \in Commands => Fits(p, Head(batch[p]))

Recorded ==
    \A c \in Commands :
        /\ status[c] = "completed" => ran[c] > 0
        /\ status[c] = "unsupported" => c \notin Runnable

IInv == Types /\ OnlyRunnable /\ InHand /\ Recorded

\* Nothing has been asked or recorded at the start.
LEMMA InitHolds == Init => IInv
BY DEF Init, IInv, Types, OnlyRunnable, InHand, Fits, Recorded, Outcomes, Runnable

\* Enqueuing and the clock touch no poller and no recorded outcome.
LEMMA ApiStep ==
    ASSUME IInv, Tick \/ \E c \in Commands, e \in (1 .. MaxTime) \cup {None} : Enqueue(c, e)
    PROVE  IInv'
<1>1. CASE Tick
  BY <1>1 DEF Tick, IInv, Types, OnlyRunnable, InHand, Fits, Recorded, Runnable
<1>2. CASE \E c \in Commands, e \in (1 .. MaxTime) \cup {None} : Enqueue(c, e)
  <2>1. PICK c \in Commands : /\ status' = [status EXCEPT ![c] = "pending"]
                              /\ UNCHANGED <<batch, pc, outcome, ran, kind>>
    BY <1>2 DEF Enqueue
  <2>2. Types'
    BY <2>1 DEF IInv, Types
  <2>3. OnlyRunnable' /\ InHand'
    BY <2>1 DEF IInv, OnlyRunnable, InHand, Fits, Runnable
  <2>4. Recorded'
    BY <2>1 DEF IInv, Types, Recorded, Runnable
  <2> QED BY <2>2, <2>3, <2>4 DEF IInv
<1> QED BY <1>1, <1>2

\* Fetching, ending and dying leave the poller with nothing to post.
LEMMA BatchStep ==
    ASSUME IInv, NEW p \in Pollers, Fetch(p) \/ PostLost(p) \/ Crash(p)
    PROVE  IInv'
<1>1. PICK s \in {"idle", "drain"}, b \in {<<>>, Tail(batch[p])} \cup Lists :
            /\ pc' = [pc EXCEPT ![p] = s]
            /\ batch' = [batch EXCEPT ![p] = b]
            /\ \/ UNCHANGED outcome
               \/ outcome' = [outcome EXCEPT ![p] = None]
            /\ UNCHANGED <<status, ran, kind>>
  BY DEF Fetch, PostLost, Crash, Advance
<1>2. Types'
  BY <1>1 DEF IInv, Types
<1>3. OnlyRunnable' /\ Recorded'
  BY <1>1 DEF IInv, OnlyRunnable, Recorded, Runnable
<1>4. InHand'
  BY <1>1 DEF IInv, Types, InHand, Fits, Runnable
<1> QED BY <1>2, <1>3, <1>4 DEF IInv

\* drain_once refuses exactly what is not runnable, or has expired.
LEMMA DecideStep ==
    ASSUME IInv, NEW p \in Pollers, Refuse(p) \/ Ask(p)
    PROVE  IInv'
<1>1. CASE Refuse(p)
  <2>1. PICK o \in {"expired", "unsupported"} :
            /\ outcome' = [outcome EXCEPT ![p] = o]
            /\ pc' = [pc EXCEPT ![p] = "post"]
            /\ o = "unsupported" => Head(batch[p]) \notin Runnable
            /\ UNCHANGED <<status, batch, ran, kind>>
    BY <1>1 DEF Refuse, Refusal, queued_agent_command, Runnable
  <2>2. Types'
    BY <2>1 DEF IInv, Types, Outcomes
  <2>3. OnlyRunnable' /\ Recorded'
    BY <2>1 DEF IInv, OnlyRunnable, Recorded, Runnable
  <2>4. InHand'
    BY <2>1 DEF IInv, Types, InHand, Fits, Outcomes, Runnable
  <2> QED BY <2>2, <2>3, <2>4 DEF IInv
<1>2. CASE Ask(p)
  <2>1. Head(batch[p]) \in Commands => Head(batch[p]) \in Runnable
    BY <1>2 DEF Ask, Refusal, queued_agent_command, IInv, Types, Runnable
  <2>2. Types'
    BY <1>2 DEF Ask, IInv, Types
  <2>3. OnlyRunnable' /\ Recorded'
    BY <1>2 DEF Ask, IInv, OnlyRunnable, Recorded, Runnable
  <2>4. InHand'
    BY <1>2, <2>1 DEF Ask, IInv, Types, InHand, Fits, Runnable
  <2> QED BY <2>2, <2>3, <2>4 DEF IInv
<1> QED BY <1>1, <1>2

\* A command that runs was runnable, and nobody's count goes down.
LEMMA RunStep ==
    ASSUME IInv, NEW p \in Pollers, Run(p)
    PROVE  IInv'
<1> DEFINE c == Head(batch[p])
<1>1. c \in Commands => c \in Runnable
  BY DEF Run, IInv, InHand, Fits, Runnable
<1>2. PICK o \in {"completed", "failed"} : outcome' = [outcome EXCEPT ![p] = o]
  BY DEF Run, ensure_success
<1>3. PICK n \in {1, 2} : ran' = [ran EXCEPT ![c] = n]
  BY DEF Run
<1>4. pc' = [pc EXCEPT ![p] = "post"] /\ UNCHANGED <<status, batch, kind>>
  BY DEF Run
<1> HIDE DEF c
<1>5. Types'
  <2>1. ran' \in [Commands -> 0 .. 2]
    <3>1. ran \in [Commands -> 0 .. 2] /\ n \in 0 .. 2
      BY DEF IInv, Types
    <3> QED BY <3>1, <1>3
  <2>2. outcome' \in [Pollers -> Outcomes \cup {None}]
    BY <1>2 DEF IInv, Types, Outcomes
  <2>3. pc' \in [Pollers -> {"idle", "drain", "run", "post"}]
    BY <1>4 DEF IInv, Types
  <2> QED BY <2>1, <2>2, <2>3, <1>4 DEF IInv, Types
<1>6. \A d \in Commands : ran[d] > 0 => ran'[d] > 0
  BY <1>3 DEF IInv, Types
<1>7. OnlyRunnable'
  BY <1>1, <1>3, <1>4 DEF IInv, Types, OnlyRunnable, Runnable
<1>8. Recorded'
  BY <1>4, <1>6 DEF IInv, Recorded, Runnable
<1>9. InHand'
  <2>1. SUFFICES ASSUME NEW q \in Pollers
                 PROVE  /\ pc'[q] = "post" => outcome'[q] \in Outcomes
                        /\ Head(batch[q]) \in Commands => Fits(q, Head(batch[q]))'
    BY <1>4 DEF InHand, Fits, Runnable
  <2>2. CASE q = p
    <3>1. c \in Commands => ran'[c] > 0
      BY <1>3 DEF IInv, Types
    <3> QED BY <2>2, <3>1, <1>1, <1>2, <1>4 DEF IInv, Types, Fits, Outcomes, Runnable, c
  <2>3. CASE q # p
    <3>1. pc'[q] = pc[q] /\ outcome'[q] = outcome[q]
      BY <2>3, <1>2, <1>4 DEF IInv, Types
    <3> QED BY <3>1, <1>4, <1>6 DEF IInv, InHand, Fits, Runnable
  <2> QED BY <2>2, <2>3
<1> QED BY <1>5, <1>7, <1>8, <1>9 DEF IInv

\* A failure posts an outcome that claims nothing.
LEMMA RunFailsStep ==
    ASSUME IInv, NEW p \in Pollers, RunFails(p)
    PROVE  IInv'
<1>1. Types'
  BY DEF RunFails, ensure_success, IInv, Types, Outcomes
<1>2. OnlyRunnable' /\ Recorded'
  BY DEF RunFails, ensure_success, IInv, OnlyRunnable, Recorded, Runnable
<1>3. InHand'
  BY DEF RunFails, ensure_success, IInv, Types, InHand, Fits, Outcomes, Runnable
<1> QED BY <1>1, <1>2, <1>3 DEF IInv

\* What a post records is what the poller had in hand.
LEMMA PostStep ==
    ASSUME IInv, NEW p \in Pollers, Post(p)
    PROVE  IInv'
<1>1. PICK s \in {"idle", "drain"}, b \in {<<>>, Tail(batch[p])} \cup Lists :
            /\ pc' = [pc EXCEPT ![p] = s]
                                        /\ batch' = [batch EXCEPT ![p] = b]
                                        /\ outcome' = [outcome EXCEPT ![p] = None]
                                        /\ UNCHANGED <<ran, kind>>
  BY DEF Post, Advance
<1>2. \/ status' = [status EXCEPT ![Head(batch[p])] = outcome[p]]
      \/ UNCHANGED status
  BY DEF Post, Posted
<1>3. pc[p] = "post"
  BY DEF Post
<1>4. Types'
  BY <1>1, <1>2, <1>3 DEF IInv, Types, InHand, Fits, Runnable
<1>5. OnlyRunnable'
  BY <1>1 DEF IInv, OnlyRunnable, Runnable
<1>6. InHand'
  BY <1>1 DEF IInv, Types, InHand, Fits, Runnable
<1>7. Recorded'
  BY <1>1, <1>2, <1>3 DEF IInv, Types, InHand, Fits, Recorded, Runnable
<1> QED BY <1>4, <1>5, <1>6, <1>7 DEF IInv

LEMMA Step == IInv /\ [Next]_vars => IInv'
<1> SUFFICES ASSUME IInv, [Next]_vars PROVE IInv'
  OBVIOUS
<1>1. CASE UNCHANGED vars
  BY <1>1 DEF vars, IInv, Types, OnlyRunnable, InHand, Fits, Recorded, Runnable
<1>2. CASE Tick \/ \E c \in Commands, e \in (1 .. MaxTime) \cup {None} : Enqueue(c, e)
  BY <1>2, ApiStep
<1>3. CASE \E p \in Pollers : PollerNext(p)
  BY <1>3, BatchStep, DecideStep, RunStep, RunFailsStep, PostStep DEF PollerNext
<1> QED BY <1>1, <1>2, <1>3 DEF Next

\* Whatever is lost, repeated or killed, "completed" is recorded only of a
\* command that deputyd ran and "unsupported" only of one that it never ran.
THEOREM OutcomesTrue == Spec => []OutcomesAreTrue
<1>1. IInv => OutcomesAreTrue
  BY DEF IInv, Types, OnlyRunnable, Recorded, OutcomesAreTrue, Runnable
<1> QED BY InitHolds, Step, <1>1, PTL DEF Spec

-----------------------------------------------------------------------------
(* Once, and in order.  Doubtful commands are excepted throughout. *)

QueueOK ==
    /\ queue \in Seq(Commands)
    /\ \A i, j \in DOMAIN queue : queue[i] = queue[j] => i = j
    /\ \A i \in DOMAIN queue : status[queue[i]] # "absent"

\* A batch is in the order of the queue; a command that got its outcome since
\* it was fetched had a second holder; and nothing pending was passed over.
BatchOK(b) ==
    /\ b \in Seq(Commands)
    /\ \A k, l \in DOMAIN b : k < l => Before(b[k], b[l])
    /\ \A c \in ToSet(b) : status[c] = "pending" \/ (status[c] # "absent" /\ c \in doubtful)
    /\ \A c \in Commands, d \in ToSet(b) :
           Before(c, d) /\ status[c] = "pending" => c \in ToSet(b) \/ c \in doubtful
BatchesOK == \A p \in Pollers : BatchOK(batch[p]) /\ (pc[p] # "idle" => batch[p] # <<>>)

\* What two pollers hold is doubtful.
Shared ==
    \A p, q \in Pollers : p # q => ToSet(batch[p]) \cap ToSet(batch[q]) \subseteq doubtful

\* A command that ran and is still pending is about to be posted.
InPost(c) == \E p \in Pollers : pc[p] = "post" /\ Head(batch[p]) = c
RanOK ==
    \A c \in Commands :
        /\ ran[c] > 0 => status[c] # "absent"
        /\ ran[c] > 0 /\ status[c] = "pending" => c \in doubtful \/ InPost(c)
        /\ ran[c] > 1 => c \in doubtful

\* Nothing before the command that ran last is pending.
AppliedOK ==
    /\ applied \in Commands \cup {None}
    /\ applied \in Commands => status[applied] # "absent"
    /\ \A c \in Commands : Before(c, applied) /\ status[c] = "pending" => c \in doubtful

SInv == QueueOK /\ BatchesOK /\ Shared /\ RanOK /\ AppliedOK

LEMMA BeforeIrreflexive ==
    ASSUME QueueOK, NEW c, NEW d, Before(c, d), Before(d, c) PROVE FALSE
  BY DEF QueueOK, Before

LEMMA BeforeIn ==
    ASSUME QueueOK, NEW c, NEW d, Before(c, d)
    PROVE  c \in Commands /\ d \in Commands /\ status[c] # "absent" /\ status[d] # "absent"
  BY DEF QueueOK, Before

\* What a batch loses with its head.
LEMMA TailFacts ==
    ASSUME QueueOK, NEW b, BatchOK(b), b # <<>>
    PROVE  /\ Head(b) \in Commands /\ Head(b) \in ToSet(b)
           /\ ToSet(b) = ToSet(Tail(b)) \cup {Head(b)}
           /\ Head(b) \notin ToSet(Tail(b))
           /\ \A d \in ToSet(Tail(b)) : Before(Head(b), d)
           /\ Tail(b) \in Seq(Commands)
           /\ \A k, l \in DOMAIN Tail(b) : k < l => Before(Tail(b)[k], Tail(b)[l])
<1>1. b \in Seq(Commands) /\ Len(b) \in Nat \ {0}
  BY DEF BatchOK
<1>2. /\ Tail(b) \in Seq(Commands) /\ Len(Tail(b)) = Len(b) - 1
      /\ \A k \in DOMAIN Tail(b) : k + 1 \in DOMAIN b /\ Tail(b)[k] = b[k + 1]
  BY <1>1
<1>3. Head(b) = b[1] /\ 1 \in DOMAIN b /\ Head(b) \in Commands
  BY <1>1
<1>4. Head(b) \in ToSet(b) /\ ToSet(Tail(b)) \subseteq ToSet(b)
  BY <1>2, <1>3 DEF ToSet
<1>5. ToSet(b) \subseteq ToSet(Tail(b)) \cup {Head(b)}
  <2> SUFFICES ASSUME NEW k \in DOMAIN b, k # 1 PROVE b[k] \in ToSet(Tail(b))
    BY <1>3 DEF ToSet
  <2>1. k - 1 \in DOMAIN Tail(b) /\ Tail(b)[k - 1] = b[k]
    BY <1>1, <1>2
  <2> QED BY <2>1 DEF ToSet
<1>6. ASSUME NEW d \in ToSet(Tail(b)) PROVE Before(Head(b), d)
  <2>1. PICK k \in DOMAIN Tail(b) : d = Tail(b)[k]
    BY <1>6 DEF ToSet
  <2>2. k + 1 \in DOMAIN b /\ d = b[k + 1] /\ 1 < k + 1
    BY <1>1, <1>2, <2>1
  <2> QED BY <1>3, <2>2 DEF BatchOK
<1>7. Head(b) \notin ToSet(Tail(b))
  BY <1>6, BeforeIrreflexive
<1>8. ASSUME NEW k \in DOMAIN Tail(b), NEW l \in DOMAIN Tail(b), k < l
      PROVE  Before(Tail(b)[k], Tail(b)[l])
  <2>1. k + 1 \in DOMAIN b /\ l + 1 \in DOMAIN b /\ k + 1 < l + 1
    BY <1>1, <1>2, <1>8
  <2> QED BY <1>2, <2>1 DEF BatchOK
<1> QED BY <1>2, <1>3, <1>4, <1>5, <1>6, <1>7, <1>8

\* A step that leaves the queue and what the API has recorded alone, and makes
\* no command less doubtful, keeps every batch that it leaves alone.
LEMMA BatchStays ==
    ASSUME NEW p \in Pollers, BatchOK(batch[p]), batch'[p] = batch[p],
           UNCHANGED <<queue, status>>, doubtful \subseteq doubtful'
    PROVE  BatchOK(batch[p])'
<1>1. \A x, y : Before(x, y)' <=> Before(x, y)
  BY DEF Before
<1> QED BY <1>1 DEF BatchOK

LEMMA SInitHolds == Init => SInv
<1> SUFFICES ASSUME Init PROVE SInv
  OBVIOUS
<1>1. QueueOK /\ RanOK
  BY DEF Init, QueueOK, RanOK
<1>2. BatchesOK /\ Shared
  BY DEF Init, BatchesOK, BatchOK, Shared, ToSet
<1>3. AppliedOK
  BY NoneAssumption DEF Init, AppliedOK, Before
<1> QED BY <1>1, <1>2, <1>3 DEF SInv

\* Steps between the fetch and deputyd's answer change no batch.
LEMMA SControlStep ==
    ASSUME IInv, SInv, Tick \/ \E p \in Pollers : Refuse(p) \/ Ask(p) \/ RunFails(p)
    PROVE  SInv'
<1>1. UNCHANGED <<status, queue, batch, ran, applied, doubtful>>
  BY DEF Tick, Refuse, Ask, RunFails
<1>2. \A p \in Pollers : /\ pc'[p] # "idle" => pc[p] # "idle"
                         /\ pc[p] = "post" => pc'[p] = "post"
  BY DEF Tick, Refuse, Ask, RunFails, IInv, Types
<1>3. BatchesOK'
  <2> SUFFICES ASSUME NEW p \in Pollers PROVE BatchOK(batch[p])' /\ (pc'[p] # "idle" => batch'[p] # <<>>)
    BY DEF BatchesOK
  <2>1. BatchOK(batch[p]) /\ (pc[p] # "idle" => batch[p] # <<>>) /\ batch'[p] = batch[p]
    BY <1>1 DEF SInv, BatchesOK
  <2>2. BatchOK(batch[p])'
    BY <1>1, <2>1, BatchStays
  <2> QED BY <1>2, <2>1, <2>2
<1>4. RanOK'
  <2>1. \A c : InPost(c) => InPost(c)'
    BY <1>1, <1>2 DEF InPost
  <2> QED BY <1>1, <2>1 DEF SInv, RanOK
<1>5. QueueOK' /\ Shared' /\ AppliedOK'
  BY <1>1 DEF SInv, QueueOK, Shared, AppliedOK, Before
<1> QED BY <1>3, <1>4, <1>5 DEF SInv

\* A new command is behind all others.
LEMMA SEnqueueStep ==
    ASSUME IInv, SInv, NEW c \in Commands, NEW e, Enqueue(c, e)
    PROVE  SInv'
<1>1. /\ status[c] = "absent" /\ status' = [status EXCEPT ![c] = "pending"] /\ queue' = Append(queue, c)
      /\ UNCHANGED <<batch, pc, ran, applied, doubtful>>
      /\ status \in [Commands -> {"absent", "pending"} \cup Outcomes] /\ queue \in Seq(Commands)
  BY DEF Enqueue, IInv, Types, SInv, QueueOK
<1>2. /\ queue' \in Seq(Commands) /\ Len(queue') = Len(queue) + 1 /\ queue'[Len(queue) + 1] = c
      /\ \A i \in DOMAIN queue : i \in DOMAIN queue' /\ queue'[i] = queue[i] /\ queue[i] # c
      /\ \A i \in DOMAIN queue' : i \in DOMAIN queue \/ i = Len(queue) + 1
  BY <1>1 DEF SInv, QueueOK
<1>3. \A d \in Commands : d # c => status'[d] = status[d]
  BY <1>1
<1>4. QueueOK'
  <2>1. \A i, j \in DOMAIN queue' : queue'[i] = queue'[j] => i = j
    BY <1>2 DEF SInv, QueueOK
  <2>2. \A i \in DOMAIN queue' : status'[queue'[i]] # "absent"
    BY <1>1, <1>2 DEF SInv, QueueOK
  <2> QED BY <1>2, <2>1, <2>2 DEF QueueOK
<1>5. /\ \A x, y : Before(x, y) => Before(x, y)'
      /\ \A x, y : Before(x, y)' /\ y # c => Before(x, y) /\ x # c
  <2>1. \A x, y : Before(x, y) => Before(x, y)'
    BY <1>2 DEF Before
  <2>2. ASSUME NEW x, NEW y, Before(x, y)', y # c PROVE Before(x, y) /\ x # c
    <3>1. PICK i, j \in DOMAIN queue' : i < j /\ queue'[i] = x /\ queue'[j] = y
      BY <2>2 DEF Before
    <3>2. j \in DOMAIN queue /\ i \in DOMAIN queue
      BY <1>1, <1>2, <2>2, <3>1
    <3> QED BY <1>2, <3>1, <3>2 DEF Before
  <2> QED BY <2>1, <2>2
<1>6. BatchesOK'
  <2> SUFFICES ASSUME NEW p \in Pollers PROVE BatchOK(batch[p])'
    BY <1>1 DEF SInv, BatchesOK
  <2>1. BatchOK(batch[p])
    BY DEF SInv, BatchesOK
  <2>2. \A d \in ToSet(batch[p]) : d \in Commands /\ d # c
    BY <1>1, <2>1 DEF BatchOK, ToSet
  <2> QED BY <1>1, <1>3, <1>5, <2>1, <2>2 DEF BatchOK
<1>7. Shared' /\ RanOK'
  BY <1>1, <1>3 DEF SInv, Shared, RanOK, InPost, IInv, Types
<1>8. AppliedOK'
  <2>1. applied # c
    BY <1>1 DEF SInv, AppliedOK
  <2> QED BY <1>1, <1>3, <1>5, <2>1 DEF SInv, AppliedOK
<1> QED BY <1>4, <1>6, <1>7, <1>8 DEF SInv

\* What is fetched while another poller holds it becomes doubtful.
LEMMA SFetchStep ==
    ASSUME IInv, SInv, NEW p \in Pollers, Fetch(p)
    PROVE  SInv'
<1>1. PICK s \in Lists : /\ IsPending(s) /\ batch' = [batch EXCEPT ![p] = s]
                         /\ doubtful' = doubtful \cup HeldBesides(p, s)
  BY DEF Fetch
<1>2. /\ pc[p] = "idle" /\ pc' = [pc EXCEPT ![p] = "drain"] /\ UNCHANGED <<status, queue, ran, applied>>
      /\ pc \in [Pollers -> {"idle", "drain", "run", "post"}] /\ batch = [q \in Pollers |-> batch[q]]
  BY DEF Fetch, IInv, Types
<1>3. s \in Seq(Commands) /\ s # <<>>
  <2>1. PICK n \in 1 .. Len(queue) : s \in [1 .. n -> Commands]
    BY <1>1 DEF Lists
  <2>2. Len(queue) \in Nat
    BY DEF SInv, QueueOK
  <2> QED BY <2>1, <2>2
<1>4. /\ batch'[p] = s /\ \A q \in Pollers : q # p => batch'[q] = batch[q]
      /\ doubtful \subseteq doubtful'
      /\ \A q \in Pollers : q # p => ToSet(s) \cap ToSet(batch[q]) \subseteq doubtful'
  BY <1>1, <1>2 DEF HeldBesides
<1>5. QueueOK' /\ AppliedOK'
  BY <1>2, <1>4 DEF SInv, QueueOK, AppliedOK, Before
<1>6. BatchesOK'
  <2>1. BatchOK(s)'
    <3>1. \A x, y : Before(x, y)' <=> Before(x, y)
      BY <1>2 DEF Before
    <3>2. /\ ToSet(s) = {d \in Commands : status[d] = "pending"}
          /\ \A k, l \in DOMAIN s : k < l => Before(s[k], s[l])
      BY <1>1 DEF IsPending
    <3> QED BY <1>2, <1>3, <3>1, <3>2 DEF BatchOK
  <2>2. \A q \in Pollers : q # p => BatchOK(batch[q])'
    BY <1>2, <1>4, BatchStays DEF SInv, BatchesOK
  <2>3. \A q \in Pollers : pc'[q] # "idle" => batch'[q] # <<>>
    BY <1>2, <1>3, <1>4 DEF SInv, BatchesOK
  <2> QED BY <1>4, <2>1, <2>2, <2>3 DEF BatchesOK
<1>7. Shared'
  BY <1>4 DEF SInv, Shared
<1>8. RanOK'
  <2>1. \A c : InPost(c) => InPost(c)'
    BY <1>2, <1>4 DEF InPost
  <2> QED BY <1>2, <1>4, <2>1 DEF SInv, RanOK
<1> QED BY <1>5, <1>6, <1>7, <1>8 DEF SInv

\* At work on a command, a poller has the first of its batch, and unless that
\* is doubtful it is pending and nothing before it is.
LEMMA AtWork ==
    ASSUME SInv, NEW p \in Pollers, pc[p] \in {"run", "post"}
    PROVE  LET c == Head(batch[p]) IN
           /\ c \in Commands /\ c \in ToSet(batch[p]) /\ status[c] # "absent"
           /\ c \notin doubtful => status[c] = "pending"
           /\ \A d \in Commands : Before(d, c) /\ status[d] = "pending" => d \in doubtful
<1> DEFINE c == Head(batch[p])
<1>1. QueueOK /\ BatchOK(batch[p]) /\ batch[p] # <<>>
  BY DEF SInv, BatchesOK
<1>2. c \in Commands /\ c \in ToSet(batch[p])
  BY <1>1, TailFacts
<1>3. status[c] # "absent" /\ (c \notin doubtful => status[c] = "pending")
  BY <1>1, <1>2 DEF BatchOK
<1>4. ASSUME NEW d \in Commands, Before(d, c), status[d] = "pending" PROVE d \in doubtful
  <2>1. d \in ToSet(batch[p]) \/ d \in doubtful
    BY <1>1, <1>2, <1>4 DEF BatchOK
  <2>2. d \notin ToSet(batch[p])
    BY <1>1, <1>4, TailFacts, BeforeIrreflexive
  <2> QED BY <2>1, <2>2
<1> QED BY <1>2, <1>3, <1>4

\* Unless it is doubtful, a command that deputyd is asked to run has not run,
\* for it is pending and no poller is about to post it.
LEMMA NotYet ==
    ASSUME IInv, SInv, NEW p \in Pollers, pc[p] = "run", Head(batch[p]) \notin doubtful
    PROVE  ran[Head(batch[p])] = 0
<1> DEFINE c == Head(batch[p])
<1>1. c \in Commands /\ c \in ToSet(batch[p]) /\ status[c] = "pending"
  BY AtWork
<1>2. ~InPost(c)
  <2> SUFFICES ASSUME NEW q \in Pollers, pc[q] = "post", Head(batch[q]) = c PROVE FALSE
    BY DEF InPost
  <2>1. c \in ToSet(batch[q]) /\ q # p
    BY AtWork
  <2> QED BY <1>1, <2>1 DEF SInv, Shared
<1>3. ran[c] \in 0 .. 2
  BY <1>1 DEF IInv, Types
<1> QED BY <1>1, <1>2, <1>3 DEF SInv, RanOK

LEMMA SRunStep ==
    ASSUME IInv, SInv, NEW p \in Pollers, Run(p)
    PROVE  SInv'
<1>0. PICK c : c = Head(batch[p])
  OBVIOUS
<1>1. /\ pc[p] = "run" /\ pc' = [pc EXCEPT ![p] = "post"] /\ applied' = c
      /\ ran' = [ran EXCEPT ![c] = IF @ = 0 THEN 1 ELSE 2]
      /\ UNCHANGED <<status, queue, batch, doubtful>>
      /\ pc \in [Pollers -> {"idle", "drain", "run", "post"}] /\ ran \in [Commands -> 0 .. 2]
  BY <1>0 DEF Run, IInv, Types
<1>2. /\ c \in Commands /\ status[c] # "absent"
      /\ \A d \in Commands : Before(d, c) /\ status[d] = "pending" => d \in doubtful
  BY <1>0, <1>1, AtWork
<1>3. c \notin doubtful => ran[c] = 0
  BY <1>0, <1>1, NotYet
<1>4. QueueOK' /\ Shared'
  BY <1>1 DEF SInv, QueueOK, Shared
<1>5. BatchesOK'
  BY <1>1, BatchStays DEF SInv, BatchesOK
<1>6. RanOK'
  <2>1. InPost(c)'
    BY <1>0, <1>1 DEF InPost
  <2>2. \A d : InPost(d) => InPost(d)'
    BY <1>1 DEF InPost
  <2>3. \A d \in Commands : d # c => ran'[d] = ran[d]
    BY <1>1
  <2>4. c \notin doubtful => ran'[c] = 1
    <3>1. c \in Commands /\ ran \in [Commands -> 0 .. 2]
      BY <1>1, <1>2
    <3>2. ran'[c] = IF ran[c] = 0 THEN 1 ELSE 2
      BY <1>1, <3>1
    <3> QED BY <1>3, <3>2
  <2>5. ASSUME NEW d \in Commands, d # c
        PROVE  /\ ran'[d] > 0 => status'[d] # "absent"
               /\ ran'[d] > 0 /\ status'[d] = "pending" => d \in doubtful' \/ InPost(d)'
               /\ ran'[d] > 1 => d \in doubtful'
    BY <1>1, <2>2, <2>3, <2>5 DEF SInv, RanOK
  <2>6. /\ status'[c] # "absent" /\ InPost(c)'
        /\ ran'[c] > 1 => c \in doubtful'
    BY <1>1, <1>2, <2>1, <2>4
  <2> QED BY <2>5, <2>6 DEF RanOK
<1>7. AppliedOK'
  BY <1>1, <1>2 DEF AppliedOK, Before
<1> QED BY <1>4, <1>5, <1>6, <1>7 DEF SInv

\* What a poller loses of its batch cannot break what the batches promise, if
\* the command it had at work got its outcome or is doubtful, or did not run.
LEMMA Lost ==
    ASSUME IInv, SInv, NEW p \in Pollers, NEW b, NEW st,
           pc[p] # "idle", b \in {<<>>, Tail(batch[p])}, st \in {"idle", "drain"},
           st = "drain" => b = Tail(batch[p]) /\ b # <<>>,
           batch' = [batch EXCEPT ![p] = b], pc' = [pc EXCEPT ![p] = st],
           UNCHANGED <<queue, ran, applied>>,
           doubtful \subseteq doubtful',
           status' \in [Commands -> {"absent", "pending"} \cup Outcomes],
           \A d \in Commands : d # Head(batch[p]) => status'[d] = status[d],
           status'[Head(batch[p])] \notin {"absent", "pending"} \/ UNCHANGED status,
           b = <<>> \/ status'[Head(batch[p])] # "pending" \/ Head(batch[p]) \in doubtful',
           pc[p] = "post" => status'[Head(batch[p])] # "pending" \/ Head(batch[p]) \in doubtful'
    PROVE  SInv'
<1> DEFINE c == Head(batch[p])
<1>1. QueueOK /\ BatchOK(batch[p]) /\ batch[p] # <<>>
  BY DEF SInv, BatchesOK
<1>2. /\ c \in Commands /\ c \in ToSet(batch[p]) /\ c \notin ToSet(Tail(batch[p]))
      /\ ToSet(batch[p]) = ToSet(Tail(batch[p])) \cup {c}
      /\ \A d \in ToSet(Tail(batch[p])) : Before(c, d)
      /\ Tail(batch[p]) \in Seq(Commands)
      /\ \A k, l \in DOMAIN Tail(batch[p]) : k < l => Before(Tail(batch[p])[k], Tail(batch[p])[l])
  BY <1>1, TailFacts
<1>3. ToSet(<<>>) = {}
  BY DEF ToSet
<1>4. /\ batch'[p] = b /\ \A q \in Pollers : q # p => batch'[q] = batch[q]
      /\ pc'[p] = st /\ \A q \in Pollers : q # p => pc'[q] = pc[q]
  BY DEF IInv, Types
<1>5. ToSet(b) \subseteq ToSet(batch[p]) /\ c \notin ToSet(b)
  BY <1>2, <1>3
<1>6. \A d \in Commands : /\ status'[d] = "absent" <=> status[d] = "absent"
                          /\ status'[d] = "pending" => status[d] = "pending"
  <2>1. status[c] # "absent"
    BY <1>1, <1>2 DEF BatchOK
  <2>2. \A d \in Commands : d # c => status'[d] = status[d]
    OBVIOUS
  <2>3. status'[c] \notin {"absent", "pending"} \/ status' = status
    OBVIOUS
  <2> HIDE DEF c
  <2> QED BY <2>1, <2>2, <2>3
<1>7. \A x, y : Before(x, y)' <=> Before(x, y)
  BY DEF Before
<1>8. QueueOK'
  BY <1>1, <1>6 DEF QueueOK
<1>9. Shared'
  BY <1>4, <1>5 DEF SInv, Shared
<1>10. ASSUME NEW q \in Pollers, q # p PROVE BatchOK(batch[q])'
  <2>1. BatchOK(batch[q])
    BY DEF SInv, BatchesOK
  <2>2. ToSet(batch[q]) \subseteq Commands
    BY <2>1 DEF BatchOK, ToSet
  <2>3. c \in ToSet(batch[q]) => c \in doubtful
    BY <1>2, <1>10 DEF SInv, Shared
  <2>4. \A d \in ToSet(batch[q]) : status'[d] = "pending" \/ (status'[d] # "absent" /\ d \in doubtful')
    BY <1>6, <2>1, <2>2, <2>3 DEF BatchOK
  <2> HIDE DEF c
  <2> QED BY <1>4, <1>6, <1>7, <1>10, <2>1, <2>4 DEF BatchOK
<1>11. BatchOK(b)'
  <2>1. b \in Seq(Commands) /\ \A k, l \in DOMAIN b : k < l => Before(b[k], b[l])'
    <3>1. CASE b = <<>>
      BY <3>1
    <3>2. CASE b = Tail(batch[p])
      BY ONLY <1>2, <1>7, <3>2
    <3> QED BY <3>1, <3>2
  <2>2. \A d \in ToSet(b) : d \in Commands /\ d # c /\ d \in ToSet(batch[p])
    BY <1>5, <2>1 DEF ToSet
  <2>3. \A d \in ToSet(b) : status'[d] = "pending" \/ (status'[d] # "absent" /\ d \in doubtful')
    BY <1>1, <2>2 DEF BatchOK
  <2>4. ASSUME NEW x \in Commands, NEW y \in ToSet(b), Before(x, y), status'[x] = "pending"
        PROVE  x \in ToSet(b) \/ x \in doubtful'
    <3>1. b # <<>> /\ b = Tail(batch[p])
      BY <1>3, <2>4
    <3>2. x \in ToSet(batch[p]) \/ x \in doubtful
      BY <1>1, <1>6, <2>2, <2>4 DEF BatchOK
    <3>3. x = c => x \in doubtful'
      BY <2>4, <3>1
    <3> QED BY <1>2, <3>1, <3>2, <3>3
  <2> QED BY <1>7, <2>1, <2>3, <2>4 DEF BatchOK
<1>12. BatchesOK'
  BY <1>4, <1>10, <1>11 DEF SInv, BatchesOK
<1>13. RanOK'
  <2>1. \A d : InPost(d) => InPost(d)' \/ (d = c /\ pc[p] = "post")
    BY <1>4 DEF InPost
  <2> QED BY <1>6, <2>1 DEF SInv, RanOK
<1>14. AppliedOK'
  BY <1>6, <1>7 DEF SInv, AppliedOK
<1> QED BY <1>8, <1>9, <1>12, <1>13, <1>14 DEF SInv

LEMMA SAdvanceStep ==
    ASSUME IInv, SInv, NEW p \in Pollers, Post(p) \/ PostLost(p)
    PROVE  SInv'
<1> DEFINE c == Head(batch[p])
           st == IF Tail(batch[p]) = <<>> THEN "idle" ELSE "drain"
<1>1. /\ pc[p] = "post" /\ batch' = [batch EXCEPT ![p] = Tail(batch[p])] /\ pc' = [pc EXCEPT ![p] = st]
      /\ UNCHANGED <<queue, ran, applied>> /\ doubtful \subseteq doubtful'
  BY DEF Post, PostLost, Advance, IInv, Types
<1>2. outcome[p] \in Outcomes
  BY <1>1 DEF IInv, InHand
<1>3. c \in Commands /\ status[c] # "absent"
  BY <1>1, AtWork
<1>4. \/ status' = [status EXCEPT ![c] = outcome[p]]
      \/ UNCHANGED status /\ (status[c] # "pending" \/ c \in doubtful')
  BY DEF Post, PostLost, Posted
<1>5. status \in [Commands -> {"absent", "pending"} \cup Outcomes]
  BY DEF IInv, Types
<1> HIDE DEF c
<1>6. /\ status' \in [Commands -> {"absent", "pending"} \cup Outcomes]
      /\ \A d \in Commands : d # c => status'[d] = status[d]
      /\ status'[c] \notin {"absent", "pending"} \/ UNCHANGED status
      /\ status'[c] # "pending" \/ c \in doubtful'
  BY <1>2, <1>3, <1>4, <1>5 DEF Outcomes
<1> QED BY <1>1, <1>6, Lost DEF c

LEMMA SCrashStep ==
    ASSUME IInv, SInv, NEW p \in Pollers, Crash(p)
    PROVE  SInv'
<1>1. /\ pc[p] # "idle" /\ batch' = [batch EXCEPT ![p] = <<>>] /\ pc' = [pc EXCEPT ![p] = "idle"]
      /\ UNCHANGED <<status, queue, ran, applied>> /\ doubtful \subseteq doubtful'
      /\ pc[p] = "post" => Head(batch[p]) \in doubtful'
      /\ status \in [Commands -> {"absent", "pending"} \cup Outcomes]
  BY DEF Crash, IInv, Types
<1> QED BY <1>1, Lost

LEMMA SStep == IInv /\ SInv /\ [Next]_vars => SInv'
<1> SUFFICES ASSUME IInv, SInv, [Next]_vars PROVE SInv'
  OBVIOUS
<1>1. CASE UNCHANGED vars
  BY <1>1 DEF vars, SInv, QueueOK, BatchesOK, BatchOK, Shared, RanOK, InPost, AppliedOK, Before
<1>2. CASE \E c \in Commands, e \in (1 .. MaxTime) \cup {None} : Enqueue(c, e)
  BY <1>2, SEnqueueStep
<1>3. CASE Tick
  BY <1>3, SControlStep
<1>4. CASE \E p \in Pollers : PollerNext(p)
  BY <1>4, SControlStep, SFetchStep, SRunStep, SAdvanceStep, SCrashStep DEF PollerNext
<1> QED BY <1>1, <1>2, <1>3, <1>4 DEF Next

LEMMA Once == Spec => [](IInv /\ SInv)
  BY InitHolds, Step, SInitHolds, SStep, PTL DEF Spec

\* However many pollers drain the queue, a command runs again only if its own
\* result was lost or two of them held it.
THEOREM RunsOnlyOnce == Spec => []RunsOnce
<1>1. IInv /\ SInv => RunsOnce
  BY DEF SInv, RanOK, RunsOnce
<1> QED BY <1>1, Once, PTL

\* And such a command is also the only one that the device runs after a later one.
THEOREM InOrder == Spec => FollowsQueue
<1> DEFINE Order == \A i, j \in 1 .. Len(queue) :
                       i < j /\ applied = queue[j] /\ applied' = queue[i] => queue[i] \in doubtful
<1>1. IInv /\ SInv /\ [Next]_vars => [Order]_vars
  <2> SUFFICES ASSUME IInv, SInv, [Next]_vars, NEW i \in 1 .. Len(queue), NEW j \in 1 .. Len(queue),
                      i < j, applied = queue[j], applied' = queue[i], queue[i] \notin doubtful
               PROVE  FALSE
    OBVIOUS
  <2>1. QueueOK /\ queue[i] \in Commands /\ Before(queue[i], applied)
    BY DEF SInv, QueueOK, Before
  <2>2. applied' # applied
    BY <2>1, BeforeIrreflexive
  <2>3. PICK p \in Pollers : Run(p)
    BY <2>2 DEF Next, vars, PollerNext, Enqueue, Tick, Fetch, Refuse, Ask, RunFails, Post, PostLost, Crash
  <2>4. status[queue[i]] = "pending"
    BY <2>3, AtWork DEF Run
  <2> QED BY <2>1, <2>4 DEF SInv, AppliedOK
<1> QED BY <1>1, Once, PTL DEF Spec, FollowsQueue

-----------------------------------------------------------------------------
(* The inductive invariant of the tunnel *)

Carried(q) == {q[p] : p \in 1 .. Len(q)}

\* A stream is opened first and answered or closed last; its data are in order.  What
\* has an identifier comes before what had to wait for it.
Precedes(f, g) ==
    /\ f.id = g.id => f.of <= g.of
    /\ f.of = g.of => /\ g.kind \notin {"open", "request"}
                      /\ f.kind \notin {"close", "response"}
                      /\ f.kind = "data" /\ g.kind = "data" => f.n < g.n

Ordered(q) == \A a, b \in 1 .. Len(q) : a < b => Precedes(q[a], q[b])

Frames == [kind : {"open", "data", "close", "accept", "request", "response"},
           id : Id, of : Stream, n : Nat]
Datum == [of : Stream, n : Nat]

TunnelTypes ==
    /\ inbound \in Seq(Frames) /\ outbound \in Seq(Frames)
    /\ streams \in [Id -> Stream \cup {0}]
    /\ inbox \in [Stream -> Seq(Frames)] /\ doneQueue \in Seq(Id)
    /\ task \in [Stream -> {"none", "asking", "connecting", "relaying", "writing", "ending", "ended"}]
    /\ service = [s \in Stream |-> service[s]]
    /\ id \in [Stream -> Id \cup {0}]
    /\ remote \in [Stream -> {"unused", "open", "asking", "closing", "closed"}]
    /\ sent \in [Stream -> Nat] /\ produced \in [Stream -> Nat]
    /\ got \in [Stream -> Seq(Datum)] /\ heard \in [Stream -> Seq(Datum)]

\* Nothing has been said in the stream yet by the device.
Silent(s) ==
    /\ got[s] = <<>> /\ produced[s] = 0 /\ heard[s] = <<>> /\ inbox[s] = <<>>
    /\ \A g \in Carried(outbound) : g.of # s

\* The cloud takes the streams in their order, and of those with one identifier all but
\* the last are closed.
Prudent ==
    /\ \A s \in Stream : remote[s] = "unused" =>
           id[s] = 0 /\ task[s] = "none" /\ sent[s] = 0 /\ Silent(s)
    /\ \A s \in Stream : remote[s] \in {"open", "asking", "closing"} => id[s] \in Id
    /\ \A s, t \in Stream : t < s =>
           /\ remote[s] # "unused" => remote[t] # "unused"
           /\ id[t] # 0 /\ id[s] = id[t] => remote[t] = "closed"

\* The frames on the way to the device.
Coming ==
    /\ Ordered(inbound)
    /\ \A f \in Carried(inbound) :
           /\ f.id = id[f.of] /\ f.kind \in {"open", "request", "data", "close"}
           /\ f.kind = "close" => remote[f.of] # "open"
           /\ f.kind = "data" => f.n \in 1 .. sent[f.of]
           /\ f.kind = "open" =>
                  remote[f.of] \in {"open", "closing"} /\ task[f.of] = "none" /\ Silent(f.of)
           /\ f.kind = "request" =>
                  remote[f.of] = "asking" /\ task[f.of] = "none" /\ sent[f.of] = 1 /\ Silent(f.of)

\* An entry of the map is of a stream that had its identifier, and no frame of an earlier
\* one is to come.
Entries ==
    \A i \in Id : streams[i] # 0 =>
        /\ id[streams[i]] = i /\ task[streams[i]] # "none"
        /\ \A f \in Carried(inbound) : f.id = i => streams[i] <= f.of

\* A task that runs has the cloud's side of its stream alive.
TaskFits(s) ==
    /\ task[s] # "none" => id[s] \in Id
    /\ task[s] \in {"connecting", "relaying", "writing"} =>
           /\ remote[s] \in {"open", "closing"}
           /\ \A g \in Carried(outbound) : g.of = s => g.kind # "close"
    /\ task[s] \notin {"connecting", "relaying", "writing"} => inbox[s] = <<>>
    /\ task[s] = "asking" => remote[s] = "asking" /\ sent[s] = 1 /\ Silent(s)
    /\ task[s] = "writing" => inbox[s] # <<>>
    /\ task[s] \in {"relaying", "writing"} \/ got[s] # <<>> => target_for(service[s])
Tasks == \A s \in Stream : TaskFits(s)

\* The frames on the way to the cloud: all that the cloud has not heard, of streams that
\* it still has.
Going ==
    /\ Ordered(outbound)
    /\ \A g \in Carried(outbound) :
           /\ g.id = id[g.of] /\ g.kind \notin {"open", "request"}
           /\ IF g.kind = "response" THEN remote[g.of] = "asking"
                                     ELSE remote[g.of] \in {"open", "closing"}
           /\ g.kind \in {"data", "response"} /\ g.n > 0 =>
                  Len(heard[g.of]) < g.n /\ g.n <= produced[g.of]
    /\ \A s \in Stream : remote[s] \in {"open", "asking", "closing"} =>
           \A k \in Len(heard[s]) + 1 .. produced[s] :
               \E g \in Carried(outbound) : g.kind \in {"data", "response"} /\ g.of = s /\ g.n = k

\* What a task has before it goes on where its service is, up to a close.
InboxFits(s) ==
    \A j \in 1 .. Len(inbox[s]) :
        \/ /\ inbox[s][j].kind = "data" /\ inbox[s][j].of = s
           /\ inbox[s][j].n = Len(got[s]) + j /\ Len(got[s]) + j <= sent[s]
        \/ inbox[s][j].kind = "close" /\ j = Len(inbox[s]) /\ \A i \in Id : streams[i] # s
Inboxes == \A s \in Stream : InboxFits(s)

\* The data of the stream will reach its task: it has its entry, or has yet to get it.
Flows(s) ==
    \/ task[s] \in {"connecting", "relaying", "writing"} /\ \E i \in Id : streams[i] = s
    \/ \E f \in Carried(inbound) : f.kind = "open" /\ f.of = s

Taken(s) == Len(got[s]) + Len(inbox[s])

\* What the service has not and the inbox has not is on its way.
Complete(s) ==
    /\ Taken(s) <= sent[s]
    /\ \A f \in Carried(inbound) : f.kind = "data" /\ f.of = s => f.n > Taken(s)
    /\ \A k \in Taken(s) + 1 .. sent[s] :
           \E f \in Carried(inbound) : f.kind = "data" /\ f.of = s /\ f.n = k
Whole == \A s \in Stream : Flows(s) => Complete(s)

TunnelInv ==
    /\ TunnelTypes /\ Prudent /\ Coming /\ Entries /\ Tasks
    /\ Going /\ Inboxes /\ Whole /\ NoCrosstalk

-----------------------------------------------------------------------------
(* Queues of frames *)

LEMMA Numbered ==
    /\ \A s \in Stream : s \in Nat /\ s # 0
    /\ \A i \in Id : i \in Nat /\ i # 0
  BY TunnelAssumption DEF Stream, Id

LEMMA Appended ==
    ASSUME NEW S, NEW q \in Seq(S), NEW e \in S
    PROVE  /\ Append(q, e) \in Seq(S) /\ Len(Append(q, e)) = Len(q) + 1
           /\ Len(q) \in Nat
           /\ \A a \in 1 .. Len(q) : Append(q, e)[a] = q[a] /\ q[a] \in S
           /\ Append(q, e)[Len(q) + 1] = e
           /\ Append(q, e) # <<>>
  OBVIOUS

LEMMA Shortened ==
    ASSUME NEW S, NEW q \in Seq(S), q # <<>>
    PROVE  /\ Tail(q) \in Seq(S) /\ Len(Tail(q)) \in Nat /\ Len(q) = Len(Tail(q)) + 1
           /\ \A a \in 1 .. Len(Tail(q)) : Tail(q)[a] = q[a + 1] /\ q[a + 1] \in S
           /\ Head(q) = q[1] /\ Head(q) \in S
  OBVIOUS

LEMMA CarriedIn == ASSUME NEW S, NEW q \in Seq(S) PROVE Carried(q) \subseteq S
  BY DEF Carried

LEMMA CarriedNone == Carried(<<>>) = {}
  BY DEF Carried

LEMMA CarriedAppended ==
    ASSUME NEW S, NEW q \in Seq(S), NEW e \in S
    PROVE  Carried(Append(q, e)) = Carried(q) \cup {e}
<1>1. 1 .. Len(q) + 1 = (1 .. Len(q)) \cup {Len(q) + 1}
  OBVIOUS
<1> QED BY <1>1, Appended DEF Carried

LEMMA CarriedShortened ==
    ASSUME NEW S, NEW q \in Seq(S), q # <<>>
    PROVE  Carried(q) = Carried(Tail(q)) \cup {Head(q)}
<1>1. ASSUME NEW f \in Carried(q) PROVE f \in Carried(Tail(q)) \cup {Head(q)}
  <2>1. PICK a \in 1 .. Len(q) : f = q[a]
    BY <1>1 DEF Carried
  <2>2. CASE a = 1
    BY <2>1, <2>2, Shortened
  <2>3. CASE a > 1
    <3>1. a - 1 \in 1 .. Len(Tail(q)) /\ (a - 1) + 1 = a
      BY <2>3, Shortened
    <3> QED BY <2>1, <3>1, Shortened DEF Carried
  <2> QED BY <2>2, <2>3
<1>2. ASSUME NEW f \in Carried(Tail(q)) PROVE f \in Carried(q)
  <2>1. PICK a \in 1 .. Len(Tail(q)) : f = Tail(q)[a]
    BY <1>2 DEF Carried
  <2>2. a + 1 \in 1 .. Len(q) /\ f = q[a + 1]
    BY <2>1, Shortened
  <2> QED BY <2>2 DEF Carried
<1>3. Head(q) \in Carried(q)
  <2>1. 1 \in 1 .. Len(q) /\ Head(q) = q[1]
    BY Shortened
  <2> QED BY <2>1 DEF Carried
<1> QED BY <1>1, <1>2, <1>3

LEMMA OrderedNone == Ordered(<<>>)
  BY DEF Ordered

LEMMA OrderedAppended ==
    ASSUME NEW S, NEW q \in Seq(S), NEW e \in S, Ordered(q), \A f \in Carried(q) : Precedes(f, e)
    PROVE  Ordered(Append(q, e))
<1> SUFFICES ASSUME NEW a \in 1 .. Len(q) + 1, NEW b \in 1 .. Len(q) + 1, a < b
             PROVE  Precedes(Append(q, e)[a], Append(q, e)[b])
  BY Appended DEF Ordered
<1>1. a \in 1 .. Len(q) /\ Append(q, e)[a] = q[a] /\ q[a] \in Carried(q)
  BY Appended DEF Carried
<1>2. CASE b = Len(q) + 1
  <2>1. Append(q, e)[b] = e
    BY <1>2, Appended
  <2> QED BY ONLY <1>1, <2>1, \A f \in Carried(q) : Precedes(f, e)
<1>3. CASE b # Len(q) + 1
  <2>1. b \in 1 .. Len(q) /\ Append(q, e)[b] = q[b]
    BY <1>3, Appended
  <2> QED BY <1>1, <2>1 DEF Ordered
<1> QED BY <1>2, <1>3

LEMMA OrderedShortened ==
    ASSUME NEW S, NEW q \in Seq(S), q # <<>>, Ordered(q)
    PROVE  Ordered(Tail(q)) /\ \A f \in Carried(Tail(q)) : Precedes(Head(q), f)
<1>1. ASSUME NEW a \in 1 .. Len(Tail(q)), NEW b \in 1 .. Len(Tail(q)), a < b
      PROVE  Precedes(Tail(q)[a], Tail(q)[b])
  <2>1. /\ a + 1 \in 1 .. Len(q) /\ b + 1 \in 1 .. Len(q) /\ a + 1 < b + 1
        /\ Tail(q)[a] = q[a + 1] /\ Tail(q)[b] = q[b + 1]
    BY <1>1, Shortened
  <2> QED BY <2>1 DEF Ordered
<1>2. ASSUME NEW f \in Carried(Tail(q)) PROVE Precedes(Head(q), f)
  <2>1. PICK a \in 1 .. Len(Tail(q)) : f = Tail(q)[a]
    BY <1>2 DEF Carried
  <2>2. 1 \in 1 .. Len(q) /\ a + 1 \in 1 .. Len(q) /\ 1 < a + 1 /\ f = q[a + 1] /\ Head(q) = q[1]
    BY <2>1, Shortened
  <2> QED BY <2>2 DEF Ordered
<1> QED BY <1>1, <1>2 DEF Ordered

-----------------------------------------------------------------------------
(* The process *)

LEMMA InitTunnel == TunnelInit => TunnelInv
<1> SUFFICES ASSUME TunnelInit PROVE TunnelInv
  OBVIOUS
<1>1. TunnelTypes
  BY DEF TunnelInit, TunnelTypes, Frames, Datum
<1>2. Carried(inbound) = {} /\ Carried(outbound) = {} /\ Ordered(inbound) /\ Ordered(outbound)
  BY CarriedNone, OrderedNone DEF TunnelInit
<1>3. Prudent
  BY <1>2 DEF TunnelInit, Prudent, Silent
<1>4. Coming /\ Entries /\ Tasks
  BY <1>2 DEF TunnelInit, Coming, Entries, Tasks, TaskFits, Silent
<1>5. Going
  BY <1>2 DEF TunnelInit, Going
<1>6. Inboxes /\ Whole
  BY <1>2 DEF TunnelInit, Inboxes, InboxFits, Whole, Complete, Flows
<1>7. NoCrosstalk
  <2>1. \A s \in Stream : Numbers(s, 0) = <<>>
    BY DEF Numbers
  <2> QED BY <2>1 DEF TunnelInit, NoCrosstalk
<1> QED BY <1>1, <1>3, <1>4, <1>5, <1>6, <1>7 DEF TunnelInv

AllButPhase == <<device, frames, cloud, local>>
LEMMA PhaseAlone == ASSUME TunnelInv, UNCHANGED AllButPhase PROVE TunnelInv'
<1> USE DEF AllButPhase, device, frames, cloud, local
<1>1. TunnelTypes' /\ Prudent' /\ Coming'
  BY DEF TunnelInv, TunnelTypes, Prudent, Coming, Silent
<1>2. Entries' /\ Tasks' /\ Going'
  BY DEF TunnelInv, Entries, Tasks, TaskFits, Going, Silent, target_for, native_webui_origin
<1>3. Inboxes'
  BY DEF TunnelInv, Inboxes, InboxFits
<1>4. Whole'
  BY DEF TunnelInv, Whole, Complete, Flows, Taken
<1>5. NoCrosstalk'
  BY DEF TunnelInv, NoCrosstalk
<1> QED BY <1>1, <1>2, <1>3, <1>4, <1>5 DEF TunnelInv

\* What was said stays said; there is nothing under way any more.
LEMMA DisconnectKeeps == ASSUME TunnelInv, Disconnect PROVE TunnelInv'
<1> USE DEF Disconnect, device, local
<1>1. Carried(inbound') = {} /\ Carried(outbound') = {} /\ Ordered(inbound') /\ Ordered(outbound')
  BY CarriedNone, OrderedNone
<1>2. TunnelTypes'
  BY DEF TunnelInv, TunnelTypes
<1>3. Prudent'
  BY <1>1 DEF TunnelInv, Prudent, TunnelTypes
<1>4. Coming' /\ Entries'
  BY <1>1 DEF Coming, Entries
<1>5. Tasks'
  BY <1>1 DEF TunnelInv, Tasks, TaskFits, target_for, native_webui_origin
<1>6. Going' /\ Inboxes' /\ Whole'
  BY <1>1 DEF Going, Inboxes, InboxFits, Whole, Complete, Flows
<1>7. NoCrosstalk'
  BY DEF TunnelInv, NoCrosstalk
<1> QED BY <1>2, <1>3, <1>4, <1>5, <1>6, <1>7 DEF TunnelInv

-----------------------------------------------------------------------------
(* The cloud *)

LEMMA OpensKeeps ==
    ASSUME TunnelInv, NEW s \in Stream, NEW i \in Id, NEW svc \in Services,
           CloudOpens(s, i, svc) \/ CloudRequests(s, i, svc)
    PROVE  TunnelInv'
<1> USE DEF device, local
<1> DEFINE what == IF CloudOpens(s, i, svc) THEN "open" ELSE "request"
           f == [kind |-> what, id |-> i, of |-> s, n |-> 1]
<1>1. /\ TunnelTypes /\ Prudent /\ Coming /\ Entries /\ Tasks
      /\ Going /\ Inboxes /\ Whole /\ NoCrosstalk
  BY DEF TunnelInv
<1>2. /\ Opens(s, i, svc, what) /\ what \in {"open", "request"}
      /\ remote' = [remote EXCEPT ![s] = IF what = "open" THEN "open" ELSE "asking"]
      /\ sent' = IF what = "open" THEN sent ELSE [sent EXCEPT ![s] = 1]
  <2>1. CASE CloudOpens(s, i, svc)
    BY <2>1 DEF CloudOpens
  <2>2. CASE ~CloudOpens(s, i, svc)
    BY <2>2 DEF CloudRequests
  <2> QED BY <2>1, <2>2
<1>3. f \in Frames /\ f.kind = what /\ f.id = i /\ f.of = s /\ f.n = 1
  BY <1>2 DEF Frames
<1> HIDE DEF what
<1>4. /\ inbound' = Append(inbound, f) /\ id' = [id EXCEPT ![s] = i]
      /\ service' = [service EXCEPT ![s] = svc]
      /\ UNCHANGED <<outbound, streams, inbox, doneQueue, task, heard, got, produced, origin>>
      /\ remote[s] = "unused" /\ \A t \in Stream : t < s => remote[t] # "unused"
      /\ \A t \in Stream : id[t] = i => remote[t] = "closed"
  BY <1>2 DEF Opens, Stream
<1> HIDE DEF f
<1>5. id[s] = 0 /\ task[s] = "none" /\ sent[s] = 0 /\ Silent(s)
  BY <1>1, <1>4 DEF Prudent
<1>6. /\ Carried(inbound') = Carried(inbound) \cup {f}
      /\ Carried(inbound) \subseteq Frames /\ Carried(outbound) \subseteq Frames
  BY <1>1, <1>3, <1>4, CarriedAppended, CarriedIn DEF TunnelTypes
<1>7. \A t \in Stream : t > s => remote[t] = "unused" /\ id[t] = 0
  BY <1>1, <1>4, Numbered DEF Prudent
<1>8. \A g \in Carried(inbound) : g.of \in Stream /\ g.of # s /\ g.id = id[g.of] /\ g.id # 0
  BY <1>1, <1>5, <1>6, Numbered DEF Coming, Frames
<1>9. /\ \A t \in Stream : t # s => id'[t] = id[t] /\ remote'[t] = remote[t] /\ sent'[t] = sent[t]
                                    /\ service'[t] = service[t]
      /\ id'[s] = i /\ remote'[s] \in {"open", "asking"}
      /\ what = "open" => remote'[s] = "open" /\ sent'[s] = 0
      /\ what = "request" => remote'[s] = "asking" /\ sent'[s] = 1
  BY <1>1, <1>2, <1>4, <1>5 DEF TunnelTypes
<1>10. \A t \in Stream : Silent(t)' <=> Silent(t)
  BY <1>4 DEF Silent
<1>11. TunnelTypes'
  BY <1>1, <1>2, <1>3, <1>4, Appended DEF TunnelTypes
<1>12. Prudent'
  <2>1. \A t \in Stream : remote'[t] = "unused" =>
            id'[t] = 0 /\ task'[t] = "none" /\ sent'[t] = 0 /\ Silent(t)'
    BY <1>1, <1>4, <1>9, <1>10 DEF Prudent
  <2>2. \A t \in Stream : remote'[t] \in {"open", "asking", "closing"} => id'[t] \in Id
    BY <1>1, <1>9 DEF Prudent
  <2>3. ASSUME NEW u \in Stream, NEW t \in Stream, t < u
        PROVE  /\ remote'[u] # "unused" => remote'[t] # "unused"
               /\ id'[t] # 0 /\ id'[u] = id'[t] => remote'[t] = "closed"
    <3>1. CASE u = s
      BY <1>4, <1>9, <2>3, <3>1, Numbered
    <3>2. CASE t = s
      BY <1>7, <1>9, <2>3, <3>2, Numbered
    <3>3. CASE u # s /\ t # s
      BY <1>1, <1>9, <2>3, <3>3 DEF Prudent
    <3> QED BY <3>1, <3>2, <3>3
  <2> QED BY <2>1, <2>2, <2>3 DEF Prudent
<1>13. Coming'
  <2>1. ASSUME NEW g \in Carried(inbound) PROVE Precedes(g, f)
    <3>1. g.of < s \/ g.of > s
      BY <1>8, Numbered
    <3>2. g.id = f.id => g.of < s
      BY <1>3, <1>7, <1>8, <3>1
    <3> QED BY <1>3, <1>8, <3>2, Numbered DEF Precedes
  <2>2. Ordered(inbound')
    BY <1>1, <1>3, <1>4, <2>1, OrderedAppended DEF Coming, TunnelTypes
  <2>3. ASSUME NEW g \in Carried(inbound)
        PROVE  /\ g.id = id'[g.of] /\ g.kind \in {"open", "request", "data", "close"}
               /\ g.kind = "close" => remote'[g.of] # "open"
               /\ g.kind = "data" => g.n \in 1 .. sent'[g.of]
               /\ g.kind = "open" => remote'[g.of] \in {"open", "closing"}
                                     /\ task'[g.of] = "none" /\ Silent(g.of)'
               /\ g.kind = "request" => remote'[g.of] = "asking" /\ task'[g.of] = "none"
                                        /\ sent'[g.of] = 1 /\ Silent(g.of)'
    BY <1>1, <1>4, <1>8, <1>9, <1>10 DEF Coming
  <2>4. Silent(s)'
    BY <1>5, <1>10
  <2> QED BY <1>2, <1>3, <1>4, <1>5, <1>6, <1>9, <2>2, <2>3, <2>4 DEF Coming
<1>14. Entries'
  <2> SUFFICES ASSUME NEW j \in Id, streams[j] # 0
               PROVE  /\ id'[streams[j]] = j /\ task[streams[j]] # "none"
                      /\ \A g \in Carried(inbound') : g.id = j => streams[j] <= g.of
    BY <1>4 DEF Entries
  <2>1. streams[j] \in Stream /\ id[streams[j]] = j /\ task[streams[j]] # "none" /\ streams[j] # s
    BY <1>1, <1>5 DEF Entries, TunnelTypes
  <2>2. streams[j] <= s
    BY <1>7, <2>1, Numbered
  <2> QED BY <1>1, <1>3, <1>6, <1>9, <2>1, <2>2 DEF Entries
<1>15. Tasks'
  <2>1. \A t \in Stream : got[t] = <<>> \/ t # s
    BY <1>5 DEF Silent
  <2> QED BY <1>1, <1>4, <1>5, <1>9, <1>10, <2>1 DEF Tasks, TaskFits, target_for, native_webui_origin
<1>16. Going'
  <2>1. \A g \in Carried(outbound) : g.of \in Stream /\ g.of # s
    BY <1>5, <1>6 DEF Silent, Frames
  <2>2. Len(heard[s]) + 1 .. produced[s] = {}
    BY <1>5 DEF Silent
  <2> QED BY <1>1, <1>4, <1>9, <2>1, <2>2 DEF Going
<1>17. Inboxes'
  <2> SUFFICES ASSUME NEW t \in Stream PROVE InboxFits(t)'
    BY DEF Inboxes
  <2>1. CASE t = s
    BY <1>4, <1>5, <2>1 DEF Silent, InboxFits
  <2>2. CASE t # s
    BY <1>1, <1>4, <1>9, <2>2 DEF Inboxes, InboxFits
  <2> QED BY <2>1, <2>2
<1>18. Whole'
  <2> SUFFICES ASSUME NEW t \in Stream, Flows(t)'
               PROVE  /\ Taken(t) <= sent'[t]
                      /\ \A g \in Carried(inbound') : g.kind = "data" /\ g.of = t => g.n > Taken(t)
                      /\ \A k \in Taken(t) + 1 .. sent'[t] :
                             \E g \in Carried(inbound') : g.kind = "data" /\ g.of = t /\ g.n = k
    BY <1>4 DEF Whole, Complete, Taken
  <2>1. CASE t = s
    <3>1. what = "open"
      BY <1>3, <1>4, <1>5, <1>6, <1>8, <2>1 DEF Flows
    <3>2. Taken(s) = 0
      BY <1>5 DEF Silent, Taken
    <3>3. sent'[s] = 0
      BY <1>9, <3>1
    <3> QED BY <1>3, <1>6, <1>8, <2>1, <3>1, <3>2, <3>3
  <2>2. CASE t # s
    <3>1. Flows(t)
      BY <1>3, <1>4, <1>6, <2>2 DEF Flows
    <3> QED BY <1>1, <1>3, <1>6, <1>9, <2>2, <3>1 DEF Whole, Complete
  <2> QED BY <2>1, <2>2
<1>19. NoCrosstalk'
  <2>1. Len(got[s]) = 0 /\ got[s] = <<>>
    BY <1>5 DEF Silent
  <2>2. \A t \in Stream : t # s => sent'[t] = sent[t] /\ service'[t] = service[t]
    BY <1>9
  <2>3. Len(got[s]) <= sent'[s]
    BY <1>1, <1>11, <2>1 DEF TunnelTypes
  <2> QED BY <1>1, <1>4, <2>1, <2>2, <2>3 DEF NoCrosstalk
<1> QED BY <1>11, <1>12, <1>13, <1>14, <1>15, <1>16, <1>17, <1>18, <1>19 DEF TunnelInv

\* What the cloud sends in a stream that it has open comes last there.
LEMMA LastOfItsStream ==
    ASSUME TunnelInv, NEW s \in Stream, remote[s] = "open", NEW what \in {"data", "close"},
           NEW n \in Nat, what = "data" => n = sent[s] + 1
    PROVE  /\ StreamFrame(what, s, n) \in Frames
           /\ \A g \in Carried(inbound) : Precedes(g, StreamFrame(what, s, n))
<1> DEFINE f == StreamFrame(what, s, n)
<1>1. /\ TunnelTypes /\ Prudent /\ Coming
      /\ Carried(inbound) \subseteq Frames
  BY CarriedIn DEF TunnelInv, TunnelTypes
<1>2. f \in Frames /\ f.kind = what /\ f.id = id[s] /\ f.of = s /\ f.n = n /\ id[s] \in Id
  BY <1>1 DEF Prudent, StreamFrame, Frames
<1> HIDE DEF f
<1>3. ASSUME NEW g \in Carried(inbound) PROVE Precedes(g, f)
  <2>1. g.of \in Stream /\ g.id = id[g.of] /\ g.id \in Id /\ g.n \in Nat
    BY <1>1 DEF Coming, Frames
  <2>2. g.id = f.id => g.of <= f.of
    <3>1. CASE s < g.of
      BY <1>1, <1>2, <2>1, <3>1, Numbered DEF Prudent
    <3>2. CASE ~(s < g.of)
      BY <1>2, <2>1, <3>2, Numbered
    <3> QED BY <3>1, <3>2
  <2>3. g.of = s => g.kind \notin {"close", "response"}
    BY <1>1 DEF Coming
  <2>4. g.of = s /\ g.kind = "data" => g.n \in 1 .. sent[s]
    BY <1>1 DEF Coming
  <2>5. g.of = s /\ g.kind = "data" /\ f.kind = "data" => g.n < f.n
    BY <1>1, <1>2, <2>4 DEF TunnelTypes
  <2> QED BY <1>2, <2>2, <2>3, <2>5 DEF Precedes
<1> QED BY <1>2, <1>3 DEF f

LEMMA CloudSendsKeeps == ASSUME TunnelInv, NEW s \in Stream, CloudSends(s) PROVE TunnelInv'
<1> USE DEF device, local
<1> DEFINE f == StreamFrame("data", s, sent[s] + 1)
<1>1. /\ TunnelTypes /\ Prudent /\ Coming /\ Entries /\ Tasks
      /\ Going /\ Inboxes /\ Whole /\ NoCrosstalk
  BY DEF TunnelInv
<1>2. /\ inbound' = Append(inbound, f) /\ sent' = [sent EXCEPT ![s] = @ + 1] /\ remote[s] = "open"
      /\ UNCHANGED <<outbound, streams, inbox, doneQueue, task, service, id, remote, heard, got,
                     produced, origin>>
  BY DEF CloudSends, ToDevice
<1>3. sent[s] \in Nat /\ sent'[s] = sent[s] + 1 /\ \A t \in Stream : t # s => sent'[t] = sent[t]
  BY <1>1, <1>2 DEF TunnelTypes
<1>4. f \in Frames /\ \A g \in Carried(inbound) : Precedes(g, f)
  BY <1>2, <1>3, LastOfItsStream
<1>5. f.kind = "data" /\ f.id = id[s] /\ f.of = s /\ f.n = sent[s] + 1
  BY DEF StreamFrame
<1> HIDE DEF f
<1>6. Carried(inbound') = Carried(inbound) \cup {f} /\ Carried(inbound) \subseteq Frames
  BY <1>1, <1>2, <1>4, CarriedAppended, CarriedIn DEF TunnelTypes
<1>7. \A t \in Stream : Silent(t)' <=> Silent(t)
  BY <1>2 DEF Silent
<1>8. \A t \in Stream : remote[t] = "unused" \/ remote[t] = "asking" => t # s
  BY <1>2
<1>9. TunnelTypes'
  BY <1>1, <1>2, <1>3, <1>4, Appended DEF TunnelTypes
<1>10. Prudent'
  BY <1>1, <1>2, <1>3, <1>7, <1>8 DEF Prudent
<1>11. Coming'
  <2>1. Ordered(inbound')
    BY <1>1, <1>2, <1>4, OrderedAppended DEF Coming, TunnelTypes
  <2>2. ASSUME NEW g \in Carried(inbound)
        PROVE  /\ g.id = id[g.of] /\ g.kind \in {"open", "request", "data", "close"}
               /\ g.kind = "close" => remote[g.of] # "open"
               /\ g.kind = "data" => g.n \in 1 .. sent'[g.of]
               /\ g.kind = "open" => remote[g.of] \in {"open", "closing"}
                                     /\ task[g.of] = "none" /\ Silent(g.of)'
               /\ g.kind = "request" => remote[g.of] = "asking" /\ task[g.of] = "none"
                                        /\ sent'[g.of] = 1 /\ Silent(g.of)'
    <3>1. g.of \in Stream /\ sent[g.of] \in Nat /\ sent'[g.of] \in {sent[g.of], sent[g.of] + 1}
      BY <1>1, <1>3, <1>6 DEF Frames, TunnelTypes
    <3>2. g.kind = "data" => g.n \in 1 .. sent[g.of]
      BY <1>1 DEF Coming
    <3>3. g.kind = "data" => g.n \in 1 .. sent'[g.of]
      BY <3>1, <3>2
    <3> QED BY <1>1, <1>3, <1>7, <1>8, <3>1, <3>3 DEF Coming
  <2> QED BY <1>2, <1>3, <1>5, <1>6, <2>1, <2>2 DEF Coming
<1>12. Entries'
  <2> SUFFICES ASSUME NEW j \in Id, streams[j] # 0, f.id = j  PROVE streams[j] <= s
    BY <1>1, <1>2, <1>5, <1>6 DEF Entries
  <2>1. streams[j] \in Stream /\ id[streams[j]] = id[s] /\ id[s] \in Id
    BY <1>1, <1>5 DEF Entries, TunnelTypes
  <2>2. ~(s < streams[j])
    BY <1>1, <1>2, <2>1, Numbered DEF Prudent
  <2> QED BY <2>1, <2>2, Numbered
<1>13. Tasks'
  BY <1>1, <1>2, <1>3, <1>7, <1>8 DEF Tasks, TaskFits, target_for, native_webui_origin
<1>14. Going'
  BY <1>1, <1>2 DEF Going
<1>15. Inboxes'
  <2> SUFFICES ASSUME NEW t \in Stream, NEW j \in 1 .. Len(inbox[t]), Len(got[t]) + j <= sent[t]
               PROVE  Len(got[t]) + j <= sent'[t]
    BY <1>1, <1>2 DEF Inboxes, InboxFits
  <2>1. Len(got[t]) \in Nat /\ sent[t] \in Nat /\ sent'[t] \in {sent[t], sent[t] + 1} /\ j \in Int
    BY <1>1, <1>3 DEF TunnelTypes
  <2> QED BY <2>1
<1>16. Whole'
  <2> SUFFICES ASSUME NEW t \in Stream, Flows(t)'
               PROVE  /\ Taken(t) <= sent'[t]
                      /\ \A g \in Carried(inbound') : g.kind = "data" /\ g.of = t => g.n > Taken(t)
                      /\ \A k \in Taken(t) + 1 .. sent'[t] :
                             \E g \in Carried(inbound') : g.kind = "data" /\ g.of = t /\ g.n = k
    BY <1>2 DEF Whole, Complete, Taken
  <2>1. Flows(t)
    BY <1>2, <1>5, <1>6 DEF Flows
  <2>2. Taken(t) \in Nat /\ Taken(t) <= sent[t] /\ sent[t] \in Nat
    BY <1>1, <2>1 DEF Whole, Complete, Taken, TunnelTypes
  <2>3. CASE t = s
    <3>1. \A k \in Taken(t) + 1 .. sent'[t] : k \in Taken(t) + 1 .. sent[t] \/ k = f.n
      BY <1>3, <1>5, <2>2, <2>3
    <3> QED BY <1>1, <1>3, <1>5, <1>6, <2>1, <2>2, <2>3, <3>1 DEF Whole, Complete
  <2>4. CASE t # s
    BY <1>1, <1>3, <1>5, <1>6, <2>1, <2>4 DEF Whole, Complete
  <2> QED BY <2>3, <2>4
<1>17. NoCrosstalk'
  <2>1. \A t \in Stream : Len(got[t]) <= sent[t] => Len(got[t]) <= sent'[t]
    <3> TAKE t \in Stream
    <3>1. Len(got[t]) \in Nat /\ sent[t] \in Nat /\ sent'[t] \in {sent[t], sent[t] + 1}
      BY <1>1, <1>3 DEF TunnelTypes
    <3> QED BY <3>1
  <2> QED BY <1>1, <1>2, <2>1 DEF NoCrosstalk
<1> QED BY <1>9, <1>10, <1>11, <1>12, <1>13, <1>14, <1>15, <1>16, <1>17 DEF TunnelInv

LEMMA CloudClosesKeeps == ASSUME TunnelInv, NEW s \in Stream, CloudCloses(s) PROVE TunnelInv'
<1> USE DEF device, local
<1> DEFINE f == StreamFrame("close", s, 0)
<1>1. /\ TunnelTypes /\ Prudent /\ Coming /\ Entries /\ Tasks
      /\ Going /\ Inboxes /\ Whole /\ NoCrosstalk
  BY DEF TunnelInv
<1>2. /\ inbound' = Append(inbound, f) /\ remote[s] = "open"
      /\ remote' = [remote EXCEPT ![s] = "closing"]
      /\ UNCHANGED <<outbound, streams, inbox, doneQueue, task, service, id, sent, heard, got,
                     produced, origin>>
  BY DEF CloudCloses, ToDevice
<1>3. remote'[s] = "closing" /\ \A t \in Stream : t # s => remote'[t] = remote[t]
  BY <1>1, <1>2 DEF TunnelTypes
<1>4. f \in Frames /\ \A g \in Carried(inbound) : Precedes(g, f)
  BY <1>2, LastOfItsStream
<1>5. f.kind = "close" /\ f.id = id[s] /\ f.of = s
  BY DEF StreamFrame
<1> HIDE DEF f
<1>6. /\ Carried(inbound') = Carried(inbound) \cup {f} /\ Carried(inbound) \subseteq Frames
      /\ Carried(outbound) \subseteq Frames
  BY <1>1, <1>2, <1>4, CarriedAppended, CarriedIn DEF TunnelTypes
<1>7. \A t \in Stream : Silent(t)' <=> Silent(t)
  BY <1>2 DEF Silent
<1>8. TunnelTypes'
  BY <1>1, <1>2, <1>4, Appended DEF TunnelTypes
<1>9. Prudent'
  BY <1>1, <1>2, <1>3, <1>7 DEF Prudent
<1>10. Coming'
  <2>1. Ordered(inbound')
    BY <1>1, <1>2, <1>4, OrderedAppended DEF Coming, TunnelTypes
  <2> QED BY <1>1, <1>2, <1>3, <1>5, <1>6, <1>7, <2>1 DEF Coming, Frames
<1>11. Entries'
  <2> SUFFICES ASSUME NEW j \in Id, streams[j] # 0, f.id = j  PROVE streams[j] <= s
    BY <1>1, <1>2, <1>5, <1>6 DEF Entries
  <2>1. streams[j] \in Stream /\ id[streams[j]] = id[s] /\ id[s] \in Id
    BY <1>1, <1>5 DEF Entries, TunnelTypes
  <2>2. ~(s < streams[j])
    BY <1>1, <1>2, <2>1, Numbered DEF Prudent
  <2> QED BY <2>1, <2>2, Numbered
<1>12. Tasks'
  BY <1>1, <1>2, <1>3, <1>7 DEF Tasks, TaskFits, target_for, native_webui_origin
<1>13. Going'
  <2>1. \A g \in Carried(outbound) : g.of \in Stream
    BY <1>6 DEF Frames
  <2> QED BY <1>1, <1>2, <1>3, <2>1 DEF Going
<1>14. Inboxes'
  BY <1>1, <1>2 DEF Inboxes, InboxFits
<1>15. Whole'
  <2>1. \A t \in Stream : Flows(t)' => Flows(t)
    BY <1>2, <1>5, <1>6 DEF Flows
  <2>2. \A t \in Stream : Taken(t)' = Taken(t)
    BY <1>2 DEF Taken
  <2> QED BY <1>1, <1>2, <1>5, <1>6, <2>1, <2>2 DEF Whole, Complete
<1>16. NoCrosstalk'
  BY <1>1, <1>2 DEF NoCrosstalk
<1> QED BY <1>8, <1>9, <1>10, <1>11, <1>12, <1>13, <1>14, <1>15, <1>16 DEF TunnelInv

LEMMA NumbersAppended ==
    ASSUME NEW s \in Stream, NEW q \in Seq(Datum), q = Numbers(s, Len(q)),
           NEW d, d = [of |-> s, n |-> Len(q) + 1]
    PROVE  /\ Append(q, d) = Numbers(s, Len(Append(q, d)))
           /\ Len(Append(q, d)) = Len(q) + 1 /\ Append(q, d) \in Seq(Datum)
<1>1. Len(q) \in Nat /\ d \in Datum
  BY DEF Datum
<1>2. /\ Append(q, d) \in Seq(Datum) /\ Len(Append(q, d)) = Len(q) + 1
      /\ \A a \in 1 .. Len(q) : Append(q, d)[a] = q[a]
      /\ Append(q, d)[Len(q) + 1] = d
  BY <1>1, Appended
<1>3. \A a \in 1 .. Len(q) : q[a] = [of |-> s, n |-> a]
  BY DEF Numbers
<1>4. \A a \in 1 .. Len(q) + 1 : Append(q, d)[a] = [of |-> s, n |-> a]
  <2> TAKE a \in 1 .. Len(q) + 1
  <2>1. CASE a = Len(q) + 1
    BY <1>2, <2>1
  <2>2. CASE a # Len(q) + 1
    <3>1. a \in 1 .. Len(q)
      BY <1>1, <2>2
    <3> QED BY <1>2, <1>3, <3>1
  <2> QED BY <2>1, <2>2
<1>5. Append(q, d) = [a \in 1 .. Len(q) + 1 |-> Append(q, d)[a]]
  BY <1>1
<1>6. Append(q, d) = [a \in 1 .. Len(q) + 1 |-> [of |-> s, n |-> a]]
  BY ONLY <1>4, <1>5
<1> QED BY <1>2, <1>6 DEF Numbers

\* Of the streams with one identifier the cloud has at most one, so that a frame is
\* taken for the stream that sent it.
LEMMA OneAddressee == ASSUME TunnelInv, NEW f \in Carried(outbound) PROVE Addressee(f) = {f.of}
<1>1. /\ f.of \in Stream /\ f.id \in Id /\ f.id = id[f.of]
      /\ IF f.kind = "response" THEN remote[f.of] = "asking" ELSE remote[f.of] \in {"open", "closing"}
  <2>1. Carried(outbound) \subseteq Frames
    BY CarriedIn DEF TunnelInv, TunnelTypes
  <2>2. f.of \in Stream /\ f.id \in Id
    BY <2>1 DEF Frames
  <2> QED BY <2>2 DEF TunnelInv, Going
<1>2. f.of \in Addressee(f)
  BY <1>1 DEF Addressee
<1>3. ASSUME NEW t \in Addressee(f) PROVE t = f.of
  <2>1. t \in Stream /\ id[t] = id[f.of] /\ id[t] # 0 /\ remote[t] # "closed" /\ remote[f.of] # "closed"
    BY <1>1, <1>3, Numbered DEF Addressee
  <2>2. ~(t < f.of) /\ ~(f.of < t)
    BY <1>1, <2>1 DEF TunnelInv, Prudent
  <2> QED BY <1>1, <2>1, <2>2, Numbered
<1> QED BY <1>2, <1>3

LEMMA CloudReceivesKeeps == ASSUME TunnelInv, CloudReceives PROVE TunnelInv'
<1> USE DEF device, local
<1> DEFINE f == Head(outbound)
           s == f.of
           L == Len(heard[s])
           said == f.kind \in {"data", "response"} /\ f.n > 0
           last == f.kind \in {"close", "response"}
<1>1. /\ TunnelTypes /\ Prudent /\ Coming /\ Entries /\ Tasks
      /\ Going /\ Inboxes /\ Whole /\ NoCrosstalk
  BY DEF TunnelInv
<1>2. /\ outbound # <<>> /\ outbound' = Tail(outbound) /\ outbound \in Seq(Frames)
      /\ UNCHANGED <<inbound, streams, inbox, doneQueue, task, service, id, sent, got, produced, origin>>
  BY <1>1 DEF CloudReceives, TunnelTypes
<1>3. /\ Carried(outbound) = Carried(outbound') \cup {f} /\ f \in Frames
      /\ \A g \in Carried(outbound') : Precedes(f, g)
      /\ Ordered(outbound') /\ outbound' \in Seq(Frames)
      /\ Carried(inbound) \subseteq Frames /\ Carried(outbound) \subseteq Frames
  BY <1>1, <1>2, Shortened, CarriedShortened, OrderedShortened, CarriedIn DEF Going, TunnelTypes
<1>4. s \in Stream /\ f.n \in Nat
  BY <1>3 DEF Frames
<1>5. Addressee(f) = {s}
  BY <1>3, OneAddressee
<1>6. /\ remote' = [t \in Stream |-> IF last /\ t = s THEN "closed" ELSE remote[t]]
      /\ heard' = [t \in Stream |-> IF said /\ t = s THEN Append(heard[t], [of |-> s, n |-> f.n])
                                    ELSE heard[t]]
  BY <1>5 DEF CloudReceives
<1>7. /\ f.id = id[s] /\ f.kind \notin {"open", "request"}
      /\ IF f.kind = "response" THEN remote[s] = "asking" ELSE remote[s] \in {"open", "closing"}
      /\ said => L < f.n /\ f.n <= produced[s]
  BY <1>1, <1>3 DEF Going
<1>8. L \in Nat /\ produced[s] \in Nat /\ heard[s] \in Seq(Datum)
  BY <1>1, <1>4 DEF TunnelTypes
<1> HIDE DEF f
<1>9. ASSUME NEW g \in Carried(outbound'), g.of = s, said, g.kind \in {"data", "response"}
      PROVE  f.n < g.n
  <2>1. f.kind = "data" /\ g.kind = "data"
    <3>1. f.kind \notin {"close", "response"}
      BY <1>3, <1>9 DEF Precedes
    <3>2. f.kind = "data"
      BY <1>9, <3>1
    <3>3. remote[s] \in {"open", "closing"} /\ (g.kind = "response" => remote[s] = "asking")
      BY <1>1, <1>3, <1>7, <1>9, <3>2 DEF Going
    <3> QED BY <1>9, <3>2, <3>3
  <2> QED BY <1>3, <1>9, <2>1 DEF Precedes
<1>10. said => f.n = L + 1
  <2> SUFFICES ASSUME said, f.n # L + 1 PROVE FALSE
    OBVIOUS
  <2>1. L + 1 \in L + 1 .. produced[s] /\ remote[s] \in {"open", "asking", "closing"} /\ L + 1 < f.n
    BY <1>4, <1>7, <1>8
  <2>2. PICK g \in Carried(outbound) : g.kind \in {"data", "response"} /\ g.of = s /\ g.n = L + 1
    BY <1>1, <1>4, <2>1 DEF Going
  <2>3. g \in Carried(outbound')
    BY <1>3, <2>1, <2>2
  <2>4. f.n < g.n
    BY <1>9, <2>2, <2>3
  <2> QED BY <1>4, <1>8, <2>1, <2>2, <2>4
<1>11. said => /\ heard'[s] = Numbers(s, Len(heard'[s])) /\ Len(heard'[s]) = L + 1
               /\ heard'[s] \in Seq(Datum)
  <2> SUFFICES ASSUME said PROVE /\ heard'[s] = Numbers(s, Len(heard'[s])) /\ Len(heard'[s]) = L + 1
                                 /\ heard'[s] \in Seq(Datum)
    OBVIOUS
  <2>1. heard'[s] = Append(heard[s], [of |-> s, n |-> L + 1])
    BY <1>4, <1>6, <1>10
  <2>2. heard[s] = Numbers(s, Len(heard[s]))
    BY <1>1, <1>4 DEF NoCrosstalk
  <2> QED BY <1>4, <1>8, <2>1, <2>2, NumbersAppended
<1>12. /\ ~said => heard'[s] = heard[s]
       /\ \A t \in Stream : t # s => heard'[t] = heard[t] /\ remote'[t] = remote[t]
       /\ remote'[s] = IF last THEN "closed" ELSE remote[s]
  BY <1>4, <1>6
<1>13. \A t \in Stream : Silent(t) => t # s /\ Silent(t)'
  <2>1. \A t \in Stream : Silent(t) => t # s
    BY <1>3 DEF Silent
  <2> QED BY <1>2, <1>3, <1>12, <2>1 DEF Silent
<1>14. TunnelTypes'
  <2>1. \A t \in Stream : heard'[t] \in Seq(Datum) /\ remote'[t] \in {remote[t], "closed"}
    BY <1>1, <1>8, <1>11, <1>12 DEF TunnelTypes
  <2>2. heard' \in [Stream -> Seq(Datum)]
    BY <1>6, <2>1
  <2>3. remote' \in [Stream -> {"unused", "open", "asking", "closing", "closed"}]
    BY <1>1, <1>6 DEF TunnelTypes
  <2> QED BY <1>1, <1>2, <1>3, <2>2, <2>3 DEF TunnelTypes
<1> HIDE DEF L, said, last
<1>15. last => f.kind \in {"close", "response"}
  BY DEF last
<1>16. Prudent'
  BY <1>1, <1>2, <1>4, <1>7, <1>12, <1>13 DEF Prudent
<1>17. Coming'
  <2>1. \A g \in Carried(inbound) : g.of \in Stream
    BY <1>3 DEF Frames
  <2> QED BY <1>1, <1>2, <1>12, <1>13, <2>1 DEF Coming
<1>18. Entries'
  BY <1>1, <1>2 DEF Entries
<1>19. Tasks'
  <2> SUFFICES ASSUME NEW t \in Stream
               PROVE  /\ task[t] \in {"connecting", "relaying", "writing"} =>
                             /\ remote'[t] \in {"open", "closing"}
                             /\ \A g \in Carried(outbound') : g.of = t => g.kind # "close"
                      /\ task[t] = "asking" => remote'[t] = "asking" /\ sent[t] = 1 /\ Silent(t)'
    BY <1>1, <1>2 DEF Tasks, TaskFits, target_for, native_webui_origin
  <2>1. task[t] \in {"connecting", "relaying", "writing"} /\ t = s => f.kind # "close" /\ f.kind # "response"
    BY <1>1, <1>3, <1>7 DEF Tasks, TaskFits
  <2> QED BY <1>1, <1>3, <1>12, <1>13, <1>15, <2>1 DEF Tasks, TaskFits
<1>20. Going'
  <2>1. ASSUME NEW g \in Carried(outbound')
        PROVE  /\ g.id = id[g.of] /\ g.kind \notin {"open", "request"}
               /\ IF g.kind = "response" THEN remote'[g.of] = "asking"
                                         ELSE remote'[g.of] \in {"open", "closing"}
               /\ g.kind \in {"data", "response"} /\ g.n > 0 =>
                      Len(heard'[g.of]) < g.n /\ g.n <= produced[g.of]
    <3>1. g \in Carried(outbound) /\ g.of \in Stream /\ g.n \in Nat
      BY <1>3 DEF Frames
    <3>2. g.of = s => ~last
      BY <1>3, <1>15 DEF Precedes
    <3>3. remote'[g.of] = remote[g.of]
      BY <1>12, <3>1, <3>2
    <3>4. ASSUME g.kind \in {"data", "response"}, g.n > 0 PROVE Len(heard'[g.of]) < g.n
      <4>1. Len(heard[g.of]) < g.n
        BY <1>1, <3>1, <3>4 DEF Going
      <4>2. CASE g.of = s /\ said
        BY <1>4, <1>8, <1>9, <1>10, <1>11, <3>1, <3>4, <4>2
      <4>3. CASE ~(g.of = s /\ said)
        BY <1>12, <3>1, <4>1, <4>3
      <4> QED BY <4>2, <4>3
    <3> QED BY <1>1, <3>1, <3>3, <3>4 DEF Going
  <2>2. ASSUME NEW t \in Stream, remote'[t] \in {"open", "asking", "closing"},
               NEW k \in Len(heard'[t]) + 1 .. produced[t]
        PROVE  \E g \in Carried(outbound') : g.kind \in {"data", "response"} /\ g.of = t /\ g.n = k
    <3>1. remote[t] \in {"open", "asking", "closing"}
      BY <1>4, <1>12, <2>2
    <3>2. /\ k \in Len(heard[t]) + 1 .. produced[t]
          /\ t = s /\ said => k # f.n
      <4>1. CASE t = s /\ said
        BY <1>8, <1>10, <1>11, <2>2, <4>1 DEF L
      <4>2. CASE ~(t = s /\ said)
        BY <1>12, <2>2, <4>2
      <4> QED BY <4>1, <4>2
    <3>3. PICK g \in Carried(outbound) : g.kind \in {"data", "response"} /\ g.of = t /\ g.n = k
      BY <1>1, <3>1, <3>2 DEF Going
    <3>4. k > 0
      BY <1>1, <3>2 DEF TunnelTypes
    <3>5. g # f
      BY <3>2, <3>3, <3>4 DEF said
    <3> QED BY <1>3, <3>3, <3>5
  <2> QED BY <1>2, <1>3, <2>1, <2>2 DEF Going
<1>21. Inboxes'
  BY <1>1, <1>2 DEF Inboxes, InboxFits
<1>22. Whole'
  BY <1>1, <1>2 DEF Whole, Complete, Flows, Taken
<1>23. NoCrosstalk'
  <2>1. ASSUME NEW t \in Stream
        PROVE  Len(heard'[t]) <= produced[t] /\ heard'[t] = Numbers(t, Len(heard'[t]))
    <3>1. CASE t = s /\ said
      BY <1>4, <1>7, <1>8, <1>10, <1>11, <3>1
    <3>2. CASE ~(t = s /\ said)
      BY <1>1, <1>12, <3>2 DEF NoCrosstalk
    <3> QED BY <3>1, <3>2
  <2> QED BY <1>1, <1>2, <2>1 DEF NoCrosstalk
<1> QED BY <1>14, <1>16, <1>17, <1>18, <1>19, <1>20, <1>21, <1>22, <1>23 DEF TunnelInv

-----------------------------------------------------------------------------
(* The loop *)

\* The frame that the loop takes, before all others.
LEMMA FirstFrame ==
    ASSUME TunnelInv, inbound # <<>>, inbound' = Tail(inbound)
    PROVE  /\ Head(inbound) \in Frames /\ inbound' \in Seq(Frames) /\ Ordered(inbound')
           /\ Carried(inbound) = Carried(inbound') \cup {Head(inbound)}
           /\ Carried(inbound) \subseteq Frames
           /\ \A g \in Carried(inbound') : Precedes(Head(inbound), g)
<1>1. inbound \in Seq(Frames) /\ Ordered(inbound)
  BY DEF TunnelInv, TunnelTypes, Coming
<1> QED BY <1>1, Shortened, CarriedShortened, OrderedShortened, CarriedIn

\* What the device says in a stream that the cloud has and that is not over comes last.
LEMMA LastSaid ==
    ASSUME TunnelInv, NEW s \in Stream, remote[s] \in {"open", "asking", "closing"},
           NEW f \in Frames, f.of = s, f.id = id[s], f.kind \notin {"open", "request"},
           \A g \in Carried(outbound) : g.of = s => g.kind \notin {"close", "response"},
           f.kind = "data" => f.n = produced[s] + 1
    PROVE  \A g \in Carried(outbound) : Precedes(g, f)
<1>1. TunnelTypes /\ Prudent /\ Going /\ Carried(outbound) \subseteq Frames
  BY CarriedIn DEF TunnelInv, TunnelTypes
<1> TAKE g \in Carried(outbound)
<1>2. /\ g.of \in Stream /\ g.id = id[g.of] /\ g.id \in Id /\ remote[g.of] # "closed"
      /\ g.n \in Nat /\ produced[s] \in Nat
  <2>1. g.of \in Stream /\ g.id \in Id /\ g.n \in Nat
    BY <1>1 DEF Frames
  <2>2. g.id = id[g.of] /\ remote[g.of] \in {"open", "asking", "closing"}
    BY <1>1 DEF Going
  <2> QED BY <1>1, <2>1, <2>2 DEF TunnelTypes
<1>3. g.id = f.id => g.of = s
  <2> SUFFICES ASSUME g.id = f.id PROVE ~(g.of < s) /\ ~(s < g.of)
    BY <1>2, Numbered
  <2>1. id[g.of] = id[s] /\ id[g.of] # 0 /\ id[s] # 0 /\ remote[s] # "closed"
    BY <1>2, Numbered
  <2> QED BY <1>1, <1>2, <2>1 DEF Prudent
<1>4. g.of = s /\ g.kind = "data" => g.n <= produced[s]
  BY <1>1, <1>2 DEF Going
<1>5. g.id = f.id => g.of <= f.of
  BY <1>3, Numbered
<1>6. g.kind = "data" /\ f.kind = "data" /\ g.of = f.of => g.n < f.n
  BY <1>2, <1>4
<1> QED BY <1>5, <1>6 DEF Precedes

LEMMA ReceiveOpenKeeps == ASSUME TunnelInv, ReceiveOpen PROVE TunnelInv'
<1> USE DEF device, cloud, local
<1> DEFINE f == Head(inbound)
           s == f.of
           c == [f EXCEPT !.kind = "close"]
           again == streams[f.id] # 0
<1>1. /\ TunnelTypes /\ Prudent /\ Coming /\ Entries /\ Tasks
      /\ Going /\ Inboxes /\ Whole /\ NoCrosstalk
  BY DEF TunnelInv
<1>2. /\ inbound # <<>> /\ f.kind = "open" /\ inbound' = Tail(inbound)
      /\ again => outbound' = Append(outbound, c) /\ UNCHANGED <<streams, task>>
      /\ ~again => /\ streams' = [streams EXCEPT ![f.id] = s]
                   /\ task' = [task EXCEPT ![s] = "connecting"] /\ UNCHANGED outbound
      /\ UNCHANGED <<inbox, doneQueue, service, id, remote, sent, heard, got, produced, origin>>
  BY DEF ReceiveOpen, Incoming, Received, ToCloud, SetTask
<1>3. /\ f \in Frames /\ inbound' \in Seq(Frames) /\ Ordered(inbound')
      /\ Carried(inbound) = Carried(inbound') \cup {f}
      /\ Carried(inbound) \subseteq Frames
      /\ \A g \in Carried(inbound') : Precedes(f, g)
  BY <1>2, FirstFrame
<1>4. /\ s \in Stream /\ f.id \in Id
      /\ c \in Frames /\ c.kind = "close" /\ c.of = s /\ c.id = f.id
  BY <1>3 DEF Frames
<1> HIDE DEF f, c
<1>5. /\ f.id = id[s] /\ remote[s] \in {"open", "closing"} /\ task[s] = "none" /\ Silent(s)
  BY <1>1, <1>2, <1>3 DEF Coming
<1>6. again => /\ \A g \in Carried(outbound) : Precedes(g, c)
               /\ Carried(outbound') = Carried(outbound) \cup {c} /\ outbound' \in Seq(Frames)
               /\ Ordered(outbound')
  <2> SUFFICES ASSUME again PROVE /\ \A g \in Carried(outbound) : Precedes(g, c)
                                  /\ Carried(outbound') = Carried(outbound) \cup {c}
                                  /\ outbound' \in Seq(Frames)
                                  /\ Ordered(outbound')
    OBVIOUS
  <2>1. \A g \in Carried(outbound) : Precedes(g, c)
    BY <1>4, <1>5, LastSaid DEF Silent
  <2>2. outbound \in Seq(Frames) /\ Ordered(outbound)
    BY <1>1 DEF TunnelTypes, Going
  <2>3. outbound' = Append(outbound, c)
    BY <1>2
  <2>4. Carried(Append(outbound, c)) = Carried(outbound) \cup {c}
    BY <1>4, <2>2, CarriedAppended
  <2>5. Ordered(Append(outbound, c)) /\ Append(outbound, c) \in Seq(Frames)
    BY <1>4, <2>1, <2>2, OrderedAppended, Appended
  <2> QED BY <2>1, <2>3, <2>4, <2>5
<1>7. /\ ~again => /\ streams'[f.id] = s /\ task'[s] = "connecting"
                   /\ \A i \in Id : i # f.id => streams'[i] = streams[i]
      /\ \A t \in Stream : t # s => task'[t] = task[t]
      /\ task'[s] \in {"none", "connecting"}
  BY <1>1, <1>2, <1>4, <1>5 DEF TunnelTypes
<1>8. \A t \in Stream : t # s => Silent(t)' = Silent(t)
  BY <1>2, <1>4, <1>6 DEF Silent
<1>9. \A g \in Carried(inbound') : g.kind \in {"open", "request"} => g.of # s
  BY <1>3 DEF Precedes
<1>10. \A g \in Carried(inbound') : g.of \in Stream
  BY <1>3 DEF Frames
<1>11. got[s] = <<>> /\ inbox[s] = <<>> /\ produced[s] = 0 /\ heard[s] = <<>>
       /\ \A g \in Carried(outbound) : g.of # s
  BY <1>5 DEF Silent
<1>12. TunnelTypes'
  <2>1. streams' \in [Id -> Stream \cup {0}]
    BY <1>1, <1>2, <1>4 DEF TunnelTypes
  <2>2. task' \in [Stream -> {"none", "asking", "connecting", "relaying", "writing", "ending", "ended"}]
    BY <1>1, <1>2, <1>4 DEF TunnelTypes
  <2>3. outbound' \in Seq(Frames)
    BY <1>1, <1>2, <1>6 DEF TunnelTypes
  <2> QED BY <1>1, <1>2, <1>3, <2>1, <2>2, <2>3 DEF TunnelTypes
<1>13. Prudent'
  <2>1. \A t \in Stream : remote[t] = "unused" => t # s
    BY <1>5
  <2> QED BY <1>1, <1>2, <1>7, <1>8, <2>1 DEF Prudent
<1>14. Coming'
  BY <1>1, <1>2, <1>3, <1>7, <1>8, <1>9, <1>10 DEF Coming
<1>15. Entries'
  <2>1. CASE again
    BY <1>1, <1>2, <1>3, <2>1 DEF Entries
  <2>2. CASE ~again
    <3>1. \A g \in Carried(inbound') : g.id = f.id => s <= g.of
      BY <1>3 DEF Precedes
    <3>2. \A j \in Id : j # f.id /\ streams[j] # 0 => streams[j] \in Stream /\ task'[streams[j]] # "none"
      BY <1>1, <1>5, <1>7 DEF Entries, TunnelTypes
    <3> QED BY <1>1, <1>2, <1>3, <1>5, <1>7, <2>2, <3>1, <3>2 DEF Entries
  <2> QED BY <2>1, <2>2
<1>16. Tasks'
  <2>1. ASSUME NEW t \in Stream, t # s
        PROVE  \A g \in Carried(outbound') : g.of = t => g \in Carried(outbound)
    BY <1>2, <1>4, <1>6, <2>1
  <2>2. CASE again
    BY <1>1, <1>2, <1>5, <1>7, <1>8, <1>11, <2>1, <2>2 DEF Tasks, TaskFits, target_for, native_webui_origin
  <2>3. CASE ~again
    BY <1>1, <1>2, <1>4, <1>5, <1>7, <1>8, <1>11, <2>1, <2>3, Numbered
    DEF Tasks, TaskFits, target_for, native_webui_origin
  <2> QED BY <2>2, <2>3
<1>17. Going'
  <2>1. CASE again
    BY <1>1, <1>2, <1>4, <1>5, <1>6, <2>1 DEF Going
  <2>2. CASE ~again
    BY <1>1, <1>2, <2>2 DEF Going
  <2> QED BY <2>1, <2>2
<1>18. Inboxes'
  <2>1. \A t \in Stream : t # s => \A i \in Id : streams'[i] = t => streams[i] = t
    BY <1>2, <1>7
  <2> QED BY <1>1, <1>2, <1>11, <2>1 DEF Inboxes, InboxFits
<1>19. Whole'
  <2>1. \A t \in Stream : Flows(t)' => Flows(t)
    <3> SUFFICES ASSUME NEW t \in Stream, Flows(t)' PROVE Flows(t)
      OBVIOUS
    <3>1. CASE t = s
      BY <1>2, <1>3, <3>1 DEF Flows
    <3>2. CASE t # s
      BY <1>2, <1>3, <1>7, <3>2 DEF Flows
    <3> QED BY <3>1, <3>2
  <2>2. \A t \in Stream : Taken(t)' = Taken(t)
    BY <1>2 DEF Taken
  <2> QED BY <1>1, <1>2, <1>3, <2>1, <2>2 DEF Whole, Complete
<1>20. NoCrosstalk'
  BY <1>1, <1>2 DEF NoCrosstalk
<1> QED BY <1>12, <1>13, <1>14, <1>15, <1>16, <1>17, <1>18, <1>19, <1>20 DEF TunnelInv

LEMMA ReceiveRequestKeeps == ASSUME TunnelInv, ReceiveRequest PROVE TunnelInv'
<1> USE DEF device, cloud, local
<1> DEFINE f == Head(inbound)
           s == f.of
<1>1. /\ TunnelTypes /\ Prudent /\ Coming /\ Entries /\ Tasks
      /\ Going /\ Inboxes /\ Whole /\ NoCrosstalk
  BY DEF TunnelInv
<1>2. /\ inbound # <<>> /\ f.kind = "request" /\ inbound' = Tail(inbound)
      /\ task' = [task EXCEPT ![s] = "asking"]
      /\ UNCHANGED <<outbound, streams, inbox, doneQueue, service, id, remote, sent, heard, got,
                     produced, origin>>
  BY DEF ReceiveRequest, Incoming, Received, SetTask
<1>3. /\ f \in Frames /\ inbound' \in Seq(Frames) /\ Ordered(inbound')
      /\ Carried(inbound) = Carried(inbound') \cup {f}
      /\ Carried(inbound) \subseteq Frames
      /\ \A g \in Carried(inbound') : Precedes(f, g)
  BY <1>2, FirstFrame
<1>4. s \in Stream
  BY <1>3 DEF Frames
<1> HIDE DEF f
<1>5. /\ id[s] \in Id /\ remote[s] = "asking" /\ task[s] = "none" /\ sent[s] = 1 /\ Silent(s)
  BY <1>1, <1>2, <1>3, <1>4 DEF Coming, Prudent
<1>6. task'[s] = "asking" /\ \A t \in Stream : t # s => task'[t] = task[t]
  BY <1>1, <1>2, <1>4 DEF TunnelTypes
<1>7. \A t \in Stream : Silent(t)' = Silent(t)
  BY <1>2 DEF Silent
<1>8. \A g \in Carried(inbound') : g.of \in Stream /\ (g.kind \in {"open", "request"} => g.of # s)
  BY <1>3 DEF Precedes, Frames
<1>9. TunnelTypes'
  BY <1>1, <1>2, <1>3, <1>4 DEF TunnelTypes
<1>10. Prudent' /\ Coming'
  BY <1>1, <1>2, <1>3, <1>5, <1>6, <1>7, <1>8 DEF Prudent, Coming
<1>11. Entries'
  <2>1. \A j \in Id : streams[j] # 0 => streams[j] \in Stream /\ task'[streams[j]] # "none"
    BY <1>1, <1>5, <1>6 DEF Entries, TunnelTypes
  <2> QED BY <1>1, <1>2, <1>3, <2>1 DEF Entries
<1>12. Tasks'
  <2>1. inbox[s] = <<>> /\ got[s] = <<>>
    BY <1>5 DEF Silent
  <2> QED BY <1>1, <1>2, <1>5, <1>6, <1>7, <2>1 DEF Tasks, TaskFits, target_for, native_webui_origin
<1>13. Going' /\ Inboxes' /\ NoCrosstalk'
  <2>1. Going' BY <1>1, <1>2 DEF Going
  <2>2. Inboxes' BY <1>1, <1>2 DEF Inboxes, InboxFits
  <2>3. NoCrosstalk' BY <1>1, <1>2 DEF NoCrosstalk
  <2> QED BY <2>1, <2>2, <2>3
<1>14. Whole'
  <2>1. \A t \in Stream : Flows(t)' => Flows(t)
    BY <1>2, <1>3, <1>6 DEF Flows
  <2>2. \A t \in Stream : Taken(t)' = Taken(t)
    BY <1>2 DEF Taken
  <2> QED BY <1>1, <1>2, <1>3, <2>1, <2>2 DEF Whole, Complete
<1> QED BY <1>9, <1>10, <1>11, <1>12, <1>13, <1>14 DEF TunnelInv

\* The entry that a late done removes may be of another stream: its data then end there,
\* without a gap.
LEMMA ReceiveDoneKeeps == ASSUME TunnelInv, ReceiveDone PROVE TunnelInv'
<1> USE DEF device, cloud, local
<1>1. /\ TunnelTypes /\ Prudent /\ Coming /\ Entries /\ Tasks
      /\ Going /\ Inboxes /\ Whole /\ NoCrosstalk
  BY DEF TunnelInv
<1>2. /\ doneQueue # <<>> /\ doneQueue' = Tail(doneQueue) /\ doneQueue \in Seq(Id)
      /\ streams' = [streams EXCEPT ![Head(doneQueue)] = 0]
      /\ UNCHANGED <<inbound, outbound, inbox, task, service, id, remote, sent, heard, got,
                     produced, origin>>
  BY <1>1 DEF ReceiveDone, TunnelTypes
<1>3. Head(doneQueue) \in Id /\ doneQueue' \in Seq(Id)
  BY <1>2, Shortened
<1>4. \A i \in Id : streams'[i] = streams[i] \/ streams'[i] = 0
  BY <1>1, <1>2, <1>3 DEF TunnelTypes
<1>5. TunnelTypes'
  BY <1>1, <1>2, <1>3 DEF TunnelTypes
<1>6. \A t \in Stream : Silent(t)' = Silent(t)
  BY <1>2 DEF Silent
<1>7. Prudent' /\ Coming' /\ Going'
  <2>1. Prudent' BY <1>1, <1>2, <1>6 DEF Prudent
  <2>2. Coming'
    <3>1. Carried(inbound) \subseteq Frames
      BY <1>1, CarriedIn DEF TunnelTypes
    <3>2. \A g \in Carried(inbound) : g.of \in Stream
      BY <3>1 DEF Frames
    <3> QED BY <1>1, <1>2, <1>6, <3>2 DEF Coming
  <2>3. Going' BY <1>1, <1>2 DEF Going
  <2> QED BY <2>1, <2>2, <2>3
<1>8. Entries'
  BY <1>1, <1>2, <1>4 DEF Entries
<1>9. Tasks'
  BY <1>1, <1>2, <1>6 DEF Tasks, TaskFits, target_for, native_webui_origin
<1>10. Inboxes'
  <2>1. \A t \in Stream, i \in Id : streams'[i] = t => streams[i] = t
    BY <1>4, Numbered
  <2> QED BY <1>1, <1>2, <2>1 DEF Inboxes, InboxFits
<1>11. Whole'
  <2>1. \A t \in Stream : Flows(t)' => Flows(t)
    BY <1>2, <1>4, Numbered DEF Flows
  <2>2. \A t \in Stream : Taken(t)' = Taken(t)
    BY <1>2 DEF Taken
  <2> QED BY <1>1, <1>2, <2>1, <2>2 DEF Whole, Complete
<1>12. NoCrosstalk'
  BY <1>1, <1>2 DEF NoCrosstalk
<1> QED BY <1>5, <1>7, <1>8, <1>9, <1>10, <1>11, <1>12 DEF TunnelInv

LEMMA ReceiveFrameKeeps == ASSUME TunnelInv, ReceiveFrame PROVE TunnelInv'
<1> USE DEF device, cloud, local
<1> DEFINE f == Head(inbound)
           s == f.of
           t0 == streams[f.id]
           handed == t0 # 0 /\ task[t0] \in {"connecting", "relaying", "writing"}
<1>1. /\ TunnelTypes /\ Prudent /\ Coming /\ Entries /\ Tasks
      /\ Going /\ Inboxes /\ Whole /\ NoCrosstalk
  BY DEF TunnelInv
<1>2. /\ inbound # <<>> /\ f.kind \in {"data", "close"} /\ inbound' = Tail(inbound)
      /\ inbox' = IF handed THEN [inbox EXCEPT ![t0] = Append(@, f)] ELSE inbox
      /\ streams' = IF f.kind = "close" THEN [streams EXCEPT ![f.id] = 0] ELSE streams
      /\ UNCHANGED <<outbound, doneQueue, task, service, id, remote, sent, heard, got,
                     produced, origin>>
  BY DEF ReceiveFrame, Incoming, Received
<1>3. /\ f \in Frames /\ inbound' \in Seq(Frames) /\ Ordered(inbound')
      /\ Carried(inbound) = Carried(inbound') \cup {f}
      /\ Carried(inbound) \subseteq Frames
      /\ \A g \in Carried(inbound') : Precedes(f, g)
  BY <1>2, FirstFrame
<1>4. s \in Stream /\ f.id \in Id /\ f.n \in Nat
  BY <1>3 DEF Frames
<1> HIDE DEF f
<1>5. f.id = id[s] /\ (f.kind = "data" => f.n \in 1 .. sent[s])
  BY <1>1, <1>2, <1>3 DEF Coming
\* It is handed to the stream that the cloud meant.
<1>6. handed => t0 = s
  <2> SUFFICES ASSUME handed PROVE t0 = s
    OBVIOUS
  <2>1. t0 \in Stream /\ id[t0] = f.id /\ t0 <= s
    BY <1>1, <1>3, <1>4 DEF Entries, TunnelTypes
  <2>2. remote[t0] \in {"open", "closing"}
    BY <1>1, <2>1 DEF Tasks, TaskFits
  <2>3. ~(t0 < s)
    BY <1>1, <1>4, <1>5, <2>1, <2>2, Numbered DEF Prudent
  <2> QED BY <1>4, <2>1, <2>3, Numbered
<1>7. /\ \A i \in Id : streams'[i] = streams[i] \/ streams'[i] = 0
      /\ f.kind = "close" => streams'[f.id] = 0
      /\ f.kind = "data" => streams' = streams
  BY <1>1, <1>2, <1>4 DEF TunnelTypes
<1>8. /\ \A t \in Stream : t # s \/ ~handed => inbox'[t] = inbox[t]
      /\ handed => inbox'[s] = Append(inbox[s], f)
      /\ inbox[s] \in Seq(Frames) /\ Len(inbox[s]) \in Nat
  <2>1. inbox[s] \in Seq(Frames)
    BY <1>1, <1>4 DEF TunnelTypes
  <2>2. Len(inbox[s]) \in Nat
    BY <2>1
  <2>3. CASE handed
    <3>1. inbox' = [inbox EXCEPT ![s] = Append(@, f)] /\ DOMAIN inbox = Stream
      BY <1>1, <1>2, <1>6, <2>3 DEF TunnelTypes
    <3>2. \A t \in Stream : t # s => inbox'[t] = inbox[t]
      BY <3>1
    <3>3. inbox'[s] = Append(inbox[s], f)
      BY <1>4, <3>1
    <3> QED BY <2>1, <2>2, <2>3, <3>2, <3>3
  <2>4. CASE ~handed
    BY <1>2, <2>1, <2>2, <2>4
  <2> QED BY <2>3, <2>4
<1>9. handed => /\ task[s] \in {"connecting", "relaying", "writing"} /\ streams[f.id] = s
  BY <1>6
<1> HIDE DEF handed, t0
<1>10. handed => /\ Flows(s) /\ Len(inbox'[s]) = Len(inbox[s]) + 1 /\ inbox'[s] \in Seq(Frames)
                 /\ \A a \in 1 .. Len(inbox[s]) : inbox'[s][a] = inbox[s][a]
                 /\ inbox'[s][Len(inbox[s]) + 1] = f
  <2> SUFFICES ASSUME handed
               PROVE  /\ Flows(s) /\ Len(inbox'[s]) = Len(inbox[s]) + 1 /\ inbox'[s] \in Seq(Frames)
                      /\ \A a \in 1 .. Len(inbox[s]) : inbox'[s][a] = inbox[s][a]
                      /\ inbox'[s][Len(inbox[s]) + 1] = f
    OBVIOUS
  <2>1. Flows(s)
    BY <1>4, <1>9 DEF Flows
  <2>2. inbox'[s] = Append(inbox[s], f)
    BY <1>8
  <2> QED BY <1>3, <1>8, <2>1, <2>2, Appended
<1>11. \A t \in Stream : Silent(t) /\ task[t] \notin {"connecting", "relaying", "writing"} => Silent(t)'
  BY <1>2, <1>8, <1>9 DEF Silent
<1>12. TunnelTypes'
  <2>1. \A t \in Stream : inbox'[t] \in Seq(Frames)
    BY <1>1, <1>8, <1>10 DEF TunnelTypes
  <2>2. DOMAIN inbox' = Stream /\ inbox' = [t \in Stream |-> inbox'[t]]
    BY <1>1, <1>2 DEF TunnelTypes
  <2>3. streams' \in [Id -> Stream \cup {0}]
    BY <1>1, <1>2, <1>4 DEF TunnelTypes
  <2> QED BY <1>1, <1>2, <1>3, <2>1, <2>2, <2>3 DEF TunnelTypes
<1>13. Prudent'
  BY <1>1, <1>2, <1>11 DEF Prudent
<1>14. Coming'
  <2>1. \A g \in Carried(inbound) : g.of \in Stream
    BY <1>3 DEF Frames
  <2> QED BY <1>1, <1>2, <1>3, <1>11, <2>1 DEF Coming
<1>15. Entries'
  BY <1>1, <1>2, <1>3, <1>7 DEF Entries
<1>16. Tasks'
  <2>1. Append(inbox[s], f) # <<>>
    BY <1>3, <1>8, Appended
  <2>2. \A t \in Stream : task[t] = "writing" => inbox'[t] # <<>>
    BY <1>1, <1>8, <2>1 DEF Tasks, TaskFits
  <2> QED BY <1>1, <1>2, <1>8, <1>9, <1>11, <2>2 DEF Tasks, TaskFits, target_for, native_webui_origin
<1>17. Going'
  BY <1>1, <1>2 DEF Going
\* It is the next one of its stream.
<1>18. handed /\ f.kind = "data" => f.n = Taken(s) + 1 /\ Taken(s) \in Nat /\ sent[s] \in Nat
  <2> SUFFICES ASSUME handed, f.kind = "data"
               PROVE  f.n = Taken(s) + 1 /\ Taken(s) \in Nat /\ sent[s] \in Nat
    OBVIOUS
  <2>1. Taken(s) \in Nat /\ sent[s] \in Nat
    BY <1>1, <1>4 DEF TunnelTypes, Taken
  <2>2. f.n > Taken(s)
    BY <1>1, <1>3, <1>4, <1>10 DEF Whole, Complete
  <2>3. ASSUME f.n # Taken(s) + 1 PROVE FALSE
    <3>1. Taken(s) + 1 \in Taken(s) + 1 .. sent[s] /\ Taken(s) + 1 < f.n
      BY <1>4, <1>5, <2>1, <2>2, <2>3
    <3>2. PICK g \in Carried(inbound) : g.kind = "data" /\ g.of = s /\ g.n = Taken(s) + 1
      BY <1>1, <1>4, <1>10, <3>1 DEF Whole, Complete
    <3>3. g \in Carried(inbound')
      BY <1>3, <2>1, <3>1, <3>2
    <3>4. f.n < g.n
      BY <1>3, <3>2, <3>3 DEF Precedes
    <3> QED BY <1>4, <2>1, <3>1, <3>2, <3>4
  <2> QED BY <2>1, <2>3
<1>19. Inboxes'
  <2> SUFFICES ASSUME NEW t \in Stream, NEW j \in 1 .. Len(inbox'[t])
               PROVE  \/ /\ inbox'[t][j].kind = "data" /\ inbox'[t][j].of = t
                         /\ inbox'[t][j].n = Len(got[t]) + j /\ Len(got[t]) + j <= sent[t]
                      \/ inbox'[t][j].kind = "close" /\ j = Len(inbox'[t])
                         /\ \A i \in Id : streams'[i] # t
    BY <1>2 DEF Inboxes, InboxFits
  <2>1. \A i \in Id : streams[i] # t => streams'[i] # t
    BY <1>7, Numbered
  <2>2. CASE t # s \/ ~handed
    BY <1>1, <1>8, <2>1, <2>2 DEF Inboxes, InboxFits
  <2>3. CASE t = s /\ handed
    <3>1. CASE j \in 1 .. Len(inbox[s])
      <4>1. inbox'[s][j] = inbox[s][j]
        BY <1>10, <2>3, <3>1
      <4>2. ~(\A i \in Id : streams[i] # s)
        BY <1>4, <1>9, <2>3
      <4>3. /\ inbox[s][j].kind = "data" /\ inbox[s][j].of = s
            /\ inbox[s][j].n = Len(got[s]) + j /\ Len(got[s]) + j <= sent[s]
        BY <1>1, <1>4, <3>1, <4>2 DEF Inboxes, InboxFits
      <4> QED BY <2>3, <4>1, <4>3
    <3>2. CASE j \notin 1 .. Len(inbox[s])
      <4>1. j = Len(inbox[s]) + 1 /\ inbox'[s][j] = f /\ j = Len(inbox'[s])
        BY <1>8, <1>10, <2>3, <3>2
      <4>2. CASE f.kind = "data"
        <5>1. f.n = Len(got[s]) + j
          BY <1>1, <1>4, <1>8, <1>18, <2>3, <4>1, <4>2 DEF Taken, TunnelTypes
        <5>2. f.n <= sent[s]
          BY <1>5, <1>18, <2>3, <4>2
        <5> QED BY <2>3, <4>1, <4>2, <5>1, <5>2
      <4>3. CASE f.kind = "close"
        <5>1. \A i \in Id : streams'[i] # s
          <6> TAKE i \in Id
          <6>1. CASE i = f.id
            BY <1>4, <1>7, <4>3, <6>1, Numbered
          <6>2. CASE i # f.id
            <7>1. streams[i] # s
              BY <1>1, <1>4, <1>5, <6>2, Numbered DEF Entries
            <7> QED BY <2>1, <2>3, <7>1
          <6> QED BY <6>1, <6>2
        <5> QED BY <2>3, <4>1, <4>3, <5>1
      <4> QED BY <1>2, <4>2, <4>3
    <3> QED BY <3>1, <3>2
  <2> QED BY <2>2, <2>3
<1>20. Whole'
  <2> SUFFICES ASSUME NEW t \in Stream, Flows(t)'
               PROVE  /\ Taken(t)' <= sent[t]
                      /\ \A g \in Carried(inbound') : g.kind = "data" /\ g.of = t => g.n > Taken(t)'
                      /\ \A k \in Taken(t)' + 1 .. sent[t] :
                             \E g \in Carried(inbound') : g.kind = "data" /\ g.of = t /\ g.n = k
    BY <1>2 DEF Whole, Complete
  <2>1. Flows(t)
    BY <1>2, <1>3, <1>7, Numbered DEF Flows
  <2>2. CASE t = s
    <3>1. \A g \in Carried(inbound') : g.of = s => g.kind # "open"
      BY <1>3 DEF Precedes
    <3>2. PICK i \in Id : task[s] \in {"connecting", "relaying", "writing"} /\ streams'[i] = s
      BY <1>2, <2>2, <3>1 DEF Flows
    <3>3. streams[i] = s /\ i = f.id /\ f.kind = "data"
      <4>1. streams[i] = s
        BY <1>4, <1>7, <3>2, Numbered
      <4>2. i = f.id
        BY <1>1, <1>4, <1>5, <4>1, Numbered DEF Entries
      <4> QED BY <1>2, <1>4, <1>7, <3>2, <4>1, <4>2, Numbered
    <3>4. handed
      BY <1>4, <3>2, <3>3, Numbered DEF handed, t0
    <3>5. Taken(t)' = f.n
      <4>1. Len(inbox'[t]) = Len(inbox[t]) + 1
        BY <1>10, <2>2, <3>4
      <4>2. f.n = Taken(t) + 1
        BY <1>18, <2>2, <3>3, <3>4
      <4>3. PICK a \in Nat, b \in Nat : a = Len(got[t]) /\ b = Len(inbox[t])
        <5>1. got[t] \in Seq(Datum) /\ inbox[t] \in Seq(Frames)
          BY <1>1 DEF TunnelTypes
        <5>2. Len(got[t]) \in Nat /\ Len(inbox[t]) \in Nat
          BY ONLY <5>1
        <5> QED BY ONLY <5>2
      <4>4. got' = got
        BY <1>2
      <4>5. Len(inbox'[t]) = b + 1
        BY <4>1, <4>3
      <4>6. Taken(t) = a + b
        BY <4>3 DEF Taken
      <4>7. Taken(t)' = a + (b + 1)
        BY <4>3, <4>4, <4>5 DEF Taken
      <4> QED BY <4>2, <4>6, <4>7
    <3>6. \A g \in Carried(inbound') : g.kind = "data" /\ g.of = s => g.n > f.n
      <4> TAKE g \in Carried(inbound')
      <4>1. g.n \in Nat
        BY <1>3 DEF Frames
      <4> QED BY <1>3, <1>4, <3>3, <4>1 DEF Precedes
    <3>7. ASSUME NEW k \in f.n + 1 .. sent[s]
          PROVE  \E g \in Carried(inbound') : g.kind = "data" /\ g.of = s /\ g.n = k
      <4>1. k \in Taken(s) + 1 .. sent[s] /\ k # f.n
        BY <1>4, <1>18, <3>3, <3>4
      <4>2. PICK g \in Carried(inbound) : g.kind = "data" /\ g.of = s /\ g.n = k
        BY <1>1, <1>4, <2>1, <2>2, <4>1 DEF Whole, Complete
      <4> QED BY <1>3, <4>1, <4>2
    <3>8. f.n <= sent[s]
      BY <1>5, <1>18, <3>3, <3>4
    <3> QED BY <2>2, <3>5, <3>6, <3>7, <3>8
  <2>3. CASE t # s
    <3>1. Taken(t)' = Taken(t)
      BY <1>2, <1>8, <2>3 DEF Taken
    <3> QED BY <1>1, <1>3, <2>1, <2>3, <3>1 DEF Whole, Complete
  <2> QED BY <2>2, <2>3
<1>21. NoCrosstalk'
  BY <1>1, <1>2 DEF NoCrosstalk
<1> QED BY <1>12, <1>13, <1>14, <1>15, <1>16, <1>17, <1>19, <1>20, <1>21 DEF TunnelInv

-----------------------------------------------------------------------------
(* The tasks: a step of the task of s, with a frame that it says or without *)

Works(s) ==
    /\ UNCHANGED <<inbound, streams, service, id, remote, sent, heard, origin>>
    /\ task[s] # "none" /\ task'[s] \notin {"none", "asking"}
    /\ \A t \in Stream : t # s => /\ task'[t] = task[t] /\ got'[t] = got[t]
                                  /\ produced'[t] = produced[t] /\ inbox'[t] = inbox[t]
    /\ TunnelTypes'

Says(s, f) ==
    /\ f \in Frames /\ f.of = s /\ f.id = id[s] /\ f.kind \notin {"open", "request"}
    /\ outbound' = Append(outbound, f)
    /\ IF f.kind = "response" THEN task[s] = "asking" ELSE task[s] \in {"connecting", "relaying", "writing"}
    /\ f.kind = "data" => f.n = produced[s] + 1
    /\ IF f.kind \in {"data", "response"} /\ f.n > 0
       THEN f.n = produced[s] + 1 /\ produced'[s] = f.n ELSE produced'[s] = produced[s]
IsSilent(s) == outbound' = outbound /\ produced'[s] = produced[s]

\* What a stream says is known to the cloud as its own, and complete.
LEMMA SaysGoing ==
    ASSUME TunnelInv, NEW s \in Stream, Works(s), NEW f, Says(s, f)
    PROVE  Going' /\ Carried(outbound') = Carried(outbound) \cup {f}
<1>1. /\ TunnelTypes /\ Prudent /\ Going /\ Tasks /\ NoCrosstalk /\ outbound \in Seq(Frames)
      /\ Carried(outbound) \subseteq Frames
  BY CarriedIn DEF TunnelInv, TunnelTypes
<1>2. /\ IF f.kind = "response" THEN remote[s] = "asking" ELSE remote[s] \in {"open", "closing"}
      /\ \A g \in Carried(outbound) : g.of = s => g.kind \notin {"close", "response"}
  <2>1. CASE f.kind = "response"
    <3>1. task[s] = "asking"
      BY <2>1 DEF Says
    <3> QED BY <1>1, <2>1, <3>1 DEF Tasks, TaskFits, Silent
  <2>2. CASE f.kind # "response"
    <3>1. task[s] \in {"connecting", "relaying", "writing"}
      BY <2>2 DEF Says
    <3>2. remote[s] \in {"open", "closing"} /\ \A g \in Carried(outbound) : g.of = s => g.kind # "close"
      BY <1>1, <3>1 DEF Tasks, TaskFits
    <3> QED BY <1>1, <2>2, <3>2 DEF Going
  <2> QED BY <2>1, <2>2
<1>3. /\ f \in Frames /\ f.of = s /\ f.id = id[s] /\ f.kind \notin {"open", "request"} /\ f.n \in Nat
      /\ outbound' = Append(outbound, f) /\ (f.kind = "data" => f.n = produced[s] + 1)
  BY DEF Says, Frames
<1>4. \A g \in Carried(outbound) : Precedes(g, f)
  BY <1>2, <1>3, LastSaid
<1>5. Carried(Append(outbound, f)) = Carried(outbound) \cup {f} /\ Ordered(Append(outbound, f))
  BY <1>1, <1>3, <1>4, CarriedAppended, OrderedAppended DEF Going
<1>6. PICK made \in Nat, known \in Nat : made = produced[s] /\ known = Len(heard[s]) /\ known <= made
  <2>1. heard[s] \in Seq(Datum) /\ produced[s] \in Nat /\ Len(heard[s]) <= produced[s]
    BY <1>1 DEF TunnelTypes, NoCrosstalk
  <2>2. Len(heard[s]) \in Nat
    BY ONLY <2>1
  <2> QED BY <2>1, <2>2
<1>7. /\ f.kind \in {"data", "response"} /\ f.n > 0 => f.n = made + 1 /\ produced'[s] = f.n
      /\ produced'[s] = made \/ (produced'[s] = made + 1 /\ f.n = made + 1
                                 /\ f.kind \in {"data", "response"})
  BY <1>6 DEF Says
<1>8. UNCHANGED <<id, remote, heard>> /\ \A t \in Stream : t # s => produced'[t] = produced[t]
  BY DEF Works
<1>9. ASSUME NEW g \in Carried(outbound), g.kind \in {"data", "response"}, g.n > 0
      PROVE  Len(heard[g.of]) < g.n /\ g.n <= produced'[g.of]
  <2>1. Len(heard[g.of]) < g.n /\ g.n <= produced[g.of] /\ g.of \in Stream /\ g.n \in Nat
    BY <1>1, <1>9 DEF Going, Frames
  <2>2. CASE g.of = s
    <3>1. g.n <= made
      BY <1>6, <2>1, <2>2
    <3>2. g.n <= produced'[s]
      BY <1>7, <2>1, <3>1
    <3> QED BY <2>1, <2>2, <3>2
  <2>3. CASE g.of # s
    BY <1>8, <2>1, <2>3
  <2> QED BY <2>2, <2>3
<1>10. ASSUME NEW t \in Stream, remote[t] \in {"open", "asking", "closing"},
              NEW k \in Len(heard[t]) + 1 .. produced'[t]
       PROVE  \E g \in Carried(outbound) \cup {f} : g.kind \in {"data", "response"} /\ g.of = t /\ g.n = k
  <2>1. CASE k \in Len(heard[t]) + 1 .. produced[t]
    BY <1>1, <1>10, <2>1 DEF Going
  <2>2. CASE k \notin Len(heard[t]) + 1 .. produced[t]
    <3>1. t = s
      BY <1>8, <1>10, <2>2
    <3>2. k = made + 1 /\ produced'[s] = made + 1
      BY <1>6, <1>7, <1>10, <2>2, <3>1
    <3> QED BY <1>3, <1>7, <3>1, <3>2
  <2> QED BY <2>1, <2>2
<1>11. f.kind \in {"data", "response"} /\ f.n > 0 => Len(heard[s]) < f.n /\ f.n <= produced'[s]
  BY <1>3, <1>6, <1>7
<1>12. Going'
  BY <1>1, <1>2, <1>3, <1>5, <1>8, <1>9, <1>10, <1>11 DEF Going
<1> QED BY <1>3, <1>5, <1>12

LEMMA WorksKeeps ==
    ASSUME TunnelInv, NEW s \in Stream, Works(s),
           IsSilent(s) \/ \E f \in Frames : Says(s, f),
           TaskFits(s)', InboxFits(s)', Flows(s)' => Complete(s)',
           Len(got'[s]) <= sent[s] /\ got'[s] = Numbers(s, Len(got'[s]))
    PROVE  TunnelInv'
<1>1. /\ TunnelTypes /\ Prudent /\ Coming /\ Entries /\ Tasks
      /\ Going /\ Inboxes /\ Whole /\ NoCrosstalk
  BY DEF TunnelInv
<1>2. Going' /\ \A g \in Carried(outbound') : g.of # s => g \in Carried(outbound)
  <2>1. CASE IsSilent(s)
    <3>1. UNCHANGED <<id, remote, heard, outbound>> /\ \A t \in Stream : produced'[t] = produced[t]
      BY <2>1 DEF Works, IsSilent
    <3>2. \A g \in Carried(outbound) : g.of \in Stream
      <4>1. Carried(outbound) \subseteq Frames
        BY <1>1, CarriedIn DEF TunnelTypes
      <4> QED BY <4>1 DEF Frames
    <3> QED BY <1>1, <3>1, <3>2 DEF Going
  <2>2. CASE \E f \in Frames : Says(s, f)
    <3>1. PICK f \in Frames : Says(s, f)
      BY <2>2
    <3>2. f.of = s
      BY <3>1 DEF Says
    <3> QED BY <3>1, <3>2, SaysGoing
  <2> QED BY <2>1, <2>2
<1>3. /\ UNCHANGED <<inbound, streams, service, id, remote, sent, heard, origin>>
      /\ task[s] # "none" /\ task'[s] \notin {"none", "asking"}
      /\ \A t \in Stream : t # s => /\ task'[t] = task[t] /\ got'[t] = got[t]
                                    /\ produced'[t] = produced[t] /\ inbox'[t] = inbox[t]
      /\ TunnelTypes'
  BY DEF Works
<1>4. \A t \in Stream : t # s /\ Silent(t) => Silent(t)'
  BY <1>2, <1>3 DEF Silent
<1>5. Prudent'
  <2>1. remote[s] # "unused"
    BY <1>1, <1>3 DEF Prudent
  <2> QED BY <1>1, <1>3, <1>4, <2>1 DEF Prudent
<1>6. Coming'
  <2>1. Carried(inbound) \subseteq Frames
    BY <1>1, CarriedIn DEF TunnelTypes
  <2>2. \A g \in Carried(inbound) : g.of \in Stream /\ (g.kind \in {"open", "request"} => g.of # s)
    BY <1>1, <1>3, <2>1 DEF Coming, Frames
  <2> QED BY <1>1, <1>3, <1>4, <2>2 DEF Coming
<1>7. Entries'
  <2>1. \A j \in Id : streams[j] # 0 => streams[j] \in Stream /\ task'[streams[j]] # "none"
    BY <1>1, <1>3 DEF Entries, TunnelTypes
  <2> QED BY <1>1, <1>3, <2>1 DEF Entries
<1>8. Tasks'
  <2> SUFFICES ASSUME NEW t \in Stream, t # s PROVE TaskFits(t)'
    BY DEF Tasks
  <2> QED BY <1>1, <1>2, <1>3, <1>4 DEF Tasks, TaskFits, target_for, native_webui_origin
<1>9. Inboxes'
  <2> SUFFICES ASSUME NEW t \in Stream, t # s PROVE InboxFits(t)'
    BY DEF Inboxes
  <2>1. InboxFits(t)
    BY <1>1 DEF Inboxes
  <2>2. inbox'[t] = inbox[t] /\ got'[t] = got[t] /\ sent' = sent /\ streams' = streams
    BY <1>3
  <2> QED BY ONLY <2>1, <2>2 DEF InboxFits
<1>10. Whole'
  <2> SUFFICES ASSUME NEW t \in Stream, t # s, Flows(t)' PROVE Complete(t)'
    BY DEF Whole
  <2>1. Flows(t) /\ Taken(t)' = Taken(t)
    BY <1>3 DEF Flows, Taken
  <2> QED BY <1>1, <1>3, <2>1 DEF Whole, Complete
<1>11. NoCrosstalk'
  <2>1. \A t \in Stream : Len(got'[t]) <= sent[t] /\ got'[t] = Numbers(t, Len(got'[t]))
    BY <1>1, <1>3 DEF NoCrosstalk
  <2>2. ASSUME NEW t \in Stream PROVE Len(heard[t]) <= produced'[t]
    <3>1. CASE t # s
      BY <1>1, <1>3, <3>1 DEF NoCrosstalk
    <3>2. CASE t = s
      <4>1. /\ Len(heard[s]) <= produced[s] /\ produced[s] \in Nat /\ heard[s] \in Seq(Datum)
        BY <1>1 DEF NoCrosstalk, TunnelTypes
      <4>2. produced'[s] = produced[s] \/ produced'[s] = produced[s] + 1
        BY DEF IsSilent, Says
      <4> QED BY <3>2, <4>1, <4>2
    <3> QED BY <3>1, <3>2
  <2>3. ASSUME NEW t \in Stream, got'[t] # <<>>
        PROVE  /\ service[t] \in {"webui", "control", "terminal"}
               /\ service[t] = "webui" => origin = "loopback"
    <3>1. target_for(service[t])
      BY <1>3, <1>8, <2>3 DEF Tasks, TaskFits, target_for, native_webui_origin
    <3> QED BY <3>1 DEF target_for, native_webui_origin, validate_local_origin
  <2> QED BY <1>1, <1>3, <2>1, <2>2, <2>3 DEF NoCrosstalk
<1> QED BY <1>2, <1>3, <1>5, <1>6, <1>7, <1>8, <1>9, <1>10, <1>11 DEF TunnelInv

\* What is known of a task that is not over.
LEMMA OfATask ==
    ASSUME TunnelInv, NEW s \in Stream
    PROVE  /\ TunnelTypes /\ TaskFits(s) /\ InboxFits(s) /\ (Flows(s) => Complete(s))
           /\ got[s] \in Seq(Datum) /\ Len(got[s]) \in Nat /\ produced[s] \in Nat /\ sent[s] \in Nat
           /\ inbox[s] \in Seq(Frames) /\ Len(inbox[s]) \in Nat
           /\ Len(got[s]) <= sent[s] /\ got[s] = Numbers(s, Len(got[s]))
           /\ task[s] # "none" => id[s] \in Id
           /\ task[s] \in {"connecting", "relaying", "writing"} => \A g \in Carried(outbound) : g.of = s => g.kind # "close"
           /\ task[s] # "none" => \A f \in Carried(inbound) : f.kind = "open" => f.of # s
<1>1. TunnelTypes /\ TaskFits(s) /\ InboxFits(s) /\ (Flows(s) => Complete(s)) /\ Coming
  BY DEF TunnelInv, Tasks, Inboxes, Whole
<1>2. got[s] \in Seq(Datum) /\ produced[s] \in Nat /\ sent[s] \in Nat /\ inbox[s] \in Seq(Frames)
  BY <1>1 DEF TunnelTypes
<1>3. Len(got[s]) \in Nat /\ Len(inbox[s]) \in Nat
  BY ONLY <1>2
<1>4. Len(got[s]) <= sent[s] /\ got[s] = Numbers(s, Len(got[s]))
  BY DEF TunnelInv, NoCrosstalk
<1>5. task[s] # "none" => \A f \in Carried(inbound) : f.kind = "open" => f.of # s
  BY <1>1 DEF Coming
<1> QED BY <1>1, <1>2, <1>3, <1>4, <1>5 DEF TaskFits

LEMMA ConnectsKeeps == ASSUME TunnelInv, NEW s \in Stream, Connects(s) PROVE TunnelInv'
<1> USE DEF device, cloud, local
<1> DEFINE f == StreamFrame("accept", s, 0)
<1>1. /\ task[s] = "connecting" /\ target_for(service[s])
      /\ task' = [task EXCEPT ![s] = "relaying"] /\ outbound' = Append(outbound, f)
      /\ UNCHANGED <<inbound, streams, inbox, doneQueue, service, id, remote, sent, heard, got,
                     produced, origin>>
  BY DEF Connects, SetTask, ToCloud
<1>2. /\ TunnelTypes /\ TaskFits(s) /\ InboxFits(s) /\ (Flows(s) => Complete(s)) /\ id[s] \in Id
      /\ outbound \in Seq(Frames)
      /\ Len(got[s]) <= sent[s] /\ got[s] = Numbers(s, Len(got[s]))
  BY <1>1, OfATask DEF TunnelTypes
<1>3. f \in Frames /\ f.of = s /\ f.id = id[s] /\ f.kind = "accept"
  BY <1>2 DEF StreamFrame, Frames
<1> HIDE DEF f
<1>4. task'[s] = "relaying" /\ \A t \in Stream : t # s => task'[t] = task[t]
  BY <1>1, <1>2 DEF TunnelTypes
<1>5. TunnelTypes'
  BY <1>1, <1>2, <1>3, Appended DEF TunnelTypes
<1>6. Works(s)
  BY <1>1, <1>4, <1>5 DEF Works
<1>7. Says(s, f)
  BY <1>1, <1>3 DEF Says
<1>8. Carried(outbound') = Carried(outbound) \cup {f}
  BY <1>6, <1>7, SaysGoing
<1>9. TaskFits(s)'
  BY <1>1, <1>2, <1>3, <1>4, <1>8 DEF TaskFits, target_for, native_webui_origin
<1>10. InboxFits(s)'
  BY <1>1, <1>2 DEF InboxFits
<1>11. Flows(s)' => Complete(s)'
  BY <1>1, <1>2, <1>4 DEF Flows, Complete, Taken
<1> QED BY <1>1, <1>2, <1>3, <1>6, <1>7, <1>9, <1>10, <1>11, WorksKeeps

LEMMA ClosesKeeps ==
    ASSUME TunnelInv, NEW s \in Stream, Closes(s), task[s] \in {"connecting", "relaying", "writing"},
           UNCHANGED <<inbound, streams, doneQueue, service, id, remote, sent, heard, got,
                       produced, origin>>
    PROVE  TunnelInv'
<1> DEFINE f == StreamFrame("close", s, 0)
<1>1. /\ task' = [task EXCEPT ![s] = "ending"] /\ outbound' = Append(outbound, f)
      /\ inbox' = [inbox EXCEPT ![s] = <<>>]
  BY DEF Closes, SetTask, ToCloud
<1>2. /\ TunnelTypes /\ TaskFits(s) /\ id[s] \in Id /\ outbound \in Seq(Frames)
      /\ Len(got[s]) <= sent[s] /\ got[s] = Numbers(s, Len(got[s]))
      /\ \A g \in Carried(inbound) : g.kind = "open" => g.of # s
  BY OfATask DEF TunnelTypes
<1>3. f \in Frames /\ f.of = s /\ f.id = id[s] /\ f.kind = "close"
  BY <1>2 DEF StreamFrame, Frames
<1> HIDE DEF f
<1>4. /\ task'[s] = "ending" /\ \A t \in Stream : t # s => task'[t] = task[t]
      /\ inbox'[s] = <<>> /\ \A t \in Stream : t # s => inbox'[t] = inbox[t]
  BY <1>1, <1>2 DEF TunnelTypes
<1>5. TunnelTypes'
  BY <1>1, <1>2, <1>3, Appended DEF TunnelTypes
<1>6. Works(s)
  BY <1>1, <1>4, <1>5 DEF Works
<1>7. Says(s, f)
  BY <1>1, <1>3 DEF Says
<1>8. TaskFits(s)'
  BY <1>1, <1>2, <1>4 DEF TaskFits, target_for, native_webui_origin
<1>9. InboxFits(s)'
  BY <1>4 DEF InboxFits
<1>10. ~Flows(s)'
  BY <1>2, <1>4 DEF Flows
<1> QED BY <1>1, <1>2, <1>3, <1>6, <1>7, <1>8, <1>9, <1>10, WorksKeeps

LEMMA ServiceSendsKeeps == ASSUME TunnelInv, NEW s \in Stream, ServiceSends(s) PROVE TunnelInv'
<1> USE DEF device, cloud
<1> DEFINE f == StreamFrame("data", s, produced[s] + 1)
<1>1. /\ task[s] = "relaying" /\ produced' = [produced EXCEPT ![s] = @ + 1]
      /\ outbound' = Append(outbound, f)
      /\ UNCHANGED <<inbound, streams, inbox, doneQueue, task, service, id, remote, sent, heard,
                     got, origin>>
  BY DEF ServiceSends, ToCloud
<1>2. /\ TunnelTypes /\ TaskFits(s) /\ InboxFits(s) /\ (Flows(s) => Complete(s)) /\ id[s] \in Id
      /\ outbound \in Seq(Frames) /\ produced[s] \in Nat
      /\ Len(got[s]) <= sent[s] /\ got[s] = Numbers(s, Len(got[s]))
  BY <1>1, OfATask DEF TunnelTypes
<1>3. f \in Frames /\ f.of = s /\ f.id = id[s] /\ f.kind = "data" /\ f.n = produced[s] + 1
  BY <1>2 DEF StreamFrame, Frames
<1> HIDE DEF f
<1>4. produced'[s] = produced[s] + 1 /\ \A t \in Stream : t # s => produced'[t] = produced[t]
  BY <1>1, <1>2 DEF TunnelTypes
<1>5. TunnelTypes'
  BY <1>1, <1>2, <1>3, Appended DEF TunnelTypes
<1>6. Works(s)
  BY <1>1, <1>4, <1>5 DEF Works
<1>7. Says(s, f)
  BY <1>1, <1>2, <1>3, <1>4 DEF Says
<1>8. Carried(outbound') = Carried(outbound) \cup {f}
  BY <1>6, <1>7, SaysGoing
<1>9. TaskFits(s)'
  BY <1>1, <1>2, <1>3, <1>8 DEF TaskFits, target_for, native_webui_origin
<1>10. InboxFits(s)'
  BY <1>1, <1>2 DEF InboxFits
<1>11. Flows(s)' => Complete(s)'
  BY <1>1, <1>2 DEF Flows, Complete, Taken
<1> QED BY <1>1, <1>2, <1>3, <1>6, <1>7, <1>9, <1>10, <1>11, WorksKeeps

LEMMA ReportDoneKeeps == ASSUME TunnelInv, NEW s \in Stream, ReportDone(s) PROVE TunnelInv'
<1> USE DEF device, cloud, local
<1>1. /\ task[s] = "ending" /\ task' = [task EXCEPT ![s] = "ended"]
      /\ doneQueue' = Append(doneQueue, id[s])
      /\ UNCHANGED <<inbound, outbound, streams, inbox, service, id, remote, sent, heard, got,
                     produced, origin>>
  BY DEF ReportDone, SetTask
<1>2. /\ TunnelTypes /\ TaskFits(s) /\ InboxFits(s) /\ (Flows(s) => Complete(s)) /\ id[s] \in Id
      /\ doneQueue \in Seq(Id)
      /\ Len(got[s]) <= sent[s] /\ got[s] = Numbers(s, Len(got[s]))
  BY <1>1, OfATask DEF TunnelTypes
<1>3. task'[s] = "ended" /\ \A t \in Stream : t # s => task'[t] = task[t]
  BY <1>1, <1>2 DEF TunnelTypes
<1>4. TunnelTypes'
  BY <1>1, <1>2, Appended DEF TunnelTypes
<1>5. Works(s) /\ IsSilent(s)
  BY <1>1, <1>3, <1>4 DEF Works, IsSilent
<1>6. TaskFits(s)'
  BY <1>1, <1>2, <1>3 DEF TaskFits, target_for, native_webui_origin
<1>7. InboxFits(s)'
  BY <1>1, <1>2 DEF InboxFits
<1>8. Flows(s)' => Complete(s)'
  BY <1>1, <1>2, <1>3 DEF Flows, Complete, Taken
<1> QED BY <1>1, <1>2, <1>5, <1>6, <1>7, <1>8, WorksKeeps

LEMMA AnswersKeep ==
    ASSUME TunnelInv, NEW s \in Stream, proxy_frame_to_local(s)
    PROVE  TunnelInv'
<1> USE DEF device, cloud, local
<1>1. /\ TunnelTypes /\ TaskFits(s) /\ id[s] \in Id /\ outbound \in Seq(Frames) /\ task[s] = "asking"
      /\ got[s] = <<>> /\ produced[s] = 0 /\ inbox[s] = <<>> /\ sent[s] = 1
      /\ \A g \in Carried(inbound) : g.kind = "open" => g.of # s
  <2>1. task[s] = "asking"
    BY DEF proxy_frame_to_local
  <2>2. TunnelTypes /\ TaskFits(s) /\ id[s] \in Id /\ \A g \in Carried(inbound) : g.kind = "open" => g.of # s
    BY <2>1, OfATask
  <2> QED BY <2>1, <2>2 DEF TaskFits, Silent, TunnelTypes
<1>2. PICK n \in 0 .. 1, reached \in BOOLEAN :
          /\ response_frame(s, n) /\ (n = 1 => reached) /\ (reached => target_for(service[s]))
          /\ got' = IF reached THEN [got EXCEPT ![s] = <<[of |-> s, n |-> 1]>>] ELSE got
          /\ produced' = [produced EXCEPT ![s] = n]
  <2>1. CASE ~target_for(service[s])
    <3>1. response_frame(s, 0) /\ UNCHANGED <<got, produced>>
      BY <2>1 DEF proxy_frame_to_local
    <3>2. produced' = [produced EXCEPT ![s] = 0]
      BY <1>1, <3>1 DEF TunnelTypes
    <3>3. got' = IF FALSE THEN [got EXCEPT ![s] = <<[of |-> s, n |-> 1]>>] ELSE got
      BY <3>1
    <3>4. 0 \in 0 .. 1 /\ FALSE \in BOOLEAN /\ (0 = 1 => FALSE) /\ (FALSE => target_for(service[s]))
      OBVIOUS
    <3> QED BY ONLY <3>1, <3>2, <3>3, <3>4, Zenon
  <2>2. CASE target_for(service[s])
    <3>1. PICK n \in 0 .. 1, reached \in BOOLEAN :
              /\ response_frame(s, n) /\ (n = 1 => reached)
              /\ got' = [got EXCEPT ![s] = IF reached THEN <<[of |-> s, n |-> 1]>> ELSE @]
              /\ produced' = [produced EXCEPT ![s] = n]
      BY <2>2 DEF proxy_frame_to_local
    <3>2. ~reached => got' = got
      BY <1>1, <3>1 DEF TunnelTypes
    <3>3. reached => got' = [got EXCEPT ![s] = <<[of |-> s, n |-> 1]>>]
      BY <3>1
    <3> QED BY <2>2, <3>1, <3>2, <3>3
  <2> QED BY <2>1, <2>2
<1> DEFINE f == [kind |-> "response", id |-> id[s], of |-> s, n |-> n]
<1>3. /\ outbound' = Append(outbound, f) /\ task' = [task EXCEPT ![s] = "ended"]
      /\ UNCHANGED <<inbound, streams, inbox, doneQueue, service, id, remote, sent, heard, origin>>
  BY <1>2 DEF response_frame, ToCloud, SetTask, proxy_frame_to_local
<1>4. f \in Frames /\ f.of = s /\ f.id = id[s] /\ f.kind = "response" /\ f.n = n
  BY <1>1 DEF Frames
<1> HIDE DEF f
<1>5. /\ task'[s] = "ended" /\ produced'[s] = n
      /\ got'[s] = IF reached THEN <<[of |-> s, n |-> 1]>> ELSE <<>>
      /\ \A t \in Stream : t # s => /\ task'[t] = task[t] /\ got'[t] = got[t]
                                    /\ produced'[t] = produced[t]
  BY <1>1, <1>2, <1>3 DEF TunnelTypes
<1>6. /\ got'[s] \in Seq(Datum) /\ Len(got'[s]) <= sent[s] /\ got'[s] = Numbers(s, Len(got'[s]))
  <2>1. Numbers(s, 0) = <<>> /\ Numbers(s, 1) = <<[of |-> s, n |-> 1]>>
    BY DEF Numbers
  <2>2. [of |-> s, n |-> 1] \in Datum
    BY DEF Datum
  <2>3. CASE reached
    <3>1. got'[s] = <<[of |-> s, n |-> 1]>> /\ Len(<<[of |-> s, n |-> 1]>>) = 1
      BY <1>5, <2>3
    <3>2. <<[of |-> s, n |-> 1]>> \in Seq(Datum)
      BY <2>2
    <3> QED BY <1>1, <2>1, <3>1, <3>2
  <2>4. CASE ~reached
    <3>1. got'[s] = <<>> /\ Len(<<>>) = 0 /\ <<>> \in Seq(Datum)
      BY <1>5, <2>4
    <3> QED BY <1>1, <2>1, <3>1
  <2> QED BY <2>3, <2>4
<1>7. TunnelTypes'
  <2>1. got' \in [Stream -> Seq(Datum)]
    BY <1>1, <1>2, <1>5, <1>6 DEF TunnelTypes
  <2>2. produced' \in [Stream -> Nat] /\ outbound' \in Seq(Frames)
    BY <1>1, <1>2, <1>3, <1>4, Appended DEF TunnelTypes
  <2> QED BY <1>1, <1>3, <2>1, <2>2 DEF TunnelTypes
<1>8. Works(s)
  BY <1>1, <1>3, <1>5, <1>7 DEF Works
<1>9. Says(s, f)
  BY <1>1, <1>3, <1>4, <1>5 DEF Says
<1>10. TaskFits(s)'
  BY <1>1, <1>2, <1>3, <1>5 DEF TaskFits, target_for, native_webui_origin
<1>11. InboxFits(s)'
  BY <1>1, <1>3 DEF InboxFits
<1>12. ~Flows(s)'
  BY <1>1, <1>3, <1>5 DEF Flows
<1> QED BY <1>4, <1>6, <1>8, <1>9, <1>10, <1>11, <1>12, WorksKeeps

LEMMA RelayTakesKeeps == ASSUME TunnelInv, NEW s \in Stream, RelayTakes(s) PROVE TunnelInv'
<1> USE DEF device, cloud, local
<1>1. /\ task[s] = "relaying" /\ inbox[s] # <<>> /\ task' = [task EXCEPT ![s] = "writing"]
      /\ UNCHANGED <<inbound, outbound, streams, inbox, doneQueue, service, id, remote, sent, heard,
                     got, produced, origin>>
  BY DEF RelayTakes, SetTask
<1>2. /\ TunnelTypes /\ TaskFits(s) /\ InboxFits(s) /\ (Flows(s) => Complete(s)) /\ id[s] \in Id
      /\ Len(got[s]) <= sent[s] /\ got[s] = Numbers(s, Len(got[s]))
  BY <1>1, OfATask
<1>3. task'[s] = "writing" /\ \A t \in Stream : t # s => task'[t] = task[t]
  BY <1>1, <1>2 DEF TunnelTypes
<1>4. TunnelTypes'
  BY <1>1, <1>2 DEF TunnelTypes
<1>5. Works(s) /\ IsSilent(s)
  BY <1>1, <1>3, <1>4 DEF Works, IsSilent
<1>6. TaskFits(s)'
  BY <1>1, <1>2, <1>3 DEF TaskFits, target_for, native_webui_origin
<1>7. InboxFits(s)'
  BY <1>1, <1>2 DEF InboxFits
<1>8. Flows(s)' => Complete(s)'
  BY <1>1, <1>2, <1>3 DEF Flows, Complete, Taken
<1> QED BY <1>1, <1>2, <1>5, <1>6, <1>7, <1>8, WorksKeeps

LEMMA RelayDataKeeps == ASSUME TunnelInv, NEW s \in Stream, RelayData(s) PROVE TunnelInv'
<1> USE DEF device, cloud
<1> DEFINE f == Head(inbox[s])
           d == [of |-> f.of, n |-> f.n]
<1>1. /\ task[s] = "writing" /\ f.kind = "data" /\ task' = [task EXCEPT ![s] = "relaying"]
      /\ inbox' = [inbox EXCEPT ![s] = Tail(@)] /\ got' = [got EXCEPT ![s] = Append(@, d)]
      /\ UNCHANGED <<inbound, outbound, streams, doneQueue, service, id, remote, sent, heard,
                     produced, origin>>
  BY DEF RelayData, Writes, SetTask
<1>2. /\ TunnelTypes /\ TaskFits(s) /\ InboxFits(s) /\ (Flows(s) => Complete(s)) /\ id[s] \in Id
      /\ inbox[s] \in Seq(Frames) /\ got[s] \in Seq(Datum) /\ sent[s] \in Nat
      /\ Len(got[s]) <= sent[s] /\ got[s] = Numbers(s, Len(got[s])) /\ inbox[s] # <<>>
  BY <1>1, OfATask DEF TaskFits
<1>3. PICK a \in Nat, b \in Nat : a = Len(got[s]) /\ b + 1 = Len(inbox[s]) /\ b = Len(Tail(inbox[s]))
  <2>1. Len(got[s]) \in Nat
    BY <1>2
  <2>2. Len(Tail(inbox[s])) \in Nat /\ Len(inbox[s]) = Len(Tail(inbox[s])) + 1
    BY <1>1, <1>2, Shortened
  <2> QED BY <2>1, <2>2
<1>4. f = inbox[s][1] /\ Tail(inbox[s]) \in Seq(Frames)
      /\ \A j \in 1 .. b : Tail(inbox[s])[j] = inbox[s][j + 1]
  BY <1>1, <1>2, <1>3, Shortened
<1>5. f.of = s /\ f.n = a + 1 /\ a + 1 <= sent[s]
  <2>1. 1 \in 1 .. Len(inbox[s])
    BY <1>3
  <2> QED BY <1>1, <1>2, <1>3, <1>4, <2>1 DEF InboxFits
<1> HIDE DEF f
<1>6. d = [of |-> s, n |-> Len(got[s]) + 1]
  BY <1>3, <1>5
<1> HIDE DEF d
<1>7. /\ got'[s] = Append(got[s], d) /\ inbox'[s] = Tail(inbox[s])
      /\ \A t \in Stream : t # s => got'[t] = got[t] /\ inbox'[t] = inbox[t]
  BY <1>1, <1>2 DEF TunnelTypes
<1>8. /\ got'[s] \in Seq(Datum) /\ Len(got'[s]) = a + 1 /\ Len(inbox'[s]) = b
      /\ got'[s] = Numbers(s, Len(got'[s])) /\ Len(got'[s]) <= sent[s]
  <2>1. /\ Append(got[s], d) \in Seq(Datum) /\ Len(Append(got[s], d)) = Len(got[s]) + 1
        /\ Append(got[s], d) = Numbers(s, Len(Append(got[s], d)))
    BY <1>2, <1>6, NumbersAppended
  <2> QED BY <1>3, <1>5, <1>7, <2>1
<1>9. TunnelTypes'
  <2>1. \A t \in Stream : got'[t] \in Seq(Datum) /\ inbox'[t] \in Seq(Frames)
    BY <1>2, <1>4, <1>7, <1>8 DEF TunnelTypes
  <2>2. got' = [t \in Stream |-> got'[t]] /\ inbox' = [t \in Stream |-> inbox'[t]]
    BY <1>1, <1>2 DEF TunnelTypes
  <2>3. task' \in [Stream -> {"none", "asking", "connecting", "relaying", "writing", "ending", "ended"}]
    BY <1>1, <1>2 DEF TunnelTypes
  <2> QED BY <1>1, <1>2, <2>1, <2>2, <2>3 DEF TunnelTypes
<1>14. task'[s] = "relaying" /\ \A t \in Stream : t # s => task'[t] = task[t]
  BY <1>1, <1>2 DEF TunnelTypes
<1>10. Works(s) /\ IsSilent(s)
  BY <1>1, <1>7, <1>9, <1>14 DEF Works, IsSilent
<1>11. TaskFits(s)'
  BY <1>1, <1>2, <1>14 DEF TaskFits, target_for, native_webui_origin
<1>12. InboxFits(s)'
  <2> SUFFICES ASSUME NEW j \in 1 .. b
               PROVE  \/ /\ inbox'[s][j].kind = "data" /\ inbox'[s][j].of = s
                         /\ inbox'[s][j].n = (a + 1) + j /\ (a + 1) + j <= sent[s]
                      \/ inbox'[s][j].kind = "close" /\ j = b /\ \A i \in Id : streams[i] # s
    BY <1>1, <1>8 DEF InboxFits
  <2>1. inbox'[s][j] = inbox[s][j + 1] /\ j + 1 \in 1 .. Len(inbox[s])
    BY <1>3, <1>4, <1>7
  <2>2. \/ /\ inbox[s][j + 1].kind = "data" /\ inbox[s][j + 1].of = s
           /\ inbox[s][j + 1].n = a + (j + 1) /\ a + (j + 1) <= sent[s]
        \/ inbox[s][j + 1].kind = "close" /\ j + 1 = b + 1 /\ \A i \in Id : streams[i] # s
    BY <1>2, <1>3, <2>1 DEF InboxFits
  <2>3. a + (j + 1) = (a + 1) + j /\ (j + 1 = b + 1 => j = b)
    OBVIOUS
  <2> QED BY <2>1, <2>2, <2>3
<1>13. Flows(s)' => Complete(s)'
  <2>1. Flows(s)' => Flows(s)
    BY <1>1, <1>14 DEF Flows
  <2>2. Taken(s)' = Taken(s)
    <3>1. Taken(s) = a + (b + 1)
      BY <1>3 DEF Taken
    <3>2. Taken(s)' = (a + 1) + b
      BY <1>8 DEF Taken
    <3> QED BY <3>1, <3>2
  <2> QED BY <1>1, <1>2, <2>1, <2>2 DEF Complete
<1> QED BY <1>8, <1>10, <1>11, <1>12, <1>13, WorksKeeps

-----------------------------------------------------------------------------
(* Every step, and what follows *)

LEMMA TunnelKeeps == TunnelInv /\ [TunnelNext]_tunnelVars => TunnelInv'
<1> SUFFICES ASSUME TunnelInv, [TunnelNext]_tunnelVars PROVE TunnelInv'
  OBVIOUS
<1>1. CASE UNCHANGED tunnelVars
  BY <1>1, PhaseAlone DEF tunnelVars, AllButPhase, frames
<1>2. CASE Process
  <2>1. CASE run_integrated \/ foreground_integrated
    BY <2>1, PhaseAlone DEF run_integrated, foreground_integrated, AllButPhase
  <2> QED BY <1>2, <2>1, DisconnectKeeps DEF Process
<1>3. CASE Cloud
  BY <1>3, OpensKeeps, CloudSendsKeeps, CloudClosesKeeps DEF Cloud
<1>4. CASE CloudReceives
  BY <1>4, CloudReceivesKeeps
<1>5. CASE Loop
  BY <1>5, ReceiveOpenKeeps, ReceiveFrameKeeps, ReceiveRequestKeeps, ReceiveDoneKeeps DEF Loop
<1>6. ASSUME NEW s \in Stream, Connecting(s) PROVE TunnelInv'
  <2>1. CASE Connects(s)
    BY <2>1, ConnectsKeeps
  <2>2. CASE ConnectFails(s)
    BY <2>2, ClosesKeeps DEF ConnectFails, device, cloud, local
  <2> QED BY <1>6, <2>1, <2>2 DEF Connecting
<1>7. ASSUME NEW s \in Stream, Serving(s) PROVE TunnelInv'
  <2>1. CASE ServiceSends(s)
    BY <2>1, ServiceSendsKeeps
  <2>2. CASE ServiceCloses(s)
    BY <2>2, ClosesKeeps DEF ServiceCloses, device, cloud, local
  <2> QED BY <1>7, <2>1, <2>2 DEF Serving
<1>8. ASSUME NEW s \in Stream, ServiceReads(s) PROVE TunnelInv'
  <2>1. CASE RelayClose(s)
    BY <2>1, ClosesKeeps DEF RelayClose, Writes, device, cloud, local
  <2> QED BY <1>8, <2>1, RelayDataKeeps DEF ServiceReads
<1>9. ASSUME NEW s \in Stream, Task(s) PROVE TunnelInv'
  <2>1. CASE RelayEnds(s)
    BY <2>1, ClosesKeeps DEF RelayEnds, device, cloud, local
  <2> QED BY <1>9, <2>1, AnswersKeep, RelayTakesKeeps, ReportDoneKeeps DEF Task
<1> QED BY <1>1, <1>2, <1>3, <1>4, <1>5, <1>6, <1>7, <1>8, <1>9 DEF TunnelNext

\* The services and the cloud get the data of their own stream and no others, in order and
\* without a gap, for any number of streams over any number of identifiers: a frame of an
\* ended stream does not reach the one that has its identifier now, although the late done
\* of the ended one may take its entry (tunnel.rs, foreground_integrated_async).
THEOREM StreamsStayApart == TunnelSpec => []NoCrosstalk
<1>1. TunnelInv => NoCrosstalk
  BY DEF TunnelInv
<1> QED BY <1>1, InitTunnel, TunnelKeeps, PTL DEF TunnelSpec
=============================================================================
