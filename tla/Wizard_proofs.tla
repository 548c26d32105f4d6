---------------------------- MODULE Wizard_proofs ----------------------------
(***************************************************************************)
(* The setup wizard for any number of tabs, answers, secrets, failures and *)
(* restarts.  A step of a tab that is none of an apply's is described once *)
(* by what it leaves alone (Other, Plain, NoPoll), a stage of an apply by  *)
(* what it may do to the device (StageStep); each part of the invariant is *)
(* then kept by the description.                                           *)
(***************************************************************************)
EXTENDS Wizard, TLAPS
(* What is known of a request in flight, by its kind. *)
PendingType ==
    [secret : CloudProviders \cup {None}, tailscale : BOOLEAN, cloudflared : BOOLEAN,
     backup : BackupKinds \cup {None}, code : Bases \cup {None}]
TakeSteps == {"secret", "tailscale", "cloudflared", "backup"}
StageSteps == {Stages[i] : i \in 1 .. 15}
ApplyType ==
    [kind : {"apply"}, at : TakeSteps \cup StageSteps, answers : Answers, taken : PendingType,
     read : (SUBSET Secrets) \cup {None}]
PollSteps == {"exchange", "tunnel", "backup", "owner", "base", "registered"}
PollType == [kind : {"poll"}, at : PollSteps, code : Bases, reg : Registrations]
FormType ==
    [kind : {"provider"}, form : provider_choices] \cup [kind : {"channels"}, form : SUBSET Channels]
        \cup [kind : {"tailscale"}, form : BOOLEAN]
        \cup [kind : {"cloudflare-tunnel"}, form : TunnelChoices]
        \cup [kind : {"backup"}, form : BackupKinds]
RequestType == {Idle} \cup FormType \cup [kind : {"begin"}, base : Bases] \cup PollType \cup ApplyType

DeviceType ==
    [hostname : Hostnames \cup {None}, profile : Profiles \cup {None}, secrets : SUBSET Secrets,
     channels : SUBSET (Profiles \X Channels), ssh : SUBSET SshKeys,
     units : [Profiles -> (SUBSET Secrets) \cup {None}], key : BOOLEAN,
     backup : BackupKinds \cup {None}, egress : EgressModes \cup {None}]
AccountType ==
    [tunnel : Registrations \cup {None}, backup : Registrations \cup {None},
     owner : Registrations \cup {None}, base : Bases \cup {None}]

TypeOK ==
    /\ state \in WizardStates /\ file \in WizardStates \cup {None}
    /\ pending \in PendingType
    /\ request \in [Tabs -> RequestType]
    /\ device \in DeviceType
    /\ account \in AccountType
    /\ requests \in 0 .. MaxRequests /\ faults \in Nat /\ restarts \in Nat
    /\ lost \subseteq Secrets /\ torn \in BOOLEAN /\ unsaved \in BOOLEAN

Applying(t) == request[t].kind = "apply"
Polling(t) == request[t].kind = "poll"

(* An apply is at a stage only if it has something to do there, and it has   *)
(* not taken yet what it comes to later.                                     *)
AtWork(r) ==
    /\ r.at \in StageSteps => HasWork(r, r.at)
    /\ r.at = "secret" => r.taken.secret = None
    /\ r.at \in {"secret", "tailscale"} => ~r.taken.tailscale
    /\ r.at \in {"secret", "tailscale", "cloudflared"} => ~r.taken.cloudflared
    /\ r.at \in TakeSteps => r.taken.backup = None
WorkInv == \A t \in Tabs : Applying(t) => AtWork(request[t])

(* An apply of which the n-th stage is over. *)
Past(r, n) == \E i \in n + 1 .. 15 : r.at = Stages[i]

(* The recovery key comes before what needs it. *)
KeyInv ==
    /\ device.backup # None => device.key
    /\ \A t \in Tabs : Applying(t) /\ request[t].taken.backup # None /\ Past(request[t], 12) => device.key

(* What the n-th stage of an apply of answers a brings onto the device. *)
Brings(n, a, d) ==
    /\ n = 1 => a.hostname \in {None, d.hostname}
    /\ n = 2 /\ a.profile # None => d.profile = a.profile
    /\ n = 5 /\ a.profile # None => {a.profile} \X a.channels \subseteq d.channels
    /\ n = 6 => a.ssh \in {{}, d.ssh}
    /\ n = 7 /\ a.profile # None => d.units[a.profile] # None
Saved == ~unsaved => file = state \/ (file = None /\ state = Default)
Alone(t) == \A u \in Tabs \ {t} : request[u] = Idle
DoneInv ==
    /\ Saved
    /\ "answers" \notin met =>
         \A t \in Tabs : Applying(t) => Alone(t) /\ request[t].answers = state.answers
    /\ ~unsaved /\ "answers" \notin met /\ state.step = "done" =>
         \A n \in 1 .. 14 : Brings(n, state.answers, device)
    /\ "answers" \notin met =>
         \A t \in Tabs : \A n \in 1 .. 14 :
             Applying(t) /\ Past(request[t], n) => Brings(n, state.answers, device)

(* A registration writes its four files one after the other. *)
Consistent(a) ==
    /\ a.tunnel = a.owner /\ a.backup = a.owner /\ a.owner # None
    /\ a.owner.base \in {a.base, DefaultBase}
PartWritten(r, a) ==
    /\ r.at \in {"backup", "owner", "base", "registered"} => a.tunnel = r.reg
    /\ r.at \in {"owner", "base", "registered"} => a.backup = r.reg
    /\ r.at \in {"base", "registered"} => a.owner = r.reg
    /\ r.at = "registered" => r.reg.base \in {a.base, DefaultBase}
Writing(t) == Polling(t) /\ request[t].at \in {"backup", "owner", "base", "registered"}
Claims == state.answers.registered \/ (file # None /\ file.answers.registered)
RegistrationInv ==
    "poll" \notin met =>
        /\ \A t, u \in Tabs : Polling(t) /\ Polling(u) => t = u
        /\ \A t \in Tabs : Polling(t) => PartWritten(request[t], account)
        /\ Claims /\ ~torn /\ (\A t \in Tabs : ~Writing(t)) => Consistent(account)

(* A form that put its secret aside has it there until it has answered. *)
SecretKinds == {"provider", "tailscale", "cloudflare-tunnel", "backup"}
PutAside(r, p) ==
    /\ r.kind = "tailscale" => p.tailscale = r.form
    /\ r.kind = "cloudflare-tunnel" => p.cloudflared = (r.form = "named")
    /\ r.kind = "backup" => p.backup = (IF r.form = "skip" THEN None ELSE r.form)
(* What an apply that is past the writing of a secret has done with it. *)
Delivers(n, r, d, l) ==
    /\ n = 4 /\ HasKey(r) => r.taken.secret \in d.secrets \cup l
    /\ n = 9 /\ r.taken.tailscale => Tailscale \in d.secrets \cup l
    /\ n = 10 /\ r.taken.cloudflared => Credentials \in d.secrets \cup l
    /\ n = 13 /\ r.taken.backup # None => d.backup # None \/ "backup" \in l
(* An apply that is about to write secrets.env knows what is in it, or failed to read it. *)
HasRead(r, d) ==
    r.at \in {"provider_key_write", "tailscale_key_write"} => r.read \in {None, InEnv(d)}
Excuses(s) == met \cap {"apply", "answers", Asks(s)} # {}
InHand(s) ==
    \/ s \in OnDevice(device) \cup lost \cup Held(pending)
    \/ \E t \in Tabs : Applying(t) /\ s \in Held(request[t].taken)
LossInv ==
    /\ \A t \in Tabs : request[t].kind = "provider" /\ "provider" \notin met
                       => state.answers.provider = request[t].form
    /\ \A t \in Tabs : request[t].kind \notin met /\ "answers" \notin met => PutAside(request[t], pending)
    /\ "apply" \notin met /\ "answers" \notin met =>
         \A t \in Tabs : Applying(t) =>
             /\ HasRead(request[t], device)
             /\ \A n \in 1 .. 14 : Past(request[t], n) => Delivers(n, request[t], device, lost)
    /\ \A s \in Claimed(state.answers) : Excuses(s) \/ Working(Asks(s)) \/ InHand(s)

WizardInv == TypeOK /\ WorkInv /\ KeyInv /\ DoneInv /\ RegistrationInv /\ LossInv

-----------------------------------------------------------------------------
(* The stages of an apply: the next one is the first that has something to do. *)

LEMMA StagesIs ==
  /\ Stages[1] = "hostname" /\ Stages[2] = "profile" /\ Stages[3] = "provider_key"
  /\ Stages[4] = "provider_key_write" /\ Stages[5] = "channels" /\ Stages[6] = "ssh"
  /\ Stages[7] = "unit" /\ Stages[8] = "tailscale_key" /\ Stages[9] = "tailscale_key_write"
  /\ Stages[10] = "credentials" /\ Stages[11] = "cloudflared_run" /\ Stages[12] = "recovery_key"
  /\ Stages[13] = "backup_config" /\ Stages[14] = "egress" /\ Stages[15] = "finish"
  /\ DOMAIN Stages = 1 .. 15 /\ Len(Stages) = 15
  BY DEF Stages

LEMMA StagesDiffer ==
  ASSUME NEW i \in 1 .. 15, NEW j \in 1 .. 15, Stages[i] = Stages[j]  PROVE i = j
  BY DEF Stages

LEMMA StageNumber ==
  ASSUME NEW i \in 1 .. 15
  PROVE  (CHOOSE j \in DOMAIN Stages : Stages[j] = Stages[i]) = i
  BY StagesIs, StagesDiffer

LEMMA WorkIs ==
  ASSUME NEW r
  PROVE  /\ HasWork(r, Stages[1]) = (r.answers.hostname # None)
         /\ HasWork(r, Stages[2]) = (r.answers.profile # None)
         /\ HasWork(r, Stages[3]) = HasKey(r) /\ HasWork(r, Stages[4]) = HasKey(r)
         /\ HasWork(r, Stages[5]) = (r.answers.profile # None /\ r.answers.channels # {})
         /\ HasWork(r, Stages[6]) = (r.answers.ssh # {})
         /\ HasWork(r, Stages[7]) = (r.answers.profile # None)
         /\ HasWork(r, Stages[8]) = r.taken.tailscale /\ HasWork(r, Stages[9]) = r.taken.tailscale
         /\ HasWork(r, Stages[10]) = r.taken.cloudflared /\ HasWork(r, Stages[11]) = r.taken.cloudflared
         /\ HasWork(r, Stages[12]) = NeedsRecoveryKey(r)
         /\ HasWork(r, Stages[13]) = (r.taken.backup # None)
         /\ HasWork(r, Stages[15]) = TRUE
  BY StagesIs DEF HasWork

LEMMA SameWorkIs ==
  ASSUME NEW r, NEW q, q.answers = r.answers, q.taken = r.taken
  PROVE  \A s : HasWork(q, s) = HasWork(r, s)
  BY DEF HasWork, HasKey, NeedsRecoveryKey

LEMMA Least ==
  ASSUME NEW W, NEW i \in 1 .. 15, 15 \in W
  PROVE  \E j \in i .. 15 : j \in W /\ \A k \in i .. j - 1 : k \notin W
  <1> DEFINE Q == {n \in 1 .. 15 : \E j \in n .. 15 : j \in W /\ \A k \in n .. j - 1 : k \notin W}
  <1>1. ASSUME NEW n \in 1 .. 14, n + 1 \in Q  PROVE n \in Q
    <2>1. PICK j \in n + 1 .. 15 : j \in W /\ \A k \in n + 1 .. j - 1 : k \notin W  BY <1>1
    <2>2. CASE n \in W
      <3>1. n \in n .. 15 /\ \A k \in n .. n - 1 : k \notin W  OBVIOUS
      <3> QED  BY <2>2, <3>1
    <2>3. CASE n \notin W
      <3>1. j \in n .. 15 /\ \A k \in n .. j - 1 : k \notin W  BY <2>1, <2>3
      <3> QED  BY <2>1, <3>1
    <2> QED  BY <2>2, <2>3
  <1>2. \A m \in Nat : m \in Q /\ m # 1 => m - 1 \in Q
    <2>1. TAKE m \in Nat
    <2>2. HAVE m \in Q /\ m # 1
    <2>3. m - 1 \in 1 .. 14 /\ (m - 1) + 1 = m  BY <2>2
    <2> QED  BY <1>1, <2>2, <2>3
  <1>3. 15 \in Q  OBVIOUS
  <1> HIDE DEF Q
  <1>4. 14 \in Q /\ 13 \in Q /\ 12 \in Q /\ 11 \in Q  BY <1>2, <1>3
  <1>5. 10 \in Q /\ 9 \in Q /\ 8 \in Q /\ 7 \in Q  BY <1>2, <1>4
  <1>6. 6 \in Q /\ 5 \in Q /\ 4 \in Q /\ 3 \in Q /\ 2 \in Q /\ 1 \in Q  BY <1>2, <1>5
  <1>7. i \in Q  BY <1>3, <1>4, <1>5, <1>6
  <1> QED  BY <1>7 DEF Q

LEMMA NextStageIs ==
  ASSUME NEW r, NEW i \in 1 .. 15
  PROVE  \E j \in i .. 15 : /\ NextStage(r, i) = Stages[j] /\ HasWork(r, Stages[j])
                            /\ \A k \in i .. j - 1 : ~HasWork(r, Stages[k])
  <1> DEFINE P(j) == /\ HasWork(r, Stages[j])
                     /\ \A k \in i .. j - 1 : ~HasWork(r, Stages[k])
             W == {k \in 1 .. 15 : HasWork(r, Stages[k])}
  <1>0. HasWork(r, Stages[15])  BY WorkIs
  <1>1. 15 \in W  BY <1>0
  <1>2. PICK j \in i .. 15 : j \in W /\ \A k \in i .. j - 1 : k \notin W
    <2> HIDE DEF W
    <2> QED  BY <1>1, Least
  <1>3. P(j)  BY <1>2
  <1> HIDE DEF P
  <1>4. \E l \in i .. 15 : l = (CHOOSE m \in i .. 15 : P(m)) /\ P(l)  BY <1>3
  <1>5. NextStage(r, i) = Stages[CHOOSE m \in i .. 15 : P(m)]  BY StagesIs DEF NextStage, P
  <1> QED  BY <1>4, <1>5 DEF P

-----------------------------------------------------------------------------
(* Requests and answers *)

LEMMA DoesOK ==
  ASSUME TypeOK, NEW t \in Tabs, NEW r \in RequestType, Does(t, r)
  PROVE  /\ request' \in [Tabs -> RequestType] /\ request'[t] = r
         /\ \A u \in Tabs \ {t} : request'[u] = request[u]
  BY DEF TypeOK, Does

LEMMA AnsweredOK ==
  ASSUME TypeOK, NEW t \in Tabs, Answered(t)
  PROVE  /\ request' \in [Tabs -> RequestType] /\ request'[t] = Idle
         /\ \A u \in Tabs \ {t} : request'[u] = request[u]
  <1>1. Idle \in RequestType  BY DEF RequestType
  <1> QED  BY <1>1, DoesOK DEF Answered

LEMMA ArrivesOK ==
  ASSUME TypeOK, NEW t \in Tabs, NEW kind, Arrives(t, kind)
  PROVE  /\ request[t] = Idle /\ requests' = requests + 1 /\ requests' \in 0 .. MaxRequests
         /\ met \subseteq met'
         /\ (\E u \in Tabs : u # t /\ Applying(u)) => "answers" \in met'
         /\ \A u \in Tabs : u # t /\ request[u].kind = kind /\ kind # "none" => kind \in met'
         /\ kind = "apply" => "answers" \in met' \/ \A u \in Tabs : u # t => request[u].kind = "none"
  <1>1. requests' \in 0 .. MaxRequests  BY WizardAssumption DEF Arrives, TypeOK
  <1>2. \A u \in Tabs : u # t /\ request[u].kind # "none" => request[u].kind \in InFlight(t)
    BY DEF InFlight
  <1> QED  BY <1>1, <1>2 DEF Arrives, Applying

LEMMA SaveOK ==
  ASSUME TypeOK, save, state' \in WizardStates
  PROVE  /\ file' \in {file, state'} /\ file' \in WizardStates \cup {None}
         /\ faults' \in Nat /\ unsaved' \in BOOLEAN /\ Saved' /\ (unsaved => unsaved')
  <1>1. CASE file' = state' /\ UNCHANGED <<faults, unsaved>>
    BY <1>1 DEF TypeOK, Saved
  <1>2. CASE faults < MaxFaults /\ faults' = faults + 1 /\ file' = file /\ unsaved' = TRUE
    BY <1>2 DEF TypeOK, Saved
  <1> QED  BY <1>1, <1>2 DEF save

LEMMA AnswerOK ==
  ASSUME TypeOK, NEW a \in Answers, NEW next \in Steps, Answer(a, next)
  PROVE  /\ state' \in WizardStates /\ state'.answers = a /\ state'.step = next
         /\ file' \in {file, state'} /\ file' \in WizardStates \cup {None}
         /\ faults' \in Nat /\ unsaved' \in BOOLEAN /\ Saved' /\ (unsaved => unsaved')
  <1>1. state' \in WizardStates /\ state'.answers = a /\ state'.step = next
    BY DEF Answer, WizardStates
  <1> QED  BY <1>1, SaveOK DEF Answer

LEMMA StateIs ==
  ASSUME TypeOK
  PROVE  state.answers \in Answers /\ state.step \in Steps
  BY DEF TypeOK, WizardStates

-----------------------------------------------------------------------------
(* What the requests of one tab leave alone.                               *)

SameWork(a, b) ==
    a.hostname = b.hostname /\ a.profile = b.profile /\ a.channels = b.channels /\ a.ssh = b.ssh

(* A step of tab t that is none of an apply's. *)
Other(t) ==
    /\ UNCHANGED device
    /\ \A u \in Tabs \ {t} : request'[u] = request[u]
    /\ ~Applying(t) /\ ~Applying(t)'
    /\ Saved' /\ (unsaved => unsaved')
    /\ met \subseteq met'
    /\ request[t] = Idle /\ (\E u \in Tabs : u # t /\ Applying(u)) => "answers" \in met'
    /\ state'.step = "done" => state.step = "done" /\ SameWork(state'.answers, state.answers)

(* One that touches no secret either. *)
Plain(t) ==
    /\ \A f \in {"secret", "tailscale", "cloudflared", "backup"} : pending'[f] = pending[f]
    /\ UNCHANGED lost
    /\ \A f \in {"provider", "tailscale", "tunnel", "backup"} : state'.answers[f] = state.answers[f]
    /\ request[t].kind \notin SecretKinds /\ request'[t].kind \notin SecretKinds

(* And one that is no step of a registration's. *)
NoPoll(t) ==
    /\ UNCHANGED <<account, torn>>
    /\ ~Polling(t) /\ ~Polling(t)'
    /\ state'.answers.registered = state.answers.registered
    /\ file' \in {file, state'}
    /\ met \subseteq met'
    /\ \A u \in Tabs \ {t} : request'[u] = request[u]

LEMMA OtherDone ==
  ASSUME TypeOK, NEW t \in Tabs, DoneInv, Other(t)
  PROVE  DoneInv'
  <1>1. "answers" \in met' \/ \A u \in Tabs : ~Applying(u)
    BY DEF Other, DoneInv, Alone
  <1>2. \A u \in Tabs : Applying(u)' => Applying(u)  BY DEF Other, Applying
  <1>3. ASSUME state'.step = "done", NEW n \in 1 .. 14, Brings(n, state.answers, device)
        PROVE  Brings(n, state'.answers, device')
    BY <1>3 DEF Brings, Other, SameWork
  <1> QED  BY <1>1, <1>2, <1>3 DEF DoneInv, Other

LEMMA OtherKey ==
  ASSUME TypeOK, NEW t \in Tabs, KeyInv, WorkInv, Other(t)
  PROVE  KeyInv' /\ WorkInv'
  <1>1. \A u \in Tabs : Applying(u)' => Applying(u) /\ request'[u] = request[u]  BY DEF Other, Applying
  <1>2. KeyInv'  BY <1>1 DEF KeyInv, Other
  <1>3. WorkInv'  BY <1>1 DEF WorkInv
  <1> QED  BY <1>2, <1>3

LEMMA PlainLoss ==
  ASSUME TypeOK, NEW t \in Tabs, LossInv, Other(t), Plain(t)
  PROVE  LossInv'
  <1>1. \A u \in Tabs : Applying(u)' <=> Applying(u)  BY DEF Other, Applying
  <1>2. \A u \in Tabs : Applying(u) \/ request'[u].kind \in SecretKinds => request'[u] = request[u]
    BY DEF Other, Plain, Applying
  <1>3. \A u \in Tabs : Applying(u) \/ request[u].kind \in SecretKinds => request'[u] = request[u]
    BY DEF Other, Plain, Applying
  <1>4. /\ pending'.secret = pending.secret /\ pending'.tailscale = pending.tailscale
        /\ pending'.cloudflared = pending.cloudflared /\ pending'.backup = pending.backup
    BY DEF Plain
  <1>5. /\ state'.answers.provider = state.answers.provider /\ state'.answers.tailscale = state.answers.tailscale
        /\ state'.answers.tunnel = state.answers.tunnel /\ state'.answers.backup = state.answers.backup
    BY DEF Plain
  <1>6. Held(pending') = Held(pending) /\ Claimed(state'.answers) = Claimed(state.answers)
    BY <1>4, <1>5 DEF Held, Claimed
  <1>7. UNCHANGED <<device, lost>> /\ met \subseteq met'  BY DEF Other, Plain
  <1>8. \A u \in Tabs : request'[u].kind = "provider" /\ "provider" \notin met'
                        => state'.answers.provider = request'[u].form
    BY <1>2, <1>5, <1>7 DEF LossInv, SecretKinds
  <1>9. \A u \in Tabs : request'[u].kind \notin met' /\ "answers" \notin met' => PutAside(request'[u], pending')
    BY <1>2, <1>4, <1>7 DEF LossInv, SecretKinds, PutAside
  <1>10. "apply" \notin met' /\ "answers" \notin met' =>
         \A u \in Tabs : Applying(u)' =>
             /\ HasRead(request'[u], device')
             /\ \A n \in 1 .. 14 : Past(request'[u], n) => Delivers(n, request'[u], device', lost')
    BY <1>1, <1>2, <1>7 DEF LossInv
  <1>11. ASSUME NEW s \in Claimed(state'.answers)  PROVE Excuses(s)' \/ Working(Asks(s))' \/ InHand(s)'
    <2>1. CASE Excuses(s)  BY <1>7, <2>1 DEF Excuses
    <2>2. CASE Working(Asks(s))  BY <1>3, <2>2 DEF Working, Asks, SecretKinds
    <2>3. CASE InHand(s)  BY <1>1, <1>3, <1>6, <1>7, <2>3 DEF InHand
    <2> QED  BY <1>6, <1>11, <2>1, <2>2, <2>3 DEF LossInv
  <1> QED  BY <1>8, <1>9, <1>10, <1>11 DEF LossInv

LEMMA NoPollKeeps ==
  ASSUME TypeOK, NEW t \in Tabs, RegistrationInv, NoPoll(t)
  PROVE  RegistrationInv'
  <1>1. \A u \in Tabs : Polling(u)' <=> Polling(u)  BY DEF NoPoll, Polling
  <1>2. \A u \in Tabs : Polling(u) => request'[u] = request[u]  BY DEF NoPoll, Polling
  <1>3. \A u \in Tabs : Writing(u)' <=> Writing(u)  BY <1>1, <1>2 DEF Writing
  <1>4. Claims' => Claims  BY DEF Claims, NoPoll
  <1> QED  BY <1>1, <1>2, <1>3, <1>4 DEF RegistrationInv, NoPoll

-----------------------------------------------------------------------------
(* The forms and what they have in flight, but those of an apply.          *)

SameSecrets(a, b) ==
    a.provider = b.provider /\ a.tailscale = b.tailscale /\ a.tunnel = b.tunnel /\ a.backup = b.backup

LEMMA IdleIs == Idle.kind = "none" /\ Idle \in RequestType
  BY DEF Idle, RequestType

(* A form that is answered at once. *)
LEMMA PostOK ==
  ASSUME TypeOK, NEW t \in Tabs, NEW kind, NEW a \in Answers, NEW next \in Steps \ {"done"},
         Post(t, kind, a, next), SameSecrets(a, state.answers),
         a.registered = state.answers.registered
  PROVE  TypeOK' /\ Other(t) /\ Plain(t) /\ NoPoll(t)
  <1>1. /\ UNCHANGED <<pending, request, device, account, restarts, lost, torn>>
        /\ Arrives(t, kind) /\ Answer(a, next)
    BY DEF Post
  <1>2. TypeOK'  BY <1>1, ArrivesOK, AnswerOK DEF TypeOK
  <1>3. Other(t)  BY <1>1, ArrivesOK, AnswerOK, IdleIs DEF Other, Applying
  <1>4. Plain(t)  BY <1>1, ArrivesOK, AnswerOK, IdleIs DEF Plain, SameSecrets, SecretKinds
  <1>5. NoPoll(t)  BY <1>1, ArrivesOK, AnswerOK, IdleIs DEF NoPoll, Polling
  <1> QED  BY <1>2, <1>3, <1>4, <1>5

LEMMA FormsOK ==
  ASSUME TypeOK, NEW t \in Tabs,
         post_system(t) \/ post_profile(t) \/ post_egress(t) \/ post_ssh(t) \/ post_drives(t)
  PROVE  TypeOK' /\ Other(t) /\ Plain(t) /\ NoPoll(t)
  <1> USE StateIs DEF SameSecrets
  <1>1. CASE post_system(t)
    <2>1. PICK h \in Hostnames : Post(t, "system", [state.answers EXCEPT !.hostname = h], "profile")
      BY <1>1 DEF post_system
    <2>2. [state.answers EXCEPT !.hostname = h] \in Answers  BY DEF Answers
    <2>3. /\ SameSecrets([state.answers EXCEPT !.hostname = h], state.answers)
          /\ [state.answers EXCEPT !.hostname = h].registered = state.answers.registered
      BY DEF Answers
    <2> QED  BY <2>1, <2>2, <2>3, PostOK DEF Steps
  <1>2. CASE post_profile(t)
    <2>1. PICK p \in Profiles : Post(t, "profile", [state.answers EXCEPT !.profile = p], "provider")
      BY <1>2 DEF post_profile
    <2>2. [state.answers EXCEPT !.profile = p] \in Answers  BY DEF Answers
    <2>3. /\ SameSecrets([state.answers EXCEPT !.profile = p], state.answers)
          /\ [state.answers EXCEPT !.profile = p].registered = state.answers.registered
      BY DEF Answers
    <2> QED  BY <2>1, <2>2, <2>3, PostOK DEF Steps
  <1>3. CASE post_egress(t)
    <2>1. PICK m \in EgressModes : Post(t, "egress", [state.answers EXCEPT !.egress = m], "ssh")
      BY <1>3 DEF post_egress
    <2>2. [state.answers EXCEPT !.egress = m] \in Answers  BY DEF Answers
    <2>3. /\ SameSecrets([state.answers EXCEPT !.egress = m], state.answers)
          /\ [state.answers EXCEPT !.egress = m].registered = state.answers.registered
      BY DEF Answers
    <2> QED  BY <2>1, <2>2, <2>3, PostOK DEF Steps
  <1>4. CASE post_ssh(t)
    <2>1. PICK keys \in SUBSET SshKeys : Post(t, "ssh", [state.answers EXCEPT !.ssh = keys], "tailscale")
      BY <1>4 DEF post_ssh
    <2>2. [state.answers EXCEPT !.ssh = keys] \in Answers  BY DEF Answers
    <2>3. /\ SameSecrets([state.answers EXCEPT !.ssh = keys], state.answers)
          /\ [state.answers EXCEPT !.ssh = keys].registered = state.answers.registered
      BY DEF Answers
    <2> QED  BY <2>1, <2>2, <2>3, PostOK DEF Steps
  <1>5. CASE post_drives(t)
    <2>1. Post(t, "drives", [state.answers EXCEPT !.drives = TRUE], "review")
      BY <1>5 DEF post_drives
    <2>2. [state.answers EXCEPT !.drives = TRUE] \in Answers  BY DEF Answers
    <2>3. /\ SameSecrets([state.answers EXCEPT !.drives = TRUE], state.answers)
          /\ [state.answers EXCEPT !.drives = TRUE].registered = state.answers.registered
      BY DEF Answers
    <2> QED  BY <2>1, <2>2, <2>3, PostOK DEF Steps
  <1> QED  BY <1>1, <1>2, <1>3, <1>4, <1>5

(* What a form has put aside is then stored. *)
LEMMA StoreOK ==
  ASSUME TypeOK, NEW t \in Tabs, NEW kind \in SecretKinds \cup {"channels"}, NEW a \in Answers,
         NEW next \in Steps \ {"done"}, Store(t, kind, a, next),
         a.registered = state.answers.registered
  PROVE  TypeOK' /\ Other(t) /\ NoPoll(t) /\ state'.answers = a /\ UNCHANGED <<pending, lost>> /\ request'[t] = Idle
  <1>1. /\ UNCHANGED <<pending, device, account, requests, restarts, lost, torn, met>>
        /\ request[t].kind = kind /\ Answered(t) /\ Answer(a, next)
    BY DEF Store
  <1>2. request[t] # Idle /\ ~Applying(t) /\ ~Polling(t)
    BY <1>1, IdleIs DEF SecretKinds, Applying, Polling
  <1>3. TypeOK'  BY <1>1, AnsweredOK, AnswerOK DEF TypeOK
  <1>4. Other(t)  BY <1>1, <1>2, AnsweredOK, AnswerOK, IdleIs DEF Other, Applying
  <1>5. NoPoll(t)  BY <1>1, <1>2, AnsweredOK, AnswerOK, IdleIs DEF NoPoll, Polling
  <1> QED  BY <1>1, <1>3, <1>4, <1>5, AnsweredOK, AnswerOK

(* A form that goes on after its first part. *)
LEMMA SubmitOK ==
  ASSUME TypeOK, NEW t \in Tabs, NEW kind, NEW form, [kind |-> kind, form |-> form] \in FormType,
         Submit(t, kind, form)
  PROVE  /\ request[t] = Idle /\ request' \in [Tabs -> RequestType]
         /\ request'[t] = [kind |-> kind, form |-> form] /\ request'[t].kind \in SecretKinds \cup {"channels"}
         /\ request'[t].kind = kind /\ request'[t].form = form
         /\ \A u \in Tabs \ {t} : request'[u] = request[u]
         /\ ~Applying(t) /\ ~Applying(t)' /\ ~Polling(t) /\ ~Polling(t)'
         /\ requests' \in 0 .. MaxRequests /\ met \subseteq met'
         /\ (\E u \in Tabs : u # t /\ Applying(u)) => "answers" \in met'
         /\ \A u \in Tabs : u # t /\ request[u].kind = kind => kind \in met'
         /\ UNCHANGED <<device, account, restarts, torn>>
  <1>1. Arrives(t, kind) /\ Does(t, [kind |-> kind, form |-> form]) /\ UNCHANGED <<device, account, restarts, torn>>
    BY DEF Submit
  <1>2. [kind |-> kind, form |-> form] \in RequestType  BY DEF RequestType
  <1>3. kind \in SecretKinds \cup {"channels"}  BY DEF FormType, SecretKinds
  <1> DEFINE r == [kind |-> kind, form |-> form]
  <1>4. r.kind = kind /\ r.form = form  OBVIOUS
  <1>5. Does(t, r) /\ r \in RequestType  BY <1>1, <1>2
  <1> HIDE DEF r
  <1>6. /\ request' \in [Tabs -> RequestType] /\ request'[t] = r
        /\ \A u \in Tabs \ {t} : request'[u] = request[u]
    BY <1>5, DoesOK
  <1>7. ~Applying(t)' /\ ~Polling(t)'  BY <1>3, <1>4, <1>6 DEF Applying, Polling, SecretKinds
  <1>8. request[t] = Idle /\ ~Applying(t) /\ ~Polling(t)
    BY <1>1, ArrivesOK, IdleIs DEF Applying, Polling
  <1>9. kind # "none"  BY <1>3 DEF SecretKinds
  <1> QED  BY <1>1, <1>3, <1>4, <1>6, <1>7, <1>8, <1>9, ArrivesOK DEF r

LEMMA ChannelsOK ==
  ASSUME TypeOK, NEW t \in Tabs, post_channels(t) \/ store_channels(t), Saved
  PROVE  TypeOK' /\ Other(t) /\ Plain(t) /\ NoPoll(t)
  <1>1. CASE post_channels(t)
    <2>1. PICK c \in SUBSET channel_lists :
              Submit(t, "channels", c) /\ UNCHANGED <<wizard, faults, lost, unsaved>>
      BY <1>1 DEF post_channels
    <2>2. c \subseteq Channels  BY DEF channel_lists
    <2>3. [kind |-> "channels", form |-> c] \in FormType  BY <2>2 DEF FormType
    <2>4. UNCHANGED <<state, file, pending, faults, lost, unsaved>>  BY <2>1 DEF wizard
    <2>5. TypeOK'  BY <2>1, <2>3, <2>4, SubmitOK DEF TypeOK
    <2>6. Saved'  BY <2>4 DEF Saved
    <2>7. Other(t)  BY <2>1, <2>3, <2>4, <2>6, SubmitOK DEF Other, SameWork
    <2>8. request[t].kind \notin SecretKinds /\ request'[t].kind \notin SecretKinds
      BY <2>1, <2>3, SubmitOK, IdleIs DEF SecretKinds
    <2>9. Plain(t)  BY <2>4, <2>8 DEF Plain
    <2>10. NoPoll(t)  BY <2>1, <2>3, <2>4, SubmitOK DEF NoPoll
    <2> QED  BY <2>5, <2>7, <2>9, <2>10
  <1>2. CASE store_channels(t)
    <2>1. Store(t, "channels", [state.answers EXCEPT !.channels = request[t].form], "egress")
      BY <1>2 DEF store_channels
    <2>2. request[t].form \in SUBSET Channels
      BY <2>1 DEF Store, TypeOK, RequestType, FormType, ApplyType, PollType, Idle
    <2> DEFINE a == [state.answers EXCEPT !.channels = request[t].form]
    <2>3. a \in Answers /\ SameSecrets(a, state.answers) /\ a.registered = state.answers.registered
      BY <2>2, StateIs DEF Answers, SameSecrets
    <2> HIDE DEF a
    <2>4. /\ TypeOK' /\ Other(t) /\ NoPoll(t) /\ state'.answers = a /\ UNCHANGED <<pending, lost>>
          /\ request'[t] = Idle /\ request[t].kind = "channels"
      BY <2>1, <2>3, StoreOK DEF a, Steps, Store
    <2>5. Plain(t)  BY <2>3, <2>4, IdleIs DEF Plain, SameSecrets, SecretKinds
    <2> QED  BY <2>4, <2>5
  <1> QED  BY <1>1, <1>2

-----------------------------------------------------------------------------
(* The account step *)

LEMMA ForgetOK ==
  ASSUME TypeOK,
         ForgetCode \/ UNCHANGED pending \/ \E b \in Bases : pending' = [pending EXCEPT !.code = b]
  PROVE  /\ pending' \in PendingType
         /\ \A f \in {"secret", "tailscale", "cloudflared", "backup"} : pending'[f] = pending[f]
  <1>1. PICK c \in Bases \cup {None} : pending' = [pending EXCEPT !.code = c]
    <2>1. pending = [pending EXCEPT !.code = pending.code] /\ pending.code \in Bases \cup {None}
      BY DEF TypeOK, PendingType
    <2> QED  BY <2>1 DEF ForgetCode
  <1> QED  BY <1>1 DEF TypeOK, PendingType

LEMMA BaseIs ==
  ASSUME TypeOK, NEW b \in Bases
  PROVE  LET a == [state.answers EXCEPT !.base = b] IN
         a \in Answers /\ SameSecrets(a, state.answers) /\ SameWork(a, state.answers)
         /\ a.registered = state.answers.registered
  BY StateIs DEF Answers, SameSecrets, SameWork

LEMMA RememberOK ==
  ASSUME TypeOK, Saved, NEW b \in Bases \cup {None}, remember_api_base(b)
  PROVE  /\ state' \in WizardStates /\ state'.step = state.step
         /\ SameSecrets(state'.answers, state.answers) /\ SameWork(state'.answers, state.answers)
         /\ state'.answers.registered = state.answers.registered
         /\ file' \in {file, state'} /\ file' \in WizardStates \cup {None}
         /\ faults' \in Nat /\ unsaved' \in BOOLEAN /\ Saved' /\ (unsaved => unsaved')
  <1>1. CASE UNCHANGED <<state, file, faults, unsaved>>
    <2>1. Saved'  BY <1>1 DEF Saved
    <2> QED  BY <1>1, <2>1 DEF TypeOK, SameSecrets, SameWork
  <1>2. CASE b # None /\ Answer([state.answers EXCEPT !.base = b], state.step)
    <2> DEFINE a == [state.answers EXCEPT !.base = b]
    <2>1. /\ a \in Answers /\ SameSecrets(a, state.answers) /\ SameWork(a, state.answers)
          /\ a.registered = state.answers.registered
      BY <1>2, BaseIs
    <2>2. Answer(a, state.step)  BY <1>2
    <2> HIDE DEF a
    <2> QED  BY <2>1, <2>2, AnswerOK, StateIs
  <1> QED  BY <1>1, <1>2 DEF remember_api_base

LEMMA AccountOK ==
  ASSUME TypeOK, Saved, NEW t \in Tabs, NEW kind \in {"account", "begin", "poll"},
         NEW b \in Bases \cup {None},
         Account(t, kind, b), ForgetCode \/ UNCHANGED pending,
         NEW r \in {Idle} \cup [kind : {"begin"}, base : Bases] \cup PollType,
         (UNCHANGED request /\ r = Idle) \/ Does(t, r)
  PROVE  /\ TypeOK' /\ Other(t) /\ Plain(t) /\ request[t] = Idle /\ request'[t] = r
         /\ r.kind # "poll" => NoPoll(t)
  <1>1. /\ Arrives(t, kind) /\ remember_api_base(b) /\ UNCHANGED <<device, account, restarts, lost,
                                                                   torn>>
    BY DEF Account
  <1>2. request[t] = Idle  BY <1>1, ArrivesOK
  <1>3. r \in RequestType /\ r.kind \in {"none", "begin", "poll"}
    BY IdleIs DEF RequestType, PollType
  <1>4. /\ request' \in [Tabs -> RequestType] /\ request'[t] = r
        /\ \A u \in Tabs \ {t} : request'[u] = request[u]
    BY <1>2, <1>3, DoesOK DEF TypeOK
  <1>5. TypeOK'  BY <1>1, <1>4, ArrivesOK, RememberOK, ForgetOK DEF TypeOK
  <1>6. Other(t)
    BY <1>1, <1>2, <1>3, <1>4, ArrivesOK, RememberOK, IdleIs DEF Other, Applying
  <1>7. Plain(t)
    BY <1>1, <1>2, <1>3, <1>4, ForgetOK, RememberOK, IdleIs DEF Plain, SameSecrets,
                                                                SecretKinds
  <1>8. r.kind # "poll" => NoPoll(t)
    BY <1>1, <1>2, <1>4, ArrivesOK, RememberOK, IdleIs DEF NoPoll, Polling
  <1> QED  BY <1>2, <1>4, <1>5, <1>6, <1>7, <1>8

LEMMA AccountBase ==
  ASSUME TypeOK, state' \in WizardStates
  PROVE  account_api_base(state'.answers) \in Bases
  BY WizardAssumption DEF account_api_base, WizardStates, Answers

LEMMA AccountFormsOK ==
  ASSUME TypeOK, Saved, NEW t \in Tabs,
         post_account_continue(t) \/ post_account_cancel(t) \/ post_account_begin(t)
  PROVE  TypeOK' /\ Other(t) /\ Plain(t) /\ NoPoll(t)
  <1>1. CASE post_account_continue(t)
    <2>1. PICK b \in Bases \cup {None} :
            /\ Arrives(t, "account") /\ ForgetCode
            /\ Answer(IF b = None THEN state.answers ELSE [state.answers EXCEPT !.base = b], "cloudflare-tunnel")
            /\ UNCHANGED <<request, device, account, restarts, lost, torn>>
      BY <1>1 DEF post_account_continue
    <2>2. PICK a \in Answers : /\ Answer(a, "cloudflare-tunnel") /\ SameSecrets(a, state.answers)
                               /\ a.registered = state.answers.registered
      <3>1. CASE b = None  BY <2>1, <3>1, StateIs DEF SameSecrets
      <3>2. CASE b # None  BY <2>1, <3>2, BaseIs
      <3> QED  BY <3>1, <3>2
    <2>3. "cloudflare-tunnel" \in Steps \ {"done"}  BY DEF Steps
    <2>4. TypeOK'  BY <2>1, <2>2, <2>3, ArrivesOK, AnswerOK, ForgetOK DEF TypeOK
    <2>5. Other(t)  BY <2>1, <2>2, <2>3, ArrivesOK, AnswerOK, IdleIs DEF Other, Applying
    <2>6. Plain(t)
      BY <2>1, <2>2, <2>3, ArrivesOK, AnswerOK, ForgetOK, IdleIs DEF Plain, SameSecrets,
                                                                     SecretKinds
    <2>7. NoPoll(t)  BY <2>1, <2>2, <2>3, ArrivesOK, AnswerOK, IdleIs DEF NoPoll, Polling
    <2> QED  BY <2>4, <2>5, <2>6, <2>7
  <1>2. CASE post_account_cancel(t)
    <2>1. PICK b \in Bases \cup {None} : Account(t, "account", b) /\ ForgetCode /\ UNCHANGED request
      BY <1>2 DEF post_account_cancel
    <2> QED  BY <2>1, AccountOK, IdleIs
  <1>3. CASE post_account_begin(t)
    <2>1. PICK b \in Bases \cup {None} :
            /\ Account(t, "begin", b) /\ ForgetCode
            /\ Does(t, [kind |-> "begin", base |-> account_api_base(state'.answers)])
      BY <1>3 DEF post_account_begin
    <2>2. remember_api_base(b)  BY <2>1 DEF Account
    <2>3. account_api_base(state'.answers) \in Bases  BY <2>2, RememberOK, AccountBase
    <2>4. PICK r \in [kind : {"begin"}, base : Bases] : Does(t, r) /\ r.kind = "begin"
      BY <2>1, <2>3
    <2> QED  BY <2>1, <2>4, AccountOK
  <1> QED  BY <1>1, <1>2, <1>3

(* A handler of the account step: the wizard's answers stay. *)
LEMMA HandlerOther ==
  ASSUME TypeOK, Saved, NEW t \in Tabs, request[t].kind \in {"begin", "poll"}, UNCHANGED <<state,
         file, unsaved, met, device, lost>>,
         \A u \in Tabs \ {t} : request'[u] = request[u],
         request'[t].kind \in {"none", "begin", "poll"},
         ForgetCode \/ UNCHANGED pending \/ \E b \in Bases : pending' = [pending EXCEPT !.code = b]
  PROVE  Other(t) /\ Plain(t)
  <1>1. request[t] # Idle /\ ~Applying(t) /\ ~Applying(t)'  BY IdleIs DEF Applying
  <1>2. Saved'  BY DEF Saved
  <1>3. Other(t)  BY <1>1, <1>2 DEF Other, SameWork
  <1>4. Plain(t)  BY ForgetOK DEF Plain, SecretKinds
  <1> QED  BY <1>3, <1>4

LEMMA RequestCodeOK ==
  ASSUME TypeOK, Saved, NEW t \in Tabs, request_device_code(t)
  PROVE  TypeOK' /\ Other(t) /\ Plain(t) /\ NoPoll(t)
  <1>1. /\ request[t].kind = "begin" /\ Answered(t)
        /\ UNCHANGED <<state, file, device, account, requests, faults, restarts, lost, torn, met,
                       unsaved>>
        /\ pending' = [pending EXCEPT !.code = request[t].base] \/ UNCHANGED pending
    BY DEF request_device_code, counters, history
  <1>2. request[t] \in [kind : {"begin"}, base : Bases]
    BY <1>1 DEF TypeOK, RequestType, FormType, PollType, ApplyType, Idle
  <1>3. UNCHANGED pending \/ \E b \in Bases : pending' = [pending EXCEPT !.code = b]
    BY <1>1, <1>2
  <1>4. TypeOK'  BY <1>1, <1>3, AnsweredOK, ForgetOK DEF TypeOK
  <1>5. Other(t) /\ Plain(t)  BY <1>1, <1>3, AnsweredOK, IdleIs, HandlerOther
  <1>6. NoPoll(t)  BY <1>1, AnsweredOK, IdleIs DEF NoPoll, Polling
  <1> QED  BY <1>4, <1>5, <1>6

-----------------------------------------------------------------------------
(* A registration *)

LEMMA PollIs ==
  ASSUME TypeOK, NEW t \in Tabs, Polling(t)
  PROVE  request[t] \in PollType
  BY DEF Polling, TypeOK, RequestType, FormType, ApplyType, Idle

LEMMA PollFormOK ==
  ASSUME TypeOK, Saved, RegistrationInv, NEW t \in Tabs, post_account_poll(t)
  PROVE  TypeOK' /\ Other(t) /\ Plain(t) /\ RegistrationInv'
  <1>1. PICK b \in Bases \cup {None} :
            /\ pending.code # None /\ Account(t, "poll", b)
            /\ \/ ForgetCode /\ UNCHANGED request
               \/ /\ UNCHANGED pending
                  /\ Does(t, [kind |-> "poll", at |-> "exchange", code |-> pending.code,
                              reg |-> [n |-> requests', base |-> account_api_base(state'.answers)]])
    BY DEF post_account_poll
  <1>2. CASE ForgetCode /\ UNCHANGED request
    <2>1. TypeOK' /\ Other(t) /\ Plain(t) /\ NoPoll(t)  BY <1>1, <1>2, AccountOK, IdleIs
    <2> QED  BY <2>1, NoPollKeeps
  <1>3. CASE /\ UNCHANGED pending
             /\ Does(t, [kind |-> "poll", at |-> "exchange", code |-> pending.code,
                         reg |-> [n |-> requests', base |-> account_api_base(state'.answers)]])
    <2>1. /\ remember_api_base(b) /\ Arrives(t, "poll") /\ UNCHANGED <<account, torn>>
      BY <1>1 DEF Account
    <2>2. account_api_base(state'.answers) \in Bases  BY <2>1, RememberOK, AccountBase
    <2>3. [n |-> requests', base |-> account_api_base(state'.answers)] \in Registrations
      BY <2>1, <2>2, ArrivesOK DEF Registrations
    <2>4. pending.code \in Bases  BY <1>1 DEF TypeOK, PendingType
    <2>5. PICK r \in PollType : Does(t, r) /\ r.at = "exchange" /\ r.kind = "poll"
      BY <1>3, <2>3, <2>4 DEF PollType, PollSteps
    <2>6. TypeOK' /\ Other(t) /\ Plain(t) /\ request[t] = Idle /\ request'[t] = r
      BY <1>1, <1>3, <2>5, AccountOK
    <2>7. \A u \in Tabs : u # t => (Polling(u)' <=> Polling(u)) /\ request'[u] = request[u]
      BY <2>6 DEF Other, Polling
    <2>8. met \subseteq met' /\ ("poll" \notin met' => \A u \in Tabs : u # t => ~Polling(u))
      BY <2>1, ArrivesOK DEF Polling
    <2>9. ~Polling(t) /\ ~Writing(t) /\ ~Writing(t)'  BY <2>5, <2>6, IdleIs DEF Polling, Writing
    <2>10. Claims' => Claims  BY <2>1, RememberOK DEF Claims
    <2>11. \A u \in Tabs : Polling(u)' /\ "poll" \notin met' => u = t  BY <2>7, <2>8
    <2>12. PartWritten(request'[t], account')  BY <2>5, <2>6 DEF PartWritten
    <2>13. (\A u \in Tabs : ~Writing(u)') => \A u \in Tabs : ~Writing(u)
      BY <2>7, <2>9 DEF Writing
    <2>14. RegistrationInv'
      <3>1. SUFFICES ASSUME "poll" \notin met'  PROVE RegistrationInv'  BY DEF RegistrationInv
      <3>2. \A u, v \in Tabs : Polling(u)' /\ Polling(v)' => u = v  BY <2>11, <3>1
      <3>3. \A u \in Tabs : Polling(u)' => PartWritten(request'[u], account')  BY <2>11, <2>12, <3>1
      <3>4. Claims' /\ ~torn' /\ (\A u \in Tabs : ~Writing(u)') => Consistent(account')
        <4>1. "poll" \notin met  BY <2>8, <3>1
        <4>2. (Claims /\ ~torn /\ \A u \in Tabs : ~Writing(u)) => Consistent(account)
          BY <4>1 DEF RegistrationInv
        <4> HIDE DEF Writing, Claims, Consistent
        <4> QED  BY <2>1, <2>10, <2>13, <4>2
      <3> QED  BY <3>2, <3>3, <3>4 DEF RegistrationInv
    <2> QED  BY <2>6, <2>14
  <1> QED  BY <1>1, <1>2, <1>3

(* A step of the only registration leads to a state of its files. *)
LEMMA PollKeeps ==
  ASSUME TypeOK, RegistrationInv, NEW t \in Tabs, Polling(t), UNCHANGED met,
         \A u \in Tabs \ {t} : request'[u] = request[u],
         Polling(t)' => PartWritten(request'[t], account'),
         "poll" \notin met /\ (\A u \in Tabs : u # t => ~Polling(u)) /\ Claims' /\ ~torn' /\ ~Writing(t)' => Consistent(account')
  PROVE  RegistrationInv'
  <1>1. SUFFICES ASSUME "poll" \notin met  PROVE RegistrationInv'  BY DEF RegistrationInv
  <1>2. \A u \in Tabs : u # t => ~Polling(u)  BY <1>1 DEF RegistrationInv
  <1>3. \A u \in Tabs : u # t => ~Polling(u)'  BY <1>2 DEF Polling
  <1> QED  BY <1>1, <1>2, <1>3 DEF RegistrationInv

LEMMA PollStepIs ==
  ASSUME TypeOK, NEW t \in Tabs, Polling(t), NEW at \in PollSteps, PollStep(t, at)
  PROVE  /\ request' \in [Tabs -> RequestType] /\ request'[t] \in PollType
         /\ request'[t].kind = "poll" /\ request'[t].at = at /\ request'[t].reg = request[t].reg
         /\ \A u \in Tabs \ {t} : request'[u] = request[u]
  <1>1. request[t] \in PollType  BY PollIs
  <1> DEFINE r == [request[t] EXCEPT !.at = at]
  <1>2. r \in PollType /\ r.kind = "poll" /\ r.at = at /\ r.reg = request[t].reg
    BY <1>1 DEF PollType
  <1>3. r \in RequestType  BY <1>2 DEF RequestType
  <1>4. Does(t, r)  BY DEF PollStep
  <1> HIDE DEF r
  <1> QED  BY <1>2, <1>3, <1>4, DoesOK

LEMMA ExchangeOK ==
  ASSUME TypeOK, Saved, RegistrationInv, NEW t \in Tabs, exchange_and_register(t)
  PROVE  TypeOK' /\ Other(t) /\ Plain(t) /\ RegistrationInv'
  <1>1. /\ Polling(t) /\ request[t].at = "exchange"
        /\ UNCHANGED <<state, file, pending, device, account, requests, faults, restarts, lost,
                       torn, met, unsaved>>
        /\ Answered(t) \/ PollStep(t, "tunnel")
    BY DEF exchange_and_register, Polls, Polling, wizard, counters, history
  <1>2. /\ request' \in [Tabs -> RequestType] /\ \A u \in Tabs \ {t} : request'[u] = request[u]
        /\ request'[t] = Idle \/ (request'[t].kind = "poll" /\ request'[t].at = "tunnel")
    BY <1>1, AnsweredOK, PollStepIs DEF PollSteps
  <1>3. request'[t].kind \in {"none", "poll"} /\ ~Writing(t) /\ ~Writing(t)'
    BY <1>1, <1>2, IdleIs DEF Writing, Polling
  <1>4. TypeOK'  BY <1>1, <1>2 DEF TypeOK
  <1>5. Other(t) /\ Plain(t)  BY <1>1, <1>2, <1>3, HandlerOther DEF Polling
  <1>6. Polling(t)' => PartWritten(request'[t], account')
    BY <1>2, IdleIs DEF PartWritten, Polling
  <1>7. "poll" \notin met /\ (\A u \in Tabs : u # t => ~Polling(u)) /\ Claims' /\ ~torn' => Consistent(account')
    <2>1. (Claims' => Claims) /\ (torn' <=> torn) /\ account' = account  BY <1>1 DEF Claims
    <2>2. (\A u \in Tabs : u # t => ~Polling(u)) => \A u \in Tabs : ~Writing(u)
      BY <1>3 DEF Writing
    <2> QED  BY <2>1, <2>2 DEF RegistrationInv
  <1>8. RegistrationInv'
    <2> HIDE DEF Writing
    <2> QED  BY <1>1, <1>2, <1>6, <1>7, PollKeeps
  <1> QED  BY <1>4, <1>5, <1>8

(* The writing of one file. *)
LEMMA WriteTokenOK ==
  ASSUME TypeOK, Saved, RegistrationInv, NEW t \in Tabs,
         NEW at \in {"tunnel", "backup", "owner", "base"},
         NEW next \in {"backup", "owner", "base", "registered"},
         NEW a \in AccountType, NEW started \in BOOLEAN, WriteToken(t, at, a, next, started),
         started \/ at = "tunnel",
         PartWritten(request[t], account) => PartWritten([request[t] EXCEPT !.at = next], a)
  PROVE  TypeOK' /\ Other(t) /\ Plain(t) /\ RegistrationInv'
  <1>1. /\ Polling(t) /\ request[t].at = at
        /\ UNCHANGED <<state, file, pending, device, requests, restarts, lost, met, unsaved>>
    BY DEF WriteToken, Polls, Polling, wizard
  <1>2. "poll" \notin met => PartWritten(request[t], account)  BY <1>1 DEF RegistrationInv
  <1>3. CASE account' = a /\ PollStep(t, next) /\ UNCHANGED <<faults, torn>>
    <2>1. next \in PollSteps  BY DEF PollSteps
    <2>2. /\ request' \in [Tabs -> RequestType] /\ request'[t] \in PollType
          /\ request'[t].kind = "poll" /\ request'[t].at = next /\ request'[t].reg = request[t].reg
          /\ \A u \in Tabs \ {t} : request'[u] = request[u]
      BY <1>1, <1>3, <2>1, PollStepIs
    <2>3. TypeOK'  BY <1>1, <1>3, <2>2 DEF TypeOK
    <2>4. Other(t) /\ Plain(t)  BY <1>1, <2>2, HandlerOther DEF Polling
    <2>5. request'[t] = [request[t] EXCEPT !.at = next]
      BY <1>3 DEF PollStep, Does, TypeOK
    <2>6. "poll" \notin met => PartWritten(request'[t], account')
      BY <1>2, <1>3, <2>5
    <2>7. Writing(t)'  BY <2>2 DEF Writing, Polling
    <2>8. RegistrationInv'
      <3>1. CASE "poll" \in met  BY <1>1, <3>1 DEF RegistrationInv
      <3>2. CASE "poll" \notin met  BY <1>1, <2>2, <2>6, <2>7, <3>2, PollKeeps
      <3> QED  BY <3>1, <3>2
    <2> QED  BY <2>3, <2>4, <2>8
  <1>4. CASE /\ faults < MaxFaults /\ faults' = faults + 1
             /\ UNCHANGED account /\ Answered(t) /\ torn' = (torn \/ started)
    <2>1. /\ request' \in [Tabs -> RequestType] /\ request'[t] = Idle
          /\ \A u \in Tabs \ {t} : request'[u] = request[u]
      BY <1>4, AnsweredOK
    <2>2. torn' \in BOOLEAN  BY <1>4
    <2>3. TypeOK'  BY <1>1, <1>4, <2>1, <2>2 DEF TypeOK
    <2>4. Other(t) /\ Plain(t)  BY <1>1, <2>1, IdleIs, HandlerOther DEF Polling
    <2>5. ~Polling(t)' /\ ~Writing(t)'  BY <2>1, IdleIs DEF Polling, Writing
    <2>6. "poll" \notin met /\ (\A u \in Tabs : u # t => ~Polling(u)) /\ Claims' /\ ~torn' => Consistent(account')
      <3>1. (Claims' => Claims) /\ account' = account  BY <1>1, <1>4 DEF Claims
      <3>2. ~torn' => ~torn /\ ~started  BY <1>4
      <3>3. ~started => ~Writing(t)  BY <1>1 DEF Writing
      <3>4. (\A u \in Tabs : u # t => ~Polling(u)) /\ ~Writing(t) => \A u \in Tabs : ~Writing(u)
        BY DEF Writing
      <3> QED  BY <3>1, <3>2, <3>3, <3>4 DEF RegistrationInv
    <2>7. RegistrationInv'  BY <1>1, <2>1, <2>5, <2>6, PollKeeps
    <2> QED  BY <2>3, <2>4, <2>7
  <1> QED  BY <1>3, <1>4 DEF WriteToken

LEMMA AtChanged ==
  ASSUME TypeOK, NEW t \in Tabs, Polling(t), NEW at \in PollSteps
  PROVE  /\ [request[t] EXCEPT !.at = at].at = at /\ [request[t] EXCEPT !.at = at].reg = request[t].reg
         /\ request[t].reg \in Registrations /\ request[t].reg.base \in Bases
  BY PollIs DEF PollType, Registrations

LEMMA WritesOK ==
  ASSUME TypeOK, Saved, RegistrationInv, NEW t \in Tabs,
         write_tunnel_token(t) \/ write_backup_token(t) \/ write_account_json(t) \/ write_api_base(t)
  PROVE  TypeOK' /\ Other(t) /\ Plain(t) /\ RegistrationInv'
  <1>0. Polling(t)
    BY DEF write_tunnel_token, write_backup_token, write_account_json, write_api_base,
           WriteToken, Polls, Polling
  <1>1. \A at \in PollSteps : /\ [request[t] EXCEPT !.at = at].at = at
                              /\ [request[t] EXCEPT !.at = at].reg = request[t].reg
    BY <1>0, AtChanged
  <1>2. request[t].reg \in Registrations /\ request[t].reg.base \in Bases
    BY <1>0, AtChanged DEF PollSteps
  <1>3. account \in AccountType  BY DEF TypeOK
  <1>4. CASE write_tunnel_token(t)
    <2> DEFINE a == [account EXCEPT !.tunnel = request[t].reg]
    <2>1. a \in AccountType /\ a.tunnel = request[t].reg  BY <1>2, <1>3 DEF AccountType
    <2>2. PartWritten([request[t] EXCEPT !.at = "backup"], a)  BY <1>1,
                                                                  <2>1 DEF PartWritten,
                                                                  PollSteps
    <2>3. WriteToken(t, "tunnel", a, "backup", FALSE)  BY <1>4 DEF write_tunnel_token
    <2> HIDE DEF a
    <2> QED  BY <2>1, <2>2, <2>3, WriteTokenOK
  <1>5. CASE write_backup_token(t)
    <2> DEFINE a == [account EXCEPT !.backup = request[t].reg]
    <2>1. a \in AccountType /\ a.backup = request[t].reg /\ a.tunnel = account.tunnel
      BY <1>2, <1>3 DEF AccountType
    <2>2. request[t].at = "backup"  BY <1>5 DEF write_backup_token, WriteToken, Polls
    <2>3. PartWritten(request[t], account) => PartWritten([request[t] EXCEPT !.at = "owner"], a)
      BY <1>1, <2>1, <2>2 DEF PartWritten, PollSteps
    <2>4. WriteToken(t, "backup", a, "owner", TRUE)  BY <1>5 DEF write_backup_token
    <2> HIDE DEF a
    <2> QED  BY <2>1, <2>3, <2>4, WriteTokenOK
  <1>6. CASE write_account_json(t)
    <2> DEFINE a == [account EXCEPT !.owner = request[t].reg]
    <2>1. a \in AccountType /\ a.owner = request[t].reg /\ a.tunnel = account.tunnel /\ a.backup = account.backup
      BY <1>2, <1>3 DEF AccountType
    <2>2. request[t].at = "owner"  BY <1>6 DEF write_account_json, WriteToken, Polls
    <2>3. PartWritten(request[t], account) => PartWritten([request[t] EXCEPT !.at = "base"], a)
      BY <1>1, <2>1, <2>2 DEF PartWritten, PollSteps
    <2>4. WriteToken(t, "owner", a, "base", TRUE)  BY <1>6 DEF write_account_json
    <2> HIDE DEF a
    <2> QED  BY <2>1, <2>3, <2>4, WriteTokenOK
  <1>7. CASE write_api_base(t)
    <2> DEFINE a == IF request[t].reg.base = DefaultBase THEN account
                    ELSE [account EXCEPT !.base = request[t].reg.base]
    <2>1. /\ a \in AccountType /\ a.owner = account.owner /\ a.tunnel = account.tunnel
          /\ a.backup = account.backup /\ request[t].reg.base \in {a.base, DefaultBase}
      BY <1>2, <1>3 DEF AccountType
    <2>2. request[t].at = "base"  BY <1>7 DEF write_api_base, WriteToken, Polls
    <2>3. PartWritten(request[t], account) => PartWritten([request[t] EXCEPT !.at = "registered"], a)
      BY <1>1, <2>1, <2>2 DEF PartWritten, PollSteps
    <2>4. WriteToken(t, "base", a, "registered", TRUE)  BY <1>7 DEF write_api_base
    <2> HIDE DEF a
    <2> QED  BY <2>1, <2>3, <2>4, WriteTokenOK
  <1> QED  BY <1>4, <1>5, <1>6, <1>7

LEMMA RegisteredOK ==
  ASSUME TypeOK, Saved, RegistrationInv, NEW t \in Tabs, poll_registered(t)
  PROVE  TypeOK' /\ Other(t) /\ Plain(t) /\ RegistrationInv'
  <1>1. /\ Polling(t) /\ request[t].at = "registered" /\ Answered(t) /\ ForgetCode
        /\ Answer([state.answers EXCEPT !.registered = TRUE], "cloudflare-tunnel")
        /\ torn' = FALSE /\ UNCHANGED <<device, account, requests, restarts, lost, met>>
    BY DEF poll_registered, Polls, Polling
  <1>2. /\ request' \in [Tabs -> RequestType] /\ request'[t] = Idle
        /\ \A u \in Tabs \ {t} : request'[u] = request[u]
    BY <1>1, AnsweredOK
  <1> DEFINE a == [state.answers EXCEPT !.registered = TRUE]
  <1>3. a \in Answers /\ SameSecrets(a, state.answers)  BY StateIs DEF Answers, SameSecrets
  <1>4. Answer(a, "cloudflare-tunnel") /\ "cloudflare-tunnel" \in Steps \ {"done"}
    BY <1>1 DEF Steps
  <1> HIDE DEF a
  <1>5. TypeOK'  BY <1>1, <1>2, <1>3, <1>4, AnswerOK, ForgetOK DEF TypeOK
  <1>6. request[t] # Idle /\ ~Applying(t) /\ request[t].kind = "poll"
    BY <1>1, IdleIs DEF Polling, Applying
  <1>7. Other(t)  BY <1>1, <1>2, <1>3, <1>4, <1>6, AnswerOK, IdleIs DEF Other, Applying
  <1>8. Plain(t)
    BY <1>1, <1>2, <1>3, <1>4, <1>6, AnswerOK, ForgetOK, IdleIs DEF Plain, SameSecrets,
                                                                    SecretKinds
  <1>9. "poll" \notin met => Consistent(account)
    <2>1. request[t].reg # None
      BY <1>1, PollIs, NamesAssumption DEF PollType
    <2> QED  BY <1>1, <2>1 DEF RegistrationInv, PartWritten, Consistent
  <1>10. ~Polling(t)'  BY <1>2, IdleIs DEF Polling
  <1>11. RegistrationInv'  BY <1>1, <1>2, <1>9, <1>10, PollKeeps
  <1> QED  BY <1>5, <1>7, <1>8, <1>11

-----------------------------------------------------------------------------
(* The forms with a secret *)

SecretOf(kind) ==
    IF kind = "tailscale" THEN Tailscale ELSE IF kind = "cloudflare-tunnel" THEN Credentials ELSE "backup"

LEMMA AsksIs ==
  ASSUME NEW s \in Secrets
  PROVE  /\ Asks(s) = "provider" <=> s \in CloudProviders
         /\ \A kind \in SecretKinds \ {"provider"} : Asks(s) = kind <=> s = SecretOf(kind)
         /\ Asks(s) \in SecretKinds
  BY NamesAssumption DEF Asks, Secrets, SecretKinds, SecretOf, Tailscale, Credentials,
                         provider_choices

LEMMA ClaimedAre ==
  ASSUME NEW a
  PROVE  /\ Claimed(a) \subseteq Secrets
         /\ \A s \in CloudProviders : s \in Claimed(a) => s = a.provider
  BY NamesAssumption DEF Claimed, Secrets, Tailscale, Credentials, provider_choices

(* Either no apply is in flight, or nothing is promised any more. *)
LEMMA OtherLoss ==
  ASSUME TypeOK, DoneInv, LossInv, NEW t \in Tabs, Other(t),
         \A u \in Tabs : request'[u].kind = "provider" /\ "provider" \notin met'
                         => state'.answers.provider = request'[u].form,
         "answers" \notin met' => \A u \in Tabs : request'[u].kind \notin met' => PutAside(request'[u], pending'),
         "answers" \notin met' /\ (\A u \in Tabs : ~Applying(u)) =>
             \A s \in Claimed(state'.answers) :
                 Excuses(s)' \/ Working(Asks(s))' \/ s \in OnDevice(device) \cup lost' \cup Held(pending')
  PROVE  LossInv'
  <1>1. "answers" \in met' \/ \A u \in Tabs : ~Applying(u)  BY DEF Other, DoneInv, Alone
  <1>2. \A u \in Tabs : Applying(u)' => Applying(u)  BY DEF Other, Applying
  <1>3. CASE "answers" \in met'
    <2>1. \A s : Excuses(s)'  BY <1>3 DEF Excuses
    <2> QED  BY <1>3, <2>1 DEF LossInv
  <1>4. CASE "answers" \notin met'
    <2>1. \A u \in Tabs : ~Applying(u)'  BY <1>1, <1>2, <1>4
    <2>2. \A s \in Claimed(state'.answers) : Excuses(s)' \/ Working(Asks(s))' \/ InHand(s)'
      BY <1>1, <1>4 DEF InHand, Other
    <2> QED  BY <1>4, <2>1, <2>2 DEF LossInv
  <1> QED  BY <1>3, <1>4

(* What is still so of the other secrets: those that tab t is not busy with. *)
LEMMA StillSo ==
  ASSUME TypeOK, LossInv, NEW t \in Tabs, Other(t), NEW s \in Claimed(state.answers),
         \A u \in Tabs : ~Applying(u),
         request[t].kind # Asks(s), s \in lost => s \in lost',
         s \in Held(pending) => s \in Held(pending')
  PROVE  Excuses(s)' \/ Working(Asks(s))' \/ s \in OnDevice(device) \cup lost' \cup Held(pending')
  <1>1. CASE Excuses(s)  BY <1>1 DEF Excuses, Other
  <1>2. CASE Working(Asks(s))
    <2>1. PICK u \in Tabs : u # t /\ request[u].kind = Asks(s)  BY <1>2 DEF Working
    <2> QED  BY <2>1 DEF Working, Other
  <1>3. CASE InHand(s)  BY <1>3 DEF InHand
  <1> QED  BY <1>1, <1>2, <1>3 DEF LossInv

LEMMA SubmitOther ==
  ASSUME TypeOK, Saved, NEW t \in Tabs, NEW kind, NEW form,
         [kind |-> kind, form |-> form] \in FormType,
         Submit(t, kind, form), UNCHANGED <<state, file, unsaved>>
  PROVE  Other(t) /\ NoPoll(t)
  <1>1. Saved'  BY DEF Saved
  <1>2. Other(t)  BY <1>1, SubmitOK DEF Other, SameWork
  <1>3. NoPoll(t)  BY SubmitOK DEF NoPoll
  <1> QED  BY <1>2, <1>3

LEMMA ProviderFormOK ==
  ASSUME TypeOK, DoneInv, LossInv, NEW t \in Tabs, post_provider(t)
  PROVE  TypeOK' /\ Other(t) /\ NoPoll(t) /\ LossInv'
  <1>1. PICK p \in provider_choices :
            /\ Submit(t, "provider", p) /\ Answer([state.answers EXCEPT !.provider = p], "channels")
            /\ UNCHANGED <<pending, lost>>
    BY DEF post_provider
  <1>2. [kind |-> "provider", form |-> p] \in FormType  BY DEF FormType
  <1> DEFINE a == [state.answers EXCEPT !.provider = p]
  <1>3. /\ a \in Answers /\ a.provider = p /\ a.registered = state.answers.registered
        /\ a.tailscale = state.answers.tailscale /\ a.tunnel = state.answers.tunnel /\ a.backup = state.answers.backup
    BY StateIs DEF Answers, provider_choices
  <1>4. Answer(a, "channels") /\ "channels" \in Steps \ {"done"}  BY <1>1 DEF Steps
  <1> HIDE DEF a
  <1>5. TypeOK'  BY <1>1, <1>2, <1>3, <1>4, AnswerOK, SubmitOK DEF TypeOK
  <1>6. Other(t)  BY <1>1, <1>2, <1>3, <1>4, AnswerOK, SubmitOK DEF Other
  <1>7. NoPoll(t)  BY <1>1, <1>2, <1>3, <1>4, AnswerOK, SubmitOK DEF NoPoll
  <1>8. state'.answers = a  BY <1>3, <1>4, AnswerOK
  <1>9. /\ request[t] = Idle /\ request'[t].kind = "provider" /\ request'[t].form = p /\ met \subseteq met'
        /\ \A u \in Tabs \ {t} : request'[u] = request[u]
        /\ \A u \in Tabs : u # t /\ request[u].kind = "provider" => "provider" \in met'
    BY <1>1, <1>2, SubmitOK
  <1>10. \A u \in Tabs : request'[u].kind = "provider" /\ "provider" \notin met'
                         => state'.answers.provider = request'[u].form
    BY <1>3, <1>8, <1>9
  <1>11. "answers" \notin met' => \A u \in Tabs : request'[u].kind \notin met' => PutAside(request'[u], pending')
    BY <1>1, <1>9 DEF LossInv, PutAside
  <1>12. ASSUME NEW s \in Claimed(state'.answers), \A u \in Tabs : ~Applying(u)
         PROVE  Excuses(s)' \/ Working(Asks(s))' \/ s \in OnDevice(device) \cup lost' \cup Held(pending')
    <2>1. CASE s \in CloudProviders
      <3>1. Asks(s) = "provider"  BY <2>1 DEF Asks
      <3> QED  BY <1>9, <3>1 DEF Working
    <2>2. CASE s \notin CloudProviders
      <3>1. s \in Claimed(state.answers)  BY <1>3, <1>8, <1>12, <2>2 DEF Claimed
      <3>2. request[t].kind # Asks(s)  BY <1>9, <3>1, ClaimedAre, AsksIs, IdleIs DEF SecretKinds
      <3> QED  BY <1>1, <1>6, <1>12, <3>1, <3>2, StillSo
    <2> QED  BY <2>1, <2>2
  <1>13. LossInv'  BY <1>6, <1>10, <1>11, <1>12, OtherLoss
  <1> QED  BY <1>5, <1>6, <1>7, <1>13

LEMMA FormIs ==
  ASSUME TypeOK, NEW t \in Tabs, request[t].kind \in SecretKinds
  PROVE  /\ request[t].kind = "provider" => request[t].form \in provider_choices
         /\ request[t].kind = "tailscale" => request[t].form \in BOOLEAN
         /\ request[t].kind = "cloudflare-tunnel" => request[t].form \in TunnelChoices
         /\ request[t].kind = "backup" => request[t].form \in BackupKinds
         /\ request[t] # Idle /\ ~Applying(t) /\ ~Polling(t)
  BY DEF TypeOK, RequestType, FormType, ApplyType, PollType, Idle, SecretKinds, Applying,
         Polling

LEMMA StoreSecretOK ==
  ASSUME TypeOK, DoneInv, LossInv, NEW t \in Tabs, store_pending_secret(t)
  PROVE  TypeOK' /\ Other(t) /\ NoPoll(t) /\ LossInv'
  <1> DEFINE p == request[t].form
  <1>1. /\ request[t].kind = "provider" /\ Answered(t)
        /\ pending' = [pending EXCEPT !.secret = IF p \in CloudProviders THEN p ELSE None]
        /\ lost' = lost \ {p}
        /\ UNCHANGED <<state, file, device, account, requests, faults, restarts, torn, met,
                       unsaved>>
    BY DEF store_pending_secret, counters
  <1>2. p \in provider_choices /\ request[t] # Idle /\ ~Applying(t) /\ ~Polling(t)
    BY <1>1, FormIs DEF SecretKinds
  <1>3. /\ request' \in [Tabs -> RequestType] /\ request'[t] = Idle
        /\ \A u \in Tabs \ {t} : request'[u] = request[u]
    BY <1>1, AnsweredOK
  <1>4. /\ pending' \in PendingType /\ pending'.secret = (IF p \in CloudProviders THEN p ELSE None)
        /\ pending'.tailscale = pending.tailscale
        /\ pending'.cloudflared = pending.cloudflared /\ pending'.backup = pending.backup
    BY <1>1 DEF TypeOK, PendingType
  <1>5. TypeOK'  BY <1>1, <1>3, <1>4 DEF TypeOK
  <1>6. Saved'  BY <1>1 DEF Saved, DoneInv
  <1>7. Other(t)  BY <1>1, <1>2, <1>3, <1>6, IdleIs DEF Other, Applying, SameWork
  <1>8. NoPoll(t)  BY <1>1, <1>2, <1>3, IdleIs DEF NoPoll, Polling
  <1>9. \A u \in Tabs : request'[u].kind = "provider" /\ "provider" \notin met'
                        => state'.answers.provider = request'[u].form
    BY <1>1, <1>3, IdleIs DEF LossInv
  <1>10. "answers" \notin met' => \A u \in Tabs : request'[u].kind \notin met' => PutAside(request'[u], pending')
    BY <1>1, <1>3, <1>4, IdleIs DEF LossInv, PutAside
  <1>11. ASSUME NEW s \in Claimed(state'.answers), \A u \in Tabs : ~Applying(u)
         PROVE  Excuses(s)' \/ Working(Asks(s))' \/ s \in OnDevice(device) \cup lost' \cup Held(pending')
    <2>1. s \in Claimed(state.answers) /\ s \in Secrets  BY <1>1, <1>11, ClaimedAre
    <2>2. CASE s \in CloudProviders
      <3>1. s = state.answers.provider /\ Asks(s) = "provider"  BY <2>1, <2>2, ClaimedAre, AsksIs
      <3>2. CASE "provider" \in met  BY <1>1, <3>1, <3>2 DEF Excuses
      <3>3. CASE "provider" \notin met
        <4>1. p = s  BY <1>1, <3>1, <3>3 DEF LossInv
        <4>2. pending'.secret = s /\ s # None  BY <1>4, <2>2, <4>1, NamesAssumption
        <4> QED  BY <4>2 DEF Held
      <3> QED  BY <3>2, <3>3
    <2>3. CASE s \notin CloudProviders
      <3>1. request[t].kind # Asks(s)  BY <1>1, <2>1, <2>3, AsksIs
      <3>2. s # p  BY <1>2, <2>1, <2>3, NamesAssumption DEF Secrets, provider_choices
      <3>3. s \in Held(pending) => s \in Held(pending')
        BY <1>4, <2>3 DEF Held, TypeOK, PendingType
      <3> QED  BY <1>1, <1>7, <1>11, <2>1, <3>1, <3>2, <3>3, StillSo
    <2> QED  BY <2>2, <2>3
  <1>12. LossInv'  BY <1>7, <1>9, <1>10, <1>11, OtherLoss
  <1> QED  BY <1>5, <1>7, <1>8, <1>12

(* What post_tailscale, post_cloudflare_tunnel and post_backup put aside. *)
Aside(kind, form, p) ==
    \/ kind = "tailscale" /\ p = [pending EXCEPT !.tailscale = form]
    \/ kind = "cloudflare-tunnel" /\ p = [pending EXCEPT !.cloudflared = (form = "named")]
    \/ kind = "backup" /\ p = [pending EXCEPT !.backup = IF form = "skip" THEN None ELSE form]

LEMMA PutOK ==
  ASSUME TypeOK, DoneInv, LossInv, NEW t \in Tabs, NEW kind \in SecretKinds \ {"provider"},
         NEW form,
         [kind |-> kind, form |-> form] \in FormType, NEW p, Aside(kind, form, p),
         Put(t, kind, form, p, {SecretOf(kind)})
  PROVE  TypeOK' /\ Other(t) /\ NoPoll(t) /\ LossInv'
  <1>1. /\ Submit(t, kind, form) /\ pending' = p /\ lost' = lost \ {SecretOf(kind)}
        /\ UNCHANGED <<state, file, faults, unsaved>>
    BY DEF Put
  <1>2. /\ kind = "tailscale" => form \in BOOLEAN
        /\ kind = "backup" => form \in BackupKinds
    BY DEF FormType
  <1>3. p \in PendingType /\ p.secret = pending.secret
    BY <1>2 DEF Aside, TypeOK, PendingType
  <1>4. /\ kind # "tailscale" => p.tailscale = pending.tailscale
        /\ kind # "cloudflare-tunnel" => p.cloudflared = pending.cloudflared
        /\ kind # "backup" => p.backup = pending.backup
    BY DEF Aside, TypeOK, PendingType
  <1>5. /\ kind = "tailscale" => p.tailscale = form
        /\ kind = "cloudflare-tunnel" => p.cloudflared = (form = "named")
        /\ kind = "backup" => p.backup = IF form = "skip" THEN None ELSE form
    BY DEF Aside, TypeOK, PendingType
  <1>6. Saved  BY DEF DoneInv
  <1>7. Other(t) /\ NoPoll(t)  BY <1>1, <1>6, SubmitOther
  <1>8. /\ request[t] = Idle /\ request' \in [Tabs -> RequestType] /\ requests' \in 0 .. MaxRequests
        /\ request'[t].kind = kind /\ request'[t].form = form /\ met \subseteq met'
        /\ \A u \in Tabs \ {t} : request'[u] = request[u]
        /\ \A u \in Tabs : u # t /\ request[u].kind = kind => kind \in met'
        /\ UNCHANGED <<device, account, restarts, torn>>
    BY <1>1, SubmitOK
  <1>9. TypeOK'  BY <1>1, <1>3, <1>8 DEF TypeOK
  <1>10. \A u \in Tabs : request'[u].kind = "provider" /\ "provider" \notin met'
                         => state'.answers.provider = request'[u].form
    BY <1>1, <1>8 DEF LossInv
  <1>11. "answers" \notin met' => \A u \in Tabs : request'[u].kind \notin met' => PutAside(request'[u], pending')
    <2>1. SUFFICES ASSUME "answers" \notin met', NEW u \in Tabs, request'[u].kind \notin met'
                   PROVE  PutAside(request'[u], pending')
      OBVIOUS
    <2>2. CASE u = t  BY <1>1, <1>5, <1>8, <2>2 DEF PutAside
    <2>3. CASE u # t
      <3>1. request'[u] = request[u] /\ request[u].kind # kind /\ request[u].kind \notin met /\ "answers" \notin met
        BY <1>8, <2>1, <2>3
      <3>2. PutAside(request[u], pending)  BY <3>1 DEF LossInv
      <3> QED  BY <1>1, <1>4, <3>1, <3>2 DEF PutAside
    <2> QED  BY <2>2, <2>3
  <1>12. ASSUME NEW s \in Claimed(state'.answers), \A u \in Tabs : ~Applying(u)
         PROVE  Excuses(s)' \/ Working(Asks(s))' \/ s \in OnDevice(device) \cup lost' \cup Held(pending')
    <2>1. s \in Claimed(state.answers) /\ s \in Secrets  BY <1>1, <1>12, ClaimedAre
    <2>2. CASE s = SecretOf(kind)
      <3>1. Asks(s) = kind  BY <2>1, <2>2, AsksIs
      <3> QED  BY <1>8, <3>1 DEF Working
    <2>3. CASE s # SecretOf(kind)
      <3>1. request[t].kind # Asks(s)  BY <1>8, <2>1, AsksIs, IdleIs DEF SecretKinds
      <3>2. s \in Held(pending) => s \in Held(pending')
        BY <1>1, <1>3, <1>4, <2>3 DEF Held, SecretOf, SecretKinds
      <3> QED  BY <1>1, <1>7, <1>12, <2>1, <2>3, <3>1, <3>2, StillSo
    <2> QED  BY <2>2, <2>3
  <1>13. LossInv'  BY <1>7, <1>10, <1>11, <1>12, OtherLoss
  <1> QED  BY <1>7, <1>9, <1>13

LEMMA PutsOK ==
  ASSUME TypeOK, DoneInv, LossInv, NEW t \in Tabs,
         post_tailscale(t) \/ post_cloudflare_tunnel(t) \/ post_backup(t)
  PROVE  TypeOK' /\ Other(t) /\ NoPoll(t) /\ LossInv'
  <1>1. CASE post_tailscale(t)
    <2>1. PICK enable \in BOOLEAN :
              Put(t, "tailscale", enable, [pending EXCEPT !.tailscale = enable], {Tailscale})
      BY <1>1 DEF post_tailscale
    <2> DEFINE p == [pending EXCEPT !.tailscale = enable]
    <2>2. Put(t, "tailscale", enable, p, {SecretOf("tailscale")})  BY <2>1 DEF SecretOf
    <2>3. Aside("tailscale", enable, p)  BY DEF Aside
    <2>4. [kind |-> "tailscale", form |-> enable] \in FormType  BY DEF FormType
    <2> HIDE DEF p
    <2> QED  BY <2>2, <2>3, <2>4, PutOK DEF SecretKinds
  <1>2. CASE post_cloudflare_tunnel(t)
    <2>1. PICK choice \in TunnelChoices :
              Put(t, "cloudflare-tunnel", choice, [pending EXCEPT !.cloudflared = (choice = "named")], {Credentials})
      BY <1>2 DEF post_cloudflare_tunnel
    <2> DEFINE p == [pending EXCEPT !.cloudflared = (choice = "named")]
    <2>2. Put(t, "cloudflare-tunnel", choice, p, {SecretOf("cloudflare-tunnel")})  BY <2>1
                                                                                      DEF SecretOf
    <2>3. Aside("cloudflare-tunnel", choice, p)  BY DEF Aside
    <2>4. [kind |-> "cloudflare-tunnel", form |-> choice] \in FormType  BY DEF FormType
    <2> HIDE DEF p
    <2> QED  BY <2>2, <2>3, <2>4, PutOK DEF SecretKinds
  <1>3. CASE post_backup(t)
    <2>1. PICK k \in BackupKinds :
              Put(t, "backup", k, [pending EXCEPT !.backup = IF k = "skip" THEN None ELSE k], {"backup"})
      BY <1>3 DEF post_backup
    <2> DEFINE p == [pending EXCEPT !.backup = IF k = "skip" THEN None ELSE k]
    <2>2. Put(t, "backup", k, p, {SecretOf("backup")})  BY <2>1 DEF SecretOf
    <2>3. Aside("backup", k, p)  BY DEF Aside
    <2>4. [kind |-> "backup", form |-> k] \in FormType  BY DEF FormType
    <2> HIDE DEF p
    <2> QED  BY <2>2, <2>3, <2>4, PutOK DEF SecretKinds
  <1> QED  BY <1>1, <1>2, <1>3

(* The answers that store_tailscale, store_cloudflare_tunnel and store_backup leave. *)
Answering(kind, form, a) ==
    /\ a \in Answers /\ a.registered = state.answers.registered /\ a.provider = state.answers.provider
    /\ kind # "tailscale" => a.tailscale = state.answers.tailscale
    /\ kind # "cloudflare-tunnel" => a.tunnel = state.answers.tunnel
    /\ kind # "backup" => a.backup = state.answers.backup
    /\ kind = "tailscale" => a.tailscale = form
    /\ kind = "cloudflare-tunnel" => a.tunnel = form
    /\ kind = "backup" => a.backup = form

LEMMA StoreFormOK ==
  ASSUME TypeOK, DoneInv, LossInv, NEW t \in Tabs, NEW kind \in SecretKinds \ {"provider"},
         NEW a, Answering(kind, request[t].form, a), NEW next \in Steps \ {"done"},
         Store(t, kind, a, next)
  PROVE  TypeOK' /\ Other(t) /\ NoPoll(t) /\ LossInv'
  <1>1. a \in Answers /\ a.registered = state.answers.registered /\ request[t].kind = kind
    BY DEF Answering, Store
  <1>2. /\ TypeOK' /\ Other(t) /\ NoPoll(t) /\ state'.answers = a /\ UNCHANGED <<pending, lost>>
        /\ request'[t] = Idle
    BY <1>1, StoreOK
  <1>3. UNCHANGED met /\ \A u \in Tabs \ {t} : request'[u] = request[u]  BY <1>2 DEF Store,
                                                                            Other
  <1>4. \A u \in Tabs : request'[u].kind = "provider" /\ "provider" \notin met'
                        => state'.answers.provider = request'[u].form
    BY <1>2, <1>3, IdleIs DEF LossInv, Answering
  <1>5. "answers" \notin met' => \A u \in Tabs : request'[u].kind \notin met' => PutAside(request'[u], pending')
    BY <1>2, <1>3, IdleIs DEF LossInv, PutAside
  <1>6. ASSUME "answers" \notin met', NEW s \in Claimed(state'.answers), \A u \in Tabs : ~Applying(u)
        PROVE  Excuses(s)' \/ Working(Asks(s))' \/ s \in OnDevice(device) \cup lost' \cup Held(pending')
    <2>1. s \in Claimed(a) /\ s \in Secrets  BY <1>2, <1>6, ClaimedAre
    <2>2. CASE s = SecretOf(kind)
      <3>1. Asks(s) = kind  BY <2>1, <2>2, AsksIs
      <3>2. CASE kind \in met  BY <1>3, <3>1, <3>2 DEF Excuses
      <3>3. CASE kind \notin met
        <4>1. PutAside(request[t], pending)  BY <1>1, <1>3, <1>6, <3>3 DEF LossInv
        <4>2. s \notin CloudProviders  BY <2>1, <3>1, AsksIs
        <4>3. s \in Held(pending)
          <5>1. CASE kind = "tailscale"
            BY <1>1, <2>1, <2>2, <4>1, <4>2, <5>1 DEF Claimed, SecretOf, Answering,
                                                      PutAside, Held, Tailscale, Credentials
          <5>2. CASE kind = "cloudflare-tunnel"
            BY <1>1, <2>1, <2>2, <4>1, <4>2, <5>2 DEF Claimed, SecretOf, Answering,
                                                      PutAside, Held, Tailscale, Credentials
          <5>3. CASE kind = "backup"
            BY <1>1, <2>1, <2>2, <4>1, <4>2, <5>3 DEF Claimed, SecretOf, Answering,
                                                      PutAside, Held, Tailscale, Credentials
          <5> QED  BY <5>1, <5>2, <5>3 DEF SecretKinds
        <4> QED  BY <1>2, <4>3
      <3> QED  BY <3>2, <3>3
    <2>3. CASE s # SecretOf(kind)
      <3>1. s \in Claimed(state.answers)
        BY <2>1, <2>3 DEF Claimed, Answering, SecretOf, SecretKinds
      <3>2. request[t].kind # Asks(s)  BY <1>1, <2>1, <2>3, AsksIs
      <3> QED  BY <1>2, <1>6, <3>1, <3>2, StillSo
    <2> QED  BY <2>2, <2>3
  <1>7. LossInv'  BY <1>2, <1>4, <1>5, <1>6, OtherLoss
  <1> QED  BY <1>2, <1>7

LEMMA StoresOK ==
  ASSUME TypeOK, DoneInv, LossInv, NEW t \in Tabs,
         store_tailscale(t) \/ store_cloudflare_tunnel(t) \/ store_backup(t)
  PROVE  TypeOK' /\ Other(t) /\ NoPoll(t) /\ LossInv'
  <1> USE StateIs
  <1>1. CASE store_tailscale(t)
    <2> DEFINE a == [state.answers EXCEPT !.tailscale = request[t].form]
    <2>1. Store(t, "tailscale", a, "account")  BY <1>1 DEF store_tailscale
    <2>2. request[t].form \in BOOLEAN  BY <2>1, FormIs DEF Store, SecretKinds
    <2>3. Answering("tailscale", request[t].form, a)  BY <2>2 DEF Answering, Answers
    <2> HIDE DEF a
    <2> QED  BY <2>1, <2>3, StoreFormOK DEF SecretKinds, Steps
  <1>2. CASE store_cloudflare_tunnel(t)
    <2> DEFINE a == [state.answers EXCEPT !.tunnel = request[t].form]
    <2>1. Store(t, "cloudflare-tunnel", a, "backup")  BY <1>2 DEF store_cloudflare_tunnel
    <2>2. request[t].form \in TunnelChoices  BY <2>1, FormIs DEF Store, SecretKinds
    <2>3. Answering("cloudflare-tunnel", request[t].form, a)  BY <2>2 DEF Answering, Answers
    <2> HIDE DEF a
    <2> QED  BY <2>1, <2>3, StoreFormOK DEF SecretKinds, Steps
  <1>3. CASE store_backup(t)
    <2> DEFINE a == [state.answers EXCEPT !.backup = request[t].form]
    <2>1. Store(t, "backup", a, "drives")  BY <1>3 DEF store_backup
    <2>2. request[t].form \in BackupKinds  BY <2>1, FormIs DEF Store, SecretKinds
    <2>3. Answering("backup", request[t].form, a)  BY <2>2 DEF Answering, Answers
    <2> HIDE DEF a
    <2> QED  BY <2>1, <2>3, StoreFormOK DEF SecretKinds, Steps
  <1> QED  BY <1>1, <1>2, <1>3

-----------------------------------------------------------------------------
(* An apply at its n-th stage: what each of them does to the device.       *)

(* The channels that an apply of these answers enables. *)
Chosen(a) == IF a.profile = None THEN {} ELSE {a.profile} \X a.channels
Grows(n, r, d, e) ==
    /\ d.key => e.key
    /\ e.backup # d.backup => n = 13 /\ e.backup # None
    /\ \A k \in Nat : Brings(k, r.answers, d) => Brings(k, r.answers, e)
    /\ n \notin {4, 9} \/ r.read = InEnv(d) => d.secrets \subseteq e.secrets
    /\ e.channels = d.channels \/ (n = 5 /\ e.channels = d.channels \cup Chosen(r.answers))
Goes(n, r, q, e, l) ==
    \E m \in n + 1 .. 15 :
        /\ q.kind = "apply" /\ q.at = Stages[m] /\ q.answers = r.answers /\ q.taken = r.taken
        /\ HasWork(r, Stages[m]) /\ \A k \in n + 1 .. m - 1 : ~HasWork(r, Stages[k])
        /\ Brings(n, r.answers, e) /\ Delivers(n, r, e, l)
        /\ n \in {3, 8} => q.read \in {None, InEnv(e)}
        /\ n = 12 => e.key
StageStep(t, n) ==
    /\ n \in 1 .. 14 /\ Applying(t) /\ request[t].at = Stages[n]
    /\ UNCHANGED <<state, file, pending, account, met, torn, unsaved>>
    /\ \A u \in Tabs \ {t} : request'[u] = request[u]
    /\ Grows(n, request[t], device, device')
    /\ lost \subseteq lost'
    /\ n \in {4, 9} /\ request[t].read = None => device.secrets \subseteq device'.secrets \cup lost'
    /\ \/ Goes(n, request[t], request'[t], device', lost')
       \/ request'[t] = Idle /\ Held(request[t].taken) \ OnDevice(device') \subseteq lost'

(* A stage that is passed over had nothing to bring and no secret to write. *)
LEMMA NoWork ==
  ASSUME NEW r, NEW n \in Nat, NEW d, NEW l, n \in 1 .. 14, ~HasWork(r, Stages[n])
  PROVE  Brings(n, r.answers, d) /\ Delivers(n, r, d, l)
  <1>1. CASE n \in {1, 2, 3, 4}  BY <1>1, WorkIs DEF Brings, Delivers
  <1>2. CASE n \in {5, 6, 7, 8}  BY <1>2, WorkIs DEF Brings, Delivers
  <1>3. CASE n \in {9, 10, 11, 12, 13, 14}  BY <1>3, WorkIs DEF Brings, Delivers
  <1> QED  BY <1>1, <1>2, <1>3

LEMMA PastIs ==
  ASSUME NEW r, NEW n \in 1 .. 15, r.at = Stages[n], NEW k \in Nat
  PROVE  Past(r, k) <=> k < n
  BY StagesDiffer DEF Past

LEMMA StagesLater ==
  /\ StageSteps \cap TakeSteps = {} /\ \A n \in 1 .. 15 : Stages[n] \in StageSteps
  /\ "provider_key_write" = Stages[4] /\ "tailscale_key_write" = Stages[9]
  BY StagesIs DEF StageSteps, TakeSteps, Stages

LEMMA NotPast ==
  ASSUME NEW r, r.at \in TakeSteps, NEW k \in Nat
  PROVE  ~Past(r, k) /\ r.at \notin {"provider_key_write", "tailscale_key_write"}
  BY StagesLater DEF Past, TakeSteps

(* Where an apply that goes on is. *)
LEMMA GoesTo ==
  ASSUME NEW r, NEW q, NEW e, NEW l, NEW n \in 1 .. 14, r.at = Stages[n], Goes(n, r, q, e, l)
  PROVE  /\ q.kind = "apply" /\ q.answers = r.answers /\ q.taken = r.taken
         /\ AtWork(q)
         /\ \A k \in 1 .. 14 : Past(q, k) => Past(r, k) \/ (Brings(k, r.answers, e) /\ Delivers(k, r, e, l))
         /\ \A k \in 1 .. 14 : Past(q, k) /\ ~Past(r, k) => k = n \/ ~HasWork(r, Stages[k])
         /\ n = 12 => e.key
         /\ (HasWork(r, Stages[n])) => HasRead(q, e)
  <1>1. PICK m \in n + 1 .. 15 :
            /\ q.kind = "apply" /\ q.at = Stages[m] /\ q.answers = r.answers /\ q.taken = r.taken
            /\ HasWork(r, Stages[m]) /\ \A k \in n + 1 .. m - 1 : ~HasWork(r, Stages[k])
            /\ Brings(n, r.answers, e) /\ Delivers(n, r, e, l)
            /\ n \in {3, 8} => q.read \in {None, InEnv(e)}
            /\ n = 12 => e.key
    BY DEF Goes
  <1>2. q.at \in StageSteps /\ q.at \notin TakeSteps  BY <1>1, StagesLater
  <1>3. AtWork(q)  BY <1>1, <1>2, SameWorkIs DEF AtWork, TakeSteps
  <1>4. ASSUME NEW k \in 1 .. 14, Past(q, k)
        PROVE  Past(r, k) \/ k = n \/ (~HasWork(r, Stages[k]) /\ Brings(k, r.answers, e) /\ Delivers(k, r, e, l))
    <2>1. k < m  BY <1>1, <1>4, PastIs
    <2>2. CASE k < n  BY <2>2, PastIs
    <2>3. CASE k > n
      <3>1. ~HasWork(r, Stages[k])  BY <1>1, <2>1, <2>3
      <3> QED  BY <3>1, NoWork
    <2> QED  BY <2>2, <2>3
  <1>5. ASSUME HasWork(r, Stages[n])  PROVE HasRead(q, e)
    <2>1. CASE m = 4
      <3>1. HasWork(r, Stages[3])  BY <1>1, <2>1, WorkIs
      <3>2. n = 3  BY <1>1, <2>1, <3>1
      <3> QED  BY <1>1, <3>2 DEF HasRead
    <2>2. CASE m = 9
      <3>1. HasWork(r, Stages[8])  BY <1>1, <2>2, WorkIs
      <3>2. n = 8  BY <1>1, <2>2, <3>1
      <3> QED  BY <1>1, <3>2 DEF HasRead
    <2>3. CASE m # 4 /\ m # 9
      <3>1. q.at # Stages[4] /\ q.at # Stages[9]  BY <1>1, <2>3, StagesDiffer
      <3> QED  BY <3>1, StagesLater DEF HasRead
    <2> QED  BY <2>1, <2>2, <2>3
  <1> QED  BY <1>1, <1>3, <1>4, <1>5

LEMMA StageKey ==
  ASSUME TypeOK, KeyInv, WorkInv, NEW t \in Tabs, NEW n \in 1 .. 14, StageStep(t, n)
  PROVE  KeyInv' /\ WorkInv'
  <1> DEFINE r == request[t]
             q == request'[t]
  <1>1. /\ Applying(t) /\ r.at = Stages[n] /\ \A u \in Tabs \ {t} : request'[u] = request[u]
        /\ Grows(n, r, device, device')
        /\ Goes(n, r, q, device', lost') \/ q = Idle
    BY DEF StageStep
  <1>2. HasWork(r, Stages[n])  BY <1>1, StagesLater DEF WorkInv, AtWork
  <1> HIDE DEF r, q
  <1>3. r.taken.backup # None => HasWork(r, Stages[12])  BY WorkIs DEF NeedsRecoveryKey
  <1>4. device'.backup # None => device'.key
    <2>1. CASE device'.backup = device.backup  BY <1>1, <2>1 DEF KeyInv, Grows
    <2>2. CASE device'.backup # device.backup
      <3>1. n = 13  BY <1>1, <2>2 DEF Grows
      <3>2. Past(r, 12)
        <4>1. r.at = Stages[13]  BY <1>1, <3>1
        <4> QED  BY <4>1 DEF Past
      <3>3. r.taken.backup # None
        <4>1. HasWork(r, Stages[13])  BY <1>2, <3>1
        <4> QED  BY ONLY <4>1, WorkIs
      <3> QED  BY <1>1, <3>2, <3>3 DEF KeyInv, Grows, r
    <2> QED  BY <2>1, <2>2
  <1>5. ASSUME q.kind = "apply", q.taken.backup # None, Past(q, 12)  PROVE device'.key
    <2>1. Goes(n, r, q, device', lost')  BY <1>1, <1>5, IdleIs
    <2>2. q.taken = r.taken /\ (Past(r, 12) \/ n = 12) /\ (n = 12 => device'.key)
      <3>1. /\ q.taken = r.taken /\ (n = 12 => device'.key)
            /\ \A k \in 1 .. 14 : Past(q, k) /\ ~Past(r, k) => k = n \/ ~HasWork(r, Stages[k])
        BY <1>1, <2>1, GoesTo
      <3> QED  BY <1>3, <1>5, <3>1
    <2>3. CASE Past(r, 12)  BY <1>1, <1>5, <2>2, <2>3 DEF KeyInv, Grows, r
    <2> QED  BY <2>2, <2>3
  <1>6. KeyInv'
    <2>1. ASSUME NEW u \in Tabs, u # t, Applying(u)', request'[u].taken.backup # None, Past(request'[u], 12)
          PROVE  device'.key
      BY <1>1, <2>1 DEF KeyInv, Grows, Applying
    <2> QED  BY <1>4, <1>5, <2>1 DEF KeyInv, Applying, q
  <1>7. q.kind = "apply" => AtWork(q)  BY <1>1, GoesTo, IdleIs
  <1>8. WorkInv'  BY <1>1, <1>7 DEF WorkInv, Applying, q
  <1> QED  BY <1>6, <1>8

LEMMA StageDone ==
  ASSUME TypeOK, DoneInv, NEW t \in Tabs, NEW n \in 1 .. 14, StageStep(t, n)
  PROVE  DoneInv'
  <1> DEFINE r == request[t]
             q == request'[t]
  <1>1. /\ Applying(t) /\ r.at = Stages[n] /\ \A u \in Tabs \ {t} : request'[u] = request[u]
        /\ Grows(n, r, device, device') /\ UNCHANGED <<state, file, met, unsaved>>
        /\ Goes(n, r, q, device', lost') \/ q = Idle
    BY DEF StageStep
  <1>2. Saved'  BY <1>1 DEF DoneInv, Saved
  <1>3. SUFFICES ASSUME "answers" \notin met  PROVE DoneInv'
    <2>1. ASSUME "answers" \in met  PROVE DoneInv'  BY <1>1, <1>2, <2>1 DEF DoneInv
    <2> QED  BY <2>1
  <1>4. Alone(t) /\ r.answers = state.answers  BY <1>1, <1>3 DEF DoneInv
  <1>5. \A u \in Tabs \ {t} : request[u] = Idle /\ request'[u] = Idle  BY <1>1, <1>4 DEF Alone
  <1>6. ~unsaved' /\ state'.step = "done" => \A k \in 1 .. 14 : Brings(k, state'.answers, device')
    <2>1. ~unsaved /\ state.step = "done" => \A k \in 1 .. 14 : Brings(k, state.answers, device)
      BY <1>3 DEF DoneInv
    <2> QED  BY <1>1, <1>4, <2>1 DEF Grows
  <1>7. ASSUME q.kind = "apply"
        PROVE  q.answers = state'.answers /\ \A k \in 1 .. 14 : Past(q, k) => Brings(k, state'.answers, device')
    <2>1. Goes(n, r, q, device', lost')  BY <1>1, <1>7, IdleIs
    <2> HIDE DEF q
    <2>2. /\ q.answers = r.answers
          /\ \A k \in 1 .. 14 : Past(q, k) => Past(r, k) \/ Brings(k, r.answers, device')
      BY <1>1, <2>1, GoesTo
    <2>3. \A k \in 1 .. 14 : Past(r, k) => Brings(k, r.answers, device)
      BY <1>1, <1>3, <1>4 DEF DoneInv
    <2> QED  BY <1>1, <1>4, <2>2, <2>3 DEF Grows
  <1>8. \A u \in Tabs : Applying(u)' => u = t /\ q.kind = "apply"  BY <1>5, IdleIs DEF Applying
  <1>9. Alone(t)'  BY <1>5 DEF Alone
  <1> QED  BY <1>2, <1>6, <1>7, <1>8, <1>9 DEF DoneInv

LEMMA StageNoPoll ==
  ASSUME TypeOK, NEW t \in Tabs, NEW n \in 1 .. 14, StageStep(t, n)
  PROVE  NoPoll(t)
  <1>1. ~Polling(t) /\ ~Polling(t)'  BY IdleIs DEF StageStep, Polling, Applying, Goes
  <1> QED  BY <1>1 DEF StageStep, NoPoll

LEMMA DeliversMore ==
  ASSUME NEW n \in Nat, NEW r, NEW d, NEW e, NEW l, NEW m, Delivers(n, r, d, l),
         d.secrets \subseteq e.secrets \cup m, l \subseteq m, d.backup # None => e.backup # None
  PROVE  Delivers(n, r, e, m)
  BY DEF Delivers

LEMMA StageLoss ==
  ASSUME TypeOK, WorkInv, DoneInv, LossInv, NEW t \in Tabs, NEW n \in 1 .. 14, StageStep(t, n)
  PROVE  LossInv'
  <1> DEFINE r == request[t]
             q == request'[t]
  <1>1. /\ Applying(t) /\ r.at = Stages[n] /\ \A u \in Tabs \ {t} : request'[u] = request[u]
        /\ Grows(n, r, device, device') /\ UNCHANGED <<state, pending, met>> /\ lost \subseteq lost'
        /\ n \in {4, 9} /\ r.read = None => device.secrets \subseteq device'.secrets \cup lost'
        /\ Goes(n, r, q, device', lost') \/ (q = Idle /\ Held(r.taken) \ OnDevice(device') \subseteq lost')
    BY DEF StageStep
  <1>2. HasWork(r, Stages[n])  BY <1>1, StagesLater DEF WorkInv, AtWork
  <1>3. q.kind \in {"none", "apply"}  BY <1>1, IdleIs DEF Goes
  <1>4. \A u \in Tabs : request'[u].kind = "provider" /\ "provider" \notin met'
                        => state'.answers.provider = request'[u].form
    BY <1>1, <1>3 DEF LossInv
  <1>5. \A u \in Tabs : request'[u].kind \notin met' /\ "answers" \notin met' => PutAside(request'[u], pending')
    <2>1. PutAside(q, pending')  BY <1>3 DEF PutAside
    <2> HIDE DEF q
    <2> QED  BY <1>1, <2>1 DEF LossInv, q
  <1>6. CASE "apply" \in met \/ "answers" \in met
    <2>1. \A s \in Claimed(state'.answers) : Excuses(s)'  BY <1>1, <1>6 DEF Excuses
    <2> QED  BY <1>1, <1>4, <1>5, <1>6, <2>1 DEF LossInv
  <1>7. CASE "apply" \notin met /\ "answers" \notin met
    <2>1. Alone(t) /\ r.answers = state.answers  BY <1>1, <1>7 DEF DoneInv
    <2>2. \A u \in Tabs \ {t} : request[u] = Idle /\ request'[u] = Idle  BY <1>1, <2>1 DEF Alone
    <2>3. /\ HasRead(r, device)
          /\ \A k \in 1 .. 14 : Past(r, k) => Delivers(k, r, device, lost)
      BY <1>1, <1>7 DEF LossInv
    <2>4. r.read \in {None, InEnv(device)} \/ n \notin {4, 9}
      BY <1>1, <2>3, StagesLater DEF HasRead
    <2>5. device.secrets \subseteq device'.secrets \cup lost' /\ (device.backup # None => device'.backup # None)
      BY <1>1, <2>4 DEF Grows
    <2> HIDE DEF q, r
    <2>6. ASSUME q.kind = "apply"
          PROVE  /\ q.taken = r.taken /\ HasRead(q, device')
                 /\ \A k \in 1 .. 14 : Past(q, k) => Delivers(k, q, device', lost')
      <3>1. Goes(n, r, q, device', lost')  BY <1>1, <2>6, IdleIs
      <3>2. /\ q.taken = r.taken /\ q.answers = r.answers /\ HasRead(q, device')
            /\ \A k \in 1 .. 14 : Past(q, k) => Past(r, k) \/ Delivers(k, r, device', lost')
        BY <1>1, <1>2, <3>1, GoesTo
      <3>3. \A k \in 1 .. 14 : Delivers(k, r, device', lost') => Delivers(k, q, device', lost')
        BY <3>2 DEF Delivers, HasKey
      <3>4. \A k \in 1 .. 14 : Past(r, k) => Delivers(k, r, device', lost')
        BY <1>1, <2>3, <2>5, DeliversMore
      <3> QED  BY <3>2, <3>3, <3>4
    <2>7. "apply" \notin met' /\ "answers" \notin met' =>
         \A u \in Tabs : Applying(u)' =>
             /\ HasRead(request'[u], device')
             /\ \A k \in 1 .. 14 : Past(request'[u], k) => Delivers(k, request'[u], device', lost')
      BY <2>2, <2>6, IdleIs DEF Applying, q
    <2>8. ASSUME NEW s \in Claimed(state'.answers)  PROVE Excuses(s)' \/ Working(Asks(s))' \/ InHand(s)'
      <3>1. s \in Secrets /\ s \in Claimed(state.answers)  BY <1>1, <2>8, ClaimedAre
      <3>2. CASE Excuses(s)  BY <1>1, <3>2 DEF Excuses
      <3>3. CASE Working(Asks(s))
        <4>1. Asks(s) \notin {"apply", "none"}  BY <3>1, AsksIs DEF SecretKinds
        <4> QED  BY <1>1, <2>2, <3>3, <4>1, IdleIs DEF Working, Applying
      <3>4. CASE s \in OnDevice(device) \cup lost \cup Held(pending)
        <4>1. s \in OnDevice(device') \cup lost' \cup Held(pending')  BY <1>1, <2>5, <3>4 DEF OnDevice
        <4> QED  BY <4>1 DEF InHand
      <3>5. CASE \E u \in Tabs : Applying(u) /\ s \in Held(request[u].taken)
        <4>1. s \in Held(r.taken)  BY <2>2, <3>5, IdleIs DEF Applying, r
        <4>2. CASE q.kind = "apply"  BY <2>6, <4>1, <4>2 DEF InHand, Applying, q
        <4>3. CASE q.kind # "apply"
          <5>1. Held(r.taken) \ OnDevice(device') \subseteq lost'  BY <1>1, <4>3 DEF Goes
          <5> QED  BY <4>1, <5>1 DEF InHand
        <4> QED  BY <4>2, <4>3
      <3> QED  BY <3>1, <3>2, <3>3, <3>4, <3>5 DEF LossInv, InHand
    <2> QED  BY <1>4, <1>5, <2>7, <2>8 DEF LossInv
  <1> QED  BY <1>6, <1>7

-----------------------------------------------------------------------------
(* The stages one by one *)

LEMMA ApplyIs ==
  ASSUME TypeOK, NEW t \in Tabs, Applying(t)
  PROVE  request[t] \in ApplyType /\ ~Polling(t) /\ request[t] # Idle
  BY IdleIs DEF TypeOK, RequestType, Applying, Polling, FormType, PollType, Idle

LEMMA StageNext ==
  ASSUME NEW r, NEW n \in 1 .. 14, r.at = Stages[n]
  PROVE  \E m \in n + 1 .. 15 :
             /\ NextStage(r, 1 + CHOOSE i \in DOMAIN Stages : Stages[i] = r.at) = Stages[m]
             /\ HasWork(r, Stages[m]) /\ \A k \in n + 1 .. m - 1 : ~HasWork(r, Stages[k])
  <1>1. (CHOOSE i \in DOMAIN Stages : Stages[i] = r.at) = n  BY StageNumber
  <1>2. 1 + n = n + 1 /\ n + 1 \in 1 .. 15  OBVIOUS
  <1>3. \E j \in n + 1 .. 15 : /\ NextStage(r, n + 1) = Stages[j] /\ HasWork(r, Stages[j])
                              /\ \A k \in n + 1 .. j - 1 : ~HasWork(r, Stages[k])
    BY <1>2, NextStageIs
  <1> QED  BY <1>1, <1>2, <1>3

LEMMA AdvancesOK ==
  ASSUME TypeOK, NEW t \in Tabs, Applying(t), NEW n \in 1 .. 14, request[t].at = Stages[n],
         NEW d \in (SUBSET Secrets) \cup {None}, Advances(t, [request[t] EXCEPT !.read = d]),
         NEW e, NEW l,
         Brings(n, request[t].answers, e) /\ Delivers(n, request[t], e, l),
         n \in {3, 8} => d \in {None, InEnv(e)}, n = 12 => e.key
  PROVE  /\ request' \in [Tabs -> RequestType] /\ \A u \in Tabs \ {t} : request'[u] = request[u]
         /\ Goes(n, request[t], request'[t], e, l)
  <1> DEFINE r == [request[t] EXCEPT !.read = d]
  <1>1. request[t] \in ApplyType  BY ApplyIs
  <1>2. /\ r \in ApplyType /\ r.at = Stages[n] /\ r.kind = "apply" /\ r.answers = request[t].answers
        /\ r.taken = request[t].taken /\ r.read = d
    BY <1>1 DEF ApplyType
  <1> HIDE DEF r
  <1>3. PICK m \in n + 1 .. 15 :
             /\ NextStage(r, 1 + CHOOSE i \in DOMAIN Stages : Stages[i] = r.at) = Stages[m]
             /\ HasWork(r, Stages[m]) /\ \A k \in n + 1 .. m - 1 : ~HasWork(r, Stages[k])
    BY <1>2, StageNext
  <1> DEFINE q == [r EXCEPT !.at = Stages[m]]
  <1>4. Stages[m] \in StageSteps  BY StagesLater
  <1>5. /\ q \in ApplyType /\ q.at = Stages[m] /\ q.kind = "apply" /\ q.answers = r.answers
        /\ q.taken = r.taken /\ q.read = d
    BY <1>2, <1>4 DEF ApplyType
  <1>6. Does(t, q)  BY <1>3 DEF Advances, r
  <1> HIDE DEF q
  <1>7. /\ request' \in [Tabs -> RequestType] /\ request'[t] = q
        /\ \A u \in Tabs \ {t} : request'[u] = request[u]
    BY <1>5, <1>6, DoesOK DEF RequestType
  <1>8. \A s : HasWork(r, s) <=> HasWork(request[t], s)  BY <1>2, SameWorkIs
  <1>9. Goes(n, request[t], q, e, l)  BY <1>2, <1>3, <1>5, <1>8 DEF Goes
  <1> QED  BY <1>7, <1>9

LEMMA AdvancesSame ==
  ASSUME TypeOK, NEW t \in Tabs, Applying(t), NEW n \in 1 .. 14, request[t].at = Stages[n],
         Advances(t, request[t]), NEW e, NEW l,
         Brings(n, request[t].answers, e) /\ Delivers(n, request[t], e, l),
         n \notin {3, 8}, n = 12 => e.key
  PROVE  /\ request' \in [Tabs -> RequestType] /\ \A u \in Tabs \ {t} : request'[u] = request[u]
         /\ Goes(n, request[t], request'[t], e, l)
  <1>1. request[t] \in ApplyType  BY ApplyIs
  <1> DEFINE d == request[t].read
  <1>2. request[t] = [request[t] EXCEPT !.read = d] /\ d \in (SUBSET Secrets) \cup {None}
    BY <1>1 DEF ApplyType
  <1>3. Advances(t, [request[t] EXCEPT !.read = d])  BY <1>2
  <1> HIDE DEF d
  <1> QED  BY <1>2, <1>3, AdvancesOK

(* What the n-th stage may leave of the device, whether it succeeds or fails. *)
Safely(n, r, d, e) == e \in DeviceType /\ Grows(n, r, d, e)
(* And when it succeeds. *)
Well(n, r, e, l) == Brings(n, r.answers, e) /\ Delivers(n, r, e, l) /\ (n = 12 => e.key)

LEMMA SameSafely ==
  ASSUME TypeOK, NEW n, NEW r
  PROVE  Safely(n, r, device, device)
  BY DEF Safely, Grows, TypeOK

LEMMA StageOK ==
  ASSUME TypeOK, NEW t \in Tabs, NEW n \in 1 .. 14, n \notin {3, 4, 8, 9}, NEW d,
         Stage(t, Stages[n], d),
         Safely(n, request[t], device, d), \A l : Well(n, request[t], d, l)
  PROVE  TypeOK' /\ StageStep(t, n)
  <1>1. /\ Applies(t, Stages[n])
        /\ UNCHANGED <<wizard, account, requests, restarts, torn, met, unsaved>>
    BY DEF Stage
  <1>2. Applying(t) /\ request[t].at = Stages[n] /\ UNCHANGED <<state, file, pending>>
    BY <1>1 DEF Applies, Applying, wizard
  <1>3. request[t] \in ApplyType  BY <1>2, ApplyIs
  <1>4. CASE device' = d /\ Advances(t, request[t]) /\ UNCHANGED <<faults, lost>>
    <2>2. Brings(n, request[t].answers, d) /\ Delivers(n, request[t], d, lost') /\ (n = 12 => d.key)
      BY DEF Well
    <2>3. /\ request' \in [Tabs -> RequestType] /\ \A u \in Tabs \ {t} : request'[u] = request[u]
          /\ Goes(n, request[t], request'[t], d, lost')
      BY <1>2, <1>4, <2>2, AdvancesSame
    <2>4. TypeOK'  BY <1>1, <1>2, <1>4, <2>3 DEF TypeOK, Safely
    <2> QED  BY <1>1, <1>2, <1>4, <2>3, <2>4 DEF StageStep, Safely
  <1>5. CASE FailsWith(t, d)
    <2>1. /\ faults' = faults + 1 /\ device' \in {device, d} /\ Answered(t)
          /\ lost' = lost \cup Wiped(t) \cup (Held(request[t].taken) \ OnDevice(device'))
      BY <1>5 DEF FailsWith
    <2>2. Safely(n, request[t], device, device')  BY <2>1, SameSafely
    <2>3. /\ request' \in [Tabs -> RequestType] /\ request'[t] = Idle
          /\ \A u \in Tabs \ {t} : request'[u] = request[u]
      BY <2>1, AnsweredOK
    <2>4. Held(request[t].taken) \subseteq Secrets  BY <1>3 DEF ApplyType, PendingType,
                                                                Held, Secrets
    <2>5. Wiped(t) \subseteq Secrets  BY DEF Wiped, TypeOK, DeviceType
    <2> DEFINE wiped == Wiped(t)
    <2>6. wiped \subseteq Secrets /\ lost' = lost \cup wiped \cup (Held(request[t].taken) \ OnDevice(device'))
      BY <2>1, <2>5
    <2> HIDE DEF wiped
    <2>7. lost' \subseteq Secrets /\ lost \subseteq lost'
          /\ Held(request[t].taken) \ OnDevice(device') \subseteq lost'
      BY <2>4, <2>6 DEF TypeOK
    <2>8. TypeOK'  BY <1>1, <1>2, <2>1, <2>2, <2>3, <2>7 DEF TypeOK, Safely
    <2> QED  BY <1>1, <1>2, <2>1, <2>2, <2>3, <2>7, <2>8 DEF StageStep, Safely
  <1> QED  BY <1>4, <1>5 DEF Stage

LEMMA BestEffortOK ==
  ASSUME TypeOK, NEW t \in Tabs, NEW n \in 1 .. 14, n \notin {3, 4, 8, 9}, NEW d,
         NEW secret \in SUBSET Secrets, BestEffort(t, Stages[n], d, secret),
         Safely(n, request[t], device, d), \A l : Well(n, request[t], d, l),
         \A l : secret \subseteq l => Well(n, request[t], device, l)
  PROVE  TypeOK' /\ StageStep(t, n)
  <1>1. /\ Applies(t, Stages[n]) /\ Advances(t, request[t])
        /\ UNCHANGED <<wizard, account, requests, restarts, torn, met, unsaved>>
        /\ \/ device' = d /\ UNCHANGED <<faults, lost>>
           \/ faults' = faults + 1 /\ UNCHANGED device /\ lost' = lost \cup secret
    BY DEF BestEffort
  <1>2. Applying(t) /\ request[t].at = Stages[n] /\ UNCHANGED <<state, file, pending>>
    BY <1>1 DEF Applies, Applying, wizard
  <1>3. request[t] \in ApplyType  BY <1>2, ApplyIs
  <1>5. Safely(n, request[t], device, device')  BY <1>1, SameSafely
  <1>6. lost \subseteq lost' /\ lost' \subseteq Secrets /\ faults' \in Nat  BY <1>1 DEF TypeOK
  <1>7. Brings(n, request[t].answers, device') /\ Delivers(n, request[t], device', lost') /\ (n = 12 => device'.key)
    BY <1>1 DEF Well
  <1>8. /\ request' \in [Tabs -> RequestType] /\ \A u \in Tabs \ {t} : request'[u] = request[u]
        /\ Goes(n, request[t], request'[t], device', lost')
    BY <1>1, <1>2, <1>7, AdvancesSame
  <1>9. TypeOK'  BY <1>1, <1>2, <1>5, <1>6, <1>8 DEF TypeOK, Safely
  <1> QED  BY <1>1, <1>2, <1>5, <1>6, <1>8, <1>9 DEF StageStep, Safely

LEMMA GrowsIs ==
  ASSUME NEW n \in 1 .. 14, NEW r, NEW d, NEW e, r.answers.profile \in Profiles \cup {None},
         e.hostname \in {d.hostname, r.answers.hostname},
         e.profile \in {d.profile, r.answers.profile},
         e.ssh \in {d.ssh, r.answers.ssh},
         e.channels = d.channels \/ (n = 5 /\ e.channels = d.channels \cup Chosen(r.answers)),
         \A p \in Profiles : d.units[p] # None => e.units[p] # None,
         d.key => e.key, e.backup # d.backup => n = 13 /\ e.backup # None,
         n \notin {4, 9} \/ r.read = InEnv(d) => d.secrets \subseteq e.secrets
  PROVE  Grows(n, r, d, e)
  <1>1. ASSUME NEW k \in Nat, Brings(k, r.answers, d)  PROVE Brings(k, r.answers, e)
    BY <1>1 DEF Brings
  <1> QED  BY <1>1 DEF Grows

(* What an apply that is at a stage is like. *)
LEMMA AtStage ==
  ASSUME TypeOK, WorkInv, NEW t \in Tabs, NEW n \in 1 .. 14, Applies(t, Stages[n])
  PROVE  /\ Applying(t) /\ request[t].at = Stages[n] /\ HasWork(request[t], Stages[n])
         /\ request[t].answers \in Answers /\ request[t].taken \in PendingType
         /\ request[t].read \in (SUBSET Secrets) \cup {None}
         /\ request[t].answers.profile \in Profiles \cup {None}
  <1>1. Applying(t) /\ request[t].at = Stages[n]  BY DEF Applies, Applying
  <1>2. HasWork(request[t], Stages[n])  BY <1>1, StagesLater DEF WorkInv, AtWork
  <1>3. request[t] \in ApplyType  BY <1>1, ApplyIs
  <1> QED  BY <1>1, <1>2, <1>3 DEF ApplyType, Answers

LEMMA HostnameOK ==
  ASSUME TypeOK, WorkInv, NEW t \in Tabs, write_hostname(t)
  PROVE  TypeOK' /\ StageStep(t, 1)
  <1> DEFINE d == [device EXCEPT !.hostname = request[t].answers.hostname]
  <1>1. Stage(t, Stages[1], d)  BY StagesIs DEF write_hostname
  <1>2. Applies(t, Stages[1])  BY <1>1 DEF Stage
  <1>3. /\ request[t].answers \in Answers /\ request[t].answers.profile \in Profiles \cup {None}
    BY <1>2, AtStage
  <1>4. /\ d \in DeviceType /\ d.hostname = request[t].answers.hostname /\ d.profile = device.profile
        /\ d.ssh = device.ssh /\ d.channels = device.channels /\ d.units = device.units
        /\ d.key = device.key /\ d.backup = device.backup /\ d.secrets = device.secrets
    BY <1>3 DEF TypeOK, DeviceType, Answers
  <1> HIDE DEF d
  <1>5. Safely(1, request[t], device, d)  BY <1>3, <1>4, GrowsIs DEF Safely
  <1>6. \A l : Well(1, request[t], d, l)  BY <1>4 DEF Well, Brings, Delivers
  <1> QED  BY <1>1, <1>5, <1>6, StageOK

LEMMA ProfileOK ==
  ASSUME TypeOK, WorkInv, NEW t \in Tabs, write_active_profile(t)
  PROVE  TypeOK' /\ StageStep(t, 2)
  <1> DEFINE d == [device EXCEPT !.profile = request[t].answers.profile]
  <1>1. Stage(t, Stages[2], d)  BY StagesIs DEF write_active_profile
  <1>2. Applies(t, Stages[2])  BY <1>1 DEF Stage
  <1>3. /\ request[t].answers \in Answers /\ request[t].answers.profile \in Profiles \cup {None}
    BY <1>2, AtStage
  <1>4. /\ d \in DeviceType /\ d.profile = request[t].answers.profile /\ d.hostname = device.hostname
        /\ d.ssh = device.ssh /\ d.channels = device.channels /\ d.units = device.units
        /\ d.key = device.key /\ d.backup = device.backup /\ d.secrets = device.secrets
    BY <1>3 DEF TypeOK, DeviceType, Answers
  <1> HIDE DEF d
  <1>5. Safely(2, request[t], device, d)  BY <1>3, <1>4, GrowsIs DEF Safely
  <1>6. \A l : Well(2, request[t], d, l)  BY <1>4 DEF Well, Brings, Delivers
  <1> QED  BY <1>1, <1>5, <1>6, StageOK

LEMMA ReadOK ==
  ASSUME TypeOK, WorkInv, NEW t \in Tabs, NEW n \in {3, 8}, ReadSecrets(t, Stages[n])
  PROVE  TypeOK' /\ StageStep(t, n)
  <1>1. /\ Applies(t, Stages[n])
        /\ UNCHANGED <<state, file, pending, device, account, requests, restarts, lost,
                       torn, met, unsaved>>
    BY DEF ReadSecrets, wizard, history
  <1>2. faults' \in Nat  BY DEF ReadSecrets, TypeOK
  <1>3. PICK d \in {None, InEnv(device)} : Advances(t, [request[t] EXCEPT !.read = d])
    BY DEF ReadSecrets
  <1>4. Applying(t) /\ request[t].at = Stages[n]  BY <1>1 DEF Applies, Applying
  <1>5. d \in (SUBSET Secrets) \cup {None}  BY <1>3 DEF TypeOK, DeviceType, InEnv
  <1>6. Brings(n, request[t].answers, device) /\ Delivers(n, request[t], device, lost)
    BY DEF Brings, Delivers
  <1>7. /\ request' \in [Tabs -> RequestType] /\ \A u \in Tabs \ {t} : request'[u] = request[u]
        /\ Goes(n, request[t], request'[t], device, lost)
    <2> DEFINE e == device
               l == lost
    <2>1. n \in 1 .. 14 /\ (n \in {3, 8} => d \in {None, InEnv(e)}) /\ (n = 12 => e.key)  BY <1>3
    <2>2. Brings(n, request[t].answers, e) /\ Delivers(n, request[t], e, l)  BY <1>6
    <2> HIDE DEF e, l
    <2>3. /\ request' \in [Tabs -> RequestType] /\ \A u \in Tabs \ {t} : request'[u] = request[u]
          /\ Goes(n, request[t], request'[t], e, l)
      BY <1>3, <1>4, <1>5, <2>1, <2>2, AdvancesOK
    <2> QED  BY <2>3 DEF e, l
  <1>8. TypeOK'  BY <1>1, <1>2, <1>7 DEF TypeOK
  <1>9. Grows(n, request[t], device, device)  BY DEF Grows
  <1> QED  BY <1>1, <1>4, <1>7, <1>8, <1>9 DEF StageStep

LEMMA WriteOK ==
  ASSUME TypeOK, WorkInv, NEW t \in Tabs, NEW n \in {4, 9}, NEW key \in Secrets,
         WriteSecrets(t, Stages[n], key), n = 4 => key = request[t].taken.secret,
         n = 9 => key = Tailscale
  PROVE  TypeOK' /\ StageStep(t, n)
  <1> DEFINE read == request[t].read
             d == Rewritten(device, read, key)
  <1>1. /\ Applies(t, Stages[n])
        /\ UNCHANGED <<state, file, pending, account, requests, restarts, torn, met, unsaved>>
    BY DEF WriteSecrets, wizard
  <1>2. Applying(t) /\ request[t].at = Stages[n] /\ request[t] \in ApplyType
    BY <1>1, ApplyIs DEF Applies, Applying
  <1>3. /\ read \in (SUBSET Secrets) \cup {None}
        /\ request[t].answers.profile \in Profiles \cup {None}
    BY <1>1, AtStage
  <1>4. /\ d \in DeviceType /\ d.profile = device.profile /\ d.hostname = device.hostname
        /\ d.ssh = device.ssh /\ d.channels = device.channels /\ d.units = device.units
        /\ d.key = device.key /\ d.backup = device.backup /\ key \in d.secrets
        /\ d.secrets = (device.secrets \cap {Credentials}) \cup {key}
                            \cup (IF read = None THEN {} ELSE read)
    BY <1>3 DEF TypeOK, DeviceType, Rewritten
  <1> DEFINE wiped == Wiped(t)
  <1>5. wiped = IF read = None THEN device.secrets \ device'.secrets ELSE {}  BY DEF Wiped
  <1>6. \/ device' = d /\ Advances(t, request[t]) /\ lost' = lost \cup wiped /\ UNCHANGED faults
        \/ FailsWith(t, d)
    BY DEF WriteSecrets
  <1> HIDE DEF d
  <1>7. read = InEnv(device) => device.secrets \subseteq d.secrets
    <2>1. InEnv(device) # None  BY NamesAssumption DEF InEnv, TypeOK, DeviceType
    <2> QED  BY <1>4, <2>1 DEF InEnv
  <1>8. Safely(n, request[t], device, d)
    <2> DEFINE e == device
    <2>1. /\ d.hostname = e.hostname /\ d.profile = e.profile /\ d.ssh = e.ssh
          /\ d.channels = e.channels /\ (e.key => d.key) /\ d.backup = e.backup
          /\ (read = InEnv(e) => e.secrets \subseteq d.secrets)
          /\ \A p \in Profiles : e.units[p] # None => d.units[p] # None
      BY <1>4, <1>7
    <2> HIDE DEF e
    <2>2. Grows(n, request[t], e, d)  BY <1>3, <2>1, GrowsIs
    <2> QED  BY <1>4, <2>2 DEF Safely, e
  <1>9. wiped \subseteq Secrets  BY <1>5 DEF TypeOK, DeviceType
  <1>10. CASE device' = d /\ Advances(t, request[t]) /\ lost' = lost \cup wiped /\ UNCHANGED faults
    <2>1. Brings(n, request[t].answers, d) /\ Delivers(n, request[t], d, lost')
      BY <1>4 DEF Brings, Delivers
    <2>2. /\ request' \in [Tabs -> RequestType] /\ \A u \in Tabs \ {t} : request'[u] = request[u]
          /\ Goes(n, request[t], request'[t], d, lost')
      <3> DEFINE l == lost'
      <3>1. Brings(n, request[t].answers, d) /\ Delivers(n, request[t], d, l)  BY <2>1
      <3> HIDE DEF l
      <3>3. n \in 1 .. 14 /\ n \notin {3, 8} /\ n # 12  OBVIOUS
      <3>4. Applying(t) /\ request[t].at = Stages[n] /\ Advances(t, request[t])  BY <1>2, <1>10
      <3>2. /\ request' \in [Tabs -> RequestType] /\ \A u \in Tabs \ {t} : request'[u] = request[u]
            /\ Goes(n, request[t], request'[t], d, l)
        BY <3>1, <3>3, <3>4, AdvancesSame
      <3> QED  BY <3>2 DEF l
    <2>3. TypeOK'  BY <1>1, <1>8, <1>9, <1>10, <2>2 DEF TypeOK, Safely
    <2>4. read = None => device.secrets \subseteq device'.secrets \cup lost'  BY <1>5, <1>10
    <2> QED  BY <1>1, <1>2, <1>8, <1>10, <2>2, <2>3, <2>4 DEF StageStep, Safely
  <1>11. CASE FailsWith(t, d)
    <2>1. /\ faults' = faults + 1 /\ device' \in {device, d} /\ Answered(t)
          /\ lost' = lost \cup wiped \cup (Held(request[t].taken) \ OnDevice(device'))
      BY <1>11 DEF FailsWith
    <2>2. Safely(n, request[t], device, device')  BY <1>8, <2>1, SameSafely
    <2>3. /\ request' \in [Tabs -> RequestType] /\ request'[t] = Idle
          /\ \A u \in Tabs \ {t} : request'[u] = request[u]
      BY <2>1, AnsweredOK
    <2>4. Held(request[t].taken) \subseteq Secrets
      BY <1>2 DEF ApplyType, PendingType, Held, Secrets
    <2>5. TypeOK'  BY <1>1, <1>9, <2>1, <2>2, <2>3, <2>4 DEF TypeOK, Safely
    <2>6. read = None => device.secrets \subseteq device'.secrets \cup lost'  BY <1>5, <2>1
    <2> QED  BY <1>1, <1>2, <2>1, <2>2, <2>3, <2>5, <2>6 DEF StageStep, Safely
  <1> QED  BY <1>6, <1>10, <1>11

LEMMA KeysOK ==
  ASSUME TypeOK, WorkInv, NEW t \in Tabs, append_provider_key(t) \/ append_tailscale_key(t)
  PROVE  TypeOK' /\ \E n \in {3, 4, 8, 9} : StageStep(t, n)
  <1>1. CASE ReadSecrets(t, "provider_key")  BY <1>1, ReadOK, StagesIs
  <1>2. CASE ReadSecrets(t, "tailscale_key")  BY <1>2, ReadOK, StagesIs
  <1>3. CASE WriteSecrets(t, "provider_key_write", request[t].answers.provider)
    <2>1. WriteSecrets(t, Stages[4], request[t].answers.provider)  BY <1>3, StagesIs
    <2>2. Applies(t, Stages[4])  BY <2>1 DEF WriteSecrets
    <2>3. HasWork(request[t], Stages[4]) /\ request[t].taken \in PendingType  BY <2>2,
                                                                                 AtStage
    <2>4. HasKey(request[t])  BY ONLY <2>3, WorkIs
    <2>5. /\ request[t].answers.provider = request[t].taken.secret
          /\ request[t].taken.secret \in CloudProviders
      BY <2>3, <2>4 DEF HasKey, PendingType
    <2>6. request[t].answers.provider \in Secrets  BY <2>5 DEF Secrets
    <2> QED  BY <2>1, <2>5, <2>6, WriteOK
  <1>4. CASE WriteSecrets(t, "tailscale_key_write", Tailscale)
    <2>1. WriteSecrets(t, Stages[9], Tailscale)  BY <1>4, StagesIs
    <2>2. Tailscale \in Secrets  BY DEF Secrets
    <2> QED  BY <2>1, <2>2, WriteOK
  <1> QED  BY <1>1, <1>2, <1>3, <1>4 DEF append_provider_key, append_tailscale_key

LEMMA EnableOK ==
  ASSUME TypeOK, WorkInv, NEW t \in Tabs, enable_channels(t)
  PROVE  TypeOK' /\ StageStep(t, 5)
  <1> DEFINE more == {request[t].answers.profile} \X request[t].answers.channels
             d == [device EXCEPT !.channels = @ \cup more]
  <1>1. Stage(t, Stages[5], d)  BY StagesIs DEF enable_channels
  <1>2. Applies(t, Stages[5])  BY <1>1 DEF Stage
  <1>3. /\ request[t].answers \in Answers /\ request[t].answers.profile \in Profiles \cup {None}
        /\ HasWork(request[t], Stages[5])
    BY <1>2, AtStage
  <1>4. request[t].answers.profile # None  BY ONLY <1>3, WorkIs
  <1>5. more \subseteq Profiles \X Channels  BY <1>3, <1>4 DEF Answers
  <1> HIDE DEF more
  <1>6. /\ d \in DeviceType /\ d.profile = device.profile /\ d.hostname = device.hostname
        /\ d.ssh = device.ssh /\ d.channels = device.channels \cup more /\ d.units = device.units
        /\ d.key = device.key /\ d.backup = device.backup /\ d.secrets = device.secrets
    BY <1>5 DEF TypeOK, DeviceType
  <1> HIDE DEF d
  <1>9. more = Chosen(request[t].answers)  BY <1>4 DEF more, Chosen
  <1>7. Safely(5, request[t], device, d)  BY <1>3, <1>6, <1>9, GrowsIs DEF Safely
  <1>8. \A l : Well(5, request[t], d, l)  BY <1>6 DEF Well, Brings, Delivers, more
  <1> QED  BY <1>1, <1>7, <1>8, StageOK

LEMMA KeysFileOK ==
  ASSUME TypeOK, WorkInv, NEW t \in Tabs, write_authorized_keys(t)
  PROVE  TypeOK' /\ StageStep(t, 6)
  <1> DEFINE d == [device EXCEPT !.ssh = request[t].answers.ssh]
  <1>1. Stage(t, Stages[6], d)  BY StagesIs DEF write_authorized_keys
  <1>2. Applies(t, Stages[6])  BY <1>1 DEF Stage
  <1>3. /\ request[t].answers \in Answers /\ request[t].answers.profile \in Profiles \cup {None}
    BY <1>2, AtStage
  <1>4. /\ d \in DeviceType /\ d.profile = device.profile /\ d.hostname = device.hostname
        /\ d.ssh = request[t].answers.ssh /\ d.channels = device.channels /\ d.units = device.units
        /\ d.key = device.key /\ d.backup = device.backup /\ d.secrets = device.secrets
    BY <1>3 DEF TypeOK, DeviceType, Answers
  <1> HIDE DEF d
  <1>5. Safely(6, request[t], device, d)  BY <1>3, <1>4, GrowsIs DEF Safely
  <1>6. \A l : Well(6, request[t], d, l)  BY <1>4 DEF Well, Brings, Delivers
  <1> QED  BY <1>1, <1>5, <1>6, StageOK

LEMMA UnitOK ==
  ASSUME TypeOK, WorkInv, NEW t \in Tabs, start_unit(t)
  PROVE  TypeOK' /\ StageStep(t, 7)
  <1> DEFINE p == request[t].answers.profile
             d == [device EXCEPT !.units[p] = IF @ = None THEN device.secrets ELSE @]
  <1>1. Stage(t, Stages[7], d)  BY StagesIs DEF start_unit
  <1>2. Applies(t, Stages[7])  BY <1>1 DEF Stage
  <1>3. p \in Profiles \cup {None} /\ HasWork(request[t], Stages[7])  BY <1>2, AtStage
  <1>4. p # None  BY ONLY <1>3, WorkIs
  <1>5. p \in Profiles  BY <1>3, <1>4
  <1> HIDE DEF p
  <1>6. device.secrets \subseteq Secrets /\ device.secrets # None  BY NamesAssumption DEF TypeOK, DeviceType
  <1>7. device.units \in [Profiles -> (SUBSET Secrets) \cup {None}]  BY DEF TypeOK, DeviceType
  <1>8. /\ d \in DeviceType /\ d.profile = device.profile /\ d.hostname = device.hostname
        /\ d.ssh = device.ssh /\ d.channels = device.channels
        /\ d.units = [device.units EXCEPT ![p] = IF @ = None THEN device.secrets ELSE @]
        /\ d.key = device.key /\ d.backup = device.backup /\ d.secrets = device.secrets
    BY <1>5, <1>6, <1>7 DEF TypeOK, DeviceType
  <1> HIDE DEF d
  <1>9. d.units[p] # None /\ \A q \in Profiles : device.units[q] # None => d.units[q] # None
    BY <1>5, <1>6, <1>7, <1>8
  <1>10. request[t].answers.profile \in Profiles \cup {None}  BY <1>5 DEF p
  <1>11. Grows(7, request[t], device, d)
    <2> DEFINE e == device
    <2>1. \A q \in Profiles : e.units[q] # None => d.units[q] # None  BY <1>9
    <2>2. /\ d.hostname \in {e.hostname, request[t].answers.hostname}
          /\ d.profile \in {e.profile, request[t].answers.profile}
          /\ d.ssh \in {e.ssh, request[t].answers.ssh}
          /\ e.channels = d.channels /\ (e.key => d.key) /\ d.backup = e.backup
          /\ e.secrets \subseteq d.secrets
      BY <1>8
    <2> HIDE DEF e
    <2>3. Grows(7, request[t], e, d)  BY <1>10, <2>1, <2>2, GrowsIs
    <2> QED  BY <2>3 DEF e
  <1>12. \A l : Well(7, request[t], d, l)  BY <1>9 DEF Well, Brings, Delivers, p
  <1>13. Safely(7, request[t], device, d)  BY <1>8, <1>11 DEF Safely
  <1> QED  BY <1>1, <1>12, <1>13, StageOK

LEMMA CredentialsOK ==
  ASSUME TypeOK, WorkInv, NEW t \in Tabs, write_credentials(t)
  PROVE  TypeOK' /\ StageStep(t, 10)
  <1> DEFINE d == [device EXCEPT !.secrets = @ \cup {Credentials}]
  <1>1. Stage(t, Stages[10], d)  BY StagesIs DEF write_credentials
  <1>2. Applies(t, Stages[10])  BY <1>1 DEF Stage
  <1>3. request[t].answers.profile \in Profiles \cup {None}  BY <1>2, AtStage
  <1>4. /\ d \in DeviceType /\ d.profile = device.profile /\ d.hostname = device.hostname
        /\ d.ssh = device.ssh /\ d.channels = device.channels /\ d.units = device.units
        /\ d.key = device.key /\ d.backup = device.backup /\ d.secrets = device.secrets \cup {Credentials}
    BY DEF TypeOK, DeviceType, Secrets
  <1> HIDE DEF d
  <1>5. Safely(10, request[t], device, d)  BY <1>3, <1>4, GrowsIs DEF Safely
  <1>6. \A l : Well(10, request[t], d, l)  BY <1>4 DEF Well, Brings, Delivers
  <1> QED  BY <1>1, <1>5, <1>6, StageOK

LEMMA CloudflaredOK ==
  ASSUME TypeOK, WorkInv, NEW t \in Tabs, cloudflared_exits(t)
  PROVE  TypeOK' /\ StageStep(t, 11)
  <1>1. /\ Applies(t, Stages[11]) /\ Advances(t, request[t])
        /\ UNCHANGED <<state, file, pending, device, account, requests, faults, restarts, lost,
                       torn, met, unsaved>>
    BY StagesIs DEF cloudflared_exits, wizard, counters, history
  <1>2. Applying(t) /\ request[t].at = Stages[11]  BY <1>1 DEF Applies, Applying
  <1> DEFINE e == device
             l == lost
  <1>3. Brings(11, request[t].answers, e) /\ Delivers(11, request[t], e, l)
    BY DEF Brings, Delivers
  <1>4. Grows(11, request[t], e, e)  BY DEF Grows
  <1> HIDE DEF e, l
  <1>5. /\ request' \in [Tabs -> RequestType] /\ \A u \in Tabs \ {t} : request'[u] = request[u]
        /\ Goes(11, request[t], request'[t], e, l)
    <2>1. Advances(t, request[t])  BY <1>1
    <2>2. 11 \in 1 .. 14 /\ 11 \notin {3, 8} /\ (11 = 12 => e.key)  OBVIOUS
    <2> QED  BY <1>2, <1>3, <2>1, <2>2, AdvancesSame
  <1>6. TypeOK'  BY <1>1, <1>5 DEF TypeOK
  <1> QED  BY <1>1, <1>2, <1>4, <1>5, <1>6 DEF StageStep, e, l

LEMMA RecoveryKeyOK ==
  ASSUME TypeOK, WorkInv, NEW t \in Tabs, initialize_recovery_key(t)
  PROVE  TypeOK' /\ StageStep(t, 12)
  <1> DEFINE d == [device EXCEPT !.key = TRUE]
  <1>1. Stage(t, Stages[12], d)  BY StagesIs DEF initialize_recovery_key
  <1>2. Applies(t, Stages[12])  BY <1>1 DEF Stage
  <1>3. request[t].answers.profile \in Profiles \cup {None}  BY <1>2, AtStage
  <1>4. /\ d \in DeviceType /\ d.profile = device.profile /\ d.hostname = device.hostname
        /\ d.ssh = device.ssh /\ d.channels = device.channels /\ d.units = device.units
        /\ d.key /\ d.backup = device.backup /\ d.secrets = device.secrets
    BY DEF TypeOK, DeviceType
  <1> HIDE DEF d
  <1>5. Safely(12, request[t], device, d)  BY <1>3, <1>4, GrowsIs DEF Safely
  <1>6. \A l : Well(12, request[t], d, l)  BY <1>4 DEF Well, Brings, Delivers
  <1> QED  BY <1>1, <1>5, <1>6, StageOK

LEMMA BackupOK ==
  ASSUME TypeOK, WorkInv, NEW t \in Tabs, configure_backup(t)
  PROVE  TypeOK' /\ StageStep(t, 13)
  <1> DEFINE d == [device EXCEPT !.backup = request[t].taken.backup]
  <1>1. BestEffort(t, Stages[13], d, {"backup"}) \/ Stage(t, Stages[13], d)
    BY StagesIs DEF configure_backup
  <1>2. Applies(t, Stages[13])  BY <1>1 DEF Stage, BestEffort
  <1>3. /\ request[t].answers.profile \in Profiles \cup {None} /\ HasWork(request[t], Stages[13])
        /\ request[t].taken.backup \in BackupKinds \cup {None}
    BY <1>2, AtStage DEF PendingType
  <1>4. request[t].taken.backup # None  BY ONLY <1>3, WorkIs
  <1>5. /\ d \in DeviceType /\ d.profile = device.profile /\ d.hostname = device.hostname
        /\ d.ssh = device.ssh /\ d.channels = device.channels /\ d.units = device.units
        /\ d.key = device.key /\ d.backup = request[t].taken.backup /\ d.secrets = device.secrets
    BY <1>3 DEF TypeOK, DeviceType
  <1> HIDE DEF d
  <1>6. Safely(13, request[t], device, d)  BY <1>3, <1>4, <1>5, GrowsIs DEF Safely
  <1>7. \A l : Well(13, request[t], d, l)  BY <1>4, <1>5 DEF Well, Brings, Delivers
  <1>8. \A l : {"backup"} \subseteq l => Well(13, request[t], device, l)  BY DEF Well, Brings, Delivers
  <1>9. {"backup"} \in SUBSET Secrets  BY DEF Secrets
  <1>10. CASE Stage(t, Stages[13], d)  BY <1>6, <1>7, <1>10, StageOK
  <1>11. CASE BestEffort(t, Stages[13], d, {"backup"})
    <2> DEFINE S == {"backup"}
    <2>1. /\ BestEffort(t, Stages[13], d, S) /\ S \in SUBSET Secrets
          /\ \A l : S \subseteq l => Well(13, request[t], device, l)
      BY <1>8, <1>9, <1>11
    <2> HIDE DEF S
    <2> QED  BY <1>6, <1>7, <2>1, BestEffortOK
  <1> QED  BY <1>1, <1>10, <1>11

LEMMA EgressOK ==
  ASSUME TypeOK, WorkInv, NEW t \in Tabs, apply_egress(t)
  PROVE  TypeOK' /\ StageStep(t, 14)
  <1> DEFINE d == [device EXCEPT !.egress = request[t].answers.egress]
             S == {}
  <1>1. BestEffort(t, Stages[14], d, S) /\ S \in SUBSET Secrets  BY StagesIs
                                                                    DEF apply_egress
  <1>2. Applies(t, Stages[14])  BY <1>1 DEF BestEffort
  <1>3. request[t].answers \in Answers /\ request[t].answers.profile \in Profiles \cup {None}
    BY <1>2, AtStage
  <1>4. /\ d \in DeviceType /\ d.profile = device.profile /\ d.hostname = device.hostname
        /\ d.ssh = device.ssh /\ d.channels = device.channels /\ d.units = device.units
        /\ d.key = device.key /\ d.backup = device.backup /\ d.secrets = device.secrets
    BY <1>3 DEF TypeOK, DeviceType, Answers
  <1> HIDE DEF d, S
  <1>5. Safely(14, request[t], device, d)  BY <1>3, <1>4, GrowsIs DEF Safely
  <1>6. \A l : Well(14, request[t], d, l) /\ Well(14, request[t], device, l)  BY DEF Well, Brings, Delivers
  <1> QED  BY <1>1, <1>5, <1>6, BestEffortOK

LEMMA StagesOK ==
  ASSUME TypeOK, WorkInv, NEW t \in Tabs,
         \/ write_hostname(t) \/ write_active_profile(t) \/ append_provider_key(t)
         \/ enable_channels(t) \/ write_authorized_keys(t) \/ start_unit(t)
         \/ append_tailscale_key(t) \/ write_credentials(t) \/ cloudflared_exits(t)
         \/ initialize_recovery_key(t) \/ configure_backup(t) \/ apply_egress(t)
  PROVE  TypeOK' /\ \E n \in 1 .. 14 : StageStep(t, n)
  <1>1. \A n \in 1 .. 14 : StageStep(t, n) => \E k \in 1 .. 14 : StageStep(t, k)  OBVIOUS
  <1>2. {3, 4, 8, 9} \subseteq 1 .. 14 /\ {1, 2, 5, 6, 7, 10, 11, 12, 13, 14} \subseteq 1 .. 14  OBVIOUS
  <1> QED
    BY <1>1, <1>2, HostnameOK, ProfileOK, KeysOK, EnableOK, KeysFileOK, UnitOK,
       CredentialsOK,
       CloudflaredOK, RecoveryKeyOK, BackupOK, EgressOK

-----------------------------------------------------------------------------
(* Before the stages and after them *)

LEMMA ApplyFormOK ==
  ASSUME TypeOK, WorkInv, KeyInv, DoneInv, RegistrationInv, LossInv, NEW t \in Tabs, post_apply(t)
  PROVE  TypeOK' /\ WorkInv' /\ KeyInv' /\ DoneInv' /\ RegistrationInv' /\ LossInv'
  <1> DEFINE r == [kind |-> "apply", at |-> "secret", answers |-> state.answers,
                   taken |-> Forgotten, read |-> {}]
  <1>1. /\ Arrives(t, "apply") /\ Does(t, r)
        /\ UNCHANGED <<state, file, pending, device, account, faults, restarts, lost, torn,
                       unsaved>>
    BY DEF post_apply, wizard
  <1>2. Forgotten \in PendingType  BY DEF Forgotten, PendingType
  <1>3. r \in ApplyType  BY <1>2, StateIs DEF ApplyType, TakeSteps
  <1>4. r.kind = "apply" /\ r.at = "secret" /\ r.answers = state.answers /\ r.taken = Forgotten
    OBVIOUS
  <1> HIDE DEF r
  <1>5. /\ request' \in [Tabs -> RequestType] /\ request'[t] = r
        /\ \A u \in Tabs \ {t} : request'[u] = request[u]
    BY <1>1, <1>3, DoesOK DEF RequestType
  <1>6. /\ request[t] = Idle /\ requests' \in 0 .. MaxRequests /\ met \subseteq met'
        /\ "answers" \in met' \/ \A u \in Tabs \ {t} : request[u].kind = "none"
    BY <1>1, ArrivesOK
  <1>7. TypeOK'  BY <1>1, <1>5, <1>6 DEF TypeOK
  <1>8. ~Applying(t) /\ ~Polling(t) /\ ~Polling(t)' /\ Applying(t)'
    BY <1>4, <1>5, <1>6, IdleIs DEF Applying, Polling
  <1>9. AtWork(r) /\ r.at \in TakeSteps
    BY <1>4, StagesLater DEF AtWork, Forgotten, TakeSteps
  <1>10. WorkInv'  BY <1>5, <1>9 DEF WorkInv, Applying
  <1>11. ~Past(r, 12) /\ (\A k \in 1 .. 14 : ~Past(r, k)) /\ HasRead(r, device)
    BY <1>9, NotPast DEF HasRead
  <1>12. KeyInv'  BY <1>1, <1>5, <1>11 DEF KeyInv, Applying
  <1>13. Saved'  BY <1>1 DEF DoneInv, Saved
  <1>14. "answers" \in met' \/ \A u \in Tabs \ {t} : request[u] = Idle /\ request'[u] = Idle
    <2>1. \A u \in Tabs : request[u].kind = "none" => request[u] = Idle
      BY DEF TypeOK, RequestType, FormType, PollType, ApplyType
    <2> QED  BY <1>5, <1>6, <2>1
  <1>15. DoneInv'
    <2>1. "answers" \notin met' => \A u \in Tabs : Applying(u)' => u = t  BY <1>14, IdleIs DEF Applying
    <2>2. "answers" \notin met' => Alone(t)'  BY <1>14 DEF Alone
    <2>3. ~unsaved' /\ "answers" \notin met' /\ state'.step = "done" =>
              \A n \in 1 .. 14 : Brings(n, state'.answers, device')
      BY <1>1, <1>6 DEF DoneInv
    <2> QED  BY <1>1, <1>4, <1>5, <1>11, <1>13, <2>1, <2>2, <2>3 DEF DoneInv
  <1>16. NoPoll(t)  BY <1>1, <1>5, <1>6, <1>8 DEF NoPoll
  <1>17. LossInv'
    <2>1. \A u \in Tabs : request'[u].kind = "provider" /\ "provider" \notin met'
                          => state'.answers.provider = request'[u].form
      BY <1>1, <1>4, <1>5, <1>6 DEF LossInv
    <2>2. PutAside(r, pending)  BY <1>4 DEF PutAside
    <2>3. \A u \in Tabs : request'[u].kind \notin met' /\ "answers" \notin met' => PutAside(request'[u], pending')
      BY <1>1, <1>5, <1>6, <2>2 DEF LossInv
    <2>4. "answers" \notin met' => \A u \in Tabs : Applying(u)' => u = t  BY <1>14, IdleIs DEF Applying
    <2>5. "apply" \notin met' /\ "answers" \notin met' =>
         \A u \in Tabs : Applying(u)' =>
             /\ HasRead(request'[u], device')
             /\ \A k \in 1 .. 14 : Past(request'[u], k) => Delivers(k, request'[u], device', lost')
      BY <1>1, <1>5, <1>11, <2>4
    <2>6. ASSUME NEW s \in Claimed(state'.answers)  PROVE Excuses(s)' \/ Working(Asks(s))' \/ InHand(s)'
      <3>1. s \in Claimed(state.answers) /\ s \in Secrets  BY <1>1, <2>6, ClaimedAre
      <3>2. CASE Excuses(s)  BY <1>6, <3>2 DEF Excuses
      <3>3. CASE Working(Asks(s))
        <4>1. Asks(s) # "none"  BY <3>1, AsksIs DEF SecretKinds
        <4> QED  BY <1>5, <1>6, <3>3, <4>1, IdleIs DEF Working
      <3>4. CASE InHand(s)  BY <1>1, <1>5, <1>8, <3>4 DEF InHand, Applying
      <3> QED  BY <3>1, <3>2, <3>3, <3>4 DEF LossInv
    <2> QED  BY <2>1, <2>3, <2>5, <2>6 DEF LossInv
  <1> QED  BY <1>7, <1>10, <1>12, <1>15, <1>16, <1>17, NoPollKeeps

(* A stage that is passed over had nothing to do, the first of them included. *)
LEMMA FirstStage ==
  ASSUME NEW r, NEW m \in 1 .. 15, HasWork(r, Stages[m]),
         \A k \in 1 .. m - 1 : ~HasWork(r, Stages[k])
  PROVE  m # 4 /\ m # 9 /\ (r.taken.backup # None => m \leq 12)
  <1>1. m # 4
    <2>1. ASSUME m = 4  PROVE FALSE
      <3>1. ~HasWork(r, Stages[3]) /\ HasWork(r, Stages[4])  BY <2>1
      <3> QED  BY ONLY <3>1, WorkIs
    <2> QED  BY <2>1
  <1>2. m # 9
    <2>1. ASSUME m = 9  PROVE FALSE
      <3>1. ~HasWork(r, Stages[8]) /\ HasWork(r, Stages[9])  BY <2>1
      <3> QED  BY ONLY <3>1, WorkIs
    <2> QED  BY <2>1
  <1>3. r.taken.backup # None => m \leq 12
    <2>1. SUFFICES ASSUME r.taken.backup # None, m > 12  PROVE FALSE  OBVIOUS
    <2>2. ~HasWork(r, Stages[12])  BY <2>1
    <2>3. HasWork(r, Stages[12]) = NeedsRecoveryKey(r)  BY ONLY WorkIs
    <2> QED  BY <2>1, <2>2, <2>3 DEF NeedsRecoveryKey
  <1> QED  BY <1>1, <1>2, <1>3

(* One value more of the pending ones is in an apply's hands. *)
Takes1(t, q) ==
    /\ Applying(t) /\ request[t].at \in TakeSteps
    /\ UNCHANGED <<state, file, device, account, requests, faults, restarts, lost, torn, met,
                   unsaved>>
    /\ pending' \in PendingType /\ q \in ApplyType /\ q.answers = request[t].answers
    /\ Held(pending) \cup Held(request[t].taken) \subseteq Held(pending') \cup Held(q.taken)
    /\ AtWork(q)
    /\ q.at \in TakeSteps \/ \E m \in 1 .. 15 :
           q.at = Stages[m] /\ HasWork(q, Stages[m]) /\ \A k \in 1 .. m - 1 : ~HasWork(q, Stages[k])
    /\ Does(t, q)

LEMMA TakesIs ==
  /\ DOMAIN Takes = 1 .. 4 /\ Len(Takes) = 4 /\ Takes[1] = "secret" /\ Takes[2] = "tailscale"
  /\ Takes[3] = "cloudflared" /\ Takes[4] = "backup"
  BY DEF Takes

LEMMA TakingOK ==
  ASSUME TypeOK, WorkInv, NEW t \in Tabs, take_pending(t)
  PROVE  \E q : Takes1(t, q)
  <1> DEFINE taking(f) == [request[t] EXCEPT !.taken = [@ EXCEPT ![f] = pending[f]]]
  <1>1. PICK i \in 1 .. 4 :
            /\ Applies(t, Takes[i]) /\ pending' = [pending EXCEPT ![Takes[i]] = Forgotten[Takes[i]]]
            /\ Does(t, [taking(Takes[i]) EXCEPT
                            !.at = IF i < 4 THEN Takes[i + 1] ELSE NextStage(taking(Takes[i]), 1)])
            /\ UNCHANGED <<state, file, device, account, requests, faults, restarts, lost, torn,
                           met, unsaved>>
    BY TakesIs DEF take_pending, counters, history
  <1>2. Applying(t) /\ request[t].at = Takes[i] /\ Takes[i] \in TakeSteps
    BY <1>1, TakesIs DEF Applies, Applying, TakeSteps
  <1>3. request[t] \in ApplyType /\ AtWork(request[t])  BY <1>2, ApplyIs DEF WorkInv
  <1> DEFINE r == taking(Takes[i])
             p == [pending EXCEPT ![Takes[i]] = Forgotten[Takes[i]]]
             k == [request[t].taken EXCEPT ![Takes[i]] = pending[Takes[i]]]
  <1>4. pending \in PendingType /\ request[t].taken \in PendingType  BY <1>3 DEF TypeOK, ApplyType
  <1>5. /\ i = 1 => p = [pending EXCEPT !.secret = None] /\ k = [request[t].taken EXCEPT !.secret = pending.secret]
        /\ i = 2 => p = [pending EXCEPT !.tailscale = FALSE] /\ k = [request[t].taken EXCEPT !.tailscale = pending.tailscale]
        /\ i = 3 => p = [pending EXCEPT !.cloudflared = FALSE] /\ k = [request[t].taken EXCEPT !.cloudflared = pending.cloudflared]
        /\ i = 4 => p = [pending EXCEPT !.backup = None] /\ k = [request[t].taken EXCEPT !.backup = pending.backup]
    <2>1. /\ Forgotten.secret = None /\ Forgotten.tailscale = FALSE
          /\ Forgotten.cloudflared = FALSE /\ Forgotten.backup = None
      BY DEF Forgotten
    <2>2. CASE i = 1  BY <2>1, <2>2, TakesIs
    <2>3. CASE i = 2  BY <2>1, <2>3, TakesIs
    <2>4. CASE i = 3  BY <2>1, <2>4, TakesIs
    <2>5. CASE i = 4  BY <2>1, <2>5, TakesIs
    <2> QED  BY <2>2, <2>3, <2>4, <2>5
  <1>6. /\ r \in [kind : {"apply"}, at : TakeSteps \cup StageSteps, answers : Answers, taken : {k}, read : (SUBSET Secrets) \cup {None}]
        /\ r.kind = "apply" /\ r.answers = request[t].answers /\ r.taken = k
    BY <1>3 DEF ApplyType
  <1>7. /\ i = 1 => request[t].taken.secret = None
        /\ i \in {1, 2} => ~request[t].taken.tailscale
        /\ i \in {1, 2, 3} => ~request[t].taken.cloudflared
        /\ request[t].taken.backup = None
    BY <1>2, <1>3, TakesIs DEF AtWork, TakeSteps
  <1>8. pending' = p  BY <1>1
  <1> HIDE DEF r, p, k
  <1>9. p \in PendingType /\ k \in PendingType
    <2>1. CASE i = 1  BY <1>4, <1>5, <2>1 DEF PendingType
    <2>2. CASE i = 2  BY <1>4, <1>5, <2>2 DEF PendingType
    <2>3. CASE i = 3  BY <1>4, <1>5, <2>3 DEF PendingType
    <2>4. CASE i = 4  BY <1>4, <1>5, <2>4 DEF PendingType
    <2> QED  BY <2>1, <2>2, <2>3, <2>4
  <1>10. Held(pending) \cup Held(request[t].taken) \subseteq Held(p) \cup Held(k)
    <2>1. CASE i = 1  BY <1>4, <1>5, <1>7, <2>1 DEF Held, PendingType
    <2>2. CASE i = 2  BY <1>4, <1>5, <1>7, <2>2 DEF Held, PendingType
    <2>3. CASE i = 3  BY <1>4, <1>5, <1>7, <2>3 DEF Held, PendingType
    <2>4. CASE i = 4  BY <1>4, <1>5, <1>7, <2>4 DEF Held, PendingType
    <2> QED  BY <2>1, <2>2, <2>3, <2>4
  <1>11. /\ i = 1 => ~k.tailscale /\ ~k.cloudflared /\ k.backup = None
         /\ i = 2 => ~k.cloudflared /\ k.backup = None
         /\ i = 3 => k.backup = None
    BY <1>4, <1>5, <1>7 DEF PendingType
  <1>12. PICK m \in 1 .. 15 : /\ NextStage(r, 1) = Stages[m] /\ HasWork(r, Stages[m])
                              /\ \A j \in 1 .. m - 1 : ~HasWork(r, Stages[j])
    BY NextStageIs
  <1> DEFINE a == IF i < 4 THEN Takes[i + 1] ELSE NextStage(r, 1)
             q == [r EXCEPT !.at = a]
  <1>13. i < 4 => a \in TakeSteps /\ a = Takes[i + 1]  BY TakesIs DEF TakeSteps
  <1>14. i = 4 => a \in StageSteps /\ a = Stages[m]  BY <1>12, StagesLater
  <1>15. Does(t, q)  BY <1>1 DEF r
  <1> HIDE DEF a
  <1>16. q \in ApplyType /\ q.answers = request[t].answers /\ q.taken = k /\ q.at = a /\ r.answers = q.answers
    BY <1>6, <1>9, <1>13, <1>14 DEF ApplyType
  <1> HIDE DEF q
  <1>17. \A s : HasWork(q, s) <=> HasWork(r, s)  BY <1>6, <1>16, SameWorkIs
  <1>18. AtWork(q)
    <2>1. CASE i = 4
      <3>1. q.at \in StageSteps /\ q.at \notin TakeSteps /\ HasWork(q, q.at)
        BY <1>12, <1>14, <1>16, <1>17, <2>1, StagesLater
      <3> QED  BY <3>1 DEF AtWork, TakeSteps
    <2>2. CASE i < 4
      <3>1. q.at \notin StageSteps /\ q.at = Takes[i + 1]  BY <1>13, <1>16, <2>2, StagesLater
      <3>2. i = 1 \/ i = 2 \/ i = 3  BY <2>2
      <3>3. CASE i = 1  BY <1>11, <1>16, <3>1, <3>3, TakesIs DEF AtWork, TakeSteps
      <3>4. CASE i = 2  BY <1>11, <1>16, <3>1, <3>4, TakesIs DEF AtWork, TakeSteps
      <3>5. CASE i = 3  BY <1>11, <1>16, <3>1, <3>5, TakesIs DEF AtWork, TakeSteps
      <3> QED  BY <3>2, <3>3, <3>4, <3>5
    <2> QED  BY <2>1, <2>2
  <1>19. q.at \in TakeSteps \/ \E n \in 1 .. 15 :
           q.at = Stages[n] /\ HasWork(q, Stages[n]) /\ \A j \in 1 .. n - 1 : ~HasWork(q, Stages[j])
    BY <1>12, <1>13, <1>14, <1>16, <1>17
  <1>20. Takes1(t, q)
    BY <1>1, <1>2, <1>8, <1>9, <1>10, <1>15, <1>16, <1>18, <1>19 DEF Takes1
  <1> QED  BY <1>20

LEMMA TakeOK ==
  ASSUME TypeOK, WorkInv, KeyInv, DoneInv, RegistrationInv, LossInv, NEW t \in Tabs, take_pending(t)
  PROVE  TypeOK' /\ WorkInv' /\ KeyInv' /\ DoneInv' /\ RegistrationInv' /\ LossInv'
  <1>1. PICK q : Takes1(t, q)  BY TakingOK
  <1>2. /\ Applying(t) /\ request[t].at \in TakeSteps
        /\ UNCHANGED <<state, file, device, account, requests, faults, restarts, lost, torn, met,
                       unsaved>>
        /\ pending' \in PendingType /\ q \in ApplyType /\ q.answers = request[t].answers
        /\ Held(pending) \cup Held(request[t].taken) \subseteq Held(pending') \cup Held(q.taken)
        /\ AtWork(q) /\ Does(t, q)
    BY <1>1 DEF Takes1
  <1>3. /\ request' \in [Tabs -> RequestType] /\ request'[t] = q /\ q.kind = "apply"
        /\ \A u \in Tabs \ {t} : request'[u] = request[u]
    BY <1>2, DoesOK DEF RequestType, ApplyType
  <1>4. TypeOK'  BY <1>2, <1>3 DEF TypeOK
  <1>5. WorkInv'  BY <1>2, <1>3 DEF WorkInv, Applying
  <1>6. /\ HasRead(q, device) /\ (q.taken.backup # None => ~Past(q, 12))
        /\ \A k \in 1 .. 14 : Past(q, k) => Brings(k, q.answers, device) /\ Delivers(k, q, device, lost)
    <2>1. CASE q.at \in TakeSteps  BY <2>1, NotPast DEF HasRead
    <2>2. CASE q.at \notin TakeSteps
      <3>1. PICK m \in 1 .. 15 :
                q.at = Stages[m] /\ HasWork(q, Stages[m]) /\ \A k \in 1 .. m - 1 : ~HasWork(q, Stages[k])
        BY <1>1, <2>2 DEF Takes1
      <3>2. m # 4 /\ m # 9 /\ (q.taken.backup # None => m \leq 12)  BY <3>1, FirstStage
      <3>3. HasRead(q, device)  BY <3>1, <3>2, StagesDiffer, StagesLater DEF HasRead
      <3>4. q.taken.backup # None => ~Past(q, 12)  BY <3>1, <3>2, PastIs
      <3>5. ASSUME NEW k \in 1 .. 14, Past(q, k)
            PROVE  Brings(k, q.answers, device) /\ Delivers(k, q, device, lost)
        <4>1. k < m  BY <3>1, <3>5, PastIs
        <4>2. ~HasWork(q, Stages[k])  BY <3>1, <4>1
        <4> QED  BY <4>2, NoWork
      <3> QED  BY <3>3, <3>4, <3>5
    <2> QED  BY <2>1, <2>2
  <1>7. KeyInv'  BY <1>2, <1>3, <1>6 DEF KeyInv, Applying
  <1>8. Saved'  BY <1>2 DEF DoneInv, Saved
  <1>9. ASSUME "answers" \notin met
        PROVE  /\ q.answers = state.answers /\ Alone(t)' /\ \A u \in Tabs \ {t} : request[u] = Idle /\ ~Applying(u)'
    <2>1. Alone(t) /\ request[t].answers = state.answers  BY <1>2, <1>9 DEF DoneInv
    <2> QED  BY <1>2, <1>3, <2>1, IdleIs DEF Alone, Applying
  <1>10. DoneInv'
    <2>1. ASSUME "answers" \in met  PROVE DoneInv'  BY <1>2, <1>8, <2>1 DEF DoneInv
    <2>2. ASSUME "answers" \notin met  PROVE DoneInv'
      <3>1. ~unsaved' /\ state'.step = "done" => \A n \in 1 .. 14 : Brings(n, state'.answers, device')
        BY <1>2, <2>2 DEF DoneInv
      <3>2. q.answers = state'.answers /\ \A k \in 1 .. 14 : Past(q, k) => Brings(k, state'.answers, device')
        BY <1>2, <1>6, <1>9, <2>2
      <3>3. \A u \in Tabs : Applying(u)' => u = t  BY <1>9, <2>2
      <3>4. Alone(t)'  BY <1>9, <2>2
      <3> QED  BY <1>3, <1>8, <3>1, <3>2, <3>3, <3>4 DEF DoneInv
    <2> QED  BY <2>1, <2>2
  <1>11. ~Polling(t) /\ ~Polling(t)'  BY <1>2, <1>3 DEF Polling, Applying
  <1>12. NoPoll(t)  BY <1>2, <1>3, <1>11 DEF NoPoll
  <1>13. LossInv'
    <2>1. \A u \in Tabs : request'[u].kind = "provider" /\ "provider" \notin met'
                          => state'.answers.provider = request'[u].form
      BY <1>2, <1>3 DEF LossInv
    <2>2. "answers" \notin met => \A u \in Tabs : PutAside(request'[u], pending')
      <3>1. "answers" \notin met => \A u \in Tabs : request'[u].kind \in {"none", "apply"}
        BY <1>3, <1>9, IdleIs
      <3> QED  BY <3>1 DEF PutAside
    <2>3. "answers" \notin met =>
         \A u \in Tabs : Applying(u)' =>
             /\ HasRead(request'[u], device')
             /\ \A k \in 1 .. 14 : Past(request'[u], k) => Delivers(k, request'[u], device', lost')
      BY <1>2, <1>3, <1>6, <1>9
    <2>4. ASSUME NEW s \in Claimed(state'.answers)  PROVE Excuses(s)' \/ Working(Asks(s))' \/ InHand(s)'
      <3>1. s \in Claimed(state.answers) /\ s \in Secrets  BY <1>2, <2>4, ClaimedAre
      <3>2. CASE Excuses(s)  BY <1>2, <3>2 DEF Excuses
      <3>3. CASE Working(Asks(s))
        <4>1. Asks(s) # "apply"  BY <3>1, AsksIs DEF SecretKinds
        <4> QED  BY <1>2, <1>3, <3>3, <4>1 DEF Working, Applying
      <3>4. CASE InHand(s)
        <4>1. CASE s \in OnDevice(device) \cup lost  BY <1>2, <4>1 DEF InHand
        <4>2. CASE s \in Held(pending) \cup Held(request[t].taken)
          <5>1. s \in Held(pending') \/ s \in Held(q.taken)  BY <1>2, <4>2
          <5>2. CASE s \in Held(q.taken)
            <6>1. Applying(t)' /\ s \in Held(request'[t].taken)  BY <1>3, <5>2 DEF Applying
            <6> QED  BY <6>1 DEF InHand
          <5>3. CASE s \in Held(pending')  BY <5>3 DEF InHand
          <5> QED  BY <5>1, <5>2, <5>3
        <4>3. CASE \E u \in Tabs : u # t /\ Applying(u) /\ s \in Held(request[u].taken)
          BY <1>3, <4>3 DEF InHand, Applying
        <4> QED  BY <3>4, <4>1, <4>2, <4>3 DEF InHand
      <3> QED  BY <3>1, <3>2, <3>3, <3>4 DEF LossInv
    <2> QED  BY <1>2, <2>1, <2>2, <2>3, <2>4 DEF LossInv
  <1> QED  BY <1>4, <1>5, <1>7, <1>10, <1>12, <1>13, NoPollKeeps

(* An apply that has come to its end has brought everything and written every secret it took. *)
LEMMA Delivered ==
  ASSUME TypeOK, NEW r \in ApplyType, r.answers = state.answers,
         \A k \in 1 .. 14 : Delivers(k, r, device, lost), NEW s \in Claimed(state.answers),
         s \in Held(r.taken)
  PROVE  s \in OnDevice(device) \cup lost
  <1>1. CASE s \in CloudProviders
    <2>1. s = r.answers.provider  BY <1>1, ClaimedAre
    <2>2. s = r.taken.secret
      BY <1>1, NamesAssumption DEF Held, Tailscale, Credentials, provider_choices
    <2>3. r.taken.secret # None  BY <1>1, <2>2, NamesAssumption
    <2>4. Delivers(4, r, device, lost)  OBVIOUS
    <2> QED  BY <2>1, <2>2, <2>3, <2>4 DEF HasKey, Delivers, OnDevice
  <1>2. CASE s \notin CloudProviders
    <2>1. \/ s = Tailscale /\ r.taken.tailscale
          \/ s = Credentials /\ r.taken.cloudflared
          \/ s = "backup" /\ r.taken.backup # None
      BY <1>2 DEF Held, ApplyType, PendingType
    <2>2. Delivers(9, r, device, lost) /\ Delivers(10, r, device, lost) /\ Delivers(13, r, device, lost)
      OBVIOUS
    <2> QED  BY <2>1, <2>2 DEF Delivers, OnDevice
  <1> QED  BY <1>1, <1>2

LEMMA FinishOK ==
  ASSUME TypeOK, WorkInv, KeyInv, DoneInv, RegistrationInv, LossInv, NEW t \in Tabs, finish_apply(t)
  PROVE  TypeOK' /\ WorkInv' /\ KeyInv' /\ DoneInv' /\ RegistrationInv' /\ LossInv'
  <1> DEFINE r == request[t]
  <1>1. /\ Applies(t, Stages[15]) /\ Answered(t) /\ Answer(state.answers, "done")
        /\ UNCHANGED <<pending, device, account, requests, restarts, lost, torn, met>>
    BY StagesIs DEF finish_apply
  <1>2. Applying(t) /\ r.at = Stages[15]  BY <1>1 DEF Applies, Applying
  <1>3. r \in ApplyType  BY <1>2, ApplyIs
  <1>4. /\ request' \in [Tabs -> RequestType] /\ request'[t] = Idle
        /\ \A u \in Tabs \ {t} : request'[u] = request[u]
    BY <1>1, AnsweredOK
  <1>5. /\ state' \in WizardStates /\ state'.answers = state.answers
        /\ file' \in {file, state'} /\ file' \in WizardStates \cup {None}
        /\ faults' \in Nat /\ unsaved' \in BOOLEAN /\ Saved' /\ (unsaved => unsaved')
    BY <1>1, AnswerOK, StateIs DEF Steps
  <1>6. TypeOK'  BY <1>1, <1>4, <1>5 DEF TypeOK
  <1>7. \A u \in Tabs : Applying(u)' => u # t /\ Applying(u) /\ request'[u] = request[u]
    BY <1>4, IdleIs DEF Applying
  <1>8. WorkInv' /\ KeyInv'  BY <1>1, <1>7 DEF WorkInv, KeyInv
  <1>9. \A k \in 1 .. 14 : Past(r, k)  BY <1>2, PastIs
  <1>10. DoneInv'
    <2>1. ASSUME "answers" \in met  PROVE DoneInv'  BY <1>1, <1>5, <2>1 DEF DoneInv
    <2>2. ASSUME "answers" \notin met  PROVE DoneInv'
      <3>1. \A k \in 1 .. 14 : Brings(k, state.answers, device)  BY <1>2, <1>9, <2>2 DEF DoneInv
      <3>2. Alone(t)  BY <1>2, <2>2 DEF DoneInv
      <3>3. \A u \in Tabs : ~Applying(u)'  BY <1>7, <3>2, IdleIs DEF Alone, Applying
      <3> QED  BY <1>1, <1>5, <3>1, <3>3 DEF DoneInv
    <2> QED  BY <2>1, <2>2
  <1>11. ~Polling(t) /\ ~Polling(t)'  BY <1>2, <1>4, IdleIs DEF Polling, Applying
  <1>12. NoPoll(t)  BY <1>1, <1>4, <1>5, <1>11 DEF NoPoll
  <1>13. LossInv'
    <2>1. \A u \in Tabs : request'[u].kind = "provider" /\ "provider" \notin met'
                          => state'.answers.provider = request'[u].form
      BY <1>1, <1>4, <1>5, IdleIs DEF LossInv
    <2>2. \A u \in Tabs : request'[u].kind \notin met' /\ "answers" \notin met' => PutAside(request'[u], pending')
      <3>1. PutAside(request'[t], pending')  BY <1>4, IdleIs DEF PutAside
      <3> QED  BY <1>1, <1>4, <3>1 DEF LossInv
    <2>3. "apply" \notin met' /\ "answers" \notin met' =>
         \A u \in Tabs : Applying(u)' =>
             /\ HasRead(request'[u], device')
             /\ \A k \in 1 .. 14 : Past(request'[u], k) => Delivers(k, request'[u], device', lost')
      BY <1>1, <1>7 DEF LossInv
    <2>4. ASSUME NEW s \in Claimed(state'.answers)  PROVE Excuses(s)' \/ Working(Asks(s))' \/ InHand(s)'
      <3>1. s \in Claimed(state.answers) /\ s \in Secrets  BY <1>5, <2>4, ClaimedAre
      <3>2. CASE Excuses(s)  BY <1>1, <3>2 DEF Excuses
      <3>3. CASE Working(Asks(s))
        <4>1. Asks(s) # "apply"  BY <3>1, AsksIs DEF SecretKinds
        <4> QED  BY <1>2, <1>4, <3>3, <4>1 DEF Working, Applying
      <3>4. CASE s \in OnDevice(device) \cup lost \cup Held(pending)
        <4>1. s \in OnDevice(device') \cup lost' \cup Held(pending')  BY <1>1, <3>4
        <4> QED  BY <4>1 DEF InHand
      <3>5. CASE \E u \in Tabs : u # t /\ Applying(u) /\ s \in Held(request[u].taken)
        BY <1>4, <3>5 DEF InHand, Applying
      <3>6. CASE s \in Held(r.taken) /\ ~Excuses(s)
        <4>1. "apply" \notin met /\ "answers" \notin met  BY <3>6 DEF Excuses
        <4>2. r.answers = state.answers  BY <1>2, <4>1 DEF DoneInv
        <4>3. \A k \in 1 .. 14 : Delivers(k, r, device, lost)  BY <1>2, <1>9, <4>1 DEF LossInv
        <4>4. s \in OnDevice(device) \cup lost  BY <1>3, <3>1, <3>6, <4>2, <4>3, Delivered
        <4> QED  BY <3>4, <4>4
      <3> QED  BY <3>1, <3>2, <3>3, <3>4, <3>5, <3>6 DEF LossInv, InHand
    <2> QED  BY <2>1, <2>2, <2>3, <2>4 DEF LossInv
  <1> QED  BY <1>6, <1>8, <1>10, <1>12, <1>13, NoPollKeeps

LEMMA DefaultIs ==
  /\ Default \in WizardStates /\ Default.step = "system" /\ ~Default.answers.registered
  /\ Claimed(Default.answers) = {}
  <1>1. Default \in WizardStates  BY DEF Default, WizardStates, Answers, Steps
  <1>2. Claimed(Default.answers) = {}  BY NamesAssumption DEF Default, Claimed
  <1> QED  BY <1>1, <1>2 DEF Default

LEMMA RestartOK ==
  ASSUME TypeOK, WorkInv, KeyInv, DoneInv, RegistrationInv, LossInv, restart
  PROVE  TypeOK' /\ WorkInv' /\ KeyInv' /\ DoneInv' /\ RegistrationInv' /\ LossInv'
  <1>1. /\ restarts' = restarts + 1 /\ pending' = Forgotten /\ request' = [t \in Tabs |-> Idle]
        /\ state' = IF file = None THEN Default ELSE file
        /\ lost' = (lost \cup Claimed(state'.answers)) \ OnDevice(device)
        /\ torn' = (torn \/ \E t \in Tabs : request[t].kind = "poll"
                                     /\ request[t].at \notin {"exchange", "tunnel"})
        /\ UNCHANGED <<file, device, account, requests, faults, met, unsaved>>
    BY DEF restart
  <1>2. state' \in WizardStates  BY <1>1, DefaultIs DEF TypeOK
  <1>3. request' \in [Tabs -> RequestType] /\ \A t \in Tabs : request'[t] = Idle /\ ~Applying(t)' /\ ~Polling(t)'
    BY <1>1, IdleIs DEF Applying, Polling
  <1>4. Forgotten \in PendingType  BY DEF Forgotten, PendingType
  <1>5. Claimed(state'.answers) \subseteq Secrets  BY ClaimedAre
  <1>6. TypeOK'  BY <1>1, <1>2, <1>3, <1>4, <1>5 DEF TypeOK
  <1>7. WorkInv' /\ KeyInv'  BY <1>1, <1>3 DEF WorkInv, KeyInv
  <1>8. Saved /\ Saved'  BY <1>1 DEF DoneInv, Saved
  <1>9. ~unsaved => state' = state  BY <1>1, <1>8, NamesAssumption DEF Saved, TypeOK
  <1>10. DoneInv'
    <2>1. ~unsaved' /\ "answers" \notin met' /\ state'.step = "done" =>
              \A n \in 1 .. 14 : Brings(n, state'.answers, device')
      BY <1>1, <1>9 DEF DoneInv
    <2> QED  BY <1>3, <1>8, <2>1 DEF DoneInv
  <1>11. RegistrationInv'
    <2>1. Claims' => Claims  BY <1>1, DefaultIs DEF Claims
    <2>2. ~torn' => ~torn /\ \A t \in Tabs : ~Writing(t)  BY <1>1 DEF Writing, Polling
    <2> QED  BY <1>1, <1>3, <2>1, <2>2 DEF RegistrationInv
  <1>12. LossInv'
    <2>1. \A s \in Claimed(state'.answers) : InHand(s)'
      <3>1. Claimed(state'.answers) \subseteq OnDevice(device') \cup lost'  BY <1>1
      <3> QED  BY <3>1 DEF InHand
    <2>2. \A u \in Tabs : request'[u].kind = "none" /\ PutAside(request'[u], pending')
      BY <1>3, IdleIs DEF PutAside
    <2> QED  BY <1>3, <2>1, <2>2 DEF LossInv
  <1> QED  BY <1>6, <1>7, <1>10, <1>11, <1>12

-----------------------------------------------------------------------------
LEMMA InitOK ==
  ASSUME Init  PROVE WizardInv
  <1>1. /\ pending = Forgotten /\ request = [t \in Tabs |-> Idle] /\ device = Fresh
        /\ requests = 0 /\ faults = 0 /\ restarts = 0
        /\ lost = {} /\ torn = FALSE /\ met = {} /\ unsaved = FALSE
    BY DEF Init
  <1>2. /\ state \in WizardStates /\ state.step # "done" /\ Claimed(state.answers) = {}
        /\ (file = None /\ state = Default) \/ file = state
        /\ \/ account = Unregistered /\ ~state.answers.registered
           \/ \E b \in Bases : account = RegisteredAt(b)
    <2>1. CASE state = Default /\ file = None /\ account = Unregistered
      BY <2>1, DefaultIs
    <2>2. CASE \E h \in Hostnames, p \in Profiles, k \in SshKeys, b \in Bases \cup {None},
                 c \in SUBSET Channels :
             /\ state = [step |-> "review",
                         answers |-> [Default.answers EXCEPT
                                          !.hostname = h, !.profile = p, !.channels = c, !.ssh = {k},
                                          !.drives = TRUE, !.base = b,
                                          !.registered = (b # None)]]
             /\ file = state
             /\ account = IF b = None THEN Unregistered ELSE RegisteredAt(b)
      <3>1. PICK h \in Hostnames, p \in Profiles, k \in SshKeys, b \in Bases \cup {None},
                 c \in SUBSET Channels :
             /\ state = [step |-> "review",
                         answers |-> [Default.answers EXCEPT
                                          !.hostname = h, !.profile = p, !.channels = c, !.ssh = {k},
                                          !.drives = TRUE, !.base = b,
                                          !.registered = (b # None)]]
             /\ file = state
             /\ account = IF b = None THEN Unregistered ELSE RegisteredAt(b)
        BY <2>2
      <3> DEFINE a == [Default.answers EXCEPT
                          !.hostname = h, !.profile = p, !.channels = c, !.ssh = {k},
                          !.drives = TRUE, !.base = b, !.registered = (b # None)]
      <3>2. a \in Answers /\ a.registered = (b # None)  BY DEF Default, Answers
      <3>3. /\ a.provider = Default.answers.provider /\ a.tailscale = Default.answers.tailscale
            /\ a.tunnel = Default.answers.tunnel /\ a.backup = Default.answers.backup
        BY DEF Default
      <3>4. state = [step |-> "review", answers |-> a]  BY <3>1
      <3> HIDE DEF a
      <3>5. Claimed(a) = {}  BY <3>3, DefaultIs DEF Claimed
      <3>6. state \in WizardStates /\ state.step # "done" /\ Claimed(state.answers) = {} /\ state.answers = a
        BY <3>2, <3>4, <3>5 DEF WizardStates, Steps
      <3>7. CASE b = None  BY <3>1, <3>2, <3>6, <3>7
      <3>8. CASE b # None  BY <3>1, <3>6, <3>8
      <3> QED  BY <3>7, <3>8
    <2> QED  BY <2>1, <2>2 DEF Init
  <1>3. \A t \in Tabs : request[t] = Idle /\ ~Applying(t) /\ ~Polling(t)  BY <1>1, IdleIs DEF Applying, Polling
  <1>4. account \in AccountType
    <2>1. Unregistered \in AccountType  BY DEF Unregistered, AccountType
    <2>2. ASSUME NEW b \in Bases  PROVE RegisteredAt(b) \in AccountType
      <3>1. [n |-> 0, base |-> b] \in Registrations  BY WizardAssumption DEF Registrations
      <3> QED  BY <3>1 DEF RegisteredAt, AccountType
    <2> QED  BY <1>2, <2>1, <2>2
  <1>5. Forgotten \in PendingType /\ Fresh \in DeviceType  BY DEF Forgotten, PendingType,
                                                                  Fresh, DeviceType
  <1>6. 0 \in 0 .. MaxRequests  BY WizardAssumption
  <1>7. TypeOK  BY <1>1, <1>2, <1>4, <1>5, <1>6, IdleIs DEF TypeOK
  <1>8. WorkInv  BY <1>3 DEF WorkInv
  <1>9. KeyInv  BY <1>1, <1>3 DEF KeyInv, Fresh
  <1>10. DoneInv  BY <1>1, <1>2, <1>3 DEF DoneInv, Saved
  <1>11. RegistrationInv
    <2>1. ASSUME NEW b \in Bases  PROVE Consistent(RegisteredAt(b))
      <3> DEFINE r == [n |-> 0, base |-> b]
      <3>1. r \in Registrations /\ r.base = b  BY WizardAssumption DEF Registrations
      <3>2. r # None  BY <3>1, NamesAssumption
      <3>3. /\ RegisteredAt(b).tunnel = r /\ RegisteredAt(b).backup = r /\ RegisteredAt(b).owner = r
            /\ RegisteredAt(b).base = IF b = DefaultBase THEN None ELSE b
        BY DEF RegisteredAt
      <3> HIDE DEF r
      <3> QED  BY <3>1, <3>2, <3>3 DEF Consistent
    <2>2. Claims => \E b \in Bases : account = RegisteredAt(b)
      BY <1>2, DefaultIs DEF Claims
    <2> QED  BY <1>3, <2>1, <2>2 DEF RegistrationInv
  <1>12. LossInv  BY <1>2, <1>3, IdleIs DEF LossInv, PutAside
  <1> QED  BY <1>7, <1>8, <1>9, <1>10, <1>11, <1>12 DEF WizardInv

(* Whatever a tab does, or a restart. *)
LEMMA TabOK ==
  ASSUME WizardInv, NEW t \in Tabs, Form(t) \/ Handler(t)
  PROVE  WizardInv'
  <1> USE DEF WizardInv
  <1>1. Saved  BY DEF DoneInv
  <1>2. CASE post_system(t) \/ post_profile(t) \/ post_egress(t) \/ post_ssh(t) \/ post_drives(t)
    BY <1>2, FormsOK, OtherDone, OtherKey, PlainLoss, NoPollKeeps
  <1>3. CASE post_channels(t) \/ store_channels(t)
    BY <1>1, <1>3, ChannelsOK, OtherDone, OtherKey, PlainLoss, NoPollKeeps
  <1>4. CASE post_account_continue(t) \/ post_account_cancel(t) \/ post_account_begin(t)
    BY <1>1, <1>4, AccountFormsOK, OtherDone, OtherKey, PlainLoss, NoPollKeeps
  <1>5. CASE request_device_code(t)
    BY <1>1, <1>5, RequestCodeOK, OtherDone, OtherKey, PlainLoss, NoPollKeeps
  <1>6. CASE post_account_poll(t)
    BY <1>1, <1>6, PollFormOK, OtherDone, OtherKey, PlainLoss
  <1>7. CASE exchange_and_register(t)
    BY <1>1, <1>7, ExchangeOK, OtherDone, OtherKey, PlainLoss
  <1>8. CASE write_tunnel_token(t) \/ write_backup_token(t) \/ write_account_json(t) \/ write_api_base(t)
    BY <1>1, <1>8, WritesOK, OtherDone, OtherKey, PlainLoss
  <1>9. CASE poll_registered(t)
    BY <1>1, <1>9, RegisteredOK, OtherDone, OtherKey, PlainLoss
  <1>10. CASE post_provider(t)
    BY <1>10, ProviderFormOK, OtherDone, OtherKey, NoPollKeeps
  <1>11. CASE store_pending_secret(t)
    BY <1>11, StoreSecretOK, OtherDone, OtherKey, NoPollKeeps
  <1>12. CASE post_tailscale(t) \/ post_cloudflare_tunnel(t) \/ post_backup(t)
    BY <1>12, PutsOK, OtherDone, OtherKey, NoPollKeeps
  <1>13. CASE store_tailscale(t) \/ store_cloudflare_tunnel(t) \/ store_backup(t)
    BY <1>13, StoresOK, OtherDone, OtherKey, NoPollKeeps
  <1>14. CASE post_apply(t)  BY <1>14, ApplyFormOK
  <1>15. CASE apply(t)
    <2>1. CASE take_pending(t)  BY <2>1, TakeOK
    <2>2. CASE finish_apply(t)  BY <2>2, FinishOK
    <2>3. CASE \E n \in 1 .. 14 : TypeOK' /\ StageStep(t, n)
      BY <2>3, StageKey, StageDone, StageNoPoll, NoPollKeeps, StageLoss
    <2> QED  BY <1>15, <2>1, <2>2, <2>3, StagesOK DEF apply
  <1> QED
    BY <1>2, <1>3, <1>4, <1>5, <1>6, <1>7, <1>8, <1>9, <1>10, <1>11, <1>12, <1>13, <1>14,
       <1>15
    DEF Form, Handler

LEMMA WizardStep ==
  ASSUME WizardInv, [Next]_vars  PROVE WizardInv'
  <1>1. CASE restart  BY <1>1, RestartOK DEF WizardInv
  <1>2. CASE UNCHANGED vars
    <2>1. UNCHANGED <<state, file, pending, request, device, account, requests, faults, restarts,
                      lost, torn, met, unsaved>>
      BY <1>2 DEF vars, wizard, counters, history
    <2>2. TypeOK' /\ WorkInv' /\ KeyInv'
      BY <2>1 DEF WizardInv, TypeOK, WorkInv, KeyInv, Applying
    <2>3. DoneInv'  BY <2>1 DEF WizardInv, DoneInv, Saved, Applying, Alone
    <2>4. RegistrationInv'  BY <2>1 DEF WizardInv, RegistrationInv, Polling, Writing, Claims
    <2>5. LossInv'  BY <2>1 DEF WizardInv, LossInv, Applying, Excuses, InHand, Working
    <2> QED  BY <2>2, <2>3, <2>4, <2>5 DEF WizardInv
  <1> QED  BY <1>1, <1>2, TabOK DEF Next

(* The inductive invariant: what an apply past a stage has brought, what each *)
(* file of a registration under way holds, and where every secret is.         *)
THEOREM WizardInvariant == Spec => []WizardInv
  <1>1. Init => WizardInv  BY InitOK
  <1>2. WizardInv /\ [Next]_vars => WizardInv'  BY WizardStep
  <1> QED  BY <1>1, <1>2, PTL DEF Spec

(* Whatever the tabs post, fails or is cut short by a restart, no backup is   *)
(* ever configured on a device that has no recovery key: initialize_recovery_ *)
(* key is never passed over by an apply that comes to configure_backup.       *)
THEOREM KeyComesFirst == Spec => []RecoveryKeyFirst
  <1>1. WizardInv => RecoveryKeyFirst  BY DEF WizardInv, KeyInv, RecoveryKeyFirst
  <1> QED  BY <1>1, WizardInvariant, PTL

-----------------------------------------------------------------------------
(* What is enabled: the channels that an apply found, and those of its answers. *)
ChannelsInv ==
    "answers" \notin met =>
        /\ \A t \in Tabs : Applying(t) =>
               device.channels \in {enabled, enabled \cup Chosen(request[t].answers)}
        /\ ~unsaved /\ state.step = "done" =>
               device.channels \in {enabled, enabled \cup Chosen(state.answers)}

LEMMA OtherChannels ==
  ASSUME TypeOK, NEW t \in Tabs, DoneInv, ChannelsInv, Other(t), UNCHANGED enabled
  PROVE  ChannelsInv'
  <1>1. "answers" \in met' \/ \A u \in Tabs : ~Applying(u)  BY DEF Other, DoneInv, Alone
  <1>2. \A u \in Tabs : Applying(u)' => Applying(u)  BY DEF Other, Applying
  <1>3. state'.step = "done" => state.step = "done" /\ Chosen(state'.answers) = Chosen(state.answers)
    BY DEF Other, SameWork, Chosen
  <1>4. UNCHANGED device /\ met \subseteq met' /\ (unsaved => unsaved')  BY DEF Other
  <1> QED  BY <1>1, <1>2, <1>3, <1>4 DEF ChannelsInv

LEMMA StageChannels ==
  ASSUME TypeOK, NEW t \in Tabs, NEW n \in 1 .. 14, DoneInv, ChannelsInv, StageStep(t, n),
         UNCHANGED enabled
  PROVE  ChannelsInv'
  <1>1. SUFFICES ASSUME "answers" \notin met  PROVE ChannelsInv'
    BY DEF ChannelsInv, StageStep
  <1> DEFINE c == Chosen(request[t].answers)
  <1>2. Applying(t) /\ Alone(t) /\ request[t].answers = state.answers
    BY <1>1 DEF DoneInv, StageStep
  <1>3. device'.channels \in {device.channels, device.channels \cup c}  BY DEF StageStep, Grows
  <1>4. device.channels \in {enabled, enabled \cup c}  BY <1>1, <1>2 DEF ChannelsInv
  <1>5. \A u \in Tabs : Applying(u)' => u = t /\ request'[u].answers = request[u].answers
    BY <1>2, IdleIs DEF Alone, Applying, StageStep, Goes
  <1>6. device'.channels \in {enabled, enabled \cup c}
    <2> HIDE DEF c
    <2> QED  BY <1>3, <1>4
  <1>7. UNCHANGED state  BY DEF StageStep
  <1> QED  BY <1>2, <1>5, <1>6, <1>7 DEF ChannelsInv

LEMMA TakeChannels ==
  ASSUME TypeOK, WorkInv, NEW t \in Tabs, ChannelsInv, take_pending(t)
  PROVE  ChannelsInv'
  <1>1. PICK q : Takes1(t, q)  BY TakingOK
  <1>2. /\ Applying(t) /\ UNCHANGED <<state, device, met, unsaved>>
        /\ q \in ApplyType /\ q.answers = request[t].answers /\ Does(t, q)
    BY <1>1 DEF Takes1
  <1>3. UNCHANGED enabled  BY DEF take_pending, history
  <1>4. request'[t] = q /\ \A u \in Tabs \ {t} : request'[u] = request[u]
    BY <1>2, DoesOK DEF RequestType
  <1>5. \A u \in Tabs : Applying(u)' => Applying(u) /\ request'[u].answers = request[u].answers
    BY <1>2, <1>4 DEF Applying
  <1> QED  BY <1>2, <1>3, <1>5 DEF ChannelsInv

LEMMA FinishChannels ==
  ASSUME TypeOK, NEW t \in Tabs, DoneInv, ChannelsInv, finish_apply(t)
  PROVE  ChannelsInv'
  <1>1. /\ Applying(t) /\ Answered(t) /\ Answer(state.answers, "done")
        /\ UNCHANGED <<device, enabled, met>>
    BY DEF finish_apply, Applies, Applying
  <1>2. state'.answers = state.answers  BY <1>1 DEF Answer
  <1>3. request'[t] = Idle /\ \A u \in Tabs \ {t} : request'[u] = request[u]  BY <1>1, AnsweredOK
  <1>4. \A u \in Tabs : Applying(u)' => Applying(u) /\ request'[u] = request[u]
    BY <1>3, IdleIs DEF Applying
  <1>5. "answers" \notin met => request[t].answers = state.answers  BY <1>1 DEF DoneInv
  <1> QED  BY <1>1, <1>2, <1>4, <1>5 DEF ChannelsInv

LEMMA RestartChannels ==
  ASSUME TypeOK, DoneInv, ChannelsInv, restart
  PROVE  ChannelsInv'
  <1>1. /\ request' = [t \in Tabs |-> Idle] /\ state' = IF file = None THEN Default ELSE file
        /\ UNCHANGED <<device, enabled, met, unsaved>>
    BY DEF restart
  <1>2. \A t \in Tabs : ~Applying(t)'  BY <1>1, IdleIs DEF Applying
  <1>3. ~unsaved => state' = state  BY <1>1, NamesAssumption DEF DoneInv, Saved, TypeOK
  <1> QED  BY <1>1, <1>2, <1>3 DEF ChannelsInv

LEMMA FormEnabled ==
  ASSUME NEW t \in Tabs, Form(t), ~post_apply(t)
  PROVE  UNCHANGED enabled
  <1>1. CASE post_system(t) \/ post_profile(t) \/ post_egress(t) \/ post_ssh(t) \/ post_drives(t)
    BY <1>1 DEF post_system, post_profile, post_egress, post_ssh, post_drives, Post
  <1>2. CASE post_provider(t) \/ post_channels(t)
    BY <1>2 DEF post_provider, post_channels, Submit
  <1>3. CASE post_tailscale(t) \/ post_cloudflare_tunnel(t) \/ post_backup(t)
    BY <1>3 DEF post_tailscale, post_cloudflare_tunnel, post_backup, Put, Submit
  <1>4. CASE post_account_continue(t) \/ post_account_cancel(t) \/ post_account_begin(t)
             \/ post_account_poll(t)
    BY <1>4 DEF post_account_continue, post_account_cancel, post_account_begin,
                post_account_poll, Account
  <1> QED  BY <1>1, <1>2, <1>3, <1>4 DEF Form

LEMMA StageEnabled ==
  ASSUME NEW t \in Tabs, apply(t)
  PROVE  UNCHANGED enabled
  <1>1. ASSUME NEW s, NEW d, NEW secret, Stage(t, s, d) \/ BestEffort(t, s, d, secret)
        PROVE  UNCHANGED enabled
    BY <1>1 DEF Stage, BestEffort
  <1>2. CASE take_pending(t) \/ cloudflared_exits(t)
    BY <1>2 DEF take_pending, cloudflared_exits, history
  <1>3. CASE append_provider_key(t) \/ append_tailscale_key(t)
    BY <1>3 DEF append_provider_key, append_tailscale_key, ReadSecrets, WriteSecrets, history
  <1>4. CASE finish_apply(t)  BY <1>4 DEF finish_apply
  <1>5. CASE write_hostname(t)  BY <1>5 DEF write_hostname, Stage
  <1>6. CASE write_active_profile(t)  BY <1>6 DEF write_active_profile, Stage
  <1>7. CASE enable_channels(t)  BY <1>7 DEF enable_channels, Stage
  <1>8. CASE write_authorized_keys(t)  BY <1>8 DEF write_authorized_keys, Stage
  <1>9. CASE start_unit(t)  BY <1>9 DEF start_unit, Stage
  <1>10. CASE write_credentials(t)  BY <1>10 DEF write_credentials, Stage
  <1>11. CASE initialize_recovery_key(t)  BY <1>11 DEF initialize_recovery_key, Stage
  <1>12. CASE configure_backup(t)  BY <1>12 DEF configure_backup, Stage, BestEffort
  <1>13. CASE apply_egress(t)  BY <1>13 DEF apply_egress, BestEffort
  <1> QED
    BY <1>2, <1>3, <1>4, <1>5, <1>6, <1>7, <1>8, <1>9, <1>10, <1>11, <1>12, <1>13 DEF apply

LEMMA HandlerEnabled ==
  ASSUME NEW t \in Tabs, Handler(t)
  PROVE  UNCHANGED enabled
  <1>1. CASE store_pending_secret(t) \/ store_channels(t) \/ store_tailscale(t)
             \/ store_cloudflare_tunnel(t) \/ store_backup(t)
    BY <1>1 DEF store_pending_secret, store_channels, store_tailscale, store_cloudflare_tunnel,
                store_backup, Store
  <1>2. CASE request_device_code(t) \/ exchange_and_register(t) \/ poll_registered(t)
    BY <1>2 DEF request_device_code, exchange_and_register, poll_registered, history
  <1>3. CASE write_tunnel_token(t) \/ write_backup_token(t) \/ write_account_json(t) \/ write_api_base(t)
    BY <1>3 DEF write_tunnel_token, write_backup_token, write_account_json, write_api_base, WriteToken
  <1> QED  BY <1>1, <1>2, <1>3, StageEnabled DEF Handler

LEMMA TabChannels ==
  ASSUME WizardInv, ChannelsInv, NEW t \in Tabs, Form(t) \/ Handler(t)
  PROVE  ChannelsInv'
  <1> USE DEF WizardInv
  <1>1. Saved  BY DEF DoneInv
  <1>2. CASE post_apply(t)
    <2>1. UNCHANGED device /\ enabled' = device.channels  BY <1>2 DEF post_apply
    <2> QED  BY <2>1 DEF ChannelsInv
  <1>3. CASE ~post_apply(t) /\ ~apply(t)
    <2>1. Other(t)
      BY <1>1, <1>3, FormsOK, ChannelsOK, AccountFormsOK, RequestCodeOK, PollFormOK, ExchangeOK,
         WritesOK, RegisteredOK, ProviderFormOK, StoreSecretOK, PutsOK, StoresOK
      DEF Form, Handler
    <2> QED  BY <1>3, <2>1, OtherChannels, FormEnabled, HandlerEnabled
  <1>4. CASE apply(t)
    <2>1. UNCHANGED enabled  BY <1>4, StageEnabled
    <2>2. CASE take_pending(t)  BY <2>2, TakeChannels
    <2>3. CASE finish_apply(t)  BY <2>3, FinishChannels
    <2>4. CASE \E n \in 1 .. 14 : StageStep(t, n)  BY <2>1, <2>4, StageChannels
    <2> QED  BY <1>4, <2>2, <2>3, <2>4, StagesOK DEF apply
  <1> QED  BY <1>2, <1>3, <1>4

LEMMA ChannelsHold == Spec => []ChannelsInv
  <1>1. Init => ChannelsInv
    <2>1. Fresh.channels = {}  BY DEF Fresh
    <2>2. Init => device.channels = enabled  BY <2>1 DEF Init
    <2> QED  BY <2>2 DEF ChannelsInv
  <1>2. WizardInv /\ ChannelsInv /\ [Next]_vars => ChannelsInv'
    <2> SUFFICES ASSUME WizardInv, ChannelsInv, [Next]_vars  PROVE ChannelsInv'  OBVIOUS
    <2>1. CASE restart  BY <2>1, RestartChannels DEF WizardInv
    <2>2. CASE UNCHANGED vars
      <3>1. UNCHANGED <<state, request, device, enabled, met, unsaved>>
        BY <2>2 DEF vars, wizard, history
      <3> QED  BY <3>1 DEF ChannelsInv, Applying
    <2> QED  BY <2>1, <2>2, TabChannels DEF Next
  <1> QED  BY <1>1, <1>2, WizardInvariant, PTL DEF Spec

(* "done" in the state file means that all the stages of an apply of exactly  *)
(* these answers have succeeded, also for a wizard that was started again,    *)
(* and that no channel is enabled but the answers' and those that were when   *)
(* that apply came.                                                           *)
THEOREM DoneIsTrue == Spec => []DoneMeansApplied
  <1>1. ASSUME WizardInv, ChannelsInv  PROVE DoneMeansApplied
    <2> DEFINE a == state.answers
    <2>1. SUFFICES ASSUME state.step = "done", "answers" \notin met, ~unsaved
                   PROVE  /\ a.hostname \in {None, device.hostname} /\ a.ssh \in {{}, device.ssh}
                          /\ a.profile # None =>
                                /\ device.profile = a.profile /\ device.units[a.profile] # None
                                /\ device.channels = enabled \cup ({a.profile} \X a.channels)
      BY DEF DoneMeansApplied
    <2>2. \A n \in 1 .. 14 : Brings(n, a, device)  BY <1>1, <2>1 DEF WizardInv, DoneInv
    <2>3. Brings(1, a, device) /\ Brings(2, a, device) /\ Brings(5, a, device)
          /\ Brings(6, a, device) /\ Brings(7, a, device)
      BY <2>2
    <2>4. ASSUME a.profile # None  PROVE device.channels = enabled \cup ({a.profile} \X a.channels)
      <3> DEFINE c == {a.profile} \X a.channels
      <3>1. device.channels \in {enabled, enabled \cup c} /\ c \subseteq device.channels
        BY <1>1, <2>1, <2>3, <2>4 DEF ChannelsInv, Chosen, Brings
      <3> HIDE DEF c
      <3>2. device.channels = enabled \cup c  BY <3>1
      <3> QED  BY <3>2 DEF c
    <2> QED  BY <2>3, <2>4 DEF Brings
  <1> QED  BY <1>1, WizardInvariant, ChannelsHold, PTL

(* The three files of a registration name the same one, and api-base its      *)
(* backend, for any number of tabs, answers, failures and restarts.           *)
THEOREM RegistrationsAreWhole == Spec => []OneRegistration
  <1>1. ASSUME WizardInv  PROVE OneRegistration
    <2>1. (state.answers.registered /\ ~torn /\ ~Working("poll") /\ "poll" \notin met) => Consistent(account)
      BY <1>1 DEF WizardInv, RegistrationInv, Claims, Writing, Polling, Working
    <2> QED  BY <2>1 DEF OneRegistration, Consistent
  <1> QED  BY <1>1, WizardInvariant, PTL

(* Every secret that the answers stand for is pending, in an apply's hands,   *)
(* on the device or known to be lost, for any number of tabs.                 *)
THEOREM EveryLossHasACause == Spec => []LossHasACause
  <1>1. ASSUME WizardInv  PROVE LossHasACause
    <2>1. SUFFICES ASSUME NEW s \in Claimed(state.answers)
                   PROVE  \/ s \in OnDevice(device) \cup lost \cup Held(pending)
                          \/ \E t \in Tabs : request[t].kind = "apply" /\ s \in Held(request[t].taken)
                          \/ Working(Asks(s))
                          \/ met \cap {"apply", "answers", Asks(s)} # {}
      BY DEF LossHasACause
    <2>2. Excuses(s) \/ Working(Asks(s)) \/ InHand(s)  BY <1>1, <2>1 DEF WizardInv, LossInv
    <2> QED  BY <2>2 DEF Excuses, InHand, Applying
  <1> QED  BY <1>1, WizardInvariant, PTL
=============================================================================
