------------------------------- MODULE Wizard -------------------------------
(***************************************************************************)
(* The first-boot setup wizard (deputywizard): one HTTP process, its state *)
(* file, the secrets it keeps in memory only, and what apply leaves on the *)
(* device.  The owner works in several tabs at once, and each tab has one  *)
(* request in flight.  A handler that takes one lock is one step; one that *)
(* takes several, or waits for the network or for a command, is one step   *)
(* for each, with the other tabs' requests in between.  No handler looks   *)
(* at the current step, so every form may be posted at any time.           *)
(* The account API, systemd, tailscale and cloudflared are external.  A    *)
(* page that only reads, and a form that is refused, change nothing and    *)
(* are not steps.                                                          *)
(***************************************************************************)
EXTENDS Integers, Sequences, TLC

CONSTANTS
    Tabs,               \* the owner's browser tabs
    Hostnames, SshKeys, \* what the owner may type
    Profiles,           \* the installed profiles
    ChannelProfiles,    \* those whose manifest supports the Channels
    Channels,           \* every channel
    DisabledByRam,      \* the channels that limits.json switches off
    CloudProviders,     \* providers.json
    LocalModels,        \* the airgap catalog; empty unless the build is airgapped
    EgressModes, TunnelChoices, BackupKinds,
    Bases, DefaultBase, \* API base URLs; DefaultBase is the compiled-in one
    MaxRequests,        \* bound: forms posted
    MaxFaults,          \* bound: failed writes, commands and answers
    MaxRestarts,        \* bound: restarts of the wizard
    None

ASSUME WizardAssumption ==
    /\ ChannelProfiles \subseteq Profiles /\ DisabledByRam \subseteq Channels
    /\ EgressModes \subseteq {"open", "whitelist", "airgap"}
    /\ TunnelChoices \subseteq {"skip", "quick", "integrated", "named"}
    /\ BackupKinds \subseteq {"skip", "managed", "b2", "r2", "s3"}
    /\ DefaultBase \in Bases /\ CloudProviders \cap LocalModels = {}
    /\ MaxRequests \in Nat /\ MaxFaults \in Nat /\ MaxRestarts \in Nat

VARIABLES
    state,      \* AppState.state: the current step and the answers
    file,       \* the state file, None before the first save
    pending,    \* the pending_* mutexes: credentials in memory only
    request,    \* what each tab has in flight
    device,     \* what apply has written and started
    account,    \* tunnel-token, backup-token, account.json and api-base
    requests, faults, restarts,     \* counters of the bounds
    lost,       \* history: secrets that an error page, a restart or a failing read
                \* of secrets.env has cost the owner
    enabled,    \* history: the channels that were enabled when the last apply came
    torn,       \* history: a registration stopped half-way, and none succeeded since
    met,        \* history: the kinds of request that were in flight at once
    unsaved     \* history: a save of the state file has failed

wizard == <<state, file, pending>>
counters == <<requests, faults, restarts>>
history == <<lost, enabled, torn, met, unsaved>>
vars == <<wizard, request, device, account, counters, history>>

Tailscale == "TAILSCALE_AUTHKEY"
Credentials == "credentials.json"
(* What a tab submits and no file of the wizard's keeps. *)
Secrets == CloudProviders \cup {Tailscale, Credentials, "backup"}
(* A registration at the account API: the request that made it, and where. *)
Registrations == [n : 0 .. MaxRequests, base : Bases]

Answers ==
    [hostname : Hostnames \cup {None}, profile : Profiles \cup {None},
     provider : CloudProviders \cup LocalModels \cup {None}, channels : SUBSET Channels,
     egress : EgressModes \cup {None}, ssh : SUBSET SshKeys, tailscale : BOOLEAN,
     tunnel : TunnelChoices \cup {None}, backup : BackupKinds \cup {None},
     drives : BOOLEAN, registered : BOOLEAN, base : Bases \cup {None}]

Steps == {"system", "profile", "provider", "channels", "egress", "ssh", "tailscale",
          "account", "cloudflare-tunnel", "backup", "drives", "review", "done"}
WizardStates == [step : Steps, answers : Answers]
Default ==
    [step |-> "system",
     answers |-> [hostname |-> None, profile |-> None, provider |-> None, channels |-> {},
                  egress |-> None, ssh |-> {}, tailscale |-> FALSE, tunnel |-> None,
                  backup |-> None, drives |-> FALSE, registered |-> FALSE, base |-> None]]

Forgotten == [secret |-> None, tailscale |-> FALSE, cloudflared |-> FALSE, backup |-> None,
              code |-> None]
Idle == [kind |-> "none"]
Kinds == {"provider", "channels", "tailscale", "cloudflare-tunnel", "backup", "begin",
          "poll", "apply"}

(* The order of post_apply and apply: the four secrets are taken, then written. *)
Takes == <<"secret", "tailscale", "cloudflared", "backup">>
Stages == <<"hostname", "profile", "provider_key", "provider_key_write", "channels", "ssh",
            "unit", "tailscale_key", "tailscale_key_write", "credentials", "cloudflared_run",
            "recovery_key", "backup_config", "egress", "finish">>

(* What the environment calls a secret is the name of no provider, and None no value of its. *)
ASSUME NamesAssumption ==
    /\ (CloudProviders \cup LocalModels) \cap {Tailscale, Credentials, "backup"} = {}
    /\ None \notin CloudProviders /\ None \notin BackupKinds /\ None # "named"
    /\ None \notin WizardStates /\ None \notin Registrations /\ \A S \in SUBSET Secrets : S # None

Fresh ==
    [hostname |-> None, profile |-> None, secrets |-> {}, channels |-> {}, ssh |-> {},
     units |-> [p \in Profiles |-> None], key |-> FALSE, backup |-> None, egress |-> None]

Unregistered == [tunnel |-> None, backup |-> None, owner |-> None, base |-> None]
RegisteredAt(b) ==
    LET r == [n |-> 0, base |-> b] IN
    [tunnel |-> r, backup |-> r, owner |-> r, base |-> IF b = DefaultBase THEN None ELSE b]

(* A device at its first boot, or one that was restarted after the owner had *)
(* answered the questions that carry no secret, and may have registered it.  *)
Init ==
    /\ \/ state = Default /\ file = None /\ account = Unregistered
       \/ \E h \in Hostnames, p \in Profiles, k \in SshKeys, b \in Bases \cup {None},
             c \in SUBSET (Channels \ DisabledByRam) :
             /\ p \in ChannelProfiles \/ c = {}
             /\ state = [step |-> "review",
                         answers |-> [Default.answers EXCEPT
                                          !.hostname = h, !.profile = p, !.channels = c, !.ssh = {k},
                                          !.drives = TRUE, !.base = b,
                                          !.registered = (b # None)]]
             /\ file = state
             /\ account = IF b = None THEN Unregistered ELSE RegisteredAt(b)
    /\ pending = Forgotten /\ request = [t \in Tabs |-> Idle]
    /\ device = Fresh
    /\ requests = 0 /\ faults = 0 /\ restarts = 0
    /\ lost = {} /\ enabled = {} /\ torn = FALSE /\ met = {} /\ unsaved = FALSE

-----------------------------------------------------------------------------
(* Requests, saves and what they race with. *)

InFlight(t) == {request[u].kind : u \in Tabs \ {t}} \ {"none"}
Arrives(t, kind) ==
    /\ request[t] = Idle /\ requests < MaxRequests /\ requests' = requests + 1
    /\ met' = met \cup ({kind} \cap InFlight(t))
                  \cup (IF InFlight(t) # {} /\ "apply" \in InFlight(t) \cup {kind}
                        THEN {"answers"} ELSE {})
Does(t, r) == request' = [request EXCEPT ![t] = r]
Answered(t) == Does(t, Idle)

(* `let _ = state::save(..)`: a failed save is not noticed. *)
save ==
    \/ file' = state' /\ UNCHANGED <<faults, unsaved>>
    \/ /\ faults < MaxFaults /\ faults' = faults + 1
       /\ file' = file /\ unsaved' = TRUE
Answer(answers, next) ==
    /\ state' = [step |-> next, answers |-> answers] /\ save

(* A form that one lock region handles. *)
Post(t, kind, answers, next) ==
    /\ Arrives(t, kind) /\ Answer(answers, next)
    /\ UNCHANGED <<pending, request, device, account, restarts, lost, enabled, torn>>

post_system(t) ==
    \E h \in Hostnames : Post(t, "system", [state.answers EXCEPT !.hostname = h], "profile")
post_profile(t) ==
    \E p \in Profiles : Post(t, "profile", [state.answers EXCEPT !.profile = p], "provider")
post_egress(t) ==
    \E m \in EgressModes : Post(t, "egress", [state.answers EXCEPT !.egress = m], "ssh")
post_ssh(t) ==
    \E keys \in SUBSET SshKeys \ {{}} :
        Post(t, "ssh", [state.answers EXCEPT !.ssh = keys], "tailscale")
post_drives(t) == Post(t, "drives", [state.answers EXCEPT !.drives = TRUE], "review")

(* The other forms come in two parts: what is read or put aside first, and   *)
(* the answer, or the secret, that is stored under the next lock.            *)
Submit(t, kind, form) ==
    /\ Arrives(t, kind) /\ Does(t, [kind |-> kind, form |-> form])
    /\ UNCHANGED <<device, account, restarts, enabled, torn>>
Store(t, kind, answers, next) ==
    /\ request[t].kind = kind /\ Answered(t)
    /\ Answer(answers, next)
    /\ UNCHANGED <<pending, device, account, requests, restarts, lost, enabled, torn, met>>

(* The answer first; then the key becomes pending, or for a local model that *)
(* needs none, nothing is.                                                   *)
provider_choices == CloudProviders \cup LocalModels
post_provider(t) ==
    \E p \in provider_choices :
        /\ Submit(t, "provider", p)
        /\ Answer([state.answers EXCEPT !.provider = p], "channels")
        /\ UNCHANGED <<pending, lost>>
(* Mutant of store_pending_secret: cleared for every provider. *)
store_pending_secretNever(t) ==
    /\ request[t].kind = "provider" /\ Answered(t)
    /\ pending' = [pending EXCEPT !.secret = None] /\ lost' = lost \ {request[t].form}
    /\ UNCHANGED <<state, file, device, account, counters, enabled, torn, met, unsaved>>
store_pending_secret(t) ==
    /\ request[t].kind = "provider" /\ Answered(t)
    /\ LET p == request[t].form IN
       /\ pending' = [pending EXCEPT !.secret = IF p \in CloudProviders THEN p ELSE None]
       /\ lost' = lost \ {p}
    /\ UNCHANGED <<state, file, device, account, counters, enabled, torn, met, unsaved>>

(* The channels of the profile that was current when the form arrived. *)
channel_lists ==
    IF state.answers.profile \in ChannelProfiles THEN Channels \ DisabledByRam ELSE {}
post_channels(t) ==
    \E c \in SUBSET channel_lists :
        /\ Submit(t, "channels", c)
        /\ UNCHANGED <<wizard, faults, lost, unsaved>>
store_channels(t) ==
    Store(t, "channels", [state.answers EXCEPT !.channels = request[t].form], "egress")

Put(t, kind, form, p, secret) ==
    /\ Submit(t, kind, form) /\ pending' = p
    /\ lost' = lost \ secret
    /\ UNCHANGED <<state, file, faults, unsaved>>
post_tailscale(t) ==
    \E enable \in BOOLEAN :
        Put(t, "tailscale", enable, [pending EXCEPT !.tailscale = enable], {Tailscale})
store_tailscale(t) ==
    Store(t, "tailscale", [state.answers EXCEPT !.tailscale = request[t].form], "account")
post_cloudflare_tunnel(t) ==
    \E choice \in TunnelChoices :
        Put(t, "cloudflare-tunnel", choice,
            [pending EXCEPT !.cloudflared = (choice = "named")], {Credentials})
store_cloudflare_tunnel(t) ==
    Store(t, "cloudflare-tunnel", [state.answers EXCEPT !.tunnel = request[t].form], "backup")
post_backup(t) ==
    \E kind \in BackupKinds :
        Put(t, "backup", kind,
            [pending EXCEPT !.backup = IF kind = "skip" THEN None ELSE kind], {"backup"})
store_backup(t) ==
    Store(t, "backup", [state.answers EXCEPT !.backup = request[t].form], "drives")

-----------------------------------------------------------------------------
(* The account step.  A base entered with any action is remembered at once;  *)
(* a device code is known by the base that has issued it.                    *)

account_api_base(answers) == IF answers.base = None THEN DefaultBase ELSE answers.base
remember_api_base(b) ==
    IF b = None THEN UNCHANGED <<state, file, faults, unsaved>>
    ELSE Answer([state.answers EXCEPT !.base = b], state.step)
Account(t, kind, b) ==
    /\ Arrives(t, kind) /\ remember_api_base(b)
    /\ UNCHANGED <<device, account, restarts, lost, enabled, torn>>
ForgetCode == pending' = [pending EXCEPT !.code = None]

post_account_continue(t) ==
    \E b \in Bases \cup {None} :
        /\ Arrives(t, "account") /\ ForgetCode
        /\ Answer(IF b = None THEN state.answers ELSE [state.answers EXCEPT !.base = b],
                  "cloudflare-tunnel")
        /\ UNCHANGED <<request, device, account, restarts, lost, enabled, torn>>
post_account_cancel(t) ==
    \E b \in Bases \cup {None} :
        Account(t, "account", b) /\ ForgetCode /\ UNCHANGED request
post_account_begin(t) ==
    \E b \in Bases \cup {None} :
        /\ Account(t, "begin", b) /\ ForgetCode
        /\ Does(t, [kind |-> "begin", base |-> account_api_base(state'.answers)])
request_device_code(t) ==
    /\ request[t].kind = "begin" /\ Answered(t)
    /\ \/ pending' = [pending EXCEPT !.code = request[t].base]
       \/ UNCHANGED pending
    /\ UNCHANGED <<state, file, device, account, counters, history>>

(* Nothing happens without a code; an expired one is forgotten.  The base is *)
(* the one of this moment, whatever the code was asked of.                   *)
post_account_poll(t) ==
    /\ pending.code # None
    /\ \E b \in Bases \cup {None} :
        /\ Account(t, "poll", b)
        /\ \/ ForgetCode /\ UNCHANGED request
           \/ /\ UNCHANGED pending
              /\ Does(t, [kind |-> "poll", at |-> "exchange", code |-> pending.code,
                          reg |-> [n |-> requests', base |-> account_api_base(state'.answers)]])

Polls(t, at) == request[t].kind = "poll" /\ request[t].at = at
PollStep(t, at) == Does(t, [request[t] EXCEPT !.at = at])
(* Still pending, refused or unreachable; or exchanged and registered, for   *)
(* which the code has to be one of that API's.                               *)
exchange_and_register(t) ==
    /\ Polls(t, "exchange")
    /\ \/ Answered(t)
       \/ request[t].code = request[t].reg.base /\ PollStep(t, "tunnel")
    /\ UNCHANGED <<wizard, device, account, counters, history>>
(* One file after the other; a write that fails ends the registration. *)
WriteToken(t, at, a, next, started) ==
    /\ Polls(t, at)
    /\ \/ account' = a /\ PollStep(t, next) /\ UNCHANGED <<faults, torn>>
       \/ /\ faults < MaxFaults /\ faults' = faults + 1
          /\ UNCHANGED account /\ Answered(t) /\ torn' = (torn \/ started)
    /\ UNCHANGED <<wizard, device, requests, restarts, lost, enabled, met, unsaved>>
write_tunnel_token(t) ==
    WriteToken(t, "tunnel", [account EXCEPT !.tunnel = request[t].reg], "backup", FALSE)
write_backup_token(t) ==
    WriteToken(t, "backup", [account EXCEPT !.backup = request[t].reg], "owner", TRUE)
write_account_json(t) ==
    WriteToken(t, "owner", [account EXCEPT !.owner = request[t].reg], "base", TRUE)
(* Mutant of write_api_base: the chosen backend is never written. *)
write_api_baseNever(t) == WriteToken(t, "base", account, "registered", TRUE)
(* api-base is written for another base than the compiled-in one only. *)
write_api_base(t) ==
    WriteToken(t, "base",
               IF request[t].reg.base = DefaultBase THEN account
               ELSE [account EXCEPT !.base = request[t].reg.base], "registered", TRUE)
poll_registered(t) ==
    /\ Polls(t, "registered") /\ Answered(t) /\ ForgetCode
    /\ Answer([state.answers EXCEPT !.registered = TRUE], "cloudflare-tunnel")
    /\ torn' = FALSE
    /\ UNCHANGED <<device, account, requests, restarts, lost, enabled, met>>

-----------------------------------------------------------------------------
(* Review and apply: answers and secrets are taken one lock at a time, then  *)
(* written in stages.  A stage that has nothing to do is passed over.        *)

OnDevice(d) == d.secrets \cup (IF d.backup = None THEN {} ELSE {"backup"})
(* What a set of pending values, or of taken ones, holds. *)
Held(p) ==
    ({p.secret} \ {None}) \cup (IF p.tailscale THEN {Tailscale} ELSE {})
        \cup (IF p.cloudflared THEN {Credentials} ELSE {})
        \cup (IF p.backup = None THEN {} ELSE {"backup"})
Applies(t, at) == request[t].kind = "apply" /\ request[t].at = at

HasKey(r) == r.taken.secret # None /\ r.taken.secret = r.answers.provider
(* Mutant of NeedsRecoveryKey: for registered devices only. *)
NeedsKeyRegistered(r) == r.answers.registered
NeedsRecoveryKey(r) == r.answers.registered \/ r.taken.backup # None
HasWork(r, s) ==
    [hostname |-> r.answers.hostname # None,
     profile |-> r.answers.profile # None,
     provider_key |-> HasKey(r), provider_key_write |-> HasKey(r),
     channels |-> r.answers.profile # None /\ r.answers.channels # {},
     ssh |-> r.answers.ssh # {},
     unit |-> r.answers.profile # None,
     tailscale_key |-> r.taken.tailscale, tailscale_key_write |-> r.taken.tailscale,
     credentials |-> r.taken.cloudflared, cloudflared_run |-> r.taken.cloudflared,
     recovery_key |-> NeedsRecoveryKey(r),
     backup_config |-> r.taken.backup # None,
     egress |-> r.answers.egress \notin {None, "open"},
     finish |-> TRUE][s]
NextStage(r, i) ==
    Stages[CHOOSE j \in i .. Len(Stages) :
               /\ HasWork(r, Stages[j])
               /\ \A k \in i .. j - 1 : ~HasWork(r, Stages[k])]

post_apply(t) ==
    /\ Arrives(t, "apply")
    /\ Does(t, [kind |-> "apply", at |-> "secret", answers |-> state.answers,
                taken |-> Forgotten, read |-> {}])
    /\ enabled' = device.channels
    /\ UNCHANGED <<wizard, device, account, faults, restarts, lost, torn, unsaved>>
take_pending(t) ==
    \E i \in DOMAIN Takes :
        LET f == Takes[i]
            r == [request[t] EXCEPT !.taken = [@ EXCEPT ![f] = pending[f]]] IN
        /\ Applies(t, f)
        /\ pending' = [pending EXCEPT ![f] = Forgotten[f]]
        /\ Does(t, [r EXCEPT !.at = IF i < Len(Takes) THEN Takes[i + 1] ELSE NextStage(r, 1)])
        /\ UNCHANGED <<state, file, device, account, counters, history>>

Advances(t, r) ==
    Does(t, [r EXCEPT !.at = NextStage(r, 1 + CHOOSE i \in DOMAIN Stages : Stages[i] = r.at)])
(* What a write of secrets.env drops that could not be read. *)
Wiped(t) == IF request[t].read = None THEN device.secrets \ device'.secrets ELSE {}
(* `?`: the error page, after the stage has had its effect or before.  What  *)
(* apply had taken is dropped.                                               *)
FailsWith(t, d) ==
    /\ faults < MaxFaults /\ faults' = faults + 1
    /\ device' \in {device, d} /\ Answered(t)
    /\ lost' = lost \cup Wiped(t) \cup (Held(request[t].taken) \ OnDevice(device'))
Stage(t, s, d) ==
    /\ Applies(t, s)
    /\ \/ device' = d /\ Advances(t, request[t]) /\ UNCHANGED <<faults, lost>>
       \/ FailsWith(t, d)
    /\ UNCHANGED <<wizard, account, requests, restarts, enabled, torn, met, unsaved>>
(* `let _ =`: a failure is passed over. *)
BestEffort(t, s, d, secret) ==
    /\ Applies(t, s) /\ Advances(t, request[t])
    /\ \/ device' = d /\ UNCHANGED <<faults, lost>>
       \/ /\ faults < MaxFaults /\ faults' = faults + 1 /\ UNCHANGED device
          /\ lost' = lost \cup secret
    /\ UNCHANGED <<wizard, account, requests, restarts, enabled, torn, met, unsaved>>

write_hostname(t) ==
    Stage(t, "hostname", [device EXCEPT !.hostname = request[t].answers.hostname])
write_active_profile(t) ==
    Stage(t, "profile", [device EXCEPT !.profile = request[t].answers.profile])
(* append_secret: secrets.env is read, and written with one line more.  A read *)
(* that fails counts as an empty file: what was there is gone with the write.  *)
InEnv(d) == d.secrets \ {Credentials}
ReadSecrets(t, s) ==
    /\ Applies(t, s)
    /\ \/ Advances(t, [request[t] EXCEPT !.read = InEnv(device)]) /\ UNCHANGED faults
       \/ /\ faults < MaxFaults /\ faults' = faults + 1
          /\ Advances(t, [request[t] EXCEPT !.read = None])
    /\ UNCHANGED <<wizard, device, account, requests, restarts, history>>
Rewritten(d, read, key) ==
    [d EXCEPT !.secrets = (@ \cap {Credentials}) \cup {key}
                              \cup (IF read = None THEN {} ELSE read)]
WriteSecrets(t, s, key) ==
    LET d == Rewritten(device, request[t].read, key) IN
    /\ Applies(t, s)
    /\ \/ device' = d /\ Advances(t, request[t])
          /\ lost' = lost \cup Wiped(t) /\ UNCHANGED faults
       \/ FailsWith(t, d)
    /\ UNCHANGED <<wizard, account, requests, restarts, enabled, torn, met, unsaved>>
append_provider_key(t) ==
    ReadSecrets(t, "provider_key") \/ WriteSecrets(t, "provider_key_write", request[t].answers.provider)
append_tailscale_key(t) ==
    ReadSecrets(t, "tailscale_key") \/ WriteSecrets(t, "tailscale_key_write", Tailscale)
(* A channel that is no longer chosen stays enabled. *)
enable_channels(t) ==
    Stage(t, "channels", [device EXCEPT !.channels =
              @ \cup ({request[t].answers.profile} \X request[t].answers.channels)])
write_authorized_keys(t) ==
    Stage(t, "ssh", [device EXCEPT !.ssh = request[t].answers.ssh])
(* Mutant of start_unit: a unit that does not start is passed over. *)
start_unitAnyway(t) ==
    BestEffort(t, "unit", [device EXCEPT !.units[request[t].answers.profile] =
                   IF @ = None THEN device.secrets ELSE @], {})
(* ufw allow, then systemctl start: a unit that runs keeps its environment. *)
start_unit(t) ==
    Stage(t, "unit", [device EXCEPT !.units[request[t].answers.profile] =
              IF @ = None THEN device.secrets ELSE @])
write_credentials(t) ==
    Stage(t, "credentials", [device EXCEPT !.secrets = @ \cup {Credentials}])
(* `cloudflared tunnel run` stays in the foreground: this ends when it ends. *)
cloudflared_exits(t) ==
    /\ Applies(t, "cloudflared_run") /\ Advances(t, request[t])
    /\ UNCHANGED <<wizard, device, account, counters, history>>
initialize_recovery_key(t) ==
    Stage(t, "recovery_key", [device EXCEPT !.key = TRUE])
(* A destination of the owner's is written; the managed one is scheduled only. *)
configure_backup(t) ==
    LET d == [device EXCEPT !.backup = request[t].taken.backup] IN
    IF request[t].kind = "apply" /\ request[t].taken.backup = "managed"
    THEN BestEffort(t, "backup_config", d, {"backup"})
    ELSE Stage(t, "backup_config", d)
apply_egress(t) ==
    BestEffort(t, "egress", [device EXCEPT !.egress = request[t].answers.egress], {})
finish_apply(t) ==
    /\ Applies(t, "finish") /\ Answered(t)
    /\ Answer(state.answers, "done")
    /\ UNCHANGED <<pending, device, account, requests, restarts, lost, enabled, torn, met>>

apply(t) ==
    \/ take_pending(t) \/ write_hostname(t) \/ write_active_profile(t)
    \/ append_provider_key(t) \/ enable_channels(t) \/ write_authorized_keys(t)
    \/ start_unit(t) \/ append_tailscale_key(t) \/ write_credentials(t)
    \/ cloudflared_exits(t) \/ initialize_recovery_key(t) \/ configure_backup(t)
    \/ apply_egress(t) \/ finish_apply(t)

-----------------------------------------------------------------------------
(* What the owner has answered that needs a secret. *)
Claimed(answers) ==
    ({answers.provider} \cap CloudProviders)
        \cup (IF answers.tailscale THEN {Tailscale} ELSE {})
        \cup (IF answers.tunnel = "named" THEN {Credentials} ELSE {})
        \cup (IF answers.backup \in {None, "skip"} THEN {} ELSE {"backup"})

(* The process ends, whatever was in flight, and serve starts it again. *)
restart ==
    /\ restarts < MaxRestarts /\ restarts' = restarts + 1
    /\ state' = IF file = None THEN Default ELSE file
    /\ pending' = Forgotten /\ request' = [t \in Tabs |-> Idle]
    /\ lost' = (lost \cup Claimed(state'.answers)) \ OnDevice(device)
    /\ torn' = (torn \/ \E t \in Tabs : request[t].kind = "poll"
                                     /\ request[t].at \notin {"exchange", "tunnel"})
    /\ UNCHANGED <<file, device, account, requests, faults, enabled, met, unsaved>>

Form(t) ==
    \/ post_system(t) \/ post_profile(t) \/ post_provider(t) \/ post_channels(t)
    \/ post_egress(t) \/ post_ssh(t) \/ post_tailscale(t) \/ post_cloudflare_tunnel(t)
    \/ post_backup(t) \/ post_drives(t) \/ post_apply(t)
    \/ post_account_continue(t) \/ post_account_cancel(t)
    \/ post_account_begin(t) \/ post_account_poll(t)
Handler(t) ==
    \/ store_pending_secret(t) \/ store_channels(t) \/ store_tailscale(t)
    \/ store_cloudflare_tunnel(t) \/ store_backup(t)
    \/ request_device_code(t) \/ exchange_and_register(t)
    \/ write_tunnel_token(t) \/ write_backup_token(t) \/ write_account_json(t)
    \/ write_api_base(t) \/ poll_registered(t) \/ apply(t)

Next == (\E t \in Tabs : Form(t) \/ Handler(t)) \/ restart
Spec == Init /\ [][Next]_vars

TabSymmetry == Permutations(Tabs)

-----------------------------------------------------------------------------
(* Properties.                                                             *)

Working(kind) == \E t \in Tabs : request[t].kind = kind
(* The request whose part of a secret's handling is not over. *)
Asks(s) ==
    IF s \in CloudProviders THEN "provider"
    ELSE IF s = Tailscale THEN "tailscale"
    ELSE IF s = Credentials THEN "cloudflare-tunnel" ELSE "backup"

(* The wizard's pages show the answers as given, but the keys that go with   *)
(* them are in memory, in an apply or on the device, each under a lock of    *)
(* its own.  A key that the answers stand for is in one of the three unless  *)
(* one of four things came since it was typed: an error page, a restart (the *)
(* keys wait for apply in memory, where state.rs:3-6 has them written on     *)
(* submission), two requests that crossed, or a read of secrets.env that     *)
(* failed, which nobody is told (apply.rs:362).  The stages of an apply, two *)
(* applies in turn and the appending of one key to the others lose none.     *)
LossHasACause ==
    \A s \in Claimed(state.answers) :
        \/ s \in OnDevice(device) \cup lost \cup Held(pending)
        \/ \E t \in Tabs : request[t].kind = "apply" /\ s \in Held(request[t].taken)
        \/ Working(Asks(s))
        \/ met \cap {"apply", "answers", Asks(s)} # {}

(* "Done" is true: when the wizard says so, the hostname, the profile and the *)
(* SSH keys on the device are those of the answers it shows, the agent of     *)
(* that profile runs, and the channels enabled are those of the answers and,  *)
(* with them, what earlier applies had enabled: apply.rs:150-156 only adds,   *)
(* and a channel that was unticked since stays.  Excepted are a request that  *)
(* was answered while an apply ran, and a save that had failed before the     *)
(* process started again.                                                     *)
DoneMeansApplied ==
    (state.step = "done" /\ "answers" \notin met /\ ~unsaved) =>
        LET a == state.answers IN
        /\ a.hostname \in {None, device.hostname} /\ a.ssh \in {{}, device.ssh}
        /\ a.profile # None =>
              /\ device.profile = a.profile /\ device.units[a.profile] # None
              /\ device.channels = enabled \cup ({a.profile} \X a.channels)

(* The tokens of the tunnel and of the backup belong to the device that       *)
(* account.json names, and the backend they came from is the one that         *)
(* api-base leads to, but for a default one after another; unless a           *)
(* registration stopped half-way or two of them ran at once.                  *)
OneRegistration ==
    (state.answers.registered /\ ~torn /\ ~Working("poll") /\ "poll" \notin met) =>
        /\ account.tunnel = account.owner /\ account.backup = account.owner
        /\ account.owner # None
        /\ account.owner.base \in {account.base, DefaultBase}

(* Backups go out encrypted under the recovery key: none is configured, at    *)
(* any moment of an apply or after a failed one, on a device without it.      *)
RecoveryKeyFirst == device.backup # None => device.key

=============================================================================
