-------------------------- MODULE RemoteAccess ---------------------------
(***************************************************************************)
(* Who gets into a device's wizard: the desktop console's device login,    *)
(* the link with the account's JWT that it opens in a browser, the two     *)
(* units of which one serves the wizard, and the wizard's sessions         *)
(* (deputyos-console, deputywizard/src/auth.rs).  The person at the device *)
(* reads the launch token; everybody else comes through the tunnel.        *)
(* Time is counted in ticks.  The API dates a JWT by the true time; the    *)
(* device checks it by its wall clock (SystemTime), which may be off and   *)
(* may be set, and the sessions by a clock that runs with the true time    *)
(* while the process lives (Instant; a device put to sleep is left out).   *)
(* The account API, the tunnel's relay, systemd and the browsers are       *)
(* external: the API issues a token pair for a code that somebody has      *)
(* confirmed, once; a browser keeps the link and the cookie it was given.  *)
(***************************************************************************)
EXTENDS Integers, FiniteSets

CONSTANTS
    Accounts,       \* the account owners
    JwtTtl, SessionTtl,     \* 900 s and one hour, in ticks
    JwtLeeway,      \* Validation::new: what an exp may lie back, 60 s
    MaxSkew,        \* bound: how far the device's wall clock is off
    MaxTime,        \* bound: ticks
    Names,          \* bound: the random names of sessions are 1 .. Names
    MaxCodes,       \* bound: device logins begun
    MaxFaults,      \* bound: lost answers, deaths, power failures, clocks set
    None

ASSUME RemoteAssumption ==
    /\ JwtTtl \in Nat \ {0} /\ SessionTtl \in Nat \ {0}
    /\ JwtLeeway \in Nat /\ MaxSkew \in Nat
    /\ MaxTime \in Nat /\ Names \in Nat /\ MaxCodes \in Nat /\ MaxFaults \in Nat

Local == "local"            \* the person at the device
ASSUME LocalAssumption == Local \notin Accounts
Visitors == Accounts \cup {Local}
Units == {"first", "remote"}        \* deputywizard, deputyos-remote-wizard
Codes == 1 .. MaxCodes
Skews == -MaxSkew .. MaxSkew

VARIABLES
    now,        \* the true time
    skew,       \* the device's wall clock less the true time
    up,         \* the device is booted
    setup,      \* wizard-state.json exists
    account,    \* account.json
    unit,       \* the units: "inactive", "active" or "failed" (to be started again)
    proc,       \* the process of each unit
    cookie,     \* the session cookie of each visitor's browser
    link,       \* the address with a JWT that a remote visitor's browser has opened
    tokens,     \* the console's TokenStore
    pending,    \* the console's pending_device_code
    code,       \* the API's device codes
    faults,     \* counter of the bound
    issued,     \* history: when the API last issued a JWT for each account
    died        \* history: a wizard has died since the device was booted

device == <<up, setup, account, unit, proc, died>>
browsers == <<cookie, link>>
console == <<tokens, pending, code, issued>>
clocks == <<now, skew>>
accessVars == <<clocks, device, browsers, console, faults>>

Session == [name : 1 .. Names, by : Visitors, exp : 0 .. MaxTime + SessionTtl]
Jwt == [sub : Accounts, exp : 0 .. MaxTime + JwtTtl]
Process ==
    [mode : {"owner", "token"}, owner : Accounts \cup {None}, token : BOOLEAN,
     sessions : SUBSET Session]
ASSUME NoneAssumption == None \notin Process

AccessInit ==
    /\ now = 0 /\ skew = 0 /\ up = FALSE /\ setup \in BOOLEAN
    /\ account \in IF setup THEN Accounts \cup {None} ELSE {None}
    /\ unit = [u \in Units |-> "inactive"] /\ proc = [u \in Units |-> None]
    /\ cookie = [v \in Visitors |-> 0] /\ link = [a \in Accounts |-> None]
    /\ tokens = None /\ pending = 0 /\ code = [c \in Codes |-> "unused"]
    /\ faults = 0
    /\ issued = [a \in Accounts |-> None] /\ died = FALSE

Fault == faults < MaxFaults /\ faults' = faults + 1

Tick ==
    /\ now < MaxTime /\ now' = now + 1
    /\ UNCHANGED <<skew, device, browsers, console, faults>>
(* The wall clock is set, by hand or by NTP. *)
SetClock ==
    /\ Fault /\ skew' \in Skews \ {skew}
    /\ UNCHANGED <<now, device, browsers, console>>

-----------------------------------------------------------------------------
(* The units.  Each has the file as its ConditionPathExists, one of them     *)
(* negated; it is looked at when the unit is started, or started again.      *)

(* Mutant of Condition: only the first-boot unit has one. *)
ConditionOfFirst(u) == u = "remote" \/ ~setup
Condition(u) == setup = (u = "remote")

(* serve: the account that is registered by now; the launch token without    *)
(* one, and when the API's public key cannot be read.                        *)
ByToken == [mode |-> "token", owner |-> None, token |-> TRUE, sessions |-> {}]
ByOwner == [mode |-> "owner", owner |-> account, token |-> FALSE, sessions |-> {}]
Serves(u) == IF u = "remote" /\ account # None THEN {ByOwner, ByToken} ELSE {ByToken}
Boot ==
    /\ ~up /\ up' = TRUE
    /\ unit' = [u \in Units |-> IF Condition(u) THEN "active" ELSE "inactive"]
    /\ \E p \in [Units -> UNION {Serves(u) : u \in Units} \cup {None}] :
           /\ \A u \in Units : p[u] \in IF Condition(u) THEN Serves(u) ELSE {None}
           /\ proc' = p
    /\ died' = FALSE
    /\ UNCHANGED <<clocks, setup, account, browsers, console, faults>>
PowerOff ==
    /\ up /\ Fault /\ up' = FALSE
    /\ unit' = [u \in Units |-> "inactive"] /\ proc' = [u \in Units |-> None]
    /\ UNCHANGED <<clocks, setup, account, died, browsers, console>>
Dies(u) ==
    /\ unit[u] = "active" /\ Fault /\ died' = TRUE
    /\ unit' = [unit EXCEPT ![u] = "failed"] /\ proc' = [proc EXCEPT ![u] = None]
    /\ UNCHANGED <<clocks, up, setup, account, browsers, console>>
Restart(u) ==
    /\ unit[u] = "failed"
    /\ unit' = [unit EXCEPT ![u] = IF Condition(u) THEN "active" ELSE "inactive"]
    /\ \E p \in IF Condition(u) THEN Serves(u) ELSE {None} : proc' = [proc EXCEPT ![u] = p]
    /\ UNCHANGED <<clocks, up, setup, account, died, browsers, console, faults>>

-----------------------------------------------------------------------------
(* A request to the wizard: require_auth and, when it lets it pass, the      *)
(* handler; then the answer, with the cookie of a session that was minted.   *)

Live(p) == {s \in p.sessions : s.exp > now}
Known(p, v) == \E s \in Live(p) : s.name = cookie[v]

(* Mutant of Decodes: validate_exp is off, the signature is all. *)
DecodesSigned(jwt) == jwt # None
(* decode: by the wall clock, with the leeway of Validation::new. *)
Decodes(jwt) == jwt # None /\ jwt.exp + JwtLeeway >= now + skew
(* Mutant of validate_owner_jwt: whose token it is is not asked. *)
validate_any_jwt(jwt, owner) == Decodes(jwt)
validate_owner_jwt(jwt, owner) == Decodes(jwt) /\ jwt.sub = owner

(* What the visitor presents besides the cookie is good for a session: the    *)
(* launch token until it has been used, a JWT as long as it lives.            *)
(* Mutant of Presents: a JWT is used up as well. *)
PresentsOnce(p, v) ==
    IF v = Local THEN p.mode = "token" /\ p.token
    ELSE /\ p.mode = "owner" /\ validate_owner_jwt(link[v], p.owner)
         /\ \A s \in Live(p) : s.by # v
Presents(p, v) ==
    IF v = Local THEN p.mode = "token" /\ p.token
    ELSE p.mode = "owner" /\ validate_owner_jwt(link[v], p.owner)

(* random_hex: the name of no session, and no browser's cookie. *)
IsNew(n) ==
    /\ \A v \in Visitors : cookie[v] # n
    /\ \A u \in Units : proc[u] # None => \A s \in proc[u].sessions : s.name # n
NewName == CHOOSE n \in 1 .. Names : IsNew(n)
Minting(p, v) ==
    [p EXCEPT !.token = FALSE,
              !.sessions = Live(p) \cup {[name |-> NewName, by |-> v, exp |-> now + SessionTtl]}]
check_or_issue(p, v) == IF Known(p, v) THEN [p EXCEPT !.sessions = Live(p)] ELSE Minting(p, v)

(* A form saves the state file; the one of the account step registers. *)
Handler ==
    \/ UNCHANGED <<setup, account>>
    \/ setup' = TRUE /\ UNCHANGED account
    \/ setup' = TRUE /\ account' \in Accounts

Request(u, v) ==
    LET p == proc[u] IN
    /\ p # None
    /\ Known(p, v) \/ (Presents(p, v) /\ \E n \in 1 .. Names : IsNew(n))
    /\ proc' = [proc EXCEPT ![u] = check_or_issue(p, v)]
    /\ Handler
    /\ \/ cookie' = [cookie EXCEPT ![v] = IF Known(p, v) THEN @ ELSE NewName] /\ UNCHANGED faults
       \/ Fault /\ UNCHANGED cookie
    /\ UNCHANGED <<clocks, up, unit, died, link, console>>

(* deputyctl factory-reset, which leaves account.json and the wizard alone. *)
FactoryReset ==
    /\ setup /\ setup' = FALSE
    /\ UNCHANGED <<clocks, up, account, unit, proc, died, browsers, console, faults>>

-----------------------------------------------------------------------------
(* The console.  Its commands run one after the other. *)

(* The API makes a device code. *)
Begin(c) ==
    /\ code[c] = "unused" /\ \A d \in Codes : code[d] = "unused" => c <= d
    /\ code' = [code EXCEPT ![c] = "open"]
(* Offered to who is signed out; a login begun before is forgotten. *)
login_start ==
    /\ tokens = None
    /\ \E c \in Codes : Begin(c) /\ pending' = c
    /\ UNCHANGED <<clocks, device, browsers, tokens, issued, faults>>
(* The user enters the code on the account's page; one that the console has   *)
(* forgotten leads nowhere.                                                   *)
Confirm ==
    /\ pending # 0 /\ code[pending] = "open"
    /\ \E a \in Accounts : code' = [code EXCEPT ![pending] = a]
    /\ UNCHANGED <<clocks, device, browsers, tokens, pending, issued, faults>>

(* The API hands the pair out once.  It is saved and the code forgotten; an  *)
(* answer that is lost, or a save that fails, loses the pair.                *)
device_code_poll ==
    /\ pending # 0 /\ code[pending] \in Accounts
    /\ code' = [code EXCEPT ![pending] = "exchanged"]
    /\ issued' = [issued EXCEPT ![code[pending]] = now]
from_pair(c) == [sub |-> code[c], exp |-> now + JwtTtl]
login_poll ==
    /\ device_code_poll
    /\ \/ tokens' = from_pair(pending) /\ pending' = 0 /\ UNCHANGED faults
       \/ Fault /\ UNCHANGED <<tokens, pending>>
    /\ UNCHANGED <<clocks, device, browsers>>
(* The tokens are cleared whatever comes of the revocation; the JWT stays    *)
(* good where it is checked without the API.                                 *)
logout ==
    /\ tokens # None /\ tokens' = None
    /\ UNCHANGED <<clocks, device, browsers, pending, code, issued, faults>>
(* The console is ended and started again. *)
Relaunch ==
    /\ pending # 0 /\ Fault /\ pending' = 0
    /\ UNCHANGED <<clocks, device, browsers, tokens, code, issued>>
(* current_tokens does not ask whether the token has expired. *)
open_remote_wizard ==
    /\ tokens # None
    /\ link' = [link EXCEPT ![tokens.sub] = tokens]
    /\ UNCHANGED <<clocks, device, cookie, console, faults>>

AccessNext ==
    \/ Tick \/ SetClock \/ Boot \/ PowerOff \/ FactoryReset
    \/ \E u \in Units : Dies(u) \/ Restart(u) \/ \E v \in Visitors : Request(u, v)
    \/ login_start \/ Confirm \/ login_poll \/ logout \/ Relaunch \/ open_remote_wizard
(* The owner tries again, and not every answer is lost. *)
Answered(a) == Request("remote", a) /\ cookie'[a] # cookie[a]
AccessSpec ==
    AccessInit /\ [][AccessNext]_accessVars /\ \A a \in Accounts : WF_accessVars(Answered(a))

-----------------------------------------------------------------------------
(* Properties. *)

Running == {u \in Units : proc[u] # None}
Inside(v) == \E u \in Running : Known(proc[u], v)

(* A session does not outlive the sign-in that it came from by more than the  *)
(* life of a JWT and of a session, the leeway of the check (60 s beyond exp)  *)
(* and what the device's wall clock may be slow, whatever is done with it in  *)
(* the meantime: neither the console, which never refreshes, nor the link     *)
(* kept in a browser, nor the use of a session, nor a clock that is set back  *)
(* and forth within its bound prolongs access after signing out.              *)
AccessFades ==
    \A a \in Accounts :
        Inside(a) => now < issued[a] + JwtTtl + JwtLeeway + MaxSkew + SessionTtl

(* Whoever has a session is the account that account.json named when the      *)
(* serving process started; and when it named none, or the API's key could    *)
(* not be read, the one browser that was first to present the launch token,   *)
(* which only the person at the device can read.  A registration since then changes      *)
(* neither, nor does a death of the process keep a session alive.             *)
OnlyWhoMay ==
    \A u \in Running :
        /\ proc[u].mode = "owner" => \A s \in proc[u].sessions : s.by = proc[u].owner
        /\ proc[u].mode = "token" => /\ Cardinality(proc[u].sessions) <= 1
                                     /\ \A s \in proc[u].sessions : s.by = Local

(* At most one of the units holds the port (deputyos-remote-wizard.service:    *)
(* "mutually exclusive by condition"), and one of them serves until a wizard  *)
(* dies: a first-boot wizard that dies after the first form does not come     *)
(* back, and nothing takes its place before a reboot.                         *)
OneWizardServes ==
    up => Cardinality(Running) <= 1 /\ (Running = {} => died)

(* An owner with a link that has not expired gets in, also when the answer to  *)
(* a first request was lost: the JWT is not consumed (auth.rs:14).  The person *)
(* at the device does not, the launch token is.                               *)
MayEnter(a) ==
    /\ proc["remote"] # None /\ proc["remote"].mode = "owner"
    /\ validate_owner_jwt(link[a], proc["remote"].owner)
OwnerGetsIn == \A a \in Accounts : MayEnter(a) ~> (Inside(a) \/ ~MayEnter(a))

=============================================================================
