---------------------------- MODULE Services_proofs ----------------------------
(***************************************************************************)
(* Three parts that work with a service outside of the device.  Who gets   *)
(* into the wizard, for how long and through which unit, for any number of *)
(* accounts, any lives of a JWT and a session, and any faults              *)
(* (RemoteAccess).  That an audit event is lost in one way only, for any   *)
(* number of events and of flushes that overlap, repeat, are refused or    *)
(* die (AuditSpool).  That the order of version.rs is a strict one, and    *)
(* that the release tracker keeps what PinTrack says of pins and           *)
(* proposals, for every list of releases, every set of profiles and every  *)
(* number of runs, commands and failures (Tracker).                        *)
(***************************************************************************)
EXTENDS RemoteAccess, AuditSpool, Tracker, FiniteSetTheorems, TLAPS

-----------------------------------------------------------------------------
(* The inductive invariant *)

AccessTypes ==
    /\ now \in 0 .. MaxTime /\ skew \in Skews
    /\ up \in BOOLEAN /\ setup \in BOOLEAN /\ died \in BOOLEAN
    /\ account \in Accounts \cup {None}
    /\ unit \in [Units -> {"inactive", "active", "failed"}]
    /\ proc \in [Units -> Process \cup {None}]
    /\ cookie \in [Visitors -> Nat]
    /\ DOMAIN link = Accounts
    /\ DOMAIN issued = Accounts

\* A JWT is of the account it names and was good for JwtTtl from its issue.
Genuine(jwt, a, when, t) ==
    /\ jwt.sub = a /\ jwt.exp \in Int
    /\ when[a] \in 0 .. t /\ jwt.exp <= when[a] + JwtTtl

Links ==
    /\ \A a \in Accounts : link[a] # None => Genuine(link[a], a, issued, now)
    /\ tokens # None => \E a \in Accounts : Genuine(tokens, a, issued, now)

\* A session of an account began while the device took a JWT of it; the one of a launch
\* token is the person's at the device, and the token is gone.
Reach == JwtTtl + JwtLeeway + MaxSkew + SessionTtl
Minted(p, when, t) ==
    /\ p.mode = "owner" =>
          \A s \in p.sessions :
              /\ s.by = p.owner /\ s.by \in Accounts
              /\ when[s.by] \in 0 .. t
              /\ s.exp <= when[s.by] + Reach
    /\ p.mode = "token" =>
          /\ p.token => p.sessions = {}
          /\ \A s \in p.sessions : s.by = Local
          /\ \A s, r \in p.sessions : s = r

Sessions == \A u \in Units : proc[u] # None => Minted(proc[u], issued, now)

\* A cookie is the name of nobody else's session.
OwnNames ==
    \A u \in Units : proc[u] # None =>
        \A s \in proc[u].sessions, v \in Visitors : s.name = cookie[v] => s.by = v

\* One of the units was started at the boot, and only that one can be started
\* again; it serves until its process dies.
OneStarted ==
    /\ \A u \in Units : proc[u] # None <=> unit[u] = "active"
    /\ \E u \in Units : \A w \in Units \ {u} : unit[w] = "inactive"
    /\ up /\ ~died => \E u \in Units : unit[u] = "active"

AccessInv == AccessTypes /\ Links /\ Sessions /\ OwnNames /\ OneStarted

\* What Links and Minted say of the API's issues only becomes weaker with time:
\* an account's last issue is the same, or is now.
Later(when, t, whenLater, tLater) ==
    /\ t \in Nat /\ tLater \in Nat /\ t <= tLater
    /\ \A a \in Accounts : whenLater[a] = when[a] \/ whenLater[a] = t

LEMMA GenuineStays ==
    ASSUME NEW jwt, NEW a \in Accounts, NEW when, NEW t, NEW whenLater, NEW tLater,
           Genuine(jwt, a, when, t), Later(when, t, whenLater, tLater)
    PROVE  Genuine(jwt, a, whenLater, tLater)
BY RemoteAssumption DEF Genuine, Later

LEMMA MintedStays ==
    ASSUME NEW p \in Process, NEW when, NEW t, NEW whenLater, NEW tLater,
           Minted(p, when, t), Later(when, t, whenLater, tLater)
    PROVE  Minted(p, whenLater, tLater)
<1>1. CASE p.mode = "owner"
  <2> SUFFICES ASSUME NEW s \in p.sessions
               PROVE  /\ s.by = p.owner /\ s.by \in Accounts
                      /\ whenLater[s.by] \in 0 .. tLater
                      /\ s.exp <= whenLater[s.by] + Reach
    BY <1>1 DEF Minted
  <2>1. /\ s.by = p.owner /\ s.by \in Accounts /\ s.exp \in Int
        /\ when[s.by] \in 0 .. t
        /\ s.exp <= when[s.by] + Reach
    BY <1>1, RemoteAssumption DEF Minted, Process, Session
  <2> QED BY <2>1, RemoteAssumption DEF Later, Reach
<1>2. CASE p.mode = "token"
  BY <1>2 DEF Minted
<1> QED BY <1>1, <1>2 DEF Process

-----------------------------------------------------------------------------
(* Processes and their sessions *)

LEMMA ServesFresh ==
    ASSUME AccessTypes, NEW u \in Units, NEW p \in Serves(u)
    PROVE  /\ p \in Process /\ p # None /\ p.sessions = {}
           /\ \A when, t : Minted(p, when, t)
<1>1. p \in Process /\ p.sessions = {}
  <2>1. ByToken \in Process /\ ByToken.sessions = {}
    BY DEF ByToken, Process
  <2>2. account # None => ByOwner \in Process /\ ByOwner.sessions = {}
    BY DEF AccessTypes, ByOwner, Process
  <2> QED BY <2>1, <2>2 DEF Serves
<1> QED BY <1>1, NoneAssumption DEF Minted

LEMMA NameIsNew ==
    ASSUME NEW n0 \in 1 .. Names, IsNew(n0)
    PROVE  NewName \in 1 .. Names /\ IsNew(NewName)
BY DEF NewName

\* What an answer leaves of a process: its mode, and the living sessions with at
\* most one more, of who came with a token.
Entry(v) == [name |-> NewName, by |-> v, exp |-> now + SessionTtl]

LEMMA Issued ==
    ASSUME AccessTypes, NEW p \in Process, NEW v \in Visitors,
           Known(p, v) \/ (Presents(p, v) /\ \E n \in 1 .. Names : IsNew(n)),
           NEW q, q = check_or_issue(p, v)
    PROVE  /\ q \in Process /\ q.mode = p.mode /\ q.owner = p.owner
           /\ Known(p, v) => q.sessions \subseteq p.sessions /\ q.token = p.token
           /\ ~Known(p, v) => /\ q.sessions \subseteq p.sessions \cup {Entry(v)}
                              /\ q.token = FALSE
                              /\ Presents(p, v) /\ IsNew(NewName)
<1>1. p = [mode |-> p.mode, owner |-> p.owner, token |-> p.token, sessions |-> p.sessions]
  BY DEF Process
<1>2. Live(p) \subseteq p.sessions /\ p.sessions \subseteq Session
  BY DEF Live, Process
<1>3. CASE Known(p, v)
  <2>1. q = [p EXCEPT !.sessions = Live(p)]
    BY <1>3 DEF check_or_issue
  <2>2. q = [mode |-> p.mode, owner |-> p.owner, token |-> p.token,
                                sessions |-> Live(p)]
    BY <2>1, <1>1
  <2>3. /\ p.mode \in {"owner", "token"} /\ p.owner \in Accounts \cup {None}
        /\ p.token \in BOOLEAN /\ Live(p) \in SUBSET Session
    BY <1>2 DEF Process
  <2>4. q \in Process
    BY <2>2, <2>3 DEF Process
  <2> QED BY <1>3, <2>2, <2>4, <1>2
<1>4. CASE ~Known(p, v)
  <2>1. NewName \in 1 .. Names /\ IsNew(NewName) /\ Presents(p, v)
    BY <1>4, NameIsNew
  <2>2. q = [mode |-> p.mode, owner |-> p.owner, token |-> FALSE,
                                sessions |-> Live(p) \cup {Entry(v)}]
    BY <1>4, <1>1 DEF check_or_issue, Minting, Entry
  <2>3. Entry(v) \in Session
    BY <2>1, RemoteAssumption DEF Entry, Session, AccessTypes
  <2>4. /\ p.mode \in {"owner", "token"} /\ p.owner \in Accounts \cup {None}
        /\ Live(p) \cup {Entry(v)} \in SUBSET Session
    BY <2>3, <1>2 DEF Process
  <2>5. q \in Process
    BY <2>2, <2>4 DEF Process
  <2>6. /\ q.mode = p.mode /\ q.owner = p.owner /\ q.token = FALSE
        /\ q.sessions = Live(p) \cup {Entry(v)}
    BY <2>2
  <2> QED BY <1>4, <2>1, <2>5, <2>6, <1>2
<1> QED BY <1>3, <1>4

\* The session that an answer adds is one that Minted allows.
LEMMA IssuedIsMinted ==
    ASSUME AccessInv, NEW u \in Units, NEW v \in Visitors, proc[u] # None,
           Known(proc[u], v) \/ (Presents(proc[u], v) /\ \E n \in 1 .. Names : IsNew(n))
    PROVE  Minted(check_or_issue(proc[u], v), issued, now)
<1> SUFFICES ASSUME NEW p, p = proc[u], NEW q, q = check_or_issue(p, v)
             PROVE  Minted(q, issued, now)
  OBVIOUS
<1>1. p \in Process /\ Minted(p, issued, now)
  BY DEF AccessInv, AccessTypes, Sessions
<1>2. /\ q.mode = p.mode /\ q.owner = p.owner
      /\ Known(p, v) => q.sessions \subseteq p.sessions /\ q.token = p.token
      /\ ~Known(p, v) => /\ q.sessions \subseteq p.sessions \cup {Entry(v)}
                         /\ q.token = FALSE
                         /\ Presents(p, v)
  <2>1. AccessTypes /\ p \in Process
    BY <1>1 DEF AccessInv
  <2>2. Known(p, v) \/ (Presents(p, v) /\ \E n \in 1 .. Names : IsNew(n))
    OBVIOUS
  <2>3. v \in Visitors /\ q = check_or_issue(p, v)
    OBVIOUS
  <2>4. q \in Process /\ q.mode = p.mode /\ q.owner = p.owner
    BY ONLY <2>1, <2>2, <2>3, Issued
  <2>5. Known(p, v) => q.sessions \subseteq p.sessions /\ q.token = p.token
    BY ONLY <2>1, <2>2, <2>3, Issued
  <2>6. ~Known(p, v) => /\ q.sessions \subseteq p.sessions \cup {Entry(v)}
                       /\ q.token = FALSE
                       /\ Presents(p, v)
    BY ONLY <2>1, <2>2, <2>3, Issued
  <2> QED BY <2>4, <2>5, <2>6
<1>3. CASE Known(p, v)
  BY <1>1, <1>2, <1>3 DEF Minted
<1>4. CASE ~Known(p, v) /\ p.mode = "token"
  <2>1. v = Local /\ p.sessions = {}
    BY <1>1, <1>2, <1>4 DEF Presents, Minted
  <2>2. \A s \in q.sessions : s = Entry(v)
    BY <1>2, <1>4, <2>1
  <2>3. Entry(v).by = Local
    BY <2>1 DEF Entry
  <2> QED BY <1>2, <1>4, <2>2, <2>3 DEF Minted
<1>5. CASE ~Known(p, v) /\ p.mode = "owner"
  <2>1. /\ v \in Accounts /\ v = p.owner
        /\ Genuine(link[v], v, issued, now) /\ link[v].exp + JwtLeeway >= now + skew
    BY <1>2, <1>5
    DEF Presents, validate_owner_jwt, Decodes, Visitors, AccessInv, Links, Genuine
  <2>2. /\ Entry(v).by = v /\ issued[v] \in 0 .. now
        /\ Entry(v).exp <= issued[v] + Reach
    BY <2>1, RemoteAssumption DEF Entry, Genuine, Reach, Skews, AccessInv, AccessTypes
  <2> QED BY <1>1, <1>2, <1>5, <2>1, <2>2 DEF Minted
<1> QED BY <1>1, <1>3, <1>4, <1>5 DEF Process

-----------------------------------------------------------------------------
(* What most steps leave alone *)

LEMMA DeviceStays ==
    ASSUME AccessInv, UNCHANGED <<up, unit, proc, died, cookie>>,
           Later(issued, now, issued', now')
    PROVE  Sessions' /\ OwnNames' /\ OneStarted'
<1>1. Sessions'
  <2> SUFFICES ASSUME NEW u \in Units, proc[u] # None
               PROVE  Minted(proc[u], issued', now')
    BY DEF Sessions
  <2>1. proc[u] \in Process /\ Minted(proc[u], issued, now)
    BY DEF AccessInv, AccessTypes, Sessions
  <2> QED BY <2>1, MintedStays
<1>2. OwnNames' /\ OneStarted'
  BY DEF AccessInv, OwnNames, OneStarted
<1> QED BY <1>1, <1>2

LEMMA LinksStay ==
    ASSUME Links, Later(issued, now, issued', now'), UNCHANGED link,
           tokens' \in {tokens, None}
    PROVE  Links'
<1>1. \A a \in Accounts : link[a] # None => Genuine(link[a], a, issued', now')
  BY GenuineStays DEF Links
<1>2. tokens # None => \E a \in Accounts : Genuine(tokens, a, issued', now')
  BY GenuineStays DEF Links
<1> QED BY <1>1, <1>2 DEF Links

LEMMA SameTime ==
    ASSUME AccessTypes, UNCHANGED <<issued, now>>
    PROVE  Later(issued, now, issued', now')
BY RemoteAssumption DEF AccessTypes, Later

-----------------------------------------------------------------------------
(* The clock and the console *)

LEMMA TickKeeps == ASSUME AccessInv, Tick PROVE AccessInv'
<1>1. UNCHANGED <<skew, device, browsers, console>> /\ AccessTypes'
  BY RemoteAssumption DEF AccessInv, AccessTypes, Tick, device, browsers, console
<1>2. Later(issued, now, issued', now')
  BY <1>1, RemoteAssumption DEF Tick, Later, AccessInv, AccessTypes, console
<1>3. Sessions' /\ OwnNames' /\ OneStarted' /\ Links'
  BY <1>1, <1>2, DeviceStays, LinksStay DEF AccessInv, device, browsers, console
<1> QED BY <1>1, <1>3 DEF AccessInv

\* Steps that change nothing but the wall clock, the console's own state, or a file.
LEMMA QuietKeeps ==
    ASSUME AccessInv,
           \/ login_start \/ Confirm \/ logout \/ Relaunch \/ FactoryReset \/ SetClock
           \/ UNCHANGED accessVars
    PROVE  AccessInv'
<1>1. /\ UNCHANGED <<now, up, unit, proc, died, cookie, link, issued, account>>
      /\ tokens' \in {tokens, None} /\ setup' \in BOOLEAN /\ skew' \in Skews
  BY DEF login_start, Confirm, logout, Relaunch, FactoryReset, SetClock, accessVars, clocks,
     device, browsers, console, AccessInv, AccessTypes
<1>2. AccessTypes'
  BY <1>1 DEF AccessInv, AccessTypes
<1>3. Sessions' /\ OwnNames' /\ OneStarted' /\ Links'
  BY <1>1, SameTime, DeviceStays, LinksStay DEF AccessInv
<1> QED BY <1>2, <1>3 DEF AccessInv

LEMMA LoginPollKeeps == ASSUME AccessInv, login_poll PROVE AccessInv'
<1>1. UNCHANGED <<now, skew, device, browsers>>
  BY DEF login_poll, clocks
<1>2. PICK a \in Accounts : /\ a = code[pending]
                            /\ issued' = [issued EXCEPT ![a] = now]
  BY DEF login_poll, device_code_poll
<1>3. Later(issued, now, issued', now') /\ issued'[a] = now
  BY <1>1, <1>2, RemoteAssumption DEF Later, AccessInv, AccessTypes
<1>4. AccessTypes'
  BY <1>1, <1>2 DEF AccessInv, AccessTypes, device, browsers
<1>5. \/ tokens' = from_pair(pending) \/ UNCHANGED tokens
  BY DEF login_poll
<1>6. Links'
  <2>1. CASE UNCHANGED tokens
    BY <1>1, <1>3, <2>1, LinksStay DEF AccessInv, browsers
  <2>2. CASE tokens' = from_pair(pending)
    <3>1. tokens' = [sub |-> a, exp |-> now + JwtTtl]
      BY <2>2, <1>2 DEF from_pair
    <3>2. Genuine(tokens', a, issued', now')
      BY <3>1, <1>1, <1>3, RemoteAssumption DEF Genuine, AccessInv, AccessTypes
    <3>3. \A b \in Accounts : link[b] # None => Genuine(link[b], b, issued', now')
      BY <1>3, GenuineStays DEF AccessInv, Links
    <3> QED BY <3>2, <3>3, <1>1 DEF Links, browsers
  <2> QED BY <1>5, <2>1, <2>2
<1>7. Sessions' /\ OwnNames' /\ OneStarted'
  BY <1>1, <1>3, DeviceStays DEF device, browsers
<1> QED BY <1>4, <1>6, <1>7 DEF AccessInv

LEMMA LinkKeeps == ASSUME AccessInv, open_remote_wizard PROVE AccessInv'
<1>1. UNCHANGED <<now, skew, device, cookie, console>>
  BY DEF open_remote_wizard, clocks
<1>2. PICK a \in Accounts : Genuine(tokens, a, issued, now)
  BY DEF open_remote_wizard, AccessInv, Links
<1>3. link' = [link EXCEPT ![a] = tokens]
  BY <1>2 DEF open_remote_wizard, Genuine
<1>4. AccessTypes'
  BY <1>1, <1>3 DEF AccessInv, AccessTypes, device, console
<1>5. Links'
  BY <1>1, <1>2, <1>3 DEF AccessInv, AccessTypes, Links, console
<1>6. Sessions' /\ OwnNames' /\ OneStarted'
  BY <1>1, SameTime, DeviceStays DEF AccessInv, device, console
<1> QED BY <1>4, <1>5, <1>6 DEF AccessInv

-----------------------------------------------------------------------------
(* The units *)

LEMMA ConditionOfOne ==
    ASSUME AccessTypes
    PROVE  \E u \in Units : Condition(u) /\ \A w \in Units \ {u} : ~Condition(w)
BY DEF AccessTypes, Condition, Units

\* A process that starts has no session, so that only those that go on matter.
LEMMA FreshOrSame ==
    ASSUME AccessInv, UNCHANGED <<now, issued, cookie>>,
           proc' \in [Units -> Process \cup {None}],
           \A u \in Units : proc'[u] \in {None, proc[u]} \cup Serves(u)
    PROVE  Sessions' /\ OwnNames'
<1> SUFFICES ASSUME NEW u \in Units, proc'[u] # None
             PROVE  /\ Minted(proc'[u], issued, now)
                    /\ \A s \in proc'[u].sessions, v \in Visitors :
                           s.name = cookie[v] => s.by = v
  BY DEF Sessions, OwnNames
<1>1. CASE proc'[u] = proc[u]
  BY <1>1 DEF AccessInv, Sessions, OwnNames
<1>2. CASE proc'[u] \in Serves(u)
  BY <1>2, ServesFresh DEF AccessInv
<1> QED BY <1>1, <1>2

LEMMA BootKeeps == ASSUME AccessInv, Boot PROVE AccessInv'
<1>1. UNCHANGED <<now, skew, setup, account, cookie, link, issued, tokens>>
  BY DEF Boot, clocks, browsers, console
<1>2. AccessTypes'
  <2>1. \A u \in Units : Serves(u) \subseteq Process
    BY ServesFresh DEF AccessInv
  <2>2. UNION {Serves(u) : u \in Units} \subseteq Process
    BY <2>1
  <2>3. proc' \in [Units -> Process \cup {None}]
    BY <2>2 DEF Boot
  <2> QED BY <1>1, <2>3 DEF Boot, AccessInv, AccessTypes
<1>3. Sessions' /\ OwnNames'
  <2>1. \A u \in Units : proc'[u] \in {None, proc[u]} \cup Serves(u)
    BY DEF Boot
  <2> QED BY <1>1, <1>2, <2>1, FreshOrSame DEF AccessTypes
<1>4. OneStarted'
  <2>1. PICK u \in Units : Condition(u) /\ \A w \in Units \ {u} : ~Condition(w)
    BY ConditionOfOne DEF AccessInv
  <2>2. \A w \in Units : /\ unit'[w] = IF w = u THEN "active" ELSE "inactive"
                         /\ proc'[w] \in IF w = u THEN Serves(w) ELSE {None}
    BY <2>1 DEF Boot
  <2>3. proc'[u] # None
    BY <2>2, ServesFresh DEF AccessInv
  <2> QED BY <2>2, <2>3 DEF OneStarted
<1>5. Links'
  BY <1>1, SameTime, LinksStay DEF AccessInv
<1> QED BY <1>2, <1>3, <1>4, <1>5 DEF AccessInv

LEMMA PowerOffKeeps == ASSUME AccessInv, PowerOff PROVE AccessInv'
<1>1. UNCHANGED <<now, skew, setup, account, died, cookie, link, issued, tokens>>
  BY DEF PowerOff, clocks, browsers, console
<1>2. AccessTypes'
  BY <1>1 DEF PowerOff, AccessInv, AccessTypes
<1>3. Sessions' /\ OwnNames'
  BY <1>1, <1>2, FreshOrSame DEF PowerOff, AccessTypes
<1>4. OneStarted'
  <2>1. \A w \in Units : unit'[w] = "inactive" /\ proc'[w] = None
    BY DEF PowerOff
  <2>2. up' = FALSE /\ "first" \in Units
    BY DEF PowerOff, Units
  <2> QED BY <2>1, <2>2 DEF OneStarted
<1>5. Links'
  BY <1>1, SameTime, LinksStay DEF AccessInv
<1> QED BY <1>2, <1>3, <1>4, <1>5 DEF AccessInv

LEMMA DiesKeeps == ASSUME AccessInv, NEW u \in Units, Dies(u) PROVE AccessInv'
<1>1. UNCHANGED <<now, skew, up, setup, account, cookie, link, issued, tokens>>
  BY DEF Dies, clocks, browsers, console
<1>2. \A w \in Units : /\ unit'[w] = IF w = u THEN "failed" ELSE unit[w]
                       /\ proc'[w] = IF w = u THEN None ELSE proc[w]
  BY DEF Dies, AccessInv, AccessTypes
<1>3. AccessTypes'
  BY <1>1 DEF Dies, AccessInv, AccessTypes
<1>4. Sessions' /\ OwnNames'
  BY <1>1, <1>2, <1>3, FreshOrSame DEF AccessTypes
<1>5. OneStarted'
  <2>1. unit[u] = "active" /\ died' = TRUE
    BY DEF Dies
  <2> QED BY <1>2, <2>1 DEF OneStarted, AccessInv
<1>6. Links'
  BY <1>1, SameTime, LinksStay DEF AccessInv
<1> QED BY <1>3, <1>4, <1>5, <1>6 DEF AccessInv

LEMMA RestartKeeps == ASSUME AccessInv, NEW u \in Units, Restart(u) PROVE AccessInv'
<1>1. UNCHANGED <<now, skew, up, setup, account, died, cookie, link, issued, tokens>>
  BY DEF Restart, clocks, browsers, console
<1>2. \A p \in Serves(u) : p \in Process /\ p # None
  BY ServesFresh DEF AccessInv
<1>3. \A w \in Units :
        /\ unit'[w] = IF w # u THEN unit[w] ELSE IF Condition(u) THEN "active" ELSE "inactive"
        /\ proc'[w] \in IF w # u THEN {proc[w]} ELSE IF Condition(u) THEN Serves(u) ELSE {None}
  BY DEF Restart, AccessInv, AccessTypes
<1>4. AccessTypes'
  BY <1>1, <1>2 DEF Restart, AccessInv, AccessTypes
<1>5. Sessions' /\ OwnNames'
  BY <1>1, <1>3, <1>4, FreshOrSame DEF AccessTypes
<1>6. OneStarted'
  <2>1. unit[u] = "failed"
    BY DEF Restart
  <2>2. \A w \in Units \ {u} : unit[w] = "inactive"
    BY <2>1 DEF OneStarted, AccessInv
  <2>3. up => died
    BY <2>1, <2>2 DEF OneStarted, AccessInv
  <2> QED BY <1>1, <1>2, <1>3, <2>1, <2>2, <2>3 DEF OneStarted, AccessInv
<1>7. Links'
  BY <1>1, SameTime, LinksStay DEF AccessInv
<1> QED BY <1>4, <1>5, <1>6, <1>7 DEF AccessInv

-----------------------------------------------------------------------------
(* A request *)

LEMMA RequestKeeps ==
    ASSUME AccessInv, NEW u \in Units, NEW v \in Visitors, Request(u, v)
    PROVE  AccessInv'
<1> SUFFICES ASSUME NEW p, p = proc[u], NEW q, q = check_or_issue(p, v)
             PROVE  AccessInv'
  OBVIOUS
<1>1. UNCHANGED <<now, skew, up, unit, died, link, issued, tokens>>
  BY DEF Request, clocks, console
<1>2. /\ p # None /\ p \in Process /\ v \in Visitors /\ AccessTypes
      /\ Known(p, v) \/ (Presents(p, v) /\ \E n \in 1 .. Names : IsNew(n))
      /\ q = check_or_issue(p, v)
  BY DEF Request, AccessInv, AccessTypes
<1>3. q \in Process /\ q # None
  BY <1>2, Issued, NoneAssumption
<1>4. \A w \in Units : proc'[w] = IF w = u THEN q ELSE proc[w]
  BY DEF Request, AccessInv, AccessTypes
<1>5. AccessTypes'
  <2>1. proc' \in [Units -> Process \cup {None}]
    BY <1>3 DEF Request, AccessInv, AccessTypes
  <2>2. setup' \in BOOLEAN /\ account' \in Accounts \cup {None}
    BY DEF Request, Handler, AccessInv, AccessTypes
  <2>3. Known(p, v) \/ NewName \in 1 .. Names
    BY <1>2, NameIsNew
  <2>4. cookie' \in [Visitors -> Nat]
    BY <2>3, RemoteAssumption DEF Request, AccessInv, AccessTypes
  <2> QED BY <1>1, <2>1, <2>2, <2>4 DEF AccessInv, AccessTypes
<1>6. Sessions'
  <2>1. Minted(q, issued, now)
    BY IssuedIsMinted DEF Request
  <2> QED BY <1>1, <1>4, <2>1 DEF Sessions, AccessInv
<1>7. OwnNames'
  <2> SUFFICES ASSUME NEW w \in Units, proc'[w] # None, NEW s \in proc'[w].sessions,
                      NEW x \in Visitors, s.name = cookie'[x]
               PROVE  s.by = x
    BY DEF OwnNames
  <2>1. CASE Known(p, v)
    <3>1. UNCHANGED cookie
      BY <2>1 DEF Request, AccessInv, AccessTypes
    <3>2. q.sessions \subseteq p.sessions
      BY <1>2, <2>1, Issued
    <3> QED BY <1>2, <1>4, <3>1, <3>2 DEF OwnNames, AccessInv
  <2>2. CASE ~Known(p, v)
    <3>1. q.sessions \subseteq p.sessions \cup {Entry(v)} /\ IsNew(NewName)
      BY <1>2, <2>2, Issued
    <3>2. \/ UNCHANGED cookie
          \/ cookie' = [cookie EXCEPT ![v] = NewName]
      BY <2>2 DEF Request
    <3>3. Entry(v).name = NewName /\ Entry(v).by = v
      BY DEF Entry
    <3>4. CASE w = u /\ s = Entry(v)
      <4>1. cookie[x] # NewName
        BY <3>1 DEF IsNew
      <4> QED BY <3>2, <3>3, <3>4, <4>1 DEF AccessInv, AccessTypes
    <3>5. CASE ~(w = u /\ s = Entry(v))
      <4>1. proc[w] # None /\ s \in proc[w].sessions
        BY <1>2, <1>4, <3>1, <3>5
      <4>2. s.name # NewName
        BY <3>1, <4>1 DEF IsNew
      <4>3. s.name = cookie[x]
        BY <3>2, <4>2 DEF AccessInv, AccessTypes
      <4> QED BY <4>1, <4>3 DEF OwnNames, AccessInv
    <3> QED BY <3>4, <3>5
  <2> QED BY <2>1, <2>2
<1>8. OneStarted'
  BY <1>1, <1>2, <1>3, <1>4 DEF OneStarted, AccessInv
<1>9. Links'
  BY <1>1, SameTime, LinksStay DEF AccessInv
<1> QED BY <1>5, <1>6, <1>7, <1>8, <1>9 DEF AccessInv

-----------------------------------------------------------------------------
(* The theorems *)

LEMMA InitAccess == AccessInit => AccessInv
<1> SUFFICES ASSUME AccessInit PROVE AccessInv
  OBVIOUS
<1>1. AccessTypes
  <2>1. now \in 0 .. MaxTime /\ skew \in Skews
    BY RemoteAssumption DEF AccessInit, Skews
  <2>7. up \in BOOLEAN /\ setup \in BOOLEAN /\ died \in BOOLEAN
    BY Zenon DEF AccessInit
  <2>2. account \in Accounts \cup {None}
    BY DEF AccessInit
  <2>3. unit \in [Units -> {"inactive", "active", "failed"}]
    BY DEF AccessInit
  <2>4. proc \in [Units -> Process \cup {None}]
    BY DEF AccessInit
  <2>5. cookie \in [Visitors -> Nat]
    BY DEF AccessInit
  <2>6. DOMAIN link = Accounts /\ DOMAIN issued = Accounts
    BY DEF AccessInit
  <2> QED BY <2>1, <2>2, <2>3, <2>4, <2>5, <2>6, <2>7 DEF AccessTypes
<1>2. Links /\ Sessions /\ OwnNames
  BY DEF AccessInit, Links, Sessions, OwnNames
<1>3. OneStarted
  <2>1. "first" \in Units
    BY DEF Units
  <2> QED BY <2>1 DEF AccessInit, OneStarted
<1> QED BY <1>1, <1>2, <1>3 DEF AccessInv

LEMMA NextAccess == ASSUME AccessInv, [AccessNext]_accessVars PROVE AccessInv'
<1>1. CASE \/ login_start \/ Confirm \/ logout \/ Relaunch \/ FactoryReset
          \/ SetClock \/ UNCHANGED accessVars
  BY <1>1, QuietKeeps
<1>2. CASE Tick \/ Boot \/ PowerOff \/ login_poll \/ open_remote_wizard
  BY <1>2, TickKeeps, BootKeeps, PowerOffKeeps, LoginPollKeeps, LinkKeeps
<1>3. CASE \E u \in Units : Dies(u) \/ Restart(u) \/ \E v \in Visitors : Request(u, v)
  BY <1>3, DiesKeeps, RestartKeeps, RequestKeeps
<1> QED BY <1>1, <1>2, <1>3 DEF AccessNext

LEMMA AccessHolds == AccessSpec => []AccessInv
<1> QED BY InitAccess, NextAccess, PTL DEF AccessSpec

\* Whoever is in came with a JWT that was good when its session began.
LEMMA FadesWithTime == AccessInv => AccessFades
<1> SUFFICES ASSUME AccessInv, NEW a \in Accounts, NEW u \in Units, proc[u] # None,
                    NEW s \in proc[u].sessions, s.exp > now, s.name = cookie[a]
             PROVE  now < issued[a] + JwtTtl + JwtLeeway + MaxSkew + SessionTtl
  BY DEF AccessFades, Inside, Running, Known, Live
<1>1. s.by = a /\ a # Local
  BY LocalAssumption DEF AccessInv, OwnNames, Visitors
<1>2. proc[u] \in Process /\ Minted(proc[u], issued, now)
  BY DEF AccessInv, AccessTypes, Sessions
<1>3. proc[u].mode = "owner" /\ s.exp \in Int
  BY <1>1, <1>2, RemoteAssumption DEF Minted, Process, Session
<1>4. s.exp <= issued[a] + Reach /\ issued[a] \in 0 .. now
  BY <1>1, <1>2, <1>3 DEF Minted
<1> QED BY <1>3, <1>4, RemoteAssumption DEF Reach, AccessInv, AccessTypes

LEMMA FewestIn == ASSUME NEW S, \A s, t \in S : s = t PROVE Cardinality(S) <= 1
<1>1. CASE S = {}
  <2>1. Cardinality({}) = 0
    BY Zenon, FS_EmptySet
  <2> QED BY <1>1, <2>1
<1>2. CASE S # {}
  <2>1. PICK s : S = {s}
    BY <1>2
  <2>2. Cardinality({s}) = 1
    BY Zenon, FS_Singleton
  <2> QED BY <2>1, <2>2
<1> QED BY <1>1, <1>2

LEMMA OnlyThoseIn == AccessInv => OnlyWhoMay
<1> SUFFICES ASSUME AccessInv, NEW u \in Units, proc[u] # None
             PROVE  /\ proc[u].mode = "owner" =>
                          \A s \in proc[u].sessions : s.by = proc[u].owner
                    /\ proc[u].mode = "token" =>
                          /\ Cardinality(proc[u].sessions) <= 1
                          /\ \A s \in proc[u].sessions : s.by = Local
  BY DEF OnlyWhoMay, Running
<1>1. Minted(proc[u], issued, now)
  BY DEF AccessInv, Sessions
<1> QED BY <1>1, FewestIn DEF Minted

LEMMA OneIsUp == AccessInv => OneWizardServes
<1> SUFFICES ASSUME AccessInv PROVE OneWizardServes
  OBVIOUS
<1>1. \A s, t \in Running : s = t
  BY DEF AccessInv, OneStarted, Running
<1>2. up /\ Running = {} => died
  BY DEF AccessInv, OneStarted, Running
<1>3. Cardinality(Running) <= 1
  BY <1>1, FewestIn
<1> QED BY <1>2, <1>3 DEF OneWizardServes

\* auth.rs, commands.rs: whatever is done with a sign-in's tokens, links and
\* sessions, and however the device's clock is set within its bound, it gives access
\* for less than the lives of a JWT and a session, the check's leeway and that bound.
THEOREM AccessEnds == AccessSpec => []AccessFades
BY AccessHolds, FadesWithTime, PTL

\* auth.rs: a process lets in the account it was started for, or the one browser
\* that was first with the launch token.
THEOREM OnlyOwners == AccessSpec => []OnlyWhoMay
BY AccessHolds, OnlyThoseIn, PTL

\* The two units: never both serve, and one does until a wizard dies.
THEOREM OneServes == AccessSpec => []OneWizardServes
BY AccessHolds, OneIsUp, PTL
-----------------------------------------------------------------------------
\* What is appended to the spool, and what a flush reads of it.
SpoolTypes ==
    /\ spool \in Seq(Events \cup {NL})
    /\ emitted \in Seq(Events)
    /\ flush \in [Flushers -> {"idle", "read", "accepted"}]
    /\ body \in [Flushers -> Seq(Events \cup {NL})]
    /\ batches \in Seq(SUBSET Events)

\* What was emitted while no flush ran is in all that a running flush has read,
\* or already with the API: it was there, or there, when the flush began.
ReadHasAll ==
    \A f \in Flushers : flush[f] # "idle" =>
        \A e \in ToSet(emitted) \ exposed : e \in ToSet(body[f]) \/ e \in Uploaded

\* A flush is past its post only with an accepted batch.
AcceptedIsUploaded ==
    \A f \in Flushers : flush[f] = "accepted" => EventsOf(body[f]) \subseteq Uploaded

SpoolInv == SpoolTypes /\ NothingLost /\ ReadHasAll /\ AcceptedIsUploaded

-----------------------------------------------------------------------------
(* Sequences as the sets of their elements *)

LEMMA AppendedSet ==
    ASSUME NEW S, NEW s \in Seq(S), NEW x \in S
    PROVE  Append(s, x) \in Seq(S) /\ ToSet(Append(s, x)) = ToSet(s) \cup {x}
<1>1. Append(s, x) \in Seq(S) /\ Len(Append(s, x)) = Len(s) + 1
  OBVIOUS
<1>2. \A i \in 1 .. Len(s) + 1 : Append(s, x)[i] = IF i = Len(s) + 1 THEN x ELSE s[i]
  OBVIOUS
<1>3. ToSet(Append(s, x)) \subseteq ToSet(s) \cup {x}
  BY <1>1, <1>2 DEF ToSet
<1>4. x \in ToSet(Append(s, x))
  <2>1. Len(s) + 1 \in DOMAIN Append(s, x) /\ Append(s, x)[Len(s) + 1] = x
    BY <1>1, <1>2
  <2> QED BY <2>1 DEF ToSet
<1>5. ToSet(s) \subseteq ToSet(Append(s, x))
  <2> SUFFICES ASSUME NEW i \in DOMAIN s PROVE s[i] \in ToSet(Append(s, x))
    BY DEF ToSet
  <2>1. i \in DOMAIN Append(s, x) /\ Append(s, x)[i] = s[i]
    BY <1>1, <1>2
  <2> QED BY <2>1 DEF ToSet
<1> QED BY <1>1, <1>3, <1>4, <1>5

\* Batches are never taken back.
LEMMA AppendedUpload ==
    ASSUME SpoolTypes, NEW batch \in SUBSET Events, batches' = Append(batches, batch)
    PROVE  Uploaded' = Uploaded \cup batch /\ batches' \in Seq(SUBSET Events)
<1>1. ToSet(batches') = ToSet(batches) \cup {batch} /\ batches' \in Seq(SUBSET Events)
  <2>1. batches \in Seq(SUBSET Events) /\ batch \in SUBSET Events
    BY DEF SpoolTypes
  <2>2. /\ Append(batches, batch) \in Seq(SUBSET Events)
        /\ ToSet(Append(batches, batch)) = ToSet(batches) \cup {batch}
    BY <2>1, AppendedSet
  <2> QED BY <2>2
<1> QED BY <1>1 DEF Uploaded

LEMMA EventsTyped ==
    ASSUME NEW s \in Seq(Events \cup {NL})
    PROVE  EventsOf(s) \subseteq Events
BY DEF EventsOf, ToSet

LEMMA InitSpool == SpoolInit => SpoolInv
BY DEF SpoolInit, SpoolInv, SpoolTypes, NothingLost, ReadHasAll, AcceptedIsUploaded, ToSet

-----------------------------------------------------------------------------
(* One lemma per step *)

LEMMA EmitTextKeeps ==
    ASSUME SpoolInv, NEW e \in Events, EmitText(e)
    PROVE  SpoolInv'
<1> USE DEF SpoolInv
<1>1. /\ spool' \in Seq(Events \cup {NL}) /\ ToSet(spool') = ToSet(spool) \cup {e}
      /\ emitted' \in Seq(Events) /\ ToSet(emitted') = ToSet(emitted) \cup {e}
  <2>1. /\ spool \in Seq(Events \cup {NL}) /\ e \in Events \cup {NL}
        /\ emitted \in Seq(Events) /\ e \in Events
    BY DEF SpoolTypes
  <2>2. /\ Append(spool, e) \in Seq(Events \cup {NL})
        /\ ToSet(Append(spool, e)) = ToSet(spool) \cup {e}
    BY <2>1, AppendedSet
  <2>3. /\ Append(emitted, e) \in Seq(Events)
        /\ ToSet(Append(emitted, e)) = ToSet(emitted) \cup {e}
    BY <2>1, AppendedSet
  <2> QED BY <2>2, <2>3 DEF EmitText
<1>2. UNCHANGED <<flush, body, batches, Uploaded>>
  BY DEF EmitText, Uploaded
<1>3. SpoolTypes'
  BY <1>1, <1>2 DEF SpoolTypes
<1>4. exposed \subseteq exposed' /\ (e \notin exposed' => \A f \in Flushers : flush[f] = "idle")
  BY DEF EmitText
<1>5. NothingLost'
  BY <1>1, <1>2, <1>4 DEF NothingLost
<1>6. ReadHasAll'
  BY <1>1, <1>2, <1>4 DEF ReadHasAll
<1>7. AcceptedIsUploaded'
  BY <1>2 DEF AcceptedIsUploaded
<1> QED BY <1>3, <1>5, <1>6, <1>7

LEMMA NewlineKeeps ==
    ASSUME SpoolInv, NEW e \in Events, EmitNewline(e) \/ EmitDies(e)
    PROVE  SpoolInv'
<1> USE DEF SpoolInv
<1>1. UNCHANGED <<emitted, flush, body, batches, exposed, Uploaded>>
  BY DEF EmitNewline, EmitDies, Uploaded
<1>2. spool' \in Seq(Events \cup {NL}) /\ ToSet(spool) \subseteq ToSet(spool')
  <2>1. spool \in Seq(Events \cup {NL}) /\ NL \in Events \cup {NL}
    BY DEF SpoolTypes
  <2>2. /\ Append(spool, NL) \in Seq(Events \cup {NL})
        /\ ToSet(Append(spool, NL)) = ToSet(spool) \cup {NL}
    BY <2>1, AppendedSet
  <2> QED BY <2>1, <2>2 DEF EmitNewline, EmitDies
<1> QED BY <1>1, <1>2 DEF SpoolTypes, NothingLost, ReadHasAll, AcceptedIsUploaded

LEMMA FlushReadKeeps ==
    ASSUME SpoolInv, NEW f \in Flushers, FlushRead(f)
    PROVE  SpoolInv'
<1> USE DEF SpoolInv
<1>1. UNCHANGED <<spool, emitted, batches, exposed, Uploaded>>
  BY DEF FlushRead, Uploaded
<1>2. \A g \in Flushers : /\ flush'[g] = IF g = f THEN "read" ELSE flush[g]
                          /\ body'[g] = IF g = f THEN spool ELSE body[g]
  BY DEF FlushRead, SpoolTypes
<1>3. SpoolTypes'
  BY <1>1 DEF FlushRead, SpoolTypes
<1>4. NothingLost'
  BY <1>1 DEF NothingLost
<1>5. ReadHasAll' /\ AcceptedIsUploaded'
  BY <1>1, <1>2 DEF NothingLost, ReadHasAll, AcceptedIsUploaded
<1> QED BY <1>3, <1>4, <1>5

LEMMA AcceptKeeps ==
    ASSUME SpoolInv, NEW f \in Flushers, Accept(f)
    PROVE  SpoolInv'
<1> USE DEF SpoolInv
<1>1. UNCHANGED <<spool, emitted, exposed>>
  BY DEF Accept
<1>2. EventsOf(body[f]) \subseteq Events
  BY EventsTyped DEF SpoolTypes
<1>3. Uploaded' = Uploaded \cup EventsOf(body[f]) /\ batches' \in Seq(SUBSET Events)
  BY <1>2, AppendedUpload DEF Accept
<1>4. \A g \in Flushers :
        /\ flush'[g] # "idle" => body'[g] = body[g] /\ flush[g] # "idle"
        /\ flush'[g] = "accepted" => g = f \/ flush[g] = "accepted"
  BY DEF Accept, FlushEnds, SpoolTypes
<1>5. SpoolTypes'
  <2>1. flush' \in [Flushers -> {"idle", "read", "accepted"}]
    BY DEF Accept, FlushEnds, SpoolTypes
  <2>2. <<>> \in Seq(Events \cup {NL})
    OBVIOUS
  <2>3. body' \in [Flushers -> Seq(Events \cup {NL})]
    BY <2>2 DEF Accept, FlushEnds, SpoolTypes
  <2> QED BY <1>1, <1>3, <2>1, <2>3 DEF SpoolTypes
<1>6. NothingLost'
  BY <1>1, <1>3 DEF NothingLost
<1>7. ReadHasAll'
  BY <1>1, <1>3, <1>4 DEF ReadHasAll
<1>8. AcceptedIsUploaded'
  BY <1>3, <1>4 DEF AcceptedIsUploaded
<1> QED BY <1>5, <1>6, <1>7, <1>8

LEMMA RejectKeeps ==
    ASSUME SpoolInv, NEW f \in Flushers, Reject(f)
    PROVE  SpoolInv'
<1> USE DEF SpoolInv
<1>1. UNCHANGED <<spool, emitted, batches, exposed, Uploaded>>
  BY DEF Reject, Uploaded
<1>2. \A g \in Flushers : flush'[g] # "idle" => flush'[g] = flush[g] /\ body'[g] = body[g]
  BY DEF Reject, FlushEnds, SpoolTypes
<1>3. SpoolTypes'
  BY <1>1 DEF Reject, FlushEnds, SpoolTypes
<1> QED BY <1>1, <1>2, <1>3 DEF NothingLost, ReadHasAll, AcceptedIsUploaded

\* The one step that shortens the spool: what it drops unread is exposed.
LEMMA TruncateKeeps ==
    ASSUME SpoolInv, NEW f \in Flushers, Truncate(f)
    PROVE  SpoolInv'
<1> USE DEF SpoolInv
<1>1. UNCHANGED <<emitted, batches, exposed, Uploaded>>
  BY DEF Truncate, Uploaded
<1>2. \A g \in Flushers : flush'[g] # "idle" => flush'[g] = flush[g] /\ body'[g] = body[g]
  BY DEF Truncate, FlushEnds, SpoolTypes
<1>3. SpoolTypes'
  BY <1>1 DEF Truncate, FlushEnds, SpoolTypes
<1>4. NothingLost'
  <2> SUFFICES ASSUME NEW e \in ToSet(emitted) \ exposed PROVE e \in Uploaded
    BY <1>1 DEF NothingLost
  <2>1. flush[f] = "accepted" /\ e # NL
    BY NewlineAssumption DEF Truncate, SpoolTypes, ToSet
  <2> QED BY <2>1 DEF ReadHasAll, AcceptedIsUploaded, EventsOf
<1>5. ReadHasAll' /\ AcceptedIsUploaded'
  BY <1>1, <1>2 DEF ReadHasAll, AcceptedIsUploaded
<1> QED BY <1>3, <1>4, <1>5

LEMMA NextKeeps ==
    ASSUME SpoolInv, [SpoolNext]_spoolVars
    PROVE  SpoolInv'
<1>1. CASE UNCHANGED spoolVars
  BY <1>1 DEF spoolVars, SpoolInv, SpoolTypes, NothingLost, ReadHasAll, AcceptedIsUploaded,
     Uploaded
<1>2. CASE \E e \in Events : EmitText(e) \/ EmitNewline(e) \/ EmitDies(e)
  BY <1>2, EmitTextKeeps, NewlineKeeps
<1>3. CASE \E f \in Flushers : FlushRead(f) \/ Accept(f) \/ Reject(f) \/ Truncate(f)
  BY <1>3, FlushReadKeeps, AcceptKeeps, RejectKeeps, TruncateKeeps
<1> QED BY <1>1, <1>2, <1>3 DEF SpoolNext

\* audit.rs: an emitted event is in the spool or with the API, whatever fails,
\* repeats, overlaps or dies, unless it was appended in the middle of a flush.
THEOREM NoneLost == SpoolSpec => []NothingLost
<1>1. SpoolInv => NothingLost
  BY DEF SpoolInv
<1> QED BY <1>1, InitSpool, NextKeeps, PTL DEF SpoolSpec

-----------------------------------------------------------------------------
(* The order of releases, and the tracker. *)

LEMMA TextIrreflexive == ASSUME NEW s \in Seq(Nat) PROVE ~TextLess(s, s)
  BY DEF TextLess

LEMMA TextTransitive ==
    ASSUME NEW s \in Seq(Nat), NEW t \in Seq(Nat), NEW u \in Seq(Nat),
           TextLess(s, t), TextLess(t, u)
    PROVE  TextLess(s, u)
<1>1. PICK k \in 0 .. Len(s) : /\ k < Len(t) /\ \A i \in 1 .. k : s[i] = t[i]
                               /\ k < Len(s) => s[k + 1] < t[k + 1]
  BY DEF TextLess
<1>2. PICK l \in 0 .. Len(t) : /\ l < Len(u) /\ \A i \in 1 .. l : t[i] = u[i]
                               /\ l < Len(t) => t[l + 1] < u[l + 1]
  BY DEF TextLess
<1>3. /\ k \in Nat /\ l \in Nat /\ Len(s) \in Nat /\ Len(t) \in Nat /\ Len(u) \in Nat
      /\ \A i \in 1 .. Len(s) : s[i] \in Nat
      /\ \A i \in 1 .. Len(t) : t[i] \in Nat
      /\ \A i \in 1 .. Len(u) : u[i] \in Nat
  OBVIOUS
<1>4. CASE k <= l
  <2>1. \A i \in 1 .. k : s[i] = u[i]
    BY <1>1, <1>2, <1>3, <1>4
  <2>2. k < Len(u)
    BY <1>2, <1>3, <1>4
  <2>3. ASSUME k < Len(s) PROVE s[k + 1] < u[k + 1]
    <3>1. s[k + 1] < t[k + 1] /\ k + 1 \in 1 .. Len(s) /\ k + 1 \in 1 .. Len(t) /\ k + 1 \in 1 .. Len(u)
      BY <1>1, <1>3, <2>2, <2>3
    <3>2. t[k + 1] <= u[k + 1]
      <4>1. CASE k = l
        <5>1. k < Len(t)  BY ONLY <1>1
        <5>2. l < Len(t)  BY ONLY <4>1, <5>1
        <5>3. t[l + 1] < u[l + 1]  BY ONLY <1>2, <5>2
        <5>4. t[k + 1] < u[k + 1]  BY ONLY <4>1, <5>3
        <5>5. t[k + 1] \in Nat /\ u[k + 1] \in Nat  BY ONLY <1>3, <3>1
        <5> QED BY ONLY <5>4, <5>5
      <4>2. CASE k < l
        <5>1. k + 1 \in 1 .. l  BY <1>3, <4>2
        <5>2. t[k + 1] = u[k + 1]  BY ONLY <1>2, <5>1
        <5>3. t[k + 1] \in Nat /\ u[k + 1] \in Nat  BY <1>3, <3>1
        <5> QED BY ONLY <5>2, <5>3
      <4> QED BY <1>3, <1>4, <4>1, <4>2
    <3>3. s[k + 1] \in Nat /\ t[k + 1] \in Nat /\ u[k + 1] \in Nat
      BY <1>3, <3>1
    <3> QED BY <3>1, <3>2, <3>3
  <2> QED BY <1>1, <2>1, <2>2, <2>3 DEF TextLess
<1>5. CASE l < k
  <2>1. l \in 0 .. Len(s) /\ l < Len(s) /\ l < Len(t) /\ l + 1 \in 1 .. k
    BY <1>1, <1>3, <1>5
  <2>2. \A i \in 1 .. l : s[i] = u[i]
    BY <1>1, <1>2, <1>3, <1>5
  <2>3. s[l + 1] < u[l + 1]
    <3>1. s[l + 1] = t[l + 1]  BY ONLY <1>1, <2>1
    <3>2. t[l + 1] < u[l + 1]  BY ONLY <1>2, <2>1
    <3> QED BY ONLY <3>1, <3>2
  <2> QED BY <1>2, <2>1, <2>2, <2>3 DEF TextLess
<1> QED BY <1>3, <1>4, <1>5

\* Of two releases at most one is the newer, and what is newer than something
\* newer is newer.
LEMMA GreaterOrders ==
    /\ \A a \in Tag : ~Greater(a, a)
    /\ \A a, b, c \in Tag : Greater(a, b) /\ Greater(b, c) => Greater(a, c)
<1>1. ASSUME NEW a \in Tag PROVE ~Greater(a, a)
  BY <1>1, TextIrreflexive DEF Greater, Tag
<1>2. ASSUME NEW a \in Tag, NEW b \in Tag, NEW c \in Tag, Greater(a, b), Greater(b, c)
      PROVE  Greater(a, c)
  <2>1. /\ a.core \in Nat /\ b.core \in Nat /\ c.core \in Nat
        /\ a.suffix \in Seq(Nat) /\ b.suffix \in Seq(Nat) /\ c.suffix \in Seq(Nat)
    BY DEF Tag
  <2>2. CASE a.core > b.core \/ b.core > c.core
    BY <1>2, <2>1, <2>2 DEF Greater
  <2>3. CASE a.core = b.core /\ b.core = c.core
    <3>1. b.suffix # Final /\ c.suffix # Final
      BY <1>2, <2>1, <2>3 DEF Greater
    <3>2. CASE a.suffix = Final
      BY <2>3, <3>1, <3>2 DEF Greater
    <3>3. CASE a.suffix # Final
      <4>1. TextLess(b.suffix, a.suffix) /\ TextLess(c.suffix, b.suffix)
        BY <1>2, <2>1, <2>3, <3>1, <3>3 DEF Greater
      <4>2. TextLess(c.suffix, a.suffix)
        BY <2>1, <4>1, TextTransitive
      <4> QED BY <2>3, <3>1, <3>3, <4>2 DEF Greater
    <3> QED BY <3>2, <3>3
  <2> QED BY <1>2, <2>1, <2>2, <2>3 DEF Greater
<1> QED BY <1>1, <1>2

\* version.rs orders releases strictly, however their suffixes compare.
THEOREM NewerOrders ==
    /\ \A i \in Releases : ~Newer(i, i)
    /\ \A i, j, k \in Releases : Newer(i, j) /\ Newer(j, k) => Newer(i, k)
<1>1. ASSUME NEW i \in Releases PROVE History[i].tag \in Tag
  <2>1. History[i] \in Release
    BY <1>1, HistoryAssumption DEF Releases
  <2> QED BY <2>1 DEF Release
<1> QED BY <1>1, GreaterOrders DEF Newer

-----------------------------------------------------------------------------
(* The invariant: bumps, branches and clones only go forward. *)

Bumps == Profiles \X Releases
PinsOf == [Profiles -> Releases]

\* f is at least g, profile by profile.
Ahead(f, g) == \A p \in Profiles : f[p] = g[p] \/ Newer(f[p], g[p])
Fresh(n, pins) == Newer(n[2], pins[n[1]])

Steps == {"idle", "push", "pr"}
Jobs == [pc : Steps, base : PinsOf, bumps : SUBSET Bumps]
Clones == [pc : Steps, base : PinsOf, head : PinsOf, tree : PinsOf, bumps : SUBSET Bumps]
HasWork(j) == j.pc = "idle" <=> j.bumps = {}

\* A bump of a run is newer than what the run has checked out.
JobFresh(j) == \A n \in j.bumps : Fresh(n, j.base)

\* In the clone the files are at least what is committed, and that is at least
\* the main it came from; the bumps to come are newer, one for each profile.
ToCome(c) == IF c.pc = "pr" THEN Others(c.bumps) ELSE c.bumps
CloneFresh(c) ==
    /\ Ahead(c.head, c.base) /\ Ahead(c.tree, c.head)
    /\ \A n \in ToCome(c) : Fresh(n, c.tree)
    /\ \A n, m \in c.bumps : n[1] = m[1] => n = m

\* A branch has its bump and nothing that goes back; one that a workflow run
\* has written has that bump only.
BranchFresh(n, b, alone) ==
    /\ n \in Bumps /\ b.base \in PinsOf /\ b.pins \in PinsOf
    /\ b.pins[n[1]] = n[2] /\ Fresh(n, b.base) /\ Ahead(b.pins, b.base)
    /\ alone => \A p \in Profiles \ {n[1]} : b.pins[p] = b.base[p]

RepoOK ==
    /\ upstream \in PinsOf /\ main \in PinsOf
    /\ open \subseteq Bumps
    /\ \A n \in DOMAIN branch : BranchFresh(n, branch[n], n \notin byHand)
    /\ open \subseteq DOMAIN branch
JobOK(j) == j \in Jobs /\ HasWork(j) /\ JobFresh(j)
JobsOK == DOMAIN job = Runs /\ \A r \in Runs : JobOK(job[r])
CloneOK(c) == c \in Clones /\ HasWork(c) /\ CloneFresh(c)
IInv == RepoOK /\ JobsOK /\ CloneOK(clone)

LEMMA FirstBump == ASSUME NEW S, S # {} PROVE First(S) \in S
  BY DEF First

LEMMA Onwards ==
    ASSUME NEW f \in PinsOf, NEW g \in PinsOf, NEW h \in PinsOf, Ahead(f, g), Ahead(g, h)
    PROVE  Ahead(f, h)
<1> SUFFICES ASSUME NEW p \in Profiles PROVE f[p] = h[p] \/ Newer(f[p], h[p])
  BY DEF Ahead
<1>1. f[p] \in Releases /\ g[p] \in Releases /\ h[p] \in Releases
  BY DEF PinsOf
<1> QED BY <1>1, NewerOrders DEF Ahead

\* A fresh bump moves one profile forward.
LEMMA Bumped ==
    ASSUME NEW n \in Bumps, NEW f \in PinsOf, NEW g \in PinsOf, Ahead(f, g), Fresh(n, f)
    PROVE  LET h == bump_pinned_version(f, n) IN
           /\ h \in PinsOf /\ h[n[1]] = n[2] /\ \A p \in Profiles \ {n[1]} : h[p] = f[p]
           /\ Ahead(h, f) /\ Ahead(h, g) /\ Fresh(n, g)
<1> DEFINE h == bump_pinned_version(f, n)
<1>1. n[1] \in Profiles /\ n[2] \in Releases
  BY DEF Bumps
<1>2. h \in PinsOf /\ h[n[1]] = n[2] /\ \A p \in Profiles \ {n[1]} : h[p] = f[p]
  BY <1>1 DEF PinsOf, bump_pinned_version
<1>3. Ahead(h, f)
  BY <1>1, <1>2 DEF Ahead, Fresh
<1>4. Ahead(h, g)
  BY <1>2, <1>3, Onwards
<1>5. Fresh(n, g)
  <2>1. f[n[1]] \in Releases /\ g[n[1]] \in Releases
    BY <1>1 DEF PinsOf
  <2> QED BY <1>1, <2>1, NewerOrders DEF Ahead, Fresh
<1> QED BY <1>2, <1>3, <1>4, <1>5

\* What discover finds is fresh and one for each profile.
LEMMA Discovered ==
    ASSUME upstream \in PinsOf, NEW pins \in PinsOf, NEW answered \in SUBSET Profiles
    PROVE  /\ discover(pins, answered) \in SUBSET Bumps
           /\ \A n \in discover(pins, answered) : Fresh(n, pins) /\ n[2] = upstream[n[1]]
           /\ \A n, m \in discover(pins, answered) : n[1] = m[1] => n = m
  BY DEF discover, Bumps, PinsOf, Fresh

LEMMA InitOK == Init => IInv
<1> SUFFICES ASSUME Init PROVE IInv
  OBVIOUS
<1>1. Start \in PinsOf
  BY HistoryAssumption DEF Start, PinsOf
<1>2. RepoOK
  BY <1>1 DEF Init, RepoOK, Bumps
<1>3. NoJob \in Jobs /\ HasWork(NoJob) /\ JobFresh(NoJob)
  BY <1>1 DEF NoJob, Jobs, Steps, HasWork, JobFresh
<1>4. JobsOK
  BY <1>3 DEF Init, JobsOK, JobOK
<1>5. clone \in Clones /\ HasWork(clone)
  BY <1>1 DEF Init, Clones, Steps, HasWork
<1>6. CloneFresh(clone)
  BY DEF Init, CloneFresh, Ahead, ToCome
<1> QED BY <1>2, <1>4, <1>5, <1>6 DEF IInv, CloneOK

-----------------------------------------------------------------------------
(* Steps of the workflow. *)

\* A run that goes to an admissible state leaves the runs as they should be.
LEMMA NowOK ==
    ASSUME JobsOK, NEW r \in Runs, NEW j, JobOK(j), Now(r, j)
    PROVE  JobsOK'
<1>1. DOMAIN job' = Runs
  BY DEF Now, JobsOK
<1>2. ASSUME NEW q \in Runs PROVE JobOK(job'[q])
  <2>1. CASE q = r  BY <2>1 DEF Now, JobsOK
  <2>2. CASE q # r  BY <2>2 DEF Now, JobsOK
  <2> QED BY <2>1, <2>2
<1> QED BY <1>1, <1>2 DEF JobsOK

LEMMA NoJobOK == JobOK(NoJob)
<1>1. Start \in PinsOf
  BY HistoryAssumption DEF Start, PinsOf
<1> QED BY <1>1 DEF NoJob, Jobs, Steps, HasWork, JobFresh, JobOK

\* A branch that is written as it should be leaves the others as they were.
LEMMA WrittenOK ==
    ASSUME NEW n, NEW base, NEW pins, NEW H, Written(n, base, pins),
           \A m \in DOMAIN branch : BranchFresh(m, branch[m], m \notin byHand),
           BranchFresh(n, [base |-> base, pins |-> pins], n \notin H),
           \A m : m # n => (m \in H <=> m \in byHand)
    PROVE  /\ \A m \in DOMAIN branch' : BranchFresh(m, branch'[m], m \notin H)
           /\ DOMAIN branch \subseteq DOMAIN branch'
<1>1. DOMAIN branch' = DOMAIN branch \cup {n}
  BY DEF Written
<1>2. ASSUME NEW m \in DOMAIN branch' PROVE BranchFresh(m, branch'[m], m \notin H)
  <2>1. CASE m = n
    <3>1. branch'[m] = [base |-> base, pins |-> pins]
      BY <1>1, <2>1 DEF Written
    <3> QED BY <2>1, <3>1
  <2>2. CASE m # n
    <3>1. m \in DOMAIN branch /\ branch'[m] = branch[m]
      BY <1>1, <2>2 DEF Written
    <3>2. BranchFresh(m, branch[m], m \notin byHand) /\ (m \in H <=> m \in byHand)
      BY <2>2, <3>1
    <3> QED BY <3>1, <3>2 DEF BranchFresh
  <2> QED BY <2>1, <2>2
<1> QED BY <1>1, <1>2

LEMMA ProposeOK ==
    ASSUME IInv, NEW r \in Runs, cmd_propose(r)
    PROVE  IInv'
<1>1. PICK answered \in SUBSET Profiles :
        /\ discover(main, answered) # {}
        /\ Now(r, [pc |-> "push", base |-> main, bumps |-> discover(main, answered)])
  BY DEF cmd_propose
<1>2. main \in PinsOf /\ upstream \in PinsOf
  BY DEF IInv, RepoOK
<1>3. JobOK([pc |-> "push", base |-> main, bumps |-> discover(main, answered)])
  BY <1>1, <1>2, Discovered DEF JobOK, Jobs, Steps, HasWork, JobFresh
<1>4. JobsOK'
  BY <1>1, <1>3, NowOK DEF IInv
<1>5. RepoOK' /\ CloneOK(clone)'
  BY DEF cmd_propose, repo, IInv, RepoOK
<1> QED BY <1>4, <1>5 DEF IInv

LEMMA PushOK ==
    ASSUME IInv, NEW r \in Runs, Push(r)
    PROVE  IInv'
<1> DEFINE j == job[r]
           n == First(j.bumps)
           pins == bump_pinned_version(j.base, n)
<1>1. j \in Jobs /\ j.bumps # {} /\ JobFresh(j)
  BY DEF IInv, JobsOK, JobOK, HasWork, Push
<1>2. n \in j.bumps /\ n \in Bumps /\ j.base \in PinsOf /\ Fresh(n, j.base)
  BY <1>1, FirstBump DEF Jobs, JobFresh
<1>3. Ahead(j.base, j.base)
  BY DEF Ahead
<1>4. /\ pins \in PinsOf /\ pins[n[1]] = n[2] /\ \A p \in Profiles \ {n[1]} : pins[p] = j.base[p]
      /\ Ahead(pins, j.base)
  BY <1>2, <1>3, Bumped
<1>5. BranchFresh(n, [base |-> j.base, pins |-> pins], n \notin byHand \ {n})
  BY <1>2, <1>4 DEF BranchFresh
<1>6. Written(n, j.base, pins) /\ byHand' = byHand \ {n}
  BY DEF Push
<1>7. \A m \in DOMAIN branch : BranchFresh(m, branch[m], m \notin byHand)
  BY DEF IInv, RepoOK
<1>8. /\ \A m \in DOMAIN branch' : BranchFresh(m, branch'[m], m \notin byHand \ {n})
      /\ DOMAIN branch \subseteq DOMAIN branch'
  <2>1. \A m : m # n => (m \in byHand \ {n} <=> m \in byHand)
    OBVIOUS
  <2> HIDE DEF n, j, pins
  <2> QED BY <1>5, <1>6, <1>7, <2>1, WrittenOK
<1>9. RepoOK'
  BY <1>6, <1>8 DEF Push, IInv, RepoOK
<1>10. JobsOK'
  <2>1. JobOK([pc |-> "pr", base |-> j.base, bumps |-> j.bumps])
    BY <1>1 DEF JobOK, Jobs, Steps, HasWork, JobFresh
  <2>2. [j EXCEPT !.pc = "pr"] = [pc |-> "pr", base |-> j.base, bumps |-> j.bumps]
    BY <1>1 DEF Jobs
  <2>3. Now(r, [pc |-> "pr", base |-> j.base, bumps |-> j.bumps])
    BY <2>2 DEF Push
  <2> QED BY <2>1, <2>3, NowOK DEF IInv
<1>11. CloneOK(clone)'
  BY DEF Push, IInv
<1> QED BY <1>9, <1>10, <1>11 DEF IInv

LEMMA OpenOrEditOK ==
    ASSUME IInv, NEW r \in Runs, OpenOrEdit(r)
    PROVE  IInv'
<1> DEFINE j == job[r]
           n == First(j.bumps)
<1>1. j \in Jobs /\ j.bumps # {} /\ JobFresh(j)
  BY DEF IInv, JobsOK, JobOK, HasWork, OpenOrEdit
<1>2. n \in Bumps
  BY <1>1, FirstBump DEF Jobs
<1>3. RepoOK'
  BY <1>2 DEF OpenOrEdit, IInv, RepoOK
<1>4. JobOK(Onward(j))
  <2>1. CASE Others(j.bumps) = {}
    BY <2>1, NoJobOK DEF Onward
  <2>2. CASE Others(j.bumps) # {}
    <3>1. Onward(j) = [pc |-> "push", base |-> j.base, bumps |-> Others(j.bumps)]
      BY <1>1, <2>2 DEF Onward, Jobs
    <3>2. JobOK([pc |-> "push", base |-> j.base, bumps |-> Others(j.bumps)])
      BY <1>1, <2>2 DEF JobOK, Jobs, Steps, HasWork, JobFresh, Others
    <3> QED BY <3>1, <3>2
  <2> QED BY <2>1, <2>2
<1>5. JobsOK'
  BY <1>4, NowOK DEF OpenOrEdit, IInv
<1>6. CloneOK(clone)'
  BY DEF OpenOrEdit, IInv
<1> QED BY <1>3, <1>5, <1>6 DEF IInv

LEMMA RunFailsOK ==
    ASSUME IInv, NEW r \in Runs, RunFails(r)
    PROVE  IInv'
<1>1. JobsOK'
  BY NoJobOK, NowOK DEF RunFails, IInv
<1>2. RepoOK' /\ CloneOK(clone)'
  BY DEF RunFails, repo, IInv, RepoOK
<1> QED BY <1>1, <1>2 DEF IInv

-----------------------------------------------------------------------------
(* Steps of the clone. *)

\* These change nothing else that the invariant looks at.
LEMMA CloneOnly ==
    ASSUME IInv, CloneOK(clone'), UNCHANGED <<upstream, main, branch, open, byHand, job>>
    PROVE  IInv'
  BY DEF IInv, RepoOK, JobsOK, CloneOK

LEMMA IdleOK ==
    ASSUME NEW c \in Clones, Ahead(c.head, c.base), Ahead(c.tree, c.head)
    PROVE  CloneOK(Idle(c))
<1> DEFINE d == [pc |-> "idle", base |-> c.base, head |-> c.head, tree |-> c.tree, bumps |-> {}]
<1>1. Idle(c) = [[c EXCEPT !.pc = "idle"] EXCEPT !.bumps = {}]
  BY DEF Idle, Clones
<1>2. Idle(c) = d
  BY <1>1 DEF Clones
<1>3. CloneOK(d)
  BY DEF CloneOK, Clones, Steps, HasWork, CloneFresh, ToCome
<1> QED BY <1>2, <1>3

LEMMA PullOK == ASSUME IInv, Pull PROVE IInv'
<1> DEFINE d == [pc |-> clone.pc, base |-> main, head |-> main, tree |-> main, bumps |-> clone.bumps]
<1>1. clone \in Clones /\ clone.pc = "idle" /\ main \in PinsOf
  BY DEF IInv, RepoOK, CloneOK, Pull
<1>2. clone' = d
  BY <1>1 DEF Pull, Clones
<1>3. Ahead(main, main)
  BY DEF Ahead
<1>4. clone.bumps = {}
  BY <1>1 DEF IInv, CloneOK, HasWork
<1>5. CloneOK(d)
  BY <1>1, <1>3, <1>4 DEF CloneOK, Clones, Steps, HasWork, CloneFresh, ToCome
<1> QED BY <1>2, <1>5, CloneOnly DEF Pull, repo

LEMMA ApplyOK == ASSUME IInv, cmd_apply PROVE IInv'
<1>1. clone \in Clones /\ upstream \in PinsOf /\ CloneOK(clone)
  BY DEF IInv, RepoOK, CloneOK
<1>2. PICK answered \in SUBSET Profiles :
        /\ clone.pc = "idle"
        /\ clone' = [clone EXCEPT !.tree = [p \in Profiles |->
               IF <<p, upstream[p]>> \in discover(clone.tree, answered) THEN upstream[p] ELSE clone.tree[p]]]
  BY DEF cmd_apply, Command
<1> DEFINE t == [p \in Profiles |->
               IF <<p, upstream[p]>> \in discover(clone.tree, answered) THEN upstream[p] ELSE clone.tree[p]]
           d == [pc |-> "idle", base |-> clone.base, head |-> clone.head, tree |-> t, bumps |-> {}]
<1>3. clone.bumps = {}
  BY <1>1, <1>2 DEF CloneOK, HasWork
<1>4. /\ clone.tree \in PinsOf /\ clone.head \in PinsOf /\ Ahead(clone.head, clone.base)
      /\ Ahead(clone.tree, clone.head)
  BY <1>1 DEF Clones, CloneOK, CloneFresh
<1>5. t \in PinsOf
  BY <1>1, <1>4 DEF PinsOf
<1>6. Ahead(t, clone.tree)
  BY <1>1, <1>4, Discovered DEF Ahead, Fresh
<1>7. Ahead(t, clone.head)
  BY <1>4, <1>5, <1>6, Onwards
<1>8. clone' = d
  BY <1>1, <1>2, <1>3 DEF Clones
<1>9. CloneOK(d)
  BY <1>1, <1>4, <1>5, <1>7 DEF CloneOK, Clones, Steps, HasWork, CloneFresh, ToCome
<1> QED BY <1>8, <1>9, CloneOnly DEF cmd_apply, repo

LEMMA OpenPrOK == ASSUME IInv, cmd_open_pr PROVE IInv'
<1>1. clone \in Clones /\ upstream \in PinsOf /\ CloneOK(clone)
  BY DEF IInv, RepoOK, CloneOK
<1>2. PICK answered \in SUBSET Profiles :
        /\ discover(clone.tree, answered) # {}
        /\ clone' = [clone EXCEPT !.pc = "push", !.bumps = discover(clone.tree, answered)]
  BY DEF cmd_open_pr
<1> DEFINE found == discover(clone.tree, answered)
           d == [pc |-> "push", base |-> clone.base, head |-> clone.head, tree |-> clone.tree, bumps |-> found]
<1>3. clone.tree \in PinsOf /\ Ahead(clone.head, clone.base) /\ Ahead(clone.tree, clone.head)
  BY <1>1 DEF Clones, CloneOK, CloneFresh
<1>4. /\ found \in SUBSET Bumps /\ \A n \in found : Fresh(n, clone.tree)
      /\ \A n, m \in found : n[1] = m[1] => n = m
  BY <1>1, <1>3, Discovered
<1>5. clone' = d
  BY <1>1, <1>2 DEF Clones
<1>6. CloneOK(d)
  <2> HIDE DEF found
  <2> QED BY <1>1, <1>2, <1>3, <1>4 DEF CloneOK, Clones, Steps, HasWork, CloneFresh, ToCome, found
<1> QED BY <1>5, <1>6, CloneOnly DEF cmd_open_pr, repo

\* What a commit leaves: the first bump is in, the others are still fresh.
\* A clone with both its commit and its files replaced, written out.
LEMMA Rebuilt ==
    ASSUME NEW c \in Clones, NEW h \in PinsOf, NEW t \in PinsOf
    PROVE  [c EXCEPT !.head = h, !.tree = t]
             = [pc |-> c.pc, base |-> c.base, head |-> h, tree |-> t, bumps |-> c.bumps]
<1>1. [c EXCEPT !.head = h, !.tree = t] = [[c EXCEPT !.head = h] EXCEPT !.tree = t]
  BY DEF Clones
<1>2. [c EXCEPT !.head = h]
        = [pc |-> c.pc, base |-> c.base, head |-> h, tree |-> c.tree, bumps |-> c.bumps]
  BY DEF Clones
<1>3. [c EXCEPT !.head = h] \in Clones
  BY DEF Clones
<1>4. ASSUME NEW e \in Clones
      PROVE  [e EXCEPT !.tree = t]
               = [pc |-> e.pc, base |-> e.base, head |-> e.head, tree |-> t, bumps |-> e.bumps]
  BY DEF Clones
<1> QED BY <1>1, <1>2, <1>3, <1>4

LEMMA CommittedOK ==
    ASSUME CloneOK(clone), clone.pc = "push"
    PROVE  LET n == First(clone.bumps)
               c == Committed IN
           /\ n \in Bumps /\ n \in clone.bumps
           /\ c \in Clones /\ c.base = clone.base /\ c.bumps = clone.bumps /\ c.pc = "push"
           /\ c.head[n[1]] = n[2] /\ Fresh(n, clone.base)
           /\ Ahead(c.head, c.base) /\ Ahead(c.tree, c.head)
           /\ \A m \in Others(clone.bumps) : Fresh(m, c.tree)
<1> DEFINE n == First(clone.bumps)
           h == bump_pinned_version(clone.head, n)
           t == bump_pinned_version(clone.tree, n)
           d == [pc |-> "push", base |-> clone.base, head |-> h, tree |-> t, bumps |-> clone.bumps]
<1>1. /\ clone \in Clones /\ clone.pc = "push" /\ clone.bumps # {} /\ CloneFresh(clone)
      /\ clone.base \in PinsOf /\ clone.head \in PinsOf /\ clone.tree \in PinsOf
      /\ clone.bumps \in SUBSET Bumps
  BY DEF CloneOK, HasWork, Clones
<1>2. n \in clone.bumps /\ n \in Bumps
  BY <1>1, FirstBump
<1>3. Fresh(n, clone.tree) /\ Ahead(clone.tree, clone.head) /\ Ahead(clone.head, clone.base)
  BY <1>1, <1>2 DEF CloneFresh, ToCome
<1>4. /\ t \in PinsOf /\ t[n[1]] = n[2] /\ \A p \in Profiles \ {n[1]} : t[p] = clone.tree[p]
      /\ Fresh(n, clone.head)
  BY <1>1, <1>2, <1>3, Bumped
<1>5. /\ h \in PinsOf /\ h[n[1]] = n[2] /\ \A p \in Profiles \ {n[1]} : h[p] = clone.head[p]
      /\ Ahead(h, clone.base) /\ Fresh(n, clone.base)
  BY <1>1, <1>2, <1>3, <1>4, Bumped
<1>6. Ahead(t, h)
  BY <1>3, <1>4, <1>5 DEF Ahead
<1>7. \A m \in Others(clone.bumps) : Fresh(m, t)
  <2> SUFFICES ASSUME NEW m \in Others(clone.bumps) PROVE Fresh(m, t)
    OBVIOUS
  <2>1. m \in clone.bumps /\ m # n /\ m \in Bumps
    BY <1>1 DEF Others
  <2>2. m[1] # n[1] /\ m[1] \in Profiles
    BY <1>1, <1>2, <2>1 DEF CloneFresh, Bumps
  <2>3. Fresh(m, clone.tree)
    BY <1>1, <2>1 DEF CloneFresh, ToCome
  <2> QED BY <1>4, <2>2, <2>3 DEF Fresh
<1>8. Committed = d
  <2> HIDE DEF h, t
  <2>1. Committed = [clone EXCEPT !.head = h, !.tree = t]
    BY Zenon DEF Committed, h, t
  <2> QED BY ONLY <1>1, <1>4, <1>5, <2>1, Rebuilt
<1>9. d \in Clones
  BY <1>1, <1>4, <1>5 DEF Clones, Steps
<1> QED BY <1>2, <1>5, <1>6, <1>7, <1>8, <1>9

LEMMA PushByHandOK == ASSUME IInv, open_one_pr_push PROVE IInv'
<1> DEFINE n == First(clone.bumps)
           c == Committed
           d == [pc |-> "pr", base |-> c.base, head |-> c.head, tree |-> c.tree, bumps |-> c.bumps]
<1>1. CloneOK(clone) /\ clone.pc = "push" /\ clone' = [c EXCEPT !.pc = "pr"]
  BY DEF IInv, open_one_pr_push
<1>2. /\ n \in Bumps /\ n \in clone.bumps
      /\ c \in Clones /\ c.base = clone.base /\ c.bumps = clone.bumps /\ c.pc = "push"
      /\ c.head[n[1]] = n[2] /\ Fresh(n, clone.base)
      /\ Ahead(c.head, c.base) /\ Ahead(c.tree, c.head)
      /\ \A m \in Others(clone.bumps) : Fresh(m, c.tree)
  BY <1>1, CommittedOK
<1> HIDE DEF n, c
<1>3. clone' = d
  BY <1>1, <1>2 DEF Clones
<1>4. CloneOK(d)
  <2>1. d \in Clones /\ HasWork(d)
    BY <1>2 DEF Clones, Steps, HasWork
  <2>2. \A k, m \in c.bumps : k[1] = m[1] => k = m
    BY <1>1, <1>2 DEF CloneOK, CloneFresh
  <2> QED BY <1>2, <2>1, <2>2 DEF CloneOK, CloneFresh, ToCome
<1>5. Written(n, clone.base, c.head) /\ byHand' = byHand \cup {n}
  <2>1. clone'.head = c.head
    BY <1>3
  <2> QED BY <2>1 DEF open_one_pr_push, n
<1>6. BranchFresh(n, [base |-> clone.base, pins |-> c.head], n \notin byHand \cup {n})
  BY <1>2 DEF BranchFresh, Clones
<1>7. \A m \in DOMAIN branch : BranchFresh(m, branch[m], m \notin byHand)
  BY DEF IInv, RepoOK
<1>8. /\ \A m \in DOMAIN branch' : BranchFresh(m, branch'[m], m \notin byHand \cup {n})
      /\ DOMAIN branch \subseteq DOMAIN branch'
  <2>1. \A m : m # n => (m \in byHand \cup {n} <=> m \in byHand)
    OBVIOUS
  <2> QED BY <1>5, <1>6, <1>7, <2>1, WrittenOK
<1>9. RepoOK'
  BY <1>5, <1>8 DEF open_one_pr_push, IInv, RepoOK
<1>10. JobsOK'
  BY DEF open_one_pr_push, IInv, JobsOK
<1> QED BY <1>3, <1>4, <1>9, <1>10 DEF IInv

LEMMA PushFailsOK == ASSUME IInv, PushFails PROVE IInv'
<1>1. CloneOK(clone) /\ clone.pc = "push" /\ clone' = Idle(Committed)
  BY DEF IInv, PushFails
<1>2. Committed \in Clones /\ Ahead(Committed.head, Committed.base) /\ Ahead(Committed.tree, Committed.head)
  BY <1>1, CommittedOK
<1>3. CloneOK(clone')
  BY <1>1, <1>2, IdleOK
<1> QED BY <1>3, CloneOnly DEF PushFails, repo

LEMMA CreateOK == ASSUME IInv, open_one_pr_create PROVE IInv'
<1> DEFINE d == [pc |-> "push", base |-> clone.base, head |-> clone.head, tree |-> clone.tree,
                 bumps |-> Others(clone.bumps)]
<1>1. CloneOK(clone) /\ clone \in Clones /\ clone.pc = "pr" /\ clone.bumps # {} /\ clone.bumps \in SUBSET Bumps
  BY DEF IInv, open_one_pr_create, CloneOK, HasWork, Clones
<1>2. CloneFresh(clone)
  BY <1>1 DEF CloneOK
<1>3. CloneOK(clone')
  <2>1. CASE Others(clone.bumps) = {}
    <3>1. clone' = Idle(clone)
      BY <2>1 DEF open_one_pr_create
    <3> QED BY <1>1, <1>2, <3>1, IdleOK DEF CloneFresh
  <2>2. CASE Others(clone.bumps) # {}
    <3>1. clone' = d
      BY <1>1, <2>2 DEF open_one_pr_create, Clones
    <3>2. Others(clone.bumps) \subseteq clone.bumps
      BY DEF Others
    <3>3. d \in Clones /\ HasWork(d)
      BY <1>1, <2>2, <3>2 DEF Clones, Steps, HasWork
    <3>4. CloneFresh(d)
      BY <1>1, <1>2, <3>2 DEF CloneFresh, ToCome
    <3> QED BY <3>1, <3>3, <3>4 DEF CloneOK
  <2> QED BY <2>1, <2>2
<1>4. First(clone.bumps) \in Bumps
  BY <1>1, FirstBump
<1>5. RepoOK'
  BY <1>4 DEF open_one_pr_create, IInv, RepoOK
<1>6. JobsOK'
  BY DEF open_one_pr_create, IInv, JobsOK
<1> QED BY <1>3, <1>5, <1>6 DEF IInv

LEMMA CreateFailsOK == ASSUME IInv, CreateFails PROVE IInv'
<1>1. clone \in Clones /\ CloneFresh(clone) /\ clone' = Idle(clone)
  BY DEF IInv, CloneOK, CreateFails
<1>2. CloneOK(clone')
  BY <1>1, IdleOK DEF CloneFresh
<1> QED BY <1>2, CloneOnly DEF CreateFails, repo

-----------------------------------------------------------------------------
(* Upstream and people. *)

LEMMA UpstreamOK == ASSUME IInv, NEW p \in Profiles, Publish(p) \/ Retract(p) PROVE IInv'
<1>1. upstream' \in PinsOf
  <2>1. PICK i \in latest(p) : upstream' = [upstream EXCEPT ![p] = i]
    BY DEF Publish, Retract
  <2>2. i \in Releases /\ upstream \in PinsOf
    BY DEF latest, IInv, RepoOK
  <2> QED BY <2>1, <2>2 DEF PinsOf
<1> QED BY <1>1 DEF Publish, Retract, repo, IInv, RepoOK, JobsOK

\* A merge that Git accepts moves the pins of the branch forward.
LEMMA MergeForward ==
    ASSUME IInv, NEW n \in open, Merge(n)
    PROVE  /\ n \in Bumps /\ main' \in PinsOf /\ main'[n[1]] = n[2] /\ Ahead(main', main)
           /\ n \in byHand \/ \A p \in Profiles \ {n[1]} : main'[p] = main[p]
<1> DEFINE b == branch[n]
<1>1. BranchFresh(n, b, n \notin byHand) /\ main \in PinsOf
  BY DEF IInv, RepoOK
<1>2. n[1] \in Profiles /\ n[2] \in Releases /\ b.base \in PinsOf /\ b.pins \in PinsOf
  BY <1>1 DEF BranchFresh, Bumps
<1> HIDE DEF b
<1>3. main' = [p \in Profiles |-> IF p \in Changes(b) THEN b.pins[p] ELSE main[p]]
  BY DEF Merge, b
<1>4. main' \in PinsOf
  BY <1>1, <1>2, <1>3 DEF PinsOf
<1>5. main'[n[1]] = n[2]
  <2>1. b.base[n[1]] \in Releases
    BY <1>2 DEF PinsOf
  <2>2. b.pins[n[1]] = n[2] /\ Newer(n[2], b.base[n[1]])
    BY <1>1 DEF BranchFresh, Fresh
  <2>3. b.pins[n[1]] # b.base[n[1]]
    BY <1>2, <2>1, <2>2, NewerOrders
  <2> QED BY <1>2, <1>3, <2>2, <2>3 DEF Changes
<1>6. Ahead(main', main)
  <2> SUFFICES ASSUME NEW p \in Profiles PROVE main'[p] = main[p] \/ Newer(main'[p], main[p])
    BY DEF Ahead
  <2>1. CASE p \in Changes(b)
    <3>1. main'[p] = b.pins[p] /\ b.pins[p] # b.base[p] /\ main[p] \in {b.base[p], b.pins[p]}
      BY <1>3, <2>1 DEF Merge, Mergeable, Changes, b
    <3>2. Newer(b.pins[p], b.base[p])
      BY <1>1, <3>1 DEF BranchFresh, Ahead
    <3> QED BY <3>1, <3>2
  <2>2. CASE p \notin Changes(b)
    BY <1>3, <2>2
  <2> QED BY <2>1, <2>2
<1>7. n \in byHand \/ \A p \in Profiles \ {n[1]} : main'[p] = main[p]
  BY <1>1, <1>3 DEF BranchFresh, Changes
<1> QED BY <1>1, <1>4, <1>5, <1>6, <1>7 DEF BranchFresh

LEMMA MergeOK == ASSUME IInv, NEW n \in open, Merge(n) PROVE IInv'
<1>1. main' \in PinsOf
  BY MergeForward
<1> QED BY <1>1 DEF Merge, IInv, RepoOK, JobsOK

LEMMA CloseOK == ASSUME IInv, NEW n \in open, Close(n) PROVE IInv'
  BY DEF Close, IInv, RepoOK, JobsOK

LEMMA DeleteOK == ASSUME IInv, NEW n \in DOMAIN branch \ open, Delete(n) PROVE IInv'
<1>1. DOMAIN branch' = DOMAIN branch \ {n} /\ \A m \in DOMAIN branch' : branch'[m] = branch[m]
  BY DEF Delete
<1>2. \A m \in DOMAIN branch' : m \in DOMAIN branch /\ (m \notin byHand' <=> m \notin byHand)
  BY <1>1 DEF Delete
<1>3. \A m \in DOMAIN branch' : BranchFresh(m, branch'[m], m \notin byHand')
  BY <1>1, <1>2 DEF IInv, RepoOK, BranchFresh
<1>4. open' \subseteq DOMAIN branch'
  BY <1>1 DEF Delete, IInv, RepoOK
<1>5. RepoOK'
  BY <1>3, <1>4 DEF Delete, IInv, RepoOK
<1> QED BY <1>5 DEF Delete, IInv, JobsOK

-----------------------------------------------------------------------------
LEMMA NextOK == IInv /\ [Next]_vars => IInv'
<1> SUFFICES ASSUME IInv, [Next]_vars PROVE IInv'
  OBVIOUS
<1>1. ASSUME NEW r \in Runs, RunNext(r) PROVE IInv'
  BY <1>1, ProposeOK, PushOK, OpenOrEditOK, RunFailsOK DEF RunNext
<1>2. CASE CloneNext
  BY <1>2, PullOK, ApplyOK, OpenPrOK, PushByHandOK, PushFailsOK, CreateOK, CreateFailsOK DEF CloneNext
<1>3. CASE UNCHANGED vars
  BY <1>3 DEF vars, IInv, RepoOK, JobsOK
<1> QED BY <1>1, <1>2, <1>3, UpstreamOK, MergeOK, CloseOK, DeleteOK DEF Next

LEMMA InvHolds == Spec => []IInv
<1> QED BY InitOK, NextOK, PTL DEF Spec

-----------------------------------------------------------------------------
(* The refinement, but for its fairness. *)

\* A proposal that is opened is the workflow's or one pushed by hand.
LEMMA OpenMaps ==
    ASSUME NEW n \in Bumps, open' = open \cup {n}, UNCHANGED <<upstream, main, byHand>>
    PROVE  Pins!Propose(n) \/ Pins!ProposeByHand(n)
<1>1. CASE n \in byHand
  BY <1>1, Zenon DEF Pins!ProposeByHand
<1>2. CASE n \notin byHand
  BY <1>2, Zenon DEF Pins!Propose
<1> QED BY <1>1, <1>2

LEMMA StepMaps ==
    ASSUME IInv, [Next]_vars
    PROVE  [Pins!Next]_(Pins!pinVars)
<1> DEFINE Maps(n) == Pins!Propose(n) \/ Pins!ProposeByHand(n) \/ Pins!Withdraw(n) \/ Pins!Merge(n)
<1>0. \A n \in Bumps : Maps(n) => Pins!Next
  BY DEF Pins!Next, Bumps, Pins!Profiles, Profiles, Pins!Releases, Releases
<1>1. UNCHANGED <<upstream, main, open, byHand>> => UNCHANGED Pins!pinVars
  BY DEF Pins!pinVars
<1>2. ASSUME NEW r \in Runs, RunNext(r) PROVE [Pins!Next]_(Pins!pinVars)
  <2>1. job[r].pc # "idle" => First(job[r].bumps) \in Bumps
    BY FirstBump DEF IInv, JobsOK, JobOK, HasWork, Jobs
  <2>2. CASE cmd_propose(r) \/ RunFails(r)
    BY <1>1, <2>2 DEF cmd_propose, RunFails, repo
  <2>3. CASE Push(r)
    <3>1. Pins!Withdraw(First(job[r].bumps))
      BY <2>3 DEF Push, Pins!Withdraw
    <3> QED BY <1>0, <2>1, <2>3, <3>1 DEF Push
  <2>4. CASE OpenOrEdit(r)
    <3>1. First(job[r].bumps) \in Bumps
      BY <2>1, <2>4 DEF OpenOrEdit
    <3>2. Maps(First(job[r].bumps))
      BY <2>4, <3>1, OpenMaps DEF OpenOrEdit
    <3> QED BY <1>0, <3>1, <3>2
  <2> QED BY <1>2, <2>2, <2>3, <2>4 DEF RunNext
<1>3. CASE CloneNext
  <2>1. clone.pc # "idle" => First(clone.bumps) \in Bumps
    BY FirstBump DEF IInv, CloneOK, HasWork, Clones
  <2>2. CASE Pull \/ cmd_apply \/ cmd_open_pr \/ PushFails \/ CreateFails
    BY <1>1, <2>2 DEF Pull, cmd_apply, cmd_open_pr, PushFails, CreateFails, repo
  <2>3. CASE open_one_pr_push
    <3>1. Pins!ProposeByHand(First(clone.bumps))
      BY <2>3 DEF open_one_pr_push, Pins!ProposeByHand
    <3> QED BY <1>0, <2>1, <2>3, <3>1 DEF open_one_pr_push
  <2>4. CASE open_one_pr_create
    <3>1. First(clone.bumps) \in Bumps
      BY <2>1, <2>4 DEF open_one_pr_create
    <3>2. Maps(First(clone.bumps))
      BY <2>4, <3>1, OpenMaps DEF open_one_pr_create
    <3> QED BY <1>0, <3>1, <3>2
  <2> QED BY <1>3, <2>2, <2>3, <2>4 DEF CloneNext
<1>4. ASSUME NEW p \in Profiles, Publish(p) \/ Retract(p) PROVE [Pins!Next]_(Pins!pinVars)
  <2>1. PICK i \in latest(p) : upstream' = [upstream EXCEPT ![p] = i]
    BY <1>4 DEF Publish, Retract
  <2>2. i \in Releases
    BY DEF latest
  <2>3. Pins!Published
    BY <1>4, <2>1, <2>2 DEF Publish, Retract, repo, Pins!Published, Pins!Profiles, Profiles, Pins!Releases, Releases
  <2> QED BY <2>3 DEF Pins!Next
<1>5. ASSUME NEW n \in open, Merge(n) \/ Close(n) PROVE [Pins!Next]_(Pins!pinVars)
  <2>1. n \in Bumps
    BY DEF IInv, RepoOK
  <2>2. CASE Merge(n)
    <3>1. Pins!Merge(n)
      BY <2>2, MergeForward DEF Merge, Ahead, Pins!Merge, Pins!Profiles, Profiles,
                                        Pins!Newer, Newer, Pins!Greater, Greater, Pins!TextLess, TextLess, Pins!Final, Final
    <3> QED BY <1>0, <2>1, <3>1
  <2>3. CASE Close(n)
    <3>1. Pins!Withdraw(n)
      BY <2>3 DEF Close, Pins!Withdraw
    <3> QED BY <1>0, <2>1, <3>1
  <2> QED BY <1>5, <2>2, <2>3
<1>6. ASSUME NEW n \in DOMAIN branch \ open, Delete(n) PROVE [Pins!Next]_(Pins!pinVars)
  <2>1. n \in Bumps
    BY DEF IInv, RepoOK, BranchFresh
  <2>2. Pins!Withdraw(n)
    BY <1>6 DEF Delete, Pins!Withdraw
  <2> QED BY <1>0, <2>1, <2>2
<1>7. CASE UNCHANGED vars
  BY <1>1, <1>7 DEF vars
<1> QED BY <1>2, <1>3, <1>4, <1>5, <1>6, <1>7 DEF Next

\* Whatever runs, commands and people do at once and fail at: a proposal of the
\* workflow bumps its profile alone, and what is merged, in any order, moves
\* every profile's pinned version forward only (PinTrack, without fairness).
THEOREM PinsGoForward == Spec => Pins!Init /\ [][Pins!Next]_(Pins!pinVars)
<1>1. Init => Pins!Init
  BY DEF Init, Start, Pins!Init, Pins!Profiles, Profiles
<1> QED BY <1>1, InvHolds, StepMaps, PTL DEF Spec
=============================================================================
