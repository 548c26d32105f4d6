--------------------------- MODULE Launcher_proofs ---------------------------
(***************************************************************************)
(* What the desktop launcher keeps, for any number of instances, profiles  *)
(* and releases, any commands of a console and a command line in any       *)
(* interleaving, and any number of failures: its record and its image, its *)
(* binary, the registry, and the guests and ports of WSL's and UTM's VMs.  *)
(***************************************************************************)
EXTENDS Launcher, TLAPS

-----------------------------------------------------------------------------
(* The inductive invariant *)

Image == [rel : Release, profile : Profiles \cup {None}, whole : BOOLEAN]
Ops == {"none", "install", "update", "selfupdate", "uninstall", "create", "configure", "delete",
        "start", "stop", "pause", "resume"}
Stages == {"idle", "signature", "fetch", "fetching", "verify", "import", "record", "write", "remove",
           "rename", "aside", "place", "cache", "cache+data", "data", "create", "status", "save",
           "delete", "terminate_delete", "unregister", "remove_dirs", "start", "resume", "thaw",
           "unmark", "remap", "stop", "terminate", "pause", "unmap", "suspend", "mark"}
Job == [op : Ops, slot : Slots, at : Stages, rel : Release, profile : Profiles \cup {None},
        path : Paths, copy : SUBSET Ids, clash : BOOLEAN]
Machine == [state : {"absent", "stopped", "running", "stopping", "paused"},
            guest : {"active", "quiesced"}]

\* Where a command can be, what it is about and by which path it downloads.
Places(j) ==
    \/ j.op = "none" /\ j.at = "idle"
    \/ j.op = "install" /\ j.at \in {"signature", "fetch", "fetching", "verify", "import"}
    \/ j.op = "install" /\ j.at \in {"record", "write"} /\ j.slot = Bare
    \/ j.op = "update" /\ j.at \in {"signature", "fetch", "fetching", "verify", "remove",
                                    "rename", "record", "write"}
    \/ j.op = "selfupdate" /\ j.at \in {"signature", "fetch", "fetching", "verify", "rename",
                                        "aside", "place"}
    \/ j.op = "uninstall" /\ j.at \in {"cache", "cache+data", "data"}
    \/ j.op = "create" /\ j.at = "create"
    \/ j.op = "configure" /\ j.at \in {"status", "save"}
    \/ j.op = "delete" /\ j.at \in {"delete", "terminate_delete", "unregister", "remove_dirs"}
    \/ j.op = "start" /\ j.at \in {"start", "resume", "thaw", "unmark", "remap", "status", "save"}
    \/ j.op = "stop" /\ j.at \in {"stop", "terminate", "status", "save"}
    \/ j.op = "pause" /\ j.at \in {"pause", "unmap", "suspend", "mark", "status", "save"}
    \/ j.op = "resume" /\ j.at \in {"resume", "thaw", "unmark", "remap", "status", "save"}
About(p, j) ==
    /\ j.op \notin {"none", "update", "selfupdate"} => j.path = j.slot
    /\ j.op = "update" => j.path = Staging
    /\ j.op = "selfupdate" => j.path = NewExe
    /\ j.op \in {"update", "selfupdate", "uninstall"} => j.slot = Bare
    /\ j.op \in {"create", "delete", "configure"} => j.slot \in Ids
    /\ p = "console" /\ j.op # "none" => j.slot \in Ids
    /\ j.op \in {"install", "update"} /\ j.at # "signature" => j.profile \in Profiles
JobOK(p, j) == j \in Job /\ Places(j) /\ About(p, j)

LauncherTypes ==
    /\ backend \in {"qemu", "wsl", "utm"}
    /\ latest \in Release /\ offered \in SUBSET Profiles
    /\ files \in [Paths -> Image \cup {None}]
    /\ registry \in SUBSET Ids
    /\ vm \in [Slots -> Machine]
    /\ remap \in [Slots -> {"none", "live", "stale"}]
    /\ DOMAIN job = Processes /\ \A p \in Processes : JobOK(p, job[p])

RegistryInv ==
    \/ overlapped
    \/ registry = known /\ \A p \in Processes : Holds(p) => job[p].copy = registry

\* Whoever leaves a guest quiesced is on the way to thaw it.
GuestPlaces == {"unmap", "suspend", "thaw"}
GuestOK(s) == vm[s].state = "running" /\ s \notin doubtful => vm[s].guest = "active"
GuestInv ==
    \A s \in Slots : GuestOK(s) \/ \E p \in Processes : job[p].slot = s /\ job[p].at \in GuestPlaces

\* Whoever starts a VM or takes its proxy away is on the way to set it.
PortPlaces == {"suspend", "terminate", "terminate_delete", "thaw", "unmark", "remap"}
PortOK(i) == vm[i].state = "running" /\ i \notin unmapped => remap[i] = "live"
PortInv ==
    backend = "wsl" =>
        \A i \in Ids : PortOK(i) \/ \E p \in Processes : job[p].slot = i /\ job[p].at \in PortPlaces

\* What a command line has done of a command on the bare VM or the launcher.
Installing(j, places) == j.op = "install" /\ j.slot = Bare /\ j.at \in places
RecordOK(j) ==
    /\ j.rel <= latest
    /\ (j.op \in {"install", "update"} /\ j.slot = Bare /\ j.at = "write") =>
          record = None /\ chosen = j.profile
    /\ record # None =>
          /\ record \in [rel : Release, profile : Profiles]
          /\ record.profile = chosen /\ record.rel <= latest
          /\ j.op = "update" /\ j.at # "signature" => j.profile = chosen /\ record.rel < j.rel
StagedOK(j) ==
    /\ j.op = "update" /\ j.at \in {"remove", "rename"} => files[Staging] = Whole(j.rel, j.profile)
    /\ j.op = "update" /\ j.at \in {"record", "write"} => files[Bare] = Whole(j.rel, j.profile)
    /\ Installing(j, {"import", "record", "write"}) => files[Bare] = Whole(j.rel, j.profile)
    /\ j.op = "selfupdate" /\ j.at \in {"rename", "aside", "place"} =>
          files[NewExe] = Whole(j.rel, j.profile)
ExeOK(j) ==
    /\ j.op = "selfupdate" /\ j.at \in {"aside", "place"} => backend = "wsl"
    /\ exe # None => exe.whole
    /\ exe = None => backend = "wsl"
ImageOK(j) ==
    /\ (files[Bare] # None /\ ~files[Bare].whole) =>
          Bare \in spoiled \/ Installing(j, {"fetching", "verify"})
    /\ record # None /\ Bare \notin spoiled =>
          \/ record.rel < latest
          \/ files[Bare] = Whole(record.rel, chosen)
          \/ Installing(j, {"fetching", "verify", "import", "record"})
DiskInv ==
    LET j == job["cli"] IN RecordOK(j) /\ StagedOK(j) /\ ExeOK(j) /\ ImageOK(j)

LauncherInv == LauncherTypes /\ RegistryInv /\ GuestInv /\ PortInv /\ DiskInv
-----------------------------------------------------------------------------
(* What a step of a process leaves alone *)

Alike(j, k) ==
    /\ k.op = j.op /\ k.slot = j.slot /\ k.at = j.at /\ k.rel = j.rel
    /\ k.profile = j.profile /\ k.path = j.path /\ k.copy = j.copy
\* A download marks the clash in another process's job; nothing else of it changes.
Others(p) == \A q \in Processes \ {p} : job'[q] \in Job /\ Alike(job[q], job'[q])
JobStep(p) == DOMAIN job' = Processes /\ JobOK(p, job'[p]) /\ Others(p)

RegistryStill(p) ==
    /\ UNCHANGED <<registry, known, overlapped>>
    /\ Holds(p)' => Holds(p) /\ job'[p].copy = job[p].copy
GuestStep(p) ==
    \A s \in Slots :
        IF s # job[p].slot THEN GuestOK(s) => GuestOK(s)'
        ELSE \/ job'[p].slot = s /\ job'[p].at \in GuestPlaces
             \/ GuestOK(s)'
             \/ job[p].at \notin GuestPlaces /\ (GuestOK(s) => GuestOK(s)')
PortStep(p) ==
    \A s \in Ids :
        IF s # job[p].slot THEN PortOK(s) => PortOK(s)'
        ELSE \/ job'[p].slot = s /\ job'[p].at \in PortPlaces
             \/ PortOK(s)'
             \/ job[p].at \notin PortPlaces /\ (PortOK(s) => PortOK(s)')
\* The job says nothing of the bare image, the launcher and the record.
Quiet(j) == j.op \notin Downloads \/ j.at = "signature" \/ (j.op = "install" /\ j.slot # Bare)
DiskStill(p) ==
    /\ UNCHANGED <<backend, latest, record, exe, chosen>>
    /\ files'[Bare] = files[Bare] /\ files'[Staging] = files[Staging]
    /\ files'[NewExe] = files[NewExe]
    /\ Bare \in spoiled' <=> Bare \in spoiled
    /\ p = "cli" => /\ Quiet(job[p]) /\ Quiet(job'[p])
                    /\ job'[p].rel \in {1, job[p].rel, latest}

LEMMA JobsKept ==
    ASSUME LauncherTypes, NEW p \in Processes, JobStep(p)
    PROVE  DOMAIN job' = Processes /\ \A q \in Processes : JobOK(q, job'[q])
<1> SUFFICES ASSUME NEW q \in Processes PROVE JobOK(q, job'[q])
  BY DEF JobStep
<1>1. CASE q = p
  BY <1>1 DEF JobStep
<1>2. CASE q # p
  <2>1. job'[q] \in Job /\ Alike(job[q], job'[q]) /\ JobOK(q, job[q])
    BY <1>2 DEF JobStep, Others, LauncherTypes
  <2> QED BY <2>1 DEF Alike, JobOK, Places, About
<1> QED BY <1>1, <1>2

LEMMA RegistryKept ==
    ASSUME RegistryInv, NEW p \in Processes, Others(p), RegistryStill(p)
    PROVE  RegistryInv'
<1>1. \A q \in Processes \ {p} : Holds(q)' => Holds(q) /\ job'[q].copy = job[q].copy
  BY DEF Others, Alike, Holds
<1>2. \A q \in Processes : Holds(q)' => Holds(q) /\ job'[q].copy = job[q].copy
  BY <1>1 DEF RegistryStill
<1> QED BY <1>2 DEF RegistryInv, RegistryStill

LEMMA GuestKept ==
    ASSUME LauncherTypes, GuestInv, NEW p \in Processes, Others(p), GuestStep(p)
    PROVE  GuestInv'
<1> SUFFICES ASSUME NEW s \in Slots
             PROVE  GuestOK(s)' \/ \E q \in Processes : job'[q].slot = s /\ job'[q].at \in GuestPlaces
  BY DEF GuestInv
<1>1. GuestOK(s) \/ \E q \in Processes : job[q].slot = s /\ job[q].at \in GuestPlaces
  BY DEF GuestInv
<1>2. \A q \in Processes \ {p} : job'[q].slot = job[q].slot /\ job'[q].at = job[q].at
  BY DEF Others, Alike
<1>3. CASE s # job[p].slot
  BY <1>1, <1>2, <1>3 DEF GuestStep
<1>4. CASE s = job[p].slot
  <2>1. \/ job'[p].slot = s /\ job'[p].at \in GuestPlaces
        \/ GuestOK(s)'
        \/ job[p].at \notin GuestPlaces /\ (GuestOK(s) => GuestOK(s)')
    BY <1>4 DEF GuestStep
  <2>2. CASE job[p].at \notin GuestPlaces /\ (GuestOK(s) => GuestOK(s)')
    <3>1. CASE GuestOK(s)
      BY <2>2, <3>1
    <3>2. CASE ~GuestOK(s)
      <4>1. PICK q \in Processes : job[q].slot = s /\ job[q].at \in GuestPlaces
        BY <1>1, <3>2
      <4>2. q # p
        BY <2>2, <4>1
      <4> QED BY <1>2, <4>1, <4>2
    <3> QED BY <3>1, <3>2
  <2> QED BY <2>1, <2>2
<1> QED BY <1>3, <1>4

LEMMA PortKept ==
    ASSUME LauncherTypes, PortInv, NEW p \in Processes, Others(p), backend' = backend,
           backend = "wsl" => PortStep(p)
    PROVE  PortInv'
<1> SUFFICES ASSUME backend = "wsl", NEW s \in Ids
             PROVE  PortOK(s)' \/ \E q \in Processes : job'[q].slot = s /\ job'[q].at \in PortPlaces
  BY DEF PortInv
<1>1. PortOK(s) \/ \E q \in Processes : job[q].slot = s /\ job[q].at \in PortPlaces
  BY DEF PortInv
<1>2. \A q \in Processes \ {p} : job'[q].slot = job[q].slot /\ job'[q].at = job[q].at
  BY DEF Others, Alike
<1>3. CASE s # job[p].slot
  BY <1>1, <1>2, <1>3 DEF PortStep
<1>4. CASE s = job[p].slot
  <2>1. \/ job'[p].slot = s /\ job'[p].at \in PortPlaces
        \/ PortOK(s)'
        \/ job[p].at \notin PortPlaces /\ (PortOK(s) => PortOK(s)')
    BY <1>4 DEF PortStep
  <2>2. CASE job[p].at \notin PortPlaces /\ (PortOK(s) => PortOK(s)')
    <3>1. CASE PortOK(s)
      BY <2>2, <3>1
    <3>2. CASE ~PortOK(s)
      <4>1. PICK q \in Processes : job[q].slot = s /\ job[q].at \in PortPlaces
        BY <1>1, <3>2
      <4>2. q # p
        BY <2>2, <4>1
      <4> QED BY <1>2, <4>1, <4>2
    <3> QED BY <3>1, <3>2
  <2> QED BY <2>1, <2>2
<1> QED BY <1>3, <1>4

LEMMA DiskKept ==
    ASSUME LauncherTypes, DiskInv, NEW p \in Processes, JobStep(p), DiskStill(p)
    PROVE  DiskInv'
<1> DEFINE j == job["cli"]
           k == job'["cli"]
<1>1. CASE p # "cli"
  <2>1. Alike(j, k)
    BY <1>1 DEF JobStep, Others, Processes
  <2> HIDE DEF k
  <2>2. k.op = j.op /\ k.slot = j.slot /\ k.at = j.at /\ k.rel = j.rel /\ k.profile = j.profile
    BY <2>1 DEF Alike
  <2>3. RecordOK(j) /\ StagedOK(j) /\ ExeOK(j) /\ ImageOK(j)
    BY DEF DiskInv
  <2>4. RecordOK(j)' /\ ExeOK(j)'
    BY <2>2, <2>3 DEF RecordOK, ExeOK, DiskStill, k
  <2>5. StagedOK(j)' /\ ImageOK(j)'
    BY <2>2, <2>3 DEF StagedOK, ImageOK, Installing, DiskStill, Whole, k
  <2> QED BY <2>4, <2>5 DEF DiskInv
<1>2. CASE p = "cli"
  <2>1. /\ Quiet(j) /\ Quiet(k) /\ k.rel \in {1, j.rel, latest}
        /\ latest \in Nat /\ latest >= 1
    BY <1>2, LauncherAssumption DEF DiskStill, LauncherTypes, Release
  <2> HIDE DEF k
  <2>2. RecordOK(j) /\ StagedOK(j) /\ ExeOK(j) /\ ImageOK(j)
    BY DEF DiskInv
  <2>3. RecordOK(j)' /\ ExeOK(j)'
    BY <2>1, <2>2 DEF RecordOK, ExeOK, DiskStill, Quiet, Downloads, k
  <2>4. StagedOK(j)' /\ ImageOK(j)'
    BY <2>1, <2>2 DEF StagedOK, ImageOK, Installing, DiskStill, Whole, Quiet, Downloads, k
  <2> QED BY <2>3, <2>4 DEF DiskInv
<1> QED BY <1>1, <1>2

Still(p) ==
    /\ LauncherTypes' /\ JobStep(p) /\ RegistryStill(p) /\ GuestStep(p) /\ DiskStill(p)
    /\ backend = "wsl" => PortStep(p)

LEMMA StillKeeps == ASSUME LauncherInv, NEW p \in Processes, Still(p) PROVE LauncherInv'
<1>1. LauncherTypes' /\ JobStep(p) /\ Others(p) /\ backend' = backend
  BY DEF Still, JobStep, DiskStill
<1>2. RegistryInv'
  BY <1>1, RegistryKept DEF LauncherInv, Still
<1>3. GuestInv'
  BY <1>1, GuestKept DEF LauncherInv, Still
<1>4. PortInv'
  BY <1>1, PortKept DEF LauncherInv, Still
<1>5. DiskInv'
  BY <1>1, DiskKept DEF LauncherInv, Still
<1> QED BY <1>1, <1>2, <1>3, <1>4, <1>5 DEF LauncherInv

-----------------------------------------------------------------------------
(* Where a job goes on *)

LEMMA SetJob ==
    ASSUME LauncherTypes, NEW p \in Processes, NEW k, Set(p, k), JobOK(p, k)
    PROVE  JobStep(p) /\ job'[p] = k
<1>1. DOMAIN job' = Processes /\ job'[p] = k /\ \A q \in Processes \ {p} : job'[q] = job[q]
  BY DEF Set, LauncherTypes
<1>2. Others(p)
  BY <1>1 DEF Others, Alike, LauncherTypes, JobOK
<1> QED BY <1>1, <1>2 DEF JobStep

LEMMA EndsJob ==
    ASSUME LauncherTypes, NEW p \in Processes, Ends(p)
    PROVE  /\ JobStep(p) /\ job'[p].op = "none" /\ job'[p].at = "idle" /\ job'[p].rel = 1
           /\ job'[p].slot = Bare
<1>1. JobOK(p, Idle)
  <2>1. 1 \in Release /\ Bare \in Slots /\ Bare \in Paths
    BY LauncherAssumption DEF Slots, Paths, Release
  <2>2. Idle \in Job
    BY <2>1 DEF Idle, Job, Ops, Stages
  <2>3. Idle.op = "none" /\ Idle.at = "idle"
    BY DEF Idle
  <2> QED BY <2>2, <2>3 DEF JobOK, Places, About
<1>2. JobStep(p) /\ job'[p] = Idle
  BY <1>1, SetJob DEF Ends
<1> QED BY <1>2 DEF Idle

\* The job of a process but for where it is.
GoesTo(j, k, a) ==
    /\ k.at = a /\ k.op = j.op /\ k.slot = j.slot /\ k.rel = j.rel
    /\ k.profile = j.profile /\ k.path = j.path /\ k.copy = j.copy

LEMMA GotoJob ==
    ASSUME LauncherTypes, NEW p \in Processes, NEW a \in Stages, Goto(p, a),
           \A k \in Job : GoesTo(job[p], k, a) => Places(k) /\ About(p, k)
    PROVE  JobStep(p) /\ GoesTo(job[p], job'[p], a)
<1> DEFINE k == [job[p] EXCEPT !.at = a]
<1>1. job[p] \in Job
  BY DEF LauncherTypes, JobOK
<1>2. k \in Job /\ GoesTo(job[p], k, a)
  BY <1>1 DEF Job, GoesTo
<1>3. Set(p, k)
  BY DEF Goto
<1> HIDE DEF k
<1>4. JobOK(p, k)
  BY <1>2 DEF JobOK
<1> QED BY <1>2, <1>3, <1>4, SetJob

\* No VM is touched, and the job was not on the way to set one right.
HostStill(p) ==
    /\ UNCHANGED <<vm, remap, doubtful, unmapped>>
    /\ job[p].at \notin GuestPlaces \cup PortPlaces

LEMMA HostIsStill ==
    ASSUME NEW p \in Processes, HostStill(p)
    PROVE  GuestStep(p) /\ PortStep(p)
  BY DEF HostStill, GuestStep, PortStep, GuestOK, PortOK

\* What a command of a kind begins with.
Asked(k, op, s, at, path, q) ==
    k.op = op /\ k.slot = s /\ k.at = at /\ k.path = path /\ k.profile = q

LEMMA BeginsKeeps ==
    ASSUME LauncherInv, NEW p \in Processes, NEW op \in Ops, NEW s \in Slots,
           NEW at \in Stages, NEW path \in Paths, NEW asked \in Profiles \cup {None},
           BeginsOn(p, op, s, at, path, asked),
           \A k \in Job : Asked(k, op, s, at, path, asked) => Places(k) /\ About(p, k) /\ Quiet(k),
           at \in {"create", "delete", "terminate_delete", "unregister", "save"} =>
              op \in SavesRegistry
    PROVE  LauncherInv'
<1> DEFINE k == [op |-> op, slot |-> s, at |-> at, profile |-> asked, path |-> path,
                 clash |-> FALSE, rel |-> IF op \in Downloads THEN latest ELSE 1,
                 copy |-> IF op \in SavesRegistry THEN registry ELSE {}]
<1>1. job[p] = Idle /\ Set(p, k)
      /\ UNCHANGED <<backend, server, disk, registry, hosts, history>>
  BY DEF BeginsOn
<1>2. LauncherTypes /\ RegistryInv /\ GuestInv /\ PortInv /\ DiskInv
  BY DEF LauncherInv
<1>3. k \in Job
  BY <1>2, LauncherAssumption DEF Job, LauncherTypes, Release
<1>4. Asked(k, op, s, at, path, asked) /\ k.rel \in {1, latest}
      /\ (op \in SavesRegistry => k.copy = registry) /\ k.at = at
  BY DEF Asked
<1> HIDE DEF k
<1>5. JobOK(p, k) /\ Quiet(k)
  BY <1>3, <1>4 DEF JobOK
<1>6. JobStep(p) /\ job'[p] = k
  BY <1>1, <1>2, <1>5, SetJob
<1>7. LauncherTypes'
  BY <1>1, <1>2, <1>6, JobsKept DEF LauncherTypes, server, disk, hosts
<1>8. RegistryInv'
  <2>1. registry' = registry /\ known' = known /\ overlapped' = overlapped
    BY <1>1 DEF history
  <2>2. \A q \in Processes \ {p} : Holds(q)' => Holds(q) /\ job'[q].copy = job[q].copy
    BY <1>6 DEF JobStep, Others, Alike, Holds
  <2>3. Holds(p)' => job'[p].copy = registry
    BY <1>4, <1>6 DEF Holds
  <2> QED BY <1>2, <2>1, <2>2, <2>3 DEF RegistryInv
<1>9. HostStill(p)
  BY <1>1 DEF HostStill, hosts, history, doubts, Idle, GuestPlaces, PortPlaces
<1>10. GuestInv' /\ PortInv'
  <2>1. Others(p) /\ backend' = backend
    BY <1>1, <1>6 DEF JobStep
  <2> QED BY <1>2, <1>9, <2>1, HostIsStill, GuestKept, PortKept
<1>11. DiskInv'
  <2>1. Quiet(job[p])
    BY <1>1 DEF Quiet, Idle, Downloads
  <2>2. DiskStill(p)
    BY <1>1, <1>4, <1>5, <1>6, <2>1 DEF DiskStill, disk, server, history
  <2> QED BY <1>2, <1>6, <2>2, DiskKept
<1> QED BY <1>7, <1>8, <1>10, <1>11 DEF LauncherInv

-----------------------------------------------------------------------------
(* Commands *)

LEMMA InstallBegins == ASSUME LauncherInv, NEW p \in Processes, cmd_install(p) PROVE LauncherInv'
<1>1. PICK s \in Slots, asked \in Profiles \cup {None} :
          Reaches(p, s) /\ BeginsOn(p, "install", s, "signature", s, asked)
  BY DEF cmd_install
<1>2. s \in Paths /\ (p = "console" => s \in Ids)
  BY <1>1 DEF Paths, Reaches, LauncherInv, LauncherTypes
<1>3. \A k \in Job : Asked(k, "install", s, "signature", s, asked) =>
                        Places(k) /\ About(p, k) /\ Quiet(k)
  BY <1>2 DEF Asked, Places, About, Quiet
<1> QED BY <1>1, <1>2, <1>3, BeginsKeeps DEF Ops, Stages

LEMMA UpdateBegins == ASSUME LauncherInv, cmd_update PROVE LauncherInv'
<1>1. BeginsOn("cli", "update", Bare, "signature", Staging, None)
  BY DEF cmd_update, Begins
<1>2. Bare \in Slots /\ Staging \in Paths /\ "cli" \in Processes
  BY DEF Slots, Paths, Processes
<1>3. \A k \in Job : Asked(k, "update", Bare, "signature", Staging, None) =>
                        Places(k) /\ About("cli", k) /\ Quiet(k)
  BY DEF Asked, Places, About, Quiet
<1> QED BY <1>1, <1>2, <1>3, BeginsKeeps DEF Ops, Stages

LEMMA SelfUpdateBegins == ASSUME LauncherInv, cmd_selfupdate PROVE LauncherInv'
<1>1. BeginsOn("cli", "selfupdate", Bare, "signature", NewExe, None)
  BY DEF cmd_selfupdate, Begins
<1>2. Bare \in Slots /\ NewExe \in Paths /\ "cli" \in Processes
  BY DEF Slots, Paths, Processes
<1>3. \A k \in Job : Asked(k, "selfupdate", Bare, "signature", NewExe, None) =>
                        Places(k) /\ About("cli", k) /\ Quiet(k)
  BY DEF Asked, Places, About, Quiet
<1> QED BY <1>1, <1>2, <1>3, BeginsKeeps DEF Ops, Stages

LEMMA UninstallBegins == ASSUME LauncherInv, cmd_uninstall PROVE LauncherInv'
<1>1. PICK at \in {"cache", "cache+data"} : BeginsOn("cli", "uninstall", Bare, at, Bare, None)
  BY DEF cmd_uninstall, Begins
<1>2. Bare \in Slots /\ Bare \in Paths /\ "cli" \in Processes /\ at \in Stages
  BY DEF Stages, Slots, Paths, Processes
<1>3. \A k \in Job : Asked(k, "uninstall", Bare, at, Bare, None) =>
                        Places(k) /\ About("cli", k) /\ Quiet(k)
  BY DEF Asked, Places, About, Quiet, Downloads
<1> QED BY <1>1, <1>2, <1>3, BeginsKeeps DEF Ops, Stages

\* create, delete and configure_resources are about an instance.
LEMMA RegistryBegins ==
    ASSUME LauncherInv, NEW p \in Processes, NEW i \in Ids,
           \/ Begins(p, "create", i, "create", i)
           \/ Begins(p, "delete", i, "delete", i)
           \/ Begins(p, "configure", i, "status", i)
    PROVE  LauncherInv'
<1>1. i \in Slots /\ i \in Paths
  BY DEF Slots, Paths
<1>2. CASE Begins(p, "create", i, "create", i)
  <2>1. \A k \in Job : Asked(k, "create", i, "create", i, None) =>
                          Places(k) /\ About(p, k) /\ Quiet(k)
    BY DEF Asked, Places, About, Quiet, Downloads
  <2>2. BeginsOn(p, "create", i, "create", i, None) /\ "create" \in SavesRegistry
    BY <1>2 DEF Begins, SavesRegistry
  <2> QED BY <1>1, <2>1, <2>2, BeginsKeeps DEF Ops, Stages
<1>3. CASE Begins(p, "delete", i, "delete", i)
  <2>1. \A k \in Job : Asked(k, "delete", i, "delete", i, None) =>
                          Places(k) /\ About(p, k) /\ Quiet(k)
    BY DEF Asked, Places, About, Quiet, Downloads
  <2>2. BeginsOn(p, "delete", i, "delete", i, None) /\ "delete" \in SavesRegistry
    BY <1>3 DEF Begins, SavesRegistry
  <2> QED BY <1>1, <2>1, <2>2, BeginsKeeps DEF Ops, Stages
<1>4. CASE Begins(p, "configure", i, "status", i)
  <2>1. \A k \in Job : Asked(k, "configure", i, "status", i, None) =>
                          Places(k) /\ About(p, k) /\ Quiet(k)
    BY DEF Asked, Places, About, Quiet, Downloads
  <2>2. BeginsOn(p, "configure", i, "status", i, None)
    BY <1>4 DEF Begins
  <2> QED BY <1>1, <2>1, <2>2, BeginsKeeps DEF Ops, Stages
<1> QED BY <1>2, <1>3, <1>4

LEMMA OperatesBegins ==
    ASSUME LauncherInv, NEW p \in Processes, NEW op \in {"start", "stop", "pause", "resume"},
           Operates(p, op)
    PROVE  LauncherInv'
<1>1. PICK s \in Slots : Reaches(p, s) /\ BeginsOn(p, op, s, op, s, None)
  BY DEF Operates, Begins
<1>2. s \in Paths /\ (p = "console" => s \in Ids) /\ op \in Ops /\ op \in Stages
  BY <1>1 DEF Ops, Stages, Paths, Reaches, LauncherInv, LauncherTypes
<1>3. \A k \in Job : Asked(k, op, s, op, s, None) => Places(k) /\ About(p, k) /\ Quiet(k)
  BY <1>2 DEF Asked, Places, About, Quiet, Downloads
<1> QED BY <1>1, <1>2, <1>3, BeginsKeeps DEF Ops, Stages

LEMMA CommandKeeps == ASSUME LauncherInv, NEW p \in Processes, Command(p) PROVE LauncherInv'
<1>1. CASE create(p)
  <2>1. PICK i \in Ids : Begins(p, "create", i, "create", i)
    BY <1>1 DEF create
  <2> QED BY <2>1, RegistryBegins
<1>2. CASE configure_resources(p) \/ delete(p)
  <2>1. PICK i \in registry : \/ Begins(p, "configure", i, "status", i)
                              \/ Begins(p, "delete", i, "delete", i)
    BY <1>2 DEF configure_resources, delete
  <2>2. i \in Ids
    BY DEF LauncherInv, LauncherTypes
  <2> QED BY <2>1, <2>2, RegistryBegins
<1> QED BY <1>1, <1>2, InstallBegins, OperatesBegins DEF Command

LEMMA PublishKeeps == ASSUME LauncherInv, Publish PROVE LauncherInv'
<1>1. /\ latest' = latest + 1 /\ latest' \in Release /\ latest \in Nat /\ offered' \in SUBSET Profiles
      /\ UNCHANGED <<backend, files, record, exe, registry, vm, marker, remap, job>>
      /\ UNCHANGED <<chosen, known, spoiled, overlapped, doubtful, unmapped>>
  BY LauncherAssumption DEF Publish, LauncherInv, LauncherTypes, Release, disk, hosts, history,
     doubts
<1>2. LauncherTypes'
  BY <1>1 DEF LauncherInv, LauncherTypes
<1>3. RegistryInv' /\ GuestInv' /\ PortInv'
  BY <1>1 DEF LauncherInv, RegistryInv, Holds, GuestInv, GuestOK, PortInv, PortOK
<1>4. DiskInv'
  <2> DEFINE j == job["cli"]
  <2>1. j.rel \in Nat /\ RecordOK(j) /\ StagedOK(j) /\ ExeOK(j) /\ ImageOK(j)
    BY LauncherAssumption DEF LauncherInv, LauncherTypes, DiskInv, JobOK, Job, Release, Processes
  <2>2. RecordOK(j)' /\ ImageOK(j)'
    BY <1>1, <2>1, LauncherAssumption DEF RecordOK, ImageOK, Installing, Whole, Release
  <2>3. StagedOK(j)' /\ ExeOK(j)'
    BY <1>1, <2>1 DEF StagedOK, ExeOK, Installing, Whole
  <2> QED BY <2>2, <2>3 DEF DiskInv
<1> QED BY <1>2, <1>3, <1>4 DEF LauncherInv

-----------------------------------------------------------------------------
(* Steps on the VMs of WSL and UTM *)

\* The job goes on with nothing to say of the disk, and takes up no copy of the registry.
Calm(p) ==
    /\ JobStep(p) /\ Quiet(job[p]) /\ Quiet(job'[p]) /\ job'[p].rel \in {1, job[p].rel}
    /\ Holds(p)' => Holds(p) /\ job'[p].copy = job[p].copy

LEMMA EndsCalm ==
    ASSUME LauncherTypes, NEW p \in Processes, Ends(p), Quiet(job[p])
    PROVE  Calm(p) /\ job'[p].at = "idle"
<1>1. JobStep(p) /\ job'[p].op = "none" /\ job'[p].at = "idle" /\ job'[p].rel = 1
  BY EndsJob
<1> QED BY <1>1 DEF Calm, Quiet, Downloads, Holds

LEMMA GotoCalm ==
    ASSUME LauncherTypes, NEW p \in Processes, NEW a \in Stages, Goto(p, a),
           job[p].op \notin Downloads,
           \A k \in Job : GoesTo(job[p], k, a) => Places(k),
           a \in {"create", "delete", "terminate_delete", "unregister", "save"} => Holds(p)
    PROVE  Calm(p) /\ GoesTo(job[p], job'[p], a)
<1>1. \A k \in Job : GoesTo(job[p], k, a) => About(p, k)
  BY DEF GoesTo, About, LauncherTypes, JobOK, Downloads
<1>2. JobStep(p) /\ GoesTo(job[p], job'[p], a)
  BY <1>1, GotoJob
<1> QED BY <1>2 DEF Calm, GoesTo, Quiet, Holds

LEMMA DoneCalm ==
    ASSUME LauncherTypes, NEW p \in Processes, Done(p),
           job[p].op \in {"start", "stop", "pause", "resume"}
    PROVE  Calm(p) /\ job'[p].at \in {"status", "idle"}
<1>1. job[p].op \notin Downloads /\ Quiet(job[p])
  BY DEF Downloads, Quiet
<1>2. CASE Ends(p)
  BY <1>1, <1>2, EndsCalm
<1>3. CASE Goto(p, "status")
  <2>1. \A k \in Job : GoesTo(job[p], k, "status") => Places(k)
    BY DEF GoesTo, Places
  <2>2. "status" \in Stages
    BY DEF Stages
  <2> QED BY <1>1, <1>3, <2>1, <2>2, GotoCalm DEF GoesTo
<1> QED BY <1>2, <1>3 DEF Done

LEMMA AfterStopCalm ==
    ASSUME LauncherTypes, NEW p \in Processes, AfterStop(p),
           \/ job[p].op = "stop"
           \/ job[p].op = "delete" /\ job[p].at \in {"delete", "terminate_delete"}
    PROVE  Calm(p) /\ job'[p].at \in {"status", "idle", "unregister"}
<1>1. CASE job[p].op = "stop"
  BY <1>1, DoneCalm DEF AfterStop
<1>2. CASE job[p].op = "delete"
  <2>1. Goto(p, "unregister") /\ job[p].op \notin Downloads /\ Holds(p) /\ "unregister" \in Stages
    BY <1>2 DEF AfterStop, Downloads, Holds, Stages
  <2>2. \A k \in Job : GoesTo(job[p], k, "unregister") => Places(k)
    BY <1>2 DEF GoesTo, Places
  <2> QED BY <2>1, <2>2, GotoCalm DEF GoesTo
<1> QED BY <1>1, <1>2

Only(s) ==
    /\ vm' \in [Slots -> Machine] /\ remap' \in [Slots -> {"none", "live", "stale"}]
    /\ \A t \in Slots \ {s} : vm'[t] = vm[t] /\ remap'[t] = remap[t]
    /\ \A t \in Slots \ {s} : t \in doubtful' <=> t \in doubtful
    /\ \A t \in Slots \ {s} : t \in unmapped' <=> t \in unmapped
GuestLocal(p, s) ==
    \/ job'[p].slot = s /\ job'[p].at \in GuestPlaces
    \/ GuestOK(s)'
    \/ job[p].at \notin GuestPlaces /\ (GuestOK(s) => GuestOK(s)')
PortLocal(p, s) ==
    backend = "wsl" =>
        \/ job'[p].slot = s /\ job'[p].at \in PortPlaces
        \/ s \in Ids => PortOK(s)'
        \/ job[p].at \notin PortPlaces /\ (PortOK(s) => PortOK(s)')

LEMMA ToolKeeps ==
    ASSUME LauncherInv, NEW p \in Processes, NEW s \in Slots, s = job[p].slot,
           Tool(p), Calm(p), Only(s), GuestLocal(p, s), PortLocal(p, s)
    PROVE  LauncherInv'
<1>1. LauncherTypes /\ JobStep(p)
  BY DEF LauncherInv, Calm
<1>2. /\ UNCHANGED <<backend, latest, offered, files, record, exe, registry, known, overlapped>>
      /\ UNCHANGED <<chosen, spoiled>>
  BY DEF Tool, KeepsHistory, server, disk
<1>3. LauncherTypes'
  BY <1>1, <1>2, JobsKept DEF LauncherTypes, Only
<1>4. RegistryStill(p) /\ DiskStill(p)
  BY <1>2 DEF RegistryStill, DiskStill, Calm
<1>5. GuestStep(p)
  BY DEF GuestStep, GuestLocal, Only, GuestOK
<1>6. backend = "wsl" => PortStep(p)
  BY DEF PortStep, PortLocal, Only, PortOK, Slots
<1> QED BY <1>1, <1>3, <1>4, <1>5, <1>6, StillKeeps DEF Still

LEMMA VmSet ==
    ASSUME LauncherTypes, NEW s \in Slots, NEW m \in Machine, vm' = [vm EXCEPT ![s] = m]
    PROVE  vm' \in [Slots -> Machine] /\ vm'[s] = m /\ \A t \in Slots \ {s} : vm'[t] = vm[t]
  BY DEF LauncherTypes

LEMMA RemapSet ==
    ASSUME LauncherTypes, NEW s \in Slots, NEW m \in {"none", "live", "stale"},
           remap' = [remap EXCEPT ![s] = m]
    PROVE  /\ remap' \in [Slots -> {"none", "live", "stale"}]
           /\ remap'[s] = m /\ \A t \in Slots \ {s} : remap'[t] = remap[t]
  BY DEF LauncherTypes

LEMMA StartWslKeeps == ASSUME LauncherInv, NEW p \in Processes, start_wsl(p) PROVE LauncherInv'
<1>1. PICK s \in Slots : s = job[p].slot
  BY DEF LauncherInv, LauncherTypes, JobOK, Job
<1>2. /\ LauncherTypes /\ job[p].op = "start" /\ job[p].at = "start" /\ Tool(p)
      /\ UNCHANGED <<remap, unmapped>>
  BY DEF LauncherInv, start_wsl, At
<1>3. job[p].op \notin Downloads /\ Quiet(job[p])
  BY <1>2 DEF Downloads, Quiet
<1>4. CASE UNCHANGED <<vm, doubtful>> /\ (Ends(p) \/ Done(p) \/ Goto(p, "resume"))
  <2>1. Calm(p)
    <3>1. \A k \in Job : GoesTo(job[p], k, "resume") => Places(k)
      BY <1>2 DEF GoesTo, Places
    <3> QED BY <1>2, <1>3, <1>4, <3>1, EndsCalm, DoneCalm, GotoCalm DEF Stages
  <2>2. Only(s) /\ GuestLocal(p, s) /\ PortLocal(p, s)
    BY <1>2, <1>4 DEF Only, GuestLocal, PortLocal, GuestOK, PortOK, LauncherTypes, GuestPlaces,
       PortPlaces
  <2> QED BY <1>1, <1>2, <2>1, <2>2, ToolKeeps
<1>5. CASE Is(s, "running", "active") /\ Settled(s) /\ Goto(p, "remap")
  <2>1. Calm(p) /\ job'[p].at = "remap" /\ job'[p].slot = s
    <3>1. \A k \in Job : GoesTo(job[p], k, "remap") => Places(k)
      BY <1>2 DEF GoesTo, Places
    <3> QED BY <1>1, <1>2, <1>3, <1>5, <3>1, GotoCalm DEF Stages, GoesTo
  <2>2. /\ vm' \in [Slots -> Machine] /\ vm'[s] = [state |-> "running", guest |-> "active"]
        /\ \A t \in Slots \ {s} : vm'[t] = vm[t]
    BY <1>2, <1>5, VmSet DEF Is, Machine
  <2>3. Only(s)
    BY <1>2, <1>5, <2>2 DEF Only, Settled, LauncherTypes
  <2>4. GuestLocal(p, s) /\ PortLocal(p, s)
    BY <2>1, <2>2 DEF GuestLocal, PortLocal, GuestOK, PortPlaces
  <2> QED BY <1>1, <1>2, <2>1, <2>3, <2>4, ToolKeeps
<1> QED BY <1>1, <1>4, <1>5 DEF start_wsl

LEMMA Untouched ==
    ASSUME LauncherTypes, NEW p \in Processes, NEW s \in Slots,
           UNCHANGED <<vm, remap, doubtful, unmapped>>,
           job[p].at \notin GuestPlaces, backend = "wsl" => job[p].at \notin PortPlaces
    PROVE  Only(s) /\ GuestLocal(p, s) /\ PortLocal(p, s)
  BY DEF Only, GuestLocal, PortLocal, GuestOK, PortOK, LauncherTypes

LEMMA StartUtmKeeps == ASSUME LauncherInv, NEW p \in Processes, start_utm(p) PROVE LauncherInv'
<1>1. PICK s \in Slots : s = job[p].slot
  BY DEF LauncherInv, LauncherTypes, JobOK, Job
<1>2. /\ LauncherTypes /\ job[p].op = "start" /\ job[p].at = "start" /\ Tool(p)
      /\ UNCHANGED <<remap, unmapped>> /\ backend = "utm"
  BY DEF LauncherInv, start_utm, At
<1>3. job[p].op \notin Downloads /\ Quiet(job[p])
  BY <1>2 DEF Downloads, Quiet
<1>4. Calm(p)
  <2>1. \A k \in Job : GoesTo(job[p], k, "resume") => Places(k)
    BY <1>2 DEF GoesTo, Places
  <2>2. Ends(p) \/ Done(p) \/ Goto(p, "resume")
    BY DEF start_utm
  <2> QED BY <1>2, <1>3, <2>1, <2>2, EndsCalm, DoneCalm, GotoCalm DEF Stages
<1>5. CASE UNCHANGED <<vm, doubtful>>
  <2>1. job[p].at \notin GuestPlaces \cup PortPlaces
    BY <1>2 DEF GuestPlaces, PortPlaces
  <2> QED BY <1>1, <1>2, <1>4, <1>5, <2>1, Untouched, ToolKeeps
<1>6. CASE Is(s, "running", "active") /\ Settled(s)
  <2>1. /\ vm' \in [Slots -> Machine] /\ vm'[s] = [state |-> "running", guest |-> "active"]
        /\ \A t \in Slots \ {s} : vm'[t] = vm[t]
    BY <1>2, <1>6, VmSet DEF Is, Machine
  <2>2. Only(s)
    BY <1>2, <1>6, <2>1 DEF Only, Settled, LauncherTypes
  <2>3. GuestLocal(p, s) /\ PortLocal(p, s)
    BY <1>2, <2>1 DEF GuestLocal, PortLocal, GuestOK
  <2> QED BY <1>1, <1>2, <1>4, <2>2, <2>3, ToolKeeps
<1> QED BY <1>1, <1>5, <1>6 DEF start_utm

\* Where a job is tells what it is of.
LEMMA OpOfPlace ==
    ASSUME LauncherTypes, NEW p \in Processes
    PROVE  /\ job[p].at \in {"resume", "thaw", "unmark", "remap"} => job[p].op \in {"start", "resume"}
           /\ job[p].at \in {"unmap", "suspend", "mark"} => job[p].op = "pause"
           /\ job[p].at = "terminate" => job[p].op = "stop"
           /\ job[p].at = "terminate_delete" => job[p].op = "delete"
           /\ job[p].at = "stop" => job[p].op = "stop"
           /\ job[p].at = "delete" => job[p].op = "delete"
           /\ job[p].at = "import" => job[p].op = "install"
           /\ job[p].at = "status" => job[p].op \in {"start", "stop", "pause", "resume", "configure"}
<1>1. Places(job[p])
  BY DEF LauncherTypes, JobOK
<1> QED BY <1>1 DEF Places

\* Starting, resuming and thawing follow each other.
LEMMA WakingGoes ==
    ASSUME LauncherTypes, NEW p \in Processes, NEW a \in {"thaw", "unmark", "remap"}, Goto(p, a),
           job[p].op \in {"start", "resume"}
    PROVE  Calm(p) /\ job'[p].at = a /\ job'[p].slot = job[p].slot
<1>1. a \in Stages /\ job[p].op \notin Downloads
  BY DEF Stages, Downloads
<1>2. \A k \in Job : GoesTo(job[p], k, a) => Places(k)
  BY DEF GoesTo, Places
<1> QED BY <1>1, <1>2, GotoCalm DEF GoesTo

LEMMA ResumeWslKeeps == ASSUME LauncherInv, NEW p \in Processes, resume_wsl(p) PROVE LauncherInv'
<1>1. PICK s \in Slots : s = job[p].slot
  BY DEF LauncherInv, LauncherTypes, JobOK, Job
<1>2. /\ LauncherTypes /\ job[p].op \in {"start", "resume"} /\ job[p].at = "resume" /\ Tool(p)
      /\ UNCHANGED <<remap, unmapped>>
  BY OpOfPlace DEF LauncherInv, resume_wsl
<1>3. Quiet(job[p])
  BY <1>2 DEF Downloads, Quiet
<1>4. Calm(p)
  BY <1>2, <1>3, EndsCalm, WakingGoes DEF resume_wsl
<1>5. CASE UNCHANGED <<vm, doubtful>>
  <2>1. job[p].at \notin GuestPlaces \cup PortPlaces
    BY <1>2 DEF GuestPlaces, PortPlaces
  <2> QED BY <1>1, <1>2, <1>4, <1>5, <2>1, Untouched, ToolKeeps
<1>6. CASE Is(s, "running", "active") /\ Settled(s) /\ Goto(p, "thaw")
  <2>1. /\ vm' \in [Slots -> Machine] /\ vm'[s] = [state |-> "running", guest |-> "active"]
        /\ \A t \in Slots \ {s} : vm'[t] = vm[t]
    BY <1>2, <1>6, VmSet DEF Is, Machine
  <2>2. Only(s)
    BY <1>2, <1>6, <2>1 DEF Only, Settled, LauncherTypes
  <2>3. job'[p].at = "thaw" /\ job'[p].slot = s
    BY <1>1, <1>2, <1>6, WakingGoes
  <2>4. GuestLocal(p, s) /\ PortLocal(p, s)
    BY <2>1, <2>3 DEF GuestLocal, PortLocal, GuestOK, PortPlaces
  <2> QED BY <1>1, <1>2, <1>4, <2>2, <2>4, ToolKeeps
<1> QED BY <1>1, <1>5, <1>6 DEF resume_wsl

LEMMA ResumeUtmKeeps == ASSUME LauncherInv, NEW p \in Processes, resume_utm(p) PROVE LauncherInv'
<1>1. PICK s \in Slots : s = job[p].slot
  BY DEF LauncherInv, LauncherTypes, JobOK, Job
<1>2. /\ LauncherTypes /\ job[p].op \in {"start", "resume"} /\ job[p].at = "resume" /\ Tool(p)
      /\ UNCHANGED <<remap, doubtful, unmapped>> /\ backend = "utm"
  BY OpOfPlace DEF LauncherInv, resume_utm, doubts
<1>3. Quiet(job[p])
  BY <1>2 DEF Downloads, Quiet
<1>4. Calm(p)
  BY <1>2, <1>3, EndsCalm, WakingGoes DEF resume_utm
<1>5. CASE UNCHANGED vm
  <2>1. job[p].at \notin GuestPlaces \cup PortPlaces
    BY <1>2 DEF GuestPlaces, PortPlaces
  <2> QED BY <1>1, <1>2, <1>4, <1>5, <2>1, Untouched, ToolKeeps
<1>6. CASE Is(s, "running", vm[s].guest) /\ Goto(p, "thaw")
  <2>1. vm[s] \in Machine
    BY <1>2 DEF LauncherTypes
  <2>2. vm' \in [Slots -> Machine] /\ \A t \in Slots \ {s} : vm'[t] = vm[t]
    BY <1>2, <1>6, <2>1, VmSet DEF Is, Machine
  <2>3. Only(s)
    BY <1>2, <2>2 DEF Only, LauncherTypes
  <2>4. job'[p].at = "thaw" /\ job'[p].slot = s
    BY <1>1, <1>2, <1>6, WakingGoes
  <2>5. GuestLocal(p, s) /\ PortLocal(p, s)
    BY <1>2, <2>4 DEF GuestLocal, PortLocal, GuestPlaces
  <2> QED BY <1>1, <1>2, <1>4, <2>3, <2>5, ToolKeeps
<1> QED BY <1>1, <1>5, <1>6 DEF resume_utm

\* After it the guest is active, or known to be in doubt.
LEMMA ThawsTells ==
    ASSUME LauncherTypes, NEW s \in Slots, Thaws(s), remap' = remap,
           \A t \in Slots \ {s} : t \in unmapped' <=> t \in unmapped
    PROVE  Only(s) /\ GuestOK(s)' /\ (vm'[s].state = vm[s].state)
<1>1. CASE vm[s].state = "running" /\ Is(s, "running", "active") /\ Settled(s)
  <2>1. /\ vm' \in [Slots -> Machine] /\ vm'[s] = [state |-> "running", guest |-> "active"]
        /\ \A t \in Slots \ {s} : vm'[t] = vm[t]
    BY <1>1, VmSet DEF Is, Machine
  <2> QED BY <1>1, <2>1 DEF Only, Settled, LauncherTypes, GuestOK
<1>2. CASE UNCHANGED vm /\ doubtful' = doubtful \cup {s}
  BY <1>2 DEF Only, LauncherTypes, GuestOK
<1> QED BY <1>1, <1>2 DEF Thaws

LEMMA ThawKeeps == ASSUME LauncherInv, NEW p \in Processes, thaw(p) PROVE LauncherInv'
<1>1. PICK s \in Slots : s = job[p].slot
  BY DEF LauncherInv, LauncherTypes, JobOK, Job
<1>2. /\ LauncherTypes /\ job[p].op \in {"start", "resume"} /\ job[p].at = "thaw" /\ Tool(p)
      /\ UNCHANGED <<remap, unmapped>> /\ Thaws(s)
  BY <1>1, OpOfPlace DEF LauncherInv, thaw
<1>3. Calm(p) /\ (backend = "wsl" => job'[p].at = "unmark" /\ job'[p].slot = s)
  BY <1>1, <1>2, DoneCalm, WakingGoes DEF thaw
<1>4. Only(s) /\ GuestOK(s)'
  BY <1>2, ThawsTells
<1>5. GuestLocal(p, s) /\ PortLocal(p, s)
  BY <1>3, <1>4 DEF GuestLocal, PortLocal, PortPlaces
<1> QED BY <1>1, <1>2, <1>3, <1>4, <1>5, ToolKeeps

LEMMA UnmarkKeeps == ASSUME LauncherInv, NEW p \in Processes, clear_paused_marker(p) PROVE LauncherInv'
<1>1. PICK s \in Slots : s = job[p].slot
  BY DEF LauncherInv, LauncherTypes, JobOK, Job
<1>2. /\ LauncherTypes /\ job[p].op \in {"start", "resume"} /\ job[p].at = "unmark" /\ Tool(p)
      /\ UNCHANGED <<vm, remap, doubtful, unmapped>> /\ Goto(p, "remap")
  BY OpOfPlace DEF LauncherInv, clear_paused_marker, doubts
<1>3. Calm(p) /\ job'[p].at = "remap" /\ job'[p].slot = s
  BY <1>1, <1>2, WakingGoes
<1>4. Only(s)
  BY <1>2 DEF Only, LauncherTypes
<1>5. GuestLocal(p, s) /\ PortLocal(p, s)
  BY <1>2, <1>3 DEF GuestLocal, PortLocal, PortPlaces, GuestPlaces, GuestOK
<1> QED BY <1>1, <1>2, <1>3, <1>4, <1>5, ToolKeeps

LEMMA RemapKeeps == ASSUME LauncherInv, NEW p \in Processes, apply_port_remap(p) PROVE LauncherInv'
<1>1. PICK s \in Slots : s = job[p].slot
  BY DEF LauncherInv, LauncherTypes, JobOK, Job
<1>2. LauncherTypes /\ job[p].op \in {"start", "resume"} /\ job[p].at = "remap" /\ Tool(p) /\ Done(p)
  BY OpOfPlace DEF LauncherInv, apply_port_remap
<1>3. Calm(p)
  BY <1>2, DoneCalm
<1>4. CASE (s = Bare \/ vm[s].state = "absent") /\ UNCHANGED <<vm, remap, faults, doubts>>
  <2>1. Only(s)
    BY <1>2, <1>4 DEF Only, LauncherTypes, doubts
  <2>2. GuestLocal(p, s) /\ PortLocal(p, s)
    BY <1>2, <1>4, NamesAssumption
    DEF GuestLocal, PortLocal, GuestPlaces, GuestOK, PortOK, doubts
  <2> QED BY <1>1, <1>2, <1>3, <2>1, <2>2, ToolKeeps
<1>5. CASE /\ IF vm[s].state = "running" THEN UNCHANGED <<vm, doubtful>>
              ELSE Is(s, "running", "active") /\ Settled(s)
           /\ \/ remap' = [remap EXCEPT ![s] = Mapped(s)] /\ unmapped' = unmapped \ {s}
              \/ remap' = [remap EXCEPT ![s] = "none"] /\ unmapped' = unmapped \cup {s}
  <2>1. /\ vm' \in [Slots -> Machine] /\ \A t \in Slots \ {s} : vm'[t] = vm[t]
        /\ \A t \in Slots \ {s} : t \in doubtful' <=> t \in doubtful
        /\ (vm'[s] = vm[s] /\ doubtful' = doubtful) \/ vm'[s].guest = "active"
    <3>1. CASE UNCHANGED <<vm, doubtful>>
      BY <1>2, <3>1 DEF LauncherTypes
    <3>2. CASE Is(s, "running", "active") /\ Settled(s)
      <4>1. /\ vm' \in [Slots -> Machine] /\ vm'[s] = [state |-> "running", guest |-> "active"]
            /\ \A t \in Slots \ {s} : vm'[t] = vm[t]
        BY <1>2, <3>2, VmSet DEF Is, Machine
      <4> QED BY <3>2, <4>1 DEF Settled
    <3> QED BY <1>5, <3>1, <3>2
  <2>2. /\ remap' \in [Slots -> {"none", "live", "stale"}]
        /\ \A t \in Slots \ {s} : remap'[t] = remap[t]
        /\ \A t \in Slots \ {s} : t \in unmapped' <=> t \in unmapped
        /\ remap'[s] = "live" \/ s \in unmapped'
    BY <1>2, <1>5, RemapSet DEF Mapped
  <2>3. Only(s) /\ GuestLocal(p, s) /\ PortLocal(p, s)
    BY <1>2, <2>1, <2>2 DEF Only, GuestLocal, PortLocal, GuestPlaces, GuestOK, PortOK
  <2> QED BY <1>1, <1>2, <1>3, <2>3, ToolKeeps
<1> QED BY <1>1, <1>4, <1>5 DEF apply_port_remap

LEMMA ImportKeeps ==
    ASSUME LauncherInv, NEW p \in Processes, import_qemu(p) \/ import_vm(p)
    PROVE  LauncherInv'
<1>1. PICK s \in Slots : s = job[p].slot
  BY DEF LauncherInv, LauncherTypes, JobOK, Job
<1>2. /\ LauncherTypes /\ DiskInv /\ job[p].op = "install" /\ job[p].at = "import" /\ Tool(p)
      /\ UNCHANGED <<remap, doubtful, unmapped>> /\ ImportsTo(p)
      /\ UNCHANGED vm \/ Is(s, "stopped", "active")
  BY <1>1, OpOfPlace DEF LauncherInv, import_qemu, import_vm, hosts, doubts
<1>3. UNCHANGED <<backend, latest, offered, files, record, exe, registry, known, overlapped,
                  chosen, spoiled>>
  BY <1>2 DEF Tool, KeepsHistory, server, disk
<1>4. /\ JobStep(p) /\ ~Holds(p)'
      /\ s # Bare => job'[p].op = "none" /\ job'[p].rel = 1
      /\ s = Bare => GoesTo(job[p], job'[p], "record")
  <2>1. CASE s # Bare
    BY <1>1, <1>2, <2>1, EndsJob DEF ImportsTo, Holds
  <2>2. CASE s = Bare
    <3>1. \A k \in Job : GoesTo(job[p], k, "record") => Places(k) /\ About(p, k)
      BY <1>1, <1>2, <2>2 DEF GoesTo, Places, About, LauncherTypes, JobOK
    <3>2. JobStep(p) /\ GoesTo(job[p], job'[p], "record")
      BY <1>1, <1>2, <2>2, <3>1, GotoJob DEF ImportsTo, Stages
    <3> QED BY <2>2, <3>2 DEF GoesTo, Holds
  <2> QED BY <2>1, <2>2
<1>5. /\ vm' \in [Slots -> Machine] /\ \A t \in Slots \ {s} : vm'[t] = vm[t]
      /\ vm'[s] = vm[s] \/ vm'[s].state # "running"
  BY <1>2, VmSet DEF Is, Machine, LauncherTypes
<1>6. LauncherTypes'
  BY <1>2, <1>3, <1>4, <1>5, JobsKept DEF LauncherTypes
<1>7. RegistryInv'
  BY <1>2, <1>3, <1>4, RegistryKept DEF RegistryStill, JobStep, LauncherInv
<1>8. GuestStep(p) /\ PortStep(p)
  BY <1>1, <1>2, <1>5 DEF GuestStep, PortStep, GuestOK, PortOK, GuestPlaces, PortPlaces, Slots
<1>9. GuestInv' /\ PortInv'
  <2>1. Others(p) /\ backend' = backend
    BY <1>3, <1>4 DEF JobStep
  <2> QED BY <1>2, <1>8, <2>1, GuestKept, PortKept DEF LauncherInv
<1>10. DiskInv'
  <2>1. CASE p = "cli" /\ s = Bare
    <3> DEFINE j == job["cli"]
               k == job'["cli"]
    <3>1. /\ k.op = "install" /\ k.at = "record" /\ k.slot = Bare /\ k.rel = j.rel
          /\ k.profile = j.profile /\ j.op = "install" /\ j.at = "import" /\ j.slot = Bare
      BY <1>1, <1>2, <1>4, <2>1 DEF GoesTo
    <3> HIDE DEF k
    <3>2. RecordOK(j) /\ StagedOK(j) /\ ExeOK(j) /\ ImageOK(j)
      BY <1>2 DEF DiskInv
    <3>3. RecordOK(j)' /\ ExeOK(j)'
      BY <1>3, <3>1, <3>2 DEF RecordOK, ExeOK, k
    <3>4. StagedOK(j)' /\ ImageOK(j)'
      BY <1>3, <3>1, <3>2 DEF StagedOK, ImageOK, Installing, Whole, k
    <3> QED BY <3>3, <3>4 DEF DiskInv
  <2>2. CASE ~(p = "cli" /\ s = Bare)
    <3>1. p = "cli" => /\ Quiet(job[p]) /\ Quiet(job'[p])
                       /\ job'[p].rel \in {1, job[p].rel, latest}
      BY <1>1, <1>2, <1>4, <2>2 DEF Quiet, Downloads
    <3>2. DiskStill(p)
      BY <1>3, <3>1 DEF DiskStill
    <3> QED BY <1>2, <1>4, <3>2, DiskKept
  <2> QED BY <2>1, <2>2
<1> QED BY <1>6, <1>7, <1>9, <1>10 DEF LauncherInv

LEMMA StopQemuKeeps == ASSUME LauncherInv, NEW p \in Processes, stop_qemu(p) PROVE LauncherInv'
<1>1. PICK s \in Slots : s = job[p].slot
  BY DEF LauncherInv, LauncherTypes, JobOK, Job
<1>2. /\ LauncherTypes /\ job[p].at \in {"stop", "delete"} /\ Tool(p) /\ AfterStop(p)
      /\ UNCHANGED <<vm, remap, doubtful, unmapped>>
  BY DEF LauncherInv, stop_qemu, StopsAt, hosts, doubts
<1>3. Calm(p)
  BY <1>2, OpOfPlace, AfterStopCalm
<1>4. Only(s) /\ GuestLocal(p, s) /\ PortLocal(p, s)
  <2>1. job[p].at \notin GuestPlaces \cup PortPlaces
    BY <1>2 DEF GuestPlaces, PortPlaces
  <2> QED BY <1>2, <2>1, Untouched
<1> QED BY <1>1, <1>2, <1>3, <1>4, ToolKeeps

LEMMA StopWslKeeps == ASSUME LauncherInv, NEW p \in Processes, stop_wsl(p) PROVE LauncherInv'
<1>1. PICK s \in Slots : s = job[p].slot
  BY DEF LauncherInv, LauncherTypes, JobOK, Job
<1>2. /\ LauncherTypes /\ job[p].at \in {"stop", "delete"} /\ Tool(p)
      /\ UNCHANGED <<vm, doubtful, unmapped>> /\ backend = "wsl"
      /\ remap' = [remap EXCEPT ![s] = "none"]
  BY <1>1 DEF LauncherInv, stop_wsl, StopsAt, Unmaps, doubts
<1>3. /\ \/ job[p].at = "stop" /\ job[p].op = "stop"
         \/ job[p].at = "delete" /\ job[p].op = "delete"
      /\ job[p].op \notin Downloads
  BY <1>2, OpOfPlace DEF Downloads
<1>4. Only(s)
  BY <1>2, RemapSet DEF Only, LauncherTypes
<1>5. GuestLocal(p, s)
  BY <1>2 DEF GuestLocal, GuestOK, GuestPlaces
<1>6. CASE Running(s)
  <2> DEFINE a == IF job[p].op = "delete" THEN "terminate_delete" ELSE "terminate"
  <2>1. Goto(p, a)
    BY <1>1, <1>6 DEF stop_wsl
  <2>2. CASE job[p].op = "delete"
    <3>1. \A k \in Job : GoesTo(job[p], k, "terminate_delete") => Places(k)
      BY <2>2 DEF GoesTo, Places
    <3>2. Holds(p) /\ Goto(p, "terminate_delete") /\ "terminate_delete" \in Stages
      BY <1>3, <2>1, <2>2 DEF Holds, Stages
    <3>3. Calm(p) /\ job'[p].at = "terminate_delete" /\ job'[p].slot = s
      BY <1>1, <1>2, <1>3, <3>1, <3>2, GotoCalm DEF GoesTo
    <3>4. PortLocal(p, s)
      BY <3>3 DEF PortLocal, PortPlaces
    <3> QED BY <1>1, <1>2, <1>4, <1>5, <3>3, <3>4, ToolKeeps
  <2>3. CASE job[p].op # "delete"
    <3>1. \A k \in Job : GoesTo(job[p], k, "terminate") => Places(k)
      BY <1>3, <2>3 DEF GoesTo, Places
    <3>2. Goto(p, "terminate") /\ "terminate" \in Stages
      BY <2>1, <2>3 DEF Stages
    <3>3. Calm(p) /\ job'[p].at = "terminate" /\ job'[p].slot = s
      BY <1>1, <1>2, <1>3, <3>1, <3>2, GotoCalm DEF GoesTo
    <3>4. PortLocal(p, s)
      BY <3>3 DEF PortLocal, PortPlaces
    <3> QED BY <1>1, <1>2, <1>4, <1>5, <3>3, <3>4, ToolKeeps
  <2> QED BY <2>2, <2>3
<1>7. CASE ~Running(s)
  <2>1. AfterStop(p)
    BY <1>1, <1>7 DEF stop_wsl
  <2>2. Calm(p)
    BY <1>2, <1>3, <2>1, AfterStopCalm
  <2>3. s \in Ids => vm[s].state # "running"
    BY <1>2, <1>7, NamesAssumption DEF Running, Named
  <2>4. PortLocal(p, s)
    BY <1>2, <2>3 DEF PortLocal, PortOK
  <2> QED BY <1>1, <1>2, <1>4, <1>5, <2>2, <2>4, ToolKeeps
<1> QED BY <1>6, <1>7

LEMMA StopUtmKeeps == ASSUME LauncherInv, NEW p \in Processes, stop_utm(p) PROVE LauncherInv'
<1>1. PICK s \in Slots : s = job[p].slot
  BY DEF LauncherInv, LauncherTypes, JobOK, Job
<1>2. /\ LauncherTypes /\ job[p].at \in {"stop", "delete"} /\ Tool(p) /\ AfterStop(p)
      /\ UNCHANGED <<remap, unmapped>> /\ backend = "utm" /\ vm[s] \in Machine
  BY DEF LauncherInv, stop_utm, StopsAt, LauncherTypes
<1>3. Calm(p)
  BY <1>2, OpOfPlace, AfterStopCalm
<1>4. /\ vm' \in [Slots -> Machine] /\ \A t \in Slots \ {s} : vm'[t] = vm[t]
      /\ \A t \in Slots \ {s} : t \in doubtful' <=> t \in doubtful
      /\ (vm'[s] = vm[s] /\ doubtful' = doubtful) \/ vm'[s].state # "running"
  <2>1. CASE UNCHANGED <<vm, doubtful>>
    BY <1>2, <2>1 DEF LauncherTypes
  <2>2. CASE Is(s, "stopping", vm[s].guest) /\ UNCHANGED doubtful
    BY <1>2, <2>2, VmSet DEF Is, Machine
  <2>3. CASE HasStopped(s)
    BY <1>2, <2>3, VmSet DEF Is, Machine, HasStopped, Settled
  <2> QED BY <1>1, <2>1, <2>2, <2>3 DEF stop_utm
<1>5. Only(s) /\ GuestLocal(p, s) /\ PortLocal(p, s)
  BY <1>2, <1>4 DEF Only, LauncherTypes, GuestLocal, PortLocal, GuestOK, GuestPlaces
<1> QED BY <1>1, <1>2, <1>3, <1>5, ToolKeeps

\* A VM that stops forwards nothing, and no guest runs in it.
LEMMA StopTells ==
    ASSUME LauncherTypes, NEW s \in Slots, HasStopped(s), Forwarded(s), unmapped' = unmapped
    PROVE  Only(s) /\ GuestOK(s)' /\ PortOK(s)'
<1>1. /\ vm' \in [Slots -> Machine] /\ \A t \in Slots \ {s} : vm'[t] = vm[t]
      /\ vm'[s] = [state |-> "stopped", guest |-> "active"]
  BY VmSet DEF HasStopped, Is, Machine
<1>2. remap' \in [Slots -> {"none", "live", "stale"}] /\ \A t \in Slots \ {s} : remap'[t] = remap[t]
  BY DEF LauncherTypes, Forwarded
<1> QED BY <1>1, <1>2 DEF Only, HasStopped, Settled, GuestOK, PortOK

LEMMA TerminateKeeps == ASSUME LauncherInv, NEW p \in Processes, terminate(p) PROVE LauncherInv'
<1>1. PICK s \in Slots : s = job[p].slot
  BY DEF LauncherInv, LauncherTypes, JobOK, Job
<1>2. /\ LauncherTypes /\ job[p].at \in {"terminate", "terminate_delete"} /\ Tool(p) /\ AfterStop(p)
      /\ HasStopped(s) /\ Forwarded(s) /\ unmapped' = unmapped
  BY <1>1 DEF LauncherInv, terminate
<1>3. Calm(p)
  BY <1>2, OpOfPlace, AfterStopCalm
<1>4. Only(s) /\ GuestLocal(p, s) /\ PortLocal(p, s)
  BY <1>2, StopTells DEF GuestLocal, PortLocal
<1> QED BY <1>1, <1>2, <1>3, <1>4, ToolKeeps

LEMMA PauseKeeps == ASSUME LauncherInv, NEW p \in Processes, pause_with(p) PROVE LauncherInv'
<1>1. PICK s \in Slots : s = job[p].slot
  BY DEF LauncherInv, LauncherTypes, JobOK, Job
<1>2. /\ LauncherTypes /\ job[p].op = "pause" /\ job[p].at = "pause" /\ Tool(p)
      /\ UNCHANGED <<remap, doubtful, unmapped>>
  BY DEF LauncherInv, pause_with, At, doubts
<1>3. job[p].op \notin Downloads /\ Quiet(job[p])
  BY <1>2 DEF Downloads, Quiet
<1>4. CASE (Ends(p) \/ Done(p)) /\ UNCHANGED vm
  <2>1. Calm(p)
    BY <1>2, <1>3, <1>4, EndsCalm, DoneCalm
  <2>2. job[p].at \notin GuestPlaces \cup PortPlaces
    BY <1>2 DEF GuestPlaces, PortPlaces
  <2> QED BY <1>1, <1>2, <1>4, <2>1, <2>2, Untouched, ToolKeeps
<1>5. CASE /\ Goto(p, IF backend = "wsl" THEN "unmap" ELSE "suspend")
           /\ (vm[s].state = "running" /\ Is(s, "running", "quiesced")) \/ UNCHANGED vm
  <2>1. /\ vm' \in [Slots -> Machine] /\ \A t \in Slots \ {s} : vm'[t] = vm[t]
        /\ vm'[s].state = vm[s].state
    BY <1>2, <1>5, VmSet DEF Is, Machine, LauncherTypes
  <2>2. PICK a \in {"unmap", "suspend"} : Goto(p, a)
    BY <1>5
  <2>3. \A k \in Job : GoesTo(job[p], k, a) => Places(k)
    BY <1>2 DEF GoesTo, Places
  <2>4. Calm(p) /\ job'[p].at = a /\ job'[p].slot = s
    BY <1>1, <1>2, <1>3, <2>2, <2>3, GotoCalm DEF Stages, GoesTo
  <2>5. Only(s) /\ GuestLocal(p, s)
    BY <1>2, <2>1, <2>4 DEF Only, LauncherTypes, GuestLocal, GuestPlaces
  <2>6. PortLocal(p, s)
    BY <1>2, <2>1 DEF PortLocal, PortOK, PortPlaces
  <2> QED BY <1>1, <1>2, <2>4, <2>5, <2>6, ToolKeeps
<1> QED BY <1>1, <1>4, <1>5 DEF pause_with

LEMMA UnmapKeeps == ASSUME LauncherInv, NEW p \in Processes, clear_port_remap(p) PROVE LauncherInv'
<1>1. PICK s \in Slots : s = job[p].slot
  BY DEF LauncherInv, LauncherTypes, JobOK, Job
<1>2. /\ LauncherTypes /\ job[p].op = "pause" /\ job[p].at = "unmap" /\ Tool(p)
      /\ UNCHANGED <<vm, doubtful, unmapped>> /\ remap' = [remap EXCEPT ![s] = "none"]
      /\ Goto(p, "suspend")
  BY <1>1, OpOfPlace DEF LauncherInv, clear_port_remap, Unmaps, doubts
<1>3. Calm(p) /\ job'[p].at = "suspend" /\ job'[p].slot = s
  <2>1. \A k \in Job : GoesTo(job[p], k, "suspend") => Places(k)
    BY <1>2 DEF GoesTo, Places
  <2>2. job[p].op \notin Downloads /\ "suspend" \in Stages
    BY <1>2 DEF Downloads, Stages
  <2> QED BY <1>1, <1>2, <2>1, <2>2, GotoCalm DEF GoesTo
<1>4. Only(s)
  BY <1>2, RemapSet DEF Only, LauncherTypes
<1>5. GuestLocal(p, s) /\ PortLocal(p, s)
  BY <1>3 DEF GuestLocal, PortLocal, GuestPlaces, PortPlaces
<1> QED BY <1>1, <1>2, <1>3, <1>4, <1>5, ToolKeeps

LEMMA SuspendWslKeeps == ASSUME LauncherInv, NEW p \in Processes, suspend_wsl(p) PROVE LauncherInv'
<1>1. PICK s \in Slots : s = job[p].slot
  BY DEF LauncherInv, LauncherTypes, JobOK, Job
<1>2. /\ LauncherTypes /\ job[p].op = "pause" /\ Tool(p)
      /\ HasStopped(s) /\ Forwarded(s) /\ unmapped' = unmapped /\ Goto(p, "mark")
  BY <1>1, OpOfPlace DEF LauncherInv, suspend_wsl
<1>3. Calm(p)
  <2>1. \A k \in Job : GoesTo(job[p], k, "mark") => Places(k)
    BY <1>2 DEF GoesTo, Places
  <2>2. job[p].op \notin Downloads /\ "mark" \in Stages
    BY <1>2 DEF Downloads, Stages
  <2> QED BY <1>2, <2>1, <2>2, GotoCalm
<1>4. Only(s) /\ GuestLocal(p, s) /\ PortLocal(p, s)
  BY <1>2, StopTells DEF GuestLocal, PortLocal
<1> QED BY <1>1, <1>2, <1>3, <1>4, ToolKeeps

LEMMA SuspendUtmKeeps == ASSUME LauncherInv, NEW p \in Processes, suspend_utm(p) PROVE LauncherInv'
<1>1. PICK s \in Slots : s = job[p].slot
  BY DEF LauncherInv, LauncherTypes, JobOK, Job
<1>2. /\ LauncherTypes /\ job[p].op = "pause" /\ Tool(p) /\ Done(p) /\ backend = "utm"
      /\ UNCHANGED <<remap, doubtful, unmapped>> /\ vm[s] \in Machine
      /\ Is(s, "paused", vm[s].guest)
  BY <1>1, OpOfPlace DEF LauncherInv, suspend_utm, doubts, LauncherTypes
<1>3. Calm(p)
  BY <1>2, DoneCalm
<1>4. /\ vm' \in [Slots -> Machine] /\ \A t \in Slots \ {s} : vm'[t] = vm[t]
      /\ vm'[s].state = "paused"
  BY <1>2, VmSet DEF Is, Machine
<1>5. Only(s) /\ GuestLocal(p, s) /\ PortLocal(p, s)
  BY <1>2, <1>4 DEF Only, LauncherTypes, GuestLocal, PortLocal, GuestOK
<1> QED BY <1>1, <1>2, <1>3, <1>5, ToolKeeps

LEMMA SuspendFailsKeeps == ASSUME LauncherInv, NEW p \in Processes, suspend_fails(p) PROVE LauncherInv'
<1>1. PICK s \in Slots : s = job[p].slot
  BY DEF LauncherInv, LauncherTypes, JobOK, Job
<1>2. /\ LauncherTypes /\ job[p].op = "pause" /\ Tool(p) /\ Ends(p)
      /\ remap' = remap /\ Thaws(s) /\ unmapped' = unmapped \cup {s}
  BY <1>1, OpOfPlace DEF LauncherInv, suspend_fails
<1>3. Calm(p)
  BY <1>2, EndsCalm DEF Quiet, Downloads
<1>4. Only(s) /\ GuestOK(s)'
  BY <1>2, ThawsTells
<1>5. GuestLocal(p, s) /\ PortLocal(p, s)
  BY <1>2, <1>4 DEF GuestLocal, PortLocal, PortOK
<1> QED BY <1>1, <1>2, <1>3, <1>4, <1>5, ToolKeeps

LEMMA MarkKeeps == ASSUME LauncherInv, NEW p \in Processes, set_paused_marker(p) PROVE LauncherInv'
<1>1. PICK s \in Slots : s = job[p].slot
  BY DEF LauncherInv, LauncherTypes, JobOK, Job
<1>2. /\ LauncherTypes /\ job[p].op = "pause" /\ job[p].at = "mark" /\ Tool(p) /\ Done(p)
      /\ UNCHANGED <<vm, remap, doubtful, unmapped>>
  BY OpOfPlace DEF LauncherInv, set_paused_marker, doubts
<1>3. Calm(p)
  BY <1>2, DoneCalm
<1>4. Only(s) /\ GuestLocal(p, s) /\ PortLocal(p, s)
  <2>1. job[p].at \notin GuestPlaces \cup PortPlaces
    BY <1>2 DEF GuestPlaces, PortPlaces
  <2> QED BY <1>2, <2>1, Untouched
<1> QED BY <1>1, <1>2, <1>3, <1>4, ToolKeeps

LEMMA GuestStopsKeeps == ASSUME LauncherInv, NEW s \in Slots, GuestStops(s) PROVE LauncherInv'
<1>1. /\ LauncherTypes /\ RegistryInv /\ GuestInv /\ PortInv /\ DiskInv
      /\ HasStopped(s) /\ Forwarded(s) /\ unmapped' = unmapped
  BY DEF LauncherInv, GuestStops
<1>2. UNCHANGED <<backend, latest, offered, files, record, exe, registry, job, chosen, known, spoiled,
                  overlapped>>
  BY DEF GuestStops, KeepsHistory, server, disk
<1>3. Only(s) /\ GuestOK(s)' /\ PortOK(s)'
  BY <1>1, StopTells
<1>4. LauncherTypes'
  BY <1>1, <1>2, <1>3 DEF LauncherTypes, Only
<1>5. RegistryInv' /\ DiskInv'
  BY <1>1, <1>2 DEF RegistryInv, Holds, DiskInv, RecordOK, StagedOK, ExeOK, ImageOK, Installing, Whole
<1>6. GuestInv'
  <2>1. \A t \in Slots \ {s} : GuestOK(t) => GuestOK(t)'
    BY <1>3 DEF Only, GuestOK
  <2> QED BY <1>1, <1>2, <1>3, <2>1 DEF GuestInv
<1>7. PortInv'
  <2>1. \A t \in Ids \ {s} : PortOK(t) => PortOK(t)'
    BY <1>3 DEF Only, PortOK, Slots
  <2> QED BY <1>1, <1>2, <1>3, <2>1 DEF PortInv
<1> QED BY <1>4, <1>5, <1>6, <1>7 DEF LauncherInv

-----------------------------------------------------------------------------
(* Steps on the registry *)

\* A step that touches no VM.
LEMMA AsideKeeps ==
    ASSUME LauncherInv, NEW p \in Processes, JobStep(p), HostStill(p),
           backend' = backend, latest' = latest, offered' = offered,
           files' \in [Paths -> Image \cup {None}], registry' \in SUBSET Ids,
           RegistryInv', DiskInv'
    PROVE  LauncherInv'
<1>1. LauncherTypes /\ Others(p)
  BY DEF LauncherInv, JobStep
<1>2. LauncherTypes'
  BY <1>1, JobsKept DEF LauncherTypes, HostStill
<1>3. GuestInv' /\ PortInv'
  BY <1>1, HostIsStill, GuestKept, PortKept DEF LauncherInv
<1> QED BY <1>2, <1>3 DEF LauncherInv

LEMMA SavesKeeps ==
    ASSUME LauncherInv, NEW p \in Processes, NEW r, Saves(p, r), JobStep(p), ~Holds(p)',
           ~overlapped => known' = r
    PROVE  RegistryInv'
<1>1. CASE overlapped'
  BY <1>1 DEF RegistryInv
<1>2. CASE ~overlapped'
  <2>1. ~overlapped /\ \A q \in Processes \ {p} : ~Holds(q)
    BY <1>2 DEF Saves
  <2>2. \A q \in Processes : ~Holds(q)'
    BY <2>1 DEF JobStep, Others, Alike, Holds
  <2> QED BY <2>1, <2>2 DEF RegistryInv, Saves
<1> QED BY <1>1, <1>2

\* The steps that save the registry they took up before.
LEMMA SaveKeeps ==
    ASSUME LauncherInv, NEW p \in Processes, create_save(p) \/ save_status(p) \/ unregister(p)
    PROVE  LauncherInv'
<1> DEFINE i == job[p].slot
<1>1. /\ LauncherTypes /\ job[p] \in Job /\ Places(job[p]) /\ About(p, job[p])
      /\ ~overlapped => registry = known /\ (Holds(p) => job[p].copy = registry)
      /\ DiskInv
  BY DEF LauncherInv, LauncherTypes, JobOK, RegistryInv
<1>2. /\ job[p].at \in {"create", "save", "unregister"} /\ Holds(p)
      /\ job[p].op \notin Downloads /\ Quiet(job[p])
      /\ job[p].at # "save" => i \in Ids
      /\ job[p].copy \in SUBSET Ids
  BY <1>1 DEF create_save, save_status, unregister, At, Holds, Downloads, Quiet, Places, About, Job
<1>3. /\ UNCHANGED <<backend, latest, offered, files, record, exe, chosen, spoiled>>
      /\ UNCHANGED <<vm, remap, doubtful, unmapped>>
  BY DEF create_save, save_status, unregister, server, disk, hosts, doubts
<1>4. PICK r \in SUBSET Ids : Saves(p, r) /\ (~overlapped => known' = r)
  <2>1. CASE create_save(p)
    <3>1. /\ Saves(p, job[p].copy \cup {i}) /\ known' = known \cup {i}
          /\ job[p].copy \cup {i} \in SUBSET Ids
      BY <1>2, <2>1 DEF create_save, At
    <3> QED BY <1>1, <1>2, <3>1
  <2>2. CASE save_status(p)
    <3>1. Saves(p, job[p].copy) /\ known' = known
      BY <2>2 DEF save_status
    <3> QED BY <1>1, <1>2, <3>1
  <2>3. CASE unregister(p)
    <3>1. /\ Saves(p, job[p].copy \ {i}) /\ known' = known \ {i}
          /\ job[p].copy \ {i} \in SUBSET Ids
      BY <1>2, <2>3 DEF unregister, At
    <3> QED BY <1>1, <1>2, <3>1
  <2> QED BY <2>1, <2>2, <2>3
<1>5. Calm(p) /\ job'[p].at \in {"idle", "remove_dirs"}
  <2>1. CASE Ends(p)
    BY <1>1, <1>2, <2>1, EndsCalm
  <2>2. CASE Goto(p, "remove_dirs") /\ job[p].op = "delete"
    <3>1. \A k \in Job : GoesTo(job[p], k, "remove_dirs") => Places(k)
      BY <2>2 DEF GoesTo, Places
    <3> QED BY <1>1, <1>2, <2>2, <3>1, GotoCalm DEF GoesTo, Stages
  <2> QED BY <2>1, <2>2 DEF create_save, save_status, unregister, At
<1>6. JobStep(p) /\ ~Holds(p)'
  BY <1>5 DEF Calm, Holds
<1>7. RegistryInv'
  BY <1>2, <1>4, <1>6, SavesKeeps
<1>8. HostStill(p)
  BY <1>2, <1>3 DEF HostStill, GuestPlaces, PortPlaces
<1>9. DiskInv'
  <2>1. DiskStill(p)
    BY <1>3, <1>5 DEF DiskStill, Calm
  <2> QED BY <1>1, <1>6, <2>1, DiskKept
<1>10. registry' \in SUBSET Ids /\ files' \in [Paths -> Image \cup {None}]
  BY <1>1, <1>3, <1>4 DEF Saves, LauncherTypes
<1> QED BY <1>3, <1>6, <1>7, <1>8, <1>9, <1>10, AsideKeeps

LEMMA StatusKeeps == ASSUME LauncherInv, NEW p \in Processes, set_status(p) PROVE LauncherInv'
<1>1. /\ LauncherTypes /\ job[p] \in Job /\ JobOK(p, job[p]) /\ job[p].at = "status"
      /\ job[p].op \in {"start", "stop", "pause", "resume", "configure"}
      /\ RegistryInv /\ DiskInv /\ registry \in SUBSET Ids
  BY OpOfPlace DEF LauncherInv, LauncherTypes, JobOK, set_status
<1>2. /\ UNCHANGED <<backend, latest, offered, files, record, exe, registry, chosen, spoiled>>
      /\ UNCHANGED <<vm, remap, doubtful, unmapped, known, overlapped>>
  BY DEF set_status, server, disk, hosts, history, doubts
<1>3. job[p].op \notin Downloads /\ Quiet(job[p])
  BY <1>1 DEF Downloads, Quiet
<1>4. /\ JobStep(p) /\ Quiet(job'[p]) /\ job'[p].rel \in {1, job[p].rel}
      /\ Holds(p)' => job'[p].copy = registry
  <2>1. CASE Ends(p)
    <3>1. Calm(p) /\ job'[p].at = "idle"
      BY <1>1, <1>3, <2>1, EndsCalm
    <3> QED BY <3>1 DEF Calm, Holds
  <2>2. CASE Set(p, [job[p] EXCEPT !.at = "save", !.copy = registry])
    <3> DEFINE k == [job[p] EXCEPT !.at = "save", !.copy = registry]
    <3>1. /\ k \in Job /\ k.at = "save" /\ k.copy = registry /\ k.op = job[p].op
          /\ k.slot = job[p].slot /\ k.path = job[p].path /\ k.rel = job[p].rel
      BY <1>1 DEF Job, Stages
    <3>2. Set(p, k)
      BY <2>2
    <3> HIDE DEF k
    <3>3. JobOK(p, k)
      BY <1>1, <3>1 DEF JobOK, Places, About
    <3>4. JobStep(p) /\ job'[p] = k
      BY <1>1, <3>2, <3>3, SetJob
    <3>5. Quiet(k)
      BY <1>3, <3>1 DEF Quiet
    <3> QED BY <3>1, <3>4, <3>5
  <2> QED BY <2>1, <2>2 DEF set_status
<1>5. RegistryInv'
  <2>1. \A q \in Processes \ {p} : Holds(q)' => Holds(q) /\ job'[q].copy = job[q].copy
    BY <1>4 DEF JobStep, Others, Alike, Holds
  <2> QED BY <1>1, <1>2, <1>4, <2>1 DEF RegistryInv
<1>6. HostStill(p)
  BY <1>1, <1>2 DEF HostStill, GuestPlaces, PortPlaces
<1>7. DiskInv'
  <2>1. DiskStill(p)
    BY <1>2, <1>3, <1>4 DEF DiskStill
  <2> QED BY <1>1, <1>4, <2>1, DiskKept
<1>8. registry' \in SUBSET Ids /\ files' \in [Paths -> Image \cup {None}]
  BY <1>1, <1>2 DEF LauncherTypes
<1> QED BY <1>2, <1>4, <1>5, <1>6, <1>7, <1>8, AsideKeeps

LEMMA RemoveDirsKeeps == ASSUME LauncherInv, NEW p \in Processes, remove_dirs(p) PROVE LauncherInv'
<1>1. PICK i \in Ids : i = job[p].slot
  BY DEF LauncherInv, LauncherTypes, JobOK, About, remove_dirs, At
<1>2. /\ LauncherTypes /\ DiskInv /\ RegistryInv /\ job[p].op = "delete" /\ Ends(p)
      /\ job[p].at = "remove_dirs" /\ files' = [files EXCEPT ![i] = None]
      /\ UNCHANGED <<backend, latest, offered, record, exe, registry, chosen, spoiled>>
      /\ UNCHANGED <<vm, remap, doubtful, unmapped, known, overlapped>>
  BY <1>1 DEF LauncherInv, remove_dirs, At, server, disk, history, doubts
<1>3. /\ files' \in [Paths -> Image \cup {None}]
      /\ files'[Bare] = files[Bare] /\ files'[Staging] = files[Staging]
      /\ files'[NewExe] = files[NewExe]
  BY <1>2, NamesAssumption DEF LauncherTypes, Paths, Slots
<1>4. Calm(p)
  BY <1>2, EndsCalm DEF Quiet, Downloads
<1>5. JobStep(p) /\ HostStill(p) /\ RegistryStill(p) /\ DiskStill(p)
  BY <1>2, <1>3, <1>4 DEF Calm, HostStill, RegistryStill, DiskStill, GuestPlaces, PortPlaces
<1>6. RegistryInv' /\ DiskInv'
  BY <1>2, <1>5, RegistryKept, DiskKept DEF JobStep
<1>7. registry' \in SUBSET Ids
  BY <1>2 DEF LauncherTypes
<1> QED BY <1>2, <1>3, <1>5, <1>6, <1>7, AsideKeeps

-----------------------------------------------------------------------------
(* Steps on the images, the record and the launcher *)

LEMMA DownloadKeeps ==
    ASSUME LauncherInv, NEW p \in Processes, JobStep(p), ~Holds(p)', HostStill(p),
           UNCHANGED <<backend, latest, offered, registry, known, overlapped>>,
           files' \in [Paths -> Image \cup {None}], DiskInv'
    PROVE  LauncherInv'
<1>1. RegistryStill(p) /\ RegistryInv /\ Others(p) /\ registry' \in SUBSET Ids
  BY DEF RegistryStill, LauncherInv, JobStep, LauncherTypes
<1>2. RegistryInv'
  BY <1>1, RegistryKept
<1> QED BY <1>1, <1>2, AsideKeeps

\* What is downloaded, and where to.
LEMMA DownloadJob ==
    ASSUME LauncherTypes, NEW p \in Processes
    PROVE  /\ job[p].at \in {"signature", "fetch", "fetching", "verify"} =>
                 job[p].op \in {"install", "update", "selfupdate"}
           /\ job[p].at \in {"record", "write"} => job[p].op \in {"install", "update"} /\ job[p].slot = Bare
           /\ job[p].op = "update" => p = "cli" /\ job[p].path = Staging
           /\ job[p].op = "selfupdate" => p = "cli" /\ job[p].path = NewExe
           /\ job[p].op = "uninstall" => p = "cli"
           /\ job[p].op = "install" => job[p].path = job[p].slot
           /\ job[p].slot \in Slots /\ job[p].path \in Paths /\ job[p].rel \in Release
           /\ job[p].profile \in Profiles \cup {None}
           /\ job[p].op # "none" /\ job[p].slot = Bare => p = "cli"
           /\ job[p].op \in {"install", "update"} /\ job[p].at # "signature" =>
                 job[p].profile \in Profiles
<1>1. job[p] \in Job /\ Places(job[p]) /\ About(p, job[p])
  BY DEF LauncherTypes, JobOK
<1>2. Bare \notin Ids
  BY NamesAssumption
<1> QED BY <1>1, <1>2 DEF Places, About, Job, Slots, Processes

LEMMA PickedOffered == ASSUME LauncherTypes, NEW asked PROVE pick_artefact(asked) \subseteq Profiles
  BY DEF pick_artefact, artefacts_for_target, LauncherTypes

LEMMA SignatureKeeps == ASSUME LauncherInv, NEW p \in Processes, fetch_and_verify(p) PROVE LauncherInv'
<1>1. /\ LauncherTypes /\ DiskInv /\ job[p].at = "signature"
      /\ UNCHANGED <<backend, latest, offered, files, record, exe, registry>>
      /\ UNCHANGED <<vm, remap, chosen, known, spoiled, overlapped, doubtful, unmapped>>
  BY DEF LauncherInv, fetch_and_verify, server, disk, hosts, history, doubts
<1>2. /\ job[p] \in Job /\ JobOK(p, job[p]) /\ Quiet(job[p])
      /\ job[p].op \in {"install", "update", "selfupdate"}
  BY <1>1, DownloadJob DEF LauncherTypes, JobOK, Quiet
<1>3. HostStill(p)
  BY <1>1 DEF HostStill, GuestPlaces, PortPlaces
<1>4. files' \in [Paths -> Image \cup {None}]
  BY <1>1 DEF LauncherTypes
<1>5. CASE Ends(p)
  <2>1. JobStep(p) /\ ~Holds(p)' /\ job'[p].op = "none" /\ job'[p].rel = 1
    BY <1>1, <1>5, EndsJob DEF Holds
  <2>2. DiskStill(p)
    BY <1>1, <1>2, <2>1 DEF DiskStill, Quiet, Downloads
  <2>3. DiskInv'
    BY <1>1, <2>1, <2>2, DiskKept
  <2> QED BY <1>1, <1>3, <1>4, <2>1, <2>3, DownloadKeeps
<1>6. CASE latest = job[p].rel /\ \E q \in Artefact(p) :
              Set(p, [job[p] EXCEPT !.at = "fetch", !.profile = q])
  <2>1. PICK q \in Artefact(p) : Set(p, [job[p] EXCEPT !.at = "fetch", !.profile = q])
    BY <1>6
  <2>2. /\ q \in Profiles \cup {None}
        /\ job[p].op \in {"install", "update"} => q \in Profiles
        /\ job[p].op = "update" => /\ q \in pick_artefact(read_installed_profile)
                                   /\ record # None => record.rel # job[p].rel
    BY <1>1, <1>2, PickedOffered DEF Artefact
  <2> DEFINE k == [job[p] EXCEPT !.at = "fetch", !.profile = q]
  <2>3. /\ k \in Job /\ k.at = "fetch" /\ k.profile = q /\ k.op = job[p].op
        /\ k.slot = job[p].slot /\ k.path = job[p].path /\ k.rel = job[p].rel
    BY <1>2, <2>2 DEF Job, Stages
  <2>4. Set(p, k)
    BY <2>1
  <2> HIDE DEF k
  <2>5. JobOK(p, k)
    BY <1>2, <2>2, <2>3 DEF JobOK, Places, About
  <2>6. JobStep(p) /\ job'[p] = k /\ ~Holds(p)'
    BY <1>1, <2>3, <2>4, <2>5, SetJob DEF Holds
  <2>7. DiskInv'
    <3>1. CASE p = "console"
      <4>1. DiskStill(p)
        BY <1>1, <3>1 DEF DiskStill
      <4> QED BY <1>1, <2>6, <4>1, DiskKept
    <3>2. CASE p = "cli"
      <4> DEFINE j == job["cli"]
                 n == job'["cli"]
      <4>1. RecordOK(j) /\ StagedOK(j) /\ ExeOK(j) /\ ImageOK(j) /\ n = k /\ j = job[p]
        BY <1>1, <2>6, <3>2 DEF DiskInv
      <4>2. k.op = "update" /\ record # None => k.profile = chosen /\ record.rel < k.rel
        <5> HIDE DEF n
        <5> SUFFICES ASSUME k.op = "update", record # None
                     PROVE  k.profile = chosen /\ record.rel < k.rel
          OBVIOUS
        <5>1. /\ record.rel \in Release /\ record.rel <= latest /\ record.profile = chosen
              /\ record.profile \in Profiles
          BY <4>1 DEF RecordOK
        <5>2. q \in pick_artefact(record.profile) /\ record.profile # None
          BY <2>2, <2>3, <5>1, NamesAssumption DEF read_installed_profile
        <5>3. q = record.profile
          BY <5>2 DEF pick_artefact, artefacts_for_target
        <5>4. record.rel # latest /\ k.rel = latest /\ latest \in Release
          BY <1>1, <1>6, <2>2, <2>3, <5>1 DEF LauncherTypes
        <5> QED BY <2>3, <5>1, <5>3, <5>4, LauncherAssumption DEF Release
      <4>3. /\ n.op = j.op /\ n.slot = j.slot /\ n.rel = j.rel /\ n.at = "fetch"
            /\ j.at = "signature"
            /\ n.op = "update" /\ record # None => n.profile = chosen /\ record.rel < n.rel
        BY <1>1, <2>3, <4>1, <4>2
      <4> HIDE DEF n
      <4>4. RecordOK(j)' /\ StagedOK(j)' /\ ExeOK(j)'
        BY <1>1, <4>1, <4>3 DEF RecordOK, StagedOK, ExeOK, Installing, n
      <4>5. ImageOK(j)'
        BY <1>1, <4>1, <4>3 DEF ImageOK, Installing, Whole, n
      <4> QED BY <4>4, <4>5 DEF DiskInv
    <3> QED BY <3>1, <3>2 DEF Processes
  <2> QED BY <1>1, <1>3, <1>4, <2>6, <2>7, DownloadKeeps
<1> QED BY <1>5, <1>6 DEF fetch_and_verify

\* fetch_to and Fetched: the path is written, and what it has is not relied on yet.
LEMMA LoadKeeps ==
    ASSUME LauncherInv, NEW p \in Processes, NEW d \in Paths, d = job[p].path,
           job[p].at \in {"fetch", "fetching"}, JobStep(p), HostStill(p),
           job'[p].at \in {"fetching", "verify"}, job'[p].op = job[p].op,
           job'[p].slot = job[p].slot, job'[p].rel = job[p].rel, job'[p].profile = job[p].profile,
           UNCHANGED <<backend, latest, offered, record, exe, registry, chosen, known, spoiled,
                       overlapped>>,
           files' \in [Paths -> Image \cup {None}], \A t \in Paths \ {d} : files'[t] = files[t]
    PROVE  LauncherInv'
<1>1. /\ LauncherTypes /\ DiskInv /\ ~Holds(p)'
      /\ Bare \in Paths /\ Staging \in Paths /\ NewExe \in Paths /\ Bare # Staging /\ Bare # NewExe
  BY DEF LauncherInv, Holds, Paths, Slots, Bare, Staging, NewExe
<1>2. CASE d \in Ids
  <2>1. job[p].op = "install" /\ job[p].slot = d /\ d \notin {Bare, Staging, NewExe}
    BY <1>1, <1>2, DownloadJob, NamesAssumption
  <2>2. DiskStill(p)
    BY <1>1, <2>1 DEF DiskStill, Quiet
  <2>3. DiskInv'
    BY <1>1, <2>2, DiskKept
  <2> QED BY <1>1, <2>3, DownloadKeeps
<1>3. CASE d \notin Ids
  <2> DEFINE j == job["cli"]
             k == job'["cli"]
  <2>1. p = "cli" /\ (job[p].op = "install" => d = Bare /\ job[p].slot = Bare)
        /\ (job[p].op = "update" => d = Staging) /\ (job[p].op = "selfupdate" => d = NewExe)
        /\ job[p].op \in {"install", "update", "selfupdate"}
    BY <1>1, <1>3, DownloadJob DEF Slots
  <2>2. /\ k.op = j.op /\ k.slot = j.slot /\ k.rel = j.rel /\ k.profile = j.profile
        /\ j.at \in {"fetch", "fetching"} /\ k.at \in {"fetching", "verify"}
        /\ j.op # "install" => files'[Bare] = files[Bare]
        /\ j.op = "install" => j.slot = Bare
    BY <1>1, <2>1
  <2> HIDE DEF k
  <2>3. RecordOK(j) /\ ExeOK(j) /\ ImageOK(j)
    BY <1>1 DEF DiskInv
  <2>4. RecordOK(j)' /\ StagedOK(j)' /\ ExeOK(j)'
    BY <2>2, <2>3 DEF RecordOK, StagedOK, ExeOK, Installing, k
  <2>5. ImageOK(j)'
    BY <2>2, <2>3 DEF ImageOK, Installing, Whole, k
  <2>6. DiskInv'
    BY <2>4, <2>5 DEF DiskInv
  <2> QED BY <1>1, <2>6, DownloadKeeps
<1> QED BY <1>2, <1>3

LEMMA FetchToKeeps == ASSUME LauncherInv, NEW p \in Processes, fetch_to(p) PROVE LauncherInv'
<1>1. PICK d \in Paths : d = job[p].path
  BY DEF LauncherInv, LauncherTypes, JobOK, Job
<1> DEFINE new == [Whole(job[p].rel, job[p].profile) EXCEPT !.whole = FALSE]
<1>2. /\ LauncherTypes /\ job[p].at = "fetch" /\ files' = [files EXCEPT ![d] = new]
      /\ UNCHANGED <<backend, latest, offered, record, exe, registry, chosen, known, spoiled,
                     overlapped>>
      /\ UNCHANGED <<vm, remap, doubtful, unmapped>>
  BY <1>1 DEF LauncherInv, fetch_to, server, hosts, doubts
<1>3. HostStill(p)
  BY <1>2 DEF HostStill, GuestPlaces, PortPlaces
<1>4. new \in Image
  BY <1>2, DownloadJob DEF Whole, Image
<1>5. files' \in [Paths -> Image \cup {None}] /\ \A t \in Paths \ {d} : files'[t] = files[t]
  <2> HIDE DEF new
  <2> QED BY <1>2, <1>4 DEF LauncherTypes
<1>6. /\ JobStep(p) /\ job'[p].at = "fetching" /\ job'[p].op = job[p].op
      /\ job'[p].slot = job[p].slot /\ job'[p].rel = job[p].rel /\ job'[p].profile = job[p].profile
  <2>1. \A q \in Processes : job[q] \in Job /\ job[q].clash \in BOOLEAN /\ JobOK(q, job[q])
    BY <1>2 DEF LauncherTypes, JobOK, Job
  <2>2. PICK c \in [Processes -> BOOLEAN] :
            job' = [q \in Processes |-> [job[q] EXCEPT !.at = IF q = p THEN "fetching" ELSE @,
                                                       !.clash = c[q]]]
    <3> DEFINE rivals == Using(d) \ {p}
               c0 == [q \in Processes |->
                         job[q].clash \/ q \in rivals \/ (q = p /\ rivals # {})]
    <3>1. c0 \in [Processes -> BOOLEAN]
      <4> HIDE DEF rivals
      <4> QED BY Zenon
    <3>2. job' = [q \in Processes |-> [job[q] EXCEPT !.at = IF q = p THEN "fetching" ELSE @,
                                                     !.clash = c0[q]]]
      BY <1>1 DEF fetch_to
    <3> QED BY <3>1, <3>2
  <2>3. \A q \in Processes \ {p} : job'[q] = [job[q] EXCEPT !.at = job[q].at, !.clash = c[q]]
    BY <2>2
  <2>4. Others(p)
    <3> SUFFICES ASSUME NEW q \in Processes \ {p} PROVE job'[q] \in Job /\ Alike(job[q], job'[q])
      BY DEF Others
    <3> DEFINE j == job[q]
    <3>1. job'[q] = [j EXCEPT !.at = j.at, !.clash = c[q]] /\ j \in Job /\ c[q] \in BOOLEAN
      BY <2>1, <2>2, <2>3
    <3> HIDE DEF j
    <3>2. [j EXCEPT !.at = j.at, !.clash = c[q]] \in Job
      BY <3>1 DEF Job
    <3>3. Alike(j, [j EXCEPT !.at = j.at, !.clash = c[q]])
      BY <3>1 DEF Alike, Job
    <3> QED BY <3>1, <3>2, <3>3 DEF j
  <2>5. job'[p] = [job[p] EXCEPT !.at = "fetching", !.clash = c[p]] /\ DOMAIN job' = Processes
    BY <2>2
  <2>6. /\ job'[p] \in Job /\ job'[p].at = "fetching" /\ job'[p].op = job[p].op
        /\ job'[p].slot = job[p].slot /\ job'[p].rel = job[p].rel
        /\ job'[p].profile = job[p].profile /\ job'[p].path = job[p].path
    BY <2>1, <2>5 DEF Job, Stages
  <2>7. JobOK(p, job'[p])
    BY <1>2, <2>1, <2>6 DEF JobOK, Places, About
  <2> QED BY <2>4, <2>5, <2>6, <2>7 DEF JobStep
<1> HIDE DEF new
<1> QED BY <1>1, <1>2, <1>3, <1>5, <1>6, LoadKeeps

LEMMA FetchedKeeps == ASSUME LauncherInv, NEW p \in Processes, Fetched(p) PROVE LauncherInv'
<1>1. PICK d \in Paths : d = job[p].path
  BY DEF LauncherInv, LauncherTypes, JobOK, Job
<1>2. /\ LauncherTypes /\ job[p].at = "fetching" /\ Goto(p, "verify")
      /\ UNCHANGED <<backend, latest, offered, record, exe, registry, chosen, known, spoiled,
                     overlapped>>
      /\ UNCHANGED <<vm, remap, doubtful, unmapped>>
      /\ JobOK(p, job[p])
  BY <1>1 DEF LauncherInv, Fetched, server, hosts, history, doubts, LauncherTypes
<1>3. HostStill(p)
  BY <1>2 DEF HostStill, GuestPlaces, PortPlaces
<1>4. files' \in [Paths -> Image \cup {None}] /\ \A t \in Paths \ {d} : files'[t] = files[t]
  <2>1. PICK all \in BOOLEAN :
            files' = [files EXCEPT ![d] = IF @ = None THEN None ELSE [@ EXCEPT !.whole = all]]
    BY <1>1 DEF Fetched
  <2>2. files[d] # None => [files[d] EXCEPT !.whole = all] \in Image
    BY <1>2 DEF LauncherTypes, Image
  <2> QED BY <1>2, <2>1, <2>2 DEF LauncherTypes
<1>5. JobStep(p) /\ GoesTo(job[p], job'[p], "verify")
  <2>1. \A k \in Job : GoesTo(job[p], k, "verify") => Places(k) /\ About(p, k)
    BY <1>2 DEF GoesTo, Places, About, JobOK
  <2> QED BY <1>2, <2>1, GotoJob DEF Stages
<1>6. /\ job'[p].at = "verify" /\ job'[p].op = job[p].op /\ job'[p].slot = job[p].slot
      /\ job'[p].rel = job[p].rel /\ job'[p].profile = job[p].profile
  BY <1>5 DEF GoesTo
<1> QED BY <1>1, <1>2, <1>3, <1>4, <1>5, <1>6, LoadKeeps

LEMMA VerifyKeeps == ASSUME LauncherInv, NEW p \in Processes, verify(p) PROVE LauncherInv'
<1>1. PICK d \in Paths : d = job[p].path
  BY DEF LauncherInv, LauncherTypes, JobOK, Job
<1>2. /\ LauncherTypes /\ DiskInv /\ job[p].at = "verify" /\ JobOK(p, job[p])
      /\ job[p].op \in {"install", "update", "selfupdate"}
      /\ UNCHANGED <<backend, latest, offered, files, record, exe, registry, chosen, known, overlapped>>
      /\ UNCHANGED <<vm, remap, doubtful, unmapped>>
  BY DownloadJob DEF LauncherInv, LauncherTypes, verify, server, disk, hosts, doubts
<1>3. HostStill(p) /\ files' \in [Paths -> Image \cup {None}]
  BY <1>2 DEF HostStill, GuestPlaces, PortPlaces, LauncherTypes
<1>4. CASE Verified(p) /\ Goto(p, AfterVerify(p)) /\ spoiled' = spoiled \ {d}
  <2> DEFINE a == AfterVerify(p)
  <2>1. /\ job[p].op = "install" => a = "import"
        /\ job[p].op = "update" => a = "remove"
        /\ job[p].op = "selfupdate" => a = "rename" \/ (a = "aside" /\ backend = "wsl")
        /\ Goto(p, a)
    BY <1>2, <1>4 DEF AfterVerify
  <2> HIDE DEF a
  <2>2. PICK b \in Stages : b = a
    BY <1>2, <2>1 DEF Stages
  <2>3. \A k \in Job : GoesTo(job[p], k, b) => Places(k) /\ About(p, k)
    BY <1>2, <2>1, <2>2 DEF GoesTo, Places, About, JobOK
  <2>4. JobStep(p) /\ GoesTo(job[p], job'[p], b)
    BY <1>2, <2>1, <2>2, <2>3, GotoJob
  <2>5. ~Holds(p)'
    BY <1>2, <2>1, <2>2, <2>4 DEF GoesTo, Holds
  <2>6. files[d] = Whole(job[p].rel, job[p].profile)
    BY <1>1, <1>4 DEF Verified
  <2>7. CASE d \in Ids
    <3>1. job[p].op = "install" /\ job[p].slot = d /\ d # Bare
      BY <1>1, <1>2, <2>7, DownloadJob, NamesAssumption
    <3>2. DiskStill(p)
      BY <1>2, <1>4, <2>4, <3>1 DEF DiskStill, Quiet, GoesTo
    <3>3. DiskInv'
      BY <1>2, <2>4, <3>2, DiskKept
    <3> QED BY <1>2, <1>3, <2>4, <2>5, <3>3, DownloadKeeps
  <2>8. CASE d \notin Ids
    <3> DEFINE j == job["cli"]
               k == job'["cli"]
    <3>1. p = "cli" /\ (job[p].op = "install" => d = Bare /\ job[p].slot = Bare)
          /\ (job[p].op = "update" => d = Staging) /\ (job[p].op = "selfupdate" => d = NewExe)
      BY <1>1, <1>2, <2>8, DownloadJob DEF Slots
    <3>2. /\ k.op = j.op /\ k.slot = j.slot /\ k.rel = j.rel /\ k.profile = j.profile
          /\ j.at = "verify" /\ k.at = b /\ (j.op = "install" => j.slot = Bare)
          /\ j.op \in {"install", "update", "selfupdate"}
          /\ j.op = "install" => b = "import" /\ files[Bare] = Whole(j.rel, j.profile)
          /\ j.op = "update" => b = "remove" /\ files[Staging] = Whole(j.rel, j.profile)
          /\ j.op = "selfupdate" => /\ files[NewExe] = Whole(j.rel, j.profile)
                                    /\ b = "rename" \/ (b = "aside" /\ backend = "wsl")
          /\ Bare \in spoiled /\ j.op # "install" => Bare \in spoiled'
          /\ Bare \in spoiled' => Bare \in spoiled
      BY <1>2, <1>4, <2>1, <2>2, <2>4, <2>6, <3>1 DEF GoesTo, Bare, Staging, NewExe
    <3>3. RecordOK(j) /\ ExeOK(j) /\ ImageOK(j)
      BY <1>2 DEF DiskInv
    <3> HIDE DEF k
    <3>4. RecordOK(j)' /\ ExeOK(j)'
      BY <1>2, <3>2, <3>3 DEF RecordOK, ExeOK, k
    <3>5. StagedOK(j)'
      BY <1>2, <3>2 DEF StagedOK, Installing, Whole, k
    <3>6. ImageOK(j)'
      BY <1>2, <3>2, <3>3 DEF ImageOK, Installing, Whole, k
    <3>7. DiskInv'
      BY <3>4, <3>5, <3>6 DEF DiskInv
    <3> QED BY <1>2, <1>3, <2>4, <2>5, <3>7, DownloadKeeps
  <2> QED BY <2>7, <2>8
<1>5. CASE Ends(p) /\ spoiled' = spoiled \cup ({d} \cap Slots)
  <2>1. JobStep(p) /\ ~Holds(p)' /\ job'[p].op = "none" /\ job'[p].rel = 1
    BY <1>2, <1>5, EndsJob DEF Holds
  <2>2. DiskInv'
    <3>1. CASE d \in Ids
      <4>1. job[p].op = "install" /\ job[p].slot = d /\ d # Bare
        BY <1>1, <1>2, <3>1, DownloadJob, NamesAssumption
      <4>2. DiskStill(p)
        BY <1>2, <1>5, <2>1, <4>1 DEF DiskStill, Quiet, Downloads
      <4> QED BY <1>2, <2>1, <4>2, DiskKept
    <3>2. CASE d \notin Ids
      <4> DEFINE j == job["cli"]
                 k == job'["cli"]
      <4>1. /\ k.op = "none" /\ k.rel = 1 /\ latest >= 1 /\ spoiled \subseteq spoiled'
            /\ Installing(j, {"fetching", "verify", "import", "record"}) => Bare \in spoiled'
        <5>1. p = "cli" /\ (job[p].op = "install" => d = Bare) /\ Bare \in Slots
          BY <1>1, <1>2, <3>2, DownloadJob DEF Slots
        <5> QED BY <1>2, <1>5, <2>1, <5>1, LauncherAssumption DEF Installing, LauncherTypes, Release
      <4>2. RecordOK(j) /\ ExeOK(j) /\ ImageOK(j)
        BY <1>2 DEF DiskInv
      <4> HIDE DEF k
      <4>3. RecordOK(j)' /\ ExeOK(j)' /\ StagedOK(j)'
        BY <1>2, <4>1, <4>2 DEF RecordOK, ExeOK, StagedOK, Installing, k
      <4>4. ImageOK(j)'
        BY <1>2, <4>1, <4>2 DEF ImageOK, Installing, Whole, k
      <4> QED BY <4>3, <4>4 DEF DiskInv
    <3> QED BY <3>1, <3>2
  <2> QED BY <1>2, <1>3, <2>1, <2>2, DownloadKeeps
<1> QED BY <1>1, <1>4, <1>5 DEF verify

LEMMA RemoveCachedKeeps == ASSUME LauncherInv, NEW p \in Processes, remove_cached(p) PROVE LauncherInv'
<1>1. /\ LauncherTypes /\ DiskInv /\ JobOK(p, job[p]) /\ job[p].op = "update" /\ job[p].at = "remove"
      /\ Goto(p, "rename") /\ files' = [files EXCEPT ![Bare] = None] /\ p = "cli"
      /\ UNCHANGED <<backend, latest, offered, record, exe, registry, chosen, known, spoiled, overlapped>>
      /\ UNCHANGED <<vm, remap, doubtful, unmapped>>
  BY DownloadJob DEF LauncherInv, LauncherTypes, remove_cached, At, server, hosts, history, doubts
<1>2. HostStill(p)
  BY <1>1 DEF HostStill, GuestPlaces, PortPlaces
<1>3. /\ files' \in [Paths -> Image \cup {None}] /\ files'[Bare] = None
      /\ files'[Staging] = files[Staging]
  BY <1>1 DEF LauncherTypes, Paths, Slots, Bare, Staging
<1>4. JobStep(p) /\ GoesTo(job[p], job'[p], "rename") /\ ~Holds(p)'
  <2>1. \A k \in Job : GoesTo(job[p], k, "rename") => Places(k) /\ About(p, k)
    BY <1>1 DEF GoesTo, Places, About, JobOK
  <2> QED BY <1>1, <2>1, GotoJob DEF Stages, GoesTo, Holds
<1>5. DiskInv'
  <2> DEFINE j == job["cli"]
             k == job'["cli"]
  <2>1. /\ k.op = "update" /\ k.at = "rename" /\ k.rel = j.rel /\ k.profile = j.profile
        /\ j.op = "update" /\ j.at = "remove"
    BY <1>1, <1>4 DEF GoesTo
  <2>2. RecordOK(j) /\ ExeOK(j) /\ StagedOK(j) /\ latest \in Nat /\ j.rel \in Nat
    BY <1>1, LauncherAssumption DEF DiskInv, LauncherTypes, Release, JobOK, Job
  <2> HIDE DEF k
  <2>3. RecordOK(j)' /\ ExeOK(j)'
    BY <1>1, <2>1, <2>2 DEF RecordOK, ExeOK, k
  <2>4. StagedOK(j)'
    BY <1>1, <1>3, <2>1, <2>2 DEF StagedOK, Installing, Whole, k
  <2>5. record # None => record.rel < latest
    BY <2>1, <2>2, LauncherAssumption DEF RecordOK, Release
  <2>6. ImageOK(j)'
    BY <1>1, <1>3, <2>1, <2>5 DEF ImageOK, Installing, k
  <2> QED BY <2>3, <2>4, <2>6 DEF DiskInv
<1> QED BY <1>1, <1>2, <1>3, <1>4, <1>5, DownloadKeeps

LEMMA RenameKeeps == ASSUME LauncherInv, NEW p \in Processes, rename_staging(p) PROVE LauncherInv'
<1>1. /\ LauncherTypes /\ DiskInv /\ JobOK(p, job[p]) /\ job[p].op = "update" /\ job[p].at = "rename"
      /\ Goto(p, "record") /\ spoiled' = spoiled \ {Bare} /\ p = "cli"
      /\ files' = [files EXCEPT ![Bare] = files[Staging], ![Staging] = None]
      /\ UNCHANGED <<backend, latest, offered, record, exe, registry, chosen, known, overlapped>>
      /\ UNCHANGED <<vm, remap, doubtful, unmapped>>
  BY DownloadJob DEF LauncherInv, LauncherTypes, rename_staging, At, server, hosts, doubts
<1>2. HostStill(p)
  BY <1>1 DEF HostStill, GuestPlaces, PortPlaces
<1>3. files' \in [Paths -> Image \cup {None}] /\ files'[Bare] = files[Staging]
  BY <1>1 DEF LauncherTypes, Paths, Slots, Bare, Staging
<1>4. JobStep(p) /\ GoesTo(job[p], job'[p], "record") /\ ~Holds(p)'
  <2>1. \A k \in Job : GoesTo(job[p], k, "record") => Places(k) /\ About(p, k)
    BY <1>1 DEF GoesTo, Places, About, JobOK
  <2> QED BY <1>1, <2>1, GotoJob DEF Stages, GoesTo, Holds
<1>5. DiskInv'
  <2> DEFINE j == job["cli"]
             k == job'["cli"]
  <2>1. /\ k.op = "update" /\ k.at = "record" /\ k.rel = j.rel /\ k.profile = j.profile
        /\ j.op = "update" /\ j.at = "rename"
    BY <1>1, <1>4 DEF GoesTo
  <2>2. RecordOK(j) /\ ExeOK(j) /\ StagedOK(j)
    BY <1>1 DEF DiskInv
  <2>3. latest \in Nat /\ j.rel \in Nat /\ files'[Bare] = Whole(j.rel, j.profile)
    BY <1>1, <1>3, <2>1, <2>2, LauncherAssumption DEF LauncherTypes, Release, JobOK, Job, StagedOK
  <2> HIDE DEF k
  <2>4. RecordOK(j)' /\ ExeOK(j)'
    BY <1>1, <2>1, <2>2 DEF RecordOK, ExeOK, k
  <2>5. StagedOK(j)'
    BY <2>1, <2>3 DEF StagedOK, Installing, Whole, k
  <2>6. record # None => record.rel < latest
    BY <2>1, <2>2, <2>3, LauncherAssumption DEF RecordOK, Release
  <2>7. ImageOK(j)'
    BY <1>1, <2>1, <2>3, <2>6 DEF ImageOK, Installing, Whole, k
  <2> QED BY <2>4, <2>5, <2>7 DEF DiskInv
<1> QED BY <1>1, <1>2, <1>3, <1>4, <1>5, DownloadKeeps

LEMMA TruncateKeeps ==
    ASSUME LauncherInv, NEW p \in Processes, truncate_record(p)
    PROVE  LauncherInv'
<1>1. /\ LauncherTypes /\ DiskInv /\ JobOK(p, job[p]) /\ job[p].at = "record"
      /\ job[p].op \in {"install", "update"} /\ job[p].slot = Bare /\ p = "cli" /\ Goto(p, "write")
      /\ record' = None /\ job[p].rel \in Release
      /\ chosen' = IF job[p].op = "install" \/ record = None THEN job[p].profile ELSE chosen
      /\ UNCHANGED <<backend, latest, offered, files, exe, registry, known, spoiled, overlapped>>
      /\ UNCHANGED <<vm, remap, doubtful, unmapped>>
  BY DownloadJob DEF LauncherInv, LauncherTypes, truncate_record, server, hosts, doubts
<1>2. HostStill(p) /\ files' \in [Paths -> Image \cup {None}]
  BY <1>1 DEF HostStill, GuestPlaces, PortPlaces, LauncherTypes
<1>3. JobStep(p) /\ GoesTo(job[p], job'[p], "write") /\ ~Holds(p)'
  <2>1. \A k \in Job : GoesTo(job[p], k, "write") => Places(k) /\ About(p, k)
    BY <1>1 DEF GoesTo, Places, About, JobOK
  <2> QED BY <1>1, <2>1, GotoJob DEF Stages, GoesTo, Holds
<1>4. DiskInv'
  <2> DEFINE j == job["cli"]
             k == job'["cli"]
  <2>1. /\ k.op = j.op /\ k.slot = j.slot /\ k.at = "write" /\ k.rel = j.rel
        /\ k.profile = j.profile /\ j.op \in {"install", "update"} /\ j.slot = Bare
        /\ j.at = "record"
    BY <1>1, <1>3 DEF GoesTo
  <2>2. RecordOK(j) /\ ExeOK(j) /\ StagedOK(j)
    BY <1>1 DEF DiskInv
  <2>3. /\ j.rel <= latest /\ files[Bare] = Whole(j.rel, j.profile)
        /\ record # None /\ j.op = "update" => j.profile = chosen
    BY <2>1, <2>2 DEF StagedOK, RecordOK, Installing
  <2>4. chosen' = j.profile
    BY <1>1, <2>1, <2>3
  <2> HIDE DEF k
  <2>5. RecordOK(j)' /\ ExeOK(j)'
    BY <1>1, <2>1, <2>2, <2>3, <2>4 DEF RecordOK, ExeOK, k
  <2>6. StagedOK(j)' /\ ImageOK(j)'
    BY <1>1, <2>1, <2>3 DEF StagedOK, ImageOK, Installing, Whole, k
  <2> QED BY <2>5, <2>6 DEF DiskInv
<1> QED BY <1>1, <1>2, <1>3, <1>4, DownloadKeeps

LEMMA RecordKeeps ==
    ASSUME LauncherInv, NEW p \in Processes, write_installed_record(p)
    PROVE  LauncherInv'
<1>1. /\ LauncherTypes /\ DiskInv /\ job[p].at = "write" /\ job[p].op \in {"install", "update"}
      /\ job[p].slot = Bare /\ p = "cli" /\ Ends(p) /\ job[p].rel \in Release
      /\ job[p].profile \in Profiles
      /\ record' = [rel |-> job[p].rel, profile |-> job[p].profile]
      /\ UNCHANGED <<backend, latest, offered, files, exe, registry, chosen, known, spoiled, overlapped>>
      /\ UNCHANGED <<vm, remap, doubtful, unmapped>>
  BY DownloadJob DEF LauncherInv, write_installed_record, Installed, server, hosts, history, doubts
<1>2. HostStill(p) /\ files' \in [Paths -> Image \cup {None}]
  BY <1>1 DEF HostStill, GuestPlaces, PortPlaces, LauncherTypes
<1>3. JobStep(p) /\ ~Holds(p)' /\ job'[p].op = "none" /\ job'[p].rel = 1
  BY <1>1, EndsJob DEF Holds
<1>4. DiskInv'
  <2> DEFINE j == job["cli"]
             k == job'["cli"]
  <2>1. k.op = "none" /\ k.rel = 1 /\ latest >= 1 /\ j = job[p]
    BY <1>1, <1>3, LauncherAssumption DEF LauncherTypes, Release
  <2>2. RecordOK(j) /\ ExeOK(j) /\ StagedOK(j) /\ ImageOK(j)
    BY <1>1 DEF DiskInv
  <2>3. files[Bare] = Whole(j.rel, j.profile) /\ j.rel <= latest
    BY <1>1, <2>1, <2>2 DEF StagedOK, RecordOK, Installing
  <2>4. record' \in [rel : Release, profile : Profiles] /\ record'.profile = chosen'
        /\ record'.rel = j.rel /\ chosen' = j.profile
    BY <1>1, <2>1, <2>2 DEF RecordOK
  <2> HIDE DEF k
  <2>5. RecordOK(j)'
    BY <1>1, <2>1, <2>3, <2>4 DEF RecordOK, k
  <2>6. StagedOK(j)' /\ ExeOK(j)'
    BY <1>1, <2>1, <2>2 DEF StagedOK, ExeOK, Installing, k
  <2>7. files'[Bare] = Whole(record'.rel, chosen') /\ files'[Bare].whole
    <3>1. files' = files
      BY <1>1
    <3>2. Whole(j.rel, j.profile).whole
      BY DEF Whole
    <3> QED BY <2>3, <2>4, <3>1, <3>2
  <2>8. ImageOK(j)'
    BY ONLY <2>7 DEF ImageOK, Whole
  <2> QED BY <2>5, <2>6, <2>8 DEF DiskInv
<1> QED BY <1>1, <1>2, <1>3, <1>4, DownloadKeeps

LEMMA ReplaceKeeps == ASSUME LauncherInv, NEW p \in Processes, replace_binary(p) PROVE LauncherInv'
<1>1. /\ LauncherTypes /\ DiskInv /\ job[p].op = "selfupdate" /\ job[p].at \in {"rename", "place"}
      /\ p = "cli" /\ Ends(p) /\ exe' = files[NewExe] /\ files' = [files EXCEPT ![NewExe] = None]
      /\ UNCHANGED <<backend, latest, offered, record, registry, chosen, known, spoiled, overlapped>>
      /\ UNCHANGED <<vm, remap, doubtful, unmapped>>
  BY DownloadJob DEF LauncherInv, replace_binary, server, hosts, history, doubts
<1>2. HostStill(p)
  BY <1>1 DEF HostStill, GuestPlaces, PortPlaces
<1>3. files' \in [Paths -> Image \cup {None}] /\ files'[Bare] = files[Bare]
  BY <1>1 DEF LauncherTypes, Paths, Slots, Bare, NewExe
<1>4. JobStep(p) /\ ~Holds(p)' /\ job'[p].op = "none" /\ job'[p].rel = 1
  BY <1>1, EndsJob DEF Holds
<1>5. DiskInv'
  <2> DEFINE j == job["cli"]
             k == job'["cli"]
  <2>1. k.op = "none" /\ k.rel = 1 /\ latest >= 1 /\ j.op = "selfupdate"
    BY <1>1, <1>4, LauncherAssumption DEF LauncherTypes, Release
  <2>2. RecordOK(j) /\ ImageOK(j) /\ exe' = Whole(j.rel, j.profile)
    BY <1>1 DEF DiskInv, StagedOK
  <2>3. exe' # None /\ exe'.whole
    <3>1. Whole(j.rel, j.profile) \in [rel : Release, profile : Profiles \cup {None}, whole : BOOLEAN]
      BY <1>1, DownloadJob DEF Whole
    <3> QED BY <2>2, <3>1, NamesAssumption DEF Whole
  <2> HIDE DEF k
  <2>4. RecordOK(j)' /\ StagedOK(j)'
    BY <1>1, <2>1, <2>2 DEF RecordOK, StagedOK, Installing, k
  <2>5. ExeOK(j)'
    BY <2>1, <2>3 DEF ExeOK, k
  <2>6. ImageOK(j)'
    BY <1>1, <1>3, <2>1, <2>2 DEF ImageOK, Installing, Whole, k
  <2> QED BY <2>4, <2>5, <2>6 DEF DiskInv
<1> QED BY <1>1, <1>2, <1>3, <1>4, <1>5, DownloadKeeps

LEMMA AsideMoves == ASSUME LauncherInv, NEW p \in Processes, move_aside(p) PROVE LauncherInv'
<1>1. /\ LauncherTypes /\ DiskInv /\ JobOK(p, job[p]) /\ job[p].op = "selfupdate"
      /\ job[p].at = "aside" /\ p = "cli" /\ Goto(p, "place") /\ exe' = None
      /\ UNCHANGED <<backend, latest, offered, files, record, registry, chosen, known, spoiled,
                     overlapped>>
      /\ UNCHANGED <<vm, remap, doubtful, unmapped>>
  BY DownloadJob DEF LauncherInv, LauncherTypes, move_aside, At, server, hosts, history, doubts
<1>2. HostStill(p) /\ files' \in [Paths -> Image \cup {None}]
  BY <1>1 DEF HostStill, GuestPlaces, PortPlaces, LauncherTypes
<1>3. JobStep(p) /\ GoesTo(job[p], job'[p], "place") /\ ~Holds(p)'
  <2>1. \A k \in Job : GoesTo(job[p], k, "place") => Places(k) /\ About(p, k)
    BY <1>1 DEF GoesTo, Places, About, JobOK
  <2> QED BY <1>1, <2>1, GotoJob DEF Stages, GoesTo, Holds
<1>4. DiskInv'
  <2> DEFINE j == job["cli"]
             k == job'["cli"]
  <2>1. /\ k.op = "selfupdate" /\ k.at = "place" /\ k.rel = j.rel /\ k.profile = j.profile
        /\ j.op = "selfupdate" /\ j.at = "aside"
    BY <1>1, <1>3 DEF GoesTo
  <2>2. RecordOK(j) /\ StagedOK(j) /\ ExeOK(j) /\ ImageOK(j)
    BY <1>1 DEF DiskInv
  <2> HIDE DEF k
  <2>3. RecordOK(j)' /\ StagedOK(j)' /\ ExeOK(j)'
    BY <1>1, <2>1, <2>2 DEF RecordOK, StagedOK, ExeOK, Installing, Whole, k
  <2>4. ImageOK(j)'
    BY <1>1, <2>1, <2>2 DEF ImageOK, Installing, Whole, k
  <2> QED BY <2>3, <2>4 DEF DiskInv
<1> QED BY <1>1, <1>2, <1>3, <1>4, DownloadKeeps

LEMMA RemoveCacheKeeps == ASSUME LauncherInv, NEW p \in Processes, remove_cache(p) PROVE LauncherInv'
<1>1. /\ LauncherTypes /\ DiskInv /\ JobOK(p, job[p]) /\ job[p].op = "uninstall"
      /\ job[p].at \in {"cache", "cache+data"} /\ p = "cli" /\ (Ends(p) \/ Goto(p, "data"))
      /\ files' = [files EXCEPT ![Bare] = None, ![Staging] = None, ![NewExe] = None]
      /\ spoiled' = spoiled \cup {Bare}
      /\ UNCHANGED <<backend, latest, offered, record, exe, registry, chosen, known, overlapped>>
      /\ UNCHANGED <<vm, remap, doubtful, unmapped>>
  BY DownloadJob DEF LauncherInv, LauncherTypes, remove_cache, server, hosts, doubts
<1>2. HostStill(p)
  BY <1>1 DEF HostStill, GuestPlaces, PortPlaces
<1>3. files' \in [Paths -> Image \cup {None}] /\ files'[Bare] = None
  BY <1>1 DEF LauncherTypes, Paths, Slots, Bare, Staging, NewExe
<1>4. /\ JobStep(p) /\ ~Holds(p)' /\ job'[p].op \in {"none", "uninstall"}
      /\ job'[p].rel \in {1, job[p].rel}
  <2>1. CASE Ends(p)
    BY <1>1, <2>1, EndsJob DEF Holds
  <2>2. CASE Goto(p, "data")
    <3>1. \A k \in Job : GoesTo(job[p], k, "data") => Places(k) /\ About(p, k)
      BY <1>1 DEF GoesTo, Places, About, JobOK
    <3> QED BY <1>1, <2>2, <3>1, GotoJob DEF Stages, GoesTo, Holds
  <2> QED BY <1>1, <2>1, <2>2
<1>5. DiskInv'
  <2> DEFINE j == job["cli"]
             k == job'["cli"]
  <2>1. k.op \in {"none", "uninstall"} /\ k.rel \in {1, j.rel} /\ latest >= 1 /\ Bare \in spoiled'
    BY <1>1, <1>4, LauncherAssumption DEF LauncherTypes, Release
  <2>2. RecordOK(j) /\ ExeOK(j)
    BY <1>1 DEF DiskInv
  <2> HIDE DEF k
  <2>3. RecordOK(j)' /\ StagedOK(j)' /\ ExeOK(j)'
    BY <1>1, <2>1, <2>2 DEF RecordOK, StagedOK, ExeOK, Installing, k
  <2>4. ImageOK(j)'
    BY <2>1 DEF ImageOK
  <2> QED BY <2>3, <2>4 DEF DiskInv
<1> QED BY <1>1, <1>2, <1>3, <1>4, <1>5, DownloadKeeps

\* uninstall --data, after the cache: nothing is registered and nothing recorded any more.
LEMMA RemoveDataKeeps == ASSUME LauncherInv, NEW p \in Processes, remove_data(p) PROVE LauncherInv'
<1>1. /\ LauncherTypes /\ DiskInv /\ job[p].op = "uninstall" /\ job[p].at = "data" /\ Ends(p)
      /\ Saves(p, {}) /\ known' = {} /\ record' = None
      /\ files' = [f \in Paths |-> IF f \in Ids THEN None ELSE files[f]]
      /\ UNCHANGED <<backend, latest, offered, exe, chosen, spoiled, vm, remap, doubtful, unmapped>>
      /\ p = "cli"
  BY DownloadJob DEF LauncherInv, remove_data, At, server, doubts
<1>2. HostStill(p)
  BY <1>1 DEF HostStill, GuestPlaces, PortPlaces
<1>3. files' \in [Paths -> Image \cup {None}] /\ files'[Bare] = files[Bare] /\ registry' \in SUBSET Ids
  BY <1>1, NamesAssumption DEF LauncherTypes, Paths, Slots, Saves
<1>4. JobStep(p) /\ ~Holds(p)' /\ job'[p].op = "none" /\ job'[p].rel = 1
  BY <1>1, EndsJob DEF Holds
<1>5. RegistryInv'
  <2>1. Saves(p, {}) /\ known' = {}
    BY <1>1
  <2> QED BY <1>4, <2>1, SavesKeeps
<1>6. DiskInv'
  <2> DEFINE j == job["cli"]
             k == job'["cli"]
  <2>1. k.op = "none" /\ k.rel = 1 /\ latest >= 1 /\ j.op = "uninstall"
    BY <1>1, <1>4, LauncherAssumption DEF LauncherTypes, Release
  <2>2. ExeOK(j) /\ ImageOK(j)
    BY <1>1 DEF DiskInv
  <2> HIDE DEF k
  <2>3. RecordOK(j)' /\ StagedOK(j)' /\ ExeOK(j)'
    BY <1>1, <2>1, <2>2 DEF RecordOK, StagedOK, ExeOK, Installing, k
  <2>4. ImageOK(j)'
    BY <1>1, <1>3, <2>1, <2>2 DEF ImageOK, Installing, k
  <2> QED BY <2>3, <2>4 DEF DiskInv
<1> QED BY <1>1, <1>2, <1>3, <1>4, <1>5, <1>6, AsideKeeps

-----------------------------------------------------------------------------
(* Failures, and the theorems *)

LEMMA BreaksKeeps == ASSUME LauncherInv, NEW p \in Processes, Breaks(p) PROVE LauncherInv'
<1>1. PICK s \in Slots : s = job[p].slot
  BY DEF LauncherInv, LauncherTypes, JobOK, Job
<1>2. /\ LauncherTypes /\ RegistryInv /\ GuestInv /\ PortInv /\ DiskInv /\ Ends(p)
      /\ UNCHANGED <<backend, latest, offered, files, record, exe, registry, vm, remap>>
      /\ UNCHANGED <<chosen, known, overlapped>>
  BY DEF LauncherInv, Breaks, server, disk, hosts
<1>3. JobStep(p) /\ ~Holds(p)' /\ job'[p].op = "none" /\ job'[p].rel = 1 /\ Others(p)
  BY <1>2, EndsJob DEF Holds, JobStep
<1>4. LauncherTypes'
  BY <1>2, <1>3, JobsKept DEF LauncherTypes
<1>5. RegistryInv'
  BY <1>2, <1>3, RegistryKept DEF RegistryStill
<1>6. GuestInv'
  <2>1. doubtful' = IF job[p].at \in GuestPlaces THEN doubtful \cup {s} ELSE doubtful
    BY <1>1 DEF Breaks, GuestPlaces
  <2>2. GuestStep(p)
    BY <1>1, <1>2, <2>1 DEF GuestStep, GuestOK
  <2> QED BY <1>2, <1>3, <2>2, GuestKept
<1>7. PortInv'
  <2>1. unmapped' = IF job[p].at \in PortPlaces THEN unmapped \cup {s} ELSE unmapped
    BY <1>1 DEF Breaks, PortPlaces
  <2>2. PortStep(p)
    BY <1>1, <1>2, <2>1 DEF PortStep, PortOK
  <2> QED BY <1>2, <1>3, <2>2, PortKept
<1>8. DiskInv'
  <2>1. spoiled' = IF job[p].op = "install"
                      /\ job[p].at \in {"fetching", "verify", "import", "record"}
                   THEN spoiled \cup {s} ELSE spoiled
    BY <1>1 DEF Breaks
  <2>2. CASE p = "console"
    <3>1. job[p].op = "install" => s # Bare
      BY <1>1, <1>2, <2>2, DownloadJob
    <3>2. DiskStill(p)
      BY <1>2, <2>1, <2>2, <3>1 DEF DiskStill
    <3> QED BY <1>2, <1>3, <3>2, DiskKept
  <2>3. CASE p = "cli"
    <3> DEFINE j == job["cli"]
               k == job'["cli"]
    <3>1. /\ k.op = "none" /\ k.rel = 1 /\ latest >= 1 /\ spoiled \subseteq spoiled'
          /\ Installing(j, {"fetching", "verify", "import", "record"}) => Bare \in spoiled'
          /\ j.at \in {"fetching", "verify"} => j.at \in {"fetching", "verify", "import", "record"}
      BY <1>1, <1>2, <1>3, <2>1, <2>3, LauncherAssumption DEF LauncherTypes, Release, Installing
    <3>2. RecordOK(j) /\ ExeOK(j) /\ ImageOK(j)
      BY <1>2 DEF DiskInv
    <3> HIDE DEF k
    <3>3. RecordOK(j)' /\ StagedOK(j)' /\ ExeOK(j)'
      BY <1>2, <3>1, <3>2 DEF RecordOK, StagedOK, ExeOK, Installing, k
    <3>4. ImageOK(j)'
      BY <1>2, <3>1, <3>2 DEF ImageOK, Installing, Whole, k
    <3> QED BY <3>3, <3>4 DEF DiskInv
  <2> QED BY <2>2, <2>3 DEF Processes
<1> QED BY <1>4, <1>5, <1>6, <1>7, <1>8 DEF LauncherInv

LEMMA StepKeeps == ASSUME LauncherInv, NEW p \in Processes, Step(p) PROVE LauncherInv'
<1>1. CASE \/ fetch_and_verify(p) \/ fetch_to(p) \/ Fetched(p) \/ verify(p) \/ remove_cached(p)
           \/ rename_staging(p) \/ truncate_record(p) \/ write_installed_record(p)
           \/ replace_binary(p) \/ move_aside(p) \/ remove_cache(p) \/ remove_data(p)
  BY <1>1, SignatureKeeps, FetchToKeeps, FetchedKeeps, VerifyKeeps, RemoveCachedKeeps, RenameKeeps,
     TruncateKeeps, RecordKeeps, ReplaceKeeps, AsideMoves, RemoveCacheKeeps, RemoveDataKeeps
<1>2. CASE \/ create_save(p) \/ set_status(p) \/ save_status(p) \/ unregister(p) \/ remove_dirs(p)
           \/ import_qemu(p) \/ import_vm(p)
  BY <1>2, SaveKeeps, StatusKeeps, RemoveDirsKeeps, ImportKeeps
<1>3. CASE \/ start_wsl(p) \/ start_utm(p) \/ resume_wsl(p) \/ resume_utm(p) \/ thaw(p)
           \/ clear_paused_marker(p) \/ apply_port_remap(p)
  BY <1>3, StartWslKeeps, StartUtmKeeps, ResumeWslKeeps, ResumeUtmKeeps, ThawKeeps, UnmarkKeeps,
     RemapKeeps
<1>4. CASE \/ stop_qemu(p) \/ stop_wsl(p) \/ stop_utm(p) \/ terminate(p) \/ pause_with(p)
           \/ clear_port_remap(p) \/ suspend_wsl(p) \/ suspend_utm(p) \/ suspend_fails(p)
           \/ set_paused_marker(p)
  BY <1>4, StopQemuKeeps, StopWslKeeps, StopUtmKeeps, TerminateKeeps, PauseKeeps, UnmapKeeps,
     SuspendWslKeeps, SuspendUtmKeeps, SuspendFailsKeeps, MarkKeeps
<1> QED BY <1>1, <1>2, <1>3, <1>4 DEF Step

LEMMA InitLauncher == ASSUME Init PROVE LauncherInv
<1>1. PICK known0 \in {{}} \cup {{i} : i \in Ids}, q \in Profiles :
          /\ registry = known0 /\ known = known0
          /\ files = [p \in Paths |-> IF p \in known0 THEN Whole(1, q) ELSE None]
          /\ vm = [s \in Slots |-> IF s \in known0 /\ backend # "qemu"
                                   THEN [Absent EXCEPT !.state = "stopped"] ELSE Absent]
  BY DEF Init
<1>2. /\ backend \in {"qemu", "wsl", "utm"} /\ latest = 1 /\ offered = Profiles /\ record = None
      /\ exe = Whole(1, None) /\ remap = [s \in Slots |-> "none"]
      /\ job = [p \in Processes |-> Idle] /\ 1 \in Release /\ known0 \in SUBSET Ids
  BY <1>1, LauncherAssumption DEF Init, Release
<1>3. JobOK("console", Idle) /\ JobOK("cli", Idle)
  <2>1. Bare \in Slots /\ Bare \in Paths
    BY DEF Slots, Paths
  <2>2. Idle \in Job
    BY <1>2, <2>1 DEF Idle, Job, Ops, Stages
  <2>3. Idle.op = "none" /\ Idle.at = "idle"
    BY DEF Idle
  <2> QED BY <2>2, <2>3 DEF JobOK, Places, About
<1>4. Whole(1, q) \in Image /\ Whole(1, None) \in Image
  BY <1>2 DEF Whole, Image
<1>5. /\ vm \in [Slots -> Machine]
      /\ \A s \in Slots : vm[s].state # "running"
  <2>1. /\ [Absent EXCEPT !.state = "stopped"] = [state |-> "stopped", guest |-> "active"]
        /\ Absent = [state |-> "absent", guest |-> "active"]
    BY DEF Absent
  <2> HIDE DEF Absent
  <2> QED BY <1>1, <2>1 DEF Machine
<1>6. LauncherTypes
  <2>1. files \in [Paths -> Image \cup {None}]
    BY <1>1, <1>4
  <2> QED BY <1>1, <1>2, <1>3, <1>5, <2>1 DEF LauncherTypes, Processes
<1>7. RegistryInv
  BY <1>1, <1>2 DEF RegistryInv, Holds, Idle
<1>8. GuestInv /\ PortInv
  BY <1>5 DEF GuestInv, GuestOK, PortInv, PortOK, Slots
<1>9. DiskInv
  <2>1. job["cli"] = Idle /\ Idle.op = "none" /\ Idle.rel = 1
    BY <1>2 DEF Processes, Idle
  <2>2. exe # None /\ exe.whole
    BY <1>2, <1>4, NamesAssumption DEF Image, Whole
  <2>3. files[Bare] = None
    BY <1>1, <1>2, NamesAssumption DEF Paths, Slots
  <2>4. RecordOK(Idle) /\ StagedOK(Idle)
    BY <1>2, <2>1 DEF RecordOK, StagedOK, Installing
  <2>5. ExeOK(Idle) /\ ImageOK(Idle)
    BY <1>2, <2>1, <2>2, <2>3 DEF ExeOK, ImageOK
  <2> QED BY <2>1, <2>4, <2>5 DEF DiskInv
<1> QED BY <1>6, <1>7, <1>8, <1>9 DEF LauncherInv

LEMMA NextLauncher == ASSUME LauncherInv, [Next]_vars PROVE LauncherInv'
<1>1. CASE Next
  <2>1. CASE \E p \in Processes : Command(p) \/ Step(p) \/ Breaks(p)
    BY <2>1, CommandKeeps, StepKeeps, BreaksKeeps
  <2>2. CASE \E s \in Slots : GuestStops(s)
    BY <2>2, GuestStopsKeeps
  <2> QED BY <1>1, <2>1, <2>2, PublishKeeps, UpdateBegins, SelfUpdateBegins, UninstallBegins DEF Next
<1>2. CASE UNCHANGED vars
  <2>1. /\ UNCHANGED <<backend, latest, offered, files, record, exe, registry, vm, remap, job>>
        /\ UNCHANGED <<chosen, known, spoiled, overlapped, doubtful, unmapped>>
    BY <1>2 DEF vars, server, disk, hosts, history, doubts
  <2>2. LauncherTypes'
    BY <2>1 DEF LauncherInv, LauncherTypes
  <2>3. RegistryInv' /\ GuestInv' /\ PortInv'
    BY <2>1 DEF LauncherInv, RegistryInv, Holds, GuestInv, GuestOK, PortInv, PortOK
  <2>4. DiskInv'
    BY <2>1 DEF LauncherInv, DiskInv, RecordOK, StagedOK, ExeOK, ImageOK, Installing, Whole
  <2> QED BY <2>2, <2>3, <2>4 DEF LauncherInv
<1> QED BY <1>1, <1>2

\* The types, and what each of two processes and each of their steps leaves true.
THEOREM LauncherInvariant == Spec => []LauncherInv
<1>1. Init => LauncherInv
  BY InitLauncher
<1>2. LauncherInv /\ [Next]_vars => LauncherInv'
  BY NextLauncher
<1> QED BY <1>1, <1>2, PTL DEF Spec

\* The image that update calls up to date is all of the release and the profile recorded
\* (cmd_update, write_installed_record).
THEOREM UpToDateMeansInstalled == Spec => []UpToDateIsTrue
<1>1. LauncherInv => UpToDateIsTrue
  <2> SUFFICES ASSUME LauncherInv, record # None, Bare \notin spoiled, ~Busy(Bare)
               PROVE  record.profile = chosen
                      /\ (record.rel = latest => files[Bare] = Whole(latest, chosen))
    BY DEF UpToDateIsTrue
  <2> DEFINE j == job["cli"]
  <2>1. RecordOK(j) /\ ImageOK(j) /\ latest \in Release
    BY DEF LauncherInv, DiskInv, LauncherTypes
  <2>2. ~Installing(j, {"fetching", "verify", "import", "record"})
    BY DEF Busy, Installing, Processes, Idle
  <2> QED BY <2>1, <2>2, LauncherAssumption DEF RecordOK, ImageOK, Release
<1> QED BY <1>1, LauncherInvariant, PTL

\* No update or self-update puts in place what is not all there (replace_binary, rename_staging).
THEOREM UpdatesAreWhole == Spec => []NeverHalfAnUpdate
<1>1. LauncherInv => NeverHalfAnUpdate
  <2> SUFFICES ASSUME LauncherInv PROVE NeverHalfAnUpdate
    OBVIOUS
  <2> DEFINE j == job["cli"]
  <2>1. ExeOK(j) /\ ImageOK(j) /\ "cli" \in Processes
    BY DEF LauncherInv, DiskInv, Processes
  <2> QED BY <2>1 DEF ExeOK, ImageOK, Installing, NeverHalfAnUpdate
<1> QED BY <1>1, LauncherInvariant, PTL

\* instances.json has what was created and not deleted, unless one save fell into another's
\* reading and saving (InstanceOps).
THEOREM RegistryIsKept == Spec => []RegistryKeeps
<1>1. LauncherInv => RegistryKeeps
  BY DEF LauncherInv, RegistryInv, RegistryKeeps
<1> QED BY <1>1, LauncherInvariant, PTL

\* The guest of a VM that runs between operations is active (start, resume, pause_with).
THEOREM GuestsAreActive == Spec => []GuestFollowsTool
<1>1. LauncherInv => GuestFollowsTool
  <2> SUFFICES ASSUME LauncherInv, NEW s \in Slots, vm[s].state = "running", s \notin doubtful,
                      ~Busy(s)
               PROVE  vm[s].guest = "active"
    BY DEF GuestFollowsTool
  <2>1. \A p \in Processes : job[p].slot = s => job[p].at = "idle"
    BY DEF Busy, Idle
  <2>2. GuestOK(s)
    BY <2>1 DEF LauncherInv, GuestInv, GuestPlaces
  <2> QED BY <2>2 DEF GuestOK
<1> QED BY <1>1, LauncherInvariant, PTL

\* An instance on WSL that runs has a port proxy to the address it has now (apply_port_remap).
THEOREM PortsAreLive == Spec => []ReachableWhereSaid
<1>1. LauncherInv => ReachableWhereSaid
  <2> SUFFICES ASSUME LauncherInv, backend = "wsl", NEW i \in Ids, vm[i].state = "running",
                      i \notin unmapped, ~Busy(i)
               PROVE  remap[i] = "live"
    BY DEF ReachableWhereSaid
  <2>1. \A p \in Processes : job[p].slot = i => job[p].at = "idle"
    BY DEF Busy, Idle
  <2>2. PortOK(i)
    BY <2>1 DEF LauncherInv, PortInv, PortPlaces
  <2> QED BY <2>2 DEF PortOK
<1> QED BY <1>1, LauncherInvariant, PTL

=============================================================================
