------------------------------ MODULE Launcher ------------------------------
(***************************************************************************)
(* The desktop launcher (deputyos-desktop) and the console above it: the   *)
(* images it downloads, the record of what is installed, its own binary,   *)
(* the registry of instances, and the VMs that WSL or UTM owns (QEMU's are *)
(* DesktopVM's).  Two processes work at once, the console and a command    *)
(* line; a command is one step after the other of its process, which may   *)
(* fail or be killed between two of them.  The bare command line has one   *)
(* VM of a fixed name; every instance has one of its own.                  *)
(* wsl.exe, utmctl, netsh and the release server are external.  `wsl -d`   *)
(* starts a distro that does not run; a soft stop of UTM's returns before  *)
(* the guest has shut down.                                                *)
(***************************************************************************)
EXTENDS Integers, FiniteSets, TLC

CONSTANTS
    Backends,       \* hosts looked at: "qemu", "wsl", "utm"
    Ids,            \* bound: the uuids that instances can get
    Profiles,       \* agent profiles that images are built of
    Published,      \* bound: the releases are 1 .. Published
    MaxOps,         \* bound: commands
    MaxFaults,      \* bound: failed calls, kills and guests that stop by themselves
    None

ASSUME LauncherAssumption ==
    /\ Backends \subseteq {"qemu", "wsl", "utm"}
    /\ Published \in Nat \ {0} /\ MaxOps \in Nat /\ MaxFaults \in Nat

Bare == "bare"              \* VM_NAME, DISTRO_NAME
Slots == Ids \cup {Bare}
Staging == "staging"        \* deputyos-<target>-staging, one for all updates
NewExe == "launcher"        \* launcher-staging/<filename>, one for all self-updates
Paths == Slots \cup {Staging, NewExe}
Processes == {"console", "cli"}
Release == 1 .. Published

(* The uuids are none of the fixed names, and None is nothing that is installed. *)
ASSUME NamesAssumption ==
    /\ Ids \cap {Bare, Staging, NewExe} = {} /\ None \notin Profiles
    /\ None \notin [rel : Release, profile : Profiles]
    /\ None \notin [rel : Release, profile : Profiles \cup {None}, whole : BOOLEAN]

VARIABLES
    backend,    \* the host, fixed
    latest,     \* the release that the channel's manifest names
    offered,    \* the profiles of its artefacts for this host's target
    files,      \* the downloaded images and binaries: release, profile, and all of
                \* its bytes or not
    record,     \* last-manifest.json: the release and the profile installed
    exe,        \* the launcher's binary
    registry,   \* the ids in instances.json
    vm,         \* the tool's VMs
    marker,     \* slots with a wsl-paused file
    remap,      \* the port proxies: "none", "live", or "stale" (to an address of an earlier boot)
    job,        \* what each process does
    ops, faults,    \* counters of the bounds
    chosen,     \* history: the profile installed last, that is not by an update of it
    known,      \* history: instances created and not deleted
    spoiled,    \* history: images that an install has left half-done or an uninstall has removed
    clashed,    \* history: two processes downloaded to one path
    overlapped, \* history: a process saved the registry while another held a copy
    doubtful,   \* history: VMs of which a call to the agent or the tool failed
    unmapped    \* history: VMs whose port proxy could not be set, or whose pause failed

disk == <<files, record, exe>>
hosts == <<vm, marker, remap>>
doubts == <<doubtful, unmapped>>
history == <<chosen, known, spoiled, clashed, overlapped, doubts>>
server == <<latest, offered>>
vars == <<backend, server, disk, registry, hosts, job, ops, faults, history>>

Whole(r, q) == [rel |-> r, profile |-> q, whole |-> TRUE]
Idle == [op |-> "none", slot |-> Bare, at |-> "idle", rel |-> 1, profile |-> None,
         path |-> Bare, copy |-> {}, clash |-> FALSE]
Absent == [state |-> "absent", guest |-> "active"]

(* A host on which release 1 of the launcher has been put, with one instance *)
(* installed or none.                                                        *)
Init ==
    /\ backend \in Backends /\ latest = 1 /\ offered = Profiles
    /\ record = None /\ exe = Whole(1, None)
    /\ \E known0 \in {{}} \cup {{i} : i \in Ids} :
          /\ registry = known0 /\ known = known0
          /\ \E q \in Profiles :
                files = [p \in Paths |-> IF p \in known0 THEN Whole(1, q) ELSE None]
          /\ vm = [s \in Slots |-> IF s \in known0 /\ backend # "qemu"
                                   THEN [Absent EXCEPT !.state = "stopped"] ELSE Absent]
    /\ marker = {} /\ remap = [s \in Slots |-> "none"]
    /\ job = [p \in Processes |-> Idle] /\ ops = 0 /\ faults = 0
    /\ chosen = None /\ spoiled = {} /\ clashed = FALSE /\ overlapped = FALSE
    /\ doubtful = {} /\ unmapped = {}

-----------------------------------------------------------------------------
(* Commands, their steps and their ends. *)

At(p, op, at) == job[p].op = op /\ job[p].at = at
Set(p, j) == job' = [job EXCEPT ![p] = j]
Goto(p, at) == Set(p, [job[p] EXCEPT !.at = at])
Ends(p) == Set(p, Idle)
Fault == faults < MaxFaults /\ faults' = faults + 1

(* What a command goes by later on: the release for those that download, the *)
(* registry as it was read for those that save it. *)
Downloads == {"install", "update", "selfupdate"}
SavesRegistry == {"create", "delete", "configure"}

(* InstanceOps::instance: the slot is looked up in the registry. *)
Reaches(p, s) == s \in registry \/ (s = Bare /\ p = "cli")
BeginsOn(p, op, s, at, path, q) ==
    /\ job[p] = Idle /\ ops < MaxOps /\ ops' = ops + 1
    /\ Set(p, [op |-> op, slot |-> s, at |-> at, profile |-> q, path |-> path, clash |-> FALSE,
               rel |-> IF op \in Downloads THEN latest ELSE 1,
               copy |-> IF op \in SavesRegistry THEN registry ELSE {}])
    /\ UNCHANGED <<backend, server, disk, registry, hosts, faults, history>>
Begins(p, op, s, at, path) == BeginsOn(p, op, s, at, path, None)

Publish ==
    /\ latest < Published /\ latest' = latest + 1
    /\ \E some \in SUBSET Profiles \ {{}} : offered' = some
    /\ UNCHANGED <<backend, disk, registry, hosts, job, ops, faults, history>>

-----------------------------------------------------------------------------
(* Downloads.  The manifest is read when the command begins, its signature    *)
(* after it.                                                                 *)

(* The profiles to choose from. *)
artefacts_for_target(asked) == IF asked = None THEN offered ELSE offered \cap {asked}
(* None is an error, and of several none is taken. *)
pick_artefact(asked) ==
    LET fit == artefacts_for_target(asked) IN IF Cardinality(fit) = 1 THEN fit ELSE {}

(* --profile, or the profile of the instance, or none. *)
cmd_install(p) ==
    \E s \in Slots, asked \in Profiles \cup {None} :
        Reaches(p, s) /\ BeginsOn(p, "install", s, "signature", s, asked)
cmd_update == Begins("cli", "update", Bare, "signature", Staging)
cmd_selfupdate == Begins("cli", "selfupdate", Bare, "signature", NewExe)

read_installed_profile == IF record = None THEN None ELSE record.profile
(* The artefact that a command goes on with: none if it is up to date, or if  *)
(* pick_artefact has none.                                                   *)
Artefact(p) ==
    CASE job[p].op = "install" -> pick_artefact(job[p].profile)
      [] job[p].op = "update" -> IF record # None /\ record.rel = job[p].rel THEN {}
                                 ELSE pick_artefact(read_installed_profile)
      [] OTHER -> IF exe # None /\ exe.rel # job[p].rel THEN {None} ELSE {}
(* The signature of a manifest that was replaced in between does not fit. *)
fetch_and_verify(p) ==
    /\ job[p].at = "signature"
    /\ IF latest # job[p].rel \/ Artefact(p) = {} THEN Ends(p)
       ELSE \E q \in Artefact(p) : Set(p, [job[p] EXCEPT !.at = "fetch", !.profile = q])
    /\ UNCHANGED <<backend, server, disk, registry, hosts, ops, faults, history>>

(* Who writes, or relies on, the file at a path. *)
Using(d) == {q \in Processes : job[q].path = d /\ job[q].at \in
                 {"fetching", "verify", "import", "remove", "rename", "aside", "place"}}
(* fetch_to: the destination is created empty, whoever else is using it. *)
fetch_to(p) ==
    LET d == job[p].path
        rivals == Using(d) \ {p} IN
    /\ job[p].at = "fetch"
    /\ files' = [files EXCEPT ![d] = [Whole(job[p].rel, job[p].profile)
                                             EXCEPT !.whole = FALSE]]
    /\ job' = [q \in Processes |->
                  [job[q] EXCEPT !.at = IF q = p THEN "fetching" ELSE @,
                                 !.clash = @ \/ q \in rivals \/ (q = p /\ rivals # {})]]
    /\ clashed' = (clashed \/ rivals # {})
    /\ UNCHANGED <<backend, server, record, exe, registry, hosts, ops, faults, chosen, known,
                   spoiled, overlapped, doubts>>
(* All of it arrives; or two downloads have mixed their bytes. *)
Fetched(p) ==
    LET d == job[p].path IN
    /\ job[p].at = "fetching" /\ Goto(p, "verify")
    /\ \E all \in IF job[p].clash THEN BOOLEAN ELSE {TRUE} :
          files' = [files EXCEPT ![d] = IF @ = None THEN None ELSE [@ EXCEPT !.whole = all]]
    /\ UNCHANGED <<backend, server, record, exe, registry, hosts, ops, faults, history>>

Verified(p) == files[job[p].path] = Whole(job[p].rel, job[p].profile)
AfterVerify(p) ==
    CASE job[p].op = "install" -> "import"
      [] job[p].op = "update" -> "remove"
      [] OTHER -> IF backend = "wsl" THEN "aside" ELSE "rename"
(* Mutant of verify: what has arrived is taken as it is. *)
verifyNothing(p) ==
    /\ job[p].at \in {"fetching", "verify"} /\ Goto(p, AfterVerify(p))
    /\ UNCHANGED <<backend, server, disk, registry, hosts, ops, faults, history>>
(* verify_sha256, then the signature.  A file that fails stays where it is,  *)
(* which for an install is where start looks for it.                         *)
verify(p) ==
    /\ job[p].at = "verify"
    /\ IF Verified(p)
       THEN Goto(p, AfterVerify(p)) /\ spoiled' = spoiled \ {job[p].path}
       ELSE Ends(p) /\ spoiled' = spoiled \cup ({job[p].path} \cap Slots)
    /\ UNCHANGED <<backend, server, disk, registry, hosts, ops, faults, chosen, known, clashed,
                   overlapped, doubts>>

(* update: the old image goes, the new one is renamed to its place, and only *)
(* then is it recorded.                                                      *)
Installed(p) == [rel |-> job[p].rel, profile |-> job[p].profile]
(* Mutant of remove_cached: the release is recorded on the way. *)
remove_cachedRecords(p) ==
    /\ At(p, "update", "remove") /\ Goto(p, "rename")
    /\ files' = [files EXCEPT ![Bare] = None] /\ record' = Installed(p)
    /\ UNCHANGED <<backend, server, exe, registry, hosts, ops, faults, history>>
remove_cached(p) ==
    /\ At(p, "update", "remove") /\ Goto(p, "rename")
    /\ files' = [files EXCEPT ![Bare] = None]
    /\ UNCHANGED <<backend, server, record, exe, registry, hosts, ops, faults, history>>
rename_staging(p) ==
    /\ At(p, "update", "rename") /\ files[Staging] # None
    /\ files' = [files EXCEPT ![Bare] = files[Staging], ![Staging] = None]
    /\ Goto(p, "record") /\ spoiled' = spoiled \ {Bare}
    /\ UNCHANGED <<backend, server, record, exe, registry, hosts, ops, faults, chosen, known,
                   clashed, overlapped, doubts>>
(* fs::write: the record is emptied, and then filled; to the readers of it an  *)
(* empty one is none.                                                         *)
truncate_record(p) ==
    /\ job[p].at = "record" /\ Goto(p, "write")
    /\ record' = None
    /\ chosen' = IF job[p].op = "install" \/ record = None THEN job[p].profile ELSE chosen
    /\ UNCHANGED <<backend, server, files, exe, registry, hosts, ops, faults, known, spoiled,
                   clashed, overlapped, doubts>>
write_installed_record(p) ==
    /\ job[p].at = "write" /\ Ends(p)
    /\ record' = Installed(p)
    /\ UNCHANGED <<backend, server, files, exe, registry, hosts, ops, faults, history>>

(* replace_binary: one rename; on Windows the running one is moved aside     *)
(* first.                                                                    *)
replace_binary(p) ==
    /\ job[p].op = "selfupdate" /\ job[p].at \in {"rename", "place"} /\ files[NewExe] # None
    /\ exe' = files[NewExe] /\ files' = [files EXCEPT ![NewExe] = None]
    /\ Ends(p)
    /\ UNCHANGED <<backend, server, record, registry, hosts, ops, faults, history>>
move_aside(p) ==
    /\ At(p, "selfupdate", "aside") /\ exe # None
    /\ exe' = None /\ Goto(p, "place")
    /\ UNCHANGED <<backend, server, files, record, registry, hosts, ops, faults, history>>

(* The cache first, then with --data everything else; no VM is stopped, and  *)
(* without --data the record stays.                                          *)
cmd_uninstall == \E at \in {"cache", "cache+data"} : Begins("cli", "uninstall", Bare, at, Bare)
remove_cache(p) ==
    /\ job[p].op = "uninstall" /\ job[p].at \in {"cache", "cache+data"}
    /\ files' = [files EXCEPT ![Bare] = None, ![Staging] = None, ![NewExe] = None]
    /\ spoiled' = spoiled \cup {Bare}
    /\ IF job[p].at = "cache" THEN Ends(p) ELSE Goto(p, "data")
    /\ UNCHANGED <<backend, server, record, exe, registry, hosts, ops, faults, chosen, known,
                   clashed, overlapped, doubts>>

-----------------------------------------------------------------------------
(* The registry: every change reads the file, and later replaces it, through  *)
(* one instances.json.tmp.  Two that are in it at once are both between their *)
(* reading and their saving, so `overlapped` covers them; the file that they  *)
(* may leave unreadable, on which every later command fails, is not modelled. *)

(* A process that is between the two. *)
Holds(q) == job[q].at \in {"create", "delete", "terminate_delete", "unregister", "save"}
Saves(p, r) ==
    /\ registry' = r
    /\ overlapped' = (overlapped \/ \E q \in Processes \ {p} : Holds(q))

remove_data(p) ==
    /\ At(p, "uninstall", "data") /\ Ends(p)
    /\ Saves(p, {}) /\ known' = {} /\ record' = None /\ marker' = {}
    /\ files' = [f \in Paths |-> IF f \in Ids THEN None ELSE files[f]]
    /\ UNCHANGED <<backend, server, exe, vm, remap, ops, faults, chosen, spoiled, clashed, doubts>>

Unused(i) ==
    /\ i \notin registry \cup known /\ vm[i] = Absent /\ files[i] = None
    /\ \A p \in Processes : job[p].slot # i /\ i \notin job[p].copy
create(p) == \E i \in Ids : Unused(i) /\ Begins(p, "create", i, "create", i)
create_save(p) ==
    /\ At(p, "create", "create") /\ Ends(p)
    /\ Saves(p, job[p].copy \cup {job[p].slot}) /\ known' = known \cup {job[p].slot}
    /\ UNCHANGED <<backend, server, disk, hosts, ops, faults, chosen, spoiled, clashed, doubts>>

(* configure_resources, and the set_status that ends an operation. *)
configure_resources(p) == \E i \in registry : Begins(p, "configure", i, "status", i)
(* Mutant of set_status: it goes on with what the operation read at first. *)
set_statusFirstCopy(p) ==
    /\ job[p].at = "status"
    /\ IF job[p].slot \in job[p].copy THEN Goto(p, "save") ELSE Ends(p)
    /\ UNCHANGED <<backend, server, disk, registry, hosts, ops, faults, history>>
set_status(p) ==
    /\ job[p].at = "status"
    /\ IF job[p].slot \in registry
       THEN Set(p, [job[p] EXCEPT !.at = "save", !.copy = registry]) ELSE Ends(p)
    /\ UNCHANGED <<backend, server, disk, registry, hosts, ops, faults, history>>
save_status(p) ==
    /\ job[p].at = "save" /\ Ends(p)
    /\ Saves(p, job[p].copy)
    /\ UNCHANGED <<backend, server, disk, hosts, ops, faults, chosen, known, spoiled, clashed, doubts>>

(* The instance is stopped, whatever that returns, and struck from the       *)
(* registry that was read before it; the tool keeps its VM.                  *)
delete(p) == \E i \in registry : Begins(p, "delete", i, "delete", i)
unregister(p) ==
    /\ At(p, "delete", "unregister") /\ Goto(p, "remove_dirs")
    /\ Saves(p, job[p].copy \ {job[p].slot}) /\ known' = known \ {job[p].slot}
    /\ UNCHANGED <<backend, server, disk, hosts, ops, faults, chosen, spoiled, clashed, doubts>>
remove_dirs(p) ==
    /\ At(p, "delete", "remove_dirs") /\ Ends(p)
    /\ files' = [files EXCEPT ![job[p].slot] = None] /\ marker' = marker \ {job[p].slot}
    /\ UNCHANGED <<backend, server, record, exe, registry, vm, remap, ops, faults, history>>

-----------------------------------------------------------------------------
(* VMs of WSL and UTM.  Whether a name is listed is asked by searching the   *)
(* list for it, and the fixed name is a prefix of every instance's.          *)

Named(s) == IF s = Bare THEN Slots ELSE {s}
Exists(s) == \E n \in Named(s) : vm[n].state # "absent"
Running(s) ==
    \E n \in IF backend = "wsl" THEN Named(s) ELSE {s} : vm[n].state \in {"running", "stopping"}
Paused(s) == IF backend = "wsl" THEN s \in marker ELSE vm[s].state = "paused"

Is(s, state, guest) == vm' = [vm EXCEPT ![s] = [state |-> state, guest |-> guest]]
Settled(s) == doubtful' = doubtful \ {s}
KeepsHistory == UNCHANGED <<chosen, known, spoiled, clashed, overlapped>>
Tool(p) ==
    /\ KeepsHistory
    /\ UNCHANGED <<backend, server, disk, registry, ops>>
(* InstanceOps records the status; the bare command line has none. *)
Done(p) == IF job[p].slot = Bare THEN Ends(p) ELSE Goto(p, "status")

(* An image of QEMU's is used where it is; WSL and UTM import theirs, once. *)
ImportsTo(p) == IF job[p].slot = Bare THEN Goto(p, "record") ELSE Ends(p)
import_qemu(p) ==
    /\ backend = "qemu" /\ job[p].at = "import" /\ ImportsTo(p)
    /\ Tool(p) /\ UNCHANGED <<hosts, faults, doubts>>
import_vm(p) ==
    LET s == job[p].slot IN
    /\ backend # "qemu" /\ job[p].at = "import" /\ ImportsTo(p)
    /\ IF Exists(s) THEN UNCHANGED vm ELSE Is(s, "stopped", "active")
    /\ Tool(p) /\ UNCHANGED <<marker, remap, faults, doubts>>

Operates(p, op) ==
    /\ backend # "qemu"
    /\ \E s \in Slots : Reaches(p, s) /\ Begins(p, op, s, op, s)

(* start: what does not exist is an error, what is paused is resumed, what    *)
(* runs is left alone; only what is stopped is started.                       *)
start_wsl(p) ==
    LET s == job[p].slot IN
    /\ backend = "wsl" /\ At(p, "start", "start")
    /\ \/ ~Exists(s) /\ Ends(p) /\ UNCHANGED <<vm, doubtful>>
       \/ Exists(s) /\ Paused(s) /\ Goto(p, "resume") /\ UNCHANGED <<vm, doubtful>>
       \/ Exists(s) /\ ~Paused(s) /\ Running(s) /\ Done(p) /\ UNCHANGED <<vm, doubtful>>
       \/ /\ vm[s].state = "stopped" /\ ~Paused(s) /\ ~Running(s)
          /\ Is(s, "running", "active") /\ Settled(s) /\ Goto(p, "remap")
    /\ Tool(p) /\ UNCHANGED <<marker, remap, faults, unmapped>>
start_utm(p) ==
    LET s == job[p].slot IN
    /\ backend = "utm" /\ At(p, "start", "start")
    /\ \/ ~Exists(s) /\ Ends(p) /\ UNCHANGED <<vm, doubtful>>
       \/ Paused(s) /\ Goto(p, "resume") /\ UNCHANGED <<vm, doubtful>>
       \/ Running(s) /\ Done(p) /\ UNCHANGED <<vm, doubtful>>
       \/ vm[s].state = "stopped" /\ Is(s, "running", "active") /\ Settled(s) /\ Done(p)
    /\ Tool(p) /\ UNCHANGED <<marker, remap, faults, unmapped>>

(* resume: neither running nor paused is an error; a suspended one is booted  *)
(* (WSL keeps no memory) or goes on (UTM's suspend does).                     *)
resume_wsl(p) ==
    LET s == job[p].slot IN
    /\ backend = "wsl" /\ job[p].at = "resume"
    /\ \/ ~Running(s) /\ ~Paused(s) /\ Ends(p) /\ UNCHANGED <<vm, doubtful>>
       \/ Running(s) /\ Goto(p, "thaw") /\ UNCHANGED <<vm, doubtful>>
       \/ /\ ~Running(s) /\ Paused(s) /\ vm[s].state # "absent"
          /\ Is(s, "running", "active") /\ Settled(s) /\ Goto(p, "thaw")
    /\ Tool(p) /\ UNCHANGED <<marker, remap, faults, unmapped>>
resume_utm(p) ==
    LET s == job[p].slot IN
    /\ backend = "utm" /\ job[p].at = "resume"
    /\ \/ ~Running(s) /\ ~Paused(s) /\ Ends(p) /\ UNCHANGED vm
       \/ Running(s) /\ Goto(p, "thaw") /\ UNCHANGED vm
       \/ Paused(s) /\ Is(s, "running", vm[s].guest) /\ Goto(p, "thaw")
    /\ Tool(p) /\ UNCHANGED <<marker, remap, faults, doubts>>
(* The agent is told, whatever comes of it. *)
Thaws(s) ==
    \/ vm[s].state = "running" /\ Is(s, "running", "active") /\ Settled(s)
    \/ UNCHANGED vm /\ doubtful' = doubtful \cup {s}
thaw(p) ==
    /\ job[p].at = "thaw" /\ Thaws(job[p].slot)
    /\ IF backend = "wsl" THEN Goto(p, "unmark") ELSE Done(p)
    /\ Tool(p) /\ UNCHANGED <<marker, remap, faults, unmapped>>
clear_paused_marker(p) ==
    /\ job[p].at = "unmark" /\ Goto(p, "remap")
    /\ marker' = marker \ {job[p].slot}
    /\ Tool(p) /\ UNCHANGED <<vm, remap, faults, doubts>>
(* Mutant of Mapped: a proxy that is there is left to be. *)
MappedOnce(s) == IF remap[s] = "none" THEN "live" ELSE remap[s]
(* The proxies of earlier boots are deleted before the new ones are added. *)
Mapped(s) == "live"
(* The distro's address is asked of the distro, which starts it; a failure   *)
(* of netsh's is a warning.  The bare VM keeps the default ports.            *)
apply_port_remap(p) ==
    LET s == job[p].slot IN
    /\ job[p].at = "remap" /\ Done(p)
    /\ IF s = Bare \/ vm[s].state = "absent" THEN UNCHANGED <<vm, remap, faults, doubts>>
       ELSE /\ IF vm[s].state = "running" THEN UNCHANGED <<vm, doubtful>>
               ELSE Is(s, "running", "active") /\ Settled(s)
            /\ \/ remap' = [remap EXCEPT ![s] = Mapped(s)] /\ unmapped' = unmapped \ {s}
                  /\ UNCHANGED faults
               \/ remap' = [remap EXCEPT ![s] = "none"] /\ unmapped' = unmapped \cup {s} /\ Fault
    /\ Tool(p) /\ UNCHANGED marker

Unmaps(s) == remap' = [remap EXCEPT ![s] = "none"]
HasStopped(s) == Is(s, "stopped", "active") /\ Settled(s)
Forwarded(s) == remap' = [remap EXCEPT ![s] = IF @ = "live" THEN "stale" ELSE @]
(* Where a stop goes on: delete ignores what it has come to. *)
AfterStop(p) == IF job[p].op = "delete" THEN Goto(p, "unregister") ELSE Done(p)
StopsAt(p) == job[p].at \in {"stop", "delete"}
stop_qemu(p) ==
    /\ backend = "qemu" /\ StopsAt(p) /\ AfterStop(p)
    /\ Tool(p) /\ UNCHANGED <<hosts, faults, doubts>>
stop_wsl(p) ==
    LET s == job[p].slot IN
    /\ backend = "wsl" /\ StopsAt(p)
    /\ Unmaps(s) /\ marker' = marker \ {s}
    /\ IF Running(s)
       THEN Goto(p, IF job[p].op = "delete" THEN "terminate_delete" ELSE "terminate")
       ELSE AfterStop(p)
    /\ Tool(p) /\ UNCHANGED <<vm, faults, doubts>>
stop_utm(p) ==
    LET s == job[p].slot IN
    /\ backend = "utm" /\ StopsAt(p)
    /\ IF vm[s].state \in {"running", "paused"}
       THEN \/ Is(s, "stopping", vm[s].guest) /\ UNCHANGED doubtful
            \/ HasStopped(s)
       ELSE UNCHANGED <<vm, doubtful>>
    /\ AfterStop(p)
    /\ Tool(p) /\ UNCHANGED <<marker, remap, faults, unmapped>>
terminate(p) ==
    LET s == job[p].slot IN
    /\ job[p].at \in {"terminate", "terminate_delete"} /\ vm[s].state # "absent"
    /\ HasStopped(s) /\ Forwarded(s) /\ AfterStop(p)
    /\ Tool(p) /\ UNCHANGED <<marker, faults, unmapped>>

pause_with(p) ==
    LET s == job[p].slot IN
    /\ At(p, "pause", "pause")
    /\ \/ Paused(s) /\ ~Running(s) /\ Done(p) /\ UNCHANGED vm
       \/ ~Paused(s) /\ ~Running(s) /\ Ends(p) /\ UNCHANGED vm
       \/ /\ Running(s) /\ Goto(p, IF backend = "wsl" THEN "unmap" ELSE "suspend")
          /\ \/ vm[s].state = "running" /\ Is(s, "running", "quiesced")
             \/ UNCHANGED vm        \* an image without deputyd
    /\ Tool(p) /\ UNCHANGED <<marker, remap, faults, doubts>>
clear_port_remap(p) ==
    /\ job[p].at = "unmap" /\ Goto(p, "suspend")
    /\ Unmaps(job[p].slot)
    /\ Tool(p) /\ UNCHANGED <<vm, marker, faults, doubts>>
(* WSL has no suspend: the distro is terminated and marked. *)
suspend_wsl(p) ==
    LET s == job[p].slot IN
    /\ backend = "wsl" /\ job[p].at = "suspend" /\ vm[s].state \in {"running", "stopped"}
    /\ HasStopped(s) /\ Forwarded(s) /\ Goto(p, "mark")
    /\ Tool(p) /\ UNCHANGED <<marker, faults, unmapped>>
suspend_utm(p) ==
    LET s == job[p].slot IN
    /\ backend = "utm" /\ job[p].at = "suspend" /\ vm[s].state = "running"
    /\ Is(s, "paused", vm[s].guest) /\ Done(p)
    /\ Tool(p) /\ UNCHANGED <<marker, remap, faults, doubts>>
(* Mutant of suspend_fails: the guest is left as it was prepared. *)
suspend_failsQuiesced(p) ==
    /\ job[p].at = "suspend" /\ Fault /\ Ends(p)
    /\ unmapped' = unmapped \cup {job[p].slot}
    /\ Tool(p) /\ UNCHANGED <<hosts, doubtful>>
(* The agent is told to go on; the port proxy is not set again. *)
suspend_fails(p) ==
    /\ job[p].at = "suspend" /\ Fault /\ Ends(p)
    /\ Thaws(job[p].slot) /\ unmapped' = unmapped \cup {job[p].slot}
    /\ Tool(p) /\ UNCHANGED <<marker, remap>>
set_paused_marker(p) ==
    /\ job[p].at = "mark" /\ Done(p)
    /\ marker' = marker \cup {job[p].slot}
    /\ Tool(p) /\ UNCHANGED <<vm, remap, faults, doubts>>

-----------------------------------------------------------------------------
(* What goes wrong. *)

(* A `?` of the step at hand, or a kill of the process before it. *)
Breaks(p) ==
    LET j == job[p] IN
    /\ j # Idle /\ Fault /\ Ends(p)
    /\ spoiled' = IF j.op = "install" /\ j.at \in {"fetching", "verify", "import", "record"}
                  THEN spoiled \cup {j.slot} ELSE spoiled
    /\ doubtful' = IF j.at \in {"unmap", "suspend", "thaw"} THEN doubtful \cup {j.slot}
                   ELSE doubtful
    /\ unmapped' = IF j.at \in {"suspend", "terminate", "terminate_delete", "thaw", "unmark", "remap"}
                   THEN unmapped \cup {j.slot} ELSE unmapped
    /\ UNCHANGED <<backend, server, disk, registry, hosts, ops, chosen, known, clashed, overlapped>>

(* A guest shuts down: it was asked to, or does so by itself. *)
GuestStops(s) ==
    /\ \/ vm[s].state = "stopping" /\ UNCHANGED faults
       \/ vm[s].state = "running" /\ Fault
    /\ HasStopped(s) /\ Forwarded(s)
    /\ KeepsHistory /\ UNCHANGED <<backend, server, disk, registry, marker, job, ops, unmapped>>

Command(p) ==
    /\ job[p] = Idle /\ ops < MaxOps
    /\ \/ cmd_install(p) \/ create(p) \/ configure_resources(p) \/ delete(p)
       \/ \E op \in {"start", "stop", "pause", "resume"} : Operates(p, op)
Step(p) ==
    /\ job[p] # Idle
    /\ \/ fetch_and_verify(p) \/ fetch_to(p) \/ Fetched(p) \/ verify(p) \/ remove_cached(p)
       \/ rename_staging(p) \/ truncate_record(p) \/ write_installed_record(p)
       \/ replace_binary(p) \/ move_aside(p) \/ remove_cache(p) \/ remove_data(p)
       \/ import_qemu(p) \/ import_vm(p) \/ create_save(p) \/ set_status(p) \/ save_status(p)
       \/ unregister(p) \/ remove_dirs(p) \/ start_wsl(p) \/ start_utm(p) \/ resume_wsl(p)
       \/ resume_utm(p) \/ thaw(p) \/ clear_paused_marker(p) \/ apply_port_remap(p)
       \/ stop_qemu(p) \/ stop_wsl(p) \/ stop_utm(p) \/ terminate(p) \/ pause_with(p)
       \/ clear_port_remap(p) \/ suspend_wsl(p) \/ suspend_utm(p) \/ suspend_fails(p)
       \/ set_paused_marker(p)
Next ==
    \/ Publish \/ cmd_update \/ cmd_selfupdate \/ cmd_uninstall
    \/ \E p \in Processes : Command(p) \/ Step(p) \/ Breaks(p)
    \/ \E s \in Slots : GuestStops(s)
Spec == Init /\ [][Next]_vars

-----------------------------------------------------------------------------
(* Properties. *)

Busy(s) == \E p \in Processes : job[p] # Idle /\ job[p].slot = s

(* When update would answer "up to date", the image that start boots is all  *)
(* of the release and the profile that the record names: an update that is   *)
(* cut short at any step leaves a record that does not say so, and one that   *)
(* is not keeps to the profile that was installed.  An install writes in place and *)
(* an uninstall leaves the record: an image that one of them has spoiled, or  *)
(* two downloads to one path, are the exceptions.                             *)
UpToDateIsTrue ==
    (record # None /\ Bare \notin spoiled /\ ~clashed /\ ~Busy(Bare)) =>
        /\ record.profile = chosen
        /\ record.rel = latest => files[Bare] = Whole(latest, chosen)

(* No update puts an image or a launcher in place that is not all there:      *)
(* one that is not was left by an install into that place, or by two          *)
(* processes that downloaded to one path; and there is always a launcher,     *)
(* but between the two renames on Windows.                                    *)
NeverHalfAnUpdate ==
    ~clashed =>
        /\ exe # None => exe.whole
        /\ exe = None => backend = "wsl"
        /\ (files[Bare] # None /\ ~files[Bare].whole) =>
              \/ Bare \in spoiled
              \/ \E p \in Processes : job[p].op = "install" /\ job[p].slot = Bare

(* The registry has just the instances that were created and not deleted: a   *)
(* command of seconds does not undo what another process does meanwhile; only *)
(* one whose reading and saving the other's save falls between does.          *)
RegistryKeeps == registry = known \/ overlapped

(* A VM of WSL or UTM that runs between operations has an active workload,    *)
(* unless a call to its agent has failed (docs/17: quiesce, then suspend;     *)
(* start and resume alike thaw).                                              *)
GuestFollowsTool ==
    \A s \in Slots :
        (vm[s].state = "running" /\ s \notin doubtful /\ ~Busy(s)) => vm[s].guest = "active"

(* An instance on WSL that runs is reached at the port that the console shows *)
(* for it, unless netsh or a pause of it has failed since it was started.     *)
ReachableWhereSaid ==
    backend = "wsl" =>
        \A i \in Ids :
            (vm[i].state = "running" /\ i \notin unmapped /\ ~Busy(i)) => remap[i] = "live"

LauncherSymmetry == Permutations(Ids) \cup Permutations(Profiles)
=============================================================================
