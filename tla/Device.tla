------------------------------- MODULE Device -------------------------------
(***************************************************************************)
(* The owner's commands on the device: `deputyctl` typed in a shell, run by*)
(* the status page or by a timer, each a process that goes through its     *)
(* reads, writes and systemctl calls one at a time, with nothing that keeps*)
(* two of them apart.  The configuration files are ConfigFiles'; here are  *)
(* the commands' steps, the profile units, the cost guard, the factory     *)
(* reset, and beside them the message relay.                               *)
(*                                                                         *)
(* Bounds: MaxOps commands, MaxFaults failures (a read, write or systemctl *)
(* that fails, a process killed between two steps, a power cut, a relay    *)
(* that dies).                                                             *)
(* Menus are the families of commands given together: families of one menu *)
(* share files and units, those of different menus share nothing.          *)
(***************************************************************************)
EXTENDS ConfigFiles, MessageRelay

CONSTANTS Procs, Menus, MaxOps, MaxFaults, MaxSpend

VARIABLES
  disk, temp,   \* per file: what is at its path, and at its temporary path
  op,           \* per process: the command it runs and where it is
  fd,           \* per process: where the file it has open for writing is now
  running,      \* profile units systemd runs
  data,         \* profiles with conversations and skills on the disk
  sshKeys,      \* authorized_keys of the owner's account
  wizardState,  \* wizard-state.json, which keeps the wizard from running again
  marker,       \* cost-tripped
  spend,        \* today's cost in the ledger
  models,       \* per local model: its file, port file and unit
  live,         \* the ruleset in the kernel and the mounts that are mounted
  menu, ops, faults,
  \* history
  allowed,      \* per setting: the values it may have, from what was reported
  spoiled,      \* files two commands were in at once, or read as blank by one
  strayed,      \* a unit was not stopped when told to
  unsaved,      \* a reset of the whole home was cut off with the keys deleted
  cleared,      \* a factory reset ended and nothing has begun since
  revived,      \* units that a boot has started beside the active profile's
  paused        \* units the cost guard has stopped since the last cost reset

fileVars == <<disk, temp, fd>>
unitVars == <<running, revived, data, sshKeys, wizardState, marker, models, live>>
ghostVars == <<allowed, spoiled, strayed, unsaved, cleared, paused>>
vars == <<fileVars, unitVars, ghostVars, relayVars, op, spend, menu, ops, faults>>

Idle == [do |-> "none", arg |-> None, pc |-> "idle", file |-> "none",
         copy |-> None, mem |-> None]

(* What `deputyctl` takes, by family.  unlock and lock are modes.          *)
CostCommands ==
  ({"cost set"} \X {"low", "high", "warn"}) \union ({"quiet-hours set"} \X {"on", "off"})
  \union ({"cost check", "cost reset"} \X {None})

ModelCommands ==
  ({"model set"} \X Providers) \union ({"model register"} \X Models)
  \union ({"voice wake"} \X {"word"})

ProfileCommands ==
  ({"profile switch"} \X Profiles) \union ({"up", "down", "factory-reset"} \X {None})

cmd_mounts ==
  ({"mounts add", "mounts net-add", "mounts remove"} \X MountIds)
  \union {<<"mounts apply", None>>}

cmd_network ==
  ({"network mode"} \X {"open", "whitelist", "airgap"})
  \union ({"network allow"} \X {"host", None}) \union {<<"network apply", None>>}

(* What the status page runs for its buttons: the same commands, beside the*)
(* shell's, and none of them followed by an apply.                         *)
post_keys_rotate == {"model set"} \X Providers
PageCommands == post_keys_rotate \union ({"mounts remove"} \X MountIds)

(* The wizard's page of mounts changes the policy itself, on threads of its*)
(* own process.                                                            *)
WizardCommands == {"mounts add", "mounts net-add", "mounts remove"} \X MountIds

PageCostCommands == {<<"cost set", "high">>, <<"cost reset", None>>}

(* And what a timer runs.                                                  *)
TimerCommands == {<<"reconcile", None>>}

Commands ==
  CostCommands \union ModelCommands \union ProfileCommands \union cmd_mounts
  \union cmd_network \union PageCommands \union WizardCommands
  \union PageCostCommands \union TimerCommands

(* The file a command starts with, and all the files it looks at.          *)
FirstFile(do) ==
  CASE do \in {"cost set", "quiet-hours set", "cost check"} -> "cost"
    [] do \in {"model set", "factory-reset"}                -> "secrets"
    [] do \in {"mounts add", "mounts net-add", "mounts remove", "mounts apply"} -> "mounts"
    [] do \in {"network mode", "network allow", "network apply"} -> "network"
    [] do = "model register"                                -> "catalog"
    [] do = "voice wake"                                    -> "voice"
    [] do = "cost reset"                                    -> "marker"
    [] OTHER                                                -> "active"

Touches(do) ==
  {FirstFile(do)} \union
  (CASE do = "model set"     -> {"provider"}
     [] do = "network apply" -> {"nft"}
     [] do = "factory-reset" -> {"active", "provider"}
     [] do = "cost check"    -> {"active", "marker"}
     [] OTHER                -> {})

Busy == UNION {Touches(op[p].do) : p \in {q \in Procs : op[q].pc # "idle"}}

FirstStep(do) ==
  CASE do = "cost check" -> "evaluate" [] do = "cost reset" -> "clear"
    [] do = "profile switch" -> "current" [] do = "factory-reset" -> "plan"
    [] do \in {"up", "down"} -> "unit" [] do = "reconcile" -> "components"
    [] do = "mounts apply" -> "restart"
    [] do = "model register" -> "copy" [] OTHER -> "read"

-----------------------------------------------------------------------------
(* Settings as one sees them: a file's through its reader, and what is live*)
(* in the kernel.                                                          *)

Defaults == [cost |-> DefaultCost, secrets |-> NoKeys, provider |-> [id |-> None],
             mounts |-> NoMounts, network |-> OpenPolicy, catalog |-> NoModels,
             voice |-> DefaultVoice, active |-> [id |-> None],
             nft |-> generate_nftables_ruleset(OpenPolicy, TRUE)]

Settings == UNION {{<<f, k>> : k \in DOMAIN Defaults[f]} : f \in Files \ {"nft"}}

(* The values a command that reports success has promised.  `voice wake`   *)
(* leaves no sections: RelayHearsTheWord is about what that does.          *)
Promise(do, arg) ==
  CASE do = "cost set" -> {<<"cost", IF arg = "warn" THEN "trip" ELSE "cap", arg>>}
    [] do = "quiet-hours set" -> {<<"cost", "quiet", arg>>}
    [] do = "model set" -> {<<"secrets", arg, "new">>, <<"provider", "id", arg>>}
    [] do = "mounts add" -> {<<"mounts", <<"host", arg>>, "ro">>}
    [] do = "mounts net-add" -> {<<"mounts", <<"net", arg>>, "ro">>}
    [] do = "mounts remove" -> {<<"mounts", <<k, arg>>, None>> : k \in {"host", "net"}}
    [] do = "network mode" ->
         {<<"network", "mode", arg>>} \union
         (IF arg = "whitelist" THEN {<<"network", "hosts", h>> : h \in {"seed", "host"}}
          ELSE {})
    [] do = "network allow" -> {<<"network", "hosts", arg>>}
    [] do = "model register" -> {<<"catalog", arg, n>> : n \in 1 .. Cardinality(Models)}
    [] do = "voice wake" -> {<<"voice", "wake", arg>>, <<"voice", "sections", None>>}
    [] do = "profile switch" -> {<<"active", "id", arg>>}
    [] do = "factory-reset" -> {<<"secrets", i, None>> : i \in Providers}
                               \union {<<"active", "id", None>>}
    [] OTHER -> {}

(* A setting that a success promises has that value; after a failure it may*)
(* also have kept the one it had.                                          *)
Values(s, do, arg) == {x[3] : x \in {y \in Promise(do, arg) : s = <<y[1], y[2]>>}}

Promised(o, success) ==
  [s \in Settings |->
     LET new == Values(s, o.do, o.arg)
     IN IF new = {} THEN allowed[s]
        ELSE IF success THEN new ELSE allowed[s] \union new]

-----------------------------------------------------------------------------
(* The way a command goes on and ends.                                     *)

Goto(p, step) == op' = [op EXCEPT ![p].pc = step]

End(p, success) ==
  /\ op' = [op EXCEPT ![p] = Idle]
  /\ fd' = [fd EXCEPT ![p] = "none"]
  /\ allowed' = Promised(op[p], success)

Fault == faults < MaxFaults /\ faults' = faults + 1

At(p, step) == op[p].pc = step /\ UNCHANGED <<menu, ops, relayVars>>

Begin(p, c) ==
  /\ op[p].pc = "idle" /\ ops < MaxOps /\ c[1] \in menu
  /\ ops' = ops + 1
  /\ op' = [op EXCEPT ![p] = [Idle EXCEPT !.do = c[1], !.arg = c[2],
                               !.pc = FirstStep(c[1]), !.file = FirstFile(c[1])]]
  /\ spoiled' = spoiled \union (Touches(c[1]) \intersect Busy)
  /\ cleared' = None
  /\ UNCHANGED <<fileVars, unitVars, relayVars, spend, menu, faults, allowed, strayed,
                 unsaved, paused>>

-----------------------------------------------------------------------------
(* Read, change, write, rename.                                            *)

(* The command has its copy of the file and knows what to write, or refuses*)
(* and leaves everything as it is.                                         *)
TakeCopy(p, c) ==
  LET o == op[p] IN
  IF o.do = "network apply"
  THEN \E resolved \in BOOLEAN :
         op' = [op EXCEPT ![p].pc = "create", ![p].file = "nft",
                          ![p].copy = generate_nftables_ruleset(c, resolved)]
  ELSE LET new == Edit(o.do, o.arg, c) IN
       op' = [op EXCEPT ![p] = IF new = None THEN Idle
                               ELSE [o EXCEPT !.pc = "create", !.copy = new, !.mem = c]]

ReadFile(p) ==
  LET f == op[p].file  c == Reader(f, disk[f]) IN
  /\ At(p, "read")
  /\ \/ /\ IF c = Broken THEN op' = [op EXCEPT ![p] = Idle] ELSE TakeCopy(p, c)
        /\ UNCHANGED <<faults, spoiled>>
     \/ /\ Fault
        /\ IF f \in Lenient
           THEN TakeCopy(p, Defaults[f]) /\ spoiled' = spoiled \union {f}
           ELSE op' = [op EXCEPT ![p] = Idle] /\ UNCHANGED spoiled
  /\ UNCHANGED <<fileVars, unitVars, spend, allowed, strayed, unsaved, cleared, paused>>

(* fs::write begins by creating the file or truncating it.  voice.toml is  *)
(* written in place.                                                       *)
Create(p) ==
  LET f == op[p].file IN
  /\ At(p, "create")
  /\ \/ /\ IF f = "voice"
           THEN disk' = [disk EXCEPT ![f] = Empty] /\ UNCHANGED temp
           ELSE temp' = [temp EXCEPT ![f] = Empty] /\ UNCHANGED disk
        /\ fd' = [fd EXCEPT ![p] = IF f = "voice" THEN "disk" ELSE "temp"]
        /\ Goto(p, "fill")
        /\ UNCHANGED <<faults, allowed>>
     \/ Fault /\ End(p, FALSE) /\ UNCHANGED <<disk, temp>>
  /\ UNCHANGED <<unitVars, spend, spoiled, strayed, unsaved, cleared, paused>>

(* Over an empty file the copy is what the file then holds; over the copy  *)
(* of another command it may leave the end of that one.                    *)
Over(old, copy) == IF old = Empty THEN {copy} ELSE {copy, Broken}

Fill(p) ==
  LET o == op[p]  f == o.file IN
  /\ At(p, "fill")
  /\ \/ /\ \/ /\ fd[p] = "temp" /\ UNCHANGED disk
              /\ \E r \in Over(temp[f], o.copy) : temp' = [temp EXCEPT ![f] = r]
           \/ /\ fd[p] = "disk" /\ UNCHANGED temp
              /\ \E r \in Over(disk[f], o.copy) : disk' = [disk EXCEPT ![f] = r]
           \/ fd[p] = "gone" /\ UNCHANGED <<disk, temp>>
        /\ IF f = "voice" THEN End(p, TRUE)
           ELSE /\ Goto(p, "rename") /\ fd' = [fd EXCEPT ![p] = "none"]
                /\ UNCHANGED allowed
        /\ UNCHANGED <<faults, spoiled>>
     \/ /\ Fault /\ End(p, FALSE) /\ UNCHANGED <<disk, temp>>
        /\ spoiled' = spoiled \union ({"voice"} \intersect {f})
  /\ UNCHANGED <<unitVars, spend, strayed, unsaved, cleared, paused>>

(* The pointer's new content, and the provider's, which follows its key.   *)
swap_active_profile(o) == [o EXCEPT !.pc = "create", !.copy = [id |-> o.arg]]
write_active_provider(o) ==
  [o EXCEPT !.pc = "create", !.file = "provider", !.copy = [id |-> o.arg]]

(* What a command does once the file is in place.                          *)
AfterRename(o) ==
  CASE o.do = "model set" /\ o.file = "secrets" -> write_active_provider(o)
    [] o.do = "model register" -> [o EXCEPT !.pc = "env"]
    [] o.do = "profile switch" -> [o EXCEPT !.pc = "start"]
    [] o.do = "network apply"  -> [o EXCEPT !.pc = "nft"]
    [] OTHER                   -> Idle

(* The open files of the others go where the names go.                     *)
Moved(f, where) ==
  [q \in Procs |->
     IF op[q].file # f THEN fd[q]
     ELSE CASE fd[q] = "temp" /\ where = "renamed" -> "disk"
            [] fd[q] = "disk"                      -> "gone"
            [] OTHER                               -> fd[q]]

Rename(p) ==
  LET o == op[p]  f == o.file IN
  /\ At(p, "rename")
  /\ \/ /\ temp[f] # Missing
        /\ disk' = [disk EXCEPT ![f] = temp[f]]
        /\ temp' = [temp EXCEPT ![f] = Missing]
        /\ fd' = Moved(f, "renamed")
        /\ op' = [op EXCEPT ![p] = AfterRename(o)]
        /\ allowed' = IF AfterRename(o) = Idle THEN Promised(o, TRUE) ELSE allowed
        /\ UNCHANGED faults
     \/ /\ temp[f] = Missing /\ End(p, FALSE) /\ UNCHANGED <<disk, temp, faults>>
     \/ /\ Fault /\ End(p, FALSE) /\ UNCHANGED <<disk, temp>>
  /\ UNCHANGED <<unitVars, spend, spoiled, strayed, unsaved, cleared, paused>>

-----------------------------------------------------------------------------
(* Local models, the ruleset and the mounts: what follows the file.        *)

(* The model file is copied unless one of that name is there.              *)
CopyModel(p) ==
  LET m == op[p].arg IN
  /\ op[p].do = "model register"
  /\ \/ /\ At(p, "copy")
        /\ IF models[m].file = "absent"
           THEN models' = [models EXCEPT ![m].file = "partial"] /\ Goto(p, "copying")
           ELSE Goto(p, "read") /\ UNCHANGED models
     \/ /\ At(p, "copying")
        /\ models' = [models EXCEPT ![m].file = "whole"] /\ Goto(p, "read")
  /\ UNCHANGED <<fileVars, running, revived, data, sshKeys, wizardState, marker, live, spend,
                 faults, ghostVars>>

(* The port file, best effort, then the unit if the entry is new.          *)
register_gguf(p) ==
  LET o == op[p]  m == o.arg IN
  /\ \/ /\ At(p, "env") /\ Goto(p, "enable")
        /\ \/ models' = [models EXCEPT ![m].port = o.copy[m]] /\ UNCHANGED faults
           \/ Fault /\ UNCHANGED models
        /\ UNCHANGED <<allowed, fd>>
     \/ /\ At(p, "enable") /\ End(p, TRUE)
        /\ \/ o.mem[m] = 0 /\ models' = [models EXCEPT ![m].up = TRUE] /\ UNCHANGED faults
           \/ o.mem[m] # 0 /\ UNCHANGED <<models, faults>>
           \/ o.mem[m] = 0 /\ Fault /\ UNCHANGED models
  /\ UNCHANGED <<disk, temp, running, revived, data, sshKeys, wizardState, marker, live, spend,
                 spoiled, strayed, unsaved, cleared, paused>>

(* nft -f takes what is in the file now.                                   *)
apply_ruleset(p) ==
  /\ At(p, "nft")
  /\ \/ /\ disk["nft"] # Broken /\ End(p, TRUE) /\ UNCHANGED faults
        /\ live' = IF disk["nft"] = Empty THEN live ELSE [live EXCEPT !.rules = disk["nft"]]
     \/ disk["nft"] = Broken /\ End(p, FALSE) /\ UNCHANGED <<live, faults>>
     \/ Fault /\ End(p, FALSE) /\ UNCHANGED live
  /\ UNCHANGED <<disk, temp, running, revived, data, sshKeys, wizardState, marker, models, spend,
                 spoiled, strayed, unsaved, cleared, paused>>

(* The service is restarted and reads the policy; whether it could is only *)
(* a warning.                                                              *)
apply_mounts(p) ==
  LET c == mounts_read(disk["mounts"]) IN
  /\ At(p, "restart") /\ End(p, c # Broken)
  /\ \/ c # Broken /\ live' = [live EXCEPT !.mounts = c] /\ UNCHANGED faults
     \/ c = Broken /\ UNCHANGED <<live, faults>>
     \/ Fault /\ UNCHANGED live
  /\ UNCHANGED <<disk, temp, running, revived, data, sshKeys, wizardState, marker, models, spend,
                 spoiled, strayed, unsaved, cleared, paused>>

-----------------------------------------------------------------------------
(* The profile units.  systemctl's own failures are warnings everywhere.   *)

ActiveProfile == read_active_profile_id(disk["active"])

StopUnit(u) ==
  \/ running' = running \ {u} /\ revived' = revived \ {u} /\ UNCHANGED <<faults, strayed>>
  \/ u # None /\ Fault /\ UNCHANGED <<running, revived>> /\ strayed' = TRUE

StartUnit(u) ==
  /\ UNCHANGED revived
  /\ \/ running' = running \union {u} /\ paused' = paused \ {u} /\ UNCHANGED faults
     \/ Fault /\ UNCHANGED <<running, paused>>

(* The unit the image was baked with is enabled; no command disables it or *)
(* enables another.                                                        *)
Enabled == CHOOSE i \in Profiles : TRUE

otherUnitVars == <<data, sshKeys, wizardState, models, live>>

(* Mutant of profile_switch: the old unit is stopped after the pointer has *)
(* been replaced.                                                          *)
profile_switchStopsLast(p) ==
  LET o == op[p] IN
  /\ o.do = "profile switch" /\ UNCHANGED <<strayed, paused>>
  /\ \/ /\ At(p, "current")
        /\ op' = [op EXCEPT ![p] =
             IF ActiveProfile = o.arg THEN Idle
             ELSE [o EXCEPT !.pc = "create", !.copy = [id |-> o.arg], !.mem = ActiveProfile]]
        /\ UNCHANGED <<running, revived, faults, fd, allowed>>
     \/ /\ At(p, "start") /\ running' = (running \ {o.mem}) \union {o.arg}
        /\ revived' = revived \ {o.mem}
        /\ End(p, TRUE) /\ UNCHANGED faults
  /\ UNCHANGED <<disk, temp, otherUnitVars, marker, spend, spoiled, unsaved, cleared>>

(* profile switch: the current profile is read once, stopped, the pointer  *)
(* replaced, the new one started.                                          *)
profile_switch(p) ==
  LET o == op[p] IN
  /\ o.do = "profile switch"
  /\ \/ /\ At(p, "current")
        /\ \E cur \in {ActiveProfile, None} :
             /\ IF cur = ActiveProfile THEN UNCHANGED <<faults, strayed>>
                ELSE Fault /\ strayed' = TRUE
             /\ op' = [op EXCEPT ![p] = IF cur = o.arg THEN Idle
                                        ELSE [o EXCEPT !.pc = "stop", !.mem = cur]]
        /\ UNCHANGED <<running, revived, paused, fd, allowed>>
     \/ /\ At(p, "stop") /\ StopUnit(o.mem)
        /\ op' = [op EXCEPT ![p] = swap_active_profile(o)]
        /\ UNCHANGED <<paused, fd, allowed>>
     \/ At(p, "start") /\ StartUnit(o.arg) /\ End(p, TRUE) /\ UNCHANGED strayed
  /\ UNCHANGED <<disk, temp, otherUnitVars, marker, spend, spoiled, unsaved, cleared>>

(* up and down: the verb goes to the unit of the profile active then.      *)
cmd_lifecycle(p) ==
  LET o == op[p] IN
  /\ o.do \in {"up", "down"}
  /\ \/ /\ At(p, "unit")
        /\ op' = [op EXCEPT ![p] = IF ActiveProfile = None THEN Idle
                                   ELSE [o EXCEPT !.pc = o.do, !.mem = ActiveProfile]]
        /\ UNCHANGED <<running, revived, paused, faults, strayed, fd, allowed>>
     \/ At(p, "up") /\ StartUnit(o.mem) /\ End(p, TRUE) /\ UNCHANGED strayed
     \/ At(p, "down") /\ StopUnit(o.mem) /\ End(p, TRUE) /\ UNCHANGED paused
  /\ UNCHANGED <<disk, temp, otherUnitVars, marker, spend, spoiled, unsaved, cleared>>

(* reconcile: the profile's unit is probed and started when it is down; a  *)
(* first strike only counts.                                               *)
reconcile(p) ==
  LET o == op[p] IN
  /\ o.do = "reconcile"
  /\ \/ /\ At(p, "components")
        /\ op' = [op EXCEPT ![p] = IF ActiveProfile = None THEN Idle
                                   ELSE [o EXCEPT !.pc = "probe", !.mem = ActiveProfile]]
        /\ UNCHANGED <<running, revived, paused, faults, fd, allowed>>
     \/ /\ At(p, "probe") /\ End(p, TRUE)
        /\ \/ o.mem \notin running /\ StartUnit(o.mem)
           \/ UNCHANGED <<running, revived, paused, faults>>
  /\ UNCHANGED <<disk, temp, otherUnitVars, marker, spend, spoiled, strayed, unsaved,
                 cleared>>

-----------------------------------------------------------------------------
(* Factory reset.  The plan holds the data directory: the active profile's,*)
(* or without one the whole home, with authorized_keys inside.             *)

(* The entries go one after the other; one that cannot be removed ends the *)
(* command, the entries before it gone and the stash with it.              *)
wipe_data_dir(p) ==
  LET whole == op[p].mem = None
      doomed == IF whole THEN Profiles ELSE {op[p].mem}
  IN \/ /\ data' = data \ doomed /\ sshKeys' = (sshKeys /\ ~whole)
        /\ Goto(p, IF whole THEN "restore" ELSE "truncate")
        /\ UNCHANGED <<faults, fd, allowed, unsaved>>
     \/ /\ Fault /\ End(p, FALSE)
        /\ \E gone \in SUBSET doomed : data' = data \ gone
        /\ sshKeys' \in {sshKeys, sshKeys /\ ~whole}
        /\ unsaved' = (unsaved \/ sshKeys' # sshKeys)

(* Mutant of restore_preserved: a file that cannot be written back is let go. *)
restore_attempted(p) ==
  /\ Goto(p, "truncate") /\ UNCHANGED <<fd, allowed, unsaved>>
  /\ \/ sshKeys' = (sshKeys \/ op[p].copy) /\ UNCHANGED faults
     \/ Fault /\ UNCHANGED sshKeys

restore_preserved(p) ==
  \/ /\ sshKeys' = (sshKeys \/ op[p].copy) /\ Goto(p, "truncate")
     /\ UNCHANGED <<faults, fd, allowed, unsaved>>
  \/ Fault /\ End(p, FALSE) /\ unsaved' = TRUE /\ UNCHANGED sshKeys

(* The keys' file keeps its place and mode and loses its content.          *)
truncate_preserving_mode(f) == disk' = [disk EXCEPT ![f] = IF @ = Missing THEN Missing ELSE Empty]

factory_reset(p) ==
  LET o == op[p] IN
  /\ o.do = "factory-reset" /\ UNCHANGED <<temp, spend, spoiled, marker, models, live, paused>>
  /\ \/ /\ At(p, "plan")
        /\ op' = [op EXCEPT ![p].pc = "stop", ![p].mem = ActiveProfile]
        /\ UNCHANGED <<disk, fd, running, revived, data, sshKeys, wizardState, faults, allowed,
                       strayed, unsaved, cleared>>
     \/ /\ At(p, "stop") /\ StopUnit(ActiveProfile)
        /\ Goto(p, IF o.mem = None THEN "stash" ELSE "wipe")
        /\ UNCHANGED <<disk, fd, data, sshKeys, wizardState, allowed, unsaved, cleared>>
     \/ /\ At(p, "stash")
        /\ op' = [op EXCEPT ![p].pc = "wipe", ![p].copy = sshKeys]
        /\ UNCHANGED <<disk, fd, running, revived, data, sshKeys, wizardState, faults, allowed,
                       strayed, unsaved, cleared>>
     \/ /\ At(p, "wipe") /\ wipe_data_dir(p)
        /\ UNCHANGED <<disk, running, revived, wizardState, strayed, cleared>>
     \/ /\ At(p, "restore") /\ restore_preserved(p)
        /\ UNCHANGED <<disk, running, revived, data, wizardState, strayed, cleared>>
     \/ /\ At(p, "truncate")
        /\ \/ /\ truncate_preserving_mode("secrets")
              /\ Goto(p, "pointer") /\ UNCHANGED <<fd, faults, allowed>>
           \/ Fault /\ End(p, FALSE) /\ UNCHANGED disk
        /\ UNCHANGED <<running, revived, data, sshKeys, wizardState, strayed, unsaved, cleared>>
     \/ /\ At(p, "pointer")
        /\ \/ /\ disk' = [disk EXCEPT !["active"] = Missing] /\ fd' = Moved("active", "removed")
              /\ Goto(p, "wizard") /\ UNCHANGED <<faults, allowed>>
           \/ Fault /\ End(p, FALSE) /\ UNCHANGED disk
        /\ UNCHANGED <<running, revived, data, sshKeys, wizardState, strayed, unsaved, cleared>>
     \/ /\ At(p, "wizard")
        /\ \/ /\ wizardState' = FALSE /\ End(p, TRUE) /\ UNCHANGED faults
              /\ cleared' = IF \E q \in Procs \ {p} : op[q].pc # "idle" THEN None
                            ELSE IF o.mem = None THEN Profiles ELSE {o.mem}
           \/ Fault /\ End(p, FALSE) /\ UNCHANGED <<wizardState, cleared>>
        /\ UNCHANGED <<disk, running, revived, data, sshKeys, strayed, unsaved>>

-----------------------------------------------------------------------------
(* The cost guard.                                                         *)

Spend ==
  /\ "cost check" \in menu /\ running # {} /\ spend < MaxSpend /\ spend' = spend + 1
  /\ UNCHANGED <<fileVars, unitVars, ghostVars, relayVars, op, menu, ops, faults>>

(* sum_today starts again at midnight UTC.                                 *)
Midnight ==
  /\ spend > 0 /\ spend' = 0
  /\ UNCHANGED <<fileVars, unitVars, ghostVars, relayVars, op, menu, ops, faults>>

CapOf(cap) == IF cap = "low" THEN 1 ELSE MaxSpend

(* A cap of zero is none; the daily cap stands for both.                   *)
classify(current, cap) ==
  IF cap > 0 /\ current >= cap THEN "tripped" ELSE "ok"

(* Mutant of write_tripped_marker: failing, it only warns.                 *)
write_tripped_markerWarns(p) ==
  /\ Goto(p, "load")
  /\ \/ marker' = TRUE /\ UNCHANGED faults
     \/ Fault /\ UNCHANGED marker

write_tripped_marker(p) ==
  \/ marker' = TRUE /\ Goto(p, "load") /\ UNCHANGED faults
  \/ Fault /\ op' = [op EXCEPT ![p] = Idle] /\ UNCHANGED marker

(* check_caps_and_maybe_pause: the hooks run first, then the marker is     *)
(* written, and only then the unit of the profile active by now is stopped.*)
(* A hook outside the reach of its five seconds holds all of it up.        *)
check_caps_and_maybe_pause(p) ==
  LET o == op[p]  cfg == load_config_from(disk["cost"]) IN
  /\ o.do = "cost check"
  /\ \/ /\ At(p, "evaluate")
        /\ LET trips == cfg # Broken /\ classify(spend, CapOf(cfg.cap)) = "tripped"
           IN op' = [op EXCEPT ![p] = IF trips THEN [o EXCEPT !.pc = "hooks", !.copy = cfg]
                                      ELSE Idle]
        /\ UNCHANGED <<running, revived, marker, faults, strayed, paused>>
     \/ /\ At(p, "hooks")
        /\ \/ Goto(p, "stuck")
           \/ op' = [op EXCEPT ![p] = IF o.copy.trip = "pause" THEN [o EXCEPT !.pc = "marker"]
                                      ELSE Idle]
        /\ UNCHANGED <<running, revived, marker, faults, strayed, paused>>
     \/ /\ At(p, "marker") /\ UNCHANGED <<running, revived, strayed, paused>>
        /\ write_tripped_marker(p)
     \/ /\ At(p, "load")
        /\ op' = [op EXCEPT ![p] = IF ActiveProfile = None THEN Idle
                                   ELSE [o EXCEPT !.pc = "pause", !.mem = ActiveProfile]]
        /\ UNCHANGED <<running, revived, marker, faults, strayed, paused>>
     \/ /\ At(p, "pause") /\ StopUnit(o.mem) /\ UNCHANGED marker
        /\ paused' = paused \union (running \ running')
        /\ op' = [op EXCEPT ![p] = Idle]
  /\ UNCHANGED <<fileVars, otherUnitVars, spend, allowed, spoiled, unsaved, cleared>>

clear_tripped_marker(p) ==
  /\ op[p].do = "cost reset" /\ At(p, "clear") /\ op' = [op EXCEPT ![p] = Idle]
  /\ \/ marker' = FALSE /\ paused' = {} /\ UNCHANGED faults
     \/ Fault /\ UNCHANGED <<marker, paused>>
  /\ UNCHANGED <<fileVars, running, revived, otherUnitVars, spend, allowed, spoiled, strayed,
                 unsaved, cleared>>

-----------------------------------------------------------------------------
(* A process is killed by its caller, wherever it is.                      *)
Kill(p) ==
  LET o == op[p] IN
  /\ o.pc # "idle" /\ Fault /\ End(p, FALSE)
  /\ unsaved' = (unsaved \/ o.pc = "restore")
  /\ spoiled' = spoiled \union {f \in {"voice"} : o.file = f /\ o.pc = "fill"}
  /\ UNCHANGED <<disk, temp, unitVars, relayVars, spend, menu, ops, strayed, cleared, paused>>

(* The power is cut, which ends every process and unit wherever it is, and *)
(* the device boots: systemd starts the enabled unit, whatever the pointer *)
(* says, the ruleset is loaded and the mounts are mounted from their files.*)
(* A write that returned has reached the disk.                             *)
PowerCut ==
  /\ "relay" \notin menu /\ Fault
  /\ op' = [p \in Procs |-> Idle] /\ fd' = [p \in Procs |-> "none"]
  /\ running' = {Enabled} /\ revived' = {Enabled} \ {ActiveProfile}
  /\ paused' = paused \ {Enabled} /\ cleared' = None
  /\ live' = [rules  |-> IF disk["nft"] \in Torn THEN Defaults.nft ELSE disk["nft"],
              mounts |-> IF disk["mounts"] \in Torn THEN NoMounts ELSE disk["mounts"]]
  /\ allowed' = [s \in Settings |->
                   allowed[s] \union UNION {Values(s, op[p].do, op[p].arg) : p \in Procs}]
  /\ unsaved' = (unsaved \/ \E p \in Procs : op[p].pc = "restore")
  /\ spoiled' = spoiled \union
       {f \in {"voice"} : \E p \in Procs : op[p].file = f /\ op[p].pc = "fill"}
  /\ UNCHANGED <<disk, temp, data, sshKeys, wizardState, marker, models, relayVars, spend,
                 menu, ops, strayed>>

Relay ==
  /\ "relay" \in menu
  /\ \/ (RelayStep \/ ClientStep \/ bind) /\ UNCHANGED faults
     \/ RelayDies /\ Fault
  /\ UNCHANGED <<fileVars, unitVars, ghostVars, op, spend, menu, ops>>

Init ==
  /\ disk = [cost |-> Missing,
             secrets |-> [NoKeys EXCEPT ![CHOOSE i \in Providers : TRUE] = "old"],
             provider |-> [id |-> CHOOSE i \in Providers : TRUE],
             mounts |-> [NoMounts EXCEPT ![<<"net", CHOOSE m \in MountIds : TRUE>>] = "ro"],
             network |-> OpenPolicy, nft |-> Defaults.nft,
             catalog |-> [NoModels EXCEPT ![Baked] = 1],
             voice |-> [wake |-> None, device |-> "usb", sections |-> "kept"],
             active |-> [id |-> CHOOSE i \in Profiles : TRUE]]
  /\ temp = [f \in Files |-> Missing]
  /\ op = [p \in Procs |-> Idle] /\ fd = [p \in Procs |-> "none"]
  /\ running = {ActiveProfile} /\ data = Profiles /\ sshKeys = TRUE
  /\ wizardState = TRUE /\ marker = FALSE /\ spend = 0
  /\ models = [m \in Models |-> IF m = Baked THEN [file |-> "whole", port |-> 1, up |-> TRUE]
                                ELSE [file |-> "absent", port |-> 0, up |-> FALSE]]
  /\ live = [rules |-> Defaults.nft, mounts |-> disk.mounts]
  /\ menu \in Menus /\ ops = 0 /\ faults = 0
  /\ allowed = [s \in Settings |-> {Reader(s[1], disk[s[1]])[s[2]]}]
  /\ spoiled = {} /\ strayed = FALSE /\ unsaved = FALSE /\ cleared = None /\ paused = {}
  /\ revived = {}
  /\ RelayInit

Step(p) ==
  \/ \E c \in Commands : Begin(p, c)
  \/ ReadFile(p) \/ Create(p) \/ Fill(p) \/ Rename(p)
  \/ CopyModel(p) \/ register_gguf(p) \/ apply_ruleset(p) \/ apply_mounts(p)
  \/ profile_switch(p) \/ cmd_lifecycle(p) \/ reconcile(p) \/ factory_reset(p)
  \/ check_caps_and_maybe_pause(p) \/ clear_tripped_marker(p)
  \/ Kill(p)

Next == (\E p \in Procs : Step(p)) \/ PowerCut \/ Spend \/ Midnight \/ Relay

Spec == Init /\ [][Next]_vars

(* The relay runs on, a script that is able to ends, and a client that is  *)
(* going to speak does.                                                    *)
FairSpec ==
  /\ Spec
  /\ WF_vars(Relay /\ RelayStep)
  /\ \A c \in Clients : WF_vars(Relay /\ Speak(c))

-----------------------------------------------------------------------------
(* A setting has the value the last command that reported success gave it: *)
(* a command that fails, is killed or edits the setting beside it changes  *)
(* nothing else, and no file is left that its reader refuses.  Two commands*)
(* on one file at once void this for the file, as do a secrets or a voice  *)
(* file that could not be read.                                            *)
SettingsKept ==
  \A f \in Files \ (Busy \union spoiled \union {"nft"}) :
    LET c == Reader(f, disk[f]) IN
    c # Broken /\ \A k \in DOMAIN Defaults[f] : c[k] \in allowed[<<f, k>>]

(* While no command is at the pointer, no unit runs but the active         *)
(* profile's: a switch that fails or is killed anywhere leaves none beside *)
(* it, unless a unit refused to stop or two commands met at the pointer; a *)
(* boot may bring back the one that is enabled (OneProfileAtATime), until  *)
(* it is stopped.                                                          *)
OneProfileRuns ==
  "active" \notin Busy \union spoiled /\ ~strayed =>
    running \ revived \subseteq {ActiveProfile}

(* architecture.md: the device runs one active profile at a time.          *)
OneProfileAtATime ==
  "active" \notin Busy \union spoiled /\ ~strayed => running \subseteq {ActiveProfile}

(* providers-json.md: voice.toml is what the voice relay goes by, so it    *)
(* reads the wake word that the last successful command has set.           *)
RelayHearsTheWord ==
  "voice" \notin Busy \union spoiled =>
    toml_get(disk["voice"]).wake \in allowed[<<"voice", "wake">>]

(* After a factory reset that got to its end the wizard is back, no key, no*)
(* pointer and none of the profile's data are left and no unit runs but one*)
(* that a boot had started beside the pointer's; and the owner's           *)
(* authorized_keys outlive every reset that is not cut off between their   *)
(* removal and their return.  Another command at the pointer or the keys   *)
(* meanwhile (reconcile starts the agent again) voids it.                  *)
ResetKeepsItsWord ==
  /\ cleared # None /\ spoiled \intersect {"active", "secrets"} = {} =>
       /\ ~wizardState /\ ActiveProfile = None /\ data \intersect cleared = {}
       /\ existing_secrets(disk["secrets"]) = NoKeys
       /\ strayed \/ running \subseteq revived
  /\ sshKeys \/ unsaved \/ "active" \in spoiled \/ \E p \in Procs : op[p].pc = "restore"

(* A unit the guard stopped has the marker that says why, until the cost   *)
(* reset; only a cost reset in the middle of a check leaves it without.    *)
PauseIsMarked == paused # {} => marker \/ "marker" \in spoiled

(* As long as the relay does not stay with a client that says nothing or a *)
(* script that nothing ends, everyone who has spoken gets an answer or the *)
(* end of the connection.                                                  *)
RelayServes ==
  []<>~Stalled =>
    \A c \in Clients : [](line[c] \in {"request", "garbage"} => <>(line[c] = "none"))
=============================================================================
