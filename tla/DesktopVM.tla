------------------------------ MODULE DesktopVM ------------------------------
(***************************************************************************)
(* One local agent of the desktop console, on the Linux driver.  Nothing   *)
(* owns the QEMU process: every operation finds it again through the pid   *)
(* file and the control sockets, as one step after the other of a process  *)
(* that may fail or die in between, while QEMU runs, exits or crashes on   *)
(* its own.  An operator's operations follow each other; an observer (the  *)
(* command line, a second console) asks for the status at any time, which  *)
(* is not read-only: it removes a stale pid file.                          *)
(* QEMU and its guest agent are external: a second QEMU on the same image  *)
(* and ports exits; SIGTERM makes one exit after a while.  Nobody waits    *)
(* for the child that start has forgotten: it is a zombie, for which       *)
(* kill -0 succeeds, until its parent, a console or a command line, ends.  *)
(* The status that start and resume ask for once more, to find the URL, is *)
(* one of the observer's.                                                  *)
(***************************************************************************)
EXTENDS Integers

CONSTANTS
    MaxSpawns,      \* bound: QEMU processes started
    MaxMemory,      \* memory sizes are 1 (memory_min_mib) .. MaxMemory
    AutoBalloon     \* ResourceSpec.auto_balloon

ASSUME DesktopAssumption ==
    MaxSpawns \in Nat /\ MaxMemory \in Nat \ {0} /\ AutoBalloon \in BOOLEAN

Process == 1 .. MaxSpawns
Empty == -1          \* a pid file that has been opened, and so truncated, and not yet written
Memory == 1 .. MaxMemory
Operator == "operator"
Observer == "observer"
Caller == {Operator, Observer}

VARIABLES
    qemu,       \* each QEMU: "unborn", "run", "paused", "dying" (exits soon), "zombie", "gone"
    guest,      \* its workload slice: "active" or "quiesced"
    target,     \* its balloon target
    booted,     \* the maximum memory it was started with
    pidfile,    \* the process that the pid file names, 0 when there is none, or Empty
    socket,     \* the process that listens at the control sockets' paths, or 0
    resources,  \* the registry's memory_max_mib for the instance
    lastStatus, \* the registry's last_status
    registered, \* the registry knows the instance
    op,         \* what the operator does
    pc,         \* each caller's next step
    cfg,        \* the operator's InstanceConfig: resources when it began
    seen,       \* the pid that a caller has read
    view,       \* what the operator's status_with returned
    forsaken,   \* history: processes that no pid file will name again
    uncontrolled,   \* history: processes of which a control call failed
    stale       \* history: the last operation that changed something did not record it

machine == <<qemu, guest, target, booted>>
paths == <<pidfile, socket>>
entry == <<resources, lastStatus, registered>>
local == <<op, cfg, view>>
driverHistory == <<forsaken, uncontrolled, stale>>
driverVars == <<machine, paths, entry, local, pc, seen, driverHistory>>

Steps == {"status", "probe", "corrupt", "decide", "spawn", "pid", "fill", "signal", "unpid", "remove",
          "prepare", "shrink", "halt", "cont", "grow", "thaw", "balloon", "write"}

TypeOK ==
    /\ qemu \in [Process -> {"unborn", "run", "paused", "dying", "zombie", "gone"}]
    /\ guest \in [Process -> {"active", "quiesced"}]
    /\ target \in [Process -> Memory] /\ booted \in [Process -> Memory]
    /\ pidfile \in {Empty} \cup 0 .. MaxSpawns /\ socket \in 0 .. MaxSpawns
    /\ resources \in Memory
    /\ lastStatus \in {"none", "running", "stopped", "paused"} /\ registered \in BOOLEAN
    /\ op \in {"none", "start", "stop", "delete", "pause", "resume", "set_memory", "configure"}
    /\ pc \in [Caller -> {"idle"} \cup Steps]
    /\ pc[Observer] \in {"idle", "status", "probe", "corrupt"}
    /\ pc[Operator] = "idle" <=> op = "none"
    /\ cfg \in Memory /\ seen \in [Caller -> 0 .. MaxSpawns]
    /\ view \in {"none", "Stopped", "Running", "Paused"}
    /\ forsaken \subseteq Process /\ uncontrolled \subseteq Process /\ stale \in BOOLEAN

DriverInit ==
    /\ qemu = [p \in Process |-> "unborn"] /\ guest = [p \in Process |-> "active"]
    /\ target = [p \in Process |-> 1] /\ booted = [p \in Process |-> 1]
    /\ pidfile = 0 /\ socket = 0
    /\ resources \in Memory /\ lastStatus = "none" /\ registered = TRUE
    /\ op = "none" /\ pc = [c \in Caller |-> "idle"] /\ cfg = 1
    /\ seen = [c \in Caller |-> 0] /\ view = "none"
    /\ forsaken = {} /\ uncontrolled = {} /\ stale = FALSE

Live == {p \in Process : qemu[p] \in {"run", "paused"}}
Holding == {p \in Process : qemu[p] \in {"run", "paused", "dying"}}   \* the image and the ports
Signallable == {p \in Process : qemu[p] \notin {"unborn", "gone"}}          \* kill -0

-----------------------------------------------------------------------------
(* Beginning and ending an operation *)

OperatorAt(step) == pc[Operator] = step
OperatorGoto(step) == pc' = [pc EXCEPT ![Operator] = step] /\ UNCHANGED <<op, cfg, seen, view>>

OperationEnds ==
    /\ pc' = [pc EXCEPT ![Operator] = "idle"]
    /\ op' = "none" /\ view' = "none" /\ cfg' = 1
    /\ seen' = [seen EXCEPT ![Operator] = 0]

\* InstanceOps: the configuration is read from the registry, once.
Begin(o) ==
    /\ OperatorAt("idle") /\ registered
    /\ op' = o /\ cfg' = resources
    /\ pc' = [pc EXCEPT ![Operator] = IF o \in {"stop", "delete"} THEN "signal" ELSE "status"]
    /\ UNCHANGED <<machine, paths, entry, seen, view, driverHistory>>

\* set_status is best effort.
Succeeds(s) ==
    /\ OperationEnds
    /\ \/ lastStatus' = s /\ stale' = FALSE
       \/ UNCHANGED lastStatus /\ stale' = TRUE
    /\ UNCHANGED <<resources, registered>>

\* The operation returns an error, or its process is killed: last_status stays.
OperationBreaks == OperationEnds /\ stale' = TRUE /\ UNCHANGED entry

\* An error before anything was changed.
Refuses == OperationEnds /\ UNCHANGED <<machine, paths, entry, driverHistory>>

-----------------------------------------------------------------------------
(* status_with *)

Observe ==
    /\ pc[Observer] = "idle"
    /\ pc' = [pc EXCEPT ![Observer] = "status"]
    /\ UNCHANGED <<machine, paths, entry, local, seen, driverHistory>>

\* status_with returns r; the observer is content with that.
Learns(c, r) ==
    IF c = Operator
    THEN pc' = [pc EXCEPT ![c] = "decide"] /\ view' = r /\ UNCHANGED seen
    ELSE pc' = [pc EXCEPT ![c] = "idle"] /\ seen' = [seen EXCEPT ![c] = 0] /\ UNCHANGED view

\* Read the pid file.
StatusRead(c) ==
    /\ pc[c] = "status"
    /\ \/ pidfile = 0 /\ Learns(c, "Stopped")
       \/ /\ pidfile = Empty
          /\ pc' = [pc EXCEPT ![c] = "corrupt"] /\ UNCHANGED <<seen, view>>
       \/ /\ pidfile \in Process
          /\ seen' = [seen EXCEPT ![c] = pidfile]
          /\ pc' = [pc EXCEPT ![c] = "probe"] /\ UNCHANGED view
    /\ UNCHANGED <<machine, paths, entry, op, cfg, driverHistory>>

\* A pid file that cannot be parsed is removed, whatever it says by now.
StatusForget(c) ==
    /\ pc[c] = "corrupt"
    /\ Learns(c, "Stopped")
    /\ pidfile' = 0
    /\ forsaken' = forsaken \cup ({pidfile} \cap Live)
    /\ UNCHANGED <<machine, socket, entry, op, cfg, uncontrolled, stale>>

\* What a live process is reported as: Paused only if QMP answers and says so.
Reported ==
    {"Running"} \cup (IF socket \in Process /\ qemu[socket] = "paused" THEN {"Paused"} ELSE {})

\* Mutant: a process that does not answer is taken for stopped.
StatusProbeOrForget(c) ==
    /\ pc[c] = "probe"
    /\ \E r \in Reported :
           /\ Learns(c, r)
           /\ IF r = "Running" /\ qemu[seen[c]] # "run" THEN pidfile' = 0 ELSE UNCHANGED pidfile
    /\ UNCHANGED <<machine, socket, entry, op, cfg, driverHistory>>

\* kill -0 the pid that was read and ask QMP; if the process is gone, remove the
\* pid file, whichever pid it names by now.
StatusProbe(c) ==
    /\ pc[c] = "probe"
    /\ IF seen[c] \in Signallable
       THEN \E r \in Reported :
            /\ Learns(c, r)
            /\ uncontrolled' = IF r = "Running" /\ qemu[seen[c]] = "paused"
                           THEN uncontrolled \cup {seen[c]} ELSE uncontrolled
            /\ UNCHANGED <<pidfile, forsaken>>
       ELSE /\ Learns(c, "Stopped")
            /\ pidfile' = 0
            /\ forsaken' = forsaken \cup ({pidfile} \cap Live)
            /\ UNCHANGED uncontrolled
    /\ UNCHANGED <<machine, socket, entry, op, cfg, stale>>

-----------------------------------------------------------------------------
(* start_with *)

\* Only Running is taken for running.
StartDecide ==
    /\ op = "start" /\ OperatorAt("decide")
    /\ IF view = "Running" THEN Succeeds("running") /\ UNCHANGED <<forsaken, uncontrolled>>
                           ELSE OperatorGoto("spawn") /\ UNCHANGED <<entry, driverHistory>>
    /\ UNCHANGED <<machine, paths>>

\* No QEMU, no image, no seed, no log: with or without the sockets removed.
StartFails ==
    /\ OperatorAt("spawn")
    /\ socket' \in {socket, 0}
    /\ uncontrolled' = IF socket' = 0 THEN uncontrolled \cup Live ELSE uncontrolled
    /\ OperationEnds /\ UNCHANGED <<machine, pidfile, entry, forsaken, stale>>

\* The sockets' paths are removed and QEMU started, which binds them again; if
\* another QEMU still has the image and the ports, the new one exits.
Spawn ==
    \E p \in Process :
        /\ OperatorAt("spawn")
        /\ qemu[p] = "unborn" /\ \A q \in 1 .. p - 1 : qemu[q] # "unborn"
        /\ qemu' = [qemu EXCEPT ![p] = IF Holding = {} THEN "run" ELSE "dying"]
        /\ guest' = [guest EXCEPT ![p] = "active"]
        /\ target' = [target EXCEPT ![p] = cfg] /\ booted' = [booted EXCEPT ![p] = cfg]
        /\ socket' = p
        /\ seen' = [seen EXCEPT ![Operator] = p]
        /\ pc' = [pc EXCEPT ![Operator] = "pid"]
        /\ forsaken' = IF view = "Paused" THEN forsaken \cup {seen[Operator]} ELSE forsaken
        /\ UNCHANGED <<pidfile, entry, local, uncontrolled, stale>>

\* fs::write opens and truncates first.
TruncatePid ==
    /\ OperatorAt("pid")
    /\ pidfile' = Empty
    /\ OperatorGoto("fill")
    /\ UNCHANGED <<machine, socket, entry, driverHistory>>

\* The pid goes into the file that was opened; if that was removed meanwhile, no
\* path leads to it.
WritePid ==
    /\ OperatorAt("fill")
    /\ \/ pidfile = Empty /\ pidfile' = seen[Operator] /\ UNCHANGED forsaken
       \/ pidfile # Empty /\ forsaken' = forsaken \cup {seen[Operator]} /\ UNCHANGED pidfile
    /\ Succeeds("running")
    /\ UNCHANGED <<machine, socket, uncontrolled>>

\* The disk is full: QEMU runs on.
WritePidFails ==
    /\ OperatorAt("pid") \/ OperatorAt("fill")
    /\ forsaken' = forsaken \cup {seen[Operator]}
    /\ OperationBreaks
    /\ UNCHANGED <<machine, paths, uncontrolled>>
-----------------------------------------------------------------------------
(* stop_with, and delete, which goes on whatever the stop returned *)

AfterSignal ==
    IF op = "delete" THEN OperatorGoto("remove") /\ UNCHANGED <<entry, stale>>
                     ELSE Succeeds("stopped")

\* Mutant: a paused process is not signalled.
SignalRunning ==
    /\ OperatorAt("signal")
    /\ IF pidfile = 0
       THEN AfterSignal /\ UNCHANGED qemu
       ELSE /\ pidfile \in Process
            /\ qemu' = [qemu EXCEPT ![pidfile] = IF @ = "run" THEN "dying" ELSE @]
            /\ OperatorGoto("unpid") /\ UNCHANGED <<entry, stale>>
    /\ UNCHANGED <<guest, target, booted, paths, forsaken, uncontrolled>>

\* SIGTERM to the process that the pid file names; nothing waits for its exit.
Signal ==
    /\ OperatorAt("signal")
    /\ IF pidfile = 0
       THEN AfterSignal /\ UNCHANGED qemu
       ELSE /\ pidfile \in Process
            /\ qemu' = [qemu EXCEPT ![pidfile] = IF @ \in {"run", "paused"} THEN "dying" ELSE @]
            /\ OperatorGoto("unpid") /\ UNCHANGED <<entry, stale>>
    /\ UNCHANGED <<guest, target, booted, paths, forsaken, uncontrolled>>

\* kill cannot be run, or is refused; or the pid file cannot be parsed.
SignalFails ==
    /\ OperatorAt("signal") /\ pidfile # 0
    /\ IF op = "delete"
       THEN OperatorGoto("remove") /\ UNCHANGED <<entry, driverHistory>>
       ELSE OperationBreaks /\ UNCHANGED <<forsaken, uncontrolled>>
    /\ UNCHANGED <<machine, paths>>

\* The pid file goes while the process may still be there.
Unpid ==
    /\ OperatorAt("unpid")
    /\ pidfile' = 0
    /\ AfterSignal
    /\ UNCHANGED <<machine, socket, forsaken, uncontrolled>>

\* The registry entry first, then the directories with pid file and sockets.
Remove ==
    /\ OperatorAt("remove")
    /\ registered' = FALSE
    /\ pidfile' = 0 /\ socket' = 0
    /\ forsaken' = forsaken \cup ({pidfile} \cap Live)
    /\ OperationEnds
    /\ UNCHANGED <<machine, resources, lastStatus, uncontrolled, stale>>

-----------------------------------------------------------------------------
(* pause_with and resume_with *)

Connected(states) == socket \in Process /\ qemu[socket] \in states
Controlled == {socket} \cap Live

\* A control call fails: not connected, refused, timed out or killed.
CallFails ==
    /\ uncontrolled' = uncontrolled \cup Controlled
    /\ OperationBreaks
    /\ UNCHANGED <<qemu, target, booted, paths, forsaken>>

PauseDecide ==
    /\ op = "pause" /\ OperatorAt("decide")
    /\ \/ view = "Running" /\ OperatorGoto("prepare") /\ UNCHANGED <<entry, driverHistory>>
       \/ view = "Paused" /\ Succeeds("paused") /\ UNCHANGED <<forsaken, uncontrolled>>
    /\ UNCHANGED <<machine, paths>>

\* deputyd quiesces the workload.
Prepare ==
    /\ OperatorAt("prepare") /\ Connected({"run"})
    /\ guest' = [guest EXCEPT ![socket] = "quiesced"]
    /\ OperatorGoto("shrink")
    /\ UNCHANGED <<qemu, target, booted, paths, entry, driverHistory>>

\* There is no deputyd, or its answer is lost: the pause goes on all the same.
PrepareFails ==
    /\ OperatorAt("prepare")
    /\ \/ UNCHANGED guest
       \/ Connected({"run"}) /\ guest' = [guest EXCEPT ![socket] = "quiesced"]
    /\ uncontrolled' = uncontrolled \cup Controlled
    /\ OperatorGoto("shrink")
    /\ UNCHANGED <<qemu, target, booted, paths, entry, forsaken, stale>>

Shrink ==
    /\ OperatorAt("shrink") /\ Connected({"run", "paused"})
    /\ target' = IF AutoBalloon THEN [target EXCEPT ![socket] = 1] ELSE target
    /\ OperatorGoto("halt")
    /\ UNCHANGED <<qemu, guest, booted, paths, entry, driverHistory>>

\* QMP stop.
Halt ==
    /\ OperatorAt("halt") /\ Connected({"run", "paused"})
    /\ qemu' = [qemu EXCEPT ![socket] = "paused"]
    /\ Succeeds("paused")
    /\ UNCHANGED <<guest, target, booted, paths, forsaken, uncontrolled>>

ResumeDecide ==
    /\ op = "resume" /\ OperatorAt("decide")
    /\ \/ view = "Paused" /\ OperatorGoto("cont") /\ UNCHANGED <<entry, driverHistory>>
       \/ view = "Running" /\ Succeeds("running") /\ UNCHANGED <<forsaken, uncontrolled>>
    /\ UNCHANGED <<machine, paths>>

\* QMP cont.
Continue ==
    /\ OperatorAt("cont") /\ Connected({"run", "paused"})
    /\ qemu' = [qemu EXCEPT ![socket] = "run"]
    /\ OperatorGoto("grow")
    /\ UNCHANGED <<guest, target, booted, paths, entry, driverHistory>>

Grow ==
    /\ OperatorAt("grow") /\ Connected({"run", "paused"})
    /\ target' = IF AutoBalloon THEN [target EXCEPT ![socket] = cfg] ELSE target
    /\ OperatorGoto("thaw")
    /\ UNCHANGED <<qemu, guest, booted, paths, entry, driverHistory>>

\* Mutant: the guest is not told.
ThawNobody ==
    /\ OperatorAt("thaw")
    /\ Succeeds("running")
    /\ UNCHANGED <<machine, paths, forsaken, uncontrolled>>

Thaw ==
    /\ OperatorAt("thaw") /\ Connected({"run"})
    /\ guest' = [guest EXCEPT ![socket] = "active"]
    /\ Succeeds("running")
    /\ UNCHANGED <<qemu, target, booted, paths, forsaken, uncontrolled>>

\* Ignored.
ThawFails ==
    /\ OperatorAt("thaw")
    /\ uncontrolled' = uncontrolled \cup Controlled
    /\ Succeeds("running")
    /\ UNCHANGED <<machine, paths, forsaken>>

\* QMP fails in any of these steps, and with it the operation.
ControlFails ==
    /\ pc[Operator] \in {"shrink", "halt", "cont", "grow", "balloon"}
    /\ CallFails /\ UNCHANGED guest

-----------------------------------------------------------------------------
(* set_memory_with and configure_resources *)

\* What Stopped, or for set_memory and configure also Paused, refuses.
Decline ==
    /\ OperatorAt("decide")
    /\ \/ op \in {"pause", "resume"} /\ view = "Stopped"
       \/ op = "set_memory" /\ view # "Running"
       \/ op = "configure" /\ view # "Stopped"
    /\ Refuses

SetMemoryDecide ==
    /\ op = "set_memory" /\ OperatorAt("decide") /\ view = "Running"
    /\ OperatorGoto("balloon")
    /\ UNCHANGED <<machine, paths, entry, driverHistory>>

\* The envelope checked is the one of the configuration.
SetBalloon(m) ==
    /\ OperatorAt("balloon") /\ Connected({"run", "paused"}) /\ m <= cfg
    /\ target' = [target EXCEPT ![socket] = m]
    /\ OperationEnds
    /\ UNCHANGED <<qemu, guest, booted, paths, entry, driverHistory>>

ConfigureDecide ==
    /\ op = "configure" /\ OperatorAt("decide") /\ view = "Stopped"
    /\ OperatorGoto("write")
    /\ UNCHANGED <<machine, paths, entry, driverHistory>>

WriteResources(m) ==
    /\ OperatorAt("write")
    /\ resources' = m
    /\ OperationEnds
    /\ UNCHANGED <<machine, paths, lastStatus, registered, driverHistory>>

-----------------------------------------------------------------------------
(* QEMU and the operator's process *)

\* A QEMU that was told to exits; one that was not crashes, or its guest powers
\* off.  What is recorded of it goes with it.
Exit(p) ==
    /\ p \in Holding
    /\ qemu' = [qemu EXCEPT ![p] = "zombie"]
    /\ guest' = [guest EXCEPT ![p] = "active"]
    /\ target' = [target EXCEPT ![p] = 1] /\ booted' = [booted EXCEPT ![p] = 1]
    /\ forsaken' = forsaken \ {p} /\ uncontrolled' = uncontrolled \ {p}
    /\ UNCHANGED <<paths, entry, local, pc, seen, stale>>

\* The parent ends, or had ended before: the zombie is reaped.
Reap(p) ==
    /\ qemu[p] = "zombie"
    /\ qemu' = [qemu EXCEPT ![p] = "gone"]
    /\ UNCHANGED <<guest, target, booted, paths, entry, local, pc, seen, driverHistory>>

\* The operator's process is killed between two steps.
Die ==
    /\ ~OperatorAt("idle")
    /\ uncontrolled' = IF pc[Operator] \in {"prepare", "shrink", "halt", "cont", "grow", "thaw"}
                   THEN uncontrolled \cup Controlled ELSE uncontrolled
    /\ forsaken' = IF pc[Operator] \in {"pid", "fill"} THEN forsaken \cup {seen[Operator]}
                                                      ELSE forsaken
    /\ OperationBreaks
    /\ UNCHANGED <<machine, paths>>

Operate ==
    \/ \E o \in {"start", "stop", "delete", "pause", "resume", "set_memory", "configure"} : Begin(o)
    \/ StatusRead(Operator) \/ StatusForget(Operator) \/ StatusProbe(Operator) \/ Decline
    \/ StartDecide \/ StartFails \/ Spawn \/ TruncatePid \/ WritePid \/ WritePidFails
    \/ Signal \/ SignalFails \/ Unpid \/ Remove
    \/ PauseDecide \/ Prepare \/ PrepareFails \/ Shrink \/ Halt
    \/ ResumeDecide \/ Continue \/ Grow \/ Thaw \/ ThawFails \/ ControlFails
    \/ SetMemoryDecide \/ ConfigureDecide \/ \E m \in Memory : SetBalloon(m) \/ WriteResources(m)
    \/ Die

DriverNext ==
    \/ Operate
    \/ Observe \/ StatusRead(Observer) \/ StatusForget(Observer) \/ StatusProbe(Observer)
    \/ \E p \in Process : Exit(p) \/ Reap(p)

DriverSpec == DriverInit /\ [][DriverNext]_driverVars

-----------------------------------------------------------------------------
(* Properties, between two operations *)

BetweenOperations == OperatorAt("idle")

\* A QEMU that has not been told to exit is the one that the pid file names, or
\* nobody can stop it any more: the driver loses one only when it starts a second
\* one over a paused one, when a status removes the pid file that was written after
\* or while it read (a stale one, or one still empty, linux.rs:317), or when the pid
\* file could not be written or its VM not be signalled.
NoStray == BetweenOperations => \A p \in Live : pidfile = p \/ p \in forsaken

\* The guest's workload runs exactly while its virtual CPUs do, unless a control
\* call to that VM failed (docs/17: prepare, then pause; resume, then thaw).
GuestFollowsHost ==
    BetweenOperations => \A p \in Live \ uncontrolled : guest[p] = "active" <=> qemu[p] = "run"

\* The envelope in the registry is the one that the VM was started with, and the
\* balloon stays in it.
EnvelopeHolds ==
    BetweenOperations /\ pidfile \in Live =>
        booted[pidfile] = resources /\ target[pidfile] \in 1 .. resources

\* What the registry says of the instance is true of the processes: its envelope
\* always, and its status unless the last operation failed halfway: a stopped
\* instance has no VM but a forsaken one, a paused one does not run, and a running
\* one is not paused.
RegistryTellsTruth ==
    /\ EnvelopeHolds
    /\ BetweenOperations /\ ~stale /\ registered =>
        \A p \in Live \ (forsaken \cup uncontrolled) :
            \/ lastStatus = "running" /\ qemu[p] = "run"
            \/ lastStatus = "paused" /\ qemu[p] = "paused"
=============================================================================
