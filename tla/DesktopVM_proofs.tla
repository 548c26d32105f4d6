-------------------------- MODULE DesktopVM_proofs --------------------------
(***************************************************************************)
(* Proofs about DesktopVM, for any number of QEMU processes and memory     *)
(* sizes: the driver never loses a live VM, but in the ways listed; the    *)
(* workload follows the processors; the registry tells the truth.          *)
(***************************************************************************)
EXTENDS DesktopVM, TLAPS

\* NoStray is about the time between two operations.  In between, a start has a
\* process in hand that the pid file does not name yet, and a stop keeps the pid
\* file of a process that it has already signalled.
Tracked ==
    \A p \in Live :
        IF OperatorAt("pid") \/ OperatorAt("fill") THEN p = seen[Operator] \/ p \in forsaken
        ELSE IF OperatorAt("unpid") THEN p \in forsaken
        ELSE pidfile = p \/ p \in forsaken

\* Nobody but the operator writes a pid file: what it has read of it can go, but
\* not change, and a VM reported as stopped has none.  A pid that is there was
\* read, or is that of the process just started.
Remembered ==
    /\ pc[Operator] \in {"probe", "decide", "spawn"} => pidfile \in {0, seen[Operator]}
    /\ pc[Operator] \in {"decide", "spawn"} /\ view = "Stopped" => pidfile = 0
    /\ OperatorAt("spawn") => view \in {"Stopped", "Paused"}
    /\ OperatorAt("decide") => view # "none"
    /\ pc[Operator] \in {"probe", "pid", "fill"} => seen[Operator] \in Process
    /\ pc[Operator] \in {"decide", "spawn"} /\ view # "Stopped" => seen[Operator] \in Process

IInv == TypeOK /\ Tracked /\ Remembered

USE DesktopAssumption DEF Process, Memory, Caller, Operator, Observer, Steps

LEMMA InitInv == DriverInit => IInv
  <1> SUFFICES ASSUME DriverInit PROVE IInv  OBVIOUS
  <1>1. 1 \in Memory /\ 0 \in 0 .. MaxSpawns  OBVIOUS
  <1>2. TypeOK  BY <1>1 DEF DriverInit, TypeOK
  <1>3. Tracked  BY DEF DriverInit, Tracked, Live
  <1>4. Remembered  BY DEF DriverInit, Remembered, OperatorAt
  <1> QED  BY <1>2, <1>3, <1>4 DEF IInv

-----------------------------------------------------------------------------
(* Types *)

LEMMA EndsOK ==
  ASSUME TypeOK, OperationEnds
  PROVE  /\ op' = "none" /\ pc' \in [Caller -> {"idle"} \cup Steps] /\ pc'[Observer] \in {"idle", "status", "probe", "corrupt"}
         /\ pc'[Operator] = "idle" /\ cfg' \in Memory /\ seen' \in [Caller -> 0 .. MaxSpawns]
         /\ view' = "none"
  <1>1. 1 \in Memory /\ 0 \in 0 .. MaxSpawns  OBVIOUS
  <1> QED  BY <1>1 DEF TypeOK, OperationEnds

LEMMA GotoOK ==
  ASSUME TypeOK, NEW step \in Steps, OperatorGoto(step)
  PROVE  /\ op' = op /\ pc' \in [Caller -> {"idle"} \cup Steps] /\ pc'[Observer] \in {"idle", "status", "probe", "corrupt"}
         /\ pc'[Operator] = step /\ cfg' = cfg /\ seen' = seen /\ view' = view
  BY DEF TypeOK, OperatorGoto

LEMMA LearnsOK ==
  ASSUME TypeOK, NEW c \in Caller, NEW r \in {"Stopped", "Running", "Paused"},
         Learns(c, r), pc[c] # "idle", UNCHANGED op
  PROVE  /\ pc' \in [Caller -> {"idle"} \cup Steps] /\ pc'[Observer] \in {"idle", "status", "probe", "corrupt"}
         /\ pc'[Operator] = "idle" <=> op' = "none"
         /\ seen' \in [Caller -> 0 .. MaxSpawns] /\ view' \in {"none", "Stopped", "Running", "Paused"}
  <1>1. 0 \in 0 .. MaxSpawns  OBVIOUS
  <1>2. CASE c = Operator  BY <1>2 DEF TypeOK, Learns
  <1>3. CASE c = Observer  BY <1>1, <1>3 DEF TypeOK, Learns
  <1> QED  BY <1>2, <1>3

\* The control part of TypeOK: what the operator's and the observer's steps change.
ControlOK ==
    /\ op \in {"none", "start", "stop", "delete", "pause", "resume", "set_memory", "configure"}
    /\ pc \in [Caller -> {"idle"} \cup Steps]
    /\ pc[Observer] \in {"idle", "status", "probe", "corrupt"}
    /\ pc[Operator] = "idle" <=> op = "none"
    /\ cfg \in Memory /\ seen \in [Caller -> 0 .. MaxSpawns]
    /\ view \in {"none", "Stopped", "Running", "Paused"}

\* The data part: the processes, the paths and the registry.
DataOK ==
    /\ qemu \in [Process -> {"unborn", "run", "paused", "dying", "zombie", "gone"}]
    /\ guest \in [Process -> {"active", "quiesced"}]
    /\ target \in [Process -> Memory] /\ booted \in [Process -> Memory]
    /\ pidfile \in {Empty} \cup 0 .. MaxSpawns /\ socket \in 0 .. MaxSpawns
    /\ resources \in Memory
    /\ lastStatus \in {"none", "running", "stopped", "paused"} /\ registered \in BOOLEAN
    /\ forsaken \subseteq Process /\ uncontrolled \subseteq Process /\ stale \in BOOLEAN

LEMMA TypePartsNext == ControlOK' /\ DataOK' => TypeOK'
  BY DEF TypeOK, ControlOK, DataOK

LEMMA ControlEnds ==
  ASSUME TypeOK, OperationEnds  PROVE ControlOK'
  BY EndsOK DEF ControlOK

LEMMA ControlGoto ==
  ASSUME TypeOK, NEW step \in Steps, OperatorGoto(step), op # "none"  PROVE ControlOK'
<1>1. step # "idle" /\ step \in Steps
  BY DEF Steps
<1>2. op' = op /\ pc'[Operator] = step /\ cfg' = cfg /\ seen' = seen /\ view' = view
  BY GotoOK
<1>3. pc' \in [Caller -> {"idle"} \cup Steps] /\ pc'[Observer] \in {"idle", "status", "probe", "corrupt"}
  BY GotoOK
<1> QED BY <1>1, <1>2, <1>3 DEF ControlOK, TypeOK

LEMMA ControlSame ==
  ASSUME TypeOK, UNCHANGED <<op, pc, cfg, seen, view>>  PROVE ControlOK'
  BY DEF ControlOK, TypeOK

\* Every step of the operator leaves the control part well typed.
LEMMA OperateControl ==
  ASSUME TypeOK, Operate
  PROVE  ControlOK'
  <1> USE DEF machine, paths, entry, local, driverHistory
  <1>0. OperatorAt("idle") \/ op # "none"  BY DEF OperatorAt, TypeOK
  <1>1. ASSUME NEW o \in {"start", "stop", "delete", "pause", "resume", "set_memory", "configure"}, Begin(o)
        PROVE  ControlOK'
    BY <1>1 DEF Begin, ControlOK, TypeOK
  <1>2. CASE StatusRead(Operator)
    <2>1. CASE Learns(Operator, "Stopped")
      BY <1>2, <2>1, LearnsOK DEF StatusRead, ControlOK, TypeOK
    <2>2. CASE pidfile = Empty /\ ~Learns(Operator, "Stopped")
      BY <1>2, <2>2 DEF StatusRead, ControlOK, TypeOK
    <2>3. CASE pidfile \in Process /\ ~Learns(Operator, "Stopped")
      BY <1>2, <2>3 DEF StatusRead, ControlOK, TypeOK, Empty
    <2> QED  BY <1>2, <2>1, <2>2, <2>3 DEF StatusRead
  <1>3. CASE StatusProbe(Operator)
    <2>1. UNCHANGED <<op, cfg>> /\ pc[Operator] # "idle"  BY <1>3 DEF StatusProbe
    <2>2. PICK r \in {"Stopped", "Running", "Paused"} : Learns(Operator, r)
      BY <1>3 DEF StatusProbe, Reported
    <2> QED  BY <2>1, <2>2, LearnsOK DEF ControlOK, TypeOK
  <1>17. CASE StatusForget(Operator)
    <2>1. UNCHANGED <<op, cfg>> /\ pc[Operator] # "idle" /\ Learns(Operator, "Stopped")
      BY <1>17 DEF StatusForget
    <2> QED  BY <2>1, LearnsOK DEF ControlOK, TypeOK
  <1>18. CASE TruncatePid  BY <1>18, <1>0, ControlGoto DEF TruncatePid, OperatorAt
  <1>4. CASE Decline  BY <1>4, ControlEnds DEF Decline, Refuses
  <1>5. CASE StartDecide
    BY <1>5, <1>0, ControlEnds, ControlGoto DEF StartDecide, Succeeds, OperatorAt
  <1>6. CASE StartFails  BY <1>6, ControlEnds DEF StartFails
  <1>7. CASE Spawn
    <2>1. PICK p \in Process : /\ seen' = [seen EXCEPT ![Operator] = p]
                               /\ pc' = [pc EXCEPT ![Operator] = "pid"]
                               /\ UNCHANGED <<op, cfg, view>> /\ OperatorAt("spawn")
      BY <1>7 DEF Spawn
    <2> QED  BY <2>1 DEF ControlOK, TypeOK, OperatorAt
  <1>8. CASE WritePid \/ WritePidFails  BY <1>8, ControlEnds DEF WritePid, WritePidFails,
                                                                 Succeeds, OperationBreaks
  <1>9. CASE Signal \/ SignalFails \/ Unpid
    BY <1>9, <1>0, ControlEnds, ControlGoto DEF Signal, SignalFails, Unpid, AfterSignal,
                                                Succeeds, OperationBreaks, OperatorAt
  <1>10. CASE Remove  BY <1>10, ControlEnds DEF Remove
  <1>11. CASE PauseDecide \/ ResumeDecide
    BY <1>11, <1>0, ControlEnds, ControlGoto DEF PauseDecide, ResumeDecide, Succeeds, OperatorAt
  <1>12. CASE Prepare \/ PrepareFails \/ Shrink \/ Continue \/ Grow
    BY <1>12, <1>0, ControlGoto DEF Prepare, PrepareFails, Shrink, Continue, Grow, OperatorAt
  <1>13. CASE Halt \/ Thaw \/ ThawFails
    BY <1>13, ControlEnds DEF Halt, Thaw, ThawFails, Succeeds
  <1>14. CASE ControlFails \/ Die  BY <1>14, ControlEnds DEF ControlFails, CallFails,
                                                             OperationBreaks, Die
  <1>15. CASE SetMemoryDecide \/ ConfigureDecide
    BY <1>15, <1>0, ControlGoto DEF SetMemoryDecide, ConfigureDecide, OperatorAt
  <1>16. ASSUME NEW n \in Memory, SetBalloon(n) \/ WriteResources(n)  PROVE ControlOK'
    BY <1>16, ControlEnds DEF SetBalloon, WriteResources
  <1> QED
    BY <1>1, <1>2, <1>3, <1>4, <1>5, <1>6, <1>7, <1>8, <1>9, <1>10, <1>11, <1>12, <1>13,
       <1>14,
       <1>15, <1>16, <1>17, <1>18 DEF Operate

\* The observer and QEMU itself change nothing of what the operator does.
LEMMA OthersControl ==
  ASSUME TypeOK,
         \/ Observe \/ StatusRead(Observer) \/ StatusForget(Observer) \/ StatusProbe(Observer)
         \/ \E p \in Process : Exit(p) \/ Reap(p)
  PROVE  ControlOK' /\ UNCHANGED <<op, cfg, view, pc[Operator], seen[Operator]>>
  <1> USE DEF machine, paths, entry, local, driverHistory
  <1>1. CASE Observe  BY <1>1 DEF Observe, ControlOK, TypeOK
  <1>2. CASE StatusRead(Observer)
    BY <1>2 DEF StatusRead, Learns, ControlOK, TypeOK
  <1>3. CASE StatusProbe(Observer)
    BY <1>3 DEF StatusProbe, Learns, ControlOK, TypeOK
  <1>4. CASE \E p \in Process : Exit(p) \/ Reap(p)
    BY <1>4, ControlSame DEF Exit, Reap
  <1>5. CASE StatusForget(Observer)
    BY <1>5 DEF StatusForget, Learns, ControlOK, TypeOK
  <1> QED  BY <1>1, <1>2, <1>3, <1>4, <1>5

\* Every step leaves the data part well typed.
LEMMA DataSame ==
  ASSUME TypeOK, UNCHANGED <<qemu, guest, target, booted, pidfile, socket, resources, lastStatus, registered>>,
         forsaken' \subseteq Process, uncontrolled' \subseteq Process, stale' \in BOOLEAN
  PROVE  DataOK'
  BY DEF DataOK, TypeOK

LEMMA SucceedsOK ==
  ASSUME TypeOK, NEW s \in {"running", "stopped", "paused"}, Succeeds(s)
  PROVE  /\ resources' \in Memory /\ registered' \in BOOLEAN /\ stale' \in BOOLEAN
         /\ lastStatus' \in {"none", "running", "stopped", "paused"}
  BY DEF Succeeds, TypeOK

LEMMA StatusData ==
  ASSUME TypeOK, NEW c \in Caller, StatusRead(c) \/ StatusForget(c) \/ StatusProbe(c)
  PROVE  DataOK'
  <1> USE DEF machine, paths, entry, local, driverHistory
  <1>1. CASE StatusRead(c)  BY <1>1, DataSame DEF StatusRead, TypeOK
  <1>2. CASE StatusProbe(c)
    <2>1. seen[c] \in 0 .. MaxSpawns /\ Signallable \subseteq Process /\ Live \subseteq Process /\ 0 \in 0 .. MaxSpawns
      BY DEF TypeOK, Signallable, Live
    <2>2. UNCHANGED <<qemu, guest, target, booted, socket, resources, lastStatus, registered, stale>>
      BY <1>2 DEF StatusProbe
    <2>3. /\ pidfile' \in {Empty} \cup 0 .. MaxSpawns
          /\ forsaken' \subseteq Process /\ uncontrolled' \subseteq Process
      BY <1>2, <2>1 DEF StatusProbe, TypeOK
    <2> QED  BY <2>2, <2>3 DEF DataOK, TypeOK
  <1>3. CASE StatusForget(c)
    <2>1. Live \subseteq Process /\ 0 \in 0 .. MaxSpawns  BY DEF Live
    <2> QED  BY <1>3, <2>1 DEF StatusForget, DataOK, TypeOK
  <1> QED  BY <1>1, <1>2, <1>3

LEMMA SpawnData ==
  ASSUME TypeOK, Remembered, Spawn
  PROVE  DataOK'
  <1>1. PICK p \in Process :
            /\ qemu' = [qemu EXCEPT ![p] = IF Holding = {} THEN "run" ELSE "dying"]
            /\ guest' = [guest EXCEPT ![p] = "active"]
            /\ target' = [target EXCEPT ![p] = cfg] /\ booted' = [booted EXCEPT ![p] = cfg]
            /\ socket' = p
            /\ forsaken' = IF view = "Paused" THEN forsaken \cup {seen[Operator]} ELSE forsaken
            /\ UNCHANGED <<pidfile, resources, lastStatus, registered, uncontrolled, stale>>
            /\ OperatorAt("spawn")
    BY DEF Spawn, entry
  <1>2. qemu' \in [Process -> {"unborn", "run", "paused", "dying", "zombie", "gone"}]
    BY <1>1 DEF TypeOK
  <1>3. guest' \in [Process -> {"active", "quiesced"}]  BY <1>1 DEF TypeOK
  <1>4. target' \in [Process -> Memory] /\ booted' \in [Process -> Memory]  BY <1>1 DEF TypeOK
  <1>5. forsaken' \subseteq Process  BY <1>1 DEF TypeOK, Remembered, OperatorAt
  <1> QED  BY <1>1, <1>2, <1>3, <1>4, <1>5 DEF DataOK, TypeOK

LEMMA ExitData ==
  ASSUME TypeOK, NEW p \in Process, Exit(p) \/ Reap(p)
  PROVE  DataOK'
  <1> USE DEF paths, entry, local
  <1>1. CASE Exit(p)
    <2>1. 1 \in Memory  OBVIOUS
    <2>2. qemu' \in [Process -> {"unborn", "run", "paused", "dying", "zombie", "gone"}]
      BY <1>1 DEF Exit, TypeOK
    <2>3. guest' \in [Process -> {"active", "quiesced"}]  BY <1>1 DEF Exit, TypeOK
    <2>4. target' \in [Process -> Memory] /\ booted' \in [Process -> Memory]  BY <1>1, <2>1 DEF Exit, TypeOK
    <2> QED  BY <1>1, <2>2, <2>3, <2>4 DEF Exit, DataOK, TypeOK
  <1>2. CASE Reap(p)
    <2>1. qemu' \in [Process -> {"unborn", "run", "paused", "dying", "zombie", "gone"}]
      BY <1>2 DEF Reap, TypeOK
    <2> QED  BY <1>2, <2>1 DEF Reap, DataOK, TypeOK, driverHistory
  <1> QED  BY <1>1, <1>2

LEMMA OperateData ==
  ASSUME TypeOK, Remembered, Operate
  PROVE  DataOK'
  <1> USE DEF machine, paths, entry, local, driverHistory
  <1>0. 0 \in 0 .. MaxSpawns /\ 1 \in Memory /\ Live \subseteq Process /\ Controlled \subseteq Process
    BY DEF Live, Controlled
  <1>1. ASSUME NEW o \in {"start", "stop", "delete", "pause", "resume", "set_memory", "configure"}, Begin(o)
        PROVE  DataOK'
    BY <1>1, DataSame DEF Begin, TypeOK
  <1>2. CASE StatusRead(Operator) \/ StatusForget(Operator) \/ StatusProbe(Operator)
    BY <1>2, StatusData
  <1>3. CASE Decline  BY <1>3, DataSame DEF Decline, Refuses, TypeOK
  <1>4. CASE StartDecide \/ PauseDecide \/ ResumeDecide
    BY <1>4, SucceedsOK DEF StartDecide, PauseDecide, ResumeDecide, DataOK, TypeOK
  <1>5. CASE StartFails  BY <1>5, <1>0 DEF StartFails, DataOK, TypeOK
  <1>6. CASE Spawn  BY <1>6, SpawnData
  <1>21. CASE TruncatePid  BY <1>21 DEF TruncatePid, DataOK, TypeOK
  <1>7. CASE WritePid
    BY <1>7, SucceedsOK DEF WritePid, Remembered, OperatorAt, DataOK, TypeOK
  <1>8. CASE WritePidFails
    BY <1>8, DataSame DEF WritePidFails, OperationBreaks, Remembered, OperatorAt, TypeOK
  <1>9. CASE Signal
    <2>1. CASE pidfile = 0
      BY <1>9, <2>1, SucceedsOK DEF Signal, AfterSignal, DataOK, TypeOK
    <2>2. CASE pidfile # 0
      <3>0. /\ pidfile \in Process
            /\ qemu' = [qemu EXCEPT ![pidfile] = IF @ \in {"run", "paused"} THEN "dying" ELSE @]
        BY <1>9, <2>2 DEF Signal
      <3>1. qemu' \in [Process -> {"unborn", "run", "paused", "dying", "zombie", "gone"}]
        BY <3>0 DEF TypeOK
      <3> QED  BY <1>9, <2>2, <3>1 DEF Signal, DataOK, TypeOK
    <2> QED  BY <2>1, <2>2
  <1>10. CASE SignalFails  BY <1>10, DataSame DEF SignalFails, OperationBreaks, TypeOK
  <1>11. CASE Unpid  BY <1>11, <1>0, SucceedsOK DEF Unpid, AfterSignal, DataOK, TypeOK
  <1>12. CASE Remove  BY <1>12, <1>0 DEF Remove, DataOK, TypeOK
  <1>13. CASE Prepare \/ PrepareFails
    <2>1. guest' \in [Process -> {"active", "quiesced"}]
      BY <1>13 DEF Prepare, PrepareFails, Connected, TypeOK
    <2> QED  BY <1>13, <2>1, <1>0 DEF Prepare, PrepareFails, DataOK, TypeOK
  <1>14. CASE Shrink \/ Grow
    <2>1. target' \in [Process -> Memory]
      BY <1>14, <1>0 DEF Shrink, Grow, Connected, TypeOK
    <2> QED  BY <1>14, <2>1 DEF Shrink, Grow, DataOK, TypeOK
  <1>15. CASE Halt \/ Continue
    <2>1. qemu' = [qemu EXCEPT ![socket] = "paused"] \/ qemu' = [qemu EXCEPT ![socket] = "run"]
      BY <1>15 DEF Halt, Continue
    <2>2. qemu' \in [Process -> {"unborn", "run", "paused", "dying", "zombie", "gone"}]
      BY <2>1 DEF TypeOK
    <2> QED  BY <1>15, <2>2, SucceedsOK DEF Halt, Continue, DataOK, TypeOK
  <1>16. CASE Thaw \/ ThawFails
    <2>1. guest' \in [Process -> {"active", "quiesced"}]
      BY <1>16 DEF Thaw, ThawFails, Connected, TypeOK
    <2> QED  BY <1>16, <2>1, <1>0, SucceedsOK DEF Thaw, ThawFails, DataOK, TypeOK
  <1>17. CASE ControlFails
    BY <1>17, <1>0, DataSame DEF ControlFails, CallFails, OperationBreaks, TypeOK
  <1>18. CASE Die
    BY <1>18, <1>0, DataSame DEF Die, OperationBreaks, Remembered, OperatorAt, TypeOK
  <1>19. CASE SetMemoryDecide \/ ConfigureDecide
    BY <1>19, DataSame DEF SetMemoryDecide, ConfigureDecide, TypeOK
  <1>20. ASSUME NEW n \in Memory, SetBalloon(n) \/ WriteResources(n)  PROVE DataOK'
    <2>1. target' \in [Process -> Memory]
      BY <1>20 DEF SetBalloon, WriteResources, Connected, TypeOK
    <2> QED  BY <1>20, <2>1 DEF SetBalloon, WriteResources, DataOK, TypeOK
  <1> QED
    BY <1>1, <1>2, <1>3, <1>4, <1>5, <1>6, <1>7, <1>8, <1>9, <1>10, <1>11, <1>12, <1>13,
       <1>14,
       <1>15, <1>16, <1>17, <1>18, <1>19, <1>20, <1>21 DEF Operate

LEMMA TypeStep ==
  ASSUME TypeOK, Remembered, [DriverNext]_driverVars
  PROVE  TypeOK'
  <1>1. CASE Operate  BY <1>1, OperateControl, OperateData, TypePartsNext
  <1>2. CASE \/ Observe \/ StatusRead(Observer) \/ StatusForget(Observer) \/ StatusProbe(Observer)
             \/ \E p \in Process : Exit(p) \/ Reap(p)
    <2>1. ControlOK'  BY <1>2, OthersControl
    <2>2. CASE Observe
      BY <2>2, DataSame, <2>1, TypePartsNext DEF Observe, TypeOK, machine, paths, entry,
                                                 driverHistory
    <2>3. CASE StatusRead(Observer) \/ StatusForget(Observer) \/ StatusProbe(Observer)
      BY <2>3, StatusData, <2>1, TypePartsNext
    <2>4. CASE \E p \in Process : Exit(p) \/ Reap(p)  BY <2>4, ExitData, <2>1, TypePartsNext
    <2> QED  BY <1>2, <2>2, <2>3, <2>4
  <1>3. CASE UNCHANGED driverVars
    BY <1>3 DEF driverVars, machine, paths, entry, local, driverHistory, TypeOK
  <1> QED  BY <1>1, <1>2, <1>3 DEF DriverNext

-----------------------------------------------------------------------------
(* What the operator remembers of the pid file *)

\* Nothing is claimed of the other steps of an operation.
LEMMA RememberedElsewhere ==
  ASSUME pc'[Operator] \notin {"probe", "decide", "spawn", "pid", "fill"}  PROVE Remembered'
  BY DEF Remembered, OperatorAt

\* The pid file may go while the operator holds what it read of it.
LEMMA RememberedUntouched ==
  ASSUME Remembered, UNCHANGED <<pc[Operator], seen[Operator], view>>, pidfile' \in {pidfile, 0}
  PROVE  Remembered'
  BY DEF Remembered, OperatorAt

LEMMA GotoElsewhere ==
  ASSUME TypeOK, NEW step \in Steps, OperatorGoto(step), step \notin {"probe", "decide", "spawn", "pid", "fill"}
  PROVE  Remembered'
  BY GotoOK, RememberedElsewhere

LEMMA EndsElsewhere ==
  ASSUME TypeOK, OperationEnds  PROVE Remembered'
  BY EndsOK, RememberedElsewhere

\* Remembered is inductive.
LEMMA RememberedStep ==
  ASSUME TypeOK, Remembered, [DriverNext]_driverVars
  PROVE  Remembered'
  <1> USE DEF machine, paths, entry, local, driverHistory
  <1>1. ASSUME NEW o \in {"start", "stop", "delete", "pause", "resume", "set_memory", "configure"}, Begin(o)
        PROVE  Remembered'
    <2>1. pc'[Operator] \in {"signal", "status"}  BY <1>1 DEF Begin, TypeOK
    <2> QED  BY <2>1, RememberedElsewhere
  <1>2. CASE StatusRead(Operator)
    <2>1. CASE pidfile = 0
      <3>1. pc'[Operator] = "decide" /\ view' = "Stopped" /\ pidfile' = 0
        BY <1>2, <2>1 DEF StatusRead, Learns, TypeOK, Empty
      <3> QED  BY <3>1 DEF Remembered, OperatorAt
    <2>2. CASE pidfile \in Process
      <3>1. pc'[Operator] = "probe" /\ pidfile' = pidfile /\ seen'[Operator] = pidfile
        BY <1>2, <2>2 DEF StatusRead, TypeOK, Empty
      <3> QED  BY <2>2, <3>1 DEF Remembered, OperatorAt, TypeOK
    <2>3. CASE pidfile = Empty
      <3>1. pc'[Operator] = "corrupt"
        BY <1>2, <2>3 DEF StatusRead, TypeOK, Empty
      <3> QED  BY <3>1, RememberedElsewhere
    <2> QED  BY <1>2, <2>1, <2>2, <2>3 DEF StatusRead
  <1>3. CASE StatusProbe(Operator)
    <2>1. pc[Operator] = "probe" /\ pc'[Operator] = "decide" /\ seen' = seen
      BY <1>3 DEF StatusProbe, Learns, TypeOK
    <2>2. CASE seen[Operator] \in Signallable
      <3>1. view' \in {"Running", "Paused"} /\ pidfile' = pidfile
        BY <1>3, <2>2 DEF StatusProbe, Learns, Reported
      <3> QED  BY <2>1, <3>1 DEF Remembered, OperatorAt
    <2>3. CASE seen[Operator] \notin Signallable
      <3>1. view' = "Stopped" /\ pidfile' = 0
        BY <1>3, <2>3 DEF StatusProbe, Learns
      <3> QED  BY <2>1, <3>1 DEF Remembered, OperatorAt
    <2> QED  BY <2>2, <2>3
  <1>13. CASE StatusForget(Operator)
    <2>1. pc'[Operator] = "decide" /\ view' = "Stopped" /\ pidfile' = 0
      BY <1>13 DEF StatusForget, Learns, TypeOK
    <2> QED  BY <2>1 DEF Remembered, OperatorAt
  <1>14. CASE TruncatePid
    <2>1. OperatorAt("pid") /\ pc'[Operator] = "fill" /\ seen' = seen  BY <1>14, GotoOK DEF TruncatePid
    <2> QED  BY <2>1 DEF Remembered, OperatorAt
  <1>4. CASE StartDecide
    <2>1. CASE view = "Running"  BY <1>4, <2>1, EndsElsewhere DEF StartDecide, Succeeds
    <2>2. CASE view # "Running"
      <3>1. OperatorGoto("spawn") /\ OperatorAt("decide") /\ pidfile' = pidfile  BY <1>4,
                                                                    <2>2 DEF StartDecide
      <3>2. pc'[Operator] = "spawn" /\ UNCHANGED <<seen, view>>  BY <3>1, GotoOK
      <3> QED  BY <3>1, <3>2, <2>2 DEF Remembered, OperatorAt, TypeOK
    <2> QED  BY <2>1, <2>2
  <1>5. CASE Spawn
    <2>1. pc'[Operator] = "pid" /\ seen'[Operator] \in Process  BY <1>5 DEF Spawn, TypeOK
    <2> QED  BY <2>1 DEF Remembered, OperatorAt
  <1>6. CASE Decline \/ StartFails \/ WritePid \/ WritePidFails \/ Remove \/ Halt \/ Thaw \/ ThawFails
             \/ ControlFails \/ Die
    BY <1>6, EndsElsewhere DEF Decline, Refuses, StartFails, WritePid, WritePidFails,
                               Remove, Halt, Thaw,
       ThawFails, ControlFails, CallFails, Die, Succeeds, OperationBreaks
  <1>7. CASE Signal \/ SignalFails \/ Unpid
    BY <1>7, EndsElsewhere, GotoElsewhere DEF Signal, SignalFails, Unpid, AfterSignal,
                                              Succeeds, OperationBreaks
  <1>8. CASE PauseDecide \/ ResumeDecide \/ SetMemoryDecide \/ ConfigureDecide
    BY <1>8, EndsElsewhere, GotoElsewhere DEF PauseDecide, ResumeDecide, SetMemoryDecide,
                                              ConfigureDecide, Succeeds
  <1>9. CASE Prepare \/ PrepareFails \/ Shrink \/ Continue \/ Grow
    BY <1>9, GotoElsewhere DEF Prepare, PrepareFails, Shrink, Continue, Grow
  <1>10. ASSUME NEW n \in Memory, SetBalloon(n) \/ WriteResources(n)  PROVE Remembered'
    BY <1>10, EndsElsewhere DEF SetBalloon, WriteResources
  <1>11. CASE \/ Observe \/ StatusRead(Observer) \/ StatusForget(Observer) \/ StatusProbe(Observer)
              \/ \E p \in Process : Exit(p) \/ Reap(p)
    <2>1. UNCHANGED <<view, pc[Operator], seen[Operator]>>  BY <1>11, OthersControl
    <2>2. pidfile' \in {pidfile, 0}
      BY <1>11 DEF Observe, StatusRead, StatusForget, StatusProbe, Exit, Reap
    <2> QED  BY <2>1, <2>2, RememberedUntouched
  <1>12. CASE UNCHANGED driverVars  BY <1>12, RememberedUntouched DEF driverVars
  <1> QED
    BY <1>1, <1>2, <1>3, <1>4, <1>5, <1>6, <1>7, <1>8, <1>9, <1>10, <1>11, <1>12,
       <1>13, <1>14 DEF DriverNext, Operate

-----------------------------------------------------------------------------
(* No live VM is lost *)

\* A step that starts nothing, forgets nothing and stays clear of the steps
\* at which pid file and process may differ.
LEMMA TrackedUntouched ==
  ASSUME Tracked, Live' \subseteq Live, \A p \in Live' : p \in forsaken => p \in forsaken',
         pidfile' = pidfile,
         pc[Operator] \notin {"pid", "fill", "unpid"},
         pc'[Operator] \notin {"pid", "fill", "unpid"}
  PROVE  Tracked'
  BY DEF Tracked, OperatorAt

\* The same when only the status of the processes changes.
LEMMA LiveSame ==
  ASSUME UNCHANGED qemu  PROVE Live' = Live
  BY DEF Live

LEMMA TrackedCalm ==
  ASSUME Tracked, UNCHANGED <<qemu, pidfile, forsaken>>,
         pc[Operator] \notin {"pid", "fill", "unpid"},
         pc'[Operator] \notin {"pid", "fill", "unpid"}
  PROVE  Tracked'
  BY LiveSame, TrackedUntouched

\* The same at any step of the operator, when another one takes it.
LEMMA TrackedOthers ==
  ASSUME Tracked, UNCHANGED <<pc[Operator], seen[Operator]>>, Live' \subseteq Live,
         \A p \in Live' : p \in forsaken => p \in forsaken',
         pidfile' = pidfile \/ \A p \in Live' : p = pidfile => p \in forsaken'
  PROVE  Tracked'
  BY DEF Tracked, OperatorAt

LEMMA SignalTracked ==
  ASSUME TypeOK, Tracked, Signal
  PROVE  Tracked'
  <1> USE DEF machine, paths, entry, local, driverHistory
  <1>1. CASE pidfile = 0
    <2>1. pc'[Operator] \in {"idle", "remove"}
      BY <1>1, EndsOK, GotoOK DEF Signal, AfterSignal, Succeeds
    <2> QED  BY <1>1, <2>1, TrackedCalm DEF Signal, OperatorAt
  <1>2. CASE pidfile # 0
    <2>1. pc'[Operator] = "unpid" /\ UNCHANGED <<forsaken, pidfile>> /\ OperatorAt("signal")
      BY <1>2, GotoOK DEF Signal
    <2>2. pidfile \in Process /\ qemu' = [qemu EXCEPT ![pidfile] = IF @ \in {"run", "paused"} THEN "dying" ELSE @]
      BY <1>2 DEF Signal, TypeOK
    <2>3. Live' \subseteq Live /\ pidfile \notin Live'
      BY <2>2 DEF Live, TypeOK
    <2> QED  BY <2>1, <2>3 DEF Tracked, OperatorAt
  <1> QED  BY <1>1, <1>2

LEMMA SpawnTracked ==
  ASSUME TypeOK, Tracked, Remembered, Spawn
  PROVE  Tracked'
  <1>1. PICK p \in Process :
            /\ OperatorAt("spawn") /\ qemu' = [qemu EXCEPT ![p] = IF Holding = {} THEN "run" ELSE "dying"]
            /\ seen' = [seen EXCEPT ![Operator] = p]
            /\ pc' = [pc EXCEPT ![Operator] = "pid"]
            /\ forsaken' = IF view = "Paused" THEN forsaken \cup {seen[Operator]} ELSE forsaken
    BY DEF Spawn
  <1>2. pc'[Operator] = "pid" /\ seen'[Operator] = p  BY <1>1 DEF TypeOK
  <1>3. Live' \subseteq Live \cup {p}  BY <1>1 DEF Live, TypeOK
  <1>4. ASSUME NEW q \in Live  PROVE q \in forsaken'
    <2>1. pidfile = q \/ q \in forsaken  BY <1>1, <1>4 DEF Tracked, OperatorAt
    <2>2. q # 0  BY <1>4 DEF Live
    <2> QED  BY <1>1, <2>1, <2>2 DEF Remembered, OperatorAt
  <1> QED  BY <1>2, <1>3, <1>4 DEF Tracked, OperatorAt

\* Tracked is inductive.
LEMMA TrackedStep ==
  ASSUME TypeOK, Tracked, Remembered, [DriverNext]_driverVars
  PROVE  Tracked'
  <1> USE DEF machine, paths, entry, local, driverHistory
  <1>1. ASSUME NEW o \in {"start", "stop", "delete", "pause", "resume", "set_memory", "configure"}, Begin(o)
        PROVE  Tracked'
    <2>1. pc'[Operator] \in {"signal", "status"}  BY <1>1 DEF Begin, TypeOK
    <2> QED  BY <1>1, <2>1, TrackedCalm DEF Begin, OperatorAt
  <1>2. CASE StatusRead(Operator)
    <2>1. pc'[Operator] \in {"decide", "probe", "corrupt"}  BY <1>2 DEF StatusRead, Learns, TypeOK
    <2> QED  BY <1>2, <2>1, TrackedCalm DEF StatusRead
  <1>3. CASE StatusProbe(Operator)
    <2>1. pc[Operator] = "probe" /\ pc'[Operator] = "decide" /\ UNCHANGED qemu
      BY <1>3 DEF StatusProbe, Learns, TypeOK
    <2>2. CASE UNCHANGED <<pidfile, forsaken>>  BY <2>1, <2>2, TrackedCalm
    <2>3. CASE pidfile' = 0 /\ forsaken' = forsaken \cup ({pidfile} \cap Live)
      BY <2>1, <2>3, LiveSame DEF Tracked, OperatorAt
    <2> QED  BY <1>3, <2>2, <2>3 DEF StatusProbe
  <1>19. CASE StatusForget(Operator)
    <2>1. pc[Operator] = "corrupt" /\ pc'[Operator] = "decide" /\ UNCHANGED qemu
      BY <1>19 DEF StatusForget, Learns, TypeOK
    <2> QED  BY <1>19, <2>1, LiveSame DEF StatusForget, Tracked, OperatorAt
  <1>4. CASE StartDecide \/ PauseDecide \/ ResumeDecide \/ SetMemoryDecide \/ ConfigureDecide
    <2>1. pc[Operator] = "decide" /\ pc'[Operator] \in {"idle", "spawn", "prepare", "cont", "balloon", "write"}
      BY <1>4, EndsOK, GotoOK DEF StartDecide, PauseDecide, ResumeDecide, SetMemoryDecide,
                                  ConfigureDecide, Succeeds, OperatorAt
    <2> QED
      BY <1>4, <2>1, TrackedCalm DEF StartDecide, PauseDecide, ResumeDecide,
                                     SetMemoryDecide, ConfigureDecide
  <1>5. CASE Decline \/ StartFails \/ Thaw \/ ThawFails \/ ControlFails
    <2>1. pc'[Operator] = "idle"
      BY <1>5, EndsOK DEF Decline, Refuses, StartFails, Thaw, ThawFails, ControlFails,
                          CallFails, Succeeds, OperationBreaks
    <2> QED
      BY <1>5, <2>1, TrackedCalm DEF Decline, Refuses, StartFails, Thaw, ThawFails,
                                     ControlFails, CallFails, OperatorAt
  <1>6. CASE Spawn  BY <1>6, SpawnTracked
  <1>7. CASE WritePid \/ WritePidFails
    <2>1. pc[Operator] \in {"pid", "fill"} /\ pc'[Operator] = "idle" /\ Live' = Live
      BY <1>7, EndsOK, LiveSame DEF WritePid, WritePidFails, Succeeds, OperationBreaks, OperatorAt
    <2> QED  BY <1>7, <2>1 DEF WritePid, WritePidFails, Tracked, OperatorAt
  <1>20. CASE TruncatePid
    <2>1. /\ pc[Operator] = "pid" /\ pc'[Operator] = "fill" /\ seen' = seen
          /\ Live' = Live /\ UNCHANGED forsaken
      BY <1>20, GotoOK, LiveSame DEF TruncatePid, OperatorAt
    <2> QED  BY <2>1 DEF Tracked, OperatorAt
  <1>8. CASE Signal  BY <1>8, SignalTracked
  <1>9. CASE SignalFails
    <2>1. pc'[Operator] \in {"idle", "remove"}
      BY <1>9, EndsOK, GotoOK DEF SignalFails, OperationBreaks
    <2> QED  BY <1>9, <2>1, TrackedCalm DEF SignalFails, OperatorAt
  <1>10. CASE Unpid
    <2>1. pc[Operator] = "unpid" /\ pc'[Operator] \in {"idle", "remove"} /\ Live' = Live /\ UNCHANGED forsaken
      BY <1>10, EndsOK, GotoOK, LiveSame DEF Unpid, AfterSignal, Succeeds, OperatorAt
    <2> QED  BY <2>1 DEF Tracked, OperatorAt
  <1>11. CASE Remove
    <2>1. pc[Operator] = "remove" /\ pc'[Operator] = "idle" /\ Live' = Live
      BY <1>11, EndsOK, LiveSame DEF Remove, OperatorAt
    <2> QED  BY <1>11, <2>1 DEF Remove, Tracked, OperatorAt
  <1>12. CASE Prepare \/ PrepareFails \/ Shrink \/ Grow
    <2>1. pc'[Operator] \in {"shrink", "halt", "thaw"}  BY <1>12, GotoOK DEF Prepare, PrepareFails, Shrink, Grow
    <2> QED  BY <1>12, <2>1, TrackedCalm DEF Prepare, PrepareFails, Shrink, Grow, OperatorAt
  <1>13. CASE Halt \/ Continue
    <2>1. pc[Operator] \in {"halt", "cont"} /\ pc'[Operator] \in {"idle", "grow"} /\ UNCHANGED <<pidfile, forsaken>>
      BY <1>13, EndsOK, GotoOK DEF Halt, Continue, Succeeds, OperatorAt
    <2>2. Live' \subseteq Live  BY <1>13 DEF Halt, Continue, Connected, Live, TypeOK
    <2> QED  BY <2>1, <2>2, TrackedUntouched
  <1>14. CASE Die
    <2>1. pc'[Operator] = "idle" /\ Live' = Live /\ pidfile' = pidfile
      BY <1>14, EndsOK, LiveSame DEF Die, OperationBreaks
    <2> QED  BY <1>14, <2>1 DEF Die, Tracked, OperatorAt
  <1>15. ASSUME NEW n \in Memory, SetBalloon(n) \/ WriteResources(n)  PROVE Tracked'
    <2>1. pc'[Operator] = "idle"  BY <1>15, EndsOK DEF SetBalloon, WriteResources
    <2> QED  BY <1>15, <2>1, TrackedCalm DEF SetBalloon, WriteResources, OperatorAt
  <1>16. CASE Observe \/ StatusRead(Observer) \/ StatusForget(Observer) \/ StatusProbe(Observer)
    <2>1. UNCHANGED <<pc[Operator], seen[Operator]>>  BY <1>16, OthersControl
    <2>2. Live' = Live  BY <1>16, LiveSame DEF Observe, StatusRead, StatusForget, StatusProbe
    <2>3. \A p \in Live' : p \in forsaken => p \in forsaken'
      BY <1>16 DEF Observe, StatusRead, StatusForget, StatusProbe
    <2>4. pidfile' = pidfile \/ \A p \in Live' : p = pidfile => p \in forsaken'
      BY <1>16, <2>2 DEF Observe, StatusRead, StatusForget, StatusProbe
    <2> QED  BY <2>1, <2>2, <2>3, <2>4, TrackedOthers
  <1>17. ASSUME NEW p \in Process, Exit(p) \/ Reap(p)  PROVE Tracked'
    <2>1. UNCHANGED <<pc[Operator], seen[Operator], pidfile>>  BY <1>17 DEF Exit, Reap
    <2>2. Live' \subseteq Live \ {p}  BY <1>17 DEF Exit, Reap, Live, TypeOK
    <2>3. \A q \in Live' : q \in forsaken => q \in forsaken'  BY <1>17, <2>2 DEF Exit, Reap
    <2> QED  BY <2>1, <2>2, <2>3, TrackedOthers
  <1>18. CASE UNCHANGED driverVars  BY <1>18, LiveSame, TrackedOthers DEF driverVars
  <1> QED
    BY <1>1, <1>2, <1>3, <1>4, <1>5, <1>6, <1>7, <1>8, <1>9, <1>10, <1>11, <1>12, <1>13,
       <1>14,
       <1>15, <1>16, <1>17, <1>18, <1>19, <1>20 DEF DriverNext, Operate


-----------------------------------------------------------------------------
(* The workload, the envelope and the registry *)

\* In the middle of a pause the guest at the sockets is quiesced first, and in the
\* middle of a resume its processors run first.
Midway == {"shrink", "halt", "grow", "thaw"}
GuestInv ==
    \A p \in Live \ uncontrolled :
        IF p = socket /\ pc[Operator] \in {"shrink", "halt"} THEN guest[p] = "quiesced"
        ELSE IF p = socket /\ pc[Operator] \in {"grow", "thaw"} THEN qemu[p] = "run"
        ELSE guest[p] = "active" <=> qemu[p] = "run"

\* The configuration is still what the operation has read, and a configure that is
\* about to write has seen that there is no VM.
Fits(p) == booted[p] = resources /\ target[p] \in 1 .. resources
EnvelopeInv ==
    /\ pidfile \in Live => Fits(pidfile)
    /\ (OperatorAt("pid") \/ OperatorAt("fill")) /\ seen[Operator] \in Live => Fits(seen[Operator])
    /\ op # "none" => cfg = resources
    /\ OperatorAt("write") => pidfile = 0

\* The VM that is neither lost nor doubtful answers at the sockets; what status_with
\* said of it still holds; and an operation that has not changed anything yet, or
\* has told the registry, leaves it told the truth.
Known == Live \ (forsaken \cup uncontrolled)
RegistryInv ==
    /\ \A p \in Known : p = socket
    /\ OperatorAt("decide") =>
          \A p \in Known :
              /\ view = "Running" => qemu[p] = "run"
              /\ view = "Paused" => qemu[p] = "paused"
    /\ OperatorAt("pid") \/ OperatorAt("fill") => \A p \in Known : qemu[p] = "run"
    /\ pc[Operator] \in {"idle", "status", "probe", "corrupt", "decide", "spawn", "balloon", "write"}
       /\ ~stale /\ registered
       => \A p \in Known : \/ lastStatus = "running" /\ qemu[p] = "run"
                           \/ lastStatus = "paused" /\ qemu[p] = "paused"

ResourcesInv == IInv /\ GuestInv /\ EnvelopeInv /\ RegistryInv

LEMMA InitResources == DriverInit => ResourcesInv
  <1> SUFFICES ASSUME DriverInit PROVE ResourcesInv  OBVIOUS
  <1>1. Live = {}  BY DEF DriverInit, Live
  <1>2. GuestInv /\ EnvelopeInv /\ RegistryInv
    BY <1>1 DEF DriverInit, GuestInv, EnvelopeInv, RegistryInv, Known, OperatorAt
  <1> QED  BY <1>2, InitInv DEF ResourcesInv

\* Steps in which nothing happens to a VM.
LEMMA GuestCalm ==
  ASSUME GuestInv, UNCHANGED <<qemu, guest>>, uncontrolled \subseteq uncontrolled',
         pc[Operator] \notin Midway, pc'[Operator] \notin Midway
  PROVE  GuestInv'
  BY DEF GuestInv, Midway, Live

LEMMA GuestElsewhere ==
  ASSUME GuestInv, UNCHANGED <<qemu, guest, socket, pc[Operator]>>, uncontrolled \subseteq uncontrolled'
  PROVE  GuestInv'
  BY DEF GuestInv, Live

\* An operation that fails in the middle leaves its VM doubtful.
LEMMA GuestBreaks ==
  ASSUME GuestInv, UNCHANGED <<qemu, guest>>, uncontrolled' = uncontrolled \cup Controlled,
         pc'[Operator] \notin Midway
  PROVE  GuestInv'
  BY DEF GuestInv, Midway, Live, Controlled

LEMMA GuestStep ==
  ASSUME IInv, GuestInv, [DriverNext]_driverVars
  PROVE  GuestInv'
  <1> USE DEF machine, paths, entry, local, driverHistory
  <1>0. TypeOK  BY DEF IInv
  <1>1. ASSUME NEW o \in {"start", "stop", "delete", "pause", "resume", "set_memory", "configure"}, Begin(o)
        PROVE  GuestInv'
    <2>1. pc'[Operator] \in {"signal", "status"}  BY <1>0, <1>1 DEF Begin, TypeOK
    <2> QED  BY <1>1, <2>1, GuestCalm DEF Begin, OperatorAt, Midway
  <1>2. CASE StatusRead(Operator)
    <2>1. pc'[Operator] \in {"decide", "probe", "corrupt"}  BY <1>0, <1>2 DEF StatusRead, Learns, TypeOK
    <2> QED  BY <1>2, <2>1, GuestCalm DEF StatusRead, Midway
  <1>3. CASE StatusProbe(Operator)
    <2>1. pc[Operator] = "probe" /\ pc'[Operator] = "decide"
      BY <1>0, <1>3 DEF StatusProbe, Learns, TypeOK
    <2> QED  BY <1>3, <2>1, GuestCalm DEF StatusProbe, Midway
  <1>22. CASE StatusForget(Operator)
    <2>1. pc[Operator] = "corrupt" /\ pc'[Operator] = "decide"
      BY <1>0, <1>22 DEF StatusForget, Learns, TypeOK
    <2> QED  BY <1>22, <2>1, GuestCalm DEF StatusForget, Midway
  <1>23. CASE TruncatePid
    <2>1. pc[Operator] = "pid" /\ pc'[Operator] = "fill"  BY <1>0, <1>23, GotoOK DEF TruncatePid, OperatorAt
    <2> QED  BY <1>23, <2>1, GuestCalm DEF TruncatePid, Midway
  <1>4. CASE StartDecide \/ PauseDecide \/ ResumeDecide \/ SetMemoryDecide \/ ConfigureDecide
    <2>1. pc[Operator] = "decide" /\ pc'[Operator] \in {"idle", "spawn", "prepare", "cont", "balloon", "write"}
      BY <1>0, <1>4, EndsOK, GotoOK DEF StartDecide, PauseDecide, ResumeDecide,
                                        SetMemoryDecide, ConfigureDecide, Succeeds, OperatorAt
    <2> QED
      BY <1>4, <2>1, GuestCalm DEF StartDecide, PauseDecide, ResumeDecide, SetMemoryDecide,
                                   ConfigureDecide, Midway
  <1>5. CASE Decline \/ StartFails \/ WritePid \/ WritePidFails \/ Remove
    <2>1. pc'[Operator] = "idle"
      BY <1>0, <1>5, EndsOK DEF Decline, Refuses, StartFails, WritePid, WritePidFails,
                                Remove, Succeeds, OperationBreaks
    <2> QED
      BY <1>5, <2>1, GuestCalm DEF Decline, Refuses, StartFails, WritePid, WritePidFails,
                                   Remove, OperatorAt, Midway
  <1>6. CASE Spawn
    <2>1. PICK p \in Process :
            /\ OperatorAt("spawn") /\ qemu' = [qemu EXCEPT ![p] = IF Holding = {} THEN "run" ELSE "dying"]
            /\ guest' = [guest EXCEPT ![p] = "active"] /\ pc' = [pc EXCEPT ![Operator] = "pid"]
            /\ uncontrolled' = uncontrolled
      BY <1>6 DEF Spawn
    <2>2. pc'[Operator] = "pid"  BY <1>0, <2>1 DEF TypeOK
    <2>3. ASSUME NEW q \in Live' \ uncontrolled'  PROVE guest'[q] = "active" <=> qemu'[q] = "run"
      <3>1. CASE q = p  BY <1>0, <2>1, <2>3, <3>1 DEF Live, TypeOK
      <3>2. CASE q # p
        <4>1. q \in Live \ uncontrolled /\ qemu'[q] = qemu[q] /\ guest'[q] = guest[q]
          BY <1>0, <2>1, <2>3, <3>2 DEF Live, TypeOK
        <4> QED  BY <2>1, <4>1 DEF GuestInv, OperatorAt
      <3> QED  BY <3>1, <3>2
    <2> QED  BY <2>2, <2>3 DEF GuestInv
  <1>7. CASE Signal
    <2>1. pc[Operator] = "signal" /\ pc'[Operator] \in {"idle", "remove", "unpid"}
      BY <1>0, <1>7, EndsOK, GotoOK DEF Signal, AfterSignal, Succeeds, OperatorAt
    <2>2. UNCHANGED <<guest, uncontrolled>>  BY <1>7 DEF Signal, AfterSignal
    <2>3. \A p \in Live' : p \in Live /\ qemu'[p] = qemu[p]
      BY <1>0, <1>7 DEF Signal, Live, TypeOK
    <2> QED  BY <2>1, <2>2, <2>3 DEF GuestInv
  <1>8. CASE SignalFails \/ Unpid
    <2>1. pc[Operator] \in {"signal", "unpid"} /\ pc'[Operator] \in {"idle", "remove"}
      BY <1>0, <1>8, EndsOK, GotoOK DEF SignalFails, Unpid, AfterSignal, Succeeds, OperationBreaks, OperatorAt
    <2> QED  BY <1>8, <2>1, GuestCalm DEF SignalFails, Unpid, AfterSignal, Midway
  <1>9. CASE Prepare
    <2>1. pc[Operator] = "prepare" /\ pc'[Operator] = "shrink" /\ UNCHANGED <<qemu, uncontrolled, socket>>
      BY <1>0, <1>9, GotoOK DEF Prepare, OperatorAt
    <2>2. socket \in Process /\ guest' = [guest EXCEPT ![socket] = "quiesced"]
      BY <1>9 DEF Prepare, Connected
    <2>3. guest'[socket] = "quiesced" /\ \A q \in Process : q # socket => guest'[q] = guest[q]
      BY <1>0, <2>2 DEF TypeOK
    <2> QED  BY <2>1, <2>3 DEF GuestInv, Live
  <1>10. CASE PrepareFails
    <2>1. /\ pc[Operator] = "prepare" /\ pc'[Operator] = "shrink" /\ UNCHANGED <<qemu, socket>>
          /\ uncontrolled' = uncontrolled \cup Controlled
      BY <1>0, <1>10, GotoOK DEF PrepareFails, OperatorAt
    <2>2. \A q \in Process : q # socket => guest'[q] = guest[q]
      BY <1>0, <1>10 DEF PrepareFails, TypeOK
    <2>3. \A q \in Live' \ uncontrolled' : q # socket /\ q \in Live \ uncontrolled
      BY <2>1 DEF Live, Controlled
    <2> QED  BY <2>1, <2>2, <2>3 DEF GuestInv, Live
  <1>11. CASE Shrink
    <2>1. pc[Operator] = "shrink" /\ pc'[Operator] = "halt" /\ UNCHANGED <<qemu, guest, socket, uncontrolled>>
      BY <1>0, <1>11, GotoOK DEF Shrink, OperatorAt
    <2> QED  BY <2>1 DEF GuestInv, Live
  <1>12. CASE Halt
    <2>1. pc[Operator] = "halt" /\ pc'[Operator] = "idle" /\ UNCHANGED <<guest, uncontrolled, socket>>
      BY <1>0, <1>12, EndsOK DEF Halt, Succeeds, OperatorAt
    <2>2. socket \in Live /\ qemu' = [qemu EXCEPT ![socket] = "paused"]
      BY <1>12 DEF Halt, Connected, Live
    <2>3. qemu'[socket] = "paused" /\ \A q \in Process : q # socket => qemu'[q] = qemu[q]
      BY <1>0, <2>2 DEF TypeOK, Live
    <2> QED  BY <2>1, <2>2, <2>3 DEF GuestInv, Live
  <1>13. CASE Continue
    <2>1. pc[Operator] = "cont" /\ pc'[Operator] = "grow" /\ UNCHANGED <<guest, uncontrolled, socket>>
      BY <1>0, <1>13, GotoOK DEF Continue, OperatorAt
    <2>2. socket \in Live /\ qemu' = [qemu EXCEPT ![socket] = "run"]
      BY <1>13 DEF Continue, Connected, Live
    <2>3. qemu'[socket] = "run" /\ \A q \in Process : q # socket => qemu'[q] = qemu[q]
      BY <1>0, <2>2 DEF TypeOK, Live
    <2> QED  BY <2>1, <2>2, <2>3 DEF GuestInv, Live
  <1>14. CASE Grow
    <2>1. pc[Operator] = "grow" /\ pc'[Operator] = "thaw" /\ UNCHANGED <<qemu, guest, socket, uncontrolled>>
      BY <1>0, <1>14, GotoOK DEF Grow, OperatorAt
    <2> QED  BY <2>1 DEF GuestInv, Live
  <1>15. CASE Thaw
    <2>1. pc[Operator] = "thaw" /\ pc'[Operator] = "idle" /\ UNCHANGED <<qemu, uncontrolled, socket>>
      BY <1>0, <1>15, EndsOK DEF Thaw, Succeeds, OperatorAt
    <2>2. socket \in Process /\ guest' = [guest EXCEPT ![socket] = "active"] /\ qemu[socket] = "run"
      BY <1>15 DEF Thaw, Connected
    <2>3. guest'[socket] = "active" /\ \A q \in Process : q # socket => guest'[q] = guest[q]
      BY <1>0, <2>2 DEF TypeOK
    <2> QED  BY <2>1, <2>2, <2>3 DEF GuestInv, Live
  <1>16. CASE ThawFails \/ ControlFails
    <2>1. pc'[Operator] = "idle"
      BY <1>0, <1>16, EndsOK DEF ThawFails, ControlFails, CallFails, Succeeds, OperationBreaks
    <2> QED  BY <1>16, <2>1, GuestBreaks DEF ThawFails, ControlFails, CallFails, Midway
  <1>17. CASE Die
    <2>1. pc'[Operator] = "idle" /\ UNCHANGED <<qemu, guest>>
      BY <1>0, <1>17, EndsOK DEF Die, OperationBreaks
    <2>2. CASE pc[Operator] \in Midway
      BY <1>17, <2>1, <2>2, GuestBreaks DEF Die, Midway
    <2>3. CASE pc[Operator] \notin Midway
      BY <1>17, <2>1, <2>3, GuestCalm DEF Die, Midway
    <2> QED  BY <2>2, <2>3
  <1>18. ASSUME NEW n \in Memory, SetBalloon(n) \/ WriteResources(n)  PROVE GuestInv'
    <2>1. pc[Operator] \in {"balloon", "write"} /\ pc'[Operator] = "idle"
      BY <1>0, <1>18, EndsOK DEF SetBalloon, WriteResources, OperatorAt
    <2> QED  BY <1>18, <2>1, GuestCalm DEF SetBalloon, WriteResources, Midway
  <1>19. CASE Observe \/ StatusRead(Observer) \/ StatusForget(Observer) \/ StatusProbe(Observer)
    <2>1. UNCHANGED pc[Operator]  BY <1>0, <1>19, OthersControl
    <2> QED  BY <1>19, <2>1, GuestElsewhere DEF Observe, StatusRead, StatusForget, StatusProbe
  <1>20. ASSUME NEW p \in Process, Exit(p) \/ Reap(p)  PROVE GuestInv'
    <2>1. UNCHANGED <<pc, socket>>  BY <1>20 DEF Exit, Reap
    <2>2. \A q \in Live' \ uncontrolled' : q \in Live \ uncontrolled /\ qemu'[q] = qemu[q] /\ guest'[q] = guest[q]
      BY <1>0, <1>20 DEF Exit, Reap, Live, TypeOK
    <2> QED  BY <2>1, <2>2 DEF GuestInv
  <1>21. CASE UNCHANGED driverVars  BY <1>21, GuestElsewhere DEF driverVars
  <1> QED
    BY <1>1, <1>2, <1>3, <1>4, <1>5, <1>6, <1>7, <1>8, <1>9, <1>10, <1>11, <1>12, <1>13,
       <1>14,
       <1>15, <1>16, <1>17, <1>18, <1>19, <1>20, <1>21, <1>22, <1>23 DEF DriverNext, Operate

\* Steps of the operator that give no VM another envelope: where they lead to is
\* neither the writing of a pid file nor that of an envelope.
LEMMA EnvelopeCalm ==
  ASSUME EnvelopeInv, UNCHANGED resources, Live' \subseteq Live, pidfile' \in {pidfile, 0},
         \A p \in Live' : booted'[p] = booted[p] /\ target'[p] \in {target[p], 1, resources},
         op' # "none" => op # "none" /\ cfg' = cfg,
         pc'[Operator] \notin {"pid", "fill", "write"}, resources \in Memory
  PROVE  EnvelopeInv'
  <1>1. ASSUME NEW p \in Live', Fits(p)  PROVE Fits(p)'
    BY <1>1 DEF Fits
  <1>2. pidfile' \in Live' => Fits(pidfile)'
    <2>1. pidfile' \in Live' => pidfile' = pidfile  BY DEF Live
    <2> QED  BY <1>1, <2>1 DEF EnvelopeInv, Fits
  <1> QED  BY <1>2 DEF EnvelopeInv, OperatorAt

LEMMA EnvelopeElsewhere ==
  ASSUME EnvelopeInv, UNCHANGED <<resources, op, cfg, pc[Operator], seen[Operator]>>, Live' \subseteq Live,
         \A p \in Live' : booted'[p] = booted[p] /\ target'[p] = target[p],
         pidfile' \in {pidfile, 0}
  PROVE  EnvelopeInv'
  <1>1. pidfile' \in Live' => pidfile' = pidfile  BY DEF Live
  <1> QED  BY <1>1 DEF EnvelopeInv, Fits, OperatorAt

\* The operation returns: only what has become of the pid file matters.
LEMMA EnvelopeEnds ==
  ASSUME TypeOK, EnvelopeInv, OperationEnds, UNCHANGED <<resources, booted, target>>, Live' \subseteq Live,
         pidfile' \in {pidfile, 0}
  PROVE  EnvelopeInv'
  BY EndsOK, EnvelopeCalm DEF TypeOK

LEMMA EnvelopeGoto ==
  ASSUME TypeOK, EnvelopeInv, NEW step \in Steps \ {"pid", "fill", "write"}, OperatorGoto(step),
         UNCHANGED <<resources, booted>>, Live' \subseteq Live,
         \A p \in Live' : target'[p] \in {target[p], 1, resources},
         pidfile' \in {pidfile, 0}
  PROVE  EnvelopeInv'
  BY GotoOK, EnvelopeCalm DEF TypeOK

LEMMA EnvelopeStep ==
  ASSUME IInv, EnvelopeInv, [DriverNext]_driverVars
  PROVE  EnvelopeInv'
  <1> USE DEF machine, paths, entry, local, driverHistory
  <1>0. TypeOK /\ Remembered  BY DEF IInv
  <1>1. ASSUME NEW o \in {"start", "stop", "delete", "pause", "resume", "set_memory", "configure"}, Begin(o)
        PROVE  EnvelopeInv'
    <2>1. /\ pc'[Operator] \in {"signal", "status"} /\ cfg' = resources
          /\ UNCHANGED <<qemu, target, booted, pidfile, resources>>
      BY <1>0, <1>1 DEF Begin, TypeOK
    <2> QED  BY <2>1 DEF EnvelopeInv, Fits, Live, OperatorAt
  <1>2. CASE StatusRead(Operator)
    <2>1. /\ pc'[Operator] \in {"decide", "probe", "corrupt"}
          /\ UNCHANGED <<qemu, target, booted, pidfile, resources, op, cfg>>
      BY <1>0, <1>2 DEF StatusRead, Learns, TypeOK
    <2>2. Live' = Live  BY <2>1, LiveSame
    <2> QED  BY <1>0, <2>1, <2>2, EnvelopeCalm DEF TypeOK
  <1>3. CASE StatusProbe(Operator)
    <2>1. /\ pc'[Operator] = "decide" /\ pidfile' \in {pidfile, 0}
          /\ UNCHANGED <<qemu, target, booted, resources, op, cfg>>
      BY <1>0, <1>3 DEF StatusProbe, Learns, TypeOK
    <2>2. Live' = Live  BY <2>1, LiveSame
    <2> QED  BY <1>0, <2>1, <2>2, EnvelopeCalm DEF TypeOK
  <1>19. CASE StatusForget(Operator)
    <2>1. /\ pc'[Operator] = "decide" /\ pidfile' = 0
          /\ UNCHANGED <<qemu, target, booted, resources, op, cfg>>
      BY <1>0, <1>19 DEF StatusForget, Learns, TypeOK
    <2>2. Live' = Live  BY <2>1, LiveSame
    <2> QED  BY <1>0, <2>1, <2>2, EnvelopeCalm DEF TypeOK
  <1>20. CASE TruncatePid
    <2>1. /\ pc[Operator] = "pid" /\ pc'[Operator] = "fill" /\ pidfile' = Empty
          /\ UNCHANGED <<qemu, target, booted, resources, op, cfg, seen>>
      BY <1>0, <1>20, GotoOK DEF TruncatePid, OperatorAt
    <2>2. pidfile' \notin Live'  BY <2>1 DEF Live, Empty
    <2> QED  BY <2>1, <2>2 DEF EnvelopeInv, Fits, Live, OperatorAt
  <1>4. CASE StartDecide \/ PauseDecide \/ ResumeDecide \/ SetMemoryDecide
    <2>1. UNCHANGED <<qemu, target, booted, pidfile, resources>>
      BY <1>4 DEF StartDecide, PauseDecide, ResumeDecide, SetMemoryDecide, Succeeds
    <2>2. OperationEnds \/ \E step \in {"spawn", "prepare", "cont", "balloon"} : OperatorGoto(step)
      BY <1>4 DEF StartDecide, PauseDecide, ResumeDecide, SetMemoryDecide, Succeeds
    <2> QED  BY <1>0, <2>1, <2>2, LiveSame, EnvelopeEnds, EnvelopeGoto
  <1>5. CASE ConfigureDecide
    <2>1. /\ pc[Operator] = "decide" /\ view = "Stopped" /\ pc'[Operator] = "write"
          /\ UNCHANGED <<qemu, target, booted, pidfile, resources, op, cfg>>
      BY <1>0, <1>5, GotoOK DEF ConfigureDecide, OperatorAt
    <2>2. pidfile = 0  BY <1>0, <2>1 DEF Remembered
    <2> QED  BY <2>1, <2>2 DEF EnvelopeInv, Fits, Live, OperatorAt
  <1>6. CASE Decline \/ StartFails \/ WritePidFails \/ Remove \/ ThawFails \/ ControlFails \/ Die \/ Thaw
    <2>1. OperationEnds /\ UNCHANGED <<qemu, target, booted, resources>> /\ pidfile' \in {pidfile, 0}
      BY <1>6 DEF Decline, Refuses, StartFails, WritePidFails, Remove, ThawFails,
                  ControlFails, CallFails,
         Die, Thaw, Succeeds, OperationBreaks
    <2> QED  BY <1>0, <2>1, LiveSame, EnvelopeEnds
  <1>7. CASE Spawn
    <2>1. PICK p \in Process :
            /\ OperatorAt("spawn") /\ qemu' = [qemu EXCEPT ![p] = IF Holding = {} THEN "run" ELSE "dying"]
            /\ target' = [target EXCEPT ![p] = cfg] /\ booted' = [booted EXCEPT ![p] = cfg]
            /\ seen' = [seen EXCEPT ![Operator] = p] /\ pc' = [pc EXCEPT ![Operator] = "pid"]
            /\ UNCHANGED <<pidfile, resources, op, cfg>>
      BY <1>7 DEF Spawn
    <2>2. pc'[Operator] = "pid" /\ seen'[Operator] = p  BY <1>0, <2>1 DEF TypeOK
    <2>3. cfg = resources /\ resources \in Memory  BY <1>0, <2>1 DEF EnvelopeInv, OperatorAt, TypeOK
    <2>4. Fits(p)'  BY <1>0, <2>1, <2>3 DEF Fits, TypeOK
    <2>5. ASSUME NEW q \in Process, q # p, Fits(q)  PROVE Fits(q)'
      BY <1>0, <2>1, <2>5 DEF Fits, TypeOK
    <2>6. \A q \in Process : q # p => qemu'[q] = qemu[q]  BY <1>0, <2>1 DEF TypeOK
    <2>7. pidfile' \in Live' => Fits(pidfile)'
      BY <2>1, <2>4, <2>5, <2>6 DEF EnvelopeInv, Live, Fits
    <2>8. seen'[Operator] \in Live' => Fits(seen[Operator])'
      BY <2>2, <2>4 DEF Fits
    <2> QED  BY <2>1, <2>2, <2>3, <2>7, <2>8 DEF EnvelopeInv, OperatorAt
  <1>8. CASE WritePid
    <2>1. /\ pc[Operator] = "fill" /\ pc'[Operator] = "idle" /\ op' = "none"
          /\ pidfile' \in {pidfile, seen[Operator]} /\ UNCHANGED <<qemu, target, booted, resources>>
      BY <1>0, <1>8, EndsOK DEF WritePid, Succeeds, OperatorAt
    <2> QED  BY <2>1 DEF EnvelopeInv, Fits, Live, OperatorAt
  <1>9. CASE Signal
    <2>1. UNCHANGED <<target, booted, resources, pidfile>>
      BY <1>9 DEF Signal, AfterSignal, Succeeds
    <2>2. Live' \subseteq Live  BY <1>0, <1>9 DEF Signal, Live, TypeOK
    <2>3. OperationEnds \/ OperatorGoto("remove") \/ OperatorGoto("unpid")  BY <1>9 DEF Signal, AfterSignal, Succeeds
    <2> QED  BY <1>0, <2>1, <2>2, <2>3, EnvelopeEnds, EnvelopeGoto
  <1>10. CASE SignalFails \/ Unpid
    <2>1. UNCHANGED <<qemu, target, booted, resources>> /\ pidfile' \in {pidfile, 0}
      BY <1>10 DEF SignalFails, Unpid, AfterSignal, Succeeds, OperationBreaks
    <2>2. OperationEnds \/ OperatorGoto("remove")  BY <1>10 DEF SignalFails, Unpid, AfterSignal, Succeeds,
                                               OperationBreaks
    <2> QED  BY <1>0, <2>1, <2>2, LiveSame, EnvelopeEnds, EnvelopeGoto
  <1>11. CASE Prepare \/ PrepareFails
    <2>1. OperatorGoto("shrink") /\ UNCHANGED <<qemu, target, booted, resources, pidfile>>
      BY <1>11 DEF Prepare, PrepareFails
    <2> QED  BY <1>0, <2>1, LiveSame, EnvelopeGoto
  <1>12. CASE Shrink \/ Grow
    <2>1. /\ \E step \in {"halt", "thaw"} : OperatorGoto(step)
          /\ UNCHANGED <<qemu, booted, resources, pidfile>>
      BY <1>12 DEF Shrink, Grow
    <2>2. cfg = resources  BY <1>0, <1>12 DEF Shrink, Grow, OperatorAt, TypeOK, EnvelopeInv
    <2>3. \A p \in Process : target'[p] \in {target[p], 1, resources}
      BY <1>0, <1>12, <2>2 DEF Shrink, Grow, TypeOK
    <2>4. Live' = Live /\ Live \subseteq Process  BY <2>1, LiveSame DEF Live
    <2> QED  BY <1>0, <2>1, <2>3, <2>4, EnvelopeGoto
  <1>13. CASE Halt \/ Continue
    <2>1. /\ OperationEnds \/ OperatorGoto("grow")
          /\ UNCHANGED <<target, booted, resources, pidfile>>
      BY <1>13 DEF Halt, Continue, Succeeds
    <2>2. Live' \subseteq Live  BY <1>0, <1>13 DEF Halt, Continue, Connected, Live, TypeOK
    <2> QED  BY <1>0, <2>1, <2>2, EnvelopeEnds, EnvelopeGoto
  <1>14. ASSUME NEW m \in Memory, SetBalloon(m)  PROVE EnvelopeInv'
    <2>1. /\ pc'[Operator] = "idle" /\ op' = "none" /\ UNCHANGED <<qemu, booted, resources, pidfile>>
          /\ m <= cfg /\ socket \in Process /\ target' = [target EXCEPT ![socket] = m]
      BY <1>0, <1>14, EndsOK DEF SetBalloon, Connected
    <2>2. cfg = resources  BY <1>0, <1>14 DEF SetBalloon, OperatorAt, TypeOK, EnvelopeInv
    <2>3. m \in 1 .. resources  BY <1>0, <2>1, <2>2 DEF TypeOK
    <2>4. ASSUME NEW p \in Process, Fits(p)  PROVE Fits(p)'
      BY <1>0, <2>1, <2>3, <2>4 DEF Fits, TypeOK
    <2> QED  BY <2>1, <2>4 DEF EnvelopeInv, Live, Fits, OperatorAt
  <1>15. ASSUME NEW m \in Memory, WriteResources(m)  PROVE EnvelopeInv'
    <2>1. /\ pc[Operator] = "write" /\ pc'[Operator] = "idle" /\ op' = "none" /\ pidfile' = pidfile
      BY <1>0, <1>15, EndsOK DEF WriteResources, OperatorAt
    <2> QED  BY <2>1 DEF EnvelopeInv, Live, OperatorAt
  <1>16. CASE Observe \/ StatusRead(Observer) \/ StatusForget(Observer) \/ StatusProbe(Observer)
    <2>1. UNCHANGED <<op, cfg, pc[Operator], seen[Operator]>>  BY <1>0, <1>16, OthersControl
    <2>2. UNCHANGED <<qemu, target, booted, resources>> /\ pidfile' \in {pidfile, 0}
      BY <1>16 DEF Observe, StatusRead, StatusForget, StatusProbe
    <2> QED  BY <2>1, <2>2, LiveSame, EnvelopeElsewhere
  <1>17. ASSUME NEW p \in Process, Exit(p) \/ Reap(p)  PROVE EnvelopeInv'
    <2>1. UNCHANGED <<op, cfg, pc, seen, resources, pidfile>>  BY <1>17 DEF Exit, Reap
    <2>2. \A q \in Live' : q \in Live /\ booted'[q] = booted[q] /\ target'[q] = target[q]
      BY <1>0, <1>17 DEF Exit, Reap, Live, TypeOK
    <2> QED  BY <2>1, <2>2, EnvelopeElsewhere
  <1>18. CASE UNCHANGED driverVars  BY <1>18, LiveSame, EnvelopeElsewhere DEF driverVars
  <1> QED
    BY <1>1, <1>2, <1>3, <1>4, <1>5, <1>6, <1>7, <1>8, <1>9, <1>10, <1>11, <1>12, <1>13,
       <1>14,
       <1>15, <1>16, <1>17, <1>18, <1>19, <1>20 DEF DriverNext, Operate

\* The steps between which the registry is owed the truth.
Settled == {"idle", "status", "probe", "corrupt", "decide", "spawn", "balloon", "write"}
Told(p) ==
    \/ lastStatus = "running" /\ qemu[p] = "run"
    \/ lastStatus = "paused" /\ qemu[p] = "paused"

LEMMA RegistryParts ==
  RegistryInv <=>
    /\ \A p \in Known : p = socket
    /\ OperatorAt("decide") =>
          \A p \in Known :
              /\ view = "Running" => qemu[p] = "run"
              /\ view = "Paused" => qemu[p] = "paused"
    /\ OperatorAt("pid") \/ OperatorAt("fill") => \A p \in Known : qemu[p] = "run"
    /\ pc[Operator] \in Settled /\ ~stale /\ registered => \A p \in Known : Told(p)
  BY DEF RegistryInv, Settled, Told

LEMMA KnownLess ==
  ASSUME UNCHANGED qemu, forsaken \subseteq forsaken', uncontrolled \subseteq uncontrolled'
  PROVE  Known' \subseteq Known /\ \A p \in Known' : qemu'[p] = qemu[p]
  BY DEF Known, Live

\* Steps into the middle of an operation: there the registry is owed nothing.
LEMMA RegistryMidway ==
  ASSUME RegistryInv, Known' \subseteq Known, UNCHANGED socket, pc'[Operator] \notin Settled \cup {"pid", "fill"}
  PROVE  RegistryInv'
  BY DEF RegistryInv, Settled, OperatorAt

\* Steps that neither change what is owed nor what was told.
LEMMA RegistryCalm ==
  ASSUME RegistryInv, Known' \subseteq Known, \A p \in Known' : qemu'[p] = qemu[p],
         UNCHANGED <<socket, lastStatus, stale, registered>>,
         pc[Operator] \in Settled, pc'[Operator] \notin {"decide", "pid", "fill"}
  PROVE  RegistryInv'
  <1>1. \A p \in Known : Told(p) => (p \in Known' => Told(p)')  BY DEF Told
  <1>2. ~stale /\ registered => \A p \in Known : Told(p)  BY RegistryParts
  <1>3. ~stale' /\ registered' => \A p \in Known' : Told(p)'  BY <1>1, <1>2
  <1> QED  BY <1>3 DEF RegistryInv, Told, OperatorAt

LEMMA RegistryElsewhere ==
  ASSUME RegistryInv, Known' \subseteq Known, \A p \in Known' : qemu'[p] = qemu[p],
         UNCHANGED <<socket, lastStatus, stale, registered, view, pc[Operator]>>
  PROVE  RegistryInv'
  BY DEF RegistryInv, OperatorAt

\* An operation that returns and tells the registry what is so, or leaves it stale.
LEMMA RegistryEnds ==
  ASSUME RegistryInv, Known' \subseteq Known, UNCHANGED socket, pc'[Operator] = "idle",
         stale' \/ \A p \in Known' : Told(p)'
  PROVE  RegistryInv'
  BY DEF RegistryInv, Told, OperatorAt

LEMMA RegistryNone ==
  ASSUME Known' = {}  PROVE RegistryInv'
  BY DEF RegistryInv, OperatorAt

\* What the pid file does not name, nobody knows any more.
LEMMA KnownIsNamed ==
  ASSUME Tracked, pc[Operator] \notin {"pid", "fill", "unpid"}, NEW p \in Known
  PROVE  pidfile = p
  BY DEF Tracked, Known, OperatorAt

LEMMA RegistryStep ==
  ASSUME IInv, GuestInv, RegistryInv, [DriverNext]_driverVars
  PROVE  RegistryInv'
  <1> USE DEF machine, paths, entry, local, driverHistory
  <1>0. TypeOK /\ Tracked /\ Remembered  BY DEF IInv
  <1>1. ASSUME NEW o \in {"start", "stop", "delete", "pause", "resume", "set_memory", "configure"}, Begin(o)
        PROVE  RegistryInv'
    <2>1. /\ pc[Operator] = "idle" /\ pc'[Operator] \in {"signal", "status"}
          /\ UNCHANGED <<qemu, socket, lastStatus, stale, registered, forsaken, uncontrolled>>
      BY <1>0, <1>1 DEF Begin, TypeOK, OperatorAt
    <2> QED  BY <2>1, KnownLess, RegistryCalm DEF Settled
  <1>2. CASE StatusRead(Operator)
    <2>1. \/ pc'[Operator] = "decide" /\ view' = "Stopped"
          \/ pc'[Operator] \in {"probe", "corrupt"}
      BY <1>0, <1>2 DEF StatusRead, Learns, TypeOK
    <2>2. pc[Operator] = "status" /\ UNCHANGED <<qemu, socket, lastStatus, stale, registered, forsaken, uncontrolled>>
      BY <1>2 DEF StatusRead
    <2>3. Known' = Known  BY <2>2 DEF Known, Live
    <2> QED  BY <2>1, <2>2, <2>3 DEF RegistryInv, OperatorAt
  <1>3. CASE StatusProbe(Operator)
    <2>1. /\ pc[Operator] = "probe" /\ pc'[Operator] = "decide"
          /\ UNCHANGED <<qemu, socket, lastStatus, stale, registered>>
      BY <1>0, <1>3 DEF StatusProbe, Learns, TypeOK
    <2>2. forsaken \subseteq forsaken' /\ uncontrolled \subseteq uncontrolled'  BY <1>3 DEF StatusProbe
    <2>3. Known' \subseteq Known /\ \A p \in Known' : qemu'[p] = qemu[p]  BY <2>1, <2>2,
                                                                         KnownLess
    <2>4. ASSUME NEW p \in Known'
          PROVE  (view' = "Running" => qemu'[p] = "run") /\ (view' = "Paused" => qemu'[p] = "paused")
      <3>1. p \in Known /\ p \in Live /\ p = socket  BY <2>3, <2>4 DEF Known, RegistryInv
      <3>2. pidfile = p  BY <1>0, <2>1, <3>1, KnownIsNamed
      <3>3. p = seen[Operator]  BY <1>0, <2>1, <3>1, <3>2 DEF Remembered, Live
      <3>4. CASE view' = "Running"
        <4>1. qemu[p] # "paused"
          <5>1. SUFFICES ASSUME qemu[p] = "paused"  PROVE FALSE  OBVIOUS
          <5>2. seen[Operator] \in Signallable  BY <3>1, <3>3 DEF Live, Signallable
          <5>3. PICK r \in Reported : /\ Learns(Operator, r)
                                      /\ uncontrolled' = IF r = "Running" /\ qemu[seen[Operator]] = "paused"
                                                     THEN uncontrolled \cup {seen[Operator]} ELSE uncontrolled
            BY <1>3, <5>2 DEF StatusProbe
          <5>4. r = "Running"  BY <3>4, <5>3 DEF Learns
          <5>5. p \in uncontrolled'  BY <3>3, <5>1, <5>3, <5>4
          <5> QED  BY <2>4, <5>5 DEF Known
        <4> QED  BY <2>1, <3>1, <3>4, <4>1 DEF Live
      <3>5. CASE view' = "Paused"
        <4>1. qemu[socket] = "paused"  BY <1>3, <3>5 DEF StatusProbe, Learns, Reported
        <4> QED  BY <2>1, <3>1, <3>5, <4>1
      <3> QED  BY <3>4, <3>5
    <2>5. ~stale' /\ registered' => \A p \in Known' : Told(p)'
      BY <2>1, <2>3, RegistryParts DEF Told, Settled
    <2> QED  BY <2>1, <2>3, <2>4, <2>5 DEF RegistryInv, Told, OperatorAt
  <1>23. CASE StatusForget(Operator)
    <2>1. /\ pc[Operator] = "corrupt" /\ pc'[Operator] = "decide" /\ view' = "Stopped"
          /\ UNCHANGED <<qemu, socket, lastStatus, stale, registered, uncontrolled>>
      BY <1>0, <1>23 DEF StatusForget, Learns, TypeOK
    <2>2. forsaken \subseteq forsaken'  BY <1>23 DEF StatusForget
    <2>3. Known' \subseteq Known /\ \A p \in Known' : qemu'[p] = qemu[p]  BY <2>1, <2>2, KnownLess
    <2>4. ~stale' /\ registered' => \A p \in Known' : Told(p)'
      BY <2>1, <2>3, RegistryParts DEF Told, Settled
    <2> QED  BY <2>1, <2>3, <2>4 DEF RegistryInv, Told, OperatorAt
  <1>24. CASE TruncatePid
    <2>1. /\ pc[Operator] = "pid" /\ pc'[Operator] = "fill"
          /\ UNCHANGED <<qemu, socket, forsaken, uncontrolled>>
      BY <1>0, <1>24, GotoOK DEF TruncatePid, OperatorAt
    <2>2. Known' = Known  BY <2>1 DEF Known, Live
    <2> QED  BY <2>1, <2>2 DEF RegistryInv, OperatorAt
  <1>4. CASE StartDecide \/ PauseDecide \/ ResumeDecide \/ SetMemoryDecide \/ ConfigureDecide
    <2>1. pc[Operator] = "decide" /\ UNCHANGED <<qemu, socket, forsaken, uncontrolled>>
      BY <1>4 DEF StartDecide, PauseDecide, ResumeDecide, SetMemoryDecide, ConfigureDecide,
                  OperatorAt
    <2>2. Known' \subseteq Known /\ \A p \in Known' : qemu'[p] = qemu[p]  BY <2>1, KnownLess
    <2>3. \/ view = "Running" /\ Succeeds("running")
          \/ view = "Paused" /\ Succeeds("paused")
          \/ /\ \E step \in {"spawn", "prepare", "cont", "balloon", "write"} : OperatorGoto(step)
             /\ UNCHANGED <<lastStatus, stale, registered>>
      BY <1>4 DEF StartDecide, PauseDecide, ResumeDecide, SetMemoryDecide, ConfigureDecide
    <2>4. CASE view = "Running" /\ Succeeds("running")
      <3>1. pc'[Operator] = "idle" /\ (stale' \/ lastStatus' = "running")
        BY <1>0, <2>4, EndsOK DEF Succeeds
      <3>2. \A p \in Known' : qemu'[p] = "run"  BY <2>1, <2>2, <2>4 DEF RegistryInv, OperatorAt
      <3> QED  BY <2>1, <2>2, <3>1, <3>2, RegistryEnds DEF Told
    <2>5. CASE view = "Paused" /\ Succeeds("paused")
      <3>1. pc'[Operator] = "idle" /\ (stale' \/ lastStatus' = "paused")
        BY <1>0, <2>5, EndsOK DEF Succeeds
      <3>2. \A p \in Known' : qemu'[p] = "paused"  BY <2>1, <2>2, <2>5 DEF RegistryInv, OperatorAt
      <3> QED  BY <2>1, <2>2, <3>1, <3>2, RegistryEnds DEF Told
    <2>6. CASE /\ \E step \in {"spawn", "prepare", "cont", "balloon", "write"} : OperatorGoto(step)
               /\ UNCHANGED <<lastStatus, stale, registered>>
      <3>1. pc'[Operator] \notin {"decide", "pid", "fill"}  BY <1>0, <2>6, GotoOK
      <3> QED  BY <2>1, <2>2, <2>6, <3>1, RegistryCalm DEF Settled
    <2> QED  BY <2>3, <2>4, <2>5, <2>6
  <1>5. CASE Decline
    <2>1. /\ pc[Operator] = "decide" /\ pc'[Operator] = "idle"
          /\ UNCHANGED <<qemu, socket, lastStatus, stale, registered, forsaken, uncontrolled>>
      BY <1>0, <1>5, EndsOK DEF Decline, Refuses, OperatorAt
    <2> QED  BY <2>1, KnownLess, RegistryCalm DEF Settled
  <1>6. CASE StartFails
    <2>1. /\ pc[Operator] = "spawn" /\ pc'[Operator] = "idle"
          /\ UNCHANGED <<qemu, lastStatus, stale, registered, forsaken>>
      BY <1>0, <1>6, EndsOK DEF StartFails, OperatorAt
    <2>2. CASE socket' = 0
      <3>1. Known' = {}  BY <1>6, <2>1, <2>2 DEF StartFails, Known, Live
      <3> QED  BY <3>1, RegistryNone
    <2>3. CASE socket' # 0
      <3>1. UNCHANGED <<socket, uncontrolled>>  BY <1>6, <2>3 DEF StartFails
      <3> QED  BY <2>1, <3>1, KnownLess, RegistryCalm DEF Settled
    <2> QED  BY <2>2, <2>3
  <1>7. CASE Spawn
    <2>1. PICK p \in Process :
            /\ OperatorAt("spawn") /\ qemu' = [qemu EXCEPT ![p] = IF Holding = {} THEN "run" ELSE "dying"]
            /\ pc' = [pc EXCEPT ![Operator] = "pid"] /\ socket' = p
            /\ forsaken' = IF view = "Paused" THEN forsaken \cup {seen[Operator]} ELSE forsaken
            /\ UNCHANGED uncontrolled
      BY <1>7 DEF Spawn
    <2>2. pc'[Operator] = "pid"  BY <1>0, <2>1 DEF TypeOK
    <2>3. ASSUME NEW q \in Live  PROVE q \in forsaken'
      <3>1. pidfile = q \/ q \in forsaken  BY <1>0, <2>1, <2>3 DEF Tracked, OperatorAt
      <3>2. q # 0  BY <2>3 DEF Live
      <3> QED  BY <1>0, <2>1, <3>1, <3>2 DEF Remembered, OperatorAt
    <2>4. Live' \subseteq Live \cup {p} /\ (p \in Live' => qemu'[p] = "run")
      BY <1>0, <2>1 DEF Live, TypeOK
    <2>5. \A q \in Known' : q = p /\ qemu'[q] = "run"
      BY <2>3, <2>4 DEF Known
    <2> QED  BY <2>1, <2>2, <2>5 DEF RegistryInv, OperatorAt
  <1>8. CASE WritePid \/ WritePidFails
    <2>1. pc[Operator] \in {"pid", "fill"} /\ pc'[Operator] = "idle" /\ UNCHANGED <<qemu, socket, uncontrolled>>
      BY <1>0, <1>8, EndsOK DEF WritePid, WritePidFails, Succeeds, OperationBreaks, OperatorAt
    <2>2. forsaken \subseteq forsaken'  BY <1>8 DEF WritePid, WritePidFails
    <2>3. Known' \subseteq Known /\ \A p \in Known' : qemu'[p] = qemu[p]  BY <2>1, <2>2,
                                                                         KnownLess
    <2>4. stale' \/ lastStatus' = "running"  BY <1>8 DEF WritePid, WritePidFails, Succeeds, OperationBreaks
    <2>5. \A p \in Known' : qemu'[p] = "run"  BY <2>1, <2>3 DEF RegistryInv, OperatorAt
    <2> QED  BY <2>1, <2>3, <2>4, <2>5, RegistryEnds DEF Told
  <1>9. CASE Signal
    <2>1. pc[Operator] = "signal" /\ UNCHANGED <<socket, forsaken, uncontrolled>>  BY <1>9 DEF Signal, OperatorAt
    <2>2. Known' \subseteq Known  BY <1>0, <1>9, <2>1 DEF Signal, Known, Live, TypeOK
    <2>3. CASE pidfile = 0
      <3>1. Known = {}  BY <1>0, <2>1, <2>3, KnownIsNamed DEF Known, Live
      <3>2. Known' = {}  BY <2>2, <3>1
      <3> QED  BY <3>2, RegistryNone
    <2>4. CASE pidfile # 0
      <3>1. pc'[Operator] = "unpid"  BY <1>0, <1>9, <2>4, GotoOK DEF Signal
      <3> QED  BY <2>1, <2>2, <3>1, RegistryMidway DEF Settled
    <2> QED  BY <2>3, <2>4
  <1>10. CASE SignalFails
    <2>1. pc'[Operator] = "remove" \/ stale'
      BY <1>0, <1>10, GotoOK DEF SignalFails, OperationBreaks
    <2>2. pc'[Operator] \in {"idle", "remove"} /\ UNCHANGED <<qemu, socket, forsaken, uncontrolled>>
      BY <1>0, <1>10, EndsOK, GotoOK DEF SignalFails, OperationBreaks
    <2> QED  BY <2>1, <2>2, KnownLess, RegistryMidway, RegistryEnds DEF Settled
  <1>11. CASE Unpid
    <2>1. pc[Operator] = "unpid" /\ UNCHANGED <<qemu, forsaken, uncontrolled>>  BY <1>11 DEF Unpid, OperatorAt
    <2>2. Known' = {}  BY <1>0, <2>1 DEF Tracked, Known, Live, OperatorAt
    <2> QED  BY <2>2, RegistryNone
  <1>12. CASE Remove
    <2>1. /\ pc[Operator] = "remove" /\ UNCHANGED <<qemu, uncontrolled>>
          /\ forsaken' = forsaken \cup ({pidfile} \cap Live)
      BY <1>12 DEF Remove, OperatorAt
    <2>2. Known' = {}  BY <1>0, <2>1 DEF Tracked, Known, Live, OperatorAt
    <2> QED  BY <2>2, RegistryNone
  <1>13. CASE Prepare \/ PrepareFails \/ Shrink \/ Grow
    <2>1. /\ pc'[Operator] \in {"shrink", "halt", "thaw"} /\ UNCHANGED <<qemu, socket, forsaken>>
          /\ uncontrolled \subseteq uncontrolled'
      BY <1>0, <1>13, GotoOK DEF Prepare, PrepareFails, Shrink, Grow
    <2> QED  BY <2>1, KnownLess, RegistryMidway DEF Settled
  <1>14. CASE Continue
    <2>1. pc'[Operator] = "grow" /\ UNCHANGED <<socket, forsaken, uncontrolled>>
      BY <1>0, <1>14, GotoOK DEF Continue
    <2>2. Known' \subseteq Known  BY <1>0, <1>14, <2>1 DEF Continue, Connected, Known,
                                                           Live, TypeOK
    <2> QED  BY <2>1, <2>2, RegistryMidway DEF Settled
  <1>15. CASE Halt
    <2>1. /\ pc'[Operator] = "idle" /\ (stale' \/ lastStatus' = "paused")
          /\ UNCHANGED <<socket, forsaken, uncontrolled>>
      BY <1>0, <1>15, EndsOK DEF Halt, Succeeds
    <2>2. Known' \subseteq Known  BY <1>0, <1>15, <2>1 DEF Halt, Connected, Known, Live,
                                                           TypeOK
    <2>3. qemu'[socket] = "paused"  BY <1>0, <1>15 DEF Halt, Connected, TypeOK
    <2>4. \A p \in Known' : p = socket  BY <2>2 DEF RegistryInv
    <2> QED  BY <2>1, <2>2, <2>3, <2>4, RegistryEnds DEF Told
  <1>16. CASE Thaw
    <2>1. /\ pc[Operator] = "thaw" /\ pc'[Operator] = "idle" /\ (stale' \/ lastStatus' = "running")
          /\ UNCHANGED <<qemu, socket, forsaken, uncontrolled>> /\ qemu[socket] = "run"
      BY <1>0, <1>16, EndsOK DEF Thaw, Connected, Succeeds, OperatorAt
    <2>2. Known' \subseteq Known /\ \A p \in Known' : qemu'[p] = qemu[p] /\ p = socket
      BY <2>1, KnownLess DEF RegistryInv
    <2> QED  BY <2>1, <2>2, RegistryEnds DEF Told
  <1>17. CASE ThawFails
    <2>1. uncontrolled' = uncontrolled \cup Controlled /\ UNCHANGED <<qemu, forsaken>>  BY <1>17 DEF ThawFails
    <2>2. Known' = {}
      <3>1. Known' \subseteq Known  BY <2>1, KnownLess
      <3>2. \A p \in Known : p \in Controlled  BY DEF RegistryInv, Known, Controlled
      <3> QED  BY <2>1, <3>1, <3>2 DEF Known
    <2> QED  BY <2>2, RegistryNone
  <1>18. CASE ControlFails \/ Die
    <2>1. pc'[Operator] = "idle" /\ stale' /\ UNCHANGED <<qemu, socket>>
      BY <1>0, <1>18, EndsOK DEF ControlFails, CallFails, Die, OperationBreaks
    <2>2. forsaken \subseteq forsaken' /\ uncontrolled \subseteq uncontrolled'
      BY <1>18 DEF ControlFails, CallFails, Die
    <2> QED  BY <2>1, <2>2, KnownLess, RegistryEnds
  <1>19. ASSUME NEW m \in Memory, SetBalloon(m) \/ WriteResources(m)  PROVE RegistryInv'
    <2>1. /\ pc[Operator] \in {"balloon", "write"} /\ pc'[Operator] = "idle"
          /\ UNCHANGED <<qemu, socket, lastStatus, stale, registered, forsaken, uncontrolled>>
      BY <1>0, <1>19, EndsOK DEF SetBalloon, WriteResources, OperatorAt
    <2> QED  BY <2>1, KnownLess, RegistryCalm DEF Settled
  <1>20. CASE Observe \/ StatusRead(Observer) \/ StatusForget(Observer) \/ StatusProbe(Observer)
    <2>1. UNCHANGED <<view, pc[Operator]>>  BY <1>0, <1>20, OthersControl
    <2>2. UNCHANGED <<qemu, socket, lastStatus, stale, registered>>
      BY <1>20 DEF Observe, StatusRead, StatusForget, StatusProbe
    <2>3. forsaken \subseteq forsaken' /\ uncontrolled \subseteq uncontrolled'
      BY <1>20 DEF Observe, StatusRead, StatusForget, StatusProbe
    <2> QED  BY <2>1, <2>2, <2>3, KnownLess, RegistryElsewhere
  <1>21. ASSUME NEW p \in Process, Exit(p) \/ Reap(p)  PROVE RegistryInv'
    <2>1. UNCHANGED <<socket, lastStatus, stale, registered, view, pc>>  BY <1>21 DEF Exit,
                                                                            Reap
    <2>2. Known' \subseteq Known /\ \A q \in Known' : qemu'[q] = qemu[q]
      BY <1>0, <1>21 DEF Exit, Reap, Known, Live, TypeOK
    <2> QED  BY <2>1, <2>2, RegistryElsewhere
  <1>22. CASE UNCHANGED driverVars  BY <1>22, KnownLess, RegistryElsewhere DEF driverVars
  <1> QED
    BY <1>1, <1>2, <1>3, <1>4, <1>5, <1>6, <1>7, <1>8, <1>9, <1>10, <1>11, <1>12, <1>13,
       <1>14,
       <1>15, <1>16, <1>17, <1>18, <1>19, <1>20, <1>21, <1>22, <1>23, <1>24 DEF DriverNext, Operate

-----------------------------------------------------------------------------
(* The theorems *)

\* The inductive invariant of every behaviour of the driver (start_with, stop_with,
\* pause_with, resume_with, status_with and InstanceOps): what the pid file, the
\* operator's memory of it and the processes have to do with each other.
THEOREM DriverInv == DriverSpec => []IInv
  <1>1. IInv /\ [DriverNext]_driverVars => IInv'
    BY TypeStep, TrackedStep, RememberedStep DEF IInv
  <1> QED  BY InitInv, <1>1, PTL DEF DriverSpec

\* The driver's state stays well typed, with it that an operation has a next step
\* exactly while it has not returned (runtime.rs, drivers/linux.rs).
THEOREM DriverTypes == DriverSpec => []TypeOK
  <1>1. IInv => TypeOK  BY DEF IInv
  <1> QED  BY DriverInv, <1>1, PTL

\* Between two operations, a live QEMU is the one that the pid file names, or was
\* lost in one of the ways that the driver's code is known to lose one: for any
\* number of processes, however its steps interleave with a status asked for by
\* another process and with QEMU's end (drivers/linux.rs).
THEOREM NoneLost == DriverSpec => []NoStray
  <1>1. IInv => NoStray
    BY DEF IInv, Tracked, NoStray, BetweenOperations, OperatorAt
  <1> QED  BY DriverInv, <1>1, PTL

\* The invariant that the workload, the envelope and the registry need beyond what
\* the driver keeps of the processes: where a pause or resume is halfway, what
\* configuration is in hand, and which VM the sockets lead to.
THEOREM ResourcesAlways == DriverSpec => []ResourcesInv
  <1>1. ResourcesInv /\ [DriverNext]_driverVars => ResourcesInv'
    BY TypeStep, TrackedStep, RememberedStep, GuestStep, EnvelopeStep,
       RegistryStep DEF ResourcesInv, IInv
  <1> QED  BY InitResources, <1>1, PTL DEF DriverSpec

\* Between two operations, the workload of a VM runs exactly while its virtual
\* processors do, unless a control call to it failed (pause_with, resume_with).
THEOREM WorkloadFollowsHost == DriverSpec => []GuestFollowsHost
  <1>1. ResourcesInv => GuestFollowsHost
    BY DEF ResourcesInv, GuestInv, GuestFollowsHost, BetweenOperations, OperatorAt
  <1> QED  BY ResourcesAlways, <1>1, PTL

\* Between two operations, the registry's envelope is the one that the VM was
\* started with and its status is what the processes show, unless it says of
\* itself that it is stale (InstanceOps, set_status, configure_resources).
THEOREM RegistryIsTrue == DriverSpec => []RegistryTellsTruth
  <1>1. ResourcesInv => EnvelopeHolds
    BY DEF ResourcesInv, EnvelopeInv, EnvelopeHolds, Fits
  <1>2. ResourcesInv => RegistryTellsTruth
    BY <1>1 DEF ResourcesInv, RegistryInv, RegistryTellsTruth, Known, BetweenOperations, OperatorAt
  <1> QED  BY ResourcesAlways, <1>2, PTL
=============================================================================
