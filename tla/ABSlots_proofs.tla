---------------------------- MODULE ABSlots_proofs ---------------------------
(***************************************************************************)
(* Proofs about ABSlots, for any set of releases, any number of concurrent *)
(* updates and either kind of boot loader, in an environment calm or not.  *)
(***************************************************************************)
EXTENDS ABSlots, TLAPS

\* WindowLaw is not inductive: every writer writes a change of the copy it has
\* read, through a file that any of them may rename, so the copies and that file
\* must obey it too; what is written has counted no boot.
FileOK == tmp \in Slots => Window(tmp) /\ tmp.bootCount = 0
Core ==
    /\ DeviceTypes /\ FileOK
    /\ Readable => Window(slots)
    /\ \A p \in Proc : Window(held[p])

\* Until two writers have been in slots.tmp at once, the one that is finds there
\* nothing, or what it has written.
OneWriter ==
    ~crossed =>
        /\ Readable
        /\ \A p, q \in Proc : InTmp(p) /\ InTmp(q) => p = q
        /\ \A p \in Proc : pc[p] = "writing" => open[p] = "tmp" /\ tmp = Blank
        /\ \A p \in Proc : pc[p] = "written" => tmp = NewSlots(p)

\* Nor is the bound on the confirmation's attempts: it counts from zero at each
\* boot, and only an attempt that has not used up the start limit is running.
Retries ==
    /\ mode # "up" => tries = 0 /\ pc[Confirm] = "idle"
    /\ InFlight(Confirm) => tries < StartLimitBurst

IInv == Core /\ Retries /\ OneWriter

USE VersionsAssumption, NoneAssumption, FilesAssumption DEF Slot, ROLLBACK_THRESHOLD

-----------------------------------------------------------------------------
(* The record operators keep a record well typed and its flags consistent. *)

LEMMA FieldTypes ==
  /\ 0 \in 0 .. ROLLBACK_THRESHOLD - 1
  /\ None \in Versions \cup {None} /\ None \in Slot \cup {None}
  /\ TRUE \in BOOLEAN /\ FALSE \in BOOLEAN
  /\ \A s \in Slot : Other(s) \in Slot
  BY DEF Other

LEMMA ProvisionedOK == Provisioned \in Slots /\ Window(Provisioned)
  BY DEF Provisioned, Slots, Window

LEMMA AppliedOK ==
  ASSUME NEW r \in Slots, Window(r), NEW v \in Versions
  PROVE  Applied(r, v) \in Slots /\ Window(Applied(r, v))
<1>1. /\ r.active \in Slot /\ r.inactive \in Slot
      /\ r.version \in [Slot -> Versions]
  BY DEF Slots
<1>2. /\ v \in Versions \cup {None} /\ v # None
      /\ r.inactive \in Slot \cup {None} /\ r.inactive # None
      /\ r.inactive = Other(r.active)
  BY <1>1 DEF Window, Other
<1>3. [r.version EXCEPT ![Other(r.active)] = v] \in [Slot -> Versions]
  BY <1>1
<1>4. Applied(r, v) \in Slots
  BY <1>1, <1>2, <1>3, FieldTypes, Zenon DEF Applied, Slots
<1>5. Window(Applied(r, v))
  BY <1>1, <1>2 DEF Applied, Window, Slots
<1> QED
  BY <1>4, <1>5

LEMMA RolledBackOK ==
  ASSUME NEW r \in Slots, Window(r)
  PROVE  RolledBack(r) \in Slots /\ Window(RolledBack(r))
<1>1. r.active \in Slot /\ Other(r.active) \in Slot
  BY FieldTypes DEF Slots
<1>2. RolledBack(r) \in Slots
  BY <1>1, FieldTypes, Zenon DEF RolledBack, Slots
<1>3. Window(RolledBack(r))
  BY DEF RolledBack, Slots, Window, Other
<1> QED
  BY <1>2, <1>3

LEMMA AcknowledgedOK ==
  ASSUME NEW r \in Slots, Window(r)
  PROVE  Acknowledged(r) \in Slots /\ Window(Acknowledged(r))
<1>1. Acknowledged(r) \in Slots
  BY FieldTypes, Zenon DEF Acknowledged, Slots
<1>2. Window(Acknowledged(r))
  BY DEF Acknowledged, Slots, Window
<1> QED
  BY <1>1, <1>2

LEMMA CountedOK ==
  ASSUME NEW r \in Slots, Window(r), r.updatePending, ~Exhausted(r)
  PROVE  Counted(r) \in Slots /\ Window(Counted(r))
<1>1. r.bootCount + 1 \in 0 .. ROLLBACK_THRESHOLD - 1
  BY DEF Slots, Exhausted
<1>2. Counted(r) \in Slots
  BY <1>1, Zenon DEF Counted, Slots
<1>3. Window(Counted(r))
  BY DEF Counted, Slots, Window
<1> QED
  BY <1>2, <1>3

LEMMA AutoRolledBackOK ==
  ASSUME NEW r \in Slots, Window(r)
  PROVE  AutoRolledBack(r) \in Slots /\ Window(AutoRolledBack(r))
<1>1. r.active \in Slot /\ Other(r.active) \in Slot
  BY FieldTypes DEF Slots
<1>2. AutoRolledBack(r) \in Slots
  BY <1>1, FieldTypes, Zenon DEF AutoRolledBack, Slots
<1>3. Window(AutoRolledBack(r))
  BY DEF AutoRolledBack, Slots, Window, Other
<1> QED
  BY <1>2, <1>3

LEMMA ConfirmedOK ==
  ASSUME NEW r \in Slots, Window(r)
  PROVE  Confirmed(r) \in Slots /\ Window(Confirmed(r))
<1>1. Confirmed(r) \in Slots
  BY FieldTypes, Zenon DEF Confirmed, Slots
<1>2. Window(Confirmed(r))
  BY DEF Confirmed, Slots, Window
<1> QED
  BY <1>1, <1>2

-----------------------------------------------------------------------------
(* The invariant is inductive. *)

LEMMA ProcMembers == Rollback \in Proc /\ Confirm \in Proc /\ Appliers \subseteq Proc
  BY DEF Proc

LEMMA InitInv == Init => IInv
<1> SUFFICES ASSUME Init PROVE IInv
  OBVIOUS
<1>1. \A p \in Proc : held[p] \in Slots /\ Window(held[p])
  BY ProvisionedOK DEF Init
<1>2. slots \in Slots /\ Window(slots) /\ Readable
  BY ProvisionedOK DEF Init, Readable
<1>3. image \in [Slot -> Versions \cup {Torn}]
  BY DEF Init
<1>4. tries \in 0 .. StartLimitBurst /\ ops \in 0 .. MaxOps
  BY OpsAssumption DEF Init, StartLimitBurst
<1>5. pc \in [Proc -> Steps] /\ held \in [Proc -> Slots] /\ want \in [Appliers -> Versions]
  BY ProvisionedOK DEF Init, Steps
<1>6. tmp \in Slots \cup {Torn, Blank, Absent} /\ FileOK
      /\ open \in [Proc -> {"none", "tmp", "file", "gone"}]
  BY DEF Init, FileOK
<1>7. DeviceTypes
  BY <1>2, <1>3, <1>4, <1>5, <1>6 DEF Init, DeviceTypes
<1>8. Retries /\ OneWriter
  BY <1>2, ProcMembers DEF Init, Retries, InFlight, OneWriter, InTmp
<1> QED
  BY <1>1, <1>2, <1>6, <1>7, <1>8 DEF IInv, Core

\* A command that stores a lawful record keeps the invariant of the copies.
LEMMA HeldStep ==
  ASSUME IInv, NEW p \in Proc, NEW r \in Slots, Window(r),
         held' = [held EXCEPT ![p] = r]
  PROVE  held' \in [Proc -> Slots] /\ \A q \in Proc : Window(held'[q])
<1>1. held \in [Proc -> Slots] /\ \A q \in Proc : Window(held[q])
  BY DEF IInv, Core, DeviceTypes
<1>2. held' \in [Proc -> Slots]
  BY <1>1
<1>3. \A q \in Proc : held'[q] = r \/ held'[q] = held[q]
  BY <1>1
<1> QED
  BY <1>1, <1>2, <1>3

LEMMA PcStep ==
  ASSUME IInv, NEW p \in Proc, NEW from, NEW to \in Steps, Goto(p, from, to)
  PROVE  pc' \in [Proc -> Steps]
  BY DEF IInv, Core, DeviceTypes, Goto

\* What a command has read was lawful.
LEMMA ReadOK ==
  ASSUME IInv, NEW p \in Proc, ReadSlots(p)
  PROVE  held' \in [Proc -> Slots] /\ \A q \in Proc : Window(held'[q])
<1>1. slots \in Slots /\ Window(slots) /\ held' = [held EXCEPT ![p] = slots]
  BY DEF ReadSlots, Readable, IInv, Core, DeviceTypes
<1> QED
  BY <1>1, HeldStep

LEMMA ApplyStep ==
  ASSUME IInv, NEW p \in Appliers, ApplyNext(p)
  PROVE  Core'
<1> USE DEF disk, cpu, rest, env, FileOK, Readable
<1>1. p \in Proc
  BY ProcMembers
<1>2. ASSUME NEW v \in Versions, ApplyStart(p, v) PROVE Core'
  <2>1. pc' \in [Proc -> Steps]
    BY <1>1, <1>2, PcStep DEF ApplyStart, Steps
  <2>2. want' \in [Appliers -> Versions] /\ ops' \in 0 .. MaxOps
    BY <1>2, OpsAssumption DEF ApplyStart, Starts, IInv, Core, DeviceTypes
  <2> QED
    BY <1>2, <2>1, <2>2 DEF ApplyStart, Starts, IInv, Core, DeviceTypes
<1>3. CASE ApplyCopy(p)
  <2>1. pc' \in [Proc -> Steps]
    BY <1>1, <1>3, PcStep DEF ApplyCopy, Steps
  <2>2. held' \in [Proc -> Slots] /\ \A q \in Proc : Window(held'[q])
    BY <1>1, <1>3, ReadOK DEF ApplyCopy
  <2>3. image' \in [Slot -> Versions \cup {Torn}]
    BY <1>3 DEF ApplyCopy, IInv, Core, DeviceTypes, Torn
  <2> QED
    BY <1>3, <2>1, <2>2, <2>3 DEF ApplyCopy, IInv, Core, DeviceTypes
<1>4. CASE ApplyCopied(p)
  <2>1. pc' \in [Proc -> Steps]
    BY <1>1, <1>4, PcStep DEF ApplyCopied, Steps
  <2>2. image' \in [Slot -> Versions \cup {Torn}]
    BY <1>4 DEF ApplyCopied, Staged, IInv, Core, DeviceTypes
  <2> QED
    BY <1>4, <2>1, <2>2 DEF ApplyCopied, IInv, Core, DeviceTypes
<1>5. CASE ApplyVerify(p)
  <2>1. pc' \in [Proc -> Steps]
    BY <1>1, <1>5, PcStep DEF ApplyVerify, Steps
  <2> QED
    BY <1>5, <2>1 DEF ApplyVerify, IInv, Core, DeviceTypes
<1>6. CASE ApplyPoint(p)
  <2>1. pc' \in [Proc -> Steps]
    BY <1>1, <1>6, PcStep DEF ApplyPoint, Steps
  <2>2. held[p].inactive \in Slot
    BY <1>1 DEF IInv, Core, DeviceTypes, Slots
  <2>3. pointer' \in Slot /\ next' \in Slot \cup {None}
    BY <1>6, <2>2 DEF ApplyPoint, PointAt, IInv, Core, DeviceTypes
  <2> QED
    BY <1>6, <2>1, <2>3 DEF ApplyPoint, IInv, Core, DeviceTypes
<1> QED
  BY <1>2, <1>3, <1>4, <1>5, <1>6 DEF ApplyNext

LEMMA RollbackStep ==
  ASSUME IInv, RollbackNext
  PROVE  Core'
<1> USE DEF disk, cpu, rest, env, FileOK, Readable
<1>1. CASE RollbackRead
  <2>1. pc' \in [Proc -> Steps]
    BY <1>1, PcStep, ProcMembers DEF RollbackRead, Steps
  <2>2. held' \in [Proc -> Slots] /\ \A q \in Proc : Window(held'[q])
    BY <1>1, ReadOK, ProcMembers DEF RollbackRead
  <2>3. ops' \in 0 .. MaxOps
    BY <1>1, OpsAssumption DEF RollbackRead, Starts, IInv, Core, DeviceTypes
  <2> QED
    BY <1>1, <2>1, <2>2, <2>3 DEF RollbackRead, Starts, IInv, Core, DeviceTypes
<1>2. CASE RollbackCheck
  <2>1. pc' \in [Proc -> Steps]
    BY <1>2, PcStep, ProcMembers DEF RollbackCheck, Steps
  <2> QED
    BY <1>2, <2>1 DEF RollbackCheck, IInv, Core, DeviceTypes
<1>3. CASE RollbackPoint
  <2>1. pc' \in [Proc -> Steps]
    BY <1>3, PcStep, ProcMembers DEF RollbackPoint, Steps
  <2>2. held[Rollback].inactive \in Slot
    BY ProcMembers DEF IInv, Core, DeviceTypes, Slots
  <2>3. pointer' \in Slot /\ next' \in Slot \cup {None}
    BY <1>3, <2>2 DEF RollbackPoint, PointAt, IInv, Core, DeviceTypes
  <2> QED
    BY <1>3, <2>1, <2>3 DEF RollbackPoint, IInv, Core, DeviceTypes
<1> QED
  BY <1>1, <1>2, <1>3 DEF RollbackNext

\* What a command writes is lawful too, and starts a count or closes the window.
LEMMA NewSlotsOK ==
  ASSUME IInv, NEW p \in Proc
  PROVE  NewSlots(p) \in Slots /\ Window(NewSlots(p)) /\ NewSlots(p).bootCount = 0
<1>1. held[p] \in Slots /\ Window(held[p])
  BY DEF IInv, Core, DeviceTypes
<1>2. CASE p = Rollback
  <2>1. RolledBack(held[p]) \in Slots /\ Window(RolledBack(held[p]))
    BY <1>1, RolledBackOK
  <2> QED BY <1>1, <1>2, <2>1 DEF NewSlots, RolledBack, Slots
<1>3. CASE p # Rollback /\ p = Confirm
  <2>1. Confirmed(held[p]) \in Slots /\ Window(Confirmed(held[p]))
    BY <1>1, ConfirmedOK
  <2> QED BY <1>1, <1>3, <2>1 DEF NewSlots, Confirmed, Slots
<1>4. CASE p # Rollback /\ p # Confirm
  <2>1. want[p] \in Versions
    BY <1>4 DEF Proc, IInv, Core, DeviceTypes
  <2>2. Applied(held[p], want[p]) \in Slots /\ Window(Applied(held[p], want[p]))
    BY <1>1, <2>1, AppliedOK
  <2> QED BY <1>1, <1>4, <2>2 DEF NewSlots, Applied, Slots
<1> QED BY <1>2, <1>3, <1>4

LEMMA WriteStep ==
  ASSUME IInv, NEW p \in Proc, WriteSlots(p)
  PROVE  Core'
<1> USE DEF disk, cpu, env
<1> DEFINE n == NewSlots(p)
<1>1. n \in Slots /\ Window(n) /\ n.bootCount = 0
  BY NewSlotsOK
<1> HIDE DEF n
<1>2. CASE TruncateTmp(p)
  <2>1. pc' \in [Proc -> Steps]
    BY <1>2, PcStep DEF TruncateTmp, Steps
  <2>2. tmp' \in Slots \cup {Torn, Blank, Absent} /\ FileOK'
        /\ open' \in [Proc -> {"none", "tmp", "file", "gone"}]
    BY <1>2 DEF TruncateTmp, FileOK, IInv, Core, DeviceTypes
  <2>3. crossed' \in BOOLEAN
    BY <1>2, Zenon DEF TruncateTmp
  <2> QED
    BY <1>2, <2>1, <2>2, <2>3 DEF TruncateTmp, Readable, IInv, Core, DeviceTypes
<1>3. CASE FillTmp(p)
  <2>1. pc' \in [Proc -> Steps]
    BY <1>3, PcStep DEF FillTmp, Steps
  <2>2. open' \in [Proc -> {"none", "tmp", "file", "gone"}]
    BY <1>3 DEF FillTmp, IInv, Core, DeviceTypes
  <2>3. tmp' \in {tmp, n, Torn} /\ slots' \in {slots, n, Torn}
    BY <1>3 DEF FillTmp, Over, n
  <2>4. /\ tmp' \in Slots \cup {Torn, Blank, Absent} /\ FileOK'
        /\ slots' \in Slots \cup {Torn, Blank} /\ (Readable => Window(slots))'
    BY <1>1, <2>3 DEF FileOK, Readable, IInv, Core, DeviceTypes
  <2> QED
    BY <1>3, <2>1, <2>2, <2>4 DEF FillTmp, IInv, Core, DeviceTypes
<1>4. CASE RenameTmp(p)
  <2>1. pc' \in [Proc -> Steps]
    BY <1>4, PcStep DEF RenameTmp, Finish, Steps
  <2>2. held' \in [Proc -> Slots] /\ \A q \in Proc : Window(held'[q])
    BY <1>4, HeldStep, ProvisionedOK DEF RenameTmp, Finish
  <2>3. open' \in [Proc -> {"none", "tmp", "file", "gone"}]
    BY <1>4 DEF RenameTmp, Moved, IInv, Core, DeviceTypes
  <2>4. /\ tmp' \in Slots \cup {Torn, Blank, Absent} /\ FileOK'
        /\ slots' \in Slots \cup {Torn, Blank} /\ (Readable => Window(slots))'
    BY <1>4 DEF RenameTmp, FileOK, Readable, IInv, Core, DeviceTypes
  <2>5. changed' \in BOOLEAN
    BY <1>4, Zenon DEF RenameTmp
  <2> QED
    BY <1>4, <2>1, <2>2, <2>3, <2>4, <2>5 DEF RenameTmp, IInv, Core, DeviceTypes
<1> QED
  BY <1>2, <1>3, <1>4 DEF WriteSlots

\* A command that leaves slots.tmp leaves it as it was, or to nobody.
LEMMA LeaveStep ==
  ASSUME IInv, NEW p \in Proc, LeaveTmp(p)
  PROVE  /\ tmp' \in {tmp, Absent}
         /\ tmp' \in Slots \cup {Torn, Blank, Absent} /\ FileOK'
         /\ open' \in [Proc -> {"none", "tmp", "file", "gone"}]
  BY DEF LeaveTmp, FileOK, IInv, Core, DeviceTypes

LEMMA FailStep ==
  ASSUME IInv, NEW p \in Proc, Fail(p)
  PROVE  Core'
<1>1. pc' \in [Proc -> Steps]
  BY PcStep DEF Fail, Finish, Steps
<1>2. held' \in [Proc -> Slots] /\ \A q \in Proc : Window(held'[q])
  BY HeldStep, ProvisionedOK DEF Fail, Finish
<1>3. LeaveTmp(p)
  BY DEF Fail
<1> QED
  BY <1>1, <1>2, <1>3, LeaveStep DEF Fail, IInv, Core, DeviceTypes, Readable, disk, cpu

LEMMA ConfirmStep ==
  ASSUME IInv, ConfirmNext
  PROVE  Core'
<1> USE DEF disk, cpu, rest, env, FileOK, Readable
<1>0. held[Confirm] \in Slots /\ Window(held[Confirm])
  BY ProcMembers DEF IInv, Core, DeviceTypes
<1>1. CASE ConfirmRead
  <2>1. pc' \in [Proc -> Steps]
    BY <1>1, PcStep, ProcMembers DEF ConfirmRead, Steps
  <2>2. held' \in [Proc -> Slots] /\ \A q \in Proc : Window(held'[q])
    BY <1>1, ReadOK, ProcMembers DEF ConfirmRead
  <2> QED
    BY <1>1, <2>1, <2>2 DEF ConfirmRead, IInv, Core, DeviceTypes
<1>2. CASE ConfirmHealth
  <2>1. pc' \in [Proc -> Steps]
    BY <1>2, PcStep, ProcMembers DEF ConfirmHealth, Steps
  <2> QED
    BY <1>2, <2>1 DEF ConfirmHealth, IInv, Core, DeviceTypes
<1>3. CASE ConfirmNote
  <2>1. pc' \in [Proc -> Steps]
    BY <1>3, PcStep, ProcMembers DEF ConfirmNote, Steps
  <2>2. installed' \in Versions
    BY <1>0, <1>3 DEF ConfirmNote, IInv, Core, DeviceTypes, Slots
  <2> QED
    BY <1>3, <2>1, <2>2 DEF ConfirmNote, IInv, Core, DeviceTypes
<1>4. CASE ConfirmFail
  <2>1. pc' \in [Proc -> Steps]
    BY <1>4, PcStep, ProcMembers DEF ConfirmFail, Finish, Steps
  <2>2. held' \in [Proc -> Slots] /\ \A q \in Proc : Window(held'[q])
    BY <1>4, HeldStep, ProvisionedOK, ProcMembers DEF ConfirmFail, Finish
  <2>3. tries' \in 0 .. StartLimitBurst
    BY <1>4 DEF Retries, InFlight, ConfirmFail, IInv, Core, DeviceTypes, StartLimitBurst
  <2>4. LeaveTmp(Confirm)
    BY <1>4 DEF ConfirmFail
  <2> QED
    BY <1>4, <2>1, <2>2, <2>3, <2>4, LeaveStep, ProcMembers
       DEF ConfirmFail, IInv, Core, DeviceTypes
<1> QED
  BY <1>1, <1>2, <1>3, <1>4 DEF ConfirmNext

\* With the power goes what commands have read and opened.
LEMMA PowerDownStep ==
  ASSUME IInv, PowerDown, slots' \in Slots \cup {Torn, Blank}, Readable' => Window(slots')
  PROVE  Core'
<1>1. held' \in [Proc -> Slots] /\ \A q \in Proc : Window(held'[q])
  BY ProvisionedOK DEF PowerDown
<1>2. pc' \in [Proc -> Steps] /\ tries' \in 0 .. StartLimitBurst
  BY DEF PowerDown, Steps, StartLimitBurst
<1>3. tmp' = Absent /\ FileOK' /\ open' \in [Proc -> {"none", "tmp", "file", "gone"}]
  BY DEF PowerDown, FileOK
<1> QED
  BY <1>1, <1>2, <1>3 DEF PowerDown, IInv, Core, DeviceTypes

LEMMA PowerStep ==
  ASSUME IInv, Restart \/ Boot \/ BootNextFails
  PROVE  Core'
<1> USE DEF disk, cpu, rest, env, FileOK, Readable
<1>1. CASE Restart
  BY <1>1, PowerDownStep DEF Restart, IInv, Core, DeviceTypes
<1>2. CASE Boot
  <2>1. Entry \in Slot /\ image[Entry] \in Versions \cup {None}
    BY DEF Entry, IInv, Core, DeviceTypes, Torn
  <2> QED
    BY <1>2, <2>1 DEF Boot, IInv, Core, DeviceTypes
<1>3. CASE BootNextFails
  BY <1>3 DEF BootNextFails, IInv, Core, DeviceTypes
<1> QED
  BY <1>1, <1>2, <1>3

\* The watchdog writes a change of what it has read, or nothing.
LEMMA WatchdogWrites ==
  ASSUME WatchdogNext
  PROVE  /\ mode = "early" /\ (StartUserspace \/ PowerDown)
         /\ \/ slots' = slots /\ StartUserspace
            \/ Readable /\ slots' = Acknowledged(slots)
            \/ /\ Readable /\ slots.updatePending /\ ~Exhausted(slots)
               /\ slots' = Counted(slots)
            \/ Readable /\ slots.updatePending /\ slots' = AutoRolledBack(slots)
  BY DEF WatchdogNext, WatchdogReads, WatchdogSettle, WatchdogCount, WatchdogGiveUp,
         WatchdogFail, WriteAlone

LEMMA WatchdogStep ==
  ASSUME IInv, WatchdogNext
  PROVE  Core'
<1>1. slots' \in Slots \cup {Torn, Blank} /\ (Readable => Window(slots))'
  <2>1. CASE slots' = slots
    BY <2>1 DEF IInv, Core, DeviceTypes, Readable
  <2>2. CASE Readable /\ slots' # slots
    <3>1. slots \in Slots /\ Window(slots)
      BY <2>2 DEF IInv, Core, DeviceTypes, Readable
    <3> QED
      BY <2>2, <3>1, WatchdogWrites, AcknowledgedOK, CountedOK, AutoRolledBackOK
  <2> QED
    BY <2>1, <2>2, WatchdogWrites
<1>2. CASE StartUserspace
  <2>1. pc' \in [Proc -> Steps]
    BY <1>2, ProcMembers DEF StartUserspace, Steps, IInv, Core, DeviceTypes
  <2> QED
    BY <1>1, <1>2, <2>1 DEF StartUserspace, IInv, Core, DeviceTypes, FileOK, rest, env
<1>3. CASE PowerDown
  BY <1>1, <1>3, PowerDownStep
<1> QED
  BY <1>2, <1>3, WatchdogWrites

\* Only the confirmation and the power change what Retries speaks of.
LEMMA RetriesStep ==
  ASSUME IInv, Next
  PROVE  Retries'
<1> USE ProcMembers DEF Retries, InFlight, StartLimitBurst
<1>0. pc \in [Proc -> Steps] /\ tries \in 0 .. StartLimitBurst
  BY DEF IInv, Core, DeviceTypes
<1>1. ASSUME NEW p \in Proc \ {Confirm}, NEW from, NEW to, Goto(p, from, to),
             UNCHANGED <<mode, tries>>
      PROVE  Retries'
  BY <1>0, <1>1 DEF Goto, IInv
<1>2. ASSUME NEW p \in Appliers, ApplyNext(p) PROVE Retries'
  <2>1. p \in Proc \ {Confirm}
    BY AppliersAssumption
  <2> QED
    BY <1>1, <1>2, <2>1 DEF ApplyNext, ApplyStart, ApplyCopy, ApplyCopied, ApplyVerify,
                            ApplyPoint, cpu
<1>3. CASE RollbackNext
  <2>1. Rollback \in Proc \ {Confirm}
    BY DEF Rollback, Confirm
  <2> QED
    BY <1>1, <1>3, <2>1 DEF RollbackNext, RollbackRead, RollbackCheck, RollbackPoint, cpu
<1>4. ASSUME NEW p \in Proc, Fail(p) PROVE Retries'
  BY <1>1, <1>4 DEF Fail, Finish, cpu
<1>5. CASE ConfirmNext
  BY <1>0, <1>5 DEF ConfirmNext, ConfirmRead, ConfirmHealth, ConfirmNote, ConfirmFail,
                    Goto, Finish, cpu, IInv
<1>6. CASE WatchdogNext
  <2>1. ASSUME StartUserspace, mode = "early" PROVE Retries'
    BY <1>0, <2>1 DEF StartUserspace, IInv
  <2>2. ASSUME PowerDown PROVE Retries'
    BY <2>2 DEF PowerDown
  <2> QED
    BY <1>6, <2>1, <2>2 DEF WatchdogNext, WatchdogSettle, WatchdogCount,
                            WatchdogGiveUp, WatchdogFail, WatchdogReads
<1>7. CASE Restart
  BY <1>7 DEF Restart, PowerDown
<1>8. CASE Boot \/ BootNextFails
  BY <1>8 DEF Boot, BootNextFails, cpu, IInv
<1>9. ASSUME NEW p \in Proc, WriteSlots(p) PROVE Retries'
  <2>1. UNCHANGED <<mode, tries>>
    BY <1>9 DEF WriteSlots, TruncateTmp, FillTmp, RenameTmp, cpu
  <2>2. PICK to : Goto(p, pc[p], to) /\ InFlight(p)
    BY <1>9 DEF WriteSlots, TruncateTmp, FillTmp, RenameTmp, Finish, Goto
  <2>3. CASE p = Confirm
    BY <1>0, <2>1, <2>2, <2>3 DEF Goto, IInv
  <2> QED
    BY <1>1, <2>1, <2>2, <2>3
<1> QED
  BY <1>2, <1>3, <1>4, <1>5, <1>6, <1>7, <1>8, <1>9 DEF Next

\* A step of p outside slots.tmp, or p's leaving it, leaves another writer's file
\* and copy as they are.
LEMMA WriterKept ==
  ASSUME IInv, NEW p \in Proc, NEW to, to \notin {"writing", "written"},
         pc' = [pc EXCEPT ![p] = to], crossed' = crossed,
         ~crossed => Readable',
         \A q \in Proc \ {p} : held'[q] = held[q] /\ (InTmp(q) => open'[q] = open[q]),
         \A q \in Appliers \ {p} : want'[q] = want[q],
         tmp' = tmp \/ \A q \in Proc \ {p} : ~InTmp(q)
  PROVE  OneWriter'
<1> SUFFICES ASSUME ~crossed PROVE
        /\ Readable'
        /\ (\A q, r \in Proc : InTmp(q) /\ InTmp(r) => q = r)'
        /\ (\A q \in Proc : pc[q] = "writing" => open[q] = "tmp" /\ tmp = Blank)'
        /\ (\A q \in Proc : pc[q] = "written" => tmp = NewSlots(q))'
  BY DEF OneWriter
<1>1. \A q \in Proc \ {p} : pc'[q] = pc[q]
  BY DEF IInv, Core, DeviceTypes
<1>2. ~InTmp(p)'
  BY DEF InTmp, IInv, Core, DeviceTypes
<1>3. \A q \in Proc \ {p} : NewSlots(q)' = NewSlots(q)
  BY DEF NewSlots, Proc
<1>4. (\A q, r \in Proc : InTmp(q) /\ InTmp(r) => q = r)'
  BY <1>1, <1>2 DEF InTmp, IInv, OneWriter
<1>5. (\A q \in Proc : pc[q] = "writing" => open[q] = "tmp" /\ tmp = Blank)'
  BY <1>1, <1>2 DEF InTmp, IInv, OneWriter
<1>6. (\A q \in Proc : pc[q] = "written" => tmp = NewSlots(q))'
  BY <1>1, <1>2, <1>3 DEF InTmp, IInv, OneWriter
<1> QED BY <1>4, <1>5, <1>6

\* write_slots opens a file of its own, or two writers have crossed.
LEMMA OneWrites ==
  ASSUME IInv, NEW p \in Proc, WriteSlots(p)
  PROVE  OneWriter'
<1> USE DEF disk
<1>0. /\ pc \in [Proc -> Steps] /\ open \in [Proc -> {"none", "tmp", "file", "gone"}]
      /\ held \in [Proc -> Slots]
  BY DEF IInv, Core, DeviceTypes
<1>1. CASE TruncateTmp(p)
  <2> SUFFICES ASSUME ~crossed' PROVE OneWriter'
    BY DEF OneWriter
  <2>1. ~crossed /\ \A q \in Proc \ {p} : ~InTmp(q)
    BY <1>1 DEF TruncateTmp
  <2>2. pc'[p] = "writing" /\ open'[p] = "tmp" /\ tmp' = Blank /\ slots' = slots
        /\ \A q \in Proc \ {p} : pc'[q] = pc[q]
    BY <1>0, <1>1 DEF TruncateTmp, Goto
  <2> QED BY <2>1, <2>2 DEF OneWriter, InTmp, Readable, IInv
<1>2. CASE FillTmp(p)
  <2> SUFFICES ASSUME ~crossed PROVE OneWriter'
    BY <1>2 DEF OneWriter, FillTmp
  <2>1. pc[p] = "writing" /\ pc'[p] = "written" /\ \A q \in Proc \ {p} : pc'[q] = pc[q]
    BY <1>0, <1>2 DEF FillTmp, Goto
  <2>2. open[p] = "tmp" /\ tmp = Blank /\ \A q \in Proc \ {p} : ~InTmp(q)
    BY <2>1 DEF IInv, OneWriter, InTmp
  <2>3. tmp' = NewSlots(p) /\ slots' = slots
    BY <1>2, <2>2 DEF FillTmp, Over
  <2>4. NewSlots(p)' = NewSlots(p)
    BY <1>2 DEF FillTmp, NewSlots
  <2> QED BY <2>1, <2>2, <2>3, <2>4 DEF OneWriter, InTmp, Readable, IInv
<1>3. CASE RenameTmp(p)
  <2> SUFFICES ASSUME ~crossed PROVE OneWriter'
    BY <1>3 DEF OneWriter, RenameTmp
  <2>1. pc[p] = "written" /\ slots' = tmp
        /\ \A q \in Proc : pc'[q] \in {"idle", "done"} \/ (q # p /\ pc'[q] = pc[q])
    BY <1>0, <1>3 DEF RenameTmp, Finish, Goto
  <2>2. tmp = NewSlots(p) /\ \A q \in Proc \ {p} : ~InTmp(q)
    BY <2>1 DEF IInv, OneWriter, InTmp
  <2>3. Readable'
    BY <2>1, <2>2, NewSlotsOK DEF Readable
  <2> QED BY <2>1, <2>2, <2>3 DEF OneWriter, InTmp
<1> QED BY <1>1, <1>2, <1>3 DEF WriteSlots

LEMMA NoWriter ==
  ASSUME \A p \in Proc : pc'[p] \notin {"writing", "written"}, ~crossed' => Readable'
  PROVE  OneWriter'
  BY DEF OneWriter, InTmp

LEMMA OneWriterStep ==
  ASSUME IInv, Next
  PROVE  OneWriter'
<1> USE DEF disk, rest, env, Readable, Goto
<1>0. /\ ~crossed => Readable
      /\ pc \in [Proc -> Steps] /\ held \in [Proc -> Slots] /\ want \in [Appliers -> Versions]
  BY DEF IInv, OneWriter, Core, DeviceTypes
<1>1. ASSUME NEW p \in Appliers, ApplyNext(p) PROVE OneWriter'
  <2>1. p \in Proc
    BY ProcMembers
  <2>2. PICK to \in {"staged", "copying", "copied", "verified", "pointed"} :
            pc' = [pc EXCEPT ![p] = to]
    BY <1>1 DEF ApplyNext, ApplyStart, ApplyCopy, ApplyCopied, ApplyVerify, ApplyPoint
  <2>3. UNCHANGED <<slots, tmp, open, crossed>>
    BY <1>1 DEF ApplyNext, ApplyStart, Starts, ApplyCopy, ApplyCopied, ApplyVerify, ApplyPoint
  <2>4. /\ \A q \in Proc \ {p} : held'[q] = held[q]
        /\ \A q \in Appliers \ {p} : want'[q] = want[q]
    BY <1>0, <1>1 DEF ApplyNext, ApplyStart, ApplyCopy, ApplyCopied, ApplyVerify, ApplyPoint,
                      ReadSlots
  <2> QED BY <1>0, <2>1, <2>2, <2>3, <2>4, WriterKept
<1>2. CASE RollbackNext
  <2>1. PICK to \in {"read", "checked", "pointed"} : pc' = [pc EXCEPT ![Rollback] = to]
    BY <1>2 DEF RollbackNext, RollbackRead, RollbackCheck, RollbackPoint
  <2>2. UNCHANGED <<slots, tmp, open, crossed, want>>
    BY <1>2 DEF RollbackNext, RollbackRead, Starts, RollbackCheck, RollbackPoint
  <2>3. \A q \in Proc \ {Rollback} : held'[q] = held[q]
    BY <1>0, <1>2 DEF RollbackNext, RollbackRead, RollbackCheck, RollbackPoint, ReadSlots
  <2> QED BY <1>0, <2>1, <2>2, <2>3, WriterKept, ProcMembers
<1>3. ASSUME NEW p \in Proc, NEW to, to \notin {"writing", "written"},
             Finish(p, pc[p], to), LeaveTmp(p), UNCHANGED <<slots, crossed, want>>
      PROVE  OneWriter'
  <2>1. pc' = [pc EXCEPT ![p] = to] /\ \A q \in Proc \ {p} : held'[q] = held[q]
    BY <1>0, <1>3 DEF Finish
  <2>2. \A q \in Proc \ {p} : open'[q] = open[q]
    BY <1>3 DEF LeaveTmp, IInv, Core, DeviceTypes
  <2>3. tmp' = tmp \/ \A q \in Proc \ {p} : ~InTmp(q)
    BY <1>3 DEF LeaveTmp
  <2>4. Readable' <=> Readable
    BY <1>3
  <2> QED BY <1>0, <1>3, <2>1, <2>2, <2>3, <2>4, WriterKept
<1>4. ASSUME NEW p \in Proc, Fail(p) PROVE OneWriter'
  BY <1>3, <1>4 DEF Fail
<1>5. CASE ConfirmFail
  BY <1>3, <1>5, ProcMembers DEF ConfirmFail
<1>6. CASE ConfirmRead \/ ConfirmHealth \/ ConfirmNote
  <2>1. PICK to \in {"read", "done", "healthy", "noted"} : pc' = [pc EXCEPT ![Confirm] = to]
    BY <1>6 DEF ConfirmRead, ConfirmHealth, ConfirmNote
  <2>2. UNCHANGED <<slots, tmp, open, crossed, want>>
    BY <1>6 DEF ConfirmRead, ConfirmHealth, ConfirmNote
  <2>3. \A q \in Proc \ {Confirm} : held'[q] = held[q]
    BY <1>0, <1>6 DEF ConfirmRead, ConfirmHealth, ConfirmNote, ReadSlots
  <2> QED BY <1>0, <2>1, <2>2, <2>3, WriterKept, ProcMembers
<1>7. CASE WatchdogNext
  <2>1. ~crossed => Readable'
    <3>1. CASE slots' = slots
      BY <1>0, <3>1
    <3>2. CASE Readable /\ slots' # slots
      <4>1. slots \in Slots /\ Window(slots)
        BY <3>2 DEF IInv, Core, DeviceTypes
      <4>2. slots' \in Slots
        BY <1>7, <3>2, <4>1, WatchdogWrites, AcknowledgedOK, CountedOK, AutoRolledBackOK
      <4> QED BY <4>2
    <3> QED BY <1>7, <3>1, <3>2, WatchdogWrites
  <2>2. CASE StartUserspace
    <3>1. pc' = [pc EXCEPT ![Confirm] = "start"] /\ UNCHANGED <<tmp, open, crossed, held, want>>
      BY <2>2 DEF StartUserspace
    <3> QED BY <2>1, <3>1, WriterKept, ProcMembers
  <2>3. CASE PowerDown
    BY <2>1, <2>3, NoWriter DEF PowerDown
  <2> QED BY <1>7, <2>2, <2>3, WatchdogWrites
<1>8. CASE Restart
  BY <1>0, <1>8, NoWriter DEF Restart, PowerDown
<1>9. CASE Boot \/ BootNextFails
  BY <1>9 DEF Boot, BootNextFails, IInv, OneWriter, InTmp, NewSlots
<1> QED
  BY <1>1, <1>2, <1>4, <1>5, <1>6, <1>7, <1>8, <1>9, OneWrites DEF Next, ConfirmNext

\* The platform stays what it is.
EnvTypes == oneShot \in BOOLEAN /\ calm \in BOOLEAN

LEMMA CalmStep == Starts \/ PowerDown \/ (\E p \in Proc : Fail(p)) => calm' \in BOOLEAN
<1>1. ASSUME NEW P, calm' = (calm /\ P) PROVE calm' \in BOOLEAN
  BY <1>1
<1>2. Starts => calm' \in BOOLEAN
  BY <1>1, Zenon DEF Starts
<1>3. PowerDown => calm' \in BOOLEAN
  BY <1>1, Zenon DEF PowerDown
<1>4. (\E p \in Proc : Fail(p)) => calm' \in BOOLEAN
  BY <1>1, Zenon DEF Fail
<1> QED BY <1>2, <1>3, <1>4

LEMMA EnvStep == EnvTypes /\ [Next]_vars => EnvTypes'
<1> SUFFICES ASSUME EnvTypes, [Next]_vars PROVE EnvTypes'
  OBVIOUS
<1> USE DEF rest, env, EnvTypes
<1>1. ASSUME NEW p \in Appliers, ApplyNext(p) PROVE EnvTypes'
  <2>1. CASE \E v \in Versions : ApplyStart(p, v)
    <3>1. Starts
      BY <2>1 DEF ApplyStart
    <3> QED BY <3>1, CalmStep DEF Starts
  <2> QED BY <1>1, <2>1 DEF ApplyNext, ApplyCopy, ApplyCopied, ApplyVerify, ApplyPoint
<1>2. CASE RollbackNext
  <2>1. CASE RollbackRead
    <3>1. Starts
      BY <2>1 DEF RollbackRead
    <3> QED BY <3>1, CalmStep DEF Starts
  <2> QED BY <1>2, <2>1 DEF RollbackNext, RollbackCheck, RollbackPoint
<1>3. ASSUME NEW p \in Proc, Fail(p) PROVE EnvTypes'
  <2>1. oneShot' = oneShot
    BY <1>3 DEF Fail
  <2> QED BY <1>3, <2>1, CalmStep
<1>4. CASE ConfirmNext
  BY <1>4 DEF ConfirmNext, ConfirmRead, ConfirmHealth, ConfirmNote, ConfirmFail
<1>5. ASSUME PowerDown PROVE EnvTypes'
  <2>1. oneShot' = oneShot
    BY <1>5 DEF PowerDown
  <2> QED BY <1>5, <2>1, CalmStep
<1>6. CASE WatchdogNext
  <2>1. ASSUME StartUserspace PROVE EnvTypes'
    BY <2>1 DEF StartUserspace
  <2> QED
    BY <1>5, <1>6, <2>1, WatchdogWrites
<1>7. CASE Restart
  BY <1>5, <1>7 DEF Restart
<1>8. CASE Boot \/ BootNextFails
  BY <1>8 DEF Boot, BootNextFails
<1>9. ASSUME NEW p \in Proc, WriteSlots(p) PROVE EnvTypes'
  BY <1>9 DEF WriteSlots, TruncateTmp, FillTmp, RenameTmp
<1>10. CASE UNCHANGED vars
  BY <1>10 DEF vars
<1> QED
  BY <1>1, <1>2, <1>3, <1>4, <1>6, <1>7, <1>8, <1>9, <1>10 DEF Next

LEMMA NextInv == IInv /\ [Next]_vars => IInv'
<1> SUFFICES ASSUME IInv, [Next]_vars PROVE IInv'
  OBVIOUS
<1>1. CASE Next
  <2>1. Core'
    BY <1>1, ApplyStep, RollbackStep, FailStep, ConfirmStep, WatchdogStep, PowerStep,
       WriteStep DEF Next
  <2> QED
    BY <1>1, <2>1, RetriesStep, OneWriterStep DEF IInv
<1>2. CASE UNCHANGED vars
  <2>1. Core' /\ Retries'
    BY <1>2 DEF vars, IInv, Core, DeviceTypes, FileOK, Readable, Retries, InFlight
  <2>2. OneWriter'
    BY <1>2 DEF vars, IInv, OneWriter, Readable, InTmp, NewSlots
  <2> QED BY <2>1, <2>2 DEF IInv
<1> QED
  BY <1>1, <1>2

-----------------------------------------------------------------------------
\* Every variable keeps its type, among them the boot count below the threshold
\* (no count is ever written that the watchdog should have acted on) and the
\* confirmation's attempts within systemd's start limit.
THEOREM TypeCorrect == Spec => []TypeOK
<1>1. IInv => DeviceTypes
  BY DEF IInv, Core
<1>2. Init => EnvTypes
  BY DEF Init, EnvTypes
<1>3. DeviceTypes /\ EnvTypes <=> TypeOK
  BY DEF TypeOK, EnvTypes
<1> QED
  BY <1>1, <1>2, <1>3, InitInv, NextInv, EnvStep, PTL DEF Spec

\* However the four writers of slots.json interleave, crash and get into each
\* other's temporary file, the flags of a slots.json that parses never contradict
\* each other, so the watchdog and the confirmation can trust them; and it parses
\* as long as no two writers have been in slots.tmp at once.
THEOREM WindowSafe == Spec => []WindowLaw
<1>1. IInv => WindowLaw
  BY DEF IInv, Core, OneWriter, WindowLaw
<1> QED
  BY <1>1, InitInv, NextInv, PTL DEF Spec

-----------------------------------------------------------------------------
(* slots.json implements the trial. *)

\* What writes slots.json, and what it makes of it.
LEMMA SlotsChange ==
  ASSUME IInv, Next, slots' # slots
  PROVE  \/ \E p \in Proc : FillTmp(p) /\ open[p] = "file" /\ slots' \in {NewSlots(p), Torn}
         \/ \E p \in Proc : RenameTmp(p)
         \/ WatchdogNext
<1>1. ASSUME NEW p \in Proc, FillTmp(p)
      PROVE  open[p] = "file" /\ slots' \in {NewSlots(p), Torn}
  BY <1>1 DEF FillTmp, Over
<1>2. ~(\E p \in Appliers : ApplyNext(p)) /\ ~RollbackNext /\ ~ConfirmNext
  BY DEF ApplyNext, ApplyStart, ApplyCopy, ApplyCopied, ApplyVerify, ApplyPoint, RollbackNext,
         RollbackRead, RollbackCheck, RollbackPoint, ConfirmNext, ConfirmRead, ConfirmHealth,
         ConfirmNote, ConfirmFail, disk
<1> QED
  BY <1>1, <1>2 DEF Next, WriteSlots, TruncateTmp, Fail, Restart, Boot, BootNextFails, disk

\* A record whose count is zero starts a trial or ends one.
LEMMA FreshRecord ==
  ASSUME NEW r \in Slots, r.bootCount = 0, slots' = r, crossed' = crossed
  PROVE  Trial!Install \/ Trial!Settle
<1>1. Readable'
  BY DEF Readable
<1> QED
  BY <1>1 DEF trialNow, Trial!Install, Trial!Settle, Trial!NoTrial

\* A step that leaves slots.json alone, makes it unreadable, or starts, counts or
\* ends a trial.
LEMMA TrialStep ==
  ASSUME IInv, Next
  PROVE  [Trial!Next]_<<trialNow, crossed>>
<1> USE DEF Trial!Next, Trial!Lose, Trial!Lost
<1>1. CASE slots' = slots
  <2>1. trialNow' = trialNow
    BY <1>1 DEF trialNow, Readable
  <2>2. crossed' = crossed \/ crossed' = TRUE
    <3>1. ASSUME NEW p \in Proc, TruncateTmp(p) PROVE crossed' = crossed \/ crossed' = TRUE
      BY <3>1 DEF TruncateTmp, IInv, Core, DeviceTypes
    <3>2. (\E p \in Proc : TruncateTmp(p)) \/ crossed' = crossed
      BY DEF Next, ApplyNext, ApplyStart, Starts, ApplyCopy, ApplyCopied, ApplyVerify,
             ApplyPoint, RollbackNext, RollbackRead, RollbackCheck, RollbackPoint, ConfirmNext,
             ConfirmRead, ConfirmHealth, ConfirmNote, ConfirmFail, WriteSlots, FillTmp,
             RenameTmp, Fail, WatchdogNext, WatchdogSettle, WatchdogCount, WatchdogGiveUp,
             WatchdogFail, StartUserspace, PowerDown, Restart, Boot, BootNextFails, rest
    <3> QED BY <3>1, <3>2
  <2> QED BY <2>1, <2>2 DEF Trial!Overlap
<1>2. ASSUME NEW p \in Proc, FillTmp(p), open[p] = "file", slots' \in {NewSlots(p), Torn}
      PROVE  Trial!Next
  <2>1. crossed' = crossed
    BY <1>2 DEF FillTmp
  <2>2. crossed
    BY <1>2 DEF FillTmp, Goto, IInv, OneWriter
  <2>3. CASE slots' = NewSlots(p)
    BY <2>1, <2>3, NewSlotsOK, FreshRecord
  <2>4. CASE slots' = Torn
    <3>1. trialNow' = -2
      BY <2>4 DEF trialNow, Readable
    <3> QED BY <2>1, <2>2, <3>1
  <2> QED BY <1>2, <2>3, <2>4
<1>3. ASSUME NEW p \in Proc, RenameTmp(p)
      PROVE  Trial!Next
  <2>1. crossed' = crossed /\ slots' = tmp /\ tmp # Absent /\ pc[p] = "written"
    BY <1>3 DEF RenameTmp, Finish, Goto
  <2>2. CASE tmp \in Slots
    BY <2>1, <2>2, FreshRecord DEF IInv, Core, FileOK
  <2>3. CASE tmp \in {Torn, Blank}
    <3>1. trialNow' = -2
      BY <2>1, <2>3 DEF trialNow, Readable
    <3>2. crossed
      <4>1. NewSlots(p) \in Slots
        BY NewSlotsOK
      <4> QED BY <2>1, <2>3, <4>1 DEF IInv, OneWriter
    <3> QED BY <2>1, <3>1, <3>2
  <2> QED BY <2>1, <2>2, <2>3 DEF IInv, Core, DeviceTypes
<1>4. ASSUME WatchdogNext, slots' # slots
      PROVE  Trial!Settle \/ Trial!CountBoot
  <2>1. crossed' = crossed
    BY <1>4, WatchdogWrites DEF StartUserspace, PowerDown, rest
  <2>2. slots \in Slots /\ Window(slots) /\ Readable
    BY <1>4, WatchdogWrites DEF IInv, Core, DeviceTypes, Readable
  <2>3. ASSUME slots' \in {Acknowledged(slots), AutoRolledBack(slots)}
        PROVE  Trial!Settle
    <3>1. slots' \in Slots
      BY <2>2, <2>3, AcknowledgedOK, AutoRolledBackOK
    <3>2. ~slots'.updatePending
      BY <2>2, <2>3 DEF Acknowledged, AutoRolledBack, Slots
    <3>3. trialNow' = -1
      BY <3>1, <3>2 DEF trialNow, Readable
    <3> QED BY <2>1, <3>3 DEF Trial!Settle, Trial!NoTrial
  <2>4. ASSUME slots.updatePending, ~Exhausted(slots), slots' = Counted(slots)
        PROVE  Trial!CountBoot
    <3>1. slots' \in Slots
      BY <2>2, <2>4, CountedOK
    <3>2. slots'.updatePending /\ slots'.bootCount = slots.bootCount + 1
          /\ slots.bootCount \in 0 .. 2 /\ slots.bootCount + 1 < 3
      BY <2>2, <2>4 DEF Counted, Slots, Exhausted
    <3>3. trialNow' = trialNow + 1 /\ trialNow = slots.bootCount
      BY <2>2, <2>4, <3>1, <3>2 DEF trialNow, Readable
    <3> QED BY <2>1, <3>2, <3>3 DEF Trial!CountBoot, Trial!NoTrial
  <2> QED BY <1>4, <2>3, <2>4, WatchdogWrites
<1> QED
  BY <1>1, <1>2, <1>3, <1>4, SlotsChange

\* The rollback window of docs/08: an installed release is on trial, each boot of
\* it is counted once, and the trial is over by the third, whatever overlaps with
\* it or crashes under it; only writers that have been in slots.tmp at once can
\* lose the record of it.
THEOREM ImplementsTrial == Spec => TrialSpec
<1>1. Init => Trial!Init
  <2> SUFFICES ASSUME Init PROVE Trial!Init
    OBVIOUS
  <2>1. slots = Provisioned /\ Readable
    BY ProvisionedOK DEF Init, Readable
  <2> QED BY <2>1 DEF Init, Provisioned, trialNow, Trial!Init, Trial!NoTrial
<1>2. IInv /\ [Next]_vars => [Trial!Next]_<<trialNow, crossed>>
  <2> SUFFICES ASSUME IInv, [Next]_vars PROVE [Trial!Next]_<<trialNow, crossed>>
    OBVIOUS
  <2>1. CASE UNCHANGED vars
    BY <2>1 DEF vars, trialNow, Readable
  <2> QED BY <2>1, TrialStep
<1> QED
  BY <1>1, <1>2, InitInv, NextInv, PTL DEF Spec, TrialSpec, Trial!Spec

-----------------------------------------------------------------------------
(* The boot loader in a calm environment, with a persistent boot pointer. *)

Persistent == calm /\ ~oneShot

\* One command at a time, while the device is up, and no slot change after one.
OneAtATime ==
    /\ \A p, q \in Proc : InFlight(p) /\ InFlight(q) => p = q
    /\ \A p \in Proc : InFlight(p) => mode = "up"
    /\ \A p \in Proc \ {Confirm} : InFlight(p) => ~changed

\* So that what a command has read is still what slots.json says.
HasRead(p) == pc[p] \notin {"idle", "done", "start", "staged"}
FreshCopies ==
    /\ ~crossed
    /\ \A p \in Proc : HasRead(p) => held[p] = slots
    /\ HasRead(Confirm) => slots.updatePending

\* The pointer goes ahead of slots.json while a command writes it, and stays
\* behind it when the watchdog has given up.
PointerFollows ==
    /\ next = None
    /\ \A p \in Proc : Tears(p) => pointer = slots.inactive
    /\ Settled => pointer = IF slots.autoRollback THEN slots.inactive ELSE slots.active
    /\ Settled /\ mode # "off" /\ ~changed => running = pointer
    /\ slots.autoRollback => ~slots.updatePending /\ ~slots.pendingRollback

\* What an update points at is verified, and what was booted is there.
PointsAtWhole ==
    /\ \A p \in Appliers : pc[p] = "verified" \/ Tears(p) => image[slots.inactive] # Torn
    /\ mode = "early" => image[pointer] # Torn
    /\ image[pointer] = Torn =>
           slots.pendingRollback \/ slots.autoRollback \/ Tears(Rollback)

Orderly == OneAtATime /\ FreshCopies /\ PointerFollows /\ PointsAtWhole
OrderInv == Persistent => Orderly

\* In such an environment slots.json can be read.
LEMMA OrderlySlots ==
    ASSUME IInv, Orderly
    PROVE  /\ ~crossed /\ slots \in Slots /\ Window(slots) /\ Readable
           /\ slots.active \in Slot /\ slots.inactive \in Slot
           /\ slots.active # slots.inactive /\ slots.inactive = Other(slots.active)
<1>1. ~crossed /\ Readable /\ slots \in Slots /\ Window(slots)
  BY DEF Orderly, FreshCopies, IInv, OneWriter, Core, DeviceTypes, Readable
<1> QED BY <1>1 DEF Slots, Window, Other

LEMMA InitOrder == Init => OrderInv
<1> SUFFICES ASSUME Init PROVE Orderly
  BY DEF OrderInv
<1>1. OneAtATime /\ FreshCopies
  BY ProcMembers DEF Init, OneAtATime, FreshCopies, InFlight, HasRead, Tears
<1>2. PointerFollows
  BY DEF Init, PointerFollows, Tears, Provisioned
<1>3. PointsAtWhole
  BY AppliersAssumption, ProcMembers DEF Init, PointsAtWhole, Tears, Torn
<1> QED BY <1>1, <1>2, <1>3 DEF Orderly

\* Where one command takes a step, the others do nothing.
LEMMA OneSteps ==
    ASSUME IInv, NEW p \in Proc, \A q \in Proc \ {p} : ~InFlight(q),
           NEW from, NEW to, Goto(p, from, to)
    PROVE  /\ pc[p] = from /\ pc'[p] = to
           /\ \A q \in Proc \ {p} : pc'[q] = pc[q] /\ pc[q] \in {"idle", "done"}
<1>1. pc \in [Proc -> Steps]
  BY DEF IInv, Core, DeviceTypes
<1> QED BY <1>1 DEF Goto, InFlight

\* Calm, once lost, does not come back; what a step did calmly it did alone.
LEMMA StaysCalm == EnvTypes =>
    /\ Starts /\ Persistent' => Persistent /\ ~changed /\ \A q \in Proc : ~InFlight(q)
    /\ PowerDown /\ Persistent' => Persistent /\ \A p \in Proc : ~Tears(p)
    /\ \A p \in Proc : Fail(p) /\ Persistent' => Persistent /\ ~Tears(p)
    /\ UNCHANGED env /\ Persistent' => Persistent
<1> HAVE EnvTypes
<1>0. calm \in BOOLEAN /\ oneShot \in BOOLEAN
  BY DEF EnvTypes
<1>1. Starts /\ Persistent' => Persistent /\ ~changed /\ \A q \in Proc : ~InFlight(q)
  BY <1>0 DEF Starts, Persistent
<1>2. PowerDown /\ Persistent' => Persistent /\ \A p \in Proc : ~Tears(p)
  BY <1>0 DEF PowerDown, Persistent
<1>3. \A p \in Proc : Fail(p) /\ Persistent' => Persistent /\ ~Tears(p)
  BY <1>0 DEF Fail, Persistent
<1>4. UNCHANGED env /\ Persistent' => Persistent
  BY <1>0 DEF env, Persistent
<1> QED BY <1>1, <1>2, <1>3, <1>4

LEMMA EnvStays == UNCHANGED env => oneShot' = oneShot
  BY DEF env

\* A command that starts, goes on or ends does so alone.
LEMMA OrderOfOne ==
    ASSUME IInv, NEW p \in Proc, \A q \in Proc \ {p} : ~InFlight(q), mode = "up",
           p # Confirm => ~changed \/ pc'[p] = "idle",
           NEW from, NEW to, Goto(p, from, to), UNCHANGED <<mode, changed>>
    PROVE  OneAtATime'
<1>1. pc'[p] = to /\ \A q \in Proc \ {p} : pc'[q] \in {"idle", "done"}
  BY OneSteps
<1> QED BY <1>1 DEF OneAtATime, InFlight

\* A step of p that leaves slots.json and the boot loader alone.
LEMMA OrderOfQuiet ==
    ASSUME IInv, Orderly, NEW p \in Proc, \A q \in Proc \ {p} : ~InFlight(q),
           ~Tears(p), NEW from, NEW to, Goto(p, from, to),
           p # Confirm => to \notin {"pointed", "writing", "written"},
           UNCHANGED <<slots, pointer, next, mode, running, changed>>
    PROVE  PointerFollows'
<1>1. pc'[p] = to /\ \A q \in Proc \ {p} : pc'[q] = pc[q] /\ pc[q] \in {"idle", "done"}
  BY OneSteps
<1>2. Settled /\ Settled'
  BY <1>1 DEF Settled, Tears
<1> QED BY <1>1, <1>2 DEF Orderly, PointerFollows, Tears

LEMMA ApplyOrder ==
    ASSUME IInv, EnvTypes, OrderInv, NEW p \in Appliers, ApplyNext(p), Persistent'
    PROVE  Orderly'
<1> USE DEF disk, cpu, rest, Tears
<1>1. p \in Proc /\ p # Confirm /\ p # Rollback /\ Rollback \in Proc /\ Confirm \in Proc
  BY ProcMembers, AppliersAssumption
<1>2. Orderly
  <2>1. Starts \/ UNCHANGED env
    BY DEF ApplyNext, ApplyStart, ApplyCopy, ApplyCopied, ApplyVerify, ApplyPoint
  <2> QED BY <2>1, StaysCalm DEF OrderInv
<1>3. /\ held[p] \in Slots /\ want[p] \in Versions /\ slots \in Slots
      /\ image \in [Slot -> Versions \cup {Torn}] /\ pointer \in Slot /\ Torn \notin Versions
      /\ slots.active # slots.inactive /\ slots.active \in Slot /\ slots.inactive \in Slot
  BY <1>1, <1>2, OrderlySlots DEF IInv, Core, DeviceTypes, Torn
<1>4. ASSUME NEW v \in Versions, ApplyStart(p, v) PROVE Orderly'
  <2>1. Persistent /\ ~changed /\ mode = "up" /\ \A q \in Proc : ~InFlight(q)
    BY <1>4, StaysCalm DEF ApplyStart, Starts
  <2>2. Orderly
    BY <2>1 DEF OrderInv
  <2>3. Goto(p, "idle", "staged")
    BY <1>4 DEF ApplyStart
  <2>4. pc'[p] = "staged" /\ \A q \in Proc \ {p} : pc'[q] = pc[q] /\ pc[q] \in {"idle", "done"}
    BY <1>1, <2>1, <2>3, OneSteps
  <2>5. OneAtATime'
    BY <1>1, <1>4, <2>1, <2>3, OrderOfOne DEF ApplyStart
  <2>6. FreshCopies'
    BY <1>1, <1>2, <1>4, <2>4 DEF ApplyStart, Starts, Orderly, FreshCopies, HasRead
  <2>7. PointerFollows'
    BY <1>1, <1>4, <2>1, <2>2, <2>3, OrderOfQuiet DEF ApplyStart, InFlight, Tears
  <2>8. PointsAtWhole'
    BY <1>1, <1>4, <2>1, <2>2, <2>4, AppliersAssumption, ProcMembers
       DEF ApplyStart, Orderly, PointsAtWhole, InFlight
  <2> QED BY <2>5, <2>6, <2>7, <2>8 DEF Orderly
<1>5. ASSUME UNCHANGED env, InFlight(p)
      PROVE  /\ Orderly /\ mode = "up" /\ ~changed /\ \A q \in Proc \ {p} : ~InFlight(q)
  BY <1>1, <1>5, StaysCalm DEF OrderInv, Orderly, OneAtATime
<1>6. CASE ApplyCopy(p)
  <2>1. Goto(p, "staged", "copying") /\ InFlight(p) /\ UNCHANGED env
    BY <1>6 DEF ApplyCopy, Goto, InFlight
  <2>2. /\ Orderly /\ mode = "up" /\ ~changed /\ \A q \in Proc \ {p} : ~InFlight(q)
    BY <1>5, <2>1
  <2>3. pc[p] = "staged" /\ pc'[p] = "copying"
        /\ \A q \in Proc \ {p} : pc'[q] = pc[q] /\ pc[q] \in {"idle", "done"}
    BY <1>1, <2>1, <2>2, OneSteps
  <2>4. OneAtATime'
    BY <1>1, <1>6, <2>1, <2>2, OrderOfOne DEF ApplyCopy
  <2>5. FreshCopies'
    <3>1. held'[p] = slots
      BY <1>1, <1>6 DEF ApplyCopy, ReadSlots, IInv, Core, DeviceTypes
    <3> QED BY <1>1, <1>2, <1>6, <2>3, <3>1 DEF ApplyCopy, Orderly, FreshCopies, HasRead
  <2>6. PointerFollows'
    BY <1>1, <1>6, <2>1, <2>2, <2>3, OrderOfQuiet DEF ApplyCopy, Tears
  <2>7. PointsAtWhole'
    <3>1. image'[slots.active] = image[slots.active]
      BY <1>3, <1>6 DEF ApplyCopy
    <3>2. slots.autoRollback \/ pointer = slots.active
      BY <1>1, <2>2, <2>3 DEF Orderly, PointerFollows, Settled, Tears
    <3> QED BY <1>1, <1>6, <2>2, <2>3, <3>1, <3>2, AppliersAssumption, ProcMembers
            DEF ApplyCopy, Orderly, PointsAtWhole
  <2> QED BY <2>4, <2>5, <2>6, <2>7 DEF Orderly
<1>7. CASE ApplyCopied(p)
  <2>1. Goto(p, "copying", "copied") /\ InFlight(p) /\ UNCHANGED env
    BY <1>7 DEF ApplyCopied, Goto, InFlight
  <2>2. /\ Orderly /\ mode = "up" /\ ~changed /\ \A q \in Proc \ {p} : ~InFlight(q)
    BY <1>5, <2>1
  <2>3. pc[p] = "copying" /\ pc'[p] = "copied"
        /\ \A q \in Proc \ {p} : pc'[q] = pc[q] /\ pc[q] \in {"idle", "done"}
    BY <1>1, <2>1, <2>2, OneSteps
  <2>4. OneAtATime'
    BY <1>1, <1>7, <2>1, <2>2, OrderOfOne DEF ApplyCopied
  <2>5. FreshCopies'
    BY <1>1, <1>7, <2>2, <2>3 DEF ApplyCopied, Orderly, FreshCopies, HasRead, Tears
  <2>6. PointerFollows'
    BY <1>1, <1>7, <2>1, <2>2, <2>3, OrderOfQuiet DEF ApplyCopied, Tears
  <2>7. PointsAtWhole'
    <3>1. held[p] = slots
      BY <1>1, <2>2, <2>3 DEF Orderly, FreshCopies, HasRead
    <3>2. image'[slots.active] = image[slots.active]
      BY <1>3, <1>7, <3>1 DEF ApplyCopied
    <3>3. slots.autoRollback \/ pointer = slots.active
      BY <1>1, <2>2, <2>3 DEF Orderly, PointerFollows, Settled, Tears
    <3> QED BY <1>1, <1>7, <2>2, <2>3, <3>2, <3>3, AppliersAssumption, ProcMembers
            DEF ApplyCopied, Orderly, PointsAtWhole
  <2> QED BY <2>4, <2>5, <2>6, <2>7 DEF Orderly
<1>8. CASE ApplyVerify(p)
  <2>1. Goto(p, "copied", "verified") /\ InFlight(p) /\ UNCHANGED env
    BY <1>8 DEF ApplyVerify, Goto, InFlight
  <2>2. /\ Orderly /\ mode = "up" /\ ~changed /\ \A q \in Proc \ {p} : ~InFlight(q)
    BY <1>5, <2>1
  <2>3. pc[p] = "copied" /\ pc'[p] = "verified"
        /\ \A q \in Proc \ {p} : pc'[q] = pc[q] /\ pc[q] \in {"idle", "done"}
    BY <1>1, <2>1, <2>2, OneSteps
  <2>4. OneAtATime'
    BY <1>1, <1>8, <2>1, <2>2, OrderOfOne DEF ApplyVerify
  <2>5. FreshCopies'
    BY <1>1, <1>8, <2>2, <2>3 DEF ApplyVerify, Orderly, FreshCopies, HasRead, Tears
  <2>6. PointerFollows'
    BY <1>1, <1>8, <2>1, <2>2, <2>3, OrderOfQuiet DEF ApplyVerify, Tears
  <2>7. PointsAtWhole'
    <3>1. held[p] = slots
      BY <1>1, <2>2, <2>3 DEF Orderly, FreshCopies, HasRead
    <3>2. image[slots.inactive] # Torn
      BY <1>3, <1>8, <3>1 DEF ApplyVerify
    <3> QED BY <1>1, <1>8, <2>2, <2>3, <3>2, AppliersAssumption, ProcMembers
            DEF ApplyVerify, Orderly, PointsAtWhole
  <2> QED BY <2>4, <2>5, <2>6, <2>7 DEF Orderly
<1>9. CASE ApplyPoint(p)
  <2>1. Goto(p, "verified", "pointed") /\ InFlight(p) /\ UNCHANGED env
    BY <1>9 DEF ApplyPoint, Goto, InFlight
  <2>2. /\ Orderly /\ mode = "up" /\ ~changed /\ \A q \in Proc \ {p} : ~InFlight(q)
    BY <1>5, <2>1
  <2>3. pc[p] = "verified" /\ pc'[p] = "pointed"
        /\ \A q \in Proc \ {p} : pc'[q] = pc[q] /\ pc[q] \in {"idle", "done"}
    BY <1>1, <2>1, <2>2, OneSteps
  <2>4. OneAtATime'
    BY <1>1, <1>9, <2>1, <2>2, OrderOfOne DEF ApplyPoint
  <2>5. FreshCopies'
    BY <1>1, <1>9, <2>2, <2>3 DEF ApplyPoint, Orderly, FreshCopies, HasRead, Tears
  <2>6. pointer' = slots.inactive /\ UNCHANGED next
    <3>1. held[p] = slots
      BY <1>1, <2>2, <2>3 DEF Orderly, FreshCopies, HasRead
    <3>2. ~oneShot
      BY <2>1, EnvStays DEF Persistent
    <3> QED BY <1>9, <3>1, <3>2 DEF ApplyPoint, PointAt
  <2>7. PointerFollows'
    <3>1. ~Settled'
      BY <1>1, <2>3 DEF Settled, Tears
    <3> QED BY <1>1, <1>9, <2>2, <2>3, <2>6, <3>1 DEF ApplyPoint, Orderly, PointerFollows, Tears
  <2>8. PointsAtWhole'
    BY <1>1, <1>9, <2>2, <2>3, <2>6, AppliersAssumption, ProcMembers
       DEF ApplyPoint, Orderly, PointsAtWhole
  <2> QED BY <2>4, <2>5, <2>7, <2>8 DEF Orderly
<1> QED
  BY <1>4, <1>6, <1>7, <1>8, <1>9 DEF ApplyNext

LEMMA RollbackOrder ==
    ASSUME IInv, EnvTypes, OrderInv, RollbackNext, Persistent'
    PROVE  Orderly'
<1> USE DEF disk, cpu, rest, Tears
<1> DEFINE p == Rollback
<1>1. p \in Proc /\ p # Confirm /\ p \notin Appliers /\ Confirm \in Proc /\ Appliers \subseteq Proc
  BY ProcMembers, AppliersAssumption DEF Rollback, Confirm
<1>2. Orderly
  <2>1. Starts \/ UNCHANGED env
    BY DEF RollbackNext, RollbackRead, RollbackCheck, RollbackPoint
  <2> QED BY <2>1, StaysCalm DEF OrderInv
<1>3. slots \in Slots /\ held[p] \in Slots
  BY <1>1, <1>2, OrderlySlots DEF IInv, Core, DeviceTypes
<1>4. CASE RollbackRead
  <2>1. Persistent /\ ~changed /\ mode = "up" /\ \A q \in Proc : ~InFlight(q)
    BY <1>4, StaysCalm DEF RollbackRead, Starts
  <2>2. Orderly
    BY <2>1 DEF OrderInv
  <2>3. Goto(p, "idle", "read")
    BY <1>4 DEF RollbackRead
  <2>4. pc'[p] = "read" /\ \A q \in Proc \ {p} : pc'[q] = pc[q] /\ pc[q] \in {"idle", "done"}
    BY <1>1, <2>1, <2>3, OneSteps
  <2>5. OneAtATime'
    BY <1>1, <1>4, <2>1, <2>3, OrderOfOne DEF RollbackRead
  <2>6. FreshCopies'
    <3>1. held'[p] = slots
      BY <1>1, <1>4 DEF RollbackRead, ReadSlots, IInv, Core, DeviceTypes
    <3> QED BY <1>1, <1>2, <1>4, <2>4, <3>1
            DEF RollbackRead, Starts, Orderly, FreshCopies, HasRead
  <2>7. PointerFollows'
    BY <1>1, <1>4, <2>1, <2>2, <2>3, OrderOfQuiet DEF RollbackRead, InFlight, Tears
  <2>8. PointsAtWhole'
    BY <1>1, <1>4, <2>1, <2>2, <2>4 DEF RollbackRead, Orderly, PointsAtWhole, InFlight
  <2> QED BY <2>5, <2>6, <2>7, <2>8 DEF Orderly
<1>5. ASSUME UNCHANGED env, InFlight(p)
      PROVE  /\ Orderly /\ mode = "up" /\ ~changed /\ \A q \in Proc \ {p} : ~InFlight(q)
  BY <1>1, <1>5, StaysCalm DEF OrderInv, Orderly, OneAtATime
<1>6. CASE RollbackCheck
  <2>1. Goto(p, "read", "checked") /\ InFlight(p) /\ UNCHANGED env
    BY <1>6 DEF RollbackCheck, Goto, InFlight
  <2>2. /\ Orderly /\ mode = "up" /\ ~changed /\ \A q \in Proc \ {p} : ~InFlight(q)
    BY <1>5, <2>1
  <2>3. pc[p] = "read" /\ pc'[p] = "checked"
        /\ \A q \in Proc \ {p} : pc'[q] = pc[q] /\ pc[q] \in {"idle", "done"}
    BY <1>1, <2>1, <2>2, OneSteps
  <2>4. OneAtATime'
    BY <1>1, <1>6, <2>1, <2>2, OrderOfOne DEF RollbackCheck
  <2>5. FreshCopies'
    BY <1>1, <1>6, <2>2, <2>3 DEF RollbackCheck, Orderly, FreshCopies, HasRead, Tears
  <2>6. PointerFollows'
    BY <1>1, <1>6, <2>1, <2>2, <2>3, OrderOfQuiet DEF RollbackCheck, Tears
  <2>7. PointsAtWhole'
    BY <1>1, <1>6, <2>2, <2>3 DEF RollbackCheck, Orderly, PointsAtWhole
  <2> QED BY <2>4, <2>5, <2>6, <2>7 DEF Orderly
<1>7. CASE RollbackPoint
  <2>1. Goto(p, "checked", "pointed") /\ InFlight(p) /\ UNCHANGED env
    BY <1>7 DEF RollbackPoint, Goto, InFlight
  <2>2. /\ Orderly /\ mode = "up" /\ ~changed /\ \A q \in Proc \ {p} : ~InFlight(q)
    BY <1>5, <2>1
  <2>3. pc[p] = "checked" /\ pc'[p] = "pointed"
        /\ \A q \in Proc \ {p} : pc'[q] = pc[q] /\ pc[q] \in {"idle", "done"}
    BY <1>1, <2>1, <2>2, OneSteps
  <2>4. OneAtATime'
    BY <1>1, <1>7, <2>1, <2>2, OrderOfOne DEF RollbackPoint
  <2>5. FreshCopies'
    BY <1>1, <1>7, <2>2, <2>3 DEF RollbackPoint, Orderly, FreshCopies, HasRead, Tears
  <2>6. pointer' = slots.inactive /\ UNCHANGED next
    <3>1. held[p] = slots
      BY <1>1, <2>2, <2>3 DEF Orderly, FreshCopies, HasRead
    <3>2. ~oneShot
      BY <2>1, EnvStays DEF Persistent
    <3> QED BY <1>7, <3>1, <3>2 DEF RollbackPoint, PointAt
  <2>7. PointerFollows'
    <3>1. ~Settled'
      BY <1>1, <2>3 DEF Settled, Tears
    <3> QED BY <1>1, <1>7, <2>2, <2>3, <2>6, <3>1
            DEF RollbackPoint, Orderly, PointerFollows, Tears
  <2>8. PointsAtWhole'
    BY <1>1, <1>7, <2>2, <2>3, <2>6 DEF RollbackPoint, Orderly, PointsAtWhole
  <2> QED BY <2>4, <2>5, <2>7, <2>8 DEF Orderly
<1> QED
  BY <1>4, <1>6, <1>7 DEF RollbackNext

LEMMA FailOrder ==
    ASSUME IInv, EnvTypes, OrderInv, NEW p \in Proc, Fail(p), Persistent'
    PROVE  Orderly'
<1>1. Persistent /\ ~Tears(p)
  BY StaysCalm
<1>2. Orderly
  BY <1>1 DEF OrderInv
<1>3. Goto(p, pc[p], "idle") /\ InFlight(p) /\ p # Confirm
  BY DEF Fail, Finish
<1>4. mode = "up" /\ ~changed /\ \A q \in Proc \ {p} : ~InFlight(q)
  BY <1>2, <1>3 DEF Orderly, OneAtATime
<1>5. pc'[p] = "idle" /\ \A q \in Proc \ {p} : pc'[q] = pc[q] /\ pc[q] \in {"idle", "done"}
  BY <1>3, <1>4, OneSteps
<1>6. OneAtATime' /\ FreshCopies'
  BY <1>2, <1>3, <1>5, ProcMembers
     DEF Fail, Orderly, OneAtATime, FreshCopies, InFlight, HasRead
<1>7. PointerFollows'
  BY <1>1, <1>2, <1>3, <1>4, OrderOfQuiet DEF Fail, disk, cpu
<1>8. PointsAtWhole'
  <2>1. \A q \in Proc : ~Tears(q) /\ ~Tears(q)'
    BY <1>1, <1>5 DEF Tears
  <2> QED BY <1>2, <1>5, <2>1, ProcMembers DEF Fail, disk, cpu, Orderly, PointsAtWhole
<1> QED BY <1>6, <1>7, <1>8 DEF Orderly

LEMMA ConfirmOrder ==
    ASSUME IInv, EnvTypes, OrderInv, ConfirmNext, Persistent'
    PROVE  Orderly'
<1> USE DEF disk, cpu, rest
<1> DEFINE p == Confirm
<1>1. /\ p \in Proc /\ p # Rollback /\ p \notin Appliers
      /\ Rollback \in Proc /\ Appliers \subseteq Proc
  BY ProcMembers, AppliersAssumption DEF Rollback, Confirm
<1>2. InFlight(p) /\ UNCHANGED <<env, mode, running, changed, slots, pointer, next, image, crossed>>
  BY DEF ConfirmNext, ConfirmRead, ConfirmHealth, ConfirmNote, ConfirmFail, InFlight, Goto
<1>3. Orderly /\ mode = "up" /\ \A q \in Proc \ {p} : ~InFlight(q)
  BY <1>1, <1>2, StaysCalm DEF OrderInv, Orderly, OneAtATime
<1>4. PICK to : Goto(p, pc[p], to) /\ to \in {"start", "read", "healthy", "noted", "done"}
  BY DEF ConfirmNext, ConfirmRead, ConfirmHealth, ConfirmNote, ConfirmFail, Finish, Goto
<1>5. pc'[p] = to /\ \A q \in Proc \ {p} : pc'[q] = pc[q] /\ pc[q] \in {"idle", "done"}
  BY <1>1, <1>3, <1>4, OneSteps
<1>6. OneAtATime'
  BY <1>1, <1>2, <1>3, <1>4, OrderOfOne
<1>7. HasRead(p)' => held'[p] = slots /\ slots.updatePending
  <2>1. CASE ConfirmRead
    BY <1>1, <1>5, <2>1 DEF ConfirmRead, ReadSlots, Goto, HasRead, IInv, Core, DeviceTypes
  <2>2. CASE ConfirmHealth \/ ConfirmNote
    <3>1. HasRead(p) /\ UNCHANGED held
      BY <2>2 DEF ConfirmHealth, ConfirmNote, Goto, HasRead
    <3> QED BY <1>1, <1>3, <3>1 DEF Orderly, FreshCopies
  <2>3. CASE ConfirmFail
    <3>1. pc'[p] \in {"start", "done"}
      BY <1>1, <2>3 DEF ConfirmFail, Finish, Goto, IInv, Core, DeviceTypes
    <3> QED BY <3>1 DEF HasRead
  <2> QED BY <2>1, <2>2, <2>3 DEF ConfirmNext
<1>8. FreshCopies'
  BY <1>1, <1>2, <1>3, <1>5, <1>7 DEF Orderly, FreshCopies, HasRead
<1>9. PointerFollows'
  BY <1>1, <1>2, <1>3, <1>4, OrderOfQuiet DEF Tears
<1>10. PointsAtWhole'
  BY <1>1, <1>2, <1>3, <1>5 DEF Orderly, PointsAtWhole, Tears
<1> QED BY <1>6, <1>8, <1>9, <1>10 DEF Orderly

\* A writer that is alone installs a change of what slots.json still says.
LEMMA WriteOrder ==
    ASSUME IInv, EnvTypes, OrderInv, NEW p \in Proc, WriteSlots(p), Persistent'
    PROVE  Orderly'
<1> USE DEF disk, cpu
<1>0. /\ pc \in [Proc -> Steps] /\ open \in [Proc -> {"none", "tmp", "file", "gone"}]
      /\ held \in [Proc -> Slots]
  BY DEF IInv, Core, DeviceTypes
<1>1. InFlight(p) /\ HasRead(p) /\ UNCHANGED <<env, mode, running, pointer, next, image>>
  BY DEF WriteSlots, TruncateTmp, FillTmp, RenameTmp, Finish, Goto, InFlight, HasRead
<1>2. Orderly
  BY <1>1, StaysCalm DEF OrderInv
<1>3. /\ mode = "up" /\ (p # Confirm => ~changed)
      /\ \A q \in Proc \ {p} : ~InFlight(q) /\ ~InTmp(q) /\ ~Tears(q)
  BY <1>1, <1>2 DEF Orderly, OneAtATime, InFlight, InTmp, Tears
<1>4. held[p] = slots /\ slots \in Slots /\ slots.inactive = Other(slots.active) /\ ~crossed
      /\ slots.active \in Slot /\ Window(slots)
  BY <1>1, <1>2, OrderlySlots DEF Orderly, FreshCopies
<1>5. CASE TruncateTmp(p) \/ FillTmp(p)
  <2>1. PICK to \in {"writing", "written"} : Goto(p, pc[p], to)
    BY <1>5 DEF TruncateTmp, FillTmp, Goto
  <2>2. pc'[p] = to /\ \A q \in Proc \ {p} : pc'[q] = pc[q] /\ pc[q] \in {"idle", "done"}
    BY <1>3, <2>1, OneSteps
  <2>3. slots' = slots /\ UNCHANGED <<held, changed>>
    BY <1>4, <1>5 DEF TruncateTmp, FillTmp, Goto, IInv, OneWriter
  <2>4. ~crossed'
    BY <1>3, <1>4, <1>5 DEF TruncateTmp, FillTmp
  <2>5. OneAtATime'
    BY <1>1, <1>3, <2>1, <2>3, OrderOfOne
  <2>6. FreshCopies'
    <3>1. \A q \in Proc \ {p} : ~HasRead(q)'
      BY <2>2 DEF HasRead
    <3>2. p = Confirm => slots.updatePending
      BY <1>1, <1>2 DEF Orderly, FreshCopies
    <3> QED BY <1>4, <2>3, <2>4, <3>1, <3>2, ProcMembers DEF FreshCopies
  <2>7. Tears(p)' <=> Tears(p)
    BY <1>5, <2>1, <2>2 DEF TruncateTmp, FillTmp, Goto, Tears
  <2>8. \A q \in Proc : Tears(q)' <=> Tears(q)
    BY <2>2, <2>7 DEF Tears
  <2>9. PointerFollows'
    BY <1>1, <1>2, <2>3, <2>8 DEF Orderly, PointerFollows, Settled
  <2>10. PointsAtWhole'
    <3>1. \A q \in Appliers : pc'[q] = "verified" => pc[q] = "verified"
      BY <2>1, <2>2, ProcMembers
    <3> QED BY <1>1, <1>2, <2>3, <2>8, <3>1, ProcMembers DEF Orderly, PointsAtWhole
  <2> QED BY <2>5, <2>6, <2>9, <2>10 DEF Orderly
<1>6. CASE RenameTmp(p)
  <2>1. /\ pc[p] = "written" /\ slots' = tmp /\ ~crossed'
        /\ \A q \in Proc : pc'[q] \in {"idle", "done"}
    <3>1. pc[p] = "written" /\ pc'[p] \in {"idle", "done"}
      BY <1>0, <1>6 DEF RenameTmp, Finish, Goto
    <3>2. \A q \in Proc \ {p} : pc'[q] = pc[q]
      BY <1>0, <1>6 DEF RenameTmp, Finish, Goto
    <3> QED BY <1>3, <1>4, <1>6, <3>1, <3>2 DEF RenameTmp, InFlight
  <2>2. slots' = NewSlots(p)
    BY <1>4, <2>1 DEF IInv, OneWriter
  <2>3. OneAtATime' /\ FreshCopies'
    BY <2>1, ProcMembers DEF OneAtATime, FreshCopies, InFlight, HasRead
  <2>4. \A q \in Proc : ~Tears(q)'
    BY <2>1 DEF Tears
  <2>5. CASE p = Confirm
    <3>1. /\ slots'.active = slots.active /\ slots'.inactive = slots.inactive
          /\ slots'.autoRollback = FALSE /\ slots'.updatePending = FALSE
          /\ slots'.pendingRollback = FALSE
      BY <1>4, <2>2, <2>5 DEF NewSlots, Confirmed, Rollback, Confirm, Slots
    <3>2. ~slots.autoRollback /\ ~slots.pendingRollback
      BY <1>1, <1>2, <1>4, <2>5 DEF Window, Orderly, PointerFollows, FreshCopies
    <3>3. changed' = changed
      BY <1>6, <2>5 DEF RenameTmp, IInv, Core, DeviceTypes
    <3>4. Settled
      BY <1>3, <2>5 DEF Settled, Tears
    <3>5. PointerFollows'
      BY <1>1, <1>2, <2>4, <3>1, <3>2, <3>3, <3>4 DEF Orderly, PointerFollows, Settled
    <3>6. PointsAtWhole'
      BY <1>1, <1>2, <1>3, <2>1, <2>4, <2>5, <3>2, <3>4, ProcMembers
         DEF Orderly, PointsAtWhole, Settled
    <3> QED BY <2>3, <3>5, <3>6 DEF Orderly
  <2>6. CASE p # Confirm
    <3>1. Tears(p) /\ pointer = slots.inactive /\ changed'
      BY <1>2, <1>6, <2>1, <2>6 DEF Tears, Orderly, PointerFollows, RenameTmp
    <3>2. slots'.active = slots.inactive /\ slots'.autoRollback = FALSE
          /\ (p = Rollback => slots'.pendingRollback)
      BY <1>4, <2>2, <2>6 DEF NewSlots, RolledBack, Applied, Slots
    <3>3. PointerFollows'
      BY <1>1, <1>2, <1>3, <2>4, <3>1, <3>2 DEF Orderly, PointerFollows
    <3>4. p # Rollback => image[slots.inactive] # Torn
      BY <1>2, <2>6, <3>1 DEF Proc, Orderly, PointsAtWhole
    <3>5. PointsAtWhole'
      BY <1>1, <1>3, <2>1, <2>4, <3>1, <3>2, <3>4, ProcMembers DEF PointsAtWhole
    <3> QED BY <2>3, <3>3, <3>5 DEF Orderly
  <2> QED BY <2>5, <2>6
<1> QED BY <1>5, <1>6 DEF WriteSlots

\* The watchdog runs before any command, on a slot that was booted.
LEMMA WatchdogOrder ==
    ASSUME IInv, EnvTypes, OrderInv, WatchdogNext, Persistent'
    PROVE  Orderly'
<1>1. mode = "early" /\ (StartUserspace \/ PowerDown)
  BY WatchdogWrites
<1>2. Orderly
  BY <1>1, StaysCalm DEF StartUserspace, OrderInv, rest
<1>3. \A p \in Proc : pc[p] \in {"idle", "done"}
  BY <1>1, <1>2 DEF Orderly, OneAtATime, InFlight
<1>4. \A p \in Proc : pc'[p] \in {"idle", "done"} \/ (p = Confirm /\ pc'[p] = "start" /\ mode' = "up")
  BY <1>1, <1>3, ProcMembers DEF StartUserspace, PowerDown, IInv, Core, DeviceTypes
<1>5. /\ UNCHANGED <<pointer, next, image>> /\ mode' # "early"
      /\ mode' = "off" \/ UNCHANGED <<running, changed>>
      /\ crossed' = crossed
  BY <1>1 DEF StartUserspace, PowerDown, rest
<1>6. OneAtATime' /\ FreshCopies'
  BY <1>2, <1>4, <1>5, ProcMembers, AppliersAssumption
     DEF Orderly, OneAtATime, FreshCopies, InFlight, HasRead
<1>7. Settled /\ Settled'
  BY <1>3, <1>4 DEF Settled, Tears
<1>8. slots \in Slots /\ slots.inactive = Other(slots.active) /\ Window(slots)
  BY <1>2, OrderlySlots
<1>9. /\ pointer = IF slots'.autoRollback THEN slots'.inactive ELSE slots'.active
      /\ slots'.autoRollback => ~slots'.updatePending /\ ~slots'.pendingRollback
  <2>1. CASE slots' = slots
    BY <1>2, <1>7, <2>1 DEF Orderly, PointerFollows
  <2>2. CASE slots' = Acknowledged(slots)
    BY <1>2, <1>7, <1>8, <2>2 DEF Orderly, PointerFollows, Acknowledged, Slots
  <2>3. CASE slots' = Counted(slots)
    BY <1>2, <1>7, <1>8, <2>3 DEF Orderly, PointerFollows, Counted, Slots
  <2>4. CASE slots' = AutoRolledBack(slots) /\ slots.updatePending
    BY <1>2, <1>7, <1>8, <2>4
       DEF Orderly, PointerFollows, AutoRolledBack, Slots, Window
  <2> QED BY <2>1, <2>2, <2>3, <2>4, WatchdogWrites
<1>10. PointerFollows'
  BY <1>1, <1>2, <1>5, <1>7, <1>9 DEF Orderly, PointerFollows, Settled
<1>11. PointsAtWhole'
  BY <1>1, <1>2, <1>4, <1>5, ProcMembers, AppliersAssumption DEF Orderly, PointsAtWhole, Tears
<1> QED BY <1>6, <1>10, <1>11 DEF Orderly

LEMMA PowerOrder ==
    ASSUME IInv, EnvTypes, OrderInv, Restart \/ Boot \/ BootNextFails, Persistent'
    PROVE  Orderly'
<1> USE DEF cpu, rest
<1>1. CASE Restart
  <2>1. Persistent /\ \A p \in Proc : ~Tears(p)
    BY <1>1, StaysCalm DEF Restart
  <2>2. Orderly
    BY <2>1 DEF OrderInv
  <2>3. \A p \in Proc : pc'[p] = "idle"
    BY <1>1 DEF Restart, PowerDown
  <2>4. OneAtATime' /\ FreshCopies'
    BY <1>1, <2>2, <2>3, ProcMembers
       DEF Restart, PowerDown, Orderly, OneAtATime, FreshCopies, InFlight, HasRead
  <2>5. PointerFollows'
    BY <1>1, <2>1, <2>2, <2>3 DEF Restart, PowerDown, Orderly, PointerFollows, Settled, Tears
  <2>6. PointsAtWhole'
    BY <1>1, <2>1, <2>2, <2>3, ProcMembers, AppliersAssumption
       DEF Restart, PowerDown, Orderly, PointsAtWhole, Tears
  <2> QED BY <2>4, <2>5, <2>6 DEF Orderly
<1>2. CASE Boot \/ BootNextFails
  <2>1. Persistent
    BY <1>2, StaysCalm DEF Boot, BootNextFails
  <2>2. Orderly
    BY <2>1 DEF OrderInv
  <2>3. Boot /\ Entry = pointer
    BY <1>2, <2>2 DEF Boot, BootNextFails, Orderly, PointerFollows, Entry
  <2>4. UNCHANGED <<slots, image, pointer, pc, held, changed, crossed>> /\ next' = None
        /\ mode' = "early" /\ running' = pointer /\ image[pointer] # Torn
    BY <2>3, VersionSetsAssumption DEF Boot, Torn
  <2>5. \A p \in Proc : ~InFlight(p)
    BY <2>2, <2>3 DEF Boot, Orderly, OneAtATime
  <2>6. OneAtATime' /\ FreshCopies'
    BY <2>2, <2>4, <2>5 DEF Orderly, OneAtATime, FreshCopies, InFlight, HasRead, Tears
  <2>7. PointerFollows'
    BY <2>2, <2>4 DEF Orderly, PointerFollows, Settled, Tears
  <2>8. PointsAtWhole'
    BY <2>2, <2>4 DEF Orderly, PointsAtWhole, Tears
  <2> QED BY <2>6, <2>7, <2>8 DEF Orderly
<1> QED BY <1>1, <1>2

LEMMA NextOrder == IInv /\ EnvTypes /\ OrderInv /\ [Next]_vars => OrderInv'
<1> SUFFICES ASSUME IInv, EnvTypes, OrderInv, [Next]_vars, Persistent' PROVE Orderly'
  BY DEF OrderInv
<1>1. CASE Next
  BY <1>1, ApplyOrder, RollbackOrder, FailOrder, ConfirmOrder, WatchdogOrder, PowerOrder,
     WriteOrder DEF Next
<1>2. CASE UNCHANGED vars
  <2>1. Persistent
    BY <1>2, StaysCalm DEF vars, env
  <2>2. Orderly
    BY <2>1 DEF OrderInv
  <2> QED BY <1>2, <2>2 DEF vars, Orderly, OneAtATime, FreshCopies, PointerFollows, PointsAtWhole,
                            InFlight, HasRead, Tears, Settled
<1> QED BY <1>1, <1>2

LEMMA OrderHolds == Spec => []OrderInv
<1>1. Init => EnvTypes
  BY DEF Init, EnvTypes
<1> QED BY <1>1, InitInv, NextInv, EnvStep, InitOrder, NextOrder, PTL DEF Spec

\* In a calm environment the boot loader, slots.json and the kernel name the same
\* slot between commands, for any releases and any number of slot changes, boots,
\* failures and power losses.
THEOREM SlotsAgree == Spec => []SlotAgreement
<1>1. OrderInv => SlotAgreement
  BY DEF OrderInv, Persistent, Orderly, PointerFollows, SlotAgreement
<1> QED BY <1>1, OrderHolds, PTL

\* Nor does an update, wherever it is interrupted, point the boot loader at a slot
\* without a whole image.
THEOREM PointsAtAnImage == Spec => []UpdateKeepsPointerWhole
<1>1. OrderInv => UpdateKeepsPointerWhole
  BY DEF OrderInv, Persistent, Orderly, PointsAtWhole, UpdateKeepsPointerWhole
<1> QED BY <1>1, OrderHolds, PTL
=============================================================================
