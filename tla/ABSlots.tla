------------------------------- MODULE ABSlots -------------------------------
(***************************************************************************)
(* The A/B update of a deputyOS device: `update --apply`, `rollback`, the  *)
(* early-boot watchdog and the post-boot confirmation, over slots.json,    *)
(* the two slot images, the boot loader and /etc/deputyos/version.         *)
(*                                                                         *)
(* Each command is a process that reads slots.json once and writes it at   *)
(* the end, through a temporary file that they all share; between the two  *)
(* lie a multi-gigabyte copy, a checksum, a boot loader change or an HTTP  *)
(* request.  There is no lock around any of them, and the power can fail at *)
(* any step; a rename that was made is taken to be on disk with its data.  *)
(* `crossed` records that two of them have been between opening and        *)
(* renaming slots.tmp at once.  `calm` is lost when the environment        *)
(* does more than one command at a time and one slot change per boot:      *)
(*   - commands run at the same time (the daily timer applies while an     *)
(*     operator rolls back, or the confirmation retries);                  *)
(*   - another slot change starts before the reboot the last one asked for; *)
(*   - a command dies between pointing the boot loader and recording it in *)
(*     slots.json.                                                         *)
(***************************************************************************)
EXTENDS SlotsFile

CONSTANTS
    Blank,      \* a file that was truncated and not yet filled
    Absent,     \* no file
    Appliers,   \* concurrent runs of update --apply: the timer's, an operator's
    Bootable,   \* versions whose kernel comes up
    Healthy,    \* versions whose agent can answer the health check
    MaxOps      \* bound: slot changes started in a behaviour

Torn == None            \* a slot without a whole image, a file without a whole record
Rollback == "rollback"
Confirm == "confirm"
Proc == Appliers \cup {Rollback, Confirm}
StartLimitBurst == 3    \* deputyos-watchdog-confirm.service

ASSUME AppliersAssumption == {Rollback, Confirm} \cap Appliers = {}
ASSUME VersionSetsAssumption == Healthy \subseteq Bootable /\ Bootable \subseteq Versions
ASSUME FilesAssumption ==
    /\ \A x \in {Torn, Blank, Absent} : x \notin Slots
    /\ Torn # Blank /\ Torn # Absent /\ Blank # Absent
ASSUME OpsAssumption == MaxOps \in Nat

VARIABLES
    oneShot,    \* the platform: efibootmgr --bootnext, or GRUB_DEFAULT, config.txt
    slots,      \* slots.json
    tmp,        \* slots.tmp
    open,       \* where the file is that a command has open: in "tmp", renamed
                \* to slots.json ("file"), replaced since ("gone"), or "none"
    crossed,    \* history: two writers have been in slots.tmp at once
    image,      \* what each slot holds
    pointer,    \* the boot loader's default entry
    next,       \* EFI BootNext
    installed,  \* /etc/deputyos/version
    mode,       \* "off", "early" (before basic.target) or "up"
    running,    \* the slot the kernel was started from
    live,       \* the version that was booted from it
    pc,         \* each command's next step, "idle" when it does not run
    held,       \* the copy of slots.json a command has read
    want,       \* the release an apply is installing
    tries,      \* confirmation attempts since boot
    changed,    \* a slot change was recorded since boot
    ops,
    calm        \* history: the environment has done no more than is said above

disk == <<slots, image, pointer, next, installed>>
cpu == <<mode, running, live>>
env == <<oneShot, ops, calm>>
rest == <<env, tmp, open, crossed>>
vars == <<oneShot, slots, image, pointer, next, installed, mode, running, live,
          pc, held, want, tries, changed, ops, calm, tmp, open, crossed>>

Steps == {"idle", "staged", "copying", "copied", "verified", "pointed",
          "read", "checked", "start", "healthy", "noted",
          "writing", "written", "done"}

DeviceTypes ==
    /\ slots \in Slots \cup {Torn, Blank}
    /\ tmp \in Slots \cup {Torn, Blank, Absent}
    /\ open \in [Proc -> {"none", "tmp", "file", "gone"}]
    /\ image \in [Slot -> Versions \cup {Torn}]
    /\ pointer \in Slot
    /\ next \in Slot \cup {None}
    /\ installed \in Versions
    /\ mode \in {"off", "early", "up"}
    /\ running \in Slot \cup {None}
    /\ live \in Versions \cup {None}
    /\ pc \in [Proc -> Steps]
    /\ held \in [Proc -> Slots]
    /\ want \in [Appliers -> Versions]
    /\ tries \in 0 .. StartLimitBurst
    /\ changed \in BOOLEAN /\ crossed \in BOOLEAN
    /\ ops \in 0 .. MaxOps
TypeOK == DeviceTypes /\ oneShot \in BOOLEAN /\ calm \in BOOLEAN

Init ==
    /\ oneShot \in BOOLEAN
    /\ slots = Provisioned
    /\ tmp = Absent /\ open = [p \in Proc |-> "none"] /\ crossed = FALSE
    /\ image \in [Slot -> {0, Torn}] /\ image["A"] = 0
    /\ pointer = "A" /\ next = None
    /\ installed = 0
    /\ mode = "off" /\ running = None /\ live = None
    /\ pc = [p \in Proc |-> "idle"]
    /\ held = [p \in Proc |-> Provisioned]
    /\ want = [p \in Appliers |-> 0]
    /\ tries = 0 /\ changed = FALSE /\ ops = 0 /\ calm = TRUE

-----------------------------------------------------------------------------
(* Steps of a command. *)

Goto(p, from, to) == pc[p] = from /\ pc' = [pc EXCEPT ![p] = to]

\* A command that ends forgets what it read.
Finish(p, from, to) ==
    /\ Goto(p, from, to)
    /\ held' = [held EXCEPT ![p] = Provisioned]

InFlight(p) == pc[p] \notin {"idle", "done"}

Starts ==
    /\ mode = "up" /\ ops < MaxOps /\ ops' = ops + 1
    /\ calm' = (calm /\ ~changed /\ \A q \in Proc : ~InFlight(q))
    /\ UNCHANGED <<oneShot, tmp, open, crossed>>

\* Between a command's boot loader change and its slots.json.
Tears(p) == p # Confirm /\ pc[p] \in {"pointed", "writing", "written"}

Readable == slots \notin {Torn, Blank}

\* A file that does not parse ends the command that reads it.
ReadSlots(p) == Readable /\ held' = [held EXCEPT ![p] = slots]

\* Mutant: efibootmgr --bootorder in place of --bootnext.
PointAtForGood(s) == pointer' = s /\ UNCHANGED next

\* select_boot_slot / rollback_bootloader.  A tool that fails once the entry is
\* changed is the command's failure after this step; /etc/default/grub, which it
\* leaves edited, is read by update-grub alone, and the next run edits it first.
PointAt(s) ==
    IF oneShot THEN next' = s /\ UNCHANGED pointer
               ELSE pointer' = s /\ UNCHANGED next

InTmp(p) == pc[p] \in {"writing", "written"}

\* What each writer's copy becomes.
NewSlots(p) ==
    IF p = Rollback THEN RolledBack(held[p])
    ELSE IF p = Confirm THEN Confirmed(held[p])
    ELSE Applied(held[p], want[p])

\* write_slots, shared by the writers, opens and truncates the one slots.tmp,
TruncateTmp(p) ==
    /\ Goto(p, IF p = Confirm THEN "noted" ELSE "pointed", "writing")
    /\ tmp' = Blank /\ open' = [open EXCEPT ![p] = "tmp"]
    /\ crossed' = (crossed \/ \E q \in Proc \ {p} : InTmp(q))
    /\ UNCHANGED <<disk, cpu, held, want, tries, changed, env>>

\* What writing r from the start makes of a file: a longer body is not cut off.
Over(old, r) == {r} \cup (IF old = Blank THEN {} ELSE {Torn})

\* fills the file it opened, wherever that has been renamed to,
FillTmp(p) ==
    /\ Goto(p, "writing", "written")
    /\ open' = [open EXCEPT ![p] = "none"]
    /\ \/ open[p] = "tmp" /\ tmp' \in Over(tmp, NewSlots(p)) /\ UNCHANGED slots
       \/ open[p] = "file" /\ slots' \in Over(slots, NewSlots(p)) /\ UNCHANGED tmp
       \/ open[p] = "gone" /\ UNCHANGED <<slots, tmp>>
    /\ UNCHANGED <<crossed, image, pointer, next, installed, cpu, held, want, tries,
                   changed, env>>

Moved(where) == IF where = "tmp" THEN "file" ELSE IF where = "file" THEN "gone" ELSE where

\* and renames over slots.json what slots.tmp then holds; another writer may have
\* renamed it already, and the command fails.
RenameTmp(p) ==
    /\ Finish(p, "written", IF p = Confirm THEN "done" ELSE "idle")
    /\ tmp # Absent /\ slots' = tmp /\ tmp' = Absent
    /\ open' = [q \in Proc |-> Moved(open[q])]
    /\ changed' = (changed \/ p # Confirm)
    /\ UNCHANGED <<crossed, image, pointer, next, installed, cpu, want, tries, env>>

WriteSlots(p) == TruncateTmp(p) \/ FillTmp(p) \/ RenameTmp(p)

\* A slots.tmp left behind is truncated before anything reads it: with no other
\* writer in it, it is as good as absent.
LeaveTmp(p) ==
    /\ open' = [open EXCEPT ![p] = "none"]
    /\ tmp' = IF \E q \in Proc \ {p} : InTmp(q) THEN tmp ELSE Absent

\* The same by the watchdog, which runs before every other writer.
WriteAlone(r) == slots' = r

-----------------------------------------------------------------------------
(* deputyctl update --apply *)

\* A verified manifest offers v, with an artefact for this device.
UpdateAvailable(v) == v > installed

\* The artefact is downloaded into staging and verified there.
ApplyStart(p, v) ==
    /\ Starts /\ UpdateAvailable(v)
    /\ Goto(p, "idle", "staged")
    /\ want' = [want EXCEPT ![p] = v]
    /\ UNCHANGED <<disk, cpu, held, tries, changed>>

\* Mutant: the copy goes to the active slot.
ApplyCopyToActive(p) ==
    /\ Goto(p, "staged", "copying")
    /\ ReadSlots(p)
    /\ image' = [image EXCEPT ![slots.active] = Torn]
    /\ UNCHANGED <<slots, pointer, next, installed, cpu, want, tries, changed, rest>>

\* swap_slots reads slots.json and truncates the target that it names.
ApplyCopy(p) ==
    /\ Goto(p, "staged", "copying")
    /\ ReadSlots(p)
    /\ image' = [image EXCEPT ![slots.inactive] = Torn]
    /\ UNCHANGED <<slots, pointer, next, installed, cpu, want, tries, changed, rest>>

\* What is in staging: another apply may be downloading to the same file anew.
Staged(p) == {want[p]} \cup {Torn : q \in {q \in Appliers \ {p} : InFlight(q)}}

ApplyCopied(p) ==
    /\ Goto(p, "copying", "copied")
    /\ \E content \in Staged(p) : image' = [image EXCEPT ![held[p].inactive] = content]
    /\ UNCHANGED <<slots, pointer, next, installed, cpu, held, want, tries, changed, rest>>

\* verify_sha256 of what was written.
ApplyVerify(p) ==
    /\ Goto(p, "copied", "verified")
    /\ image[held[p].inactive] = want[p]
    /\ UNCHANGED <<disk, cpu, held, want, tries, changed, rest>>

ApplyPoint(p) ==
    /\ Goto(p, "verified", "pointed")
    /\ PointAt(held[p].inactive)
    /\ UNCHANGED <<slots, image, installed, cpu, held, want, tries, changed, rest>>

-----------------------------------------------------------------------------
(* deputyctl rollback *)

RollbackRead ==
    /\ Starts
    /\ Goto(Rollback, "idle", "read")
    /\ ReadSlots(Rollback)
    /\ UNCHANGED <<disk, cpu, want, tries, changed>>

\* The image file named by the record must match the recorded digest; a record
\* without a digest is not checked.
IntegrityOK(r) == r.digest # None /\ r.imagePath # None => image[r.imagePath] = r.digest

RollbackCheck ==
    /\ Goto(Rollback, "read", "checked")
    /\ IntegrityOK(held[Rollback])
    /\ UNCHANGED <<disk, cpu, held, want, tries, changed, rest>>

\* Mutant: rollback selects the slot in use.
RollbackPointsAtActive ==
    /\ Goto(Rollback, "checked", "pointed")
    /\ PointAt(held[Rollback].active)
    /\ UNCHANGED <<slots, image, installed, cpu, held, want, tries, changed, rest>>

RollbackPoint ==
    /\ Goto(Rollback, "checked", "pointed")
    /\ PointAt(held[Rollback].inactive)
    /\ UNCHANGED <<slots, image, installed, cpu, held, want, tries, changed, rest>>

-----------------------------------------------------------------------------
\* A download, a copy, a check, the boot loader's tool or a write fails, or the
\* command is killed: it exits and undoes nothing.
Fail(p) ==
    /\ p # Confirm /\ InFlight(p)
    /\ Finish(p, pc[p], "idle")
    /\ LeaveTmp(p)
    /\ calm' = (calm /\ ~Tears(p))
    /\ UNCHANGED <<oneShot, disk, cpu, want, tries, changed, ops, crossed>>

-----------------------------------------------------------------------------
(* deputyos-watchdog-confirm.service: at most StartLimitBurst starts a boot *)

ConfirmRead ==
    /\ ReadSlots(Confirm)
    /\ Goto(Confirm, "start", IF slots.updatePending THEN "read" ELSE "done")
    /\ UNCHANGED <<disk, cpu, want, tries, changed, rest>>

\* The active profile's health endpoint answers.
ConfirmHealth ==
    /\ Goto(Confirm, "read", "healthy")
    /\ live \in Healthy
    /\ UNCHANGED <<disk, cpu, held, want, tries, changed, rest>>

ConfirmNote ==
    /\ Goto(Confirm, "healthy", "noted")
    /\ installed' = IF held[Confirm].pendingVersion = None THEN installed
                    ELSE held[Confirm].pendingVersion
    /\ UNCHANGED <<slots, image, pointer, next, cpu, held, want, tries, changed, rest>>

\* A read, the health check or a write fails; systemd starts the unit again.
ConfirmFail ==
    /\ InFlight(Confirm)
    /\ tries' = tries + 1
    /\ LeaveTmp(Confirm)
    /\ Finish(Confirm, pc[Confirm], IF tries + 1 < StartLimitBurst THEN "start" ELSE "done")
    /\ UNCHANGED <<disk, cpu, want, changed, env, crossed>>

-----------------------------------------------------------------------------
(* Power *)

\* Every command dies where it is.
PowerDown ==
    /\ mode' = "off" /\ running' = None /\ live' = None
    /\ pc' = [p \in Proc |-> "idle"]
    /\ held' = [p \in Proc |-> Provisioned]
    /\ open' = [p \in Proc |-> "none"] /\ tmp' = Absent
    /\ tries' = 0 /\ changed' = FALSE
    /\ calm' = (calm /\ \A p \in Proc : ~Tears(p))
    /\ UNCHANGED <<oneShot, image, pointer, next, installed, want, ops, crossed>>

\* A reboot, a power failure or a panic.
Restart ==
    /\ mode # "off"
    /\ PowerDown /\ UNCHANGED slots

Entry == IF next # None THEN next ELSE pointer

Boot ==
    /\ mode = "off" /\ image[Entry] \in Bootable
    /\ mode' = "early" /\ running' = Entry /\ live' = image[Entry]
    /\ next' = None
    /\ UNCHANGED <<slots, image, pointer, installed, pc, held, want, tries, changed, rest>>

\* The firmware gives up on BootNext, which it has already cleared.
BootNextFails ==
    /\ mode = "off" /\ next # None /\ image[next] \notin Bootable
    /\ next' = None
    /\ UNCHANGED <<slots, image, pointer, installed, cpu, pc, held, want, tries, changed, rest>>

StartUserspace ==
    /\ mode' = "up"
    /\ pc' = [pc EXCEPT ![Confirm] = "start"]
    /\ UNCHANGED <<image, pointer, next, installed, running, live, held, want, tries, changed,
                   rest>>

\* deputyos-watchdog.service, ahead of everything else that may write slots.json.
WatchdogReads == mode = "early" /\ Readable

WatchdogSettle ==
    /\ WatchdogReads
    /\ \/ slots.pendingRollback /\ WriteAlone(Acknowledged(slots))
       \/ ~slots.pendingRollback /\ ~slots.updatePending /\ UNCHANGED slots
    /\ StartUserspace

WatchdogCount ==
    /\ WatchdogReads
    /\ ~slots.pendingRollback /\ slots.updatePending /\ ~Exhausted(slots)
    /\ WriteAlone(Counted(slots))
    /\ StartUserspace

\* The third boot: the file is flipped and `reboot` run, whose failure is
\* ignored; nothing is said to the boot loader.
WatchdogGiveUp ==
    /\ WatchdogReads
    /\ ~slots.pendingRollback /\ slots.updatePending /\ Exhausted(slots)
    /\ WriteAlone(AutoRolledBack(slots))
    /\ PowerDown \/ StartUserspace

\* slots.json cannot be read, parsed or written: the boot goes on, uncounted.
WatchdogFail ==
    /\ mode = "early"
    /\ StartUserspace /\ UNCHANGED slots

-----------------------------------------------------------------------------
ApplyNext(p) ==
    \/ \E v \in Versions : ApplyStart(p, v)
    \/ ApplyCopy(p) \/ ApplyCopied(p) \/ ApplyVerify(p)
    \/ ApplyPoint(p)
RollbackNext == RollbackRead \/ RollbackCheck \/ RollbackPoint
ConfirmNext == ConfirmRead \/ ConfirmHealth \/ ConfirmNote \/ ConfirmFail
WatchdogNext == WatchdogSettle \/ WatchdogCount \/ WatchdogGiveUp \/ WatchdogFail

Next ==
    \/ \E p \in Appliers : ApplyNext(p)
    \/ RollbackNext
    \/ \E p \in Proc : WriteSlots(p) \/ Fail(p)
    \/ ConfirmNext
    \/ WatchdogNext
    \/ Restart \/ Boot \/ BootNextFails

Spec == Init /\ [][Next]_vars

\* The device is switched on again and again, and where slots.json parses the
\* watchdog's read and write succeed now and then.
Fairness ==
    /\ WF_vars(Boot) /\ WF_vars(BootNextFails) /\ WF_vars(Restart)
    /\ SF_vars(WatchdogSettle \/ WatchdogCount \/ WatchdogGiveUp)
FairSpec == Spec /\ Fairness

-----------------------------------------------------------------------------
(* Properties in every environment. *)

\* What the flags of a slots.json say together: the slots differ, a version is
\* pending exactly while an update is, boots are counted only then, a requested
\* rollback and a pending update exclude each other, and the digest is that of
\* the release recorded for the slot it belongs to.
Window(r) ==
    /\ r.active # r.inactive
    /\ r.updatePending <=> r.pendingVersion # None
    /\ r.bootCount > 0 => r.updatePending
    /\ ~(r.updatePending /\ r.pendingRollback)
    /\ r.digest # None <=> r.imagePath # None
    /\ r.digest # None => r.version[r.imagePath] = r.digest

\* However reads, writes and crashes of the four writers interleave, slots.json
\* never holds contradictory flags, and it can always be read unless two of them
\* have been between opening and renaming slots.tmp at once.
WindowLaw == IF Readable THEN Window(slots) ELSE crossed

\* The rollback window as an operator understands it: a trial of an installed
\* release, counted one boot at a time and closed by the third.
trialNow ==
    IF ~Readable THEN -2 ELSE IF slots.updatePending THEN slots.bootCount ELSE -1
Trial == INSTANCE UpdateTrial WITH
             Threshold <- ROLLBACK_THRESHOLD, trial <- trialNow, overlapped <- crossed

\* slots.json implements that trial, whatever the environment does, and loses it
\* only to writers that overlapped in slots.tmp.
TrialSpec == Trial!Spec

\* Nothing is left to boot.
Stranded == mode = "off" /\ next = None /\ image[pointer] \notin Bootable

Pending == Readable /\ slots.updatePending

\* An update that is never confirmed does not stay pending: the watchdog gives
\* up on it after some more boots, as long as the device boots at all and
\* overlapping writers have not made slots.json unreadable.
PendingResolves ==
    Pending ~> (IF Readable THEN ~slots.updatePending ELSE crossed) \/ Stranded

\* With a one-shot boot entry, a device that is off comes up again, whatever its
\* first update or rollback wrote and wherever it was interrupted.
UpdateNeverStrands == oneShot /\ mode = "off" /\ ops <= 1 ~> mode = "up"

-----------------------------------------------------------------------------
(* Properties of a calm environment with a persistent boot pointer: what the *)
(* design gives when commands do not overlap, the operator reboots after a   *)
(* slot change, and no command dies between the boot loader and slots.json.  *)

Settled == \A p \in Proc : ~Tears(p)

\* Outside a slot change and the watchdog's revert, the boot loader, slots.json and
\* the kernel agree on the slot in use.
SlotAgreement ==
    calm /\ ~oneShot /\ Settled /\ ~slots.autoRollback =>
        /\ pointer = slots.active
        /\ mode # "off" /\ ~changed => running = pointer

\* The documentation's revert: what the watchdog gives an update up for is the
\* slot that boots next.
RevertBootsThePrevious ==
    calm /\ Settled /\ slots.autoRollback => Entry = slots.active

\* An interrupted update never leaves the boot loader on a torn slot: only a
\* rollback can select one, or an update after an automatic rollback tear one.
UpdateKeepsPointerWhole ==
    calm /\ ~oneShot /\ image[pointer] = Torn =>
        slots.pendingRollback \/ slots.autoRollback \/ Tears(Rollback)

=============================================================================
