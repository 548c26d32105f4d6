------------------------------ MODULE SlotsFile ------------------------------
(***************************************************************************)
(* /var/lib/deputyos/slots.json: the record that deputyctl's update,       *)
(* rollback and watchdog code share (rollback.rs, `Slots`), and the pure   *)
(* record-to-record part of each of its four writers.  A release version   *)
(* stands for the artefact it names, and for that artefact's sha256; the   *)
(* image path recorded with the digest is the slot that it belongs to.     *)
(***************************************************************************)
EXTENDS Integers

CONSTANTS
    Versions,   \* release versions, ordered as is_newer orders them
    None        \* an absent optional field

ASSUME VersionsAssumption == Versions \subseteq Nat /\ 0 \in Versions
ASSUME NoneAssumption == None \notin Versions /\ None \notin {"A", "B"}

Slot == {"A", "B"}
Other(s) == IF s = "A" THEN "B" ELSE "A"

\* Boots of an unconfirmed update that make the watchdog give up on it.
ROLLBACK_THRESHOLD == 3

Slots == [active : Slot, inactive : Slot,
          version : [Slot -> Versions],
          digest : Versions \cup {None},      \* inactive_sha256
          imagePath : Slot \cup {None},       \* inactive_image_path
          bootCount : 0 .. ROLLBACK_THRESHOLD - 1,
          pendingRollback : BOOLEAN, autoRollback : BOOLEAN,
          updatePending : BOOLEAN,
          pendingVersion : Versions \cup {None}]

\* A provisioned device: running slot A, no update installed through slots.json.
Provisioned ==
    [active |-> "A", inactive |-> "B", version |-> [s \in Slot |-> 0],
     digest |-> None, imagePath |-> None, bootCount |-> 0,
     pendingRollback |-> FALSE, autoRollback |-> FALSE,
     updatePending |-> FALSE, pendingVersion |-> None]

-----------------------------------------------------------------------------
\* Mutant: boot_count survives a new update.
AppliedUncounted(r, v) ==
    [r EXCEPT !.active = r.inactive, !.inactive = r.active,
              !.version[Other(r.active)] = v,
              !.digest = v, !.imagePath = r.inactive,
              !.pendingRollback = FALSE, !.autoRollback = FALSE,
              !.updatePending = TRUE, !.pendingVersion = v]

\* swap_slots: what update --apply writes once the target slot is selected.
Applied(r, v) ==
    [r EXCEPT !.active = r.inactive, !.inactive = r.active,
              !.version[Other(r.active)] = v,
              !.digest = v, !.imagePath = r.inactive,
              !.bootCount = 0, !.pendingRollback = FALSE,
              !.autoRollback = FALSE,
              !.updatePending = TRUE, !.pendingVersion = v]

\* Mutant: the pending update is not cancelled.
RolledBackStillPending(r) ==
    [r EXCEPT !.active = Other(r.active), !.inactive = r.active,
              !.digest = None, !.imagePath = None, !.bootCount = 0,
              !.pendingRollback = TRUE, !.autoRollback = FALSE]

\* rollback::run: flip by label, forget the digest, cancel a pending update.
RolledBack(r) ==
    [r EXCEPT !.active = Other(r.active), !.inactive = r.active,
              !.digest = None, !.imagePath = None,
              !.bootCount = 0, !.pendingRollback = TRUE,
              !.autoRollback = FALSE,
              !.updatePending = FALSE, !.pendingVersion = None]

\* watchdog::run_check: the first boot after a requested rollback.
Acknowledged(r) ==
    [r EXCEPT !.bootCount = 0, !.pendingRollback = FALSE,
              !.updatePending = FALSE, !.pendingVersion = None]

Exhausted(r) == r.bootCount + 1 >= ROLLBACK_THRESHOLD

\* Mutant: the count is not written back.
NotCounted(r) == r

\* watchdog::run_check below the threshold.
Counted(r) == [r EXCEPT !.bootCount = @ + 1]

\* watchdog::run_check at the threshold: the slots change places on file only.
AutoRolledBack(r) ==
    [r EXCEPT !.active = Other(r.active), !.inactive = r.active,
              !.bootCount = 0, !.autoRollback = TRUE,
              !.updatePending = FALSE, !.pendingVersion = None]

\* watchdog::run_confirm: pending_version is taken and every flag cleared.
Confirmed(r) ==
    [r EXCEPT !.bootCount = 0, !.pendingRollback = FALSE,
              !.autoRollback = FALSE,
              !.updatePending = FALSE, !.pendingVersion = None]
=============================================================================
