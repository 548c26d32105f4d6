------------------------------- MODULE Restore -------------------------------
(***************************************************************************)
(* Restoring profile state: `restore --from cloud` places the components   *)
(* of a bundle one after the other, `restore --snapshot` copies the data   *)
(* directory from the remote.  Both stop the unit, move what is there      *)
(* aside, copy, undo on failure and start the unit.  Beside them run the   *)
(* reconcile timer, which starts a stopped unit at its second strike, and  *)
(* the power button.  Env: "reconcile" and "crash" switch these two on.    *)
(***************************************************************************)
EXTENDS Integers

CONSTANTS
    N,              \* components of a bundle, in the order of the plan; 1 is data
    MaxRestores,    \* bound: restores started
    Env,
    None,           \* no such path
    Part            \* an unfinished copy

ASSUME RestoreSizesAssumption == N \in Nat \ {0} /\ MaxRestores \in Nat
ASSUME RestoreEnvAssumption == Env \subseteq {"reconcile", "crash"}
ASSUME ContentAssumption == {None, Part} \cap Nat = {} /\ None # Part

Component == 1 .. N
FAILURE_THRESHOLD == 2      \* reconcile.rs

\* 0 is what the device held at first, k what the k-th restore brings.
Content == (0 .. MaxRestores) \cup {None, Part}

VARIABLES
    dest,       \* what is at each component's path
    aside,      \* aside[c][k]: what restore k moved aside from there
    before,     \* what was at each path when the last restore began
    bundle,     \* the components that its bundle holds
    unit,       \* "up" or "down"
    strikes,    \* reconcile-state.json, the profile agent's entry; 2 is two or more
    attempt,    \* restores started so far
    cloud,      \* the last one is --from cloud
    pc,         \* "idle", "placing", "copying", "undoing" or "ending"
    at,         \* the component being placed or undone
    result      \* how the last restore ended, "none" while it has not; "abandoned"
                \* when it was cut off, or when something could not be put back

vars == <<dest, aside, before, bundle, unit, strikes, attempt, cloud, pc, at, result>>
files == <<dest, aside>>
job == <<before, bundle, attempt, cloud>>

TypeOK ==
    /\ dest \in [Component -> Content] /\ before \in [Component -> Content]
    /\ aside \in [Component -> [1 .. MaxRestores -> Content]]
    /\ bundle \subseteq Component
    /\ unit \in {"up", "down"} /\ strikes \in 0 .. FAILURE_THRESHOLD
    /\ attempt \in 0 .. MaxRestores /\ cloud \in BOOLEAN
    /\ pc \in {"idle", "placing", "copying", "undoing", "ending"}
    /\ at \in 0 .. N + 1
    /\ result \in {"none", "ok", "failed", "abandoned"}

Init ==
    /\ dest \in [Component -> {0, None}] /\ before = dest
    /\ aside = [c \in Component |-> [k \in 1 .. MaxRestores |-> None]]
    /\ bundle = {} /\ unit = "up" /\ strikes = 0
    /\ attempt = 0 /\ cloud = FALSE
    /\ pc = "idle" /\ at = 0 /\ result = "none"

-----------------------------------------------------------------------------
(* A restore.  Downloading, decrypting and unpacking come before its start. *)

\* systemctl stop and start are best effort.
TryUnit(s) == unit' \in {unit, s}

\* The unit is stopped and the components in b are about to be replaced.
Begin(b, fromCloud) ==
    /\ pc = "idle" /\ attempt < MaxRestores
    /\ attempt' = attempt + 1 /\ bundle' = b /\ cloud' = fromCloud
    /\ before' = dest
    /\ TryUnit("down")
    /\ pc' = "placing" /\ at' = 1 /\ result' = "none"
    /\ UNCHANGED <<files, strikes>>

\* --from cloud restores what the bundle holds, --snapshot the data directory.
StartCloud == \E b \in (SUBSET Component) \ {{}} : Begin(b, TRUE)
StartSnapshot == Begin({1}, FALSE)

\* Not in the bundle.
Skip ==
    /\ pc = "placing" /\ at \in Component \ bundle
    /\ at' = at + 1
    /\ UNCHANGED <<files, job, unit, strikes, pc, result>>

\* Mutant: what is there is overwritten.
CopyOver ==
    /\ pc = "placing" /\ at \in bundle
    /\ dest' = [dest EXCEPT ![at] = Part]
    /\ pc' = "copying"
    /\ UNCHANGED <<aside, job, unit, strikes, at, result>>

\* Rename what is there aside, if anything, and begin the copy.
MoveAside ==
    /\ pc = "placing" /\ at \in bundle
    /\ aside' = [aside EXCEPT ![at][attempt] = dest[at]]
    /\ dest' = [dest EXCEPT ![at] = Part]
    /\ pc' = "copying"
    /\ UNCHANGED <<job, unit, strikes, at, result>>

\* The rename fails, and the components placed before it are undone.
MoveAsideFails ==
    /\ cloud /\ pc = "placing" /\ at \in bundle /\ dest[at] # None
    /\ pc' = "undoing" /\ at' = at - 1
    /\ UNCHANGED <<files, job, unit, strikes, result>>

\* --snapshot returns every error but the copy's at once.
Abandon ==
    /\ pc' = "idle" /\ at' = 0 /\ result' = "abandoned"
    /\ UNCHANGED <<job, unit, strikes>>

\* --snapshot: the data directory cannot be renamed.
SnapshotMoveFails ==
    /\ ~cloud /\ pc = "placing" /\ at = 1 /\ dest[1] # None
    /\ Abandon
    /\ UNCHANGED files

\* --snapshot: the data directory is renamed, the fresh one cannot be made.
FreshDirFails ==
    /\ ~cloud /\ pc = "placing" /\ at = 1
    /\ aside' = [aside EXCEPT ![1][attempt] = dest[1]]
    /\ dest' = [dest EXCEPT ![1] = None]
    /\ Abandon

Copied ==
    /\ pc = "copying"
    /\ dest' = [dest EXCEPT ![at] = attempt]
    /\ pc' = "placing" /\ at' = at + 1
    /\ UNCHANGED <<aside, job, unit, strikes, result>>

\* What this restore moved aside from c is back in its place.
PutBack(c) ==
    /\ dest' = [dest EXCEPT ![c] = aside[c][attempt]]
    /\ aside' = [aside EXCEPT ![c][attempt] = None]

\* It cannot be renamed back: it stays aside, and at its path is what the
\* removal left.
CannotPutBack(c) ==
    /\ aside[c][attempt] # None
    /\ \E left \in {None, Part} : dest' = [dest EXCEPT ![c] = left]
    /\ UNCHANGED aside

\* move_aside_and_place undoes its component if something was moved aside, and
\* does not look whether that worked.
CopyFails ==
    /\ cloud /\ pc = "copying"
    /\ \/ /\ IF aside[at][attempt] # None THEN PutBack(at) ELSE UNCHANGED files
          /\ UNCHANGED result
       \/ CannotPutBack(at) /\ result' = "abandoned"
    /\ pc' = "undoing" /\ at' = at - 1
    /\ UNCHANGED <<job, unit, strikes>>

\* --snapshot removes the partial copy in either case, and leaves the unit
\* stopped if the rename back fails.
SnapshotCopyFails ==
    /\ ~cloud /\ pc = "copying"
    /\ \/ /\ PutBack(at)
          /\ pc' = "undoing" /\ at' = 0 /\ UNCHANGED <<job, unit, strikes, result>>
       \/ CannotPutBack(at) /\ Abandon

\* Placed::rollback, last placed first; one that fails is reported and passed over.
Undo ==
    /\ pc = "undoing" /\ at > 0
    /\ \/ /\ IF at \in bundle THEN PutBack(at) ELSE UNCHANGED files
          /\ UNCHANGED result
       \/ at \in bundle /\ CannotPutBack(at) /\ result' = "abandoned"
    /\ at' = at - 1
    /\ UNCHANGED <<job, unit, strikes, pc>>

\* Mutant: the placed components are not undone.
UndoneAtOnce ==
    /\ pc = "undoing"
    /\ pc' = "ending" /\ at' = 0 /\ result' = "failed"
    /\ UNCHANGED <<files, job, unit, strikes>>

Undone ==
    /\ pc = "undoing" /\ at = 0
    /\ pc' = "ending" /\ result' = IF result = "none" THEN "failed" ELSE result
    /\ UNCHANGED <<files, job, unit, strikes, at>>

Placed ==
    /\ pc = "placing" /\ at = N + 1
    /\ pc' = "ending" /\ at' = 0 /\ result' = "ok"
    /\ UNCHANGED <<files, job, unit, strikes>>

End ==
    /\ pc = "ending"
    /\ TryUnit("up")
    /\ pc' = "idle"
    /\ UNCHANGED <<files, job, strikes, at, result>>

-----------------------------------------------------------------------------
(* The rest of the device *)

\* Mutant: an active unit's strikes are kept, a stopped unit's forgotten.
ReconcileForgets == "reconcile" \in Env /\ strikes' = 0 /\ UNCHANGED unit

\* reconcile::run of the profile agent: an active unit may answer its health
\* probe; one that is stopped or does not gets a strike, and at the second a
\* start, whose own probe decides whether the strikes are forgotten.
Reconcile ==
    /\ "reconcile" \in Env
    /\ \/ unit = "up" /\ strikes' = 0 /\ UNCHANGED unit
       \/ /\ strikes + 1 < FAILURE_THRESHOLD
          /\ strikes' = strikes + 1 /\ UNCHANGED unit
       \/ /\ strikes + 1 >= FAILURE_THRESHOLD
          /\ \/ unit' = "up" /\ strikes' = 0
             \/ unit' \in {"up", "down"} /\ strikes' = FAILURE_THRESHOLD

ReconcileTick == Reconcile /\ UNCHANGED <<files, job, pc, at, result>>

\* Power fails; at boot the enabled unit starts.  Nothing resumes a restore.
Crash ==
    /\ "crash" \in Env /\ pc # "idle"
    /\ pc' = "idle" /\ at' = 0 /\ result' = "abandoned"
    /\ unit' = "up"
    /\ UNCHANGED <<files, job, strikes>>

RestoreNext ==
    \/ StartCloud \/ StartSnapshot
    \/ Skip \/ MoveAside \/ MoveAsideFails \/ SnapshotMoveFails \/ FreshDirFails
    \/ Copied \/ CopyFails \/ SnapshotCopyFails \/ Undo \/ Undone \/ Placed \/ End

Next == RestoreNext \/ ReconcileTick \/ Crash

Spec == Init /\ [][Next]_vars

\* The timer fires again and again and a start succeeds now and then.
FairSpec == Spec /\ WF_vars(ReconcileTick) /\ SF_vars(ReconcileTick /\ unit' = "up")

-----------------------------------------------------------------------------
(* Properties *)

\* Whatever fails and wherever the power goes, what a restore found at a path is
\* still on the device under one of its names, until a restore has succeeded.
OriginalsKept ==
    \A c \in Component :
        before[c] \notin {None} /\ result # "ok"
            => before[c] = dest[c] \/ \E k \in 1 .. MaxRestores : aside[c][k] = before[c]

\* A restore that fails has put back every component that existed, unless it was
\* cut off or a rename back failed too.
FailureRestores ==
    result = "failed" => \A c \in Component : before[c] # None => dest[c] = before[c]

\* One that reports success has replaced exactly the components of the bundle,
\* and the replaced ones are there to go back to.
SuccessReplaces ==
    result = "ok" => \A c \in Component :
        /\ dest[c] = IF c \in bundle THEN attempt ELSE before[c]
        /\ c \in bundle => aside[c][attempt] = before[c]

\* What a restore says at its end is what it did.
ReportsAreTrue == FailureRestores /\ SuccessReplaces

\* The reconcile timer brings a unit that a restore left stopped up again.
UnitComesBack == unit = "down" ~> unit = "up"
=============================================================================
