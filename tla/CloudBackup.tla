----------------------------- MODULE CloudBackup -----------------------------
(***************************************************************************)
(* `backup now --to-cloud`: quiesce the workload through deputyd, copy the *)
(* profile state piece by piece, thaw, then pack, encrypt, verify and      *)
(* upload, and leave a status file behind for the rest of the device.  The *)
(* workload writes its state whenever it is not frozen; a bundle is a      *)
(* snapshot only if all its pieces stem from one moment.                   *)
(* deputyd is external: it freezes on snapshot.prepare, thaws on           *)
(* snapshot.complete, and its answer may get lost.                         *)
(***************************************************************************)
EXTENDS Integers

CONSTANTS
    Backups,    \* processes: the timer's, an operator's, the fleet queue's
    Resident,   \* deputyd's socket exists; FALSE on a community image
    MaxWrites,  \* bound: writes of the workload
    Nothing     \* no bundle, no status, no code yet

ASSUME BackupEnvAssumption ==
    Resident \in BOOLEAN /\ MaxWrites \in Nat

VARIABLES
    phase,      \* the workload slice: "active" or "quiesced"
    data,       \* two pieces of profile state, written one after the other
    step,       \* each backup's next step
    guard,      \* its SnapshotGuard is active
    copy,       \* what it has staged
    sealed,     \* its encrypted bundle can be decrypted and unpacked
    exit,       \* what run_cloud_backup has returned: "0", "1" or an "error"
    status,     \* backup-status.json: success, and a ghost of what that backup did
    did,        \* history: the backup was a dry run, or has stored a bundle
    stored,     \* the bundle uploaded last
    overlapped, \* history: two backups have run at once
    orphaned    \* history: a backup was killed, or an answer of deputyd lost

outcome == <<sealed, exit, status, did>>
backupVars == <<phase, data, step, guard, copy, outcome, stored, overlapped, orphaned>>
history == <<overlapped, orphaned>>

Piece == 1 .. 2
State == [Piece -> 0 .. MaxWrites]
Blank == [i \in Piece |-> 0]

BackupInit ==
    /\ phase = "active" /\ data = Blank
    /\ step = [b \in Backups |-> "idle"]
    /\ guard = [b \in Backups |-> FALSE]
    /\ copy = [b \in Backups |-> Blank]
    /\ sealed = [b \in Backups |-> FALSE] /\ exit = [b \in Backups |-> Nothing]
    /\ status = Nothing /\ did = [b \in Backups |-> Nothing]
    /\ stored = Nothing
    /\ overlapped = FALSE /\ orphaned = FALSE

Goto(b, from, to) == step[b] = from /\ step' = [step EXCEPT ![b] = to]
\* The process ends.
Forget(b) ==
    /\ copy' = [copy EXCEPT ![b] = Blank] /\ sealed' = [sealed EXCEPT ![b] = FALSE]
    /\ exit' = [exit EXCEPT ![b] = Nothing] /\ did' = [did EXCEPT ![b] = Nothing]
\* run_cloud_backup returns; the guard, if there is still one, is dropped.
Returns(b, code) ==
    /\ step' = [step EXCEPT ![b] = "report"] /\ guard' = [guard EXCEPT ![b] = FALSE]
    /\ exit' = [exit EXCEPT ![b] = code]

\* The workload writes the second piece of its state after the first.
Write ==
    /\ phase = "active"
    /\ \/ data[1] = data[2] /\ data[1] < MaxWrites /\ data' = [data EXCEPT ![1] = @ + 1]
       \/ data[1] > data[2] /\ data' = [data EXCEPT ![2] = data[1]]
    /\ UNCHANGED <<outcome, phase, step, guard, copy, stored, history>>

-----------------------------------------------------------------------------
(* A backup *)

\* Token and recovery key have been read.
BeginBackup(b) ==
    /\ Goto(b, "idle", "prepare")
    /\ overlapped' = (overlapped \/ \E o \in Backups : step[o] # "idle")
    /\ UNCHANGED <<outcome, phase, data, guard, copy, stored, orphaned>>

\* There is no token or no recovery key, or the backup is a dry run, which says 0.
BeginOnly(b) ==
    /\ step[b] = "idle"
    /\ \/ Returns(b, "1") /\ UNCHANGED did
       \/ Returns(b, "0") /\ did' = [did EXCEPT ![b] = "dry"]
    /\ UNCHANGED <<sealed, status, phase, data, copy, stored, history>>

\* Mutant: the guard is dropped by the statement that makes it.
PrepareUnheld(b) ==
    /\ Goto(b, "prepare", "first")
    /\ UNCHANGED <<outcome, phase, data, guard, copy, stored, history>>

\* SnapshotGuard::prepare
Prepare(b) ==
    /\ Goto(b, "prepare", "first")
    /\ guard' = [guard EXCEPT ![b] = Resident]
    /\ phase' = IF Resident THEN "quiesced" ELSE phase
    /\ UNCHANGED <<outcome, data, copy, stored, history>>

\* deputyd refuses, or freezes and its answer does not arrive: an error, and no
\* guard.
PrepareFails(b) ==
    /\ Resident /\ step[b] = "prepare" /\ Returns(b, "error")
    /\ \/ UNCHANGED <<phase, orphaned>>
       \/ phase' = "quiesced" /\ orphaned' = TRUE
    /\ UNCHANGED <<sealed, status, did, data, copy, stored, overlapped>>

CopyFirst(b) ==
    /\ Goto(b, "first", "second")
    /\ copy' = [copy EXCEPT ![b] = [Blank EXCEPT ![1] = data[1]]]
    /\ UNCHANGED <<outcome, phase, data, guard, stored, history>>

CopySecond(b) ==
    /\ Goto(b, "second", "complete")
    /\ copy' = [copy EXCEPT ![b][2] = data[2]]
    /\ UNCHANGED <<outcome, phase, data, guard, stored, history>>

\* Mutant: a failed copy returns at once, without Drop.
StagingFailsAtOnce(b) ==
    /\ step[b] \in {"first", "second"} /\ Returns(b, "error")
    /\ UNCHANGED <<sealed, status, did, phase, data, copy, stored, history>>

\* A copy fails: the staged state is void, and complete is called all the same.
StagingFails(b) ==
    /\ step[b] \in {"first", "second"} /\ Goto(b, step[b], "complete")
    /\ copy' = [copy EXCEPT ![b] = <<>>]
    /\ UNCHANGED <<outcome, phase, data, guard, stored, history>>

\* SnapshotGuard::complete; then the error of a failed copy is returned.
Complete(b) ==
    /\ step[b] = "complete"
    /\ phase' = IF guard[b] THEN "active" ELSE phase
    /\ IF copy[b] = <<>> THEN Returns(b, "error")
       ELSE /\ Goto(b, "complete", "pack") /\ guard' = [guard EXCEPT ![b] = FALSE]
            /\ UNCHANGED exit
    /\ UNCHANGED <<sealed, status, did, data, copy, stored, history>>

\* deputyd does not thaw, or its answer is lost: an error; Drop asks once more.
CompleteFails(b) ==
    /\ guard[b] /\ Goto(b, "complete", "drop")
    /\ phase' \in {phase, "active"}
    /\ UNCHANGED <<outcome, data, guard, copy, stored, history>>

Drop(b) ==
    /\ step[b] = "drop"
    /\ \/ phase' = "active" /\ UNCHANGED orphaned
       \/ orphaned' = TRUE /\ UNCHANGED phase
    /\ Returns(b, "error")
    /\ UNCHANGED <<sealed, status, did, data, copy, stored, overlapped>>

\* A tar that fails is a 1, an age that fails an error; and what age leaves may be
\* less than the bundle.
encrypt_with_age(b) ==
    /\ step[b] = "pack"
    /\ \/ \E code \in {"1", "error"} : Returns(b, code) /\ UNCHANGED sealed
       \/ /\ Goto(b, "pack", "verify") /\ UNCHANGED <<guard, exit>>
          /\ \E whole \in BOOLEAN : sealed' = [sealed EXCEPT ![b] = whole]
    /\ UNCHANGED <<status, did, phase, data, copy, stored, history>>

\* The bundle is decrypted and listed before it is committed.
verify_encrypted_bundle(b) ==
    /\ step[b] = "verify"
    /\ IF sealed[b] THEN Goto(b, "verify", "upload") /\ UNCHANGED <<guard, exit>>
                    ELSE Returns(b, "error")
    /\ UNCHANGED <<sealed, status, did, phase, data, copy, stored, history>>

\* What BUNDLE.json says of the copy.
Consistency(b) == "quiesced"

Bundle(b) == [pieces |-> copy[b], consistency |-> Consistency(b), sealed |-> sealed[b]]

\* The catalog is the commit point; the answer and the verification event may be
\* lost, and an answer that is not a success may be one to a refusal.
Upload(b) ==
    /\ step[b] = "upload"
    /\ \/ /\ stored' = Bundle(b) /\ did' = [did EXCEPT ![b] = "stored"]
          /\ \E code \in {"0", "1"} : Returns(b, code)
       \/ Returns(b, "1") /\ UNCHANGED <<stored, did>>
    /\ UNCHANGED <<sealed, status, phase, data, copy, history>>

Success(code) == code = "0"

\* run_now and write_backup_status: a temporary file and a rename, which may fail
\* unnoticed.
write_backup_status(b) ==
    /\ Goto(b, "report", "idle")
    /\ \/ status' = [success |-> Success(exit[b]), did |-> did[b]]
       \/ UNCHANGED status
    /\ Forget(b)
    /\ UNCHANGED <<guard, phase, data, stored, history>>

\* The process is killed; no destructor runs and no status is written.
Kill(b) ==
    /\ step[b] # "idle"
    /\ step' = [step EXCEPT ![b] = "idle"] /\ guard' = [guard EXCEPT ![b] = FALSE]
    /\ Forget(b)
    /\ orphaned' = TRUE
    /\ UNCHANGED <<status, phase, data, stored, overlapped>>

BackupStep(b) ==
    \/ BeginBackup(b) \/ BeginOnly(b) \/ Prepare(b) \/ PrepareFails(b)
    \/ CopyFirst(b) \/ CopySecond(b) \/ StagingFails(b)
    \/ Complete(b) \/ CompleteFails(b) \/ Drop(b)
    \/ encrypt_with_age(b) \/ verify_encrypted_bundle(b) \/ Upload(b)
    \/ write_backup_status(b) \/ Kill(b)

BackupNext == Write \/ \E b \in Backups : BackupStep(b)
BackupSpec == BackupInit /\ [][BackupNext]_backupVars

-----------------------------------------------------------------------------
(* Properties *)

\* The second piece was written after the first, so a bundle whose second piece
\* is newer than its first mixes two moments.
IsSnapshot(s) == s[1] >= s[2]

\* With deputyd resident and as long as no two backups overlap, a bundle that
\* says it was quiesced is a snapshot of one moment, whatever the workload writes
\* and whichever backup dies.
BundlesAreSnapshots ==
    Resident /\ ~overlapped /\ stored # Nothing /\ stored.consistency = "quiesced"
        => IsSnapshot(stored.pieces)

\* Every bundle in the cloud can be opened again with the key it was made with,
\* and a status file that says success is of a backup that stored one, or of a dry
\* run, which is reported like a backup.
StoredMeansRestorable ==
    /\ stored # Nothing => stored.sealed
    /\ status # Nothing /\ status.success => status.did \in {"stored", "dry"}

\* What the cloud holds and what the device says of it can be relied on.
BackupsAreTrue == BundlesAreSnapshots /\ StoredMeansRestorable

\* docs/06: the workload is thawed when the inputs have been copied, including on
\* failure: no backup leaves it frozen behind unless it was killed or deputyd's
\* answer was lost.
ThawedAfter ==
    ~orphaned /\ (\A b \in Backups : step[b] = "idle") => phase = "active"
=============================================================================
