------------------------------ MODULE MCKeeping ------------------------------
(* An instance of what keeps a device's data for TLC: its backups, a restore, *)
(* or the audit spool.  The three share no state; one of them is explored in  *)
(* each behaviour.                                                            *)
EXTENDS CloudBackup, Restore, AuditSpool

VARIABLE explored

keeping == <<explored, backupVars, vars, spoolVars>>

KeepingInit ==
    /\ explored \in {"backup", "restore", "spool"}
    /\ BackupInit /\ Init /\ SpoolInit
    \* A restore that is not explored is not varied.
    /\ explored # "restore" => dest = [c \in Component |-> 0]

KeepingNext ==
    \/ explored = "backup" /\ BackupNext /\ UNCHANGED <<explored, vars, spoolVars>>
    \/ explored = "restore" /\ Next /\ UNCHANGED <<explored, backupVars, spoolVars>>
    \/ explored = "spool" /\ SpoolNext /\ UNCHANGED <<explored, backupVars, vars>>

\* Restore's fairness, while it is the one explored.
Timer == explored = "restore" /\ ReconcileTick /\ UNCHANGED <<explored, backupVars, spoolVars>>
KeepingSpec ==
    /\ KeepingInit /\ [][KeepingNext]_keeping
    /\ WF_keeping(Timer) /\ SF_keeping(Timer /\ unit' = "up")
=============================================================================
