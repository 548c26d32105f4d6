---------------------------- MODULE UpdateTrial -----------------------------
(***************************************************************************)
(* What the rollback window of docs/08 promises, without slots, files or   *)
(* processes: an installed release is on trial until it is settled; each   *)
(* boot of a trial is counted, and the boot that reaches Threshold settles *)
(* it.  The record of the trial is lost only where writers have overlapped.*)
(***************************************************************************)
EXTENDS Integers

CONSTANT Threshold
VARIABLES
    trial,      \* boots counted so far, NoTrial, or Lost
    overlapped  \* two writers have been in the file at once

NoTrial == -1
Lost == -2

Init == trial = NoTrial /\ overlapped = FALSE

\* A release is installed; it replaces one that was still on trial.
Install == trial' = 0 /\ UNCHANGED overlapped

\* A boot that leaves the release on trial.
CountBoot ==
    /\ trial \notin {NoTrial, Lost} /\ trial + 1 < Threshold
    /\ trial' = trial + 1 /\ UNCHANGED overlapped

\* Confirmed, rolled back, or given up on.
Settle == trial' = NoTrial /\ UNCHANGED overlapped

Overlap == overlapped' = TRUE /\ UNCHANGED trial

\* The record can no longer be read, unless a writer still replaces it.
Lose == overlapped /\ trial' = Lost /\ UNCHANGED overlapped

Next == Install \/ CountBoot \/ Settle \/ Overlap \/ Lose
Spec == Init /\ [][Next]_<<trial, overlapped>>
=============================================================================
