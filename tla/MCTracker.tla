------------------------------ MODULE MCTracker ------------------------------
(* An instance of Tracker for TLC.                                           *)
EXTENDS Tracker

\* A final release, a beta, one after it that nobody marked as a prerelease and
\* that compares as older, and one whose tag holds no number.
SampleHistory ==
    << [tag |-> [core |-> 1, suffix |-> Final], prerelease |-> FALSE],
       [tag |-> [core |-> 2, suffix |-> <<2>>], prerelease |-> TRUE],
       [tag |-> [core |-> 2, suffix |-> <<1, 0>>], prerelease |-> FALSE],
       [tag |-> [core |-> 0, suffix |-> Final], prerelease |-> TRUE] >>
=============================================================================
