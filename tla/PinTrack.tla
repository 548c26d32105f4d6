------------------------------ MODULE PinTrack ------------------------------
(***************************************************************************)
(* What release tracking promises (docs/04): a newer upstream release gets *)
(* a proposal, a proposal bumps one profile, and whatever people merge in  *)
(* whatever order, a profile's pinned version goes forward only.  There    *)
(* are no workflow runs, clones and branches here.  `byHand` are the       *)
(* proposals that someone pushed with `open-pr`, to which less applies.    *)
(***************************************************************************)
EXTENDS Releases

VARIABLES upstream, main, open, byHand
pinVars == <<upstream, main, open, byHand>>

Init ==
    /\ upstream = [p \in Profiles |-> 1]
    /\ main = [p \in Profiles |-> 1]
    /\ open = {} /\ byHand = {}

Published ==
    /\ \E p \in Profiles, n \in Releases : upstream' = [upstream EXCEPT ![p] = n]
    /\ UNCHANGED <<main, open, byHand>>

\* A proposal of the tracker, new or written anew.
Propose(n) ==
    /\ open' = open \cup {n} /\ byHand' = byHand \ {n}
    /\ UNCHANGED <<upstream, main>>

ProposeByHand(n) ==
    /\ byHand' = byHand \cup {n} /\ open' \in {open, open \cup {n}}
    /\ UNCHANGED <<upstream, main>>

Withdraw(n) ==
    /\ open' \in {open, open \ {n}} /\ byHand' \in {byHand, byHand \ {n}}
    /\ UNCHANGED <<upstream, main>>

\* n = <<profile, release>>
Merge(n) ==
    /\ n \in open /\ open' = open \ {n} /\ byHand' \in {byHand, byHand \ {n}}
    /\ main'[n[1]] = n[2]
    /\ \A p \in Profiles : main'[p] = main[p] \/ Newer(main'[p], main[p])
    /\ n \in byHand \/ \A p \in Profiles \ {n[1]} : main'[p] = main[p]
    /\ UNCHANGED upstream

\* A release that profile p does not have yet.  A tag that cannot be parsed, of
\* any profile, stops the tracker for all of them.
Newest(p) == <<p, upstream[p]>>
Due(p) ==
    /\ \A q \in Profiles : Parses(upstream[q])
    /\ Newer(upstream[p], main[p]) /\ Newest(p) \notin open

Next ==
    \/ Published
    \/ \E n \in Profiles \X Releases : Propose(n) \/ ProposeByHand(n) \/ Withdraw(n) \/ Merge(n)

Spec ==
    /\ Init /\ [][Next]_pinVars
    /\ \A p \in Profiles : WF_pinVars(Due(p) /\ Propose(Newest(p)))
=============================================================================
