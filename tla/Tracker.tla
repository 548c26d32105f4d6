------------------------------- MODULE Tracker -------------------------------
(***************************************************************************)
(* The release tracker (deputyos-track) and the workflow around it         *)
(* (.github/workflows/release-tracker.yml).  Every half an hour a workflow *)
(* run checks main out, asks GitHub for each profile's latest release and, *)
(* one profile after the other, pushes a branch and opens a pull request.  *)
(* Nothing keeps two runs apart, and a person may run `apply` and          *)
(* `open-pr` in a clone of the repository; people merge and close.         *)
(***************************************************************************)
EXTENDS Releases

CONSTANTS
    MaxExtra,   \* bound: dispatched runs of the workflow, commands in the clone
    MaxUpsets   \* bound: failing calls, closed proposals, withdrawn releases

VARIABLES
    upstream,   \* what GitHub answers for each profile
    main,       \* the profiles' pinned_version on the main branch
    branch,     \* the branches on origin, track/<id>-<version>
    open,       \* those with an open pull request
    byHand,     \* history: those last pushed by open-pr
    job,        \* a workflow run
    clone,      \* a person's clone and the command that runs in it
    extra, upsets

vars == <<upstream, main, branch, open, byHand, job, clone, extra, upsets>>
Runs == {"schedule", "dispatch"}
repo == <<main, branch, open, byHand>>

Start == [p \in Profiles |-> 1]
NoJob == [pc |-> "idle", base |-> Start, bumps |-> {}]

Init ==
    /\ upstream = Start /\ main = Start
    /\ branch = <<>> /\ open = {} /\ byHand = {}
    /\ job = [r \in Runs |-> NoJob]
    /\ clone = [pc |-> "idle", base |-> Start, head |-> Start, tree |-> Start, bumps |-> {}]
    /\ extra = 0 /\ upsets = 0

Upset == upsets < MaxUpsets /\ upsets' = upsets + 1
Extra == extra < MaxExtra /\ extra' = extra + 1

-----------------------------------------------------------------------------
(* What every command does first. *)

\* A profile whose query failed is left out; a tag that does not parse, of any
\* profile that was answered, ends the command before it has done anything.
Asked(answered) ==
    /\ IF answered = Profiles THEN UNCHANGED upsets ELSE Upset
    /\ \A p \in answered : Parses(upstream[p])

\* discover: a bump is a profile and its new release; `pins` are the versions
\* in the files.
discover(pins, answered) ==
    {<<p, upstream[p]>> : p \in {q \in answered : Newer(upstream[q], pins[q])}}

\* The bump at work.  profile::list sorts them by id; all that matters here is
\* that the order is fixed.
First(bumps) == CHOOSE n \in bumps : TRUE

\* That one line of the profile is rewritten.
bump_pinned_version(pins, bump) == [pins EXCEPT ![bump[1]] = bump[2]]

-----------------------------------------------------------------------------
(* A workflow run. *)

Now(r, j) == job' = [job EXCEPT ![r] = j]

\* actions/checkout of main, then track-propose, which writes a file per bump.
cmd_propose(r) ==
    /\ job[r].pc = "idle"
    /\ IF r = "dispatch" THEN Extra ELSE UNCHANGED extra
    /\ \E answered \in SUBSET Profiles :
        /\ Asked(answered) /\ discover(main, answered) # {}
        /\ Now(r, [pc |-> "push", base |-> main, bumps |-> discover(main, answered)])
    /\ UNCHANGED <<upstream, repo, clone>>

Written(n, base, pins) ==
    branch' = [m \in DOMAIN branch \cup {n} |-> IF m = n THEN [base |-> base, pins |-> pins] ELSE branch[m]]

\* Mutant: the next branch starts where the last one ended.
PushStacked(r) ==
    /\ job[r].pc = "push"
    /\ LET n == First(job[r].bumps)
           pins == bump_pinned_version(job[r].base, n)
       IN  /\ Written(n, main, pins)
           /\ byHand' = byHand \ {n}
           /\ Now(r, [job[r] EXCEPT !.pc = "pr", !.base = pins])
    /\ UNCHANGED <<upstream, main, open, clone, extra, upsets>>

\* git checkout -B from the commit of the run, and push -f.
Push(r) ==
    /\ job[r].pc = "push"
    /\ LET n == First(job[r].bumps) IN
       /\ Written(n, job[r].base, bump_pinned_version(job[r].base, n))
       /\ byHand' = byHand \ {n}
    /\ Now(r, [job[r] EXCEPT !.pc = "pr"])
    /\ UNCHANGED <<upstream, main, open, clone, extra, upsets>>

Others(bumps) == bumps \ {First(bumps)}
Onward(j) == IF Others(j.bumps) = {} THEN NoJob ELSE [j EXCEPT !.pc = "push", !.bumps = Others(@)]

\* gh pr create, or gh pr edit when there is one.
OpenOrEdit(r) ==
    /\ job[r].pc = "pr" /\ First(job[r].bumps) \in DOMAIN branch
    /\ open' = open \cup {First(job[r].bumps)}
    /\ Now(r, Onward(job[r]))
    /\ UNCHANGED <<upstream, main, branch, byHand, clone, extra, upsets>>

\* set -e: a step that fails ends the run, and the profiles that are left with it.
RunFails(r) ==
    /\ job[r].pc \in {"push", "pr"}
    /\ IF job[r].pc = "pr" /\ First(job[r].bumps) \notin DOMAIN branch
       THEN UNCHANGED upsets ELSE Upset
    /\ Now(r, NoJob)
    /\ UNCHANGED <<upstream, repo, clone, extra>>

-----------------------------------------------------------------------------
(* A person's clone. *)

Idle(c) == [c EXCEPT !.pc = "idle", !.bumps = {}]

\* git checkout main and git pull, changes thrown away.
Pull ==
    /\ clone.pc = "idle" /\ extra < MaxExtra
    /\ clone' = [clone EXCEPT !.base = main, !.head = main, !.tree = main]
    /\ UNCHANGED <<upstream, repo, job, extra, upsets>>

\* A command starts, on whatever is checked out.
Command(answered) == clone.pc = "idle" /\ Extra /\ Asked(answered)

\* apply --yes: the files are written and nothing is committed.
cmd_apply ==
    /\ \E answered \in SUBSET Profiles :
        LET bumps == discover(clone.tree, answered) IN
        /\ Command(answered) /\ bumps # {}
        /\ clone' = [clone EXCEPT !.tree = [p \in Profiles |-> IF <<p, upstream[p]>> \in bumps THEN upstream[p] ELSE @[p]]]
    /\ UNCHANGED <<upstream, repo, job>>

\* open-pr --yes.
cmd_open_pr ==
    /\ \E answered \in SUBSET Profiles :
        LET bumps == discover(clone.tree, answered) IN
        /\ Command(answered) /\ bumps # {}
        /\ clone' = [clone EXCEPT !.pc = "push", !.bumps = bumps]
    /\ UNCHANGED <<upstream, repo, job>>

\* git checkout -B on top of what is checked out, the file, git commit.
Committed ==
    LET n == First(clone.bumps) IN
    [clone EXCEPT !.head = bump_pinned_version(@, n), !.tree = bump_pinned_version(@, n)]

\* git push without -f: refused where the branch exists.
open_one_pr_push ==
    /\ clone.pc = "push" /\ First(clone.bumps) \notin DOMAIN branch
    /\ clone' = [Committed EXCEPT !.pc = "pr"]
    /\ Written(First(clone.bumps), clone.base, clone'.head)
    /\ byHand' = byHand \cup {First(clone.bumps)}
    /\ UNCHANGED <<upstream, main, open, job, extra, upsets>>

PushFails ==
    /\ clone.pc = "push"
    /\ IF First(clone.bumps) \in DOMAIN branch THEN UNCHANGED upsets ELSE Upset
    /\ clone' = Idle(Committed)
    /\ UNCHANGED <<upstream, repo, job, extra>>

open_one_pr_create ==
    /\ clone.pc = "pr" /\ First(clone.bumps) \in DOMAIN branch \ open
    /\ open' = open \cup {First(clone.bumps)}
    /\ clone' = IF Others(clone.bumps) = {} THEN Idle(clone)
                ELSE [clone EXCEPT !.pc = "push", !.bumps = Others(@)]
    /\ UNCHANGED <<upstream, main, branch, byHand, job, extra, upsets>>

\* There is a pull request already, the branch was deleted, gh fails, or the
\* notes are cut in the middle of a character: the profiles left are left.
CreateFails ==
    /\ clone.pc = "pr"
    /\ IF First(clone.bumps) \in DOMAIN branch \ open THEN Upset ELSE UNCHANGED upsets
    /\ clone' = Idle(clone)
    /\ UNCHANGED <<upstream, repo, job, extra>>

-----------------------------------------------------------------------------
(* GitHub and people. *)

Publish(p) ==
    /\ \E i \in latest(p) : i > upstream[p] /\ upstream' = [upstream EXCEPT ![p] = i]
    /\ UNCHANGED <<repo, job, clone, extra, upsets>>

\* Upstream deletes its last release.
Retract(p) ==
    /\ Upset
    /\ \E i \in latest(p) : i < upstream[p] /\ upstream' = [upstream EXCEPT ![p] = i]
    /\ UNCHANGED <<repo, job, clone, extra>>

Changes(b) == {p \in Profiles : b.pins[p] # b.base[p]}

\* A branch and main have changed one line differently: a conflict.
Mergeable(b) == \A p \in Changes(b) : main[p] \in {b.base[p], b.pins[p]}

\* A squash merge.
Merge(n) ==
    /\ Mergeable(branch[n])
    /\ main' = [p \in Profiles |-> IF p \in Changes(branch[n]) THEN branch[n].pins[p] ELSE main[p]]
    /\ open' = open \ {n}
    /\ UNCHANGED <<upstream, branch, byHand, job, clone, extra, upsets>>

Close(n) ==
    /\ Upset /\ open' = open \ {n}
    /\ UNCHANGED <<upstream, main, branch, byHand, job, clone, extra>>

\* The branch of a proposal that was merged or closed, or has none yet.
Delete(n) ==
    /\ Upset /\ branch' = [m \in DOMAIN branch \ {n} |-> branch[m]] /\ byHand' = byHand \ {n}
    /\ UNCHANGED <<upstream, main, open, job, clone, extra>>

-----------------------------------------------------------------------------
RunNext(r) == cmd_propose(r) \/ Push(r) \/ OpenOrEdit(r) \/ RunFails(r)
CloneNext ==
    \/ Pull \/ cmd_apply \/ cmd_open_pr
    \/ open_one_pr_push \/ PushFails \/ open_one_pr_create \/ CreateFails

Next ==
    \/ \E r \in Runs : RunNext(r)
    \/ CloneNext
    \/ \E p \in Profiles : Publish(p) \/ Retract(p)
    \/ \E n \in open : Merge(n) \/ Close(n)
    \/ \E n \in DOMAIN branch \ open : Delete(n)

\* The schedule starts a run every half an hour, and a run that was started
\* goes on or fails.
Fairness == WF_vars(RunNext("schedule"))
Spec == Init /\ [][Next]_vars /\ Fairness

-----------------------------------------------------------------------------
(* Properties *)

Pins == INSTANCE PinTrack

\* Whatever runs, commands and people do at once, and with some calls failing:
\* a proposal that was written by the workflow bumps its profile alone; what
\* can be merged moves each profile forward only, also when releases are
\* withdrawn and proposals go stale; and every newer release is proposed.
PinTrackSpec == Pins!Spec
=============================================================================
