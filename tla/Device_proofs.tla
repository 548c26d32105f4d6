--------------------------- MODULE Device_proofs ---------------------------
(***************************************************************************)
(* However the owner's commands interleave, fail and are cut off, for any  *)
(* number of processes, profiles, models and mounts: one profile runs, a   *)
(* factory reset does what it says, a unit the cost guard stopped is       *)
(* marked, and a setting keeps the value the last success gave it.         *)
(* The invariants say what a command that is past a step knows of the      *)
(* files and units, as long as no other has been at the same ones: IInv of *)
(* the pointer, the units and the marker, Kept of the content of the files.*)
(* The laws of the quiet window are at the end.                            *)
(***************************************************************************)
EXTENDS Device, FiniteSetTheorems, WellFoundedInduction, TLAPS

EditSteps == {"read", "create", "fill", "rename"}
Edits == {"cost set", "quiet-hours set", "model set", "mounts add", "mounts net-add",
          "mounts remove", "network mode", "network allow", "voice wake"}

\* The steps of each command.
StepsOf(do) ==
  CASE do \in Edits          -> EditSteps
    [] do = "network apply"  -> EditSteps \cup {"nft"}
    [] do = "model register" -> EditSteps \cup {"copy", "copying", "env", "enable"}
    [] do = "mounts apply"   -> {"restart"}
    [] do = "profile switch" -> {"current", "stop", "create", "fill", "rename", "start"}
    [] do \in {"up", "down"} -> {"unit", do}
    [] do = "reconcile"      -> {"components", "probe"}
    [] do = "factory-reset"  -> {"plan", "stop", "stash", "wipe", "restore", "truncate",
                                 "pointer", "wizard"}
    [] do = "cost check"     -> {"evaluate", "hooks", "stuck", "marker", "load", "pause"}
    [] do = "cost reset"     -> {"clear"}

Dos == Edits \cup {"network apply", "model register", "mounts apply", "profile switch", "up",
                   "down", "reconcile", "factory-reset", "cost check", "cost reset"}

IsOp(o) == o = [do |-> o.do, arg |-> o.arg, pc |-> o.pc, file |-> o.file,
                copy |-> o.copy, mem |-> o.mem]

\* A process is idle, or at a step of its command and in a file that the command
\* looks at.
WellFormed(o) ==
  /\ IsOp(o)
  /\ o.pc # "idle" =>
       /\ o.do \in Dos /\ o.pc \in StepsOf(o.do) /\ o.file \in Touches(o.do)
       /\ o.do = "profile switch" => o.arg \in Profiles

AreOps == op = [p \in Procs |-> op[p]] /\ \A p \in Procs : WellFormed(op[p])

\* Two commands that share a file have spoiled it.
Apart ==
  \A p, q \in Procs : p # q /\ op[p].pc # "idle" /\ op[q].pc # "idle" =>
     Touches(op[p].do) \cap Touches(op[q].do) \subseteq spoiled

\* The guard is past its marker only with the marker set.
Marked ==
  \A p \in Procs : op[p].do = "cost check" /\ op[p].pc \in {"load", "pause"} =>
     marker \/ "marker" \in spoiled

\* The units but those that a boot has started beside the active profile's.
Own == running \ revived

\* What a command knows of the active profile, and what its steps have done to the
\* units and the pointer: o of the process, the pointer, its temporary file and the
\* process's open file.
AtPointer(o, run, pointer, tmp, open) ==
  /\ o.do \in {"profile switch", "up", "down", "reconcile"}
     /\ o.pc \in {"stop", "up", "down", "probe"} => o.mem = read_active_profile_id(pointer)
  /\ o.do = "profile switch" /\ o.pc \in {"create", "fill", "rename", "start"} => run = {}
  /\ o.do = "profile switch" /\ o.pc \in {"create", "fill"} => o.copy = [id |-> o.arg]
  /\ o.do = "profile switch" /\ o.pc = "fill" => tmp = Empty /\ open = "temp"
  /\ o.do = "profile switch" /\ o.pc = "rename" => tmp = [id |-> o.arg]
  /\ o.do = "profile switch" /\ o.pc = "start" => pointer = [id |-> o.arg]
  /\ o.do = "factory-reset"
     /\ o.pc \in {"stash", "wipe", "restore", "truncate", "pointer", "wizard"} => run = {}

Pointed ==
  "active" \notin spoiled /\ ~strayed =>
     /\ Own \subseteq {ActiveProfile}
     /\ \A p \in Procs :
          AtPointer(op[p], Own, disk["active"], temp["active"], fd[p])

AreFiles ==
  /\ disk = [f \in Files |-> disk[f]] /\ temp = [f \in Files |-> temp[f]]
  /\ fd = [p \in Procs |-> fd[p]] /\ strayed \in BOOLEAN

\* A reset's steps so far.
Doomed(o) == IF o.mem = None THEN Profiles ELSE {o.mem}

Resetting(p) ==
  LET o == op[p] IN
  o.do = "factory-reset" =>
    /\ o.pc \in {"restore", "truncate", "pointer", "wizard"} => data \cap Doomed(o) = {}
    /\ o.pc \in {"pointer", "wizard"} /\ "secrets" \notin spoiled => disk["secrets"] \in {Missing, Empty}
    /\ o.pc = "wizard" /\ "active" \notin spoiled => disk["active"] = Missing
    /\ o.pc = "wipe" /\ o.mem = None /\ "active" \notin spoiled => o.copy = sshKeys
    /\ o.pc = "restore" => o.copy = TRUE \/ unsaved \/ "active" \in spoiled

Cleared ==
  /\ \A p \in Procs : Resetting(p)
  /\ cleared # None => \A p \in Procs : op[p].pc = "idle"
  /\ sshKeys \in BOOLEAN /\ unsaved \in BOOLEAN /\ strayed \in BOOLEAN

IInv == AreOps /\ AreFiles /\ Apart /\ Marked /\ PauseIsMarked /\ Pointed /\ Cleared /\ ResetKeepsItsWord

-----------------------------------------------------------------------------
(* The record of a process *)

Rec(d, a, c, f, y, m) == [do |-> d, arg |-> a, pc |-> c, file |-> f, copy |-> y, mem |-> m]

LEMMA RecFields ==
    ASSUME NEW d, NEW a, NEW c, NEW f, NEW y, NEW m
    PROVE  LET r == Rec(d, a, c, f, y, m) IN
           /\ IsOp(r)
           /\ r.do = d /\ r.arg = a /\ r.pc = c /\ r.file = f /\ r.copy = y /\ r.mem = m
           /\ \A x : [r EXCEPT !.do = x] = Rec(x, a, c, f, y, m)
           /\ \A x : [r EXCEPT !.arg = x] = Rec(d, x, c, f, y, m)
           /\ \A x : [r EXCEPT !.pc = x] = Rec(d, a, x, f, y, m)
           /\ \A x : [r EXCEPT !.file = x] = Rec(d, a, c, x, y, m)
           /\ \A x : [r EXCEPT !.copy = x] = Rec(d, a, c, f, x, m)
           /\ \A x : [r EXCEPT !.mem = x] = Rec(d, a, c, f, y, x)
BY DEF Rec, IsOp

LEMMA SetOne ==
    ASSUME NEW o, IsOp(o), NEW x
    PROVE  /\ o = Rec(o.do, o.arg, o.pc, o.file, o.copy, o.mem)
           /\ [o EXCEPT !.pc = x] = Rec(o.do, o.arg, x, o.file, o.copy, o.mem)
           /\ [o EXCEPT !.file = x] = Rec(o.do, o.arg, o.pc, x, o.copy, o.mem)
           /\ [o EXCEPT !.copy = x] = Rec(o.do, o.arg, o.pc, o.file, x, o.mem)
           /\ [o EXCEPT !.mem = x] = Rec(o.do, o.arg, o.pc, o.file, o.copy, x)
<1>1. o = Rec(o.do, o.arg, o.pc, o.file, o.copy, o.mem)
  BY DEF IsOp, Rec
<1> QED BY ONLY <1>1, RecFields

LEMMA SetPcCopy ==
    ASSUME NEW o, IsOp(o), NEW x, NEW y
    PROVE  [o EXCEPT !.pc = x, !.copy = y] = Rec(o.do, o.arg, x, o.file, y, o.mem)
<1>1. [o EXCEPT !.pc = x, !.copy = y] = [[o EXCEPT !.pc = x] EXCEPT !.copy = y]
  OBVIOUS
<1>2. PICK t : t = [o EXCEPT !.pc = x]
  OBVIOUS
<1>3. t = Rec(o.do, o.arg, x, o.file, o.copy, o.mem)
  BY <1>2, SetOne
<1>4. IsOp(t) /\ [t EXCEPT !.copy = y] = Rec(t.do, t.arg, t.pc, t.file, y, t.mem)
  BY <1>3, RecFields, SetOne
<1> QED BY <1>1, <1>2, <1>3, <1>4, RecFields

LEMMA SetPcMem ==
    ASSUME NEW o, IsOp(o), NEW x, NEW y
    PROVE  [o EXCEPT !.pc = x, !.mem = y] = Rec(o.do, o.arg, x, o.file, o.copy, y)
<1>1. [o EXCEPT !.pc = x, !.mem = y] = [[o EXCEPT !.pc = x] EXCEPT !.mem = y]
  OBVIOUS
<1>2. PICK t : t = [o EXCEPT !.pc = x]
  OBVIOUS
<1>3. t = Rec(o.do, o.arg, x, o.file, o.copy, o.mem)
  BY <1>2, SetOne
<1>4. IsOp(t) /\ [t EXCEPT !.mem = y] = Rec(t.do, t.arg, t.pc, t.file, t.copy, y)
  BY <1>3, RecFields, SetOne
<1> QED BY <1>1, <1>2, <1>3, <1>4, RecFields

LEMMA SetPcFile ==
    ASSUME NEW o, IsOp(o), NEW x, NEW y
    PROVE  [o EXCEPT !.pc = x, !.file = y] = Rec(o.do, o.arg, x, y, o.copy, o.mem)
<1>1. [o EXCEPT !.pc = x, !.file = y] = [[o EXCEPT !.pc = x] EXCEPT !.file = y]
  OBVIOUS
<1>2. PICK t : t = [o EXCEPT !.pc = x]
  OBVIOUS
<1>3. t = Rec(o.do, o.arg, x, o.file, o.copy, o.mem)
  BY <1>2, SetOne
<1>4. IsOp(t) /\ [t EXCEPT !.file = y] = Rec(t.do, t.arg, t.pc, y, t.copy, t.mem)
  BY <1>3, RecFields, SetOne
<1> QED BY <1>1, <1>2, <1>3, <1>4, RecFields

LEMMA SetPcFileCopy ==
    ASSUME NEW o, IsOp(o), NEW x, NEW y, NEW z
    PROVE  [o EXCEPT !.pc = x, !.file = y, !.copy = z] = Rec(o.do, o.arg, x, y, z, o.mem)
<1>1. [o EXCEPT !.pc = x, !.file = y, !.copy = z] = [[o EXCEPT !.pc = x, !.file = y] EXCEPT !.copy = z]
  OBVIOUS
<1>2. PICK t : t = [o EXCEPT !.pc = x, !.file = y]
  OBVIOUS
<1>3. t = Rec(o.do, o.arg, x, y, o.copy, o.mem)
  BY <1>2, SetPcFile
<1>4. IsOp(t) /\ [t EXCEPT !.copy = z] = Rec(t.do, t.arg, t.pc, t.file, z, t.mem)
  BY <1>3, RecFields, SetOne
<1> QED BY <1>1, <1>2, <1>3, <1>4, RecFields

LEMMA IdleIs == IsOp(Idle) /\ Idle.pc = "idle" /\ Idle.do = "none" /\ WellFormed(Idle)
BY DEF IsOp, Idle, WellFormed

\* One process goes on.
Puts(p, o) == op' = [op EXCEPT ![p] = o]

LEMMA Put ==
    ASSUME AreOps, NEW p \in Procs, NEW o, Puts(p, o)
    PROVE  /\ op' = [q \in Procs |-> op'[q]] /\ op'[p] = o
           /\ \A q \in Procs : q # p => op'[q] = op[q]
BY DEF AreOps, Puts

LEMMA PutStep ==
    ASSUME AreOps, NEW p \in Procs, NEW s, op' = [op EXCEPT ![p].pc = s]
    PROVE  LET o == op[p] IN Puts(p, Rec(o.do, o.arg, s, o.file, o.copy, o.mem))
<1>1. op' = [op EXCEPT ![p] = [op[p] EXCEPT !.pc = s]]
  BY DEF AreOps
<1>2. IsOp(op[p])
  BY DEF AreOps, WellFormed
<1> QED BY <1>1, <1>2, SetOne, SetPcCopy, SetPcMem, SetPcFileCopy DEF Puts

LEMMA PutMem ==
    ASSUME AreOps, NEW p \in Procs, NEW s, NEW x, op' = [op EXCEPT ![p].pc = s, ![p].mem = x]
    PROVE  LET o == op[p] IN Puts(p, Rec(o.do, o.arg, s, o.file, o.copy, x))
<1>1. op' = [op EXCEPT ![p] = [op[p] EXCEPT !.pc = s, !.mem = x]]
  BY DEF AreOps
<1>2. IsOp(op[p])
  BY DEF AreOps, WellFormed
<1>3. [op[p] EXCEPT !.pc = s, !.mem = x] = Rec(op[p].do, op[p].arg, s, op[p].file, op[p].copy, x)
  BY <1>2, SetPcMem
<1> QED BY <1>1, <1>3 DEF Puts

LEMMA PutCopy ==
    ASSUME AreOps, NEW p \in Procs, NEW s, NEW x, op' = [op EXCEPT ![p].pc = s, ![p].copy = x]
    PROVE  LET o == op[p] IN Puts(p, Rec(o.do, o.arg, s, o.file, x, o.mem))
<1>1. op' = [op EXCEPT ![p] = [op[p] EXCEPT !.pc = s, !.copy = x]]
  BY DEF AreOps
<1>2. IsOp(op[p])
  BY DEF AreOps, WellFormed
<1>3. [op[p] EXCEPT !.pc = s, !.copy = x] = Rec(op[p].do, op[p].arg, s, op[p].file, x, op[p].mem)
  BY <1>2, SetPcCopy
<1> QED BY <1>1, <1>3 DEF Puts

LEMMA PutCopyMem ==
    ASSUME AreOps, NEW p \in Procs, NEW s, NEW x, NEW y,
           op' = [op EXCEPT ![p] = [op[p] EXCEPT !.pc = s, !.copy = x, !.mem = y]]
    PROVE  Puts(p, Rec(op[p].do, op[p].arg, s, op[p].file, x, y))
<1>1. IsOp(op[p])
  BY DEF AreOps, WellFormed
<1>2. PICK o : o = op[p]
  OBVIOUS
<1>3. [o EXCEPT !.pc = s, !.copy = x, !.mem = y] = [[o EXCEPT !.pc = s, !.copy = x] EXCEPT !.mem = y]
  OBVIOUS
<1>4. PICK t : t = [o EXCEPT !.pc = s, !.copy = x]
  OBVIOUS
<1>5. t = Rec(o.do, o.arg, s, o.file, x, o.mem)
  BY <1>1, <1>2, <1>4, SetPcCopy
<1>6. IsOp(t) /\ [t EXCEPT !.mem = y] = Rec(t.do, t.arg, t.pc, t.file, t.copy, y)
  BY <1>5, RecFields, SetOne
<1>7. [o EXCEPT !.pc = s, !.copy = x, !.mem = y] = Rec(o.do, o.arg, s, o.file, x, y)
  BY <1>3, <1>4, <1>5, <1>6, RecFields
<1> QED BY <1>2, <1>7 DEF Puts

LEMMA PutFileCopy ==
    ASSUME AreOps, NEW p \in Procs, NEW s, NEW f, NEW x,
           op' = [op EXCEPT ![p].pc = s, ![p].file = f, ![p].copy = x]
    PROVE  LET o == op[p] IN Puts(p, Rec(o.do, o.arg, s, f, x, o.mem))
<1>1. op' = [op EXCEPT ![p] = [op[p] EXCEPT !.pc = s, !.file = f, !.copy = x]]
  BY DEF AreOps
<1>2. IsOp(op[p])
  BY DEF AreOps, WellFormed
<1>3. [op[p] EXCEPT !.pc = s, !.file = f, !.copy = x]
        = Rec(op[p].do, op[p].arg, s, f, x, op[p].mem)
  BY <1>2, SetPcFileCopy
<1> QED BY <1>1, <1>3 DEF Puts

-----------------------------------------------------------------------------
(* Every step leaves a process idle or at a step of the same command. *)

Goes(p) ==
  /\ op[p].pc # "idle"
  /\ \E o : /\ Puts(p, o) /\ WellFormed(o)
             /\ \/ o.pc = "idle"
                \/ o.do = op[p].do /\ o.arg = op[p].arg

LEMMA GoesIdle ==
    ASSUME AreOps, NEW p \in Procs, op[p].pc # "idle", op' = [op EXCEPT ![p] = Idle]
    PROVE  Goes(p)
<1>1. Puts(p, Idle)
  BY DEF Puts
<1>2. PICK o : o = Idle
  OBVIOUS
<1>3. Puts(p, o) /\ WellFormed(o) /\ o.pc = "idle"
  BY <1>1, <1>2, IdleIs
<1> QED BY <1>3 DEF Goes

LEMMA GoesTo ==
    ASSUME AreOps, NEW p \in Procs, op[p].pc # "idle", NEW s, NEW f, NEW y, NEW m,
           Puts(p, Rec(op[p].do, op[p].arg, s, f, y, m)),
           s \in StepsOf(op[p].do), f \in Touches(op[p].do)
    PROVE  Goes(p)
<1>1. PICK o : o = Rec(op[p].do, op[p].arg, s, f, y, m)
  OBVIOUS
<1>2. IsOp(o) /\ o.do = op[p].do /\ o.arg = op[p].arg /\ o.pc = s /\ o.file = f
  BY <1>1, RecFields
<1>3. WellFormed(o)
  BY <1>2 DEF AreOps, WellFormed
<1> QED BY <1>1, <1>2, <1>3 DEF Goes

LEMMA GoesStep ==
    ASSUME AreOps, NEW p \in Procs, op[p].pc # "idle", NEW s, op' = [op EXCEPT ![p].pc = s],
           s \in StepsOf(op[p].do)
    PROVE  Goes(p)
<1>1. op[p].file \in Touches(op[p].do)
  BY DEF AreOps, WellFormed
<1> QED BY <1>1, PutStep, GoesTo

\* What follows for all processes.
LEMMA OpsKept ==
    ASSUME AreOps, Apart, NEW p \in Procs, Goes(p), spoiled \subseteq spoiled'
    PROVE  AreOps' /\ Apart'
<1>1. PICK o : /\ Puts(p, o) /\ WellFormed(o)
               /\ \/ o.pc = "idle"
                  \/ o.do = op[p].do /\ o.arg = op[p].arg
  BY DEF Goes
<1>2. /\ op' = [q \in Procs |-> op'[q]] /\ op'[p] = o
      /\ \A q \in Procs : q # p => op'[q] = op[q]
  BY <1>1, Put
<1>3. AreOps'
  BY <1>1, <1>2 DEF AreOps, WellFormed, IsOp
<1>4. \A q \in Procs : op'[q].pc # "idle" => op'[q].do = op[q].do /\ op[q].pc # "idle"
  BY <1>1, <1>2 DEF Goes
<1>5. Apart'
  BY <1>4 DEF Apart
<1> QED BY <1>3, <1>5

LEMMA ReadFileGoes == ASSUME AreOps, NEW p \in Procs, ReadFile(p) PROVE Goes(p)
<1>1. op[p].pc = "read" /\ "create" \in StepsOf(op[p].do) /\ op[p].file \in Touches(op[p].do)
  BY DEF ReadFile, At, AreOps, WellFormed, StepsOf, EditSteps, Dos, Edits
<1>2. ASSUME NEW c, TakeCopy(p, c) PROVE Goes(p)
  <2>1. CASE op[p].do = "network apply"
    <3>1. PICK resolved \in BOOLEAN :
            op' = [op EXCEPT ![p].pc = "create", ![p].file = "nft",
                             ![p].copy = generate_nftables_ruleset(c, resolved)]
      BY <1>2, <2>1 DEF TakeCopy
    <3>2. "nft" \in Touches(op[p].do)
      BY <2>1 DEF Touches
    <3> QED BY <1>1, <3>1, <3>2, PutFileCopy, GoesTo
  <2>2. CASE op[p].do # "network apply"
    <3>1. PICK new : new = Edit(op[p].do, op[p].arg, c)
      OBVIOUS
    <3>2. op' = [op EXCEPT ![p] = IF new = None THEN Idle
                                  ELSE [op[p] EXCEPT !.pc = "create", !.copy = new, !.mem = c]]
      BY <1>2, <2>2, <3>1 DEF TakeCopy
    <3>3. IsOp(op[p])
      BY DEF AreOps, WellFormed
    <3>4. PICK s : s = "create"
      OBVIOUS
    <3>5. \/ op' = [op EXCEPT ![p] = Idle]
          \/ op' = [op EXCEPT ![p] = [op[p] EXCEPT !.pc = s, !.copy = new, !.mem = c]]
      BY <3>2, <3>4
    <3>6. \/ op' = [op EXCEPT ![p] = Idle]
          \/ Puts(p, Rec(op[p].do, op[p].arg, s, op[p].file, new, c))
      BY <3>5, PutCopyMem
    <3> QED BY <1>1, <3>4, <3>6, GoesIdle, GoesTo
  <2> QED BY <2>1, <2>2
<1>3. op' = [op EXCEPT ![p] = Idle] \/ \E c : TakeCopy(p, c)
  BY DEF ReadFile
<1> QED BY <1>1, <1>2, <1>3, GoesIdle

LEMMA CreateGoes == ASSUME AreOps, NEW p \in Procs, Create(p) PROVE Goes(p)
<1>1. op[p].pc = "create" /\ "fill" \in StepsOf(op[p].do)
  BY DEF Create, At, AreOps, WellFormed, StepsOf, EditSteps, Dos, Edits
<1> QED BY <1>1, GoesStep, GoesIdle DEF Create, Goto, End

LEMMA FillGoes == ASSUME AreOps, NEW p \in Procs, Fill(p) PROVE Goes(p)
<1>1. op[p].pc = "fill" /\ "rename" \in StepsOf(op[p].do)
  BY DEF Fill, At, AreOps, WellFormed, StepsOf, EditSteps, Dos, Edits
<1> QED BY <1>1, GoesStep, GoesIdle DEF Fill, Goto, End

LEMMA RenameGoes == ASSUME AreOps, NEW p \in Procs, Rename(p) PROVE Goes(p)
<1>1. PICK o : o = op[p]
  OBVIOUS
<1>2. o.pc = "rename" /\ WellFormed(o)
  BY <1>1 DEF Rename, At, AreOps
<1>3. IsOp(o) /\ o.file \in Touches(o.do)
  BY <1>2 DEF WellFormed
<1>4. Puts(p, AfterRename(o)) \/ op' = [op EXCEPT ![p] = Idle]
  BY <1>1 DEF Rename, End, Puts
<1>5. CASE o.do = "model set" /\ o.file = "secrets" /\ Puts(p, AfterRename(o))
  <2>1. AfterRename(o) = Rec(o.do, o.arg, "create", "provider", [id |-> o.arg], o.mem)
    BY <1>3, <1>5, SetPcFileCopy DEF AfterRename, write_active_provider
  <2>2. "create" \in StepsOf(o.do) /\ "provider" \in Touches(o.do)
    BY <1>5 DEF StepsOf, Edits, EditSteps, Touches
  <2> QED BY <1>1, <1>2, <1>5, <2>1, <2>2, GoesTo
<1>6. CASE o.do \in {"model register", "profile switch", "network apply"} /\ Puts(p, AfterRename(o))
  <2>1. PICK s : /\ s = CASE o.do = "model register" -> "env" [] o.do = "profile switch" -> "start"
                           [] o.do = "network apply" -> "nft"
                 /\ s \in StepsOf(o.do)
    BY <1>6 DEF StepsOf, Edits
  <2>2. AfterRename(o) = [o EXCEPT !.pc = s]
    BY <1>6, <2>1 DEF AfterRename
  <2>3. AfterRename(o) = Rec(o.do, o.arg, s, o.file, o.copy, o.mem)
    BY <1>3, <2>2, SetOne
  <2> QED BY <1>1, <1>2, <1>3, <1>6, <2>1, <2>3, GoesTo
<1>7. CASE /\ ~(o.do = "model set" /\ o.file = "secrets")
           /\ o.do \notin {"model register", "profile switch", "network apply"}
           /\ Puts(p, AfterRename(o))
  <2>1. AfterRename(o) = Idle
    BY <1>7 DEF AfterRename
  <2> QED BY <1>1, <1>2, <1>7, <2>1, GoesIdle DEF Puts
<1> QED BY <1>1, <1>2, <1>4, <1>5, <1>6, <1>7, GoesIdle

LEMMA CopyModelGoes == ASSUME AreOps, NEW p \in Procs, CopyModel(p) PROVE Goes(p)
<1>1. op[p].pc # "idle" /\ {"copying", "read"} \subseteq StepsOf(op[p].do)
  BY DEF CopyModel, At, AreOps, StepsOf, EditSteps, Edits
<1> QED BY <1>1, GoesStep DEF CopyModel, Goto

LEMMA register_ggufGoes == ASSUME AreOps, NEW p \in Procs, register_gguf(p) PROVE Goes(p)
<1>1. CASE op[p].pc = "env"
  <2>1. "enable" \in StepsOf(op[p].do)
    BY <1>1 DEF AreOps, WellFormed, StepsOf, EditSteps, Dos, Edits
  <2> QED BY <1>1, <2>1, GoesStep DEF register_gguf, Goto, At
<1>2. CASE op[p].pc = "enable"
  BY <1>2, GoesIdle DEF register_gguf, End, At
<1> QED BY <1>1, <1>2 DEF register_gguf, At

LEMMA apply_rulesetGoes == ASSUME AreOps, NEW p \in Procs, apply_ruleset(p) PROVE Goes(p)
BY GoesIdle DEF apply_ruleset, At, End

LEMMA apply_mountsGoes == ASSUME AreOps, NEW p \in Procs, apply_mounts(p) PROVE Goes(p)
BY GoesIdle DEF apply_mounts, At, End

LEMMA KillGoes == ASSUME AreOps, NEW p \in Procs, Kill(p) PROVE Goes(p)
BY GoesIdle DEF Kill, End

LEMMA clear_tripped_markerGoes ==
    ASSUME AreOps, NEW p \in Procs, clear_tripped_marker(p)
    PROVE  Goes(p)
BY GoesIdle DEF clear_tripped_marker, At

LEMMA profile_switchGoes == ASSUME AreOps, NEW p \in Procs, profile_switch(p) PROVE Goes(p)
<1>1. op[p].pc # "idle" /\ IsOp(op[p]) /\ op[p].file \in Touches(op[p].do)
  BY DEF profile_switch, At, AreOps, WellFormed
<1>2. {"stop", "create"} \subseteq StepsOf(op[p].do)
  BY DEF profile_switch, StepsOf, Edits
<1>3. ASSUME NEW m, op' = [op EXCEPT ![p] = [op[p] EXCEPT !.pc = "stop", !.mem = m]]
      PROVE  Goes(p)
  <2>1. [op[p] EXCEPT !.pc = "stop", !.mem = m]
          = Rec(op[p].do, op[p].arg, "stop", op[p].file, op[p].copy, m)
    BY <1>1, SetPcMem
  <2> QED BY <1>1, <1>2, <1>3, <2>1, GoesTo DEF Puts
<1>4. ASSUME op' = [op EXCEPT ![p] = swap_active_profile(op[p])]
      PROVE  Goes(p)
  <2>1. swap_active_profile(op[p])
          = Rec(op[p].do, op[p].arg, "create", op[p].file, [id |-> op[p].arg], op[p].mem)
    BY <1>1, SetPcCopy DEF swap_active_profile
  <2> QED BY <1>1, <1>2, <1>4, <2>1, GoesTo DEF Puts
<1> QED BY <1>1, <1>3, <1>4, GoesIdle DEF profile_switch, End

LEMMA cmd_lifecycleGoes == ASSUME AreOps, NEW p \in Procs, cmd_lifecycle(p) PROVE Goes(p)
<1>1. op[p].pc # "idle" /\ IsOp(op[p]) /\ op[p].file \in Touches(op[p].do)
  BY DEF cmd_lifecycle, At, AreOps, WellFormed
<1>2. op[p].do \in StepsOf(op[p].do)
  BY DEF cmd_lifecycle, StepsOf, Edits
<1>3. ASSUME NEW m, op' = [op EXCEPT ![p] = [op[p] EXCEPT !.pc = op[p].do, !.mem = m]]
      PROVE  Goes(p)
  <2>1. [op[p] EXCEPT !.pc = op[p].do, !.mem = m]
          = Rec(op[p].do, op[p].arg, op[p].do, op[p].file, op[p].copy, m)
    BY <1>1, SetPcMem
  <2> QED BY <1>1, <1>2, <1>3, <2>1, GoesTo DEF Puts
<1> QED BY <1>1, <1>3, GoesIdle DEF cmd_lifecycle, End

LEMMA reconcileGoes == ASSUME AreOps, NEW p \in Procs, reconcile(p) PROVE Goes(p)
<1>1. op[p].pc # "idle" /\ IsOp(op[p]) /\ op[p].file \in Touches(op[p].do)
  BY DEF reconcile, At, AreOps, WellFormed
<1>2. "probe" \in StepsOf(op[p].do)
  BY DEF reconcile, StepsOf, Edits
<1>3. ASSUME NEW m, op' = [op EXCEPT ![p] = [op[p] EXCEPT !.pc = "probe", !.mem = m]]
      PROVE  Goes(p)
  <2>1. [op[p] EXCEPT !.pc = "probe", !.mem = m]
          = Rec(op[p].do, op[p].arg, "probe", op[p].file, op[p].copy, m)
    BY <1>1, SetPcMem
  <2> QED BY <1>1, <1>2, <1>3, <2>1, GoesTo DEF Puts
<1> QED BY <1>1, <1>3, GoesIdle DEF reconcile, End

LEMMA factory_resetGoes == ASSUME AreOps, NEW p \in Procs, factory_reset(p) PROVE Goes(p)
<1>1. op[p].pc # "idle" /\ op[p].file \in Touches(op[p].do) /\ op[p].do = "factory-reset"
  BY DEF factory_reset, At, AreOps, WellFormed
<1>2. {"stop", "stash", "wipe", "restore", "truncate", "pointer", "wizard"} \subseteq StepsOf(op[p].do)
  BY <1>1 DEF StepsOf, Edits
<1>3. ASSUME NEW s \in {"stash", "wipe", "restore", "truncate", "pointer", "wizard"},
             op' = [op EXCEPT ![p].pc = s]
      PROVE  Goes(p)
  BY <1>1, <1>2, <1>3, GoesStep
<1>4. ASSUME NEW x, op' = [op EXCEPT ![p].pc = "stop", ![p].mem = x]
      PROVE  Goes(p)
  <2>1. Puts(p, Rec(op[p].do, op[p].arg, "stop", op[p].file, op[p].copy, x))
    BY <1>4, PutMem
  <2> QED BY <1>1, <1>2, <2>1, GoesTo
<1>5. ASSUME NEW x, op' = [op EXCEPT ![p].pc = "wipe", ![p].copy = x]
      PROVE  Goes(p)
  BY <1>1, <1>2, <1>5, PutCopy, GoesTo
<1>6. ASSUME NEW ok, End(p, ok) PROVE Goes(p)
  BY <1>1, <1>6, GoesIdle DEF End
<1>7. CASE op[p].pc \in {"plan", "stop", "stash"}
  BY <1>1, <1>7, <1>3, <1>4, <1>5 DEF factory_reset, At, Goto
<1>8. CASE op[p].pc \in {"wipe", "restore"}
  BY <1>1, <1>8, <1>3, <1>6 DEF factory_reset, At, wipe_data_dir, restore_preserved, Goto
<1>9. CASE op[p].pc \in {"truncate", "pointer", "wizard"}
  BY <1>1, <1>9, <1>3, <1>6 DEF factory_reset, At, Goto
<1> QED BY <1>7, <1>8, <1>9 DEF factory_reset, At

LEMMA check_caps_and_maybe_pauseGoes ==
    ASSUME AreOps, NEW p \in Procs, check_caps_and_maybe_pause(p)
    PROVE  Goes(p)
<1>1. /\ op[p].pc # "idle" /\ IsOp(op[p]) /\ op[p].file \in Touches(op[p].do)
      /\ op[p].do = "cost check"
  BY DEF check_caps_and_maybe_pause, At, AreOps, WellFormed
<1>2. {"hooks", "stuck", "marker", "load", "pause"} \subseteq StepsOf(op[p].do)
  BY <1>1 DEF StepsOf, Edits
<1>3. ASSUME NEW s \in {"stuck", "load"}, Goto(p, s) PROVE Goes(p)
  BY <1>1, <1>2, <1>3, GoesStep DEF Goto
<1>4. ASSUME NEW x, op' = [op EXCEPT ![p] = [op[p] EXCEPT !.pc = "hooks", !.copy = x]]
      PROVE  Goes(p)
  <2>1. [op[p] EXCEPT !.pc = "hooks", !.copy = x]
          = Rec(op[p].do, op[p].arg, "hooks", op[p].file, x, op[p].mem)
    BY <1>1, SetPcCopy
  <2>2. Puts(p, Rec(op[p].do, op[p].arg, "hooks", op[p].file, x, op[p].mem))
    BY <1>4, <2>1 DEF Puts
  <2> QED BY <1>1, <1>2, <2>2, GoesTo
<1>5. ASSUME op' = [op EXCEPT ![p] = [op[p] EXCEPT !.pc = "marker"]] PROVE Goes(p)
  <2>1. [op[p] EXCEPT !.pc = "marker"]
          = Rec(op[p].do, op[p].arg, "marker", op[p].file, op[p].copy, op[p].mem)
    BY <1>1, SetOne
  <2>2. Puts(p, Rec(op[p].do, op[p].arg, "marker", op[p].file, op[p].copy, op[p].mem))
    BY <1>5, <2>1 DEF Puts
  <2> QED BY <1>1, <1>2, <2>2, GoesTo
<1>6. ASSUME NEW m, op' = [op EXCEPT ![p] = [op[p] EXCEPT !.pc = "pause", !.mem = m]]
      PROVE  Goes(p)
  <2>1. [op[p] EXCEPT !.pc = "pause", !.mem = m]
          = Rec(op[p].do, op[p].arg, "pause", op[p].file, op[p].copy, m)
    BY <1>1, SetPcMem
  <2> QED BY <1>1, <1>2, <1>6, <2>1, GoesTo DEF Puts
<1> QED BY <1>1, <1>3, <1>4, <1>5, <1>6, GoesIdle
        DEF check_caps_and_maybe_pause, write_tripped_marker

LEMMA SetIdle ==
    ASSUME NEW d, NEW a, NEW c, NEW f
    PROVE  [Idle EXCEPT !.do = d, !.arg = a, !.pc = c, !.file = f] = Rec(d, a, c, f, None, None)
<1>1. PICK i : i = Rec("none", None, "idle", "none", None, None) /\ i = Idle
  BY DEF Rec, Idle
<1>2. [i EXCEPT !.do = d, !.arg = a, !.pc = c, !.file = f]
        = [[[[i EXCEPT !.do = d] EXCEPT !.arg = a] EXCEPT !.pc = c] EXCEPT !.file = f]
  OBVIOUS
<1>3. PICK r : r = [i EXCEPT !.do = d]
  OBVIOUS
<1>4. r = Rec(d, None, "idle", "none", None, None)
  BY <1>1, <1>3, RecFields
<1>5. PICK t : t = [r EXCEPT !.arg = a]
  OBVIOUS
<1>6. t = Rec(d, a, "idle", "none", None, None)
  BY <1>4, <1>5, RecFields
<1>7. PICK u : u = [t EXCEPT !.pc = c]
  OBVIOUS
<1>8. u = Rec(d, a, c, "none", None, None)
  BY <1>6, <1>7, RecFields
<1>9. [u EXCEPT !.file = f] = Rec(d, a, c, f, None, None)
  BY <1>8, RecFields
<1> QED BY <1>1, <1>2, <1>3, <1>5, <1>7, <1>9

Good(c) == c[1] \in Dos /\ (c[1] = "profile switch" => c[2] \in Profiles)

LEMMA CommandsGood == ASSUME NEW c \in Commands PROVE Good(c)
<1>1. ASSUME NEW S, NEW T, c \in S \X T, S \subseteq Dos, "profile switch" \in S => T \subseteq Profiles
      PROVE  Good(c)
  BY <1>1 DEF Good
<1>0. ASSUME NEW d \in Dos, NEW a, c = <<d, a>>, d # "profile switch" PROVE Good(c)
  BY <1>0 DEF Good
<1>2. ASSUME c \in CostCommands PROVE Good(c)
  BY <1>1, <1>2 DEF CostCommands, Dos, Edits
<1>3. ASSUME c \in ModelCommands PROVE Good(c)
  BY <1>1, <1>3 DEF ModelCommands, Dos, Edits
<1>4. ASSUME c \in ProfileCommands PROVE Good(c)
  BY <1>1, <1>4 DEF ProfileCommands, Dos, Edits
<1>5. ASSUME c \in cmd_mounts PROVE Good(c)
  BY <1>0, <1>1, <1>5 DEF cmd_mounts, Dos, Edits
<1>6. ASSUME c \in cmd_network PROVE Good(c)
  BY <1>0, <1>1, <1>6 DEF cmd_network, Dos, Edits
<1>7. ASSUME c \in PageCommands PROVE Good(c)
  BY <1>1, <1>7 DEF PageCommands, post_keys_rotate, Dos, Edits
<1>8. ASSUME c \in WizardCommands PROVE Good(c)
  BY <1>1, <1>8 DEF WizardCommands, Dos, Edits
<1>9. ASSUME c \in PageCostCommands PROVE Good(c)
  BY <1>0, <1>1, <1>9 DEF PageCostCommands, Dos, Edits
<1>10. ASSUME c \in TimerCommands PROVE Good(c)
  BY <1>0, <1>1, <1>10 DEF TimerCommands, Dos, Edits
<1> QED BY <1>2, <1>3, <1>4, <1>5, <1>6, <1>7, <1>8, <1>9, <1>10 DEF Commands

LEMMA BeginPuts ==
    ASSUME AreOps, NEW p \in Procs, NEW c \in Commands, Begin(p, c)
    PROVE  /\ Puts(p, Rec(c[1], c[2], FirstStep(c[1]), FirstFile(c[1]), None, None))
           /\ c[1] \in Dos /\ FirstStep(c[1]) \in StepsOf(c[1])
           /\ c[1] = "profile switch" => c[2] \in Profiles
<1>3. c[1] \in Dos /\ (c[1] = "profile switch" => c[2] \in Profiles)
  BY CommandsGood DEF Good
<1>4. FirstStep(c[1]) \in StepsOf(c[1])
  <2>1. PICK d \in Dos : d = c[1]
    BY <1>3
  <2> QED BY <2>1 DEF FirstStep, StepsOf, EditSteps, Edits, Dos
<1>5. PICK s, f : s = FirstStep(c[1]) /\ f = FirstFile(c[1])
  OBVIOUS
<1>6. [Idle EXCEPT !.do = c[1], !.arg = c[2], !.pc = s, !.file = f] = Rec(c[1], c[2], s, f, None, None)
  BY SetIdle
<1>7. op' = [op EXCEPT ![p] = [Idle EXCEPT !.do = c[1], !.arg = c[2], !.pc = s, !.file = f]]
  BY <1>5 DEF Begin
<1> QED BY <1>3, <1>4, <1>5, <1>6, <1>7 DEF Puts

LEMMA BeginOps ==
    ASSUME AreOps, Apart, NEW p \in Procs, NEW c \in Commands, Begin(p, c)
    PROVE  AreOps' /\ Apart'
<1>1. PICK o : o = Rec(c[1], c[2], FirstStep(c[1]), FirstFile(c[1]), None, None)
  OBVIOUS
<1>2. /\ op' = [q \in Procs |-> op'[q]] /\ op'[p] = o
      /\ \A q \in Procs : q # p => op'[q] = op[q]
  BY <1>1, BeginPuts, Put
<1>3. IsOp(o) /\ o.do = c[1] /\ o.arg = c[2] /\ o.pc = FirstStep(c[1]) /\ o.file = FirstFile(c[1])
  BY <1>1, RecFields
<1>4. FirstFile(c[1]) \in Touches(c[1])
  BY DEF Touches
<1>5. WellFormed(o)
  BY <1>3, <1>4, BeginPuts DEF WellFormed
<1>6. AreOps'
  BY <1>2, <1>5 DEF AreOps, WellFormed, IsOp
<1>7. spoiled' = spoiled \cup (Touches(c[1]) \cap Busy)
  BY DEF Begin
<1>8. \A q \in Procs : op[q].pc # "idle" => Touches(op[q].do) \subseteq Busy
  BY DEF Busy
<1>9. Apart'
  BY <1>2, <1>3, <1>7, <1>8 DEF Apart
<1> QED BY <1>6, <1>9

-----------------------------------------------------------------------------
(* Steps at the pointer and the units *)

PtrSeen(p) == AtPointer(op[p], Own, disk["active"], temp["active"], fd[p])

LEMMA OffPointer ==
    ASSUME NEW o, NEW run, NEW pointer, NEW tmp, NEW open,
           o.pc = "idle" \/ "active" \notin Touches(o.do)
    PROVE  AtPointer(o, run, pointer, tmp, open)
BY DEF AtPointer, Touches, FirstFile

LEMMA IdlePointer ==
    ASSUME AreOps, NEW p \in Procs, op' = [op EXCEPT ![p] = Idle]
    PROVE  PtrSeen(p)'
<1>1. op'[p] = Idle
  BY Put DEF Puts
<1> QED BY <1>1, IdleIs, OffPointer DEF PtrSeen

LEMMA PointsAt ==
    ASSUME NEW i \in Profiles
    PROVE  read_active_profile_id([id |-> i]) = i
BY ContentIsWhole DEF read_active_profile_id, Contents, Files

LEMMA profile_switchPointer ==
    ASSUME AreOps, AreFiles, Pointed, NEW p \in Procs, profile_switch(p),
           "active" \notin spoiled', ~strayed'
    PROVE  Own' \subseteq {ActiveProfile}' /\ PtrSeen(p)'
<1>1. PICK o : o = op[p]
  OBVIOUS
<1>2. /\ o.do = "profile switch" /\ o.pc # "idle" /\ WellFormed(o) /\ o.arg \in Profiles
      /\ IsOp(o)
  BY <1>1 DEF profile_switch, At, AreOps, WellFormed
<1>3. "active" \notin spoiled /\ UNCHANGED <<disk, temp>>
  BY DEF profile_switch
<1>4. CASE At(p, "current")
  <2>1. ~strayed /\ UNCHANGED <<running, revived>>
    BY <1>4 DEF profile_switch, At, AreFiles
  <2>2. \/ op' = [op EXCEPT ![p] = Idle]
        \/ op' = [op EXCEPT ![p] = [o EXCEPT !.pc = "stop", !.mem = ActiveProfile]]
    BY <1>1, <1>4 DEF profile_switch, At
  <2>3. [o EXCEPT !.pc = "stop", !.mem = ActiveProfile]
          = Rec(o.do, o.arg, "stop", o.file, o.copy, ActiveProfile)
    BY <1>2, SetPcMem
  <2>4. ASSUME Puts(p, Rec(o.do, o.arg, "stop", o.file, o.copy, ActiveProfile))
        PROVE  PtrSeen(p)'
    <3>1. op'[p] = Rec(o.do, o.arg, "stop", o.file, o.copy, ActiveProfile)
      BY <2>4, Put
    <3>2. op'[p].do = o.do /\ op'[p].pc = "stop" /\ op'[p].mem = ActiveProfile
      BY <3>1, RecFields
    <3>3. ActiveProfile = read_active_profile_id(disk'["active"])
      BY <1>3 DEF ActiveProfile
    <3> QED BY <3>2, <3>3 DEF PtrSeen, AtPointer
  <2>5. PtrSeen(p)'
    BY <2>2, <2>3, <2>4, IdlePointer DEF Puts
  <2> QED BY <1>3, <2>1, <2>5 DEF Pointed, ActiveProfile, Own
<1>5. CASE At(p, "stop")
  <2>1. ~strayed /\ Own' = Own \ {o.mem}
    BY <1>1, <1>4, <1>5 DEF profile_switch, At, StopUnit, AreFiles, Own
  <2>2. Own \subseteq {ActiveProfile} /\ o.mem = ActiveProfile
    BY <1>1, <1>2, <1>3, <1>5, <2>1 DEF Pointed, AtPointer, At, ActiveProfile
  <2>3. Own' = {}
    BY <2>1, <2>2
  <2>4. op' = [op EXCEPT ![p] = swap_active_profile(o)]
    BY <1>1, <1>5 DEF profile_switch, At
  <2>5. swap_active_profile(o) = Rec(o.do, o.arg, "create", o.file, [id |-> o.arg], o.mem)
    BY <1>2, SetPcCopy DEF swap_active_profile
  <2>6. op'[p] = Rec(o.do, o.arg, "create", o.file, [id |-> o.arg], o.mem)
    BY <2>4, <2>5, Put DEF Puts
  <2>7. op'[p].do = o.do /\ op'[p].pc = "create" /\ op'[p].copy = [id |-> op'[p].arg]
    BY <2>6, RecFields
  <2> QED BY <1>2, <2>3, <2>7 DEF PtrSeen, AtPointer
<1>6. CASE At(p, "start")
  <2>1. ~strayed /\ op' = [op EXCEPT ![p] = Idle]
    BY <1>1, <1>6 DEF profile_switch, At, AreFiles, End
  <2>2. Own = {} /\ disk["active"] = [id |-> o.arg]
    BY <1>1, <1>2, <1>3, <1>6, <2>1 DEF Pointed, AtPointer, At
  <2>3. Own' \subseteq {o.arg}
    BY <1>1, <1>6, <2>2 DEF profile_switch, At, StartUnit, Own
  <2>4. ActiveProfile' = o.arg
    BY <1>2, <1>3, <2>2, PointsAt DEF ActiveProfile
  <2> QED BY <2>1, <2>3, <2>4, IdlePointer
<1> QED BY <1>4, <1>5, <1>6 DEF profile_switch

LEMMA cmd_lifecyclePointer ==
    ASSUME AreOps, AreFiles, Pointed, NEW p \in Procs, cmd_lifecycle(p),
           "active" \notin spoiled', ~strayed'
    PROVE  Own' \subseteq {ActiveProfile}' /\ PtrSeen(p)'
<1>1. PICK o : o = op[p]
  OBVIOUS
<1>2. o.do \in {"up", "down"} /\ o.pc # "idle" /\ IsOp(o)
  BY <1>1 DEF cmd_lifecycle, At, AreOps, WellFormed
<1>3. "active" \notin spoiled /\ UNCHANGED <<disk, temp>> /\ ~strayed
  <2>1. "active" \notin spoiled /\ UNCHANGED <<disk, temp>>
    BY DEF cmd_lifecycle
  <2>2. strayed' = strayed \/ strayed' = TRUE
    BY DEF cmd_lifecycle, StopUnit
  <2> QED BY <2>1, <2>2 DEF AreFiles
<1>4. Own \subseteq {ActiveProfile}
  BY <1>3 DEF Pointed
<1>5. CASE At(p, "unit")
  <2>1. UNCHANGED <<running, revived>>
    BY <1>2, <1>5 DEF cmd_lifecycle, At
  <2>2. \/ op' = [op EXCEPT ![p] = Idle]
        \/ op' = [op EXCEPT ![p] = [o EXCEPT !.pc = o.do, !.mem = ActiveProfile]]
    BY <1>1, <1>2, <1>5 DEF cmd_lifecycle, At
  <2>3. [o EXCEPT !.pc = o.do, !.mem = ActiveProfile]
          = Rec(o.do, o.arg, o.do, o.file, o.copy, ActiveProfile)
    BY <1>2, SetPcMem
  <2>4. ASSUME Puts(p, Rec(o.do, o.arg, o.do, o.file, o.copy, ActiveProfile))
        PROVE  PtrSeen(p)'
    <3>1. op'[p] = Rec(o.do, o.arg, o.do, o.file, o.copy, ActiveProfile)
      BY <2>4, Put
    <3>2. op'[p].do = o.do /\ op'[p].mem = ActiveProfile
      BY <3>1, RecFields
    <3>3. ActiveProfile = read_active_profile_id(disk'["active"])
      BY <1>3 DEF ActiveProfile
    <3> QED BY <1>2, <3>2, <3>3 DEF PtrSeen, AtPointer
  <2>5. PtrSeen(p)'
    BY <2>2, <2>3, <2>4, IdlePointer DEF Puts
  <2> QED BY <1>3, <1>4, <2>1, <2>5 DEF ActiveProfile, Own
<1>6. CASE At(p, "up") /\ StartUnit(o.mem)
  <2>1. o.pc = "up" /\ o.do = "up"
    BY <1>1, <1>2, <1>6 DEF At, AreOps, WellFormed, StepsOf, Edits
  <2>2. o.mem = ActiveProfile
    BY <1>1, <1>3, <2>1 DEF Pointed, AtPointer, ActiveProfile
  <2>3. Own' \subseteq {ActiveProfile} /\ op' = [op EXCEPT ![p] = Idle]
    BY <1>1, <1>2, <1>4, <1>6, <2>1, <2>2 DEF StartUnit, cmd_lifecycle, At, End, Own
  <2> QED BY <1>3, <2>3, IdlePointer DEF ActiveProfile
<1>7. CASE At(p, "down") /\ StopUnit(o.mem)
  <2>1. Own' \subseteq Own /\ op' = [op EXCEPT ![p] = Idle]
    BY <1>1, <1>2, <1>7 DEF StopUnit, cmd_lifecycle, At, End, Own
  <2> QED BY <1>3, <1>4, <2>1, IdlePointer DEF ActiveProfile
<1> QED BY <1>1, <1>5, <1>6, <1>7 DEF cmd_lifecycle

LEMMA reconcilePointer ==
    ASSUME AreOps, AreFiles, Pointed, NEW p \in Procs, reconcile(p),
           "active" \notin spoiled', ~strayed'
    PROVE  Own' \subseteq {ActiveProfile}' /\ PtrSeen(p)'
<1>1. PICK o : o = op[p]
  OBVIOUS
<1>2. o.do = "reconcile" /\ o.pc # "idle" /\ IsOp(o)
  BY <1>1 DEF reconcile, At, AreOps, WellFormed
<1>3. "active" \notin spoiled /\ UNCHANGED <<disk, temp>> /\ ~strayed
  BY DEF reconcile
<1>4. Own \subseteq {ActiveProfile}
  BY <1>3 DEF Pointed
<1>5. CASE At(p, "components")
  <2>1. UNCHANGED <<running, revived>>
    BY <1>5 DEF reconcile, At
  <2>2. \/ op' = [op EXCEPT ![p] = Idle]
        \/ op' = [op EXCEPT ![p] = [o EXCEPT !.pc = "probe", !.mem = ActiveProfile]]
    BY <1>1, <1>5 DEF reconcile, At
  <2>3. [o EXCEPT !.pc = "probe", !.mem = ActiveProfile]
          = Rec(o.do, o.arg, "probe", o.file, o.copy, ActiveProfile)
    BY <1>2, SetPcMem
  <2>4. ASSUME Puts(p, Rec(o.do, o.arg, "probe", o.file, o.copy, ActiveProfile))
        PROVE  PtrSeen(p)'
    <3>1. op'[p] = Rec(o.do, o.arg, "probe", o.file, o.copy, ActiveProfile)
      BY <2>4, Put
    <3>2. op'[p].do = o.do /\ op'[p].mem = ActiveProfile
      BY <3>1, RecFields
    <3>3. ActiveProfile = read_active_profile_id(disk'["active"])
      BY <1>3 DEF ActiveProfile
    <3> QED BY <1>2, <3>2, <3>3 DEF PtrSeen, AtPointer
  <2>5. PtrSeen(p)'
    BY <2>2, <2>3, <2>4, IdlePointer DEF Puts
  <2> QED BY <1>3, <1>4, <2>1, <2>5 DEF ActiveProfile, Own
<1>6. CASE At(p, "probe")
  <2>1. o.mem = ActiveProfile
    BY <1>1, <1>2, <1>3, <1>6 DEF Pointed, AtPointer, ActiveProfile, At
  <2>2. Own' \subseteq {ActiveProfile} /\ op' = [op EXCEPT ![p] = Idle]
    BY <1>1, <1>4, <1>6, <2>1 DEF StartUnit, reconcile, At, End, Own
  <2> QED BY <1>3, <2>2, IdlePointer DEF ActiveProfile
<1> QED BY <1>5, <1>6 DEF reconcile

LEMMA factory_resetPointer ==
    ASSUME AreOps, AreFiles, Pointed, NEW p \in Procs, factory_reset(p),
           "active" \notin spoiled', ~strayed'
    PROVE  Own' \subseteq {ActiveProfile}' /\ PtrSeen(p)'
<1>1. PICK o : o = op[p]
  OBVIOUS
<1>2. o.do = "factory-reset" /\ o.pc # "idle" /\ IsOp(o)
  BY <1>1 DEF factory_reset, At, AreOps, WellFormed
<1>3. "active" \notin spoiled /\ ~strayed
  <2>1. strayed' = strayed \/ strayed' = TRUE
    BY DEF factory_reset, StopUnit
  <2> QED BY <2>1 DEF factory_reset, AreFiles
<1>4. Own \subseteq {ActiveProfile}
  BY <1>3 DEF Pointed
<1>5. CASE At(p, "plan")
  <2>1. UNCHANGED <<running, revived, disk>>
    BY <1>5 DEF factory_reset, At
  <2>2. Puts(p, Rec(o.do, o.arg, "stop", o.file, o.copy, ActiveProfile))
    BY <1>1, <1>5, PutMem DEF factory_reset, At
  <2>3. op'[p] = Rec(o.do, o.arg, "stop", o.file, o.copy, ActiveProfile)
    BY <2>2, Put
  <2>4. op'[p].do = "factory-reset" /\ op'[p].pc = "stop"
    BY <1>2, <2>3, RecFields
  <2> QED BY <1>4, <2>1, <2>4 DEF PtrSeen, AtPointer, ActiveProfile, Own
<1>6. CASE At(p, "stop")
  <2>1. Own' = Own \ {ActiveProfile} /\ disk' = disk
    BY <1>3, <1>6 DEF factory_reset, At, StopUnit, Own
  <2>2. Own' = {}
    BY <1>4, <2>1
  <2>3. PICK s \in {"stash", "wipe"} : Goto(p, s)
    BY <1>6 DEF factory_reset, At
  <2>4. op'[p] = Rec(o.do, o.arg, s, o.file, o.copy, o.mem)
    BY <1>1, <2>3, PutStep, Put DEF Goto
  <2>5. op'[p].do = "factory-reset"
    BY <1>2, <2>4, RecFields
  <2> QED BY <2>2, <2>5 DEF PtrSeen, AtPointer
<1>7. CASE o.pc \in {"stash", "wipe", "restore", "truncate", "pointer", "wizard"}
  <2>1. Own = {}
    BY <1>1, <1>2, <1>3, <1>7 DEF Pointed, AtPointer
  <2>2. UNCHANGED <<running, revived>>
    BY <1>1, <1>7 DEF factory_reset, At
  <2>3. PICK q : /\ Puts(p, q) /\ WellFormed(q)
                 /\ \/ q.pc = "idle"
                    \/ q.do = o.do /\ q.arg = o.arg
    BY <1>1, factory_resetGoes DEF Goes
  <2>4. op'[p] = q
    BY <2>3, Put
  <2>5. CASE q.pc = "idle"
    BY <2>1, <2>2, <2>4, <2>5, OffPointer DEF PtrSeen, Own
  <2>6. CASE q.do = "factory-reset"
    BY <2>1, <2>2, <2>4, <2>6 DEF PtrSeen, AtPointer, Own
  <2> QED BY <1>2, <2>1, <2>2, <2>3, <2>5, <2>6
<1> QED BY <1>1, <1>5, <1>6, <1>7 DEF factory_reset, At

LEMMA check_caps_and_maybe_pausePointer ==
    ASSUME AreOps, AreFiles, Pointed, NEW p \in Procs, check_caps_and_maybe_pause(p),
           "active" \notin spoiled', ~strayed'
    PROVE  Own' \subseteq {ActiveProfile}' /\ PtrSeen(p)'
<1>1. "active" \notin spoiled /\ ~strayed
  <2>1. strayed' = strayed \/ strayed' = TRUE
    BY DEF check_caps_and_maybe_pause, StopUnit
  <2> QED BY <2>1 DEF check_caps_and_maybe_pause, AreFiles
<1>2. Own' \subseteq Own /\ UNCHANGED disk
  BY DEF check_caps_and_maybe_pause, StopUnit, fileVars, Own
<1>3. PICK q : /\ Puts(p, q) /\ WellFormed(q)
               /\ \/ q.pc = "idle"
                  \/ q.do = op[p].do /\ q.arg = op[p].arg
  BY check_caps_and_maybe_pauseGoes DEF Goes
<1>4. op'[p] = q /\ op[p].do = "cost check"
  BY <1>3, Put DEF check_caps_and_maybe_pause
<1>5. PtrSeen(p)'
  <2>1. CASE q.pc = "idle"
    BY <1>4, <2>1, OffPointer DEF PtrSeen
  <2>2. CASE q.do = "cost check"
    BY <1>4, <2>2 DEF PtrSeen, AtPointer
  <2> QED BY <1>3, <1>4, <2>1, <2>2
<1> QED BY <1>1, <1>2, <1>5 DEF Pointed, ActiveProfile

\* A switch writes the pointer beside no other command.
LEMMA AtSwitch ==
    ASSUME AreOps, NEW p \in Procs, "active" \in Touches(op[p].do),
           op[p].pc \in {"read", "create", "fill", "rename"}
    PROVE  op[p].do = "profile switch" /\ op[p].file = "active" /\ op[p].arg \in Profiles
           /\ IsOp(op[p]) /\ op[p].pc # "read"
<1>1. op[p].do = "profile switch" /\ op[p].pc # "read"
  BY DEF AreOps, WellFormed, StepsOf, Touches, FirstFile, Edits, Dos
<1> QED BY <1>1 DEF AreOps, WellFormed, Touches, FirstFile

LEMMA CreatePointer ==
    ASSUME AreOps, AreFiles, Pointed, NEW p \in Procs, Create(p), "active" \in Touches(op[p].do),
           "active" \notin spoiled', ~strayed'
    PROVE  Own' \subseteq {ActiveProfile}' /\ PtrSeen(p)'
<1>1. PICK o : o = op[p]
  OBVIOUS
<1>2. /\ o.do = "profile switch" /\ o.file = "active" /\ o.arg \in Profiles /\ IsOp(o)
      /\ o.pc = "create"
  BY <1>1, AtSwitch DEF Create, At
<1>3. "active" \notin spoiled /\ ~strayed /\ UNCHANGED <<running, revived, disk>>
  BY <1>1, <1>2 DEF Create, unitVars
<1>4. Own = {} /\ o.copy = [id |-> o.arg]
  BY <1>1, <1>2, <1>3 DEF Pointed, AtPointer
<1>5. CASE /\ temp' = [temp EXCEPT !["active"] = Empty] /\ fd' = [fd EXCEPT ![p] = "temp"]
           /\ Goto(p, "fill")
  <2>1. temp'["active"] = Empty /\ fd'[p] = "temp"
    BY <1>5 DEF AreFiles, Files
  <2>2. op'[p] = Rec(o.do, o.arg, "fill", o.file, o.copy, o.mem)
    BY <1>1, <1>5, PutStep, Put DEF Goto
  <2>3. /\ op'[p].do = o.do /\ op'[p].pc = "fill" /\ op'[p].copy = o.copy
        /\ op'[p].arg = o.arg
    BY <2>2, RecFields
  <2> QED BY <1>2, <1>3, <1>4, <2>1, <2>3 DEF PtrSeen, AtPointer, Own
<1>6. CASE op' = [op EXCEPT ![p] = Idle]
  BY <1>3, <1>4, <1>6, IdlePointer DEF Own
<1> QED BY <1>1, <1>2, <1>5, <1>6 DEF Create, End

LEMMA FillPointer ==
    ASSUME AreOps, AreFiles, Pointed, NEW p \in Procs, Fill(p), "active" \in Touches(op[p].do),
           "active" \notin spoiled', ~strayed'
    PROVE  Own' \subseteq {ActiveProfile}' /\ PtrSeen(p)'
<1>1. PICK o : o = op[p]
  OBVIOUS
<1>2. /\ o.do = "profile switch" /\ o.file = "active" /\ o.arg \in Profiles /\ IsOp(o)
      /\ o.pc = "fill"
  BY <1>1, AtSwitch DEF Fill, At
<1>3. "active" \notin spoiled /\ ~strayed /\ UNCHANGED <<running, revived>>
  BY <1>1, <1>2 DEF Fill, unitVars
<1>4. Own = {} /\ o.copy = [id |-> o.arg] /\ temp["active"] = Empty /\ fd[p] = "temp"
  BY <1>1, <1>2, <1>3 DEF Pointed, AtPointer
<1>5. CASE temp' = [temp EXCEPT !["active"] = o.copy] /\ Goto(p, "rename")
  <2>1. temp'["active"] = o.copy
    BY <1>5 DEF AreFiles, Files
  <2>2. op'[p] = Rec(o.do, o.arg, "rename", o.file, o.copy, o.mem)
    BY <1>1, <1>5, PutStep, Put DEF Goto
  <2>3. op'[p].do = o.do /\ op'[p].pc = "rename" /\ op'[p].arg = o.arg
    BY <2>2, RecFields
  <2> QED BY <1>2, <1>3, <1>4, <2>1, <2>3 DEF PtrSeen, AtPointer, Own
<1>6. CASE op' = [op EXCEPT ![p] = Idle]
  BY <1>3, <1>4, <1>6, IdlePointer DEF Own
<1> QED BY <1>1, <1>2, <1>4, <1>5, <1>6 DEF Fill, End, Over

LEMMA RenamePointer ==
    ASSUME AreOps, AreFiles, Pointed, NEW p \in Procs, Rename(p), "active" \in Touches(op[p].do),
           "active" \notin spoiled', ~strayed'
    PROVE  Own' \subseteq {ActiveProfile}' /\ PtrSeen(p)'
<1>1. PICK o : o = op[p]
  OBVIOUS
<1>2. /\ o.do = "profile switch" /\ o.file = "active" /\ o.arg \in Profiles /\ IsOp(o)
      /\ o.pc = "rename"
  BY <1>1, AtSwitch DEF Rename, At
<1>3. "active" \notin spoiled /\ ~strayed /\ UNCHANGED <<running, revived>>
  BY <1>1, <1>2 DEF Rename, unitVars
<1>4. Own = {} /\ temp["active"] = [id |-> o.arg]
  BY <1>1, <1>2, <1>3 DEF Pointed, AtPointer
<1>5. CASE disk' = [disk EXCEPT !["active"] = temp["active"]] /\ Puts(p, AfterRename(o))
  <2>1. disk'["active"] = [id |-> o.arg]
    BY <1>4, <1>5 DEF AreFiles, Files
  <2>2. AfterRename(o) = [o EXCEPT !.pc = "start"]
    BY <1>2 DEF AfterRename
  <2>3. AfterRename(o) = Rec(o.do, o.arg, "start", o.file, o.copy, o.mem)
    BY <1>2, <2>2, SetOne
  <2>4. op'[p] = Rec(o.do, o.arg, "start", o.file, o.copy, o.mem)
    BY <1>5, <2>3, Put
  <2>5. op'[p].do = o.do /\ op'[p].pc = "start" /\ op'[p].arg = o.arg
    BY <2>4, RecFields
  <2> QED BY <1>2, <1>3, <1>4, <2>1, <2>5 DEF PtrSeen, AtPointer, Own
<1>6. CASE op' = [op EXCEPT ![p] = Idle]
  BY <1>3, <1>4, <1>6, IdlePointer DEF Own
<1> QED BY <1>1, <1>2, <1>5, <1>6 DEF Rename, End, Puts

LEMMA KillPointer ==
    ASSUME AreOps, Pointed, NEW p \in Procs, Kill(p), "active" \notin spoiled', ~strayed'
    PROVE  Own' \subseteq {ActiveProfile}' /\ PtrSeen(p)'
<1>1. /\ UNCHANGED <<running, revived, disk, strayed>> /\ op' = [op EXCEPT ![p] = Idle]
      /\ "active" \notin spoiled
  BY DEF Kill, End, unitVars
<1> QED BY <1>1, IdlePointer DEF Pointed, ActiveProfile, Own

\* A step of a command that has begun.
Acts(p) ==
  \/ ReadFile(p) \/ Create(p) \/ Fill(p) \/ Rename(p)
  \/ CopyModel(p) \/ register_gguf(p) \/ apply_ruleset(p) \/ apply_mounts(p)
  \/ profile_switch(p) \/ cmd_lifecycle(p) \/ reconcile(p) \/ factory_reset(p)
  \/ check_caps_and_maybe_pause(p) \/ clear_tripped_marker(p)
  \/ Kill(p)

LEMMA ActsGoes == ASSUME AreOps, NEW p \in Procs, Acts(p) PROVE Goes(p)
BY ReadFileGoes, CreateGoes, FillGoes, RenameGoes, CopyModelGoes, register_ggufGoes,
   apply_rulesetGoes, apply_mountsGoes, profile_switchGoes, cmd_lifecycleGoes, reconcileGoes,
   factory_resetGoes, check_caps_and_maybe_pauseGoes, clear_tripped_markerGoes, KillGoes
   DEF Acts

\* What is spoiled or has strayed stays so.
LEMMA ActsAdd ==
    ASSUME AreFiles, NEW p \in Procs, Acts(p)
    PROVE  spoiled \subseteq spoiled' /\ (strayed => strayed') /\ strayed' \in BOOLEAN
<1> USE DEF AreFiles
<1>1. CASE ReadFile(p)
  BY <1>1 DEF ReadFile
<1>2. CASE Create(p) \/ Fill(p) \/ Rename(p)
  BY <1>2 DEF Create, Fill, Rename
<1>3. CASE CopyModel(p) \/ register_gguf(p) \/ apply_ruleset(p) \/ apply_mounts(p)
  BY <1>3 DEF CopyModel, register_gguf, apply_ruleset, apply_mounts, ghostVars
<1>4. CASE profile_switch(p)
  BY <1>4 DEF profile_switch, StopUnit
<1>5. CASE cmd_lifecycle(p) \/ reconcile(p)
  BY <1>5 DEF cmd_lifecycle, reconcile, StopUnit
<1>6. CASE factory_reset(p)
  BY <1>6 DEF factory_reset, StopUnit
<1>7. CASE check_caps_and_maybe_pause(p)
  BY <1>7 DEF check_caps_and_maybe_pause, StopUnit
<1>8. CASE clear_tripped_marker(p) \/ Kill(p)
  BY <1>8 DEF clear_tripped_marker, Kill
<1> QED BY <1>1, <1>2, <1>3, <1>4, <1>5, <1>6, <1>7, <1>8 DEF Acts

\* A command that does not look at a file leaves it alone.
LEMMA FilesApart ==
    ASSUME AreOps, AreFiles, NEW p \in Procs, Acts(p), NEW f \in Files, f \notin Touches(op[p].do)
    PROVE  /\ disk'[f] = disk[f] /\ temp'[f] = temp[f]
           /\ \A q \in Procs : q # p /\ op[q].file = f => fd'[q] = fd[q]
<1>1. op[p].pc # "idle" /\ op[p].file # f
  BY ActsGoes DEF Goes, AreOps, WellFormed
<1>2. CASE Create(p)
  BY <1>1, <1>2 DEF Create, End, AreFiles
<1>3. CASE Fill(p)
  BY <1>1, <1>3 DEF Fill, End, AreFiles
<1>4. CASE Rename(p)
  BY <1>1, <1>4 DEF Rename, End, Moved, AreFiles
<1>5. CASE factory_reset(p)
  <2>1. f \notin {"secrets", "active"}
    BY <1>5 DEF factory_reset, Touches, FirstFile
  <2>2. CASE op[p].pc = "truncate"
    BY <1>5, <2>1, <2>2 DEF factory_reset, At, truncate_preserving_mode, End, AreFiles
  <2>3. CASE op[p].pc = "pointer"
    BY <1>5, <2>1, <2>3 DEF factory_reset, At, Moved, End, AreFiles
  <2>4. CASE op[p].pc \notin {"truncate", "pointer"}
    BY <1>5, <2>4 DEF factory_reset, At, End, wipe_data_dir, restore_preserved, AreFiles
  <2> QED BY <2>2, <2>3, <2>4
<1>6. CASE ReadFile(p) \/ CopyModel(p) \/ register_gguf(p) \/ apply_ruleset(p) \/ apply_mounts(p)
  BY <1>6 DEF ReadFile, CopyModel, register_gguf, apply_ruleset, apply_mounts, fileVars,
              End, AreFiles
<1>7. CASE profile_switch(p) \/ cmd_lifecycle(p) \/ reconcile(p)
  BY <1>7 DEF profile_switch, cmd_lifecycle, reconcile, End, AreFiles
<1>8. CASE check_caps_and_maybe_pause(p) \/ clear_tripped_marker(p) \/ Kill(p)
  BY <1>8 DEF check_caps_and_maybe_pause, clear_tripped_marker, Kill, fileVars, End,
              AreFiles
<1> QED BY <1>2, <1>3, <1>4, <1>5, <1>6, <1>7, <1>8 DEF Acts

\* The units, the data and the keys change by commands at the pointer only.
LEMMA UnitsApart ==
    ASSUME NEW p \in Procs, Acts(p), "active" \notin Touches(op[p].do)
    PROVE  UNCHANGED <<running, revived, strayed, data, sshKeys, wizardState, cleared>>
<1>1. CASE ReadFile(p) \/ Create(p) \/ Fill(p) \/ Rename(p)
  BY <1>1 DEF ReadFile, Create, Fill, Rename, unitVars
<1>2. CASE CopyModel(p) \/ register_gguf(p) \/ apply_ruleset(p) \/ apply_mounts(p)
  BY <1>2 DEF CopyModel, register_gguf, apply_ruleset, apply_mounts, ghostVars
<1>3. CASE clear_tripped_marker(p) \/ Kill(p)
  BY <1>3 DEF clear_tripped_marker, Kill, unitVars, otherUnitVars
<1>4. op[p].do \notin {"profile switch", "up", "down", "reconcile", "factory-reset", "cost check"}
  BY DEF Touches, FirstFile
<1> QED BY <1>1, <1>2, <1>3, <1>4
        DEF Acts, profile_switch, cmd_lifecycle, reconcile, factory_reset, check_caps_and_maybe_pause

LEMMA PointedKept ==
    ASSUME AreOps, AreFiles, Apart, Pointed, NEW p \in Procs, Acts(p)
    PROVE  Pointed'
<1> SUFFICES ASSUME "active" \notin spoiled', ~strayed'
             PROVE  Own' \subseteq {ActiveProfile}' /\ \A q \in Procs : PtrSeen(q)'
  BY DEF Pointed, PtrSeen
<1>1. "active" \notin spoiled /\ ~strayed
  BY ActsAdd
<1>2. op[p].pc # "idle" /\ \A q \in Procs : q # p => op'[q] = op[q]
  BY ActsGoes, Put DEF Goes
<1>3. PICK o : o = op'[p] /\ (o.pc = "idle" \/ o.do = op[p].do)
  BY ActsGoes, Put DEF Goes
<1>4. CASE "active" \in Touches(op[p].do)
  <2>1. ASSUME NEW q \in Procs, q # p PROVE PtrSeen(q)'
    <3>1. op[q].pc = "idle" \/ "active" \notin Touches(op[q].do)
      BY <1>1, <1>2, <1>4, <2>1 DEF Apart
    <3> QED BY <1>2, <2>1, <3>1, OffPointer DEF PtrSeen
  <2>2. Own' \subseteq {ActiveProfile}' /\ PtrSeen(p)'
    <3>1. ~(ReadFile(p) \/ CopyModel(p) \/ register_gguf(p) \/ apply_ruleset(p) \/ apply_mounts(p)
            \/ clear_tripped_marker(p))
      BY <1>4 DEF ReadFile, CopyModel, register_gguf, apply_ruleset, apply_mounts,
           clear_tripped_marker, At, AreOps, WellFormed, StepsOf, Touches, FirstFile, Edits, Dos
    <3> QED BY <1>4, <3>1, CreatePointer, FillPointer, RenamePointer, KillPointer,
               profile_switchPointer, cmd_lifecyclePointer, reconcilePointer, factory_resetPointer,
               check_caps_and_maybe_pausePointer DEF Acts
  <2> QED BY <2>1, <2>2
<1>5. CASE "active" \notin Touches(op[p].do)
  <2>1. /\ UNCHANGED <<running, revived>> /\ disk'["active"] = disk["active"] /\ temp'["active"] = temp["active"]
        /\ \A q \in Procs : q # p /\ op[q].file = "active" => fd'[q] = fd[q]
    BY <1>5, UnitsApart, FilesApart DEF Files
  <2>2. Own' \subseteq {ActiveProfile}'
    BY <1>1, <2>1 DEF Pointed, ActiveProfile, Own
  <2>3. PtrSeen(p)'
    BY <1>3, <1>5, OffPointer DEF PtrSeen
  <2>4. ASSUME NEW q \in Procs, q # p PROVE PtrSeen(q)'
    <3>1. CASE op[q].pc = "idle" \/ "active" \notin Touches(op[q].do)
      BY <1>2, <2>4, <3>1, OffPointer DEF PtrSeen
    <3>2. CASE op[q].pc # "idle" /\ "active" \in Touches(op[q].do)
      <4>1. PtrSeen(q)
        BY <1>1 DEF Pointed, PtrSeen
      <4>2. op[q].do = "profile switch" => op[q].file = "active"
        BY <3>2 DEF AreOps, WellFormed, Touches, FirstFile
      <4>3. op[q].do = "profile switch" => fd'[q] = fd[q]
        BY <2>1, <2>4, <4>2
      <4> QED BY <1>2, <2>1, <2>4, <4>1, <4>3 DEF PtrSeen, AtPointer, Own
    <3> QED BY <3>1, <3>2
  <2> QED BY <2>2, <2>3, <2>4
<1> QED BY <1>4, <1>5

-----------------------------------------------------------------------------
(* The marker *)

LEMMA CostChecks ==
    ASSUME AreOps, NEW p \in Procs, Acts(p), op[p].do = "cost check"
    PROVE  check_caps_and_maybe_pause(p) \/ Kill(p)
<1>1. op[p].pc # "idle" /\ op[p].pc \in {"evaluate", "hooks", "stuck", "marker", "load", "pause"}
  BY ActsGoes DEF Goes, AreOps, WellFormed, StepsOf, Edits
<1> QED BY <1>1 DEF Acts, ReadFile, Create, Fill, Rename, CopyModel, register_gguf,
                    apply_ruleset,
      apply_mounts, profile_switch, cmd_lifecycle, reconcile, factory_reset, clear_tripped_marker, At

LEMMA MarkerKept ==
    ASSUME NEW p \in Procs, Acts(p), ~check_caps_and_maybe_pause(p), ~clear_tripped_marker(p)
    PROVE  marker' = marker /\ paused' \subseteq paused
<1>1. CASE ReadFile(p) \/ Create(p) \/ Fill(p) \/ Rename(p)
  BY <1>1 DEF ReadFile, Create, Fill, Rename, unitVars
<1>2. CASE CopyModel(p) \/ register_gguf(p) \/ apply_ruleset(p) \/ apply_mounts(p)
  BY <1>2 DEF CopyModel, register_gguf, apply_ruleset, apply_mounts, ghostVars
<1>3. CASE profile_switch(p) \/ cmd_lifecycle(p) \/ reconcile(p)
  BY <1>3 DEF profile_switch, cmd_lifecycle, reconcile, StartUnit
<1>4. CASE factory_reset(p) \/ Kill(p)
  BY <1>4 DEF factory_reset, Kill, unitVars
<1> QED BY <1>1, <1>2, <1>3, <1>4 DEF Acts

LEMMA CheckMarks ==
    ASSUME AreOps, Marked, NEW p \in Procs, check_caps_and_maybe_pause(p)
    PROVE  /\ op'[p].pc \in {"load", "pause"} => marker' \/ "marker" \in spoiled
           /\ paused' # paused => marker' \/ "marker" \in spoiled
           /\ marker => marker'
<1>1. PICK o : o = op[p]
  OBVIOUS
<1>2. /\ o.do = "cost check" /\ o.pc # "idle" /\ IsOp(o)
  BY <1>1 DEF check_caps_and_maybe_pause, At, AreOps, WellFormed
<1>3. ASSUME op' = [op EXCEPT ![p] = Idle] PROVE op'[p].pc = "idle"
  BY <1>3, Put, IdleIs DEF Puts
<1>4. CASE At(p, "evaluate")
  <2>1. PICK c : c = load_config_from(disk["cost"])
    OBVIOUS
  <2>2. \/ op' = [op EXCEPT ![p] = Idle]
        \/ op' = [op EXCEPT ![p] = [o EXCEPT !.pc = "hooks", !.copy = c]]
    BY <1>1, <1>4, <2>1 DEF check_caps_and_maybe_pause, At
  <2>3. [o EXCEPT !.pc = "hooks", !.copy = c] = Rec(o.do, o.arg, "hooks", o.file, c, o.mem)
    BY <1>2, SetPcCopy
  <2>4. op'[p].pc \in {"idle", "hooks"}
    <3>1. CASE Puts(p, Rec(o.do, o.arg, "hooks", o.file, c, o.mem))
      <4>1. op'[p] = Rec(o.do, o.arg, "hooks", o.file, c, o.mem)
        BY <3>1, Put
      <4> QED BY <4>1, RecFields
    <3> QED BY <1>3, <2>2, <2>3, <3>1 DEF Puts
  <2>5. UNCHANGED <<marker, paused>>
    BY <1>1, <1>4 DEF check_caps_and_maybe_pause, At
  <2> QED BY <2>4, <2>5
<1>5. CASE At(p, "hooks")
  <2>1. \/ op' = [op EXCEPT ![p] = Idle]
        \/ op' = [op EXCEPT ![p] = [o EXCEPT !.pc = "marker"]]
        \/ op' = [op EXCEPT ![p].pc = "stuck"]
    BY <1>1, <1>5 DEF check_caps_and_maybe_pause, At, Goto
  <2>2. [o EXCEPT !.pc = "marker"] = Rec(o.do, o.arg, "marker", o.file, o.copy, o.mem)
    BY <1>2, SetOne
  <2>3. ASSUME NEW s, Puts(p, Rec(o.do, o.arg, s, o.file, o.copy, o.mem)) PROVE op'[p].pc = s
    <3>1. op'[p] = Rec(o.do, o.arg, s, o.file, o.copy, o.mem)
      BY <2>3, Put
    <3> QED BY <3>1, RecFields
  <2>4. op' = [op EXCEPT ![p].pc = "stuck"] => op'[p].pc = "stuck"
    BY <1>1, <2>3, PutStep
  <2>5. op'[p].pc \in {"idle", "marker", "stuck"}
    <3>1. CASE op' = [op EXCEPT ![p] = [o EXCEPT !.pc = "marker"]]
      BY <2>2, <2>3, <3>1 DEF Puts
    <3> QED BY <1>3, <2>1, <2>4, <3>1
  <2>6. UNCHANGED <<marker, paused>>
    BY <1>1, <1>5 DEF check_caps_and_maybe_pause, At
  <2> QED BY <2>5, <2>6
<1>6. CASE At(p, "marker")
  <2>1. UNCHANGED paused /\ (marker' = TRUE \/ (UNCHANGED marker /\ op' = [op EXCEPT ![p] = Idle]))
    BY <1>1, <1>6 DEF check_caps_and_maybe_pause, At, write_tripped_marker
  <2> QED BY <1>3, <2>1
<1>7. CASE At(p, "load") \/ At(p, "pause")
  <2>1. UNCHANGED marker
    BY <1>1, <1>7 DEF check_caps_and_maybe_pause, At
  <2>2. marker \/ "marker" \in spoiled
    BY <1>1, <1>2, <1>7 DEF Marked, At
  <2> QED BY <2>1, <2>2
<1> QED BY <1>4, <1>5, <1>6, <1>7 DEF check_caps_and_maybe_pause

LEMMA MarkedKept ==
    ASSUME AreOps, AreFiles, Apart, Marked, PauseIsMarked, NEW p \in Procs, Acts(p)
    PROVE  Marked' /\ PauseIsMarked'
<1>1. spoiled \subseteq spoiled'
  BY ActsAdd
<1>2. op[p].pc # "idle" /\ \A q \in Procs : q # p => op'[q] = op[q]
  BY ActsGoes, Put DEF Goes
<1>3. op'[p].pc = "idle" \/ op'[p].do = op[p].do
  BY ActsGoes, Put DEF Goes
<1>4. CASE check_caps_and_maybe_pause(p)
  BY <1>1, <1>2, <1>4, CheckMarks DEF Marked, PauseIsMarked
<1>5. CASE clear_tripped_marker(p)
  <2>1. /\ op[p].do = "cost reset" /\ op'[p].do # "cost check"
    BY <1>5, Put, IdleIs DEF clear_tripped_marker, Puts
  <2>2. \/ UNCHANGED <<marker, paused>>
        \/ marker' = FALSE /\ paused' = {}
    BY <1>5 DEF clear_tripped_marker
  <2>3. \A q \in Procs : op[q].do = "cost check" /\ op[q].pc # "idle" => "marker" \in spoiled
    BY <1>2, <2>1 DEF Apart, Touches, FirstFile
  <2> QED BY <1>1, <1>2, <2>1, <2>2, <2>3 DEF Marked, PauseIsMarked
<1>6. CASE ~check_caps_and_maybe_pause(p) /\ ~clear_tripped_marker(p)
  <2>1. marker' = marker /\ paused' \subseteq paused
    BY <1>6, MarkerKept
  <2>2. op'[p].do # "cost check" \/ op'[p].pc = "idle"
    <3>1. CASE op[p].do = "cost check"
      BY <1>6, <3>1, CostChecks, Put, IdleIs DEF Kill, End, Puts
    <3>2. CASE op[p].do # "cost check"
      BY <1>3, <3>2
    <3> QED BY <3>1, <3>2
  <2> QED BY <1>1, <1>2, <2>1, <2>2 DEF Marked, PauseIsMarked
<1> QED BY <1>4, <1>5, <1>6

LEMMA FilesKept ==
    ASSUME AreFiles, NEW p \in Procs, Acts(p)
    PROVE  AreFiles'
<1>0. strayed' \in BOOLEAN
  BY ActsAdd
<1>1. CASE ReadFile(p) \/ CopyModel(p)
  BY <1>0, <1>1 DEF ReadFile, CopyModel, fileVars, AreFiles
<1>2. CASE Create(p)
  BY <1>0, <1>2 DEF Create, End, AreFiles
<1>3. CASE Fill(p)
  BY <1>0, <1>3 DEF Fill, End, AreFiles
<1>4. CASE Rename(p)
  BY <1>0, <1>4 DEF Rename, End, Moved, AreFiles
<1>5. CASE register_gguf(p) \/ apply_ruleset(p) \/ apply_mounts(p)
  BY <1>0, <1>5 DEF register_gguf, apply_ruleset, apply_mounts, End, AreFiles
<1>6. CASE profile_switch(p) \/ cmd_lifecycle(p) \/ reconcile(p)
  BY <1>0, <1>6 DEF profile_switch, cmd_lifecycle, reconcile, End, AreFiles
<1>7. CASE factory_reset(p)
  <2>1. /\ temp' = temp
        /\ disk' = disk \/ truncate_preserving_mode("secrets")
             \/ disk' = [disk EXCEPT !["active"] = Missing]
        /\ fd' = fd \/ fd' = [fd EXCEPT ![p] = "none"] \/ fd' = Moved("active", "removed")
    BY <1>7 DEF factory_reset, wipe_data_dir, restore_preserved, End
  <2> QED BY <1>0, <2>1 DEF truncate_preserving_mode, Moved, AreFiles
<1>8. CASE check_caps_and_maybe_pause(p) \/ clear_tripped_marker(p) \/ Kill(p)
  BY <1>0, <1>8 DEF check_caps_and_maybe_pause, clear_tripped_marker, Kill, End, fileVars,
                    AreFiles
<1> QED BY <1>1, <1>2, <1>3, <1>4, <1>5, <1>6, <1>7, <1>8 DEF Acts

-----------------------------------------------------------------------------
(* A factory reset *)

\* What the other commands leave of it.
LEMMA ResetFrame ==
    ASSUME Cleared, NEW p \in Procs, Acts(p), ~factory_reset(p)
    PROVE  /\ UNCHANGED <<data, sshKeys, wizardState, cleared>>
           /\ (unsaved => unsaved') /\ unsaved' \in BOOLEAN
           /\ Kill(p) /\ op[p].pc = "restore"
              => unsaved'
<1>0. unsaved \in BOOLEAN
  BY DEF Cleared
<1>1. CASE ReadFile(p) \/ Create(p) \/ Fill(p) \/ Rename(p)
  <2>1. UNCHANGED <<data, sshKeys, wizardState, cleared, unsaved>>
    BY <1>1 DEF ReadFile, Create, Fill, Rename, unitVars
  <2>2. op[p].pc # "restore"
    BY <1>1 DEF ReadFile, Create, Fill, Rename, At
  <2> QED BY <1>0, <2>1, <2>2
<1>2. CASE CopyModel(p) \/ register_gguf(p) \/ apply_ruleset(p) \/ apply_mounts(p)
  <2>1. UNCHANGED <<data, sshKeys, wizardState, cleared, unsaved>>
    BY <1>2 DEF CopyModel, register_gguf, apply_ruleset, apply_mounts, ghostVars
  <2>2. op[p].pc # "restore"
    BY <1>2 DEF CopyModel, register_gguf, apply_ruleset, apply_mounts, At
  <2> QED BY <1>0, <2>1, <2>2
<1>3. CASE profile_switch(p) \/ cmd_lifecycle(p) \/ reconcile(p) \/ check_caps_and_maybe_pause(p)
           \/ clear_tripped_marker(p)
  <2>1. UNCHANGED <<data, sshKeys, wizardState, cleared, unsaved>>
    BY <1>3 DEF profile_switch, cmd_lifecycle, reconcile, check_caps_and_maybe_pause,
         clear_tripped_marker, otherUnitVars
  <2>2. op[p].pc # "restore"
    BY <1>3 DEF profile_switch, cmd_lifecycle, reconcile, check_caps_and_maybe_pause,
         clear_tripped_marker, At
  <2> QED BY <1>0, <2>1, <2>2
<1>4. CASE Kill(p)
  <2>1. UNCHANGED <<data, sshKeys, wizardState, cleared>>
    BY <1>4 DEF Kill, unitVars
  <2>2. unsaved' = (unsaved \/ op[p].pc = "restore")
    BY <1>4 DEF Kill
  <2> QED BY <1>0, <2>1, <2>2, Zenon
<1> QED BY <1>1, <1>2, <1>3, <1>4 DEF Acts

LEMMA StopSteps ==
    ASSUME NEW p \in Procs, factory_reset(p), op[p].pc \in {"plan", "stop", "stash"}
    PROVE  /\ UNCHANGED <<data, sshKeys, wizardState, cleared, unsaved, disk>>
           /\ op[p].pc = "plan" => op' = [op EXCEPT ![p].pc = "stop", ![p].mem = ActiveProfile]
           /\ op[p].pc = "stop" => op' = [op EXCEPT ![p].pc = IF op[p].mem = None THEN "stash" ELSE "wipe"]
           /\ op[p].pc = "stash" => op' = [op EXCEPT ![p].pc = "wipe", ![p].copy = sshKeys]
BY DEF factory_reset, At, Goto

LEMMA WipeSteps ==
    ASSUME NEW p \in Procs, factory_reset(p), op[p].pc = "wipe"
    PROVE  /\ UNCHANGED <<wizardState, cleared, disk>> /\ data' \subseteq data
           /\ \/ /\ data' = data \ Doomed(op[p]) /\ UNCHANGED unsaved
                 /\ op' = [op EXCEPT ![p].pc = IF op[p].mem = None THEN "restore" ELSE "truncate"]
                 /\ sshKeys' = (sshKeys /\ ~(op[p].mem = None))
              \/ /\ op' = [op EXCEPT ![p] = Idle]
                 /\ unsaved' = (unsaved \/ sshKeys' # sshKeys)
                 /\ sshKeys' = sshKeys \/ sshKeys' = (sshKeys /\ ~(op[p].mem = None))
<1>1. wipe_data_dir(p) /\ UNCHANGED <<wizardState, cleared, disk>>
  BY DEF factory_reset, At
<1> QED BY <1>1 DEF wipe_data_dir, Doomed, Goto, End

LEMMA RestoreSteps ==
    ASSUME NEW p \in Procs, factory_reset(p), op[p].pc = "restore"
    PROVE  /\ UNCHANGED <<data, wizardState, cleared, disk>>
           /\ \/ /\ sshKeys' = (sshKeys \/ op[p].copy) /\ UNCHANGED unsaved
                 /\ op' = [op EXCEPT ![p].pc = "truncate"]
              \/ /\ unsaved' = TRUE /\ UNCHANGED sshKeys /\ op' = [op EXCEPT ![p] = Idle]
BY DEF factory_reset, At, restore_preserved, Goto, End

LEMMA ClearSteps ==
    ASSUME NEW p \in Procs, factory_reset(p), op[p].pc \in {"truncate", "pointer"}
    PROVE  /\ UNCHANGED <<data, sshKeys, wizardState, cleared, unsaved>>
           /\ \/ op' = [op EXCEPT ![p] = Idle]
              \/ /\ op[p].pc = "truncate" /\ op' = [op EXCEPT ![p].pc = "pointer"]
                 /\ disk' = [disk EXCEPT !["secrets"] = IF @ = Missing THEN Missing ELSE Empty]
              \/ /\ op[p].pc = "pointer" /\ op' = [op EXCEPT ![p].pc = "wizard"]
                 /\ disk' = [disk EXCEPT !["active"] = Missing]
BY DEF factory_reset, At, truncate_preserving_mode, Goto, End

LEMMA WizardStep ==
    ASSUME NEW p \in Procs, factory_reset(p), op[p].pc = "wizard"
    PROVE  /\ UNCHANGED <<data, sshKeys, unsaved, disk, running, revived, strayed>>
           /\ op' = [op EXCEPT ![p] = Idle]
           /\ \/ /\ wizardState' = FALSE
                 /\ \/ cleared' = None
                    \/ cleared' = Doomed(op[p]) /\ \A q \in Procs \ {p} : op[q].pc = "idle"
              \/ UNCHANGED <<wizardState, cleared>>
BY DEF factory_reset, At, Doomed, End

LEMMA Resets ==
    ASSUME AreOps, NEW p \in Procs, Acts(p), op[p].do = "factory-reset"
    PROVE  factory_reset(p) \/ Kill(p)
<1>1. op[p].pc \in {"plan", "stop", "stash", "wipe", "restore", "truncate", "pointer", "wizard"}
  BY ActsGoes DEF Goes, AreOps, WellFormed, StepsOf, Edits
<1> QED BY <1>1 DEF Acts, ReadFile, Create, Fill, Rename, CopyModel, register_gguf,
                    apply_ruleset,
      apply_mounts, profile_switch, cmd_lifecycle, reconcile, check_caps_and_maybe_pause,
      clear_tripped_marker, At

LEMMA ResetSteps ==
    ASSUME AreOps, NEW p \in Procs, factory_reset(p)
    PROVE  /\ op[p].do = "factory-reset" /\ spoiled' = spoiled
           /\ \/ op[p].pc \in {"plan", "stop", "stash"} \/ op[p].pc = "wipe" \/ op[p].pc = "restore"
              \/ op[p].pc \in {"truncate", "pointer"} \/ op[p].pc = "wizard"
BY DEF factory_reset, At

LEMMA KeysTyped ==
    ASSUME AreOps, Cleared, NEW p \in Procs, Acts(p)
    PROVE  /\ data' \subseteq data /\ sshKeys' \in BOOLEAN /\ unsaved' \in BOOLEAN
           /\ unsaved => unsaved'
<1>0. sshKeys \in BOOLEAN /\ unsaved \in BOOLEAN
  BY DEF Cleared
<1>1. CASE ~factory_reset(p)
  BY <1>0, <1>1, ResetFrame
<1>2. CASE factory_reset(p)
  <2>1. CASE op[p].pc \in {"plan", "stop", "stash"}
    BY <1>0, <1>2, <2>1, StopSteps
  <2>2. CASE op[p].pc = "wipe"
    BY <1>0, <1>2, <2>2, WipeSteps, Zenon
  <2>3. CASE op[p].pc = "restore"
    BY <1>0, <1>2, <2>3, RestoreSteps, Zenon
  <2>4. CASE op[p].pc \in {"truncate", "pointer"}
    BY <1>0, <1>2, <2>4, ClearSteps
  <2>5. CASE op[p].pc = "wizard"
    BY <1>0, <1>2, <2>5, WizardStep
  <2> QED BY <1>2, <2>1, <2>2, <2>3, <2>4, <2>5, ResetSteps
<1> QED BY <1>1, <1>2

LEMMA ResetOthers ==
    ASSUME AreOps, AreFiles, Apart, Cleared, NEW p \in Procs, Acts(p), NEW q \in Procs, q # p
    PROVE  Resetting(q)'
<1> SUFFICES ASSUME op'[q].do = "factory-reset", op'[q].pc # "idle" PROVE Resetting(q)'
  BY DEF Resetting
<1>1. op[p].pc # "idle" /\ op'[q] = op[q] /\ op[q].pc # "idle" /\ op[q].do = "factory-reset"
  BY ActsGoes, Put DEF Goes
<1>2. Resetting(q) /\ data' \subseteq data /\ (unsaved => unsaved') /\ spoiled \subseteq spoiled'
  BY KeysTyped, ActsAdd DEF Cleared
<1>3. {"secrets", "active"} \subseteq Touches(op[q].do)
  BY <1>1 DEF Touches, FirstFile
<1>4. \A f \in {"secrets", "active"} : f \notin spoiled' => f \notin Touches(op[p].do)
  BY <1>1, <1>2, <1>3 DEF Apart
<1>5. "secrets" \notin spoiled' => disk'["secrets"] = disk["secrets"]
  BY <1>4, FilesApart DEF Files
<1>6. "active" \notin spoiled' => disk'["active"] = disk["active"] /\ sshKeys' = sshKeys
  BY <1>4, FilesApart, UnitsApart DEF Files
<1> QED BY <1>1, <1>2, <1>5, <1>6 DEF Resetting, Doomed

\* The step of a process whose next record is known.
LEMMA NextStep ==
    ASSUME AreOps, NEW p \in Procs, NEW s, op' = [op EXCEPT ![p].pc = s]
    PROVE  /\ op'[p].do = op[p].do /\ op'[p].pc = s /\ op'[p].mem = op[p].mem
           /\ op'[p].copy = op[p].copy
<1>1. op'[p] = Rec(op[p].do, op[p].arg, s, op[p].file, op[p].copy, op[p].mem)
  BY PutStep, Put
<1> QED BY <1>1, RecFields

LEMMA ResetMine ==
    ASSUME AreOps, AreFiles, Apart, Cleared, ResetKeepsItsWord, NEW p \in Procs, factory_reset(p)
    PROVE  Resetting(p)'
<1>0. /\ Resetting(p) /\ op[p].do = "factory-reset" /\ sshKeys \in BOOLEAN /\ unsaved \in BOOLEAN
      /\ spoiled' = spoiled
  BY ResetSteps DEF Cleared
<1>1. ASSUME op' = [op EXCEPT ![p] = Idle] PROVE Resetting(p)'
  <2>1. op'[p].pc = "idle"
    BY <1>1, Put, IdleIs DEF Puts
  <2> QED BY <2>1 DEF Resetting
<1>2. CASE op[p].pc = "plan"
  <2>1. op'[p] = Rec(op[p].do, op[p].arg, "stop", op[p].file, op[p].copy, ActiveProfile)
    BY <1>2, StopSteps, PutMem, Put
  <2>2. op'[p].pc = "stop"
    BY <2>1, RecFields
  <2> QED BY <2>2 DEF Resetting
<1>3. CASE op[p].pc = "stop"
  <2>1. PICK s : s = IF op[p].mem = None THEN "stash" ELSE "wipe"
    OBVIOUS
  <2>2. op' = [op EXCEPT ![p].pc = s]
    BY <1>3, <2>1, StopSteps
  <2>3. op'[p].pc = s /\ op'[p].mem = op[p].mem /\ op'[p].copy = op[p].copy
    BY <2>2, NextStep
  <2> QED BY <2>1, <2>3 DEF Resetting
<1>4. CASE op[p].pc = "stash"
  <2>1. op'[p] = Rec(op[p].do, op[p].arg, "wipe", op[p].file, sshKeys, op[p].mem)
    BY <1>4, StopSteps, PutCopy, Put
  <2>2. op'[p].pc = "wipe" /\ op'[p].copy = sshKeys
    BY <2>1, RecFields
  <2>3. sshKeys' = sshKeys
    BY <1>4, StopSteps
  <2> QED BY <2>2, <2>3 DEF Resetting
<1>5. CASE op[p].pc = "wipe"
  <2>1. ASSUME data' = data \ Doomed(op[p]), UNCHANGED unsaved,
               op' = [op EXCEPT ![p].pc = IF op[p].mem = None THEN "restore" ELSE "truncate"]
        PROVE  Resetting(p)'
    <3>1. PICK s : s = IF op[p].mem = None THEN "restore" ELSE "truncate"
      OBVIOUS
    <3>0. op' = [op EXCEPT ![p].pc = s]
      BY <2>1, <3>1
    <3>2. op'[p].pc = s /\ op'[p].mem = op[p].mem /\ op'[p].copy = op[p].copy
      BY <3>0, NextStep
    <3>3. data' \cap Doomed(op[p])' = {}
      BY <2>1, <3>2 DEF Doomed
    <3>4. s = "restore" /\ "active" \notin spoiled => op[p].copy = TRUE \/ unsaved
      <4>1. s = "restore" /\ "active" \notin spoiled => op[p].copy = sshKeys
        BY <1>0, <1>5, <3>1 DEF Resetting
      <4>2. "active" \notin spoiled => \A q \in Procs : op[q].pc # "restore"
        <5>1. \A q \in Procs : op[q].pc = "restore" => op[q].do = "factory-reset"
          BY DEF AreOps, WellFormed, StepsOf, EditSteps, Edits, Dos
        <5> QED BY <1>0, <1>5, <5>1 DEF Apart, Touches, FirstFile
      <4>3. "active" \notin spoiled => sshKeys \/ unsaved
        BY <4>2 DEF ResetKeepsItsWord
      <4> QED BY <1>0, <4>1, <4>3
    <3> QED BY <1>0, <2>1, <3>1, <3>2, <3>3, <3>4 DEF Resetting, Doomed
  <2> QED BY <1>1, <1>5, <2>1, WipeSteps
<1>6. CASE op[p].pc = "restore"
  <2>1. ASSUME op' = [op EXCEPT ![p].pc = "truncate"], UNCHANGED data PROVE Resetting(p)'
    <3>1. op'[p].pc = "truncate" /\ op'[p].mem = op[p].mem
      BY <2>1, NextStep
    <3> QED BY <1>0, <1>6, <2>1, <3>1 DEF Resetting, Doomed
  <2> QED BY <1>1, <1>6, <2>1, RestoreSteps
<1>7. CASE op[p].pc \in {"truncate", "pointer"}
  <2>0. UNCHANGED data
    BY <1>7, ClearSteps
  <2>1. ASSUME op[p].pc = "truncate", op' = [op EXCEPT ![p].pc = "pointer"],
               disk' = [disk EXCEPT !["secrets"] = IF @ = Missing THEN Missing ELSE Empty]
        PROVE  Resetting(p)'
    <3>1. op'[p].pc = "pointer" /\ op'[p].mem = op[p].mem
      BY <2>1, NextStep
    <3>2. disk'["secrets"] \in {Missing, Empty}
      BY <2>1 DEF AreFiles, Files
    <3> QED BY <1>0, <2>0, <2>1, <3>1, <3>2 DEF Resetting, Doomed
  <2>2. ASSUME op[p].pc = "pointer", op' = [op EXCEPT ![p].pc = "wizard"],
               disk' = [disk EXCEPT !["active"] = Missing]
        PROVE  Resetting(p)'
    <3>1. op'[p].pc = "wizard" /\ op'[p].mem = op[p].mem
      BY <2>2, NextStep
    <3>2. disk'["active"] = Missing /\ disk'["secrets"] = disk["secrets"]
      BY <2>2 DEF AreFiles, Files
    <3> QED BY <1>0, <2>0, <2>2, <3>1, <3>2 DEF Resetting, Doomed
  <2> QED BY <1>1, <1>7, <2>1, <2>2, ClearSteps
<1>8. CASE op[p].pc = "wizard"
  BY <1>1, <1>8, WizardStep
<1> QED BY <1>2, <1>3, <1>4, <1>5, <1>6, <1>7, <1>8, ResetSteps

LEMMA ClearedKept ==
    ASSUME AreOps, AreFiles, Apart, Cleared, ResetKeepsItsWord, NEW p \in Procs, Acts(p)
    PROVE  Cleared'
<1>1. ASSUME NEW q \in Procs PROVE Resetting(q)'
  <2>1. CASE q # p
    BY <2>1, ResetOthers
  <2>2. CASE q = p /\ factory_reset(p)
    BY <2>2, ResetMine
  <2>3. CASE q = p /\ ~factory_reset(p)
    <3>1. op'[p].pc = "idle" \/ (op'[p].do = op[p].do /\ op[p].do # "factory-reset")
      <4>1. CASE op[p].do = "factory-reset"
        BY <2>3, <4>1, Resets, Put, IdleIs DEF Kill, End, Puts
      <4>2. CASE op[p].do # "factory-reset"
        BY <4>2, ActsGoes, Put DEF Goes
      <4> QED BY <4>1, <4>2
    <3> QED BY <2>3, <3>1 DEF Resetting
  <2> QED BY <2>1, <2>2, <2>3
<1>2. op[p].pc # "idle" /\ cleared = None /\ \A q \in Procs : q # p => op'[q] = op[q]
  BY ActsGoes, Put DEF Goes, Cleared
<1>3. cleared' # None => \A q \in Procs : op'[q].pc = "idle"
  <2>1. CASE factory_reset(p) /\ op[p].pc = "wizard"
    <3>1. op'[p].pc = "idle"
      BY <2>1, WizardStep, Put, IdleIs DEF Puts
    <3> QED BY <1>2, <2>1, <3>1, WizardStep
  <2>2. CASE ~(factory_reset(p) /\ op[p].pc = "wizard")
    BY <1>2, <2>2, ResetFrame, ResetSteps, StopSteps, WipeSteps, RestoreSteps, ClearSteps
  <2> QED BY <2>1, <2>2
<1> QED BY <1>1, <1>3, KeysTyped, ActsAdd DEF Cleared

LEMMA WordKept ==
    ASSUME AreOps, AreFiles, Apart, Pointed, Cleared, ResetKeepsItsWord, NEW p \in Procs, Acts(p)
    PROVE  ResetKeepsItsWord'
<1>1. op[p].pc # "idle" /\ cleared = None /\ \A q \in Procs : q # p => op'[q] = op[q]
  BY ActsGoes, Put DEF Goes, Cleared
<1>2. sshKeys \in BOOLEAN /\ unsaved \in BOOLEAN /\ (unsaved => unsaved') /\ spoiled \subseteq spoiled'
  BY KeysTyped, ActsAdd DEF Cleared
<1>3. sshKeys' \/ unsaved' \/ "active" \in spoiled' \/ \E q \in Procs : op'[q].pc = "restore"
  <2>0. sshKeys \/ unsaved \/ "active" \in spoiled \/ \E q \in Procs : op[q].pc = "restore"
    BY DEF ResetKeepsItsWord
  <2>1. CASE \E q \in Procs \ {p} : op[q].pc = "restore"
    BY <1>1, <2>1
  <2>2. CASE ~factory_reset(p)
    <3>1. sshKeys' = sshKeys /\ (op[p].pc = "restore" => Kill(p))
      <4>1. op[p].pc = "restore" => Kill(p)
        BY <2>2, Resets DEF AreOps, WellFormed, StepsOf, Edits, Dos, EditSteps
      <4> QED BY <2>2, <4>1, ResetFrame
    <3>2. op[p].pc = "restore" => unsaved'
      BY <2>2, <3>1, ResetFrame
    <3> QED BY <1>2, <2>0, <2>1, <3>1, <3>2
  <2>3. CASE factory_reset(p) /\ op[p].pc = "wipe"
    <3>1. CASE op' = [op EXCEPT ![p].pc = IF op[p].mem = None THEN "restore" ELSE "truncate"]
      <4>1. op[p].mem = None => op'[p].pc = "restore"
        <5>1. PICK s : s = IF op[p].mem = None THEN "restore" ELSE "truncate"
          OBVIOUS
        <5> QED BY <3>1, <5>1, NextStep
      <4>2. op[p].mem # None => (sshKeys => sshKeys')
        BY <1>2, <2>3, WipeSteps, Zenon
      <4> QED BY <1>2, <2>0, <2>1, <2>3, <4>1, <4>2
    <3>2. CASE unsaved' = (unsaved \/ sshKeys' # sshKeys)
      <4>1. sshKeys' = sshKeys \/ unsaved'
        BY <3>2
      <4> QED BY <1>2, <2>0, <2>1, <2>3, <4>1
    <3> QED BY <2>3, <3>1, <3>2, WipeSteps
  <2>4. CASE factory_reset(p) /\ op[p].pc = "restore"
    <3>1. op[p].copy = TRUE \/ unsaved \/ "active" \in spoiled
      BY <2>4, ResetSteps DEF Cleared, Resetting
    <3> QED BY <1>2, <2>4, <3>1, RestoreSteps
  <2>5. CASE factory_reset(p) /\ op[p].pc \notin {"wipe", "restore"}
    <3>1. sshKeys' = sshKeys
      BY <2>5, ResetSteps, StopSteps, ClearSteps, WizardStep
    <3> QED BY <1>2, <2>0, <2>1, <2>5, <3>1
  <2> QED BY <2>2, <2>3, <2>4, <2>5
<1>4. ASSUME cleared' # None, spoiled' \cap {"active", "secrets"} = {}
      PROVE  /\ ~wizardState' /\ ActiveProfile' = None /\ data' \cap cleared' = {}
             /\ existing_secrets(disk'["secrets"]) = NoKeys
             /\ strayed' \/ running' \subseteq revived'
  <2>1. factory_reset(p) /\ op[p].pc = "wizard"
    BY <1>1, <1>4, ResetFrame, ResetSteps, StopSteps, WipeSteps, RestoreSteps, ClearSteps
  <2>2. /\ wizardState' = FALSE /\ cleared' = Doomed(op[p])
        /\ UNCHANGED <<data, disk, running, revived, strayed, spoiled>>
    BY <1>1, <1>4, <2>1, WizardStep, ResetSteps
  <2>3. /\ data \cap Doomed(op[p]) = {} /\ disk["secrets"] \in {Missing, Empty}
        /\ disk["active"] = Missing
    BY <1>4, <2>1, <2>2, ResetSteps DEF Cleared, Resetting
  <2>4. strayed \/ running \subseteq revived
    <3>1. strayed \/ Own = {}
      BY <1>4, <2>1, <2>2, ResetSteps DEF Pointed, AtPointer
    <3> QED BY <3>1 DEF Own
  <2>5. ActiveProfile' = None /\ existing_secrets(disk'["secrets"]) = NoKeys
    BY <2>2, <2>3 DEF ActiveProfile, read_active_profile_id, existing_secrets, Torn
  <2> QED BY <2>2, <2>3, <2>4, <2>5
<1> QED BY <1>3, <1>4 DEF ResetKeepsItsWord, NoKeys

-----------------------------------------------------------------------------
(* A command begins *)

LEMMA Began ==
    ASSUME AreOps, NEW p \in Procs, NEW c \in Commands, Begin(p, c)
    PROVE  /\ \A q \in Procs : q # p => op'[q] = op[q]
           /\ op'[p].pc \in {"read", "evaluate", "clear", "current", "plan", "unit", "components",
                             "restart", "copy"}
           /\ UNCHANGED <<disk, temp, fd, running, revived, data, sshKeys, wizardState,
                          marker, strayed, unsaved, paused>>
           /\ spoiled \subseteq spoiled' /\ cleared' = None /\ op[p].pc = "idle"
<1>1. /\ op'[p] = Rec(c[1], c[2], FirstStep(c[1]), FirstFile(c[1]), None, None)
      /\ \A q \in Procs : q # p => op'[q] = op[q]
  BY BeginPuts, Put
<1>2. op'[p].pc = FirstStep(c[1])
  BY <1>1, RecFields
<1>3. op'[p].pc \in {"read", "evaluate", "clear", "current", "plan", "unit", "components",
                     "restart", "copy"}
  BY <1>2 DEF FirstStep
<1> QED BY <1>1, <1>3 DEF Begin, fileVars, unitVars

LEMMA BeginKept ==
    ASSUME IInv, NEW p \in Procs, NEW c \in Commands, Begin(p, c)
    PROVE  IInv'
<1>0. AreOps /\ AreFiles /\ Apart /\ Marked /\ PauseIsMarked /\ Pointed /\ Cleared /\ ResetKeepsItsWord
  BY DEF IInv
<1>1. AreOps' /\ Apart'
  BY <1>0, BeginOps
<1>2. AreFiles' /\ Marked' /\ PauseIsMarked'
  BY <1>0, Began DEF AreFiles, Marked, PauseIsMarked
<1>3. Pointed'
  <2> SUFFICES ASSUME "active" \notin spoiled', ~strayed'
               PROVE  Own' \subseteq {ActiveProfile}' /\ \A q \in Procs : PtrSeen(q)'
    BY DEF Pointed, PtrSeen
  <2>0. Own' = Own
    BY <1>0, Began DEF Own
  <2>1. Own \subseteq {ActiveProfile} /\ \A q \in Procs : PtrSeen(q)
    BY <1>0, Began DEF Pointed, PtrSeen
  <2>2. ASSUME NEW q \in Procs, q # p PROVE PtrSeen(q)'
    BY <1>0, <2>0, <2>1, <2>2, Began DEF PtrSeen
  <2>3. PtrSeen(p)'
    BY <1>0, Began DEF PtrSeen, AtPointer
  <2> QED BY <1>0, <2>0, <2>1, <2>2, <2>3, Began DEF ActiveProfile
<1>4. Cleared'
  <2>1. ASSUME NEW q \in Procs, q # p PROVE Resetting(q)'
    <3>1. op'[q] = op[q] /\ UNCHANGED <<data, disk, sshKeys, unsaved>> /\ spoiled \subseteq spoiled'
      BY <1>0, <2>1, Began
    <3>2. Resetting(q)
      BY <1>0 DEF Cleared
    <3> QED BY <3>1, <3>2 DEF Resetting, Doomed
  <2>2. Resetting(p)'
    BY <1>0, Began DEF Resetting
  <2> QED BY <1>0, <2>1, <2>2, Began DEF Cleared
<1>5. ResetKeepsItsWord'
  <2>1. \A q \in Procs : op[q].pc = "restore" => op'[q].pc = "restore"
    BY <1>0, Began
  <2> QED BY <1>0, <2>1, Began DEF ResetKeepsItsWord
<1> QED BY <1>1, <1>2, <1>3, <1>4, <1>5 DEF IInv

LEMMA ActsKept == ASSUME IInv, NEW p \in Procs, Acts(p) PROVE IInv'
<1>0. AreOps /\ AreFiles /\ Apart /\ Marked /\ PauseIsMarked /\ Pointed /\ Cleared /\ ResetKeepsItsWord
  BY DEF IInv
<1>1. AreOps' /\ Apart'
  BY <1>0, ActsGoes, ActsAdd, OpsKept
<1> QED BY <1>0, <1>1, FilesKept, MarkedKept, PointedKept, ClearedKept, WordKept DEF IInv

LEMMA FrameKept ==
    ASSUME IInv, UNCHANGED <<op, fileVars, unitVars, ghostVars>>
    PROVE  IInv'
<1>0. UNCHANGED <<op, disk, temp, fd, running, revived, data, sshKeys, wizardState, marker,
                  strayed, unsaved, paused, spoiled, cleared>>
  BY DEF fileVars, unitVars, ghostVars
<1>1. AreOps' /\ Apart' /\ AreFiles' /\ Marked' /\ PauseIsMarked'
  BY <1>0 DEF IInv, AreOps, WellFormed, IsOp, Apart, AreFiles, Marked, PauseIsMarked
<1>2. Pointed'
  BY <1>0 DEF IInv, Pointed, ActiveProfile, Own
<1>3. Cleared'
  BY <1>0 DEF IInv, Cleared, Resetting, Doomed
<1>4. ResetKeepsItsWord'
  BY <1>0 DEF IInv, ResetKeepsItsWord, ActiveProfile
<1> QED BY <1>1, <1>2, <1>3, <1>4 DEF IInv

LEMMA CutIdle ==
    ASSUME PowerCut, NEW p \in Procs
    PROVE  op'[p] = Idle /\ op'[p].pc = "idle" /\ op'[p].do = "none"
<1>1. op'[p] = Idle
  BY DEF PowerCut
<1> QED BY <1>1, IdleIs

\* Nothing that a command knew is left after a power cut, and only the enabled unit runs.
LEMMA CutKept == ASSUME IInv, PowerCut PROVE IInv'
<1>0. /\ AreOps /\ AreFiles /\ Pointed /\ Cleared /\ ResetKeepsItsWord /\ PauseIsMarked
      /\ spoiled \subseteq spoiled' /\ UNCHANGED <<disk, temp, data, sshKeys, marker, strayed>>
  BY DEF IInv, PowerCut
<1>1. AreOps' /\ Apart' /\ Marked'
  <2>1. op' = [p \in Procs |-> op'[p]]
    BY DEF PowerCut
  <2> QED BY <2>1, CutIdle, IdleIs DEF AreOps, Apart, Marked
<1>2. AreFiles'
  BY <1>0 DEF AreFiles, PowerCut
<1>3. PauseIsMarked'
  <2>1. paused' \subseteq paused
    BY DEF PowerCut
  <2> QED BY <1>0, <2>1 DEF PauseIsMarked
<1>4. Pointed'
  <2>1. \A p \in Procs : PtrSeen(p)'
    BY CutIdle, OffPointer DEF PtrSeen
  <2>2. Own' \subseteq {ActiveProfile}'
    BY DEF PowerCut, Own, ActiveProfile
  <2> QED BY <2>1, <2>2 DEF Pointed, PtrSeen
<1>5. Cleared'
  <2>1. cleared' = None /\ unsaved' \in BOOLEAN
    BY DEF PowerCut
  <2> QED BY <1>0, <2>1, CutIdle DEF Cleared, Resetting
<1>6. ResetKeepsItsWord'
  <2>1. cleared' = None /\ unsaved' = (unsaved \/ \E p \in Procs : op[p].pc = "restore")
    BY DEF PowerCut
  <2>2. sshKeys \/ unsaved \/ "active" \in spoiled \/ \E p \in Procs : op[p].pc = "restore"
    BY <1>0 DEF ResetKeepsItsWord
  <2> QED BY <1>0, <2>1, <2>2 DEF ResetKeepsItsWord
<1> QED BY <1>1, <1>2, <1>3, <1>4, <1>5, <1>6 DEF IInv

LEMMA InitInv == Init => IInv
<1> SUFFICES ASSUME Init PROVE IInv
  OBVIOUS
<1>1. \A p \in Procs : op[p] = Idle /\ op[p].pc = "idle" /\ op[p].do = "none"
  BY DEF Init, Idle
<1>2. AreOps
  BY <1>1, IdleIs DEF Init, AreOps
<1>3. AreFiles
  <2>1. PICK c, s, pr, m, n, nf, k, v, a :
          disk = [cost |-> c, secrets |-> s, provider |-> pr, mounts |-> m, network |-> n,
                  nft |-> nf, catalog |-> k, voice |-> v, active |-> a]
    BY DEF Init
  <2>2. disk = [f \in Files |-> disk[f]]
    BY <2>1 DEF Files
  <2> QED BY <2>2 DEF Init, AreFiles
<1>4. Apart /\ Marked /\ PauseIsMarked
  BY <1>1 DEF Init, Apart, Marked, PauseIsMarked
<1>5. Pointed
  BY <1>1, OffPointer DEF Init, Pointed, Own
<1>6. Cleared
  BY <1>1 DEF Init, Cleared, Resetting
<1>7. ResetKeepsItsWord
  BY DEF Init, ResetKeepsItsWord
<1> QED BY <1>2, <1>3, <1>4, <1>5, <1>6, <1>7 DEF IInv

LEMMA NextInv == IInv /\ [Next]_vars => IInv'
<1> SUFFICES ASSUME IInv, [Next]_vars PROVE IInv'
  OBVIOUS
<1>1. ASSUME NEW p \in Procs, Step(p) PROVE IInv'
  BY <1>1, BeginKept, ActsKept DEF Step, Acts
<1>2. CASE Spend \/ Midnight \/ Relay
  BY <1>2, FrameKept DEF Spend, Midnight, Relay
<1>3. CASE UNCHANGED vars
  BY <1>3, FrameKept DEF vars
<1> QED BY <1>1, <1>2, <1>3, CutKept DEF Next

\* What every process knows stays true, for any numbers of processes and faults.
THEOREM InvAlways == Spec => []IInv
BY InitInv, NextInv, PTL DEF Spec

\* cost.rs, check_caps_and_maybe_pause: a unit that the guard has stopped has the
\* marker that says why, until a cost reset.
THEOREM PausesAreMarked == Spec => []PauseIsMarked
<1>1. IInv => PauseIsMarked
  BY DEF IInv
<1> QED BY <1>1, InvAlways, PTL

\* profile_switch.rs, run: a switch that fails or is killed anywhere leaves no unit
\* beside the active profile's, but one that a boot has brought back.
THEOREM OnlyTheActiveRuns == Spec => []OneProfileRuns
<1>1. IInv => OneProfileRuns
  BY DEF IInv, Pointed, OneProfileRuns, Own
<1> QED BY <1>1, InvAlways, PTL

\* factory_reset.rs, run: a reset that got to its end has removed what it said, and
\* the owner's authorized_keys outlive one that is not cut off in the middle.
THEOREM ResetsAreWhole == Spec => []ResetKeepsItsWord
<1>1. IInv => ResetKeepsItsWord
  BY DEF IInv
<1> QED BY <1>1, InvAlways, PTL


-----------------------------------------------------------------------------
(* The settings                                                            *)

\* A whole file; the catalogue counts its ports without a gap above the entries.
Whole(f) ==
  IF f = "catalog"
  THEN {c \in Contents(f) :
          c[Baked] # 0 /\ \A m \in Models : c[m] <= Cardinality({n \in Models : c[n] # 0})}
  ELSE Contents(f)

Says(f, c, values) ==
  c \in Whole(f) /\ \A k \in DOMAIN Defaults[f] : c[k] \in values[<<f, k>>]

\* What a command's success and its failure leave to the settings: Promised's values,
\* as functions of those before.
Owed(do, arg, values) ==
  [s \in Settings |->
     IF Values(s, do, arg) = {} THEN values[s] ELSE Values(s, do, arg)]
Left(do, arg, values) ==
  [s \in Settings |->
     IF Values(s, do, arg) = {} THEN values[s] ELSE values[s] \cup Values(s, do, arg)]

\* The command has put its new content in place.
Written(f, o) ==
  \/ o.do = "model set" /\ f = "secrets" /\ o.file = "provider"
  \/ o.do = "model register" /\ o.pc \in {"env", "enable"}
  \/ o.do = "profile switch" /\ o.pc = "start"
  \/ o.do = "factory-reset" /\ f = "secrets" /\ o.pc \in {"pointer", "wizard"}
  \/ o.do = "factory-reset" /\ f = "active" /\ o.pc = "wizard"

\* voice.toml while it is written in place.
Cut(f, o) == f = "voice" /\ o.pc = "fill"

\* What a command in a file knows of it, of its own copy and of the temporary file.
AtFile(f, o, d, tmp, open, values) ==
  /\ ~Written(f, o) /\ ~Cut(f, o) => Says(f, Reader(f, d), values)
  /\ Written(f, o) => Says(f, Reader(f, d), Owed(o.do, o.arg, values))
  /\ o.file = f /\ o.pc \in {"create", "fill", "rename"} =>
       Says(f, o.copy, Owed(o.do, o.arg, values))
  /\ o.file = f /\ o.pc = "fill" =>
       IF f = "voice" THEN d = Empty /\ open = "disk" ELSE tmp = Empty /\ open = "temp"
  /\ o.file = f /\ o.pc = "rename" => tmp = o.copy
  /\ o.pc = "read" => o.file = FirstFile(o.do)

\* Every file that no two commands met at: as the last success left it while nobody is in
\* it, and as its command knows it while one is.
Kept ==
  \A f \in Files \ (spoiled \cup {"nft"}) :
    /\ f \notin Busy => Says(f, Reader(f, disk[f]), allowed)
    /\ \A p \in Procs : op[p].pc # "idle" /\ f \in Touches(op[p].do) =>
         AtFile(f, op[p], disk[f], temp[f], fd[p], allowed)

\* A command runs with an argument it takes.
ArgsFit == \A p \in Procs : op[p].pc # "idle" => <<op[p].do, op[p].arg>> \in Commands

-----------------------------------------------------------------------------
LEMMA Keys ==
    /\ DOMAIN Defaults["cost"] = {"cap", "trip", "quiet"}
    /\ DOMAIN Defaults["secrets"] = Providers
    /\ DOMAIN Defaults["provider"] = {"id"}
    /\ DOMAIN Defaults["mounts"] = {"host", "net"} \X MountIds
    /\ DOMAIN Defaults["network"] = {"mode", "hosts"}
    /\ DOMAIN Defaults["catalog"] = Models
    /\ DOMAIN Defaults["voice"] = {"wake", "device", "sections"}
    /\ DOMAIN Defaults["active"] = {"id"}
<1>1. /\ Defaults["cost"] = DefaultCost /\ Defaults["secrets"] = NoKeys
      /\ Defaults["provider"] = [id |-> None] /\ Defaults["mounts"] = NoMounts
      /\ Defaults["network"] = OpenPolicy /\ Defaults["catalog"] = NoModels
      /\ Defaults["voice"] = DefaultVoice /\ Defaults["active"] = [id |-> None]
  BY DEF Defaults
<1> QED BY <1>1 DEF DefaultCost, NoKeys, NoMounts, OpenPolicy, NoModels, DefaultVoice

LEMMA IsSetting ==
    ASSUME NEW f \in Files \ {"nft"}, NEW k \in DOMAIN Defaults[f]
    PROVE  <<f, k>> \in Settings
BY DEF Settings

LEMMA OwedAt ==
    ASSUME NEW f \in Files \ {"nft"}, NEW k \in DOMAIN Defaults[f], NEW do, NEW arg, NEW values
    PROVE  /\ Values(<<f, k>>, do, arg) = {} =>
                /\ Owed(do, arg, values)[<<f, k>>] = values[<<f, k>>]
                /\ Left(do, arg, values)[<<f, k>>] = values[<<f, k>>]
           /\ Values(<<f, k>>, do, arg) # {} =>
                /\ Owed(do, arg, values)[<<f, k>>] = Values(<<f, k>>, do, arg)
                /\ Left(do, arg, values)[<<f, k>>] =
                     values[<<f, k>>] \cup Values(<<f, k>>, do, arg)
BY IsSetting DEF Owed, Left

LEMMA OwedIs ==
    ASSUME NEW o
    PROVE  /\ Promised(o, TRUE) = Owed(o.do, o.arg, allowed)
           /\ Promised(o, FALSE) = Left(o.do, o.arg, allowed)
BY DEF Promised, Owed, Left

\* A reader reads a whole file as it is.
LEMMA ReadsWhole ==
    ASSUME NEW f \in Files \ {"nft"}, NEW c \in Whole(f)
    PROVE  Reader(f, c) = c /\ c \notin Torn /\ c # Broken
<1>1. c \in Contents(f) /\ c \notin Torn
  BY ContentIsWhole DEF Whole
<1>2. c # Missing /\ c # Empty /\ c # Broken
  BY <1>1 DEF Torn
<1>3. CASE f = "provider"
  <2>1. Reader(f, c) = [id |-> c["id"]]
    BY <1>1, <1>3 DEF Reader, read_active_provider
  <2> QED BY <1>1, <1>2, <1>3, <2>1 DEF Contents
<1>4. CASE f = "active"
  <2>1. Reader(f, c) = [id |-> c["id"]]
    BY <1>1, <1>4 DEF Reader, read_active_profile_id
  <2> QED BY <1>1, <1>2, <1>4, <2>1 DEF Contents
<1>5. CASE f \notin {"provider", "active"}
  BY <1>1, <1>2, <1>5 DEF Reader, Files, load_config_from, existing_secrets, mounts_read,
     network_read, read_catalog, read_voice_config
<1> QED BY <1>1, <1>2, <1>3, <1>4, <1>5

-----------------------------------------------------------------------------
(* What a command promises *)

LEMMA Promises ==
    ASSUME NEW arg
    PROVE  /\ Promise("cost set", arg) =
                {<<"cost", IF arg = "warn" THEN "trip" ELSE "cap", arg>>}
           /\ Promise("quiet-hours set", arg) =
                {<<"cost", "quiet", arg>>}
           /\ Promise("voice wake", arg) =
                {<<"voice", "wake", arg>>, <<"voice", "sections", None>>}
           /\ Promise("profile switch", arg) =
                {<<"active", "id", arg>>}
           /\ Promise("network allow", arg) =
                {<<"network", "hosts", arg>>}
           /\ Promise("model set", arg) =
                {<<"secrets", arg, "new">>, <<"provider", "id", arg>>}
           /\ Promise("factory-reset", arg) =
                {<<"secrets", i, None>> : i \in Providers} \cup {<<"active", "id", None>>}
           /\ Promise("mounts add", arg) =
                {<<"mounts", <<"host", arg>>, "ro">>}
           /\ Promise("mounts net-add", arg) =
                {<<"mounts", <<"net", arg>>, "ro">>}
           /\ Promise("mounts remove", arg) =
                {<<"mounts", <<k, arg>>, None>> : k \in {"host", "net"}}
           /\ Promise("network mode", arg) =
                {<<"network", "mode", arg>>} \cup
                           (IF arg = "whitelist"
                            THEN {<<"network", "hosts", h>> : h \in {"seed", "host"}} ELSE {})
           /\ Promise("model register", arg) =
                {<<"catalog", arg, n>> : n \in 1 .. Cardinality(Models)}
BY DEF Promise

LEMMA PromisesTouch ==
    /\ "cost" \in Touches("cost set")
    /\ "cost" \in Touches("quiet-hours set")
    /\ "voice" \in Touches("voice wake")
    /\ "active" \in Touches("profile switch")
    /\ "network" \in Touches("network allow")
    /\ "secrets" \in Touches("model set") /\ "provider" \in Touches("model set")
    /\ "secrets" \in Touches("factory-reset") /\ "active" \in Touches("factory-reset")
    /\ "mounts" \in Touches("mounts add")
    /\ "mounts" \in Touches("mounts net-add")
    /\ "mounts" \in Touches("mounts remove")
    /\ "network" \in Touches("network mode")
    /\ "catalog" \in Touches("model register")
BY DEF Touches, FirstFile

LEMMA Triples ==
    ASSUME NEW do, NEW arg, NEW x \in Promise(do, arg)
    PROVE  x = <<x[1], x[2], x[3]>> /\ x[1] \in Touches(do) /\ do # "none"
<1>0. ASSUME NEW f, f \in Touches(do), \E k, v : x = <<f, k, v>>
      PROVE  x = <<x[1], x[2], x[3]>> /\ x[1] \in Touches(do)
  BY <1>0
<1>1. CASE do = "cost set"
  <2>1. (\E k, v : x = <<"cost", k, v>>)
    <3>1. x \in Promise(do, arg)
      OBVIOUS
    <3> QED BY <1>1, <3>1 DEF Promise
  <2> QED BY <1>0, <1>1, <2>1, PromisesTouch
<1>2. CASE do = "quiet-hours set"
  <2>1. (\E k, v : x = <<"cost", k, v>>)
    <3>1. x \in Promise(do, arg)
      OBVIOUS
    <3> QED BY <1>2, <3>1 DEF Promise
  <2> QED BY <1>0, <1>2, <2>1, PromisesTouch
<1>3. CASE do = "voice wake"
  <2>1. (\E k, v : x = <<"voice", k, v>>)
    <3>1. x \in Promise(do, arg)
      OBVIOUS
    <3> QED BY <1>3, <3>1 DEF Promise
  <2> QED BY <1>0, <1>3, <2>1, PromisesTouch
<1>4. CASE do = "profile switch"
  <2>1. (\E k, v : x = <<"active", k, v>>)
    <3>1. x \in Promise(do, arg)
      OBVIOUS
    <3> QED BY <1>4, <3>1 DEF Promise
  <2> QED BY <1>0, <1>4, <2>1, PromisesTouch
<1>5. CASE do = "network allow"
  <2>1. (\E k, v : x = <<"network", k, v>>)
    <3>1. x \in Promise(do, arg)
      OBVIOUS
    <3> QED BY <1>5, <3>1 DEF Promise
  <2> QED BY <1>0, <1>5, <2>1, PromisesTouch
<1>6. CASE do = "model set"
  <2>1. (\E k, v : x = <<"secrets", k, v>>) \/ (\E k, v : x = <<"provider", k, v>>)
    <3>1. x \in Promise(do, arg)
      OBVIOUS
    <3> QED BY <1>6, <3>1 DEF Promise
  <2> QED BY <1>0, <1>6, <2>1, PromisesTouch
<1>7. CASE do = "factory-reset"
  <2>1. (\E k, v : x = <<"secrets", k, v>>) \/ (\E k, v : x = <<"active", k, v>>)
    <3>1. x \in Promise(do, arg)
      OBVIOUS
    <3> QED BY <1>7, <3>1 DEF Promise
  <2> QED BY <1>0, <1>7, <2>1, PromisesTouch
<1>8. CASE do = "mounts add"
  <2>1. (\E k, v : x = <<"mounts", k, v>>)
    <3>1. x \in Promise(do, arg)
      OBVIOUS
    <3> QED BY <1>8, <3>1 DEF Promise
  <2> QED BY <1>0, <1>8, <2>1, PromisesTouch
<1>9. CASE do = "mounts net-add"
  <2>1. (\E k, v : x = <<"mounts", k, v>>)
    <3>1. x \in Promise(do, arg)
      OBVIOUS
    <3> QED BY <1>9, <3>1 DEF Promise
  <2> QED BY <1>0, <1>9, <2>1, PromisesTouch
<1>10. CASE do = "mounts remove"
  <2>1. (\E k, v : x = <<"mounts", k, v>>)
    <3>1. x \in Promise(do, arg)
      OBVIOUS
    <3> QED BY <1>10, <3>1 DEF Promise
  <2> QED BY <1>0, <1>10, <2>1, PromisesTouch
<1>11. CASE do = "network mode"
  <2>1. (\E k, v : x = <<"network", k, v>>)
    <3>1. x \in Promise(do, arg)
      OBVIOUS
    <3> QED BY <1>11, <3>1 DEF Promise
  <2> QED BY <1>0, <1>11, <2>1, PromisesTouch
<1>12. CASE do = "model register"
  <2>1. (\E k, v : x = <<"catalog", k, v>>)
    <3>1. x \in Promise(do, arg)
      OBVIOUS
    <3> QED BY <1>12, <3>1 DEF Promise
  <2> QED BY <1>0, <1>12, <2>1, PromisesTouch
<1>13. CASE do \notin {"cost set", "quiet-hours set", "voice wake", "profile switch", "network allow",
                      "model set", "factory-reset", "mounts add", "mounts net-add", "mounts remove",
                      "network mode", "model register"}
  <2>1. Promise(do, arg) = {}
    BY <1>13 DEF Promise
  <2> QED BY <2>1
<1> QED BY <1>1, <1>2, <1>3, <1>4, <1>5, <1>6, <1>7, <1>8, <1>9, <1>10, <1>11, <1>12, <1>13

LEMMA ValuesAre ==
    ASSUME NEW f, NEW k, NEW do, NEW arg, NEW v
    PROVE  v \in Values(<<f, k>>, do, arg) <=> <<f, k, v>> \in Promise(do, arg)
<1>1. v \in Values(<<f, k>>, do, arg) <=>
        \E x \in Promise(do, arg) : <<f, k>> = <<x[1], x[2]>> /\ v = x[3]
  BY DEF Values
<1>2. ASSUME NEW x \in Promise(do, arg), <<f, k>> = <<x[1], x[2]>>, v = x[3]
      PROVE  <<f, k, v>> \in Promise(do, arg)
  BY <1>2, Triples
<1>3. ASSUME <<f, k, v>> \in Promise(do, arg)
      PROVE  \E x \in Promise(do, arg) : <<f, k>> = <<x[1], x[2]>> /\ v = x[3]
  BY <1>3
<1> QED BY <1>1, <1>2, <1>3

\* A content that says what was promised, and elsewhere what may be.
LEMMA SaysOwed ==
    ASSUME NEW f \in Files \ {"nft"}, NEW c \in Whole(f), NEW do, NEW arg, NEW values,
           \A k \in DOMAIN Defaults[f] :
             \/ <<f, k, c[k]>> \in Promise(do, arg)
             \/ c[k] \in values[<<f, k>>] /\ \A v : <<f, k, v>> \notin Promise(do, arg)
    PROVE  Says(f, c, Owed(do, arg, values))
<1>1. ASSUME NEW k \in DOMAIN Defaults[f]
      PROVE  c[k] \in Owed(do, arg, values)[<<f, k>>]
  <2>1. PICK new : new = Values(<<f, k>>, do, arg)
    OBVIOUS
  <2>2. \A v : v \in new <=> <<f, k, v>> \in Promise(do, arg)
    BY <2>1, ValuesAre
  <2>3. /\ new = {} => Owed(do, arg, values)[<<f, k>>] = values[<<f, k>>]
        /\ new # {} => Owed(do, arg, values)[<<f, k>>] = new
    BY <2>1, OwedAt
  <2>4. CASE <<f, k, c[k]>> \in Promise(do, arg)
    BY <2>2, <2>3, <2>4
  <2>5. CASE c[k] \in values[<<f, k>>] /\ \A v : <<f, k, v>> \notin Promise(do, arg)
    <3>1. new = {}
      BY <2>2, <2>5
    <3> QED BY <2>3, <2>5, <3>1
  <2> QED BY <2>4, <2>5
<1> QED BY <1>1 DEF Says

\* A failure leaves a setting as it was or as it was promised.
LEMMA SaysEither ==
    ASSUME NEW f \in Files \ {"nft"}, NEW c, NEW do, NEW arg, NEW values,
           Says(f, c, values) \/ Says(f, c, Owed(do, arg, values))
    PROVE  Says(f, c, Left(do, arg, values))
<1>1. ASSUME NEW k \in DOMAIN Defaults[f]
      PROVE  /\ values[<<f, k>>] \subseteq Left(do, arg, values)[<<f, k>>]
             /\ Owed(do, arg, values)[<<f, k>>] \subseteq Left(do, arg, values)[<<f, k>>]
  BY OwedAt
<1> QED BY <1>1 DEF Says

\* Without a promise about the file nothing changes.
LEMMA OwedNothing ==
    ASSUME NEW f \in Files \ {"nft"}, NEW k \in DOMAIN Defaults[f], NEW do, NEW arg, NEW values,
           \A x \in Promise(do, arg) : x[1] # f
    PROVE  /\ Owed(do, arg, values)[<<f, k>>] = values[<<f, k>>]
           /\ Left(do, arg, values)[<<f, k>>] = values[<<f, k>>]
<1>1. ASSUME NEW v PROVE <<f, k, v>> \notin Promise(do, arg)
  OBVIOUS
<1>2. Values(<<f, k>>, do, arg) = {}
  BY <1>1, ValuesAre
<1> QED BY <1>2, OwedAt

LEMMA SaysSame ==
    ASSUME NEW f, NEW c, NEW v, NEW w, Says(f, c, v),
           \A k \in DOMAIN Defaults[f] : w[<<f, k>>] = v[<<f, k>>]
    PROVE  Says(f, c, w)
BY DEF Says
-----------------------------------------------------------------------------
(* What each command writes *)

LEMMA CostSetSays ==
    ASSUME NEW c, NEW values, Says("cost", c, values), NEW arg \in {"low", "high", "warn"}
    PROVE  Says("cost", cost_set(c, arg), Owed("cost set", arg, values))
<1>1. c \in [cap : {"low", "high"}, trip : {"pause", "warn"}, quiet : {"on", "off"}]
  BY DEF Says, Whole, Contents
<1>2. c["cap"] \in values[<<"cost", "cap">>] /\ c["trip"] \in values[<<"cost", "trip">>]
      /\ c["quiet"] \in values[<<"cost", "quiet">>]
  BY Keys DEF Says
<1>3. PICK new : new = cost_set(c, arg)
  OBVIOUS
<1>4. PICK t : t = IF arg = "warn" THEN "trip" ELSE "cap"
  OBVIOUS
<1>5. /\ new \in Whole("cost") /\ new[t] = arg
      /\ \A k \in {"cap", "trip", "quiet"} : k # t => new[k] = c[k]
  BY <1>1, <1>3, <1>4 DEF cost_set, Whole, Contents
<1>6. Promise("cost set", arg) = {<<"cost", t, arg>>}
  BY <1>4, Promises
<1>7. ASSUME NEW k \in DOMAIN Defaults["cost"]
      PROVE  \/ <<"cost", k, new[k]>> \in Promise("cost set", arg)
             \/ new[k] \in values[<<"cost", k>>]
                /\ \A v : <<"cost", k, v>> \notin Promise("cost set", arg)
  BY <1>2, <1>5, <1>6, Keys
<1> QED BY <1>3, <1>5, <1>7, SaysOwed DEF Files

LEMMA QuietHoursSays ==
    ASSUME NEW c, NEW values, Says("cost", c, values), NEW arg \in {"on", "off"}
    PROVE  Says("cost", quiet_hours_set(c, arg), Owed("quiet-hours set", arg, values))
<1>1. c \in [cap : {"low", "high"}, trip : {"pause", "warn"}, quiet : {"on", "off"}]
  BY DEF Says, Whole, Contents
<1>2. c["cap"] \in values[<<"cost", "cap">>] /\ c["trip"] \in values[<<"cost", "trip">>]
  BY Keys DEF Says
<1>3. PICK new : new = quiet_hours_set(c, arg)
  OBVIOUS
<1>5. /\ new \in Whole("cost") /\ new["quiet"] = arg
      /\ \A k \in {"cap", "trip"} : new[k] = c[k]
  BY <1>1, <1>3 DEF quiet_hours_set, Whole, Contents
<1>8. DOMAIN Defaults["cost"] = {"cap", "trip", "quiet"}
  BY Keys
<1>9. Promise("quiet-hours set", arg) =
        {<<"cost", "quiet", arg>>}
  BY Promises
<1>7. ASSUME NEW k \in DOMAIN Defaults["cost"]
      PROVE  \/ <<"cost", k, new[k]>> \in Promise("quiet-hours set", arg)
             \/ new[k] \in values[<<"cost", k>>]
                /\ \A v : <<"cost", k, v>> \notin Promise("quiet-hours set", arg)
  BY <1>2, <1>5, <1>8, <1>9
<1> QED BY <1>3, <1>5, <1>7, SaysOwed DEF Files

LEMMA KeySays ==
    ASSUME NEW c, NEW values, Says("secrets", c, values), NEW arg \in Providers
    PROVE  Says("secrets", write_secret_to(c, arg), Owed("model set", arg, values))
<1>1. c \in [Providers -> {None, "old", "new"}]
  BY DEF Says, Whole, Contents
<1>2. \A k \in Providers : c[k] \in values[<<"secrets", k>>]
  BY Keys DEF Says
<1>3. PICK new : new = write_secret_to(c, arg)
  OBVIOUS
<1>5. /\ new \in Whole("secrets") /\ new[arg] = "new"
      /\ \A k \in Providers : k # arg => new[k] = c[k]
  BY <1>1, <1>3 DEF write_secret_to, Whole, Contents
<1>8. DOMAIN Defaults["secrets"] = Providers
  BY Keys
<1>9. Promise("model set", arg) =
        {<<"secrets", arg, "new">>, <<"provider", "id", arg>>}
  BY Promises
<1>7. ASSUME NEW k \in DOMAIN Defaults["secrets"]
      PROVE  \/ <<"secrets", k, new[k]>> \in Promise("model set", arg)
             \/ new[k] \in values[<<"secrets", k>>]
                /\ \A v : <<"secrets", k, v>> \notin Promise("model set", arg)
  BY <1>2, <1>5, <1>8, <1>9
<1> QED BY <1>3, <1>5, <1>7, SaysOwed DEF Files

LEMMA ProviderSays ==
    ASSUME NEW values, NEW arg \in Providers
    PROVE  Says("provider", [id |-> arg], Owed("model set", arg, values))
<1>1. [id |-> arg] \in Whole("provider")
  BY DEF Whole, Contents
<1>2. PICK new : new = [id |-> arg]
  OBVIOUS
<1>3. new["id"] = arg
  BY <1>2
<1>8. DOMAIN Defaults["provider"] = {"id"}
  BY Keys
<1>9. Promise("model set", arg) =
        {<<"secrets", arg, "new">>, <<"provider", "id", arg>>}
  BY Promises
<1>7. ASSUME NEW k \in DOMAIN Defaults["provider"]
      PROVE  <<"provider", k, new[k]>> \in Promise("model set", arg)
  BY <1>3, <1>8, <1>9
<1> QED BY <1>1, <1>2, <1>7, SaysOwed DEF Files

LEMMA PointerSays ==
    ASSUME NEW values, NEW arg \in Profiles
    PROVE  Says("active", [id |-> arg], Owed("profile switch", arg, values))
<1>1. [id |-> arg] \in Whole("active")
  BY DEF Whole, Contents
<1>2. PICK new : new = [id |-> arg]
  OBVIOUS
<1>3. new["id"] = arg
  BY <1>2
<1>8. DOMAIN Defaults["active"] = {"id"}
  BY Keys
<1>9. Promise("profile switch", arg) =
        {<<"active", "id", arg>>}
  BY Promises
<1>7. ASSUME NEW k \in DOMAIN Defaults["active"]
      PROVE  <<"active", k, new[k]>> \in Promise("profile switch", arg)
  BY <1>3, <1>8, <1>9
<1> QED BY <1>1, <1>2, <1>7, SaysOwed DEF Files

LEMMA WakeSays ==
    ASSUME NEW c, NEW values, Says("voice", c, values), NEW arg, arg = "word"
    PROVE  Says("voice", set_wake_word(c, arg), Owed("voice wake", arg, values))
<1>1. c \in [wake : {None, "word"}, device : {None, "usb"}, sections : {None, "kept"}]
  BY DEF Says, Whole, Contents
<1>2. c["device"] \in values[<<"voice", "device">>]
  BY Keys DEF Says
<1>3. PICK new : new = set_wake_word(c, arg)
  OBVIOUS
<1>5. /\ new \in Whole("voice") /\ new["wake"] = arg /\ new["device"] = c["device"]
      /\ new["sections"] = None
  BY <1>1, <1>3 DEF set_wake_word, Whole, Contents
<1>8. DOMAIN Defaults["voice"] = {"wake", "device", "sections"}
  BY Keys
<1>9. Promise("voice wake", arg) =
        {<<"voice", "wake", arg>>, <<"voice", "sections", None>>}
  BY Promises
<1>7. ASSUME NEW k \in DOMAIN Defaults["voice"]
      PROVE  \/ <<"voice", k, new[k]>> \in Promise("voice wake", arg)
             \/ new[k] \in values[<<"voice", k>>]
                /\ \A v : <<"voice", k, v>> \notin Promise("voice wake", arg)
  BY <1>2, <1>5, <1>8, <1>9
<1> QED BY <1>3, <1>5, <1>7, SaysOwed DEF Files

LEMMA AllowSays ==
    ASSUME NEW c, NEW values, Says("network", c, values), NEW arg \in {"host", None}
    PROVE  Says("network", allow_mutate(c, arg), Owed("network allow", arg, values))
<1>1. c \in [mode : {"open", "whitelist", "airgap"}, hosts : {None, "seed", "host"}]
  BY DEF Says, Whole, Contents
<1>2. c["mode"] \in values[<<"network", "mode">>]
  BY Keys DEF Says
<1>3. PICK new : new = allow_mutate(c, arg)
  OBVIOUS
<1>5. new \in Whole("network") /\ new["hosts"] = arg /\ new["mode"] = c["mode"]
  BY <1>1, <1>3 DEF allow_mutate, Whole, Contents
<1>8. DOMAIN Defaults["network"] = {"mode", "hosts"}
  BY Keys
<1>9. Promise("network allow", arg) =
        {<<"network", "hosts", arg>>}
  BY Promises
<1>7. ASSUME NEW k \in DOMAIN Defaults["network"]
      PROVE  \/ <<"network", k, new[k]>> \in Promise("network allow", arg)
             \/ new[k] \in values[<<"network", k>>]
                /\ \A v : <<"network", k, v>> \notin Promise("network allow", arg)
  BY <1>2, <1>5, <1>8, <1>9
<1> QED BY <1>3, <1>5, <1>7, SaysOwed DEF Files

LEMMA ModeSays ==
    ASSUME NEW c, NEW values, Says("network", c, values), NEW arg \in {"open", "whitelist", "airgap"}
    PROVE  Says("network", set_mode(c, arg), Owed("network mode", arg, values))
<1>1. c \in [mode : {"open", "whitelist", "airgap"}, hosts : {None, "seed", "host"}]
  BY DEF Says, Whole, Contents
<1>2. c["hosts"] \in values[<<"network", "hosts">>] /\ c["hosts"] \in {None, "seed", "host"}
  BY <1>1, Keys DEF Says
<1>3. PICK new : new = set_mode(c, arg)
  OBVIOUS
<1>4. PICK h : h = IF arg = "whitelist" /\ c.hosts = None THEN "seed" ELSE c.hosts
  OBVIOUS
<1>5. new = [mode |-> arg, hosts |-> h] /\ h \in {None, "seed", "host"}
  BY <1>2, <1>3, <1>4 DEF set_mode
<1>6. new \in Whole("network") /\ new["mode"] = arg /\ new["hosts"] = h
  BY <1>5 DEF Whole, Contents
<1>8. DOMAIN Defaults["network"] = {"mode", "hosts"}
  BY Keys
<1>9. Promise("network mode", arg) =
        {<<"network", "mode", arg>>} \cup
        (IF arg = "whitelist" THEN {<<"network", "hosts", x>> : x \in {"seed", "host"}} ELSE {})
  BY Promises
<1>7. ASSUME NEW k \in DOMAIN Defaults["network"]
      PROVE  \/ <<"network", k, new[k]>> \in Promise("network mode", arg)
             \/ new[k] \in values[<<"network", k>>]
                /\ \A v : <<"network", k, v>> \notin Promise("network mode", arg)
  <2>1. CASE k = "mode"
    BY <1>6, <2>1, <1>8, <1>9
  <2>2. CASE k = "hosts" /\ arg = "whitelist"
    BY <1>2, <1>4, <1>6, <2>2, <1>8, <1>9
  <2>3. CASE k = "hosts" /\ arg # "whitelist"
    BY <1>2, <1>4, <1>6, <2>3, <1>8, <1>9
  <2> QED BY <2>1, <2>2, <2>3, <1>8
<1> QED BY <1>3, <1>6, <1>7, SaysOwed DEF Files
LEMMA MountsSays ==
    ASSUME NEW c, NEW values, Says("mounts", c, values), NEW arg \in MountIds,
           NEW do \in {"mounts add", "mounts net-add", "mounts remove"}, NEW new,
           new = Edit(do, arg, c), new # None
    PROVE  Says("mounts", new, Owed(do, arg, values))
<1>1. c \in [{"host", "net"} \X MountIds -> {None, "ro"}]
  BY DEF Says, Whole, Contents
<1>2. DOMAIN Defaults["mounts"] = {"host", "net"} \X MountIds
  BY Keys
<1>3. \A k \in {"host", "net"} \X MountIds : c[k] \in values[<<"mounts", k>>]
  BY <1>2 DEF Says
<1>4. PICK h, n : h = <<"host", arg>> /\ n = <<"net", arg>>
  OBVIOUS
<1>5. h \in {"host", "net"} \X MountIds /\ n \in {"host", "net"} \X MountIds /\ h # n
  BY <1>4
<1>6. CASE do = "mounts add"
  <2>1. new = [c EXCEPT ![h] = "ro"]
    BY <1>4, <1>6 DEF Edit, add_host_fs
  <2>2. /\ new \in Whole("mounts") /\ new[h] = "ro"
        /\ \A k \in {"host", "net"} \X MountIds : k # h => new[k] = c[k]
    BY <1>1, <1>5, <2>1 DEF Whole, Contents
  <2>3. Promise(do, arg) = {<<"mounts", h, "ro">>}
    BY <1>4, <1>6, Promises
  <2>4. ASSUME NEW k \in DOMAIN Defaults["mounts"]
        PROVE  \/ <<"mounts", k, new[k]>> \in Promise(do, arg)
               \/ new[k] \in values[<<"mounts", k>>]
                  /\ \A v : <<"mounts", k, v>> \notin Promise(do, arg)
    BY <1>2, <1>3, <2>2, <2>3
  <2> QED BY <2>2, <2>4, SaysOwed DEF Files
<1>7. CASE do = "mounts net-add"
  <2>1. new = [c EXCEPT ![n] = "ro"]
    BY <1>4, <1>7 DEF Edit, add_network_mount
  <2>2. /\ new \in Whole("mounts") /\ new[n] = "ro"
        /\ \A k \in {"host", "net"} \X MountIds : k # n => new[k] = c[k]
    BY <1>1, <1>5, <2>1 DEF Whole, Contents
  <2>3. Promise(do, arg) = {<<"mounts", n, "ro">>}
    BY <1>4, <1>7, Promises
  <2>4. ASSUME NEW k \in DOMAIN Defaults["mounts"]
        PROVE  \/ <<"mounts", k, new[k]>> \in Promise(do, arg)
               \/ new[k] \in values[<<"mounts", k>>]
                  /\ \A v : <<"mounts", k, v>> \notin Promise(do, arg)
    BY <1>2, <1>3, <2>2, <2>3
  <2> QED BY <2>2, <2>4, SaysOwed DEF Files
<1>8. CASE do = "mounts remove"
  <2>1. new = [c EXCEPT ![h] = None, ![n] = None]
    BY <1>4, <1>8 DEF Edit, remove_by_id
  <2>2. /\ new \in Whole("mounts") /\ new[h] = None /\ new[n] = None
        /\ \A k \in {"host", "net"} \X MountIds : k \notin {h, n} => new[k] = c[k]
    BY <1>1, <1>5, <2>1 DEF Whole, Contents
  <2>3. Promise(do, arg) = {<<"mounts", h, None>>, <<"mounts", n, None>>}
    <3>1. Promise(do, arg) = {<<"mounts", <<k, arg>>, None>> : k \in {"host", "net"}}
      BY <1>8 DEF Promise
    <3> QED BY <1>4, <3>1
  <2>4. ASSUME NEW k \in DOMAIN Defaults["mounts"]
        PROVE  \/ <<"mounts", k, new[k]>> \in Promise(do, arg)
               \/ new[k] \in values[<<"mounts", k>>]
                  /\ \A v : <<"mounts", k, v>> \notin Promise(do, arg)
    BY <1>2, <1>3, <2>2, <2>3
  <2> QED BY <2>2, <2>4, SaysOwed DEF Files
<1> QED BY <1>6, <1>7, <1>8

\* A bounded set of numbers has a highest one.
LEMMA Highest ==
    ASSUME NEW S \in SUBSET Nat, S # {}, NEW n \in Nat, \A x \in S : x <= n
    PROVE  Max(S) \in S /\ \A x \in S : x <= Max(S)
<1>1. PICK T : T = {n - x : x \in S}
  OBVIOUS
<1>2. T \subseteq Nat /\ T # {}
  <2>1. ASSUME NEW y \in T PROVE y \in Nat
    <3>1. PICK x \in S : y = n - x
      BY <1>1, <2>1
    <3>2. x \in Nat /\ x <= n
      OBVIOUS
    <3> QED BY <3>1, <3>2
  <2>2. PICK x \in S : TRUE
    OBVIOUS
  <2>3. n - x \in T
    BY <1>1
  <2> QED BY <2>1, <2>3
<1>3. PICK R : R = OpToRel(<, Nat)
  OBVIOUS
<1>4. \A x, y \in Nat : x < y => <<x, y>> \in R
  BY <1>3 DEF OpToRel
<1>5. PICK t \in T : \A y \in T : ~ (<<y, t>> \in R)
  BY <1>2, <1>3, NatLessThanWellFounded, WFMin
<1>6. \A y \in T : t <= y
  <2>1. ASSUME NEW y \in T PROVE t <= y
    <3>1. y \in Nat /\ t \in Nat /\ ~(y < t)
      BY <1>2, <1>4, <1>5
    <3> QED BY <3>1
  <2> QED BY <2>1
<1>7. PICK m \in S : t = n - m
  BY <1>1
<1>8. \A x \in S : m >= x
  BY <1>1, <1>6, <1>7
<1> QED BY <1>7, <1>8 DEF Max

\* A model that has no entry gets a port that no more than counts the entries.
LEMMA ModelSays ==
    ASSUME NEW c, NEW values, Says("catalog", c, values), NEW arg \in Models
    PROVE  Says("catalog", register_entry(c, arg), Owed("model register", arg, values))
<1> DEFINE Entries(x) == {n \in Models : x[n] # 0}
<1>1. /\ c \in [Models -> Nat] /\ c[Baked] # 0
      /\ \A m \in Models : c[m] <= Cardinality(Entries(c))
  BY DEF Says, Whole, Contents
<1>2. DOMAIN Defaults["catalog"] = Models
  BY Keys
<1>3. \A m \in Models : c[m] \in values[<<"catalog", m>>]
  BY <1>2 DEF Says
<1>4. Promise("model register", arg) = {<<"catalog", arg, n>> : n \in 1 .. Cardinality(Models)}
  BY DEF Promise
<1>5. PICK new : new = register_entry(c, arg)
  OBVIOUS
<1>6. PICK E : E = Entries(c)
  OBVIOUS
<1>7. /\ IsFiniteSet(E) /\ Cardinality(E) \in Nat
      /\ Cardinality(E) <= Cardinality(Models) /\ Cardinality(Models) \in Nat
  <2>1. E \in SUBSET Models
    BY <1>6
  <2> QED BY <2>1, FewModels, FS_Subset, FS_CardinalityType
<1>8. ASSUME new \in Whole("catalog"), new[arg] \in 1 .. Cardinality(Models),
             \A m \in Models : m # arg => new[m] = c[m]
      PROVE  Says("catalog", new, Owed("model register", arg, values))
  <2>1. ASSUME NEW k \in DOMAIN Defaults["catalog"]
        PROVE  \/ <<"catalog", k, new[k]>> \in Promise("model register", arg)
               \/ new[k] \in values[<<"catalog", k>>]
                  /\ \A v : <<"catalog", k, v>> \notin Promise("model register", arg)
    BY <1>2, <1>3, <1>4, <1>8
  <2> QED BY <1>8, <2>1, SaysOwed DEF Files
<1>9. CASE c[arg] # 0
  <2>1. new = c
    BY <1>5, <1>9 DEF register_entry
  <2>2. c[arg] \in 1 .. Cardinality(Models)
    BY <1>1, <1>6, <1>7, <1>9
  <2> QED BY <1>5, <1>8, <2>1, <2>2 DEF Says
<1>10. CASE c[arg] = 0
  <2>1. PICK S : S = {1} \cup {c[n] : n \in Models}
    OBVIOUS
  <2>2. PICK a \in Nat : a = Cardinality(E)
    BY <1>7
  <2>3. Baked \in E /\ a >= 1
    <3>1. Baked \in E
      BY <1>1, <1>6, BakedIsAModel
    <3>2. a # 0
      BY <1>7, <2>2, <3>1, FS_EmptySet
    <3> QED BY <2>2, <3>1, <3>2
  <2>4. S \in SUBSET Nat /\ S # {} /\ \A x \in S : x <= a
    BY <1>1, <1>6, <2>1, <2>2, <2>3
  <2>5. Max(S) \in Nat /\ Max(S) <= a /\ \A x \in S : x <= Max(S)
    BY <2>2, <2>4, Highest
  <2>6. PICK b \in Nat : b = Max(S) + 1
    BY <2>5
  <2>7. b \in 1 .. a + 1
    BY <2>2, <2>5, <2>6
  <2>8. new = [c EXCEPT ![arg] = b]
    BY <1>5, <1>10, <2>1, <2>6 DEF register_entry
  <2>9. /\ new \in [Models -> Nat] /\ new[arg] = b /\ \A m \in Models : m # arg => new[m] = c[m]
    BY <1>1, <2>8
  <2>10. Entries(new) = E \cup {arg} /\ arg \notin E
    BY <1>6, <1>10, <2>7, <2>9
  <2>11. Cardinality(Entries(new)) = a + 1
    BY <1>7, <2>2, <2>10, FS_AddElement
  <2>12. a + 1 <= Cardinality(Models)
    <3>1. Entries(new) \in SUBSET Models
      OBVIOUS
    <3> QED BY <2>11, <3>1, FewModels, FS_Subset
  <2>13. new \in Whole("catalog")
    <3>1. \A m \in Models : new[m] <= a + 1
      BY <1>1, <1>6, <2>2, <2>7, <2>9
    <3>2. new[Baked] # 0
      BY <1>1, <2>7, <2>9, BakedIsAModel
    <3> QED BY <2>9, <2>11, <3>1, <3>2 DEF Whole, Contents
  <2>14. new[arg] \in 1 .. Cardinality(Models)
    BY <1>7, <2>2, <2>7, <2>9, <2>12
  <2> QED BY <1>5, <1>8, <2>9, <2>13, <2>14
<1> QED BY <1>9, <1>10

\* What each command takes.
Typed(do, arg) ==
  /\ do # "none"
  /\ do = "cost set" => arg \in {"low", "high", "warn"}
  /\ do = "quiet-hours set" => arg \in {"on", "off"}
  /\ do = "model set" => arg \in Providers
  /\ do = "model register" => arg \in Models
  /\ do = "voice wake" => arg = "word"
  /\ do \in {"mounts add", "mounts net-add", "mounts remove"} => arg \in MountIds
  /\ do = "network mode" => arg \in {"open", "whitelist", "airgap"}
  /\ do = "network allow" => arg \in {"host", None}
  /\ do = "profile switch" => arg \in Profiles

LEMMA ArgsTyped ==
    ASSUME NEW c \in Commands
    PROVE  c = <<c[1], c[2]>> /\ Typed(c[1], c[2])
<1>0. ASSUME NEW S, NEW T, c \in S \X T
      PROVE  c = <<c[1], c[2]>> /\ c[1] \in S /\ c[2] \in T
  BY <1>0
<1>1. CASE c \in CostCommands
  <2>1. CASE c \in {"cost set"} \X {"low", "high", "warn"}
    <3>1. c = <<c[1], c[2]>> /\ c[1] \in {"cost set"} /\ c[2] \in {"low", "high", "warn"}
      BY <1>0, <2>1
    <3> QED BY <3>1 DEF Typed
  <2>2. CASE c \in {"quiet-hours set"} \X {"on", "off"}
    <3>1. c = <<c[1], c[2]>> /\ c[1] \in {"quiet-hours set"} /\ c[2] \in {"on", "off"}
      BY <1>0, <2>2
    <3> QED BY <3>1 DEF Typed
  <2>3. CASE c \in {"cost check", "cost reset"} \X {None}
    <3>1. c = <<c[1], c[2]>> /\ c[1] \in {"cost check", "cost reset"} /\ c[2] \in {None}
      BY <1>0, <2>3
    <3> QED BY <3>1 DEF Typed
  <2> QED BY <1>1, <2>1, <2>2, <2>3 DEF CostCommands
<1>2. CASE c \in ModelCommands
  <2>1. CASE c \in {"model set"} \X Providers
    <3>1. c = <<c[1], c[2]>> /\ c[1] \in {"model set"} /\ c[2] \in Providers
      BY <1>0, <2>1
    <3> QED BY <3>1 DEF Typed
  <2>2. CASE c \in {"model register"} \X Models
    <3>1. c = <<c[1], c[2]>> /\ c[1] \in {"model register"} /\ c[2] \in Models
      BY <1>0, <2>2
    <3> QED BY <3>1 DEF Typed
  <2>3. CASE c \in {"voice wake"} \X {"word"}
    <3>1. c = <<c[1], c[2]>> /\ c[1] \in {"voice wake"} /\ c[2] \in {"word"}
      BY <1>0, <2>3
    <3> QED BY <3>1 DEF Typed
  <2> QED BY <1>2, <2>1, <2>2, <2>3 DEF ModelCommands
<1>3. CASE c \in ProfileCommands
  <2>1. CASE c \in {"profile switch"} \X Profiles
    <3>1. c = <<c[1], c[2]>> /\ c[1] \in {"profile switch"} /\ c[2] \in Profiles
      BY <1>0, <2>1
    <3> QED BY <3>1 DEF Typed
  <2>2. CASE c \in {"up", "down", "factory-reset"} \X {None}
    <3>1. c = <<c[1], c[2]>> /\ c[1] \in {"up", "down", "factory-reset"} /\ c[2] \in {None}
      BY <1>0, <2>2
    <3> QED BY <3>1 DEF Typed
  <2> QED BY <1>3, <2>1, <2>2 DEF ProfileCommands
<1>4. CASE c \in cmd_mounts
  <2>1. CASE c \in {"mounts add", "mounts net-add", "mounts remove"} \X MountIds
    <3>1. c = <<c[1], c[2]>> /\ c[1] \in {"mounts add", "mounts net-add", "mounts remove"} /\ c[2] \in MountIds
      BY <1>0, <2>1
    <3> QED BY <3>1 DEF Typed
  <2>2. CASE c = <<"mounts apply", None>>
    BY <2>2 DEF Typed
  <2> QED BY <1>4, <2>1, <2>2 DEF cmd_mounts
<1>5. CASE c \in cmd_network
  <2>1. CASE c \in {"network mode"} \X {"open", "whitelist", "airgap"}
    <3>1. c = <<c[1], c[2]>> /\ c[1] \in {"network mode"} /\ c[2] \in {"open", "whitelist", "airgap"}
      BY <1>0, <2>1
    <3> QED BY <3>1 DEF Typed
  <2>2. CASE c \in {"network allow"} \X {"host", None}
    <3>1. c = <<c[1], c[2]>> /\ c[1] \in {"network allow"} /\ c[2] \in {"host", None}
      BY <1>0, <2>2
    <3> QED BY <3>1 DEF Typed
  <2>3. CASE c = <<"network apply", None>>
    BY <2>3 DEF Typed
  <2> QED BY <1>5, <2>1, <2>2, <2>3 DEF cmd_network
<1>6. CASE c \in PageCommands
  <2>1. CASE c \in {"model set"} \X Providers
    <3>1. c = <<c[1], c[2]>> /\ c[1] \in {"model set"} /\ c[2] \in Providers
      BY <1>0, <2>1
    <3> QED BY <3>1 DEF Typed
  <2>2. CASE c \in {"mounts remove"} \X MountIds
    <3>1. c = <<c[1], c[2]>> /\ c[1] \in {"mounts remove"} /\ c[2] \in MountIds
      BY <1>0, <2>2
    <3> QED BY <3>1 DEF Typed
  <2> QED BY <1>6, <2>1, <2>2 DEF PageCommands, post_keys_rotate
<1>7. CASE c \in WizardCommands
  <2>1. CASE c \in {"mounts add", "mounts net-add", "mounts remove"} \X MountIds
    <3>1. c = <<c[1], c[2]>> /\ c[1] \in {"mounts add", "mounts net-add", "mounts remove"} /\ c[2] \in MountIds
      BY <1>0, <2>1
    <3> QED BY <3>1 DEF Typed
  <2> QED BY <1>7, <2>1 DEF WizardCommands
<1>8. CASE c \in PageCostCommands
  <2>1. CASE c = <<"cost set", "high">>
    BY <2>1 DEF Typed
  <2>2. CASE c = <<"cost reset", None>>
    BY <2>2 DEF Typed
  <2> QED BY <1>8, <2>1, <2>2 DEF PageCostCommands
<1>9. CASE c \in TimerCommands
  <2>1. CASE c = <<"reconcile", None>>
    BY <2>1 DEF Typed
  <2> QED BY <1>9, <2>1 DEF TimerCommands
<1> QED BY <1>1, <1>2, <1>3, <1>4, <1>5, <1>6, <1>7, <1>8, <1>9 DEF Commands

\* The files that a command edits its copy of.
LEMMA EditSays ==
    ASSUME NEW do \in Edits \cup {"model register"}, NEW arg, Typed(do, arg), NEW c, NEW values,
           Says(FirstFile(do), c, values), NEW new, new = Edit(do, arg, c), new # None
    PROVE  Says(FirstFile(do), new, Owed(do, arg, values))
<1>1. CASE do = "cost set"
  BY <1>1, CostSetSays DEF Edit, FirstFile, Typed
<1>2. CASE do = "quiet-hours set"
  BY <1>2, QuietHoursSays DEF Edit, FirstFile, Typed
<1>3. CASE do = "model set"
  BY <1>3, KeySays DEF Edit, FirstFile, Typed
<1>4. CASE do \in {"mounts add", "mounts net-add", "mounts remove"}
  <2>1. FirstFile(do) = "mounts" /\ arg \in MountIds
    BY <1>4 DEF FirstFile, Typed
  <2> QED BY <1>4, <2>1, MountsSays
<1>5. CASE do = "network mode"
  BY <1>5, ModeSays DEF Edit, FirstFile, Typed
<1>6. CASE do = "network allow"
  BY <1>6, AllowSays DEF Edit, FirstFile, Typed
<1>7. CASE do = "model register"
  BY <1>7, ModelSays DEF Edit, FirstFile, Typed
<1>8. CASE do = "voice wake"
  BY <1>8, WakeSays DEF Edit, FirstFile, Typed
<1> QED BY <1>1, <1>2, <1>3, <1>4, <1>5, <1>6, <1>7, <1>8 DEF Edits

-----------------------------------------------------------------------------
(* One step of a command in a file *)

\* What p knows, and what it must know after a step of its own.
Seen(p, f) == AtFile(f, op[p], disk[f], temp[f], fd[p], allowed)

After(p, f) ==
  IF op[p].pc = "idle" THEN Says(f, Reader(f, disk[f]), allowed) ELSE Seen(p, f)

\* The command is over, having failed: what it knew, or what it was before.
LEMMA Fails ==
    ASSUME AreOps, NEW p \in Procs, NEW f \in Files \ {"nft"}, Seen(p, f), ~Cut(f, op[p]),
           End(p, FALSE), disk'[f] = disk[f]
    PROVE  After(p, f)'
<1>1. op'[p].pc = "idle"
  BY Put, IdleIs DEF End, Puts
<1>2. PICK o : o = op[p]
  OBVIOUS
<1>3. allowed' = Left(o.do, o.arg, allowed)
  BY <1>2, OwedIs DEF End
<1>4. Says(f, Reader(f, disk[f]), allowed) \/ Says(f, Reader(f, disk[f]), Owed(o.do, o.arg, allowed))
  BY <1>2 DEF Seen, AtFile
<1>5. Says(f, Reader(f, disk[f]), Left(o.do, o.arg, allowed))
  BY <1>4, SaysEither
<1> QED BY <1>1, <1>3, <1>5 DEF After

LEMMA Ends ==
    ASSUME AreOps, NEW p \in Procs, NEW f \in Files \ {"nft"}, End(p, TRUE),
           Says(f, Reader(f, disk'[f]), Owed(op[p].do, op[p].arg, allowed))
    PROVE  After(p, f)'
<1>1. op'[p].pc = "idle"
  BY Put, IdleIs DEF End, Puts
<1>3. allowed' = Owed(op[p].do, op[p].arg, allowed)
  BY OwedIs DEF End
<1> QED BY <1>1, <1>3 DEF After

\* The command is over, having done what it promised of the file.
LEMMA Succeeds ==
    ASSUME AreOps, NEW p \in Procs, NEW f \in Files \ {"nft"}, Seen(p, f), ~Cut(f, op[p]),
           End(p, TRUE), disk'[f] = disk[f],
           Written(f, op[p]) \/ \A x \in Promise(op[p].do, op[p].arg) : x[1] # f
    PROVE  After(p, f)'
<1>2. PICK o : o = op[p]
  OBVIOUS
<1>3. CASE Written(f, o)
  BY <1>2, <1>3, Ends DEF Seen, AtFile
<1>4. CASE ~Written(f, o)
  <2>1. Says(f, Reader(f, disk[f]), allowed)
    BY <1>2, <1>4 DEF Seen, AtFile
  <2>2. ASSUME NEW k \in DOMAIN Defaults[f]
        PROVE  Owed(o.do, o.arg, allowed)[<<f, k>>] = allowed[<<f, k>>]
    BY <1>2, <1>4, OwedNothing
  <2>3. Says(f, Reader(f, disk[f]), Owed(o.do, o.arg, allowed))
    BY <2>1, <2>2, SaysSame
  <2> QED BY <1>2, <2>3, Ends
<1> QED BY <1>3, <1>4

\* The command is over, having refused before it changed anything.
LEMMA Quits ==
    ASSUME AreOps, NEW p \in Procs, NEW f \in Files \ {"nft"}, Seen(p, f), ~Cut(f, op[p]),
           ~Written(f, op[p]), op' = [op EXCEPT ![p] = Idle], allowed' = allowed, disk'[f] = disk[f]
    PROVE  After(p, f)'
<1>1. op'[p].pc = "idle"
  BY Put, IdleIs DEF Puts
<1> QED BY <1>1 DEF After, Seen, AtFile

\* The command goes on, and has or has not its content in place, as before.
LEMMA Continues ==
    ASSUME AreOps, NEW p \in Procs, NEW f \in Files \ {"nft"}, NEW o, o = op[p], Seen(p, f),
           ~Cut(f, o), allowed' = allowed, disk'[f] = disk[f],
           NEW n, Puts(p, n), n.do = o.do, n.arg = o.arg, n.pc # "idle",
           n.file = f => n.pc \notin {"fill", "rename"},
           n.file = f /\ n.pc = "create" => Says(f, n.copy, Owed(o.do, o.arg, allowed)),
           (Written(f, o) /\ Written(f, n)) \/ (~Written(f, o) /\ ~Written(f, n)),
           n.pc = "read" => n.file = FirstFile(o.do)
    PROVE  After(p, f)'
<1>2. op'[p] = n
  BY Put
<1>4. /\ (Written(f, o) /\ Written(f, n)) \/ (~Written(f, o) /\ ~Written(f, n))
      /\ AtFile(f, o, disk[f], temp[f], fd[p], allowed) /\ ~Cut(f, o)
  BY DEF Seen
<1>5. AtFile(f, n, disk[f], temp'[f], fd'[p], allowed)
  BY <1>4 DEF AtFile
<1> QED BY <1>2, <1>5 DEF After, Seen

LEMMA AtWork ==
    ASSUME AreOps, ArgsFit, NEW p \in Procs, op[p].pc # "idle"
    PROVE  /\ Typed(op[p].do, op[p].arg) /\ IsOp(op[p]) /\ op[p].do \in Dos
           /\ op[p].pc \in StepsOf(op[p].do) /\ op[p].file \in Touches(op[p].do)
<1>1. <<op[p].do, op[p].arg>> \in Commands
  BY DEF ArgsFit
<1>2. PICK c \in Commands : c = <<op[p].do, op[p].arg>>
  BY <1>1
<1>3. Typed(c[1], c[2])
  BY ArgsTyped
<1>4. c[1] = op[p].do /\ c[2] = op[p].arg
  BY <1>2
<1> QED BY <1>3, <1>4 DEF AreOps, WellFormed

\* What goes through the steps of an edit, and the files it is at.
LEMMA AtEdits ==
    ASSUME AreOps, ArgsFit, NEW p \in Procs, op[p].pc \in {"read", "create", "fill", "rename"}
    PROVE  /\ op[p].do \in Edits \cup {"model register", "network apply", "profile switch"}
           /\ op[p].pc = "read" => op[p].do # "profile switch"
           /\ op[p].do = "network apply" => Touches(op[p].do) = {"network", "nft"}
           /\ op[p].do = "model set" => Touches(op[p].do) = {"secrets", "provider"}
           /\ op[p].do \notin {"network apply", "model set"} =>
                Touches(op[p].do) = {FirstFile(op[p].do)} /\ op[p].file = FirstFile(op[p].do)
           /\ FirstFile("network apply") = "network" /\ FirstFile("model set") = "secrets"
           /\ FirstFile("profile switch") = "active" /\ FirstFile("model register") = "catalog"
<1>1. PICK o : o = op[p]
  OBVIOUS
<1>2. o.do \in Dos /\ o.pc \in StepsOf(o.do) /\ o.file \in Touches(o.do) /\ o.pc \in EditSteps
  BY <1>1, AtWork DEF EditSteps
<1>3. o.do \in Edits \cup {"model register", "network apply", "profile switch"}
      /\ (o.pc = "read" => o.do # "profile switch")
  BY <1>2 DEF StepsOf, EditSteps, Dos, Edits
<1>4. /\ o.do = "network apply" => Touches(o.do) = {"network", "nft"}
      /\ o.do = "model set" => Touches(o.do) = {"secrets", "provider"}
      /\ o.do \notin {"network apply", "model set"} => Touches(o.do) = {FirstFile(o.do)}
  BY <1>3 DEF Touches, FirstFile, Edits
<1> QED BY <1>1, <1>2, <1>3, <1>4 DEF FirstFile

LEMMA ReadFileAfter ==
    ASSUME AreOps, AreFiles, ArgsFit, NEW p \in Procs, ReadFile(p), NEW f \in Files \ {"nft"},
           f \in Touches(op[p].do), Seen(p, f), f \notin spoiled'
    PROVE  After(p, f)'
<1>1. PICK o : o = op[p]
  OBVIOUS
<1>2. /\ o.pc = "read" /\ o.file = FirstFile(o.do) /\ IsOp(o) /\ Typed(o.do, o.arg)
      /\ allowed' = allowed /\ disk' = disk
  BY <1>1, AtWork DEF ReadFile, At, Seen, AtFile, fileVars
<1>3. /\ o.do \in Edits \cup {"model register", "network apply"}
      /\ o.do = "network apply" => Touches(o.do) = {"network", "nft"} /\ o.file = "network"
      /\ o.do = "model set" => Touches(o.do) = {"secrets", "provider"} /\ o.file = "secrets"
      /\ o.do \notin {"network apply", "model set"} => Touches(o.do) = {o.file}
  BY <1>1, <1>2, AtEdits
<1>4. ~Written(f, o) /\ ~Cut(f, o) /\ o.pc # "idle"
  BY <1>2, <1>3 DEF Written, Cut
<1>5. CASE op' = [op EXCEPT ![p] = Idle]
  BY <1>1, <1>2, <1>4, <1>5, Quits
<1>6. ASSUME NEW c, TakeCopy(p, c), o.file = f => c = Reader(f, disk[f])
      PROVE  After(p, f)'
  <2>1. CASE o.do = "network apply"
    <3>1. PICK resolved \in BOOLEAN :
            op' = [op EXCEPT ![p].pc = "create", ![p].file = "nft",
                             ![p].copy = generate_nftables_ruleset(c, resolved)]
      BY <1>1, <1>6, <2>1 DEF TakeCopy
    <3>2. PICK s, g, y : s = "create" /\ g = "nft" /\ y = generate_nftables_ruleset(c, resolved)
      OBVIOUS
    <3>3. PICK n : n = Rec(o.do, o.arg, s, g, y, o.mem)
      OBVIOUS
    <3>4. Puts(p, n)
      BY <1>1, <3>1, <3>2, <3>3, PutFileCopy
    <3>6. n.do = o.do /\ n.arg = o.arg /\ n.file = "nft" /\ n.pc = "create"
      BY <3>2, <3>3, RecFields
    <3>5. ~Written(f, n)
      BY <2>1, <3>6 DEF Written
    <3> QED BY <1>1, <1>2, <1>4, <3>4, <3>5, <3>6, Continues
  <2>2. CASE o.do # "network apply"
    <3>1. PICK new : new = Edit(o.do, o.arg, c)
      OBVIOUS
    <3>2. PICK s : s = "create"
      OBVIOUS
    <3>3. op' = [op EXCEPT ![p] = IF new = None THEN Idle
                                  ELSE [o EXCEPT !.pc = s, !.copy = new, !.mem = c]]
      BY <1>1, <1>6, <2>2, <3>1, <3>2 DEF TakeCopy
    <3>4. CASE new = None
      BY <1>5, <3>3, <3>4
    <3>5. CASE new # None
      <4>0. PICK n : n = Rec(o.do, o.arg, s, o.file, new, c)
        OBVIOUS
      <4>1. Puts(p, n)
        BY <1>1, <3>3, <3>5, <4>0, PutCopyMem
      <4>4. /\ n.do = o.do /\ n.arg = o.arg /\ n.file = o.file /\ n.pc = "create"
            /\ n.copy = new
        BY <3>2, <4>0, RecFields
      <4>2. ~Written(f, n)
        BY <1>3, <4>4 DEF Written
      <4>3. ASSUME o.file = f PROVE Says(f, new, Owed(o.do, o.arg, allowed))
        <5>1. Says(f, c, allowed)
          BY <1>1, <1>4, <1>6, <4>3 DEF Seen, AtFile
        <5>2. o.do \in Edits \cup {"model register"} /\ f = FirstFile(o.do)
          BY <1>2, <1>3, <2>2, <4>3
        <5> QED BY <1>2, <3>1, <3>5, <5>1, <5>2, EditSays
      <4> QED BY <1>1, <1>2, <1>4, <4>1, <4>2, <4>3, <4>4, Continues
    <3> QED BY <3>4, <3>5
  <2> QED BY <2>1, <2>2
<1>7. \/ op' = [op EXCEPT ![p] = Idle]
      \/ TakeCopy(p, Reader(o.file, disk[o.file]))
      \/ TakeCopy(p, Defaults[o.file]) /\ spoiled' = spoiled \cup {o.file}
  BY <1>1 DEF ReadFile
<1> QED BY <1>5, <1>6, <1>7

LEMMA CreateAfter ==
    ASSUME AreOps, AreFiles, ArgsFit, NEW p \in Procs, Create(p), NEW f \in Files \ {"nft"},
           f \in Touches(op[p].do), Seen(p, f)
    PROVE  After(p, f)'
<1>1. PICK o : o = op[p]
  OBVIOUS
<1>2. o.pc = "create" /\ IsOp(o) /\ ~Cut(f, o)
  BY <1>1, AtWork DEF Create, At, Cut
<1>3. CASE End(p, FALSE) /\ UNCHANGED <<disk, temp>>
  BY <1>1, <1>2, <1>3, Fails
<1>4. CASE /\ IF o.file = "voice"
              THEN disk' = [disk EXCEPT !["voice"] = Empty] /\ UNCHANGED temp
              ELSE temp' = [temp EXCEPT ![o.file] = Empty] /\ UNCHANGED disk
           /\ fd' = [fd EXCEPT ![p] = IF o.file = "voice" THEN "disk" ELSE "temp"]
           /\ Goto(p, "fill") /\ UNCHANGED allowed
  <2>1. PICK s, n : s = "fill" /\ n = Rec(o.do, o.arg, s, o.file, o.copy, o.mem)
    OBVIOUS
  <2>2. Puts(p, n)
    BY <1>1, <1>4, <2>1, PutStep DEF Goto
  <2>3. /\ n.do = o.do /\ n.arg = o.arg /\ n.pc = "fill" /\ n.file = o.file
        /\ n.copy = o.copy
    BY <2>1, RecFields
  <2>4. op'[p] = n
    BY <2>2, Put
  <2>5. (Written(f, o) /\ Written(f, n)) \/ (~Written(f, o) /\ ~Written(f, n))
    BY <1>2, <2>3 DEF Written
  <2>6. CASE o.file # f
    <3>1. disk'[f] = disk[f]
      BY <1>4, <2>6 DEF AreFiles
    <3> QED BY <1>1, <1>2, <1>4, <2>2, <2>3, <2>5, <2>6, <3>1, Continues
  <2>7. CASE o.file = f
    <3>1. ~Written(f, n) /\ ~Written(f, o)
      BY <1>2, <2>3, <2>7 DEF Written
    <3>2. Says(f, o.copy, Owed(o.do, o.arg, allowed)) /\ Says(f, Reader(f, disk[f]), allowed)
      BY <1>1, <1>2, <2>7, <3>1 DEF Seen, AtFile
    <3>3. IF f = "voice" THEN disk'[f] = Empty /\ fd'[p] = "disk"
          ELSE temp'[f] = Empty /\ fd'[p] = "temp" /\ disk'[f] = disk[f]
      BY <1>4, <2>7 DEF AreFiles
    <3>4. AtFile(f, n, disk'[f], temp'[f], fd'[p], allowed)
      BY <2>3, <2>7, <3>1, <3>2, <3>3 DEF AtFile, Cut
    <3> QED BY <1>4, <2>3, <2>4, <3>4 DEF After, Seen
  <2> QED BY <2>6, <2>7
<1> QED BY <1>1, <1>3, <1>4 DEF Create

LEMMA FillAfter ==
    ASSUME AreOps, AreFiles, ArgsFit, NEW p \in Procs, Fill(p), NEW f \in Files \ {"nft"},
           f \in Touches(op[p].do), Seen(p, f), f \notin spoiled'
    PROVE  After(p, f)'
<1>1. PICK o : o = op[p]
  OBVIOUS
<1>2. o.pc = "fill" /\ IsOp(o)
  BY <1>1, AtWork DEF Fill, At
<1>3. f = "voice" => o.file = "voice"
  <2>1. ASSUME f = "voice" PROVE FirstFile(o.do) = "voice" /\ o.do \notin {"network apply", "model set"}
    BY <1>1, <2>1 DEF Touches, FirstFile
  <2> QED BY <1>1, <1>2, <2>1, AtEdits
<1>4. o.file # f \/ f # "voice" => ~Cut(f, o)
  BY <1>2, <1>3 DEF Cut
<1> DEFINE CutOff == /\ End(p, FALSE) /\ UNCHANGED <<disk, temp>>
                     /\ spoiled' = spoiled \cup ({"voice"} \cap {o.file})
           Filled ==
             /\ \/ fd[p] = "temp" /\ UNCHANGED disk
                   /\ \E r \in Over(temp[o.file], o.copy) : temp' = [temp EXCEPT ![o.file] = r]
                \/ fd[p] = "disk" /\ UNCHANGED temp
                   /\ \E r \in Over(disk[o.file], o.copy) : disk' = [disk EXCEPT ![o.file] = r]
                \/ fd[p] = "gone" /\ UNCHANGED <<disk, temp>>
             /\ IF o.file = "voice" THEN End(p, TRUE) ELSE Goto(p, "rename") /\ UNCHANGED allowed
<1>5. CASE CutOff
  <2>1. ~Cut(f, o)
    BY <1>4, <1>5
  <2> QED BY <1>1, <1>5, <2>1, Fails
<1>6. CASE o.file # f /\ disk'[f] = disk[f] /\ Goto(p, "rename") /\ UNCHANGED allowed
  <2>1. PICK s, n : s = "rename" /\ n = Rec(o.do, o.arg, s, o.file, o.copy, o.mem)
    OBVIOUS
  <2>2. Puts(p, n)
    BY <1>1, <1>6, <2>1, PutStep DEF Goto
  <2>3. n.do = o.do /\ n.arg = o.arg /\ n.pc = "rename" /\ n.file = o.file
    BY <2>1, RecFields
  <2>5. (Written(f, o) /\ Written(f, n)) \/ (~Written(f, o) /\ ~Written(f, n))
    BY <1>2, <2>3 DEF Written
  <2> QED BY <1>1, <1>4, <1>6, <2>2, <2>3, <2>5, Continues
<1>7. CASE o.file # f /\ o.file = "voice" /\ End(p, TRUE)
  <2>0. o.file \in Touches(o.do) /\ o.do \in Dos
    BY <1>1, <1>2, AtWork
  <2>1. o.do = "voice wake"
    BY <1>7, <2>0 DEF FirstFile, Edits, Touches, Dos
  <2>2. f = "voice"
    BY <1>1, <2>1 DEF FirstFile, Touches
  <2> QED BY <1>7, <2>2
<1>8. ASSUME o.file = f
      PROVE  /\ Says(f, o.copy, Owed(o.do, o.arg, allowed)) /\ ~Written(f, o)
             /\ IF f = "voice" THEN disk[f] = Empty /\ fd[p] = "disk"
                ELSE temp[f] = Empty /\ fd[p] = "temp" /\ Says(f, Reader(f, disk[f]), allowed)
  <2>1. ~Written(f, o)
    BY <1>2, <1>8 DEF Written
  <2> QED BY <1>1, <1>2, <1>4, <1>8, <2>1 DEF Seen, AtFile
<1>9. CASE /\ o.file = f /\ f # "voice" /\ temp' = [temp EXCEPT ![f] = o.copy] /\ UNCHANGED disk
           /\ Goto(p, "rename") /\ UNCHANGED allowed
  <2>1. PICK s, n : s = "rename" /\ n = Rec(o.do, o.arg, s, o.file, o.copy, o.mem)
    OBVIOUS
  <2>2. Puts(p, n)
    BY <1>1, <1>9, <2>1, PutStep DEF Goto
  <2>3. /\ n.do = o.do /\ n.arg = o.arg /\ n.pc = "rename" /\ n.file = o.file
        /\ n.copy = o.copy
    BY <2>1, RecFields
  <2>4. op'[p] = n
    BY <2>2, Put
  <2>5. ~Written(f, n)
    BY <1>9, <2>3 DEF Written
  <2>6. temp'[f] = o.copy
    BY <1>9 DEF AreFiles
  <2>7. AtFile(f, n, disk[f], temp'[f], fd'[p], allowed)
    BY <1>8, <1>9, <2>3, <2>5, <2>6 DEF AtFile
  <2> QED BY <1>9, <2>3, <2>4, <2>7 DEF After, Seen
<1>10. CASE o.file = f /\ f = "voice" /\ disk' = [disk EXCEPT ![f] = o.copy] /\ End(p, TRUE)
  <2>1. disk'[f] = o.copy
    BY <1>10 DEF AreFiles
  <2>2. Reader(f, o.copy) = o.copy
    BY <1>8, <1>10, ReadsWhole DEF Says
  <2> QED BY <1>1, <1>8, <1>10, <2>1, <2>2, Ends
<1>11. CutOff \/ Filled
  BY <1>1 DEF Fill
<1>12. CASE o.file # f /\ Filled
  <2>1. disk'[f] = disk[f]
    BY <1>12 DEF AreFiles
  <2> QED BY <1>6, <1>7, <1>12, <2>1
<1>13. CASE o.file = f /\ Filled
  BY <1>8, <1>9, <1>10, <1>13 DEF Over
<1> QED BY <1>5, <1>11, <1>12, <1>13

\* A command that promises nothing of the files.
LEMMA NoPromise ==
    ASSUME NEW do \in {"network apply", "mounts apply", "up", "down", "reconcile"}, NEW arg
    PROVE  Promise(do, arg) = {}
BY DEF Promise

LEMMA RenameAfter ==
    ASSUME AreOps, AreFiles, ArgsFit, NEW p \in Procs, Rename(p), NEW f \in Files \ {"nft"},
           f \in Touches(op[p].do), Seen(p, f)
    PROVE  After(p, f)'
<1>1. PICK o : o = op[p]
  OBVIOUS
<1>2. o.pc = "rename" /\ IsOp(o) /\ ~Cut(f, o) /\ Typed(o.do, o.arg)
  BY <1>1, AtWork DEF Rename, At, Cut
<1>3. CASE End(p, FALSE) /\ UNCHANGED <<disk, temp>>
  BY <1>1, <1>2, <1>3, Fails
<1>4. ASSUME disk' = [disk EXCEPT ![o.file] = temp[o.file]], Puts(p, AfterRename(o)),
             allowed' = IF AfterRename(o) = Idle THEN Promised(o, TRUE) ELSE allowed
      PROVE  After(p, f)'
  <2>1. op'[p] = AfterRename(o)
    BY <1>4, Put
  <2>2. ASSUME o.file = f
        PROVE  Says(f, Reader(f, disk'[f]), Owed(o.do, o.arg, allowed))
    <3>1. Says(f, o.copy, Owed(o.do, o.arg, allowed)) /\ temp[f] = o.copy
      BY <1>1, <1>2, <2>2 DEF Seen, AtFile
    <3>2. disk'[f] = o.copy /\ Reader(f, o.copy) = o.copy
      BY <1>4, <2>2, <3>1, ReadsWhole DEF AreFiles, Says
    <3> QED BY <3>1, <3>2
  <2>3. o.file # f => disk'[f] = disk[f]
    BY <1>4 DEF AreFiles
  <2>4. CASE o.do = "model set" /\ o.file = "secrets"
    <3>1. PICK n : n = Rec(o.do, o.arg, "create", "provider", [id |-> o.arg], o.mem)
      OBVIOUS
    <3>2. AfterRename(o) = n
      <4>1. AfterRename(o) = Rec(o.do, o.arg, "create", "provider", [id |-> o.arg], o.mem)
        <5>1. AfterRename(o) =
                [o EXCEPT !.pc = "create", !.file = "provider", !.copy = [id |-> o.arg]]
          BY <2>4 DEF AfterRename, write_active_provider
        <5> QED BY <1>2, <5>1, SetPcFileCopy
      <4> QED BY <3>1, <4>1
    <3>3. /\ n.do = o.do /\ n.arg = o.arg /\ n.pc = "create" /\ n.file = "provider"
          /\ n.copy = [id |-> o.arg]
      BY <3>1, RecFields
    <3>4. allowed' = allowed
      BY <1>4, <3>2, <3>3, IdleIs
    <3>5. CASE f = "secrets"
      <4>1. AtFile(f, n, disk'[f], temp'[f], fd'[p], allowed)
        BY <2>2, <2>4, <3>3, <3>5 DEF AtFile, Written
      <4> QED BY <2>1, <3>2, <3>3, <3>4, <4>1 DEF After, Seen
    <3>6. CASE f = "provider"
      <4>1. Says(f, n.copy, Owed(o.do, o.arg, allowed))
        BY <1>2, <2>4, <3>3, <3>6, ProviderSays DEF Typed
      <4>2. ~Written(f, o) /\ ~Written(f, n)
        BY <1>2, <2>4, <3>3, <3>6 DEF Written
      <4> QED BY <1>1, <1>2, <1>4, <2>3, <2>4, <3>2, <3>3, <3>4, <3>6, <4>1, <4>2, Continues
    <3> QED BY <1>1, <1>2, <2>4, <3>5, <3>6, AtEdits
  <2>5. CASE o.do \in {"model register", "profile switch", "network apply"}
    <3>0. PICK s : /\ o.do = "model register" => s = "env"
                   /\ o.do = "profile switch" => s = "start"
                   /\ o.do = "network apply" => s = "nft"
                   /\ AfterRename(o) = [o EXCEPT !.pc = s]
      BY <2>5 DEF AfterRename
    <3>1. PICK n : n = Rec(o.do, o.arg, s, o.file, o.copy, o.mem)
      OBVIOUS
    <3>2. AfterRename(o) = n
      BY <1>2, <3>0, <3>1, SetOne
    <3>3. /\ n.do = o.do /\ n.arg = o.arg /\ n.pc = s /\ n.file = o.file
      BY <3>1, RecFields
    <3>4. allowed' = allowed
      BY <1>4, <2>5, <3>0, <3>2, <3>3, IdleIs
    <3>5. CASE o.do = "network apply"
      <4>1. Says(f, Reader(f, disk'[f]), allowed)
        <5>1. CASE o.file # f
          <6>1. ~Written(f, o)
            BY <3>5 DEF Written
          <6> QED BY <1>1, <1>2, <2>3, <5>1, <6>1 DEF Seen, AtFile
        <5>2. CASE o.file = f
          <6>1. \A x \in Promise(o.do, o.arg) : x[1] # f
            BY <3>5, NoPromise
          <6>2. ASSUME NEW k \in DOMAIN Defaults[f]
                PROVE  allowed[<<f, k>>] = Owed(o.do, o.arg, allowed)[<<f, k>>]
            BY <6>1, OwedNothing
          <6> QED BY <2>2, <5>2, <6>2, SaysSame
        <5> QED BY <5>1, <5>2
      <4>2. ~Written(f, n) /\ n.pc = "nft"
        BY <3>0, <3>3, <3>5 DEF Written
      <4>3. AtFile(f, n, disk'[f], temp'[f], fd'[p], allowed)
        BY <4>1, <4>2 DEF AtFile
      <4> QED BY <2>1, <3>2, <3>4, <4>2, <4>3 DEF After, Seen
    <3>6. CASE o.do \in {"model register", "profile switch"}
      <4>1. o.file = f
        BY <1>1, <1>2, <3>6, AtEdits
      <4>2. Written(f, n) /\ n.pc \in {"env", "start"}
        BY <3>0, <3>3, <3>6 DEF Written
      <4>3. AtFile(f, n, disk'[f], temp'[f], fd'[p], allowed)
        BY <2>2, <3>3, <4>1, <4>2 DEF AtFile
      <4> QED BY <2>1, <3>2, <3>4, <4>2, <4>3 DEF After, Seen
    <3> QED BY <2>5, <3>5, <3>6
  <2>6. CASE /\ ~(o.do = "model set" /\ o.file = "secrets")
             /\ o.do \notin {"model register", "profile switch", "network apply"}
    <3>1. AfterRename(o) = Idle
      BY <2>6 DEF AfterRename
    <3>2. allowed' = Owed(o.do, o.arg, allowed)
      BY <1>4, <3>1, OwedIs
    <3>3. Says(f, Reader(f, disk'[f]), Owed(o.do, o.arg, allowed))
      <4>1. CASE o.file = f
        BY <2>2, <4>1
      <4>2. CASE o.file # f
        <5>1. o.do = "model set" /\ f = "secrets" /\ o.file = "provider"
          BY <1>1, <1>2, <2>6, <4>2, AtEdits, AtWork
        <5>2. Written(f, o)
          BY <5>1 DEF Written
        <5> QED BY <1>1, <2>3, <4>2, <5>2 DEF Seen, AtFile
      <4> QED BY <4>1, <4>2
    <3> QED BY <2>1, <3>1, <3>2, <3>3, IdleIs DEF After
  <2> QED BY <2>4, <2>5, <2>6
<1>5. \/ End(p, FALSE) /\ UNCHANGED <<disk, temp>>
      \/ /\ disk' = [disk EXCEPT ![o.file] = temp[o.file]] /\ Puts(p, AfterRename(o))
         /\ allowed' = IF AfterRename(o) = Idle THEN Promised(o, TRUE) ELSE allowed
  BY <1>1 DEF Rename, Puts
<1> QED BY <1>3, <1>4, <1>5

\* The model's file is copied before the catalogue is read.
LEMMA CopyModelAfter ==
    ASSUME AreOps, AreFiles, ArgsFit, NEW p \in Procs, CopyModel(p), NEW f \in Files \ {"nft"},
           f \in Touches(op[p].do), Seen(p, f)
    PROVE  After(p, f)'
<1>1. PICK o : o = op[p]
  OBVIOUS
<1>2. /\ o.pc \in {"copy", "copying"} /\ o.do = "model register" /\ o.file = FirstFile(o.do)
      /\ disk' = disk /\ allowed' = allowed
  <2>1. /\ o.pc \in {"copy", "copying"} /\ o.do = "model register"
        /\ disk' = disk /\ allowed' = allowed
    BY <1>1 DEF CopyModel, At, fileVars, ghostVars
  <2>2. o.file \in Touches(o.do)
    BY <1>1, <2>1, AtWork
  <2> QED BY <2>1, <2>2 DEF Touches
<1>3. PICK s \in {"copying", "read"} : op' = [op EXCEPT ![p].pc = s]
  BY <1>1 DEF CopyModel, Goto
<1>4. PICK n : n = Rec(o.do, o.arg, s, o.file, o.copy, o.mem)
  OBVIOUS
<1>5. Puts(p, n)
  BY <1>1, <1>3, <1>4, PutStep
<1>6. n.do = o.do /\ n.arg = o.arg /\ n.pc = s /\ n.file = o.file
  BY <1>4, RecFields
<1>7. ~Written(f, o) /\ ~Written(f, n) /\ ~Cut(f, o)
  BY <1>2, <1>6 DEF Written, Cut
<1> QED BY <1>1, <1>2, <1>5, <1>6, <1>7, Continues

LEMMA register_ggufAfter ==
    ASSUME AreOps, AreFiles, ArgsFit, NEW p \in Procs, register_gguf(p), NEW f \in Files \ {"nft"},
           f \in Touches(op[p].do), Seen(p, f)
    PROVE  After(p, f)'
<1>1. PICK o : o = op[p]
  OBVIOUS
<1>2. disk' = disk /\ o.pc \in {"env", "enable"}
  BY <1>1 DEF register_gguf, At
<1>3. o.do = "model register"
  BY <1>1, <1>2, AtWork DEF StepsOf, EditSteps, Dos, Edits
<1>4. Written(f, o) /\ ~Cut(f, o)
  BY <1>2, <1>3 DEF Written, Cut
<1>5. CASE End(p, TRUE)
  BY <1>1, <1>2, <1>4, <1>5, Succeeds
<1>6. CASE Goto(p, "enable") /\ UNCHANGED allowed
  <2>1. PICK s, n : s = "enable" /\ n = Rec(o.do, o.arg, s, o.file, o.copy, o.mem)
    OBVIOUS
  <2>2. Puts(p, n)
    BY <1>1, <1>6, <2>1, PutStep DEF Goto
  <2>3. n.do = o.do /\ n.arg = o.arg /\ n.pc = "enable" /\ n.file = o.file
    BY <2>1, RecFields
  <2>4. Written(f, n)
    BY <1>3, <2>3 DEF Written
  <2> QED BY <1>1, <1>2, <1>4, <1>6, <2>2, <2>3, <2>4, Continues
<1> QED BY <1>5, <1>6 DEF register_gguf

LEMMA EndsPlainly ==
    ASSUME AreOps, NEW p \in Procs, NEW f \in Files \ {"nft"}, Seen(p, f), ~Cut(f, op[p]),
           op[p].do \in {"network apply", "mounts apply", "up", "down", "reconcile"},
           NEW b \in BOOLEAN, End(p, b), disk'[f] = disk[f]
    PROVE  After(p, f)'
<1>1. \A x \in Promise(op[p].do, op[p].arg) : x[1] # f
  BY NoPromise
<1>2. End(p, TRUE) \/ End(p, FALSE)
  OBVIOUS
<1> QED BY <1>1, <1>2, Succeeds, Fails

LEMMA AppliesAfter ==
    ASSUME AreOps, AreFiles, ArgsFit, NEW p \in Procs, apply_ruleset(p) \/ apply_mounts(p),
           NEW f \in Files \ {"nft"}, f \in Touches(op[p].do), Seen(p, f)
    PROVE  After(p, f)'
<1>1. PICK o : o = op[p]
  OBVIOUS
<1>2. o.pc \in {"nft", "restart"} /\ disk' = disk /\ \E b \in BOOLEAN : End(p, b)
  BY <1>1 DEF apply_ruleset, apply_mounts, At
<1>3. o.do \in {"network apply", "mounts apply"}
  BY <1>1, <1>2, AtWork DEF StepsOf, EditSteps, Dos, Edits
<1>4. ~Cut(f, o)
  BY <1>2 DEF Cut
<1> QED BY <1>1, <1>2, <1>3, <1>4, EndsPlainly

LEMMA KillAfter ==
    ASSUME AreOps, AreFiles, ArgsFit, NEW p \in Procs, Kill(p), NEW f \in Files \ {"nft"},
           f \in Touches(op[p].do), Seen(p, f), f \notin spoiled'
    PROVE  After(p, f)'
<1>1. PICK o : o = op[p]
  OBVIOUS
<1>2. /\ o.pc # "idle" /\ End(p, FALSE) /\ disk' = disk
      /\ spoiled' = spoiled \cup {g \in {"voice"} : o.file = g /\ o.pc = "fill"}
  BY <1>1 DEF Kill
<1>3. ASSUME Cut(f, o) PROVE FALSE
  <2>1. o.do = "voice wake"
    BY <1>1, <1>2, <1>3, AtWork DEF Cut, Touches, FirstFile, Dos, Edits
  <2>2. o.file = "voice"
    BY <1>1, <1>2, <2>1, AtWork DEF Touches, FirstFile
  <2> QED BY <1>2, <1>3, <2>2 DEF Cut
<1> QED BY <1>1, <1>2, <1>3, Fails

LEMMA profile_switchAfter ==
    ASSUME AreOps, AreFiles, ArgsFit, NEW p \in Procs, profile_switch(p), NEW f \in Files \ {"nft"},
           f \in Touches(op[p].do), Seen(p, f)
    PROVE  After(p, f)'
<1>1. PICK o : o = op[p]
  OBVIOUS
<1>2. /\ o.do = "profile switch" /\ o.pc \in {"current", "stop", "start"} /\ disk' = disk
      /\ IsOp(o)
  BY <1>1, AtWork DEF profile_switch, At
<1>3. f = "active" /\ o.file = f /\ o.arg \in Profiles /\ ~Cut(f, o) /\ FirstFile(o.do) = f
  BY <1>1, <1>2, AtWork DEF Touches, FirstFile, Cut, Typed
<1>4. CASE op' = [op EXCEPT ![p] = Idle] /\ allowed' = allowed /\ o.pc # "start"
  BY <1>1, <1>2, <1>3, <1>4, Quits DEF Written
<1>5. CASE o.pc = "start" /\ End(p, TRUE)
  <2>1. Written(f, o)
    BY <1>2, <1>5 DEF Written
  <2> QED BY <1>1, <1>2, <1>3, <1>5, <2>1, Succeeds
<1>6. CASE /\ \E m : op' = [op EXCEPT ![p] = [o EXCEPT !.pc = "stop", !.mem = m]]
           /\ allowed' = allowed /\ o.pc # "start"
  <2>1. PICK m : op' = [op EXCEPT ![p] = [o EXCEPT !.pc = "stop", !.mem = m]]
    BY <1>6
  <2>2. PICK n : n = Rec(o.do, o.arg, "stop", o.file, o.copy, m)
    OBVIOUS
  <2>3. Puts(p, n)
    <3>1. [o EXCEPT !.pc = "stop", !.mem = m] = Rec(o.do, o.arg, "stop", o.file, o.copy, m)
      BY <1>2, SetPcMem
    <3> QED BY <2>1, <2>2, <3>1 DEF Puts
  <2>4. n.do = o.do /\ n.arg = o.arg /\ n.pc = "stop" /\ n.file = o.file
    BY <2>2, RecFields
  <2>5. ~Written(f, o) /\ ~Written(f, n)
    BY <1>2, <1>6, <2>4 DEF Written
  <2> QED BY <1>1, <1>2, <1>3, <1>6, <2>3, <2>4, <2>5, Continues
<1>7. CASE op' = [op EXCEPT ![p] = swap_active_profile(o)] /\ allowed' = allowed /\ o.pc # "start"
  <2>2. PICK n : n = Rec(o.do, o.arg, "create", o.file, [id |-> o.arg], o.mem)
    OBVIOUS
  <2>3. Puts(p, n)
    <3>1. swap_active_profile(o) = Rec(o.do, o.arg, "create", o.file, [id |-> o.arg], o.mem)
      BY <1>2, SetPcCopy DEF swap_active_profile
    <3> QED BY <1>7, <2>2, <3>1 DEF Puts
  <2>4. /\ n.do = o.do /\ n.arg = o.arg /\ n.pc = "create" /\ n.file = o.file
        /\ n.copy = [id |-> o.arg]
    BY <2>2, RecFields
  <2>5. ~Written(f, o) /\ ~Written(f, n)
    BY <1>2, <1>7, <2>4 DEF Written
  <2>6. Says(f, n.copy, Owed(o.do, o.arg, allowed))
    BY <1>2, <1>3, <2>4, PointerSays
  <2> QED BY <1>1, <1>2, <1>3, <1>7, <2>3, <2>4, <2>5, <2>6, Continues
<1>8. \/ op' = [op EXCEPT ![p] = Idle] /\ allowed' = allowed /\ o.pc # "start"
      \/ o.pc = "start" /\ End(p, TRUE)
      \/ /\ \E m : op' = [op EXCEPT ![p] = [o EXCEPT !.pc = "stop", !.mem = m]]
         /\ allowed' = allowed /\ o.pc # "start"
      \/ op' = [op EXCEPT ![p] = swap_active_profile(o)] /\ allowed' = allowed /\ o.pc # "start"
  BY <1>1 DEF profile_switch, At
<1> QED BY <1>4, <1>5, <1>6, <1>7, <1>8

\* Commands that only read the pointer.
LEMMA LifecycleAfter ==
    ASSUME AreOps, AreFiles, ArgsFit, NEW p \in Procs, cmd_lifecycle(p) \/ reconcile(p),
           NEW f \in Files \ {"nft"}, f \in Touches(op[p].do), Seen(p, f)
    PROVE  After(p, f)'
<1>1. PICK o : o = op[p]
  OBVIOUS
<1>2. /\ o.do \in {"up", "down", "reconcile"} /\ disk' = disk
      /\ o.pc \in {"unit", "up", "down", "components", "probe"}
  BY <1>1 DEF cmd_lifecycle, reconcile, At
<1>3. IsOp(o) /\ ~Written(f, o) /\ ~Cut(f, o)
  BY <1>1, <1>2, AtWork DEF Written, Cut
<1>4. CASE op' = [op EXCEPT ![p] = Idle] /\ allowed' = allowed
  BY <1>1, <1>2, <1>3, <1>4, Quits
<1>5. CASE End(p, TRUE)
  BY <1>1, <1>2, <1>3, <1>5, EndsPlainly
<1>6. CASE \E s \in {"up", "down", "probe"} : \E m :
             op' = [op EXCEPT ![p] = [o EXCEPT !.pc = s, !.mem = m]] /\ allowed' = allowed
  <2>0. PICK s \in {"up", "down", "probe"} :
          \E m : op' = [op EXCEPT ![p] = [o EXCEPT !.pc = s, !.mem = m]] /\ allowed' = allowed
    BY <1>6
  <2>1. PICK m : op' = [op EXCEPT ![p] = [o EXCEPT !.pc = s, !.mem = m]] /\ allowed' = allowed
    BY <2>0
  <2>2. PICK n : n = Rec(o.do, o.arg, s, o.file, o.copy, m)
    OBVIOUS
  <2>3. Puts(p, n)
    <3>1. [o EXCEPT !.pc = s, !.mem = m] = Rec(o.do, o.arg, s, o.file, o.copy, m)
      BY <1>3, SetPcMem
    <3> QED BY <2>1, <2>2, <3>1 DEF Puts
  <2>4. n.do = o.do /\ n.arg = o.arg /\ n.pc = s /\ n.file = o.file
    BY <2>2, RecFields
  <2>5. ~Written(f, n)
    BY <1>2, <2>4 DEF Written
  <2> QED BY <1>1, <1>2, <1>3, <2>1, <2>3, <2>4, <2>5, Continues
<1>7. \/ op' = [op EXCEPT ![p] = Idle] /\ allowed' = allowed
      \/ End(p, TRUE)
      \/ /\ o.do \in {"up", "down"} /\ allowed' = allowed
         /\ op' = [op EXCEPT ![p] = [o EXCEPT !.pc = o.do, !.mem = ActiveProfile]]
      \/ /\ op' = [op EXCEPT ![p] = [o EXCEPT !.pc = "probe", !.mem = ActiveProfile]]
         /\ allowed' = allowed
  BY <1>1 DEF cmd_lifecycle, reconcile
<1> QED BY <1>4, <1>5, <1>6, <1>7

\* What a truncated key file and a removed pointer say is what a reset promises.
LEMMA ResetSays ==
    ASSUME NEW values, NEW arg
    PROVE  /\ \A d \in {Missing, Empty} :
                Says("secrets", Reader("secrets", d), Owed("factory-reset", arg, values))
           /\ Says("active", Reader("active", Missing), Owed("factory-reset", arg, values))
           /\ \A x \in Promise("factory-reset", arg) : x[1] # "provider"
<1>0. PICK do : do = "factory-reset"
  OBVIOUS
<1>1. Promise(do, arg) = {<<"secrets", i, None>> : i \in Providers} \cup {<<"active", "id", None>>}
  BY <1>0 DEF Promise
<1>2. Says("secrets", NoKeys, Owed(do, arg, values))
  <2>1. NoKeys \in Whole("secrets") /\ \A k \in Providers : NoKeys[k] = None
    BY DEF NoKeys, Whole, Contents
  <2>2. DOMAIN Defaults["secrets"] = Providers
    BY Keys
  <2>3. \A k \in DOMAIN Defaults["secrets"] : <<"secrets", k, NoKeys[k]>> \in Promise(do, arg)
    BY <1>1, <2>1, <2>2
  <2> QED BY <2>1, <2>3, SaysOwed DEF Files
<1>3. Says("active", [id |-> None], Owed(do, arg, values))
  <2>0. PICK c : c = [id |-> None]
    OBVIOUS
  <2>1. c \in Whole("active") /\ c["id"] = None
    BY <2>0 DEF Whole, Contents
  <2>2. DOMAIN Defaults["active"] = {"id"}
    BY Keys
  <2>3. \A k \in DOMAIN Defaults["active"] : <<"active", k, c[k]>> \in Promise(do, arg)
    BY <1>1, <2>1, <2>2
  <2>4. Says("active", c, Owed(do, arg, values))
    BY <2>1, <2>3, SaysOwed DEF Files
  <2> QED BY <2>0, <2>4
<1>4. /\ \A d \in {Missing, Empty} : Reader("secrets", d) = NoKeys
      /\ Reader("active", Missing) = [id |-> None]
  BY DEF Reader, existing_secrets, read_active_profile_id, Torn
<1>5. \A x \in Promise(do, arg) : x[1] # "provider"
  BY <1>1
<1> QED BY <1>0, <1>2, <1>3, <1>4, <1>5

LEMMA factory_resetAfter ==
    ASSUME AreOps, AreFiles, ArgsFit, NEW p \in Procs, factory_reset(p), NEW f \in Files \ {"nft"},
           f \in Touches(op[p].do), Seen(p, f)
    PROVE  After(p, f)'
<1>1. PICK o : o = op[p]
  OBVIOUS
<1>2. o.do = "factory-reset" /\ IsOp(o) /\ f \in {"secrets", "active", "provider"}
      /\ o.pc \in {"plan", "stop", "stash", "wipe", "restore", "truncate", "pointer", "wizard"}
      /\ temp' = temp
  <2>1. o.do = "factory-reset" /\ temp' = temp
      /\ o.pc \in {"plan", "stop", "stash", "wipe", "restore", "truncate", "pointer", "wizard"}
    BY <1>1 DEF factory_reset, At
  <2> QED BY <1>1, <2>1, AtWork DEF Touches, FirstFile
<1>3. ~Cut(f, o)
  BY <1>2 DEF Cut
<1> DEFINE Early == {"plan", "stop", "stash", "wipe", "restore", "truncate"}
<1>4. CASE End(p, FALSE) /\ disk' = disk
  BY <1>1, <1>2, <1>3, <1>4, Fails
<1>5. ASSUME NEW s, NEW y, NEW m, op'[p] = Rec(o.do, o.arg, s, o.file, y, m),
             Puts(p, Rec(o.do, o.arg, s, o.file, y, m)), disk'[f] = disk[f], allowed' = allowed,
             \/ s \in Early /\ o.pc \in Early
             \/ s = "pointer" /\ f # "secrets" /\ o.pc \in Early
             \/ s = "wizard" /\ o.pc = "pointer" /\ f # "active"
      PROVE  After(p, f)'
  <2>1. PICK n : n = Rec(o.do, o.arg, s, o.file, y, m)
    OBVIOUS
  <2>2. n.do = o.do /\ n.arg = o.arg /\ n.pc = s /\ n.file = o.file
    BY <2>1, RecFields
  <2>3. (Written(f, o) /\ Written(f, n)) \/ (~Written(f, o) /\ ~Written(f, n))
    BY <1>2, <1>5, <2>2 DEF Written
  <2>4. s \notin {"idle", "create", "fill", "rename", "read"}
    BY <1>5
  <2> QED BY <1>1, <1>3, <1>5, <2>1, <2>2, <2>3, <2>4, Continues
<1>6. ASSUME NEW s, op' = [op EXCEPT ![p].pc = s]
      PROVE  op'[p] = Rec(o.do, o.arg, s, o.file, o.copy, o.mem)
             /\ Puts(p, Rec(o.do, o.arg, s, o.file, o.copy, o.mem))
  BY <1>1, <1>6, PutStep, Put
<1>7. CASE o.pc \in {"plan", "stop", "stash", "wipe", "restore"}
  <2>1. CASE o.pc = "plan" /\ \E m : op' = [op EXCEPT ![p].pc = "stop", ![p].mem = m]
             /\ UNCHANGED <<disk, allowed>>
    <3>1. PICK m : op' = [op EXCEPT ![p].pc = "stop", ![p].mem = m]
      BY <2>1
    <3>2. Puts(p, Rec(o.do, o.arg, "stop", o.file, o.copy, m))
      BY <1>1, <3>1, PutMem
    <3> QED BY <1>5, <2>1, <3>2, Put
  <2>2. CASE o.pc = "stash" /\ \E y : op' = [op EXCEPT ![p].pc = "wipe", ![p].copy = y]
             /\ UNCHANGED <<disk, allowed>>
    <3>1. PICK y : op' = [op EXCEPT ![p].pc = "wipe", ![p].copy = y]
      BY <2>2
    <3>2. Puts(p, Rec(o.do, o.arg, "wipe", o.file, y, o.mem))
      BY <1>1, <3>1, PutCopy
    <3> QED BY <1>5, <2>2, <3>2, Put
  <2>3. CASE \E s \in {"stash", "wipe", "restore", "truncate"} : op' = [op EXCEPT ![p].pc = s]
             /\ UNCHANGED <<disk, allowed>>
    <3>1. PICK s \in {"stash", "wipe", "restore", "truncate"} : op' = [op EXCEPT ![p].pc = s]
      BY <2>3
    <3> QED BY <1>5, <1>6, <1>7, <2>3, <3>1
  <2>4. \/ End(p, FALSE) /\ disk' = disk
        \/ o.pc = "plan" /\ op' = [op EXCEPT ![p].pc = "stop", ![p].mem = ActiveProfile]
           /\ UNCHANGED <<disk, allowed>>
        \/ o.pc = "stash" /\ op' = [op EXCEPT ![p].pc = "wipe", ![p].copy = sshKeys]
           /\ UNCHANGED <<disk, allowed>>
        \/ \E s \in {"stash", "wipe", "restore", "truncate"} : op' = [op EXCEPT ![p].pc = s]
           /\ UNCHANGED <<disk, allowed>>
    BY <1>1, <1>7 DEF factory_reset, At, wipe_data_dir, restore_preserved, Goto
  <2> QED BY <1>4, <2>1, <2>2, <2>3, <2>4
<1>8. CASE o.pc = "truncate"
  <2>1. \/ End(p, FALSE) /\ disk' = disk
        \/ truncate_preserving_mode("secrets") /\ Goto(p, "pointer") /\ UNCHANGED allowed
    BY <1>1, <1>8 DEF factory_reset, At
  <2>2. CASE truncate_preserving_mode("secrets") /\ Goto(p, "pointer") /\ UNCHANGED allowed
    <3>1. PICK n : n = Rec(o.do, o.arg, "pointer", o.file, o.copy, o.mem)
      OBVIOUS
    <3>2. op'[p] = n /\ Puts(p, n)
      BY <1>6, <2>2, <3>1 DEF Goto
    <3>3. CASE f # "secrets"
      <4>1. disk'[f] = disk[f]
        BY <2>2, <3>3 DEF truncate_preserving_mode, AreFiles
      <4> QED BY <1>5, <1>8, <2>2, <3>1, <3>2, <3>3, <4>1
    <3>4. CASE f = "secrets"
      <4>1. disk'[f] \in {Missing, Empty}
        BY <2>2, <3>4 DEF truncate_preserving_mode, AreFiles
      <4>2. n.do = o.do /\ n.arg = o.arg /\ n.pc = "pointer"
        BY <3>1, RecFields
      <4>3. Says(f, Reader(f, disk'[f]), Owed(n.do, n.arg, allowed))
        BY <1>2, <3>4, <4>1, <4>2, ResetSays
      <4>4. Written(f, n)
        BY <1>2, <3>4, <4>2 DEF Written
      <4>5. AtFile(f, n, disk'[f], temp'[f], fd'[p], allowed)
        BY <4>2, <4>3, <4>4 DEF AtFile
      <4> QED BY <2>2, <3>2, <4>2, <4>5 DEF After, Seen
    <3> QED BY <3>3, <3>4
  <2> QED BY <1>4, <2>1, <2>2
<1>9. CASE o.pc = "pointer"
  <2>1. \/ End(p, FALSE) /\ disk' = disk
        \/ disk' = [disk EXCEPT !["active"] = Missing] /\ Goto(p, "wizard") /\ UNCHANGED allowed
    BY <1>1, <1>9 DEF factory_reset, At
  <2>2. CASE disk' = [disk EXCEPT !["active"] = Missing] /\ Goto(p, "wizard") /\ UNCHANGED allowed
    <3>1. PICK n : n = Rec(o.do, o.arg, "wizard", o.file, o.copy, o.mem)
      OBVIOUS
    <3>2. op'[p] = n /\ Puts(p, n)
      BY <1>6, <2>2, <3>1 DEF Goto
    <3>3. CASE f # "active"
      <4>1. disk'[f] = disk[f]
        BY <2>2, <3>3 DEF AreFiles
      <4> QED BY <1>5, <1>9, <2>2, <3>1, <3>2, <3>3, <4>1
    <3>4. CASE f = "active"
      <4>1. disk'[f] = Missing
        BY <2>2, <3>4 DEF AreFiles
      <4>2. n.do = o.do /\ n.arg = o.arg /\ n.pc = "wizard"
        BY <3>1, RecFields
      <4>3. Says(f, Reader(f, disk'[f]), Owed(n.do, n.arg, allowed))
        BY <1>2, <3>4, <4>1, <4>2, ResetSays
      <4>4. Written(f, n)
        BY <1>2, <3>4, <4>2 DEF Written
      <4>5. AtFile(f, n, disk'[f], temp'[f], fd'[p], allowed)
        BY <4>2, <4>3, <4>4 DEF AtFile
      <4> QED BY <2>2, <3>2, <4>2, <4>5 DEF After, Seen
    <3> QED BY <3>3, <3>4
  <2> QED BY <1>4, <2>1, <2>2
<1>10. CASE o.pc = "wizard"
  <2>1. (End(p, FALSE) \/ End(p, TRUE)) /\ disk' = disk
    BY <1>1, <1>10 DEF factory_reset, At
  <2>2. Written(f, o) \/ \A x \in Promise(o.do, o.arg) : x[1] # f
    <3>1. CASE f = "provider"
      BY <1>2, <3>1, ResetSays
    <3>2. CASE f # "provider"
      BY <1>2, <1>10, <3>2 DEF Written
    <3> QED BY <3>1, <3>2
  <2> QED BY <1>1, <1>3, <1>4, <2>1, <2>2, Succeeds
<1> QED BY <1>2, <1>7, <1>8, <1>9, <1>10

\* The cost guard reads the caps and the pointer and changes neither.
LEMMA CostAfter ==
    ASSUME AreOps, AreFiles, ArgsFit, NEW p \in Procs,
           check_caps_and_maybe_pause(p) \/ clear_tripped_marker(p), NEW f \in Files \ {"nft"},
           f \in Touches(op[p].do), Seen(p, f)
    PROVE  After(p, f)'
<1>1. PICK o : o = op[p]
  OBVIOUS
<1>2. /\ o.do \in {"cost check", "cost reset"} /\ disk' = disk /\ allowed' = allowed
      /\ o.pc \in {"evaluate", "hooks", "marker", "load", "pause", "clear"}
  BY <1>1 DEF check_caps_and_maybe_pause, clear_tripped_marker, At, fileVars
<1>3. IsOp(o) /\ ~Written(f, o) /\ ~Cut(f, o)
  BY <1>1, <1>2, AtWork DEF Written, Cut
<1>4. CASE op' = [op EXCEPT ![p] = Idle]
  BY <1>1, <1>2, <1>3, <1>4, Quits
<1>5. ASSUME NEW s \in {"hooks", "stuck", "marker", "load", "pause"}, NEW y, NEW m,
             Puts(p, Rec(o.do, o.arg, s, o.file, y, m))
      PROVE  After(p, f)'
  <2>1. PICK n : n = Rec(o.do, o.arg, s, o.file, y, m)
    OBVIOUS
  <2>2. n.do = o.do /\ n.arg = o.arg /\ n.pc = s /\ n.file = o.file
    BY <2>1, RecFields
  <2>3. ~Written(f, n)
    BY <1>2, <2>2 DEF Written
  <2> QED BY <1>1, <1>2, <1>3, <1>5, <2>1, <2>2, <2>3, Continues
<1>6. ASSUME NEW s \in {"stuck", "load"}, Goto(p, s) PROVE After(p, f)'
  BY <1>1, <1>5, <1>6, PutStep DEF Goto
<1>7. ASSUME NEW y, op' = [op EXCEPT ![p] = [o EXCEPT !.pc = "hooks", !.copy = y]]
      PROVE  After(p, f)'
  <2>1. Puts(p, Rec(o.do, o.arg, "hooks", o.file, y, o.mem))
    BY <1>3, <1>7, SetPcCopy DEF Puts
  <2> QED BY <1>5, <2>1
<1>8. CASE op' = [op EXCEPT ![p] = [o EXCEPT !.pc = "marker"]]
  <2>1. Puts(p, Rec(o.do, o.arg, "marker", o.file, o.copy, o.mem))
    BY <1>3, <1>8, SetOne DEF Puts
  <2> QED BY <1>5, <2>1
<1>9. ASSUME NEW m, op' = [op EXCEPT ![p] = [o EXCEPT !.pc = "pause", !.mem = m]]
      PROVE  After(p, f)'
  <2>1. Puts(p, Rec(o.do, o.arg, "pause", o.file, o.copy, m))
    <3>1. [o EXCEPT !.pc = "pause", !.mem = m] = Rec(o.do, o.arg, "pause", o.file, o.copy, m)
      BY <1>3, SetPcMem
    <3> QED BY <1>9, <3>1 DEF Puts
  <2> QED BY <1>5, <2>1
<1>10. \/ op' = [op EXCEPT ![p] = Idle]
       \/ Goto(p, "stuck") \/ Goto(p, "load")
       \/ op' = [op EXCEPT ![p] = [o EXCEPT !.pc = "hooks", !.copy = load_config_from(disk["cost"])]]
       \/ op' = [op EXCEPT ![p] = [o EXCEPT !.pc = "marker"]]
       \/ op' = [op EXCEPT ![p] = [o EXCEPT !.pc = "pause", !.mem = ActiveProfile]]
  BY <1>1 DEF check_caps_and_maybe_pause, clear_tripped_marker, write_tripped_marker
<1> QED BY <1>4, <1>6, <1>7, <1>8, <1>9, <1>10

-----------------------------------------------------------------------------
(* All the files *)

LEMMA ActsAfter ==
    ASSUME AreOps, AreFiles, ArgsFit, NEW p \in Procs, Acts(p), NEW f \in Files \ {"nft"},
           f \in Touches(op[p].do), Seen(p, f), f \notin spoiled'
    PROVE  After(p, f)'
BY ReadFileAfter, CreateAfter, FillAfter, RenameAfter, CopyModelAfter, register_ggufAfter,
   AppliesAfter, KillAfter, profile_switchAfter, LifecycleAfter, factory_resetAfter, CostAfter
   DEF Acts

\* Values are given by the end of a command only.
LEMMA AllowedSteps ==
    ASSUME NEW p \in Procs, Acts(p)
    PROVE  \/ allowed' = allowed
           \/ allowed' = Owed(op[p].do, op[p].arg, allowed)
           \/ allowed' = Left(op[p].do, op[p].arg, allowed)
<1>1. \/ allowed' = allowed
      \/ allowed' = Promised(op[p], TRUE)
      \/ allowed' = Promised(op[p], FALSE)
  <2>1. CASE ReadFile(p) \/ CopyModel(p)
    BY <2>1 DEF ReadFile, CopyModel, ghostVars
  <2>2. CASE Create(p)
    BY <2>2 DEF Create, End
  <2>3. CASE Fill(p)
    BY <2>3 DEF Fill, End
  <2>4. CASE Rename(p)
    BY <2>4 DEF Rename, End
  <2>5. CASE register_gguf(p)
    BY <2>5 DEF register_gguf, End
  <2>6. CASE apply_ruleset(p)
    BY <2>6 DEF apply_ruleset, End
  <2>7. CASE apply_mounts(p)
    <3>1. PICK b \in BOOLEAN : End(p, b)
      BY <2>7 DEF apply_mounts
    <3> QED BY <3>1 DEF End
  <2>8. CASE profile_switch(p)
    BY <2>8 DEF profile_switch, End
  <2>9. CASE cmd_lifecycle(p) \/ reconcile(p)
    BY <2>9 DEF cmd_lifecycle, reconcile, End
  <2>10. CASE factory_reset(p)
    BY <2>10 DEF factory_reset, wipe_data_dir, restore_preserved, End
  <2>11. CASE check_caps_and_maybe_pause(p) \/ clear_tripped_marker(p) \/ Kill(p)
    BY <2>11 DEF check_caps_and_maybe_pause, clear_tripped_marker, Kill, End
  <2> QED BY <2>1, <2>2, <2>3, <2>4, <2>5, <2>6, <2>7, <2>8, <2>9, <2>10, <2>11 DEF Acts
<1> QED BY <1>1, OwedIs

LEMMA KeptActs ==
    ASSUME AreOps, AreFiles, Apart, ArgsFit, Kept, NEW p \in Procs, Acts(p)
    PROVE  Kept'
<1>1. spoiled \subseteq spoiled'
  BY ActsAdd
<1>2. PICK o : o = op[p] /\ o.pc # "idle"
  BY ActsGoes DEF Goes
<1>3. /\ \A q \in Procs : q # p => op'[q] = op[q]
      /\ op'[p].pc = "idle" \/ op'[p].do = o.do
  BY <1>2, ActsGoes, Put DEF Goes
<1>4. ASSUME NEW f \in Files \ (spoiled' \cup {"nft"})
      PROVE  /\ f \notin Busy' => Says(f, Reader(f, disk[f]), allowed)'
             /\ \A q \in Procs : op'[q].pc # "idle" /\ f \in Touches(op'[q].do) => Seen(q, f)'
  <2>1. f \in Files \ {"nft"} /\ f \notin spoiled /\ f \notin spoiled'
    BY <1>1
  <2>2. /\ f \notin Busy => Says(f, Reader(f, disk[f]), allowed)
        /\ \A q \in Procs : op[q].pc # "idle" /\ f \in Touches(op[q].do) => Seen(q, f)
    BY <2>1 DEF Kept, Seen
  <2>3. CASE f \in Touches(o.do)
    <3>1. After(p, f)'
      BY <1>2, <2>1, <2>2, <2>3, ActsAfter
    <3>2. \A q \in Procs : q # p => op[q].pc = "idle" \/ f \notin Touches(op[q].do)
      BY <1>2, <2>1, <2>3 DEF Apart
    <3>3. CASE op'[p].pc = "idle"
      <4>1. Says(f, Reader(f, disk[f]), allowed)'
        BY <3>1, <3>3 DEF After
      <4> QED BY <1>3, <3>2, <3>3, <4>1
    <3>4. CASE op'[p].pc # "idle"
      <4>1. Seen(p, f)'
        BY <3>1, <3>4 DEF After
      <4>2. f \in Busy'
        BY <1>3, <2>3, <3>4 DEF Busy
      <4> QED BY <1>3, <3>2, <4>1, <4>2
    <3> QED BY <3>3, <3>4
  <2>4. CASE f \notin Touches(o.do)
    <3>1. /\ disk'[f] = disk[f] /\ temp'[f] = temp[f]
          /\ \A q \in Procs : q # p /\ op[q].file = f => fd'[q] = fd[q]
      BY <1>2, <2>1, <2>4, FilesApart
    <3>2. ASSUME NEW k \in DOMAIN Defaults[f] PROVE allowed'[<<f, k>>] = allowed[<<f, k>>]
      <4>1. \A x \in Promise(o.do, o.arg) : x[1] # f
        BY <2>4, Triples
      <4> QED BY <1>2, <2>1, <4>1, AllowedSteps, OwedNothing
    <3>3. ASSUME NEW c, Says(f, c, allowed) PROVE Says(f, c, allowed')
      BY <3>2, <3>3, SaysSame
    <3>4. op'[p].pc = "idle" \/ f \notin Touches(op'[p].do)
      BY <1>3, <2>4
    <3>5. f \notin Busy' => f \notin Busy
      BY <1>2, <1>3, <2>4 DEF Busy
    <3>6. ASSUME NEW q \in Procs, q # p, op[q].pc # "idle", f \in Touches(op[q].do)
          PROVE  Seen(q, f)'
      <4>1. PICK n, A, B : n = op[q] /\ A = allowed /\ B = allowed'
        OBVIOUS
      <4>2. AtFile(f, n, disk[f], temp[f], fd[q], A)
        BY <2>2, <3>6, <4>1 DEF Seen
      <4>3. ASSUME NEW c, Says(f, c, Owed(n.do, n.arg, A)) PROVE Says(f, c, Owed(n.do, n.arg, B))
        <5>1. ASSUME NEW k \in DOMAIN Defaults[f]
              PROVE  Owed(n.do, n.arg, B)[<<f, k>>] = Owed(n.do, n.arg, A)[<<f, k>>]
          BY <2>1, <3>2, <4>1, OwedAt
        <5> QED BY <4>3, <5>1, SaysSame
      <4>4. ASSUME NEW c, Says(f, c, A) PROVE Says(f, c, B)
        BY <3>3, <4>1, <4>4
      <4>5. n.file = f => fd'[q] = fd[q]
        BY <3>1, <3>6, <4>1
      <4>6. AtFile(f, n, disk[f], temp[f], fd'[q], B)
        BY <4>2, <4>3, <4>4, <4>5 DEF AtFile
      <4> QED BY <1>3, <3>1, <3>6, <4>1, <4>6 DEF Seen
    <3> QED BY <1>3, <2>2, <3>1, <3>3, <3>4, <3>5, <3>6
  <2> QED BY <1>2, <2>3, <2>4
<1> QED BY <1>4 DEF Kept, Seen

LEMMA ArgsActs ==
    ASSUME AreOps, ArgsFit, NEW p \in Procs, Acts(p)
    PROVE  ArgsFit'
<1>1. /\ \A q \in Procs : q # p => op'[q] = op[q]
      /\ op[p].pc # "idle"
      /\ op'[p].pc = "idle" \/ (op'[p].do = op[p].do /\ op'[p].arg = op[p].arg)
  BY ActsGoes, Put DEF Goes
<1> QED BY <1>1 DEF ArgsFit

LEMMA BeginKeeps ==
    ASSUME AreOps, AreFiles, Apart, ArgsFit, Kept, NEW p \in Procs, NEW c \in Commands, Begin(p, c)
    PROVE  Kept' /\ ArgsFit'
<1>1. PICK n : n = Rec(c[1], c[2], FirstStep(c[1]), FirstFile(c[1]), None, None)
  OBVIOUS
<1>2. op'[p] = n /\ \A q \in Procs : q # p => op'[q] = op[q]
  BY <1>1, BeginPuts, Put
<1>3. n.do = c[1] /\ n.arg = c[2] /\ n.pc = FirstStep(c[1]) /\ n.file = FirstFile(n.do)
  BY <1>1, RecFields
<1>4. /\ UNCHANGED <<disk, temp, fd, allowed>> /\ op[p].pc = "idle"
      /\ spoiled' = spoiled \cup (Touches(n.do) \cap Busy)
  BY <1>3 DEF Begin, fileVars
<1>5. n.pc \in {"read", "evaluate", "clear", "current", "plan", "unit", "components",
                "restart", "copy"}
  BY <1>3 DEF FirstStep
<1>6. ASSUME NEW f \in Files \ (spoiled' \cup {"nft"})
      PROVE  /\ f \notin Busy' => Says(f, Reader(f, disk[f]), allowed)'
             /\ \A q \in Procs : op'[q].pc # "idle" /\ f \in Touches(op'[q].do) => Seen(q, f)'
  <2>1. f \in Files \ {"nft"} /\ f \notin spoiled /\ f \notin spoiled'
    BY <1>4
  <2>2. /\ f \notin Busy => Says(f, Reader(f, disk[f]), allowed)
        /\ \A q \in Procs : op[q].pc # "idle" /\ f \in Touches(op[q].do) => Seen(q, f)
    BY <2>1 DEF Kept, Seen
  <2>3. \A q \in Procs : q # p /\ op'[q].pc # "idle" /\ f \in Touches(op'[q].do) => Seen(q, f)'
    BY <1>2, <1>4, <2>2 DEF Seen
  <2>4. ASSUME f \in Touches(n.do) PROVE Seen(p, f)'
    <3>1. Says(f, Reader(f, disk[f]), allowed)
      BY <1>4, <2>1, <2>2, <2>4
    <3>2. ~Written(f, n)
      BY <1>3, <1>5 DEF Written, FirstFile
    <3>3. AtFile(f, n, disk[f], temp[f], fd[p], allowed)
      BY <1>3, <1>5, <3>1, <3>2 DEF AtFile
    <3> QED BY <1>2, <1>4, <3>3 DEF Seen
  <2>5. f \notin Busy' => f \notin Busy
    BY <1>2, <1>4 DEF Busy
  <2> QED BY <1>2, <1>4, <2>2, <2>3, <2>4, <2>5
<1>7. ArgsFit'
  BY <1>2, <1>3, ArgsTyped DEF ArgsFit
<1> QED BY <1>6, <1>7 DEF Kept, Seen

LEMMA FrameKeeps ==
    ASSUME Kept, ArgsFit, UNCHANGED <<op, fileVars, ghostVars>>
    PROVE  Kept' /\ ArgsFit'
<1>1. UNCHANGED <<op, disk, temp, fd, allowed, spoiled>>
  BY DEF fileVars, ghostVars
<1>2. Busy' = Busy
  BY <1>1 DEF Busy
<1> QED BY <1>1, <1>2 DEF Kept, ArgsFit

\* A command that a power cut ends has done nothing, or what it promises.
LEMMA CutKeeps ==
    ASSUME AreOps, ArgsFit, Kept, PowerCut
    PROVE  Kept' /\ ArgsFit'
<1>1. \A p \in Procs : op'[p].pc = "idle"
  BY CutIdle
<1>2. ASSUME NEW f \in Files \ (spoiled' \cup {"nft"}) PROVE Says(f, Reader(f, disk[f]), allowed)'
  <2>0. /\ f \in Files \ (spoiled \cup {"nft"}) /\ f \in Files \ {"nft"} /\ disk' = disk
        /\ spoiled' = spoiled \cup
             {g \in {"voice"} : \E p \in Procs : op[p].file = g /\ op[p].pc = "fill"}
    BY DEF PowerCut
  <2>1. PICK d : d = Reader(f, disk[f])
    OBVIOUS
  <2> SUFFICES Says(f, d, allowed')
    BY <2>0, <2>1
  <2>2. ASSUME NEW values, Says(f, d, values),
               \A k \in DOMAIN Defaults[f] : values[<<f, k>>] \subseteq allowed'[<<f, k>>]
        PROVE  Says(f, d, allowed')
    BY <2>2 DEF Says
  <2>3. ASSUME NEW k \in DOMAIN Defaults[f]
        PROVE  allowed'[<<f, k>>] =
                 allowed[<<f, k>>] \cup UNION {Values(<<f, k>>, op[p].do, op[p].arg) : p \in Procs}
    BY <2>0, <2>3, IsSetting DEF PowerCut
  <2>4. Says(f, d, allowed) => Says(f, d, allowed')
    BY <2>2, <2>3
  <2>5. CASE f \notin Busy
    BY <2>0, <2>1, <2>4, <2>5 DEF Kept
  <2>6. CASE f \in Busy
    <3>1. PICK p \in Procs : op[p].pc # "idle" /\ f \in Touches(op[p].do)
      BY <2>6 DEF Busy
    <3>2. AtFile(f, op[p], disk[f], temp[f], fd[p], allowed)
      BY <2>0, <3>1 DEF Kept
    <3>3. ~Cut(f, op[p])
      <4>1. f = "voice" => op[p].file = "voice" \/ op[p].pc # "fill"
        BY <3>1, AtWork DEF Touches, FirstFile, Dos, Edits
      <4> QED BY <2>0, <4>1 DEF Cut
    <3>4. CASE ~Written(f, op[p])
      <4>1. Says(f, Reader(f, disk[f]), allowed)
        BY <3>2, <3>3, <3>4 DEF AtFile
      <4> QED BY <2>1, <2>4, <4>1
    <3>5. CASE Written(f, op[p])
      <4>1. Says(f, d, Owed(op[p].do, op[p].arg, allowed))
        BY <2>1, <3>2, <3>5 DEF AtFile
      <4>2. ASSUME NEW k \in DOMAIN Defaults[f]
            PROVE  Owed(op[p].do, op[p].arg, allowed)[<<f, k>>] \subseteq allowed'[<<f, k>>]
        <5>1. Values(<<f, k>>, op[p].do, op[p].arg) \subseteq allowed'[<<f, k>>]
              /\ allowed[<<f, k>>] \subseteq allowed'[<<f, k>>]
          BY <2>3
        <5> QED BY <2>0, <5>1, OwedAt
      <4> QED BY <2>2, <4>1, <4>2
    <3> QED BY <3>4, <3>5
  <2> QED BY <2>5, <2>6
<1> QED BY <1>1, <1>2 DEF Kept, ArgsFit

LEMMA InitKept == Init => Kept /\ ArgsFit
<1> SUFFICES ASSUME Init PROVE Kept /\ ArgsFit
  OBVIOUS
<1>1. \A p \in Procs : op[p].pc = "idle"
  BY DEF Init, Idle
<1>2. ASSUME NEW f \in Files \ {"nft"} PROVE disk[f] \in Whole(f) \/ (f = "cost" /\ disk[f] = Missing)
  <2>1. CASE f = "cost"
    BY <2>1 DEF Init
  <2>2. CASE f = "secrets"
    <3>1. NoKeys \in Contents("secrets")
      BY DEF NoKeys, Contents
    <3>2. PICK i : disk["secrets"] = [NoKeys EXCEPT ![i] = "old"]
      BY DEF Init
    <3>3. disk["secrets"] \in Contents("secrets")
      BY <3>2 DEF NoKeys, Contents
    <3> QED BY <2>2, <3>3 DEF Whole
  <2>3. CASE f = "provider"
    <3>1. (CHOOSE i \in Providers : TRUE) \in Providers
      BY SomeToChoose
    <3>2. disk["provider"] \in Contents("provider")
      BY <3>1 DEF Init, Contents
    <3> QED BY <2>3, <3>2 DEF Whole
  <2>4. CASE f = "mounts"
    <3>1. PICK i : disk["mounts"] = [NoMounts EXCEPT ![i] = "ro"]
      BY DEF Init
    <3>2. PICK D : D = {"host", "net"} \X MountIds
      OBVIOUS
    <3>3. disk["mounts"] \in [D -> {None, "ro"}]
      BY <3>1, <3>2 DEF NoMounts
    <3> QED BY <2>4, <3>2, <3>3 DEF Whole, Contents
  <2>5. CASE f = "network"
    BY <2>5 DEF Init, OpenPolicy, Contents, Whole
  <2>6. CASE f = "catalog"
    <3>1. disk["catalog"] = [m \in Models |-> IF m = Baked THEN 1 ELSE 0]
      BY BakedIsAModel DEF Init, NoModels
    <3>2. PICK c : c = disk["catalog"]
      OBVIOUS
    <3>3. {n \in Models : c[n] # 0} = {Baked}
      BY <3>1, <3>2, BakedIsAModel
    <3>4. Cardinality({n \in Models : c[n] # 0}) = 1
      BY <3>3, FS_Singleton
    <3>5. /\ c \in [Models -> Nat] /\ c[Baked] # 0
          /\ \A m \in Models : c[m] <= 1
      BY <3>1, <3>2, BakedIsAModel
    <3> QED BY <2>6, <3>2, <3>4, <3>5 DEF Whole, Contents
  <2>7. CASE f = "voice"
    BY <2>7 DEF Init, Contents, Whole
  <2>8. CASE f = "active"
    <3>1. (CHOOSE i \in Profiles : TRUE) \in Profiles
      BY SomeToChoose
    <3>2. disk["active"] \in Contents("active")
      BY <3>1 DEF Init, Contents
    <3> QED BY <2>8, <3>2 DEF Whole
  <2> QED BY <2>1, <2>2, <2>3, <2>4, <2>5, <2>6, <2>7, <2>8 DEF Files
<1>3. ASSUME NEW f \in Files \ {"nft"} PROVE Reader(f, disk[f]) \in Whole(f)
  <2>1. CASE disk[f] \in Whole(f)
    BY <2>1, ReadsWhole
  <2>2. CASE f = "cost" /\ disk[f] = Missing
    BY <2>2 DEF Reader, load_config_from, DefaultCost, Whole, Contents
  <2> QED BY <1>2, <2>1, <2>2
<1>4. ASSUME NEW f \in Files \ {"nft"}, NEW k \in DOMAIN Defaults[f]
      PROVE  Reader(f, disk[f])[k] \in allowed[<<f, k>>]
  <2>1. allowed = [s \in Settings |-> {Reader(s[1], disk[s[1]])[s[2]]}]
    BY DEF Init
  <2>2. PICK s : s = <<f, k>>
    OBVIOUS
  <2>3. s \in Settings /\ s[1] = f /\ s[2] = k
    BY <2>2, IsSetting
  <2>4. allowed[s] = {Reader(s[1], disk[s[1]])[s[2]]}
    BY <2>1, <2>3
  <2> QED BY <2>2, <2>3, <2>4
<1>5. ASSUME NEW f \in Files \ {"nft"} PROVE Says(f, Reader(f, disk[f]), allowed)
  BY <1>3, <1>4 DEF Says
<1> QED BY <1>1, <1>5 DEF Kept, ArgsFit, Busy

\* The inductive invariant of the settings.
KInv == IInv /\ Kept /\ ArgsFit

LEMMA NextKept == KInv /\ [Next]_vars => KInv'
<1> SUFFICES ASSUME KInv, [Next]_vars PROVE KInv'
  OBVIOUS
<1>0. IInv /\ AreOps /\ AreFiles /\ Apart /\ Kept /\ ArgsFit
  BY DEF KInv, IInv
<1>1. IInv'
  BY <1>0, NextInv
<1>2. ASSUME NEW p \in Procs, NEW c \in Commands, Begin(p, c) PROVE Kept' /\ ArgsFit'
  BY <1>0, <1>2, BeginKeeps
<1>3. ASSUME NEW p \in Procs, Acts(p) PROVE Kept' /\ ArgsFit'
  BY <1>0, <1>3, KeptActs, ArgsActs
<1>4. ASSUME UNCHANGED <<op, fileVars, ghostVars>> PROVE Kept' /\ ArgsFit'
  BY <1>0, <1>4, FrameKeeps
<1>5. Spend \/ Midnight \/ Relay \/ UNCHANGED vars => UNCHANGED <<op, fileVars, ghostVars>>
  BY DEF Spend, Midnight, Relay, vars
<1>6. Kept' /\ ArgsFit'
  <2>1. CASE \E p \in Procs : Step(p)
    <3>1. PICK p \in Procs : Step(p)
      BY <2>1
    <3>2. CASE \E c \in Commands : Begin(p, c)
      BY <1>2, <3>2
    <3>3. CASE Acts(p)
      BY <1>3, <3>3
    <3> QED BY <3>1, <3>2, <3>3 DEF Step, Acts
  <2>2. CASE Spend \/ Midnight \/ Relay \/ UNCHANGED vars
    BY <1>4, <1>5, <2>2
  <2>3. CASE PowerCut
    BY <1>0, <2>3, CutKeeps
  <2> QED BY <2>1, <2>2, <2>3 DEF Next
<1> QED BY <1>1, <1>6 DEF KInv

\* config.rs, secrets.rs, mounts.rs, network.rs: a setting keeps the value the last
\* success gave it, whatever fails, is killed or edits the settings beside it.
THEOREM SettingsStay == Spec => []SettingsKept
<1>1. Init => KInv
  BY InitInv, InitKept DEF KInv
<1>2. KInv => SettingsKept
  <2> SUFFICES ASSUME KInv, NEW f \in Files \ (Busy \cup spoiled \cup {"nft"}),
                      NEW c, c = Reader(f, disk[f])
               PROVE  c # Broken /\ \A k \in DOMAIN Defaults[f] : c[k] \in allowed[<<f, k>>]
    BY DEF SettingsKept
  <2>1. Says(f, c, allowed)
    BY DEF KInv, Kept
  <2> QED BY <2>1, ReadsWhole DEF Says
<1> QED BY <1>1, <1>2, NextKept, PTL DEF Spec

-----------------------------------------------------------------------------
(* The quiet window *)

Minutes(Day) == 0 .. Day - 1

\* The way round the clock from one minute to another.
Since(from, m, Day) == IF from <= m THEN m - from ELSE m - from + Day

\* quiet_hours.rs, is_active: a minute is in the window exactly when the clock
\* reaches it after the start and before the end, also across midnight.
THEOREM QuietWindow ==
    ASSUME NEW Day \in Nat, NEW now \in Minutes(Day),
           NEW start \in Minutes(Day), NEW end \in Minutes(Day)
    PROVE  is_active(now, start, end) <=> Since(start, now, Day) < Since(start, end, Day)
<1>1. CASE start = end
  BY <1>1 DEF is_active, Since, Minutes
<1>2. CASE start < end
  BY <1>2 DEF is_active, Since, Minutes
<1>3. CASE start > end
  BY <1>3 DEF is_active, Since, Minutes
<1> QED BY <1>1, <1>2, <1>3 DEF Minutes

\* Swapping the ends gives the rest of the day, and a window of equal ends is
\* never active: no minute of the clock is in both or in neither.
THEOREM QuietOrNot ==
    ASSUME NEW Day \in Nat, NEW now \in Minutes(Day),
           NEW start \in Minutes(Day), NEW end \in Minutes(Day)
    PROVE  IF start = end THEN ~is_active(now, start, end)
           ELSE is_active(now, start, end) <=> ~is_active(now, end, start)
<1>1. CASE start = end
  BY <1>1 DEF is_active, Minutes
<1>2. CASE start < end
  BY <1>2 DEF is_active, Minutes
<1>3. CASE start > end
  BY <1>3 DEF is_active, Minutes
<1> QED BY <1>1, <1>2, <1>3 DEF Minutes

\* quiet_hours.rs, local_now_minutes: any offset gives a minute of the day, so
\* the window's laws apply to it.
THEOREM LocalMinute ==
    ASSUME NEW Day \in Nat \ {0}, NEW utc \in Nat, NEW offset \in Int
    PROVE  local_now_minutes(utc, offset, Day) \in Minutes(Day)
BY DEF local_now_minutes, Minutes
=============================================================================
