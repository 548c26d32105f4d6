------------------------ MODULE BackupRestore_proofs ------------------------
(***************************************************************************)
(* No restore loses what it found, and one that ends says truly how, for   *)
(* any number of components and restores, with the power going at any      *)
(* step and the reconcile timer beside them.  In the second half, what the *)
(* cloud holds and what the device says of it are true, for any number of  *)
(* backups.                                                                *)
(***************************************************************************)
EXTENDS Restore, CloudBackup, TLAPS

Types ==
    /\ TypeOK
    /\ pc # "idle" => attempt > 0
    /\ ~cloud /\ pc # "idle" => bundle = {1}

Untouched(c) == dest[c] = before[c]
Saved(c) == aside[c][attempt] = before[c]
Back(c) == before[c] # None => dest[c] = before[c]

\* How far a restore has come: what lies before `at` is replaced and saved, what
\* lies behind it untouched; going backwards, what lies behind it is put back.
Progress ==
    /\ pc = "placing" => \A c \in Component :
          IF c \in bundle /\ c < at THEN Saved(c) /\ dest[c] = attempt ELSE Untouched(c)
    /\ pc = "copying" => at \in bundle /\ \A c \in Component :
          IF c \notin bundle \/ c > at THEN Untouched(c)
          ELSE Saved(c) /\ (c < at => dest[c] = attempt)
    /\ pc = "undoing" => at # N + 1 /\ \A c \in Component :
          IF c \in bundle /\ c <= at THEN Saved(c) ELSE result = "none" => Back(c)
    /\ pc = "undoing" => result \in {"none", "abandoned"}
    /\ pc = "ending" => result # "none"
    /\ pc \in {"placing", "copying"} => result = "none"
    /\ pc = "idle" /\ result = "none" => dest = before

\* How the last restore ended; an abandoned one has lost nothing.
Ended ==
    /\ result = "failed" => \A c \in Component : Back(c)
    /\ result = "ok" => \A c \in Component :
          IF c \in bundle THEN Saved(c) /\ dest[c] = attempt ELSE Untouched(c)
    /\ result = "abandoned" => \A c \in Component :
          before[c] # None => Untouched(c) \/ (attempt > 0 /\ Saved(c))

IInv == Types /\ Progress /\ Ended

LEMMA InitHolds == Init => IInv
<1> SUFFICES ASSUME Init PROVE IInv
  OBVIOUS
<1>1. {0, None} \subseteq Content
  BY RestoreSizesAssumption DEF Content
<1>2. TypeOK
  <2>1. dest \in [Component -> Content] /\ before \in [Component -> Content]
    BY <1>1 DEF Init
  <2>2. aside \in [Component -> [1 .. MaxRestores -> Content]]
    BY <1>1 DEF Init
  <2>3. attempt \in 0 .. MaxRestores /\ at \in 0 .. N + 1 /\ strikes \in 0 .. FAILURE_THRESHOLD
    BY RestoreSizesAssumption DEF Init, FAILURE_THRESHOLD
  <2> QED BY <2>1, <2>2, <2>3 DEF Init, TypeOK
<1>3. Types /\ Progress /\ Ended
  BY <1>2, RestoreSizesAssumption DEF Init, Types, Progress, Ended, Component
<1> QED BY <1>3 DEF IInv

\* A restore begins where everything is what it was.
LEMMA StartStep ==
    ASSUME IInv, StartCloud \/ StartSnapshot
    PROVE  IInv'
<1>1. PICK b \in SUBSET Component, c \in BOOLEAN : Begin(b, c) /\ (~c => b = {1})
  <2>1. {1} \in SUBSET Component
    BY RestoreSizesAssumption DEF Component
  <2>2. StartCloud => \E b \in SUBSET Component : Begin(b, TRUE)
    BY DEF StartCloud
  <2> QED BY <2>1, <2>2 DEF StartSnapshot
<1>2. Types'
  BY <1>1, RestoreSizesAssumption DEF Begin, TryUnit, IInv, Types, TypeOK, files
<1>3. Progress' /\ Ended'
  BY <1>1, RestoreSizesAssumption DEF Begin, IInv, Types, TypeOK, Progress, Ended,
                                      Untouched, files, Component
<1> QED BY <1>2, <1>3 DEF IInv

\* Steps that move the position and leave every path alone.
LEMMA StillStep ==
    ASSUME IInv, Skip \/ MoveAsideFails \/ SnapshotMoveFails \/ Undone \/ Placed \/ End \/ Crash \/ ReconcileTick
    PROVE  IInv'
<1> USE RestoreSizesAssumption
<1>1. CASE Skip
  BY <1>1 DEF Skip, IInv, Types, TypeOK, Progress, Ended, Untouched, Saved, Back, files,
              job, Component
<1>2. CASE MoveAsideFails
  BY <1>2 DEF MoveAsideFails, IInv, Types, TypeOK, Progress, Ended, Untouched, Saved, Back,
              files, job, Component
<1>3. CASE Undone
  BY <1>3 DEF Undone, IInv, Types, TypeOK, Progress, Ended, Untouched, Saved, Back, files,
              job, Component
<1>4. CASE Placed
  BY <1>4 DEF Placed, IInv, Types, TypeOK, Progress, Ended, Untouched, Saved, Back, files,
              job, Component
<1>5. CASE End
  BY <1>5 DEF End, TryUnit, IInv, Types, TypeOK, Progress, Ended, Untouched, Saved, Back,
              files, job, Component
<1>6. CASE Crash
  BY <1>6 DEF Crash, IInv, Types, TypeOK, Progress, Ended, Untouched, Saved, Back, files,
              job, Component
<1>7. CASE ReconcileTick
  BY <1>7 DEF ReconcileTick, Reconcile, FAILURE_THRESHOLD, IInv, Types, TypeOK, Progress,
              Ended, Untouched, Saved, Back, files, job, Component
<1>8. CASE SnapshotMoveFails
  BY <1>8 DEF SnapshotMoveFails, Abandon, IInv, Types, TypeOK, Progress, Ended, Untouched,
              Saved, Back, files, job, Component
<1> QED BY <1>1, <1>2, <1>3, <1>4, <1>5, <1>6, <1>7, <1>8

\* Writing one path, and one aside slot of the restore under way, disturbs no
\* other component.
LEMMA Frame ==
    ASSUME Types, NEW c \in Component, NEW v \in Content, NEW w \in Content, attempt > 0,
           dest' = [dest EXCEPT ![c] = v],
           aside' = [aside EXCEPT ![c][attempt] = w]
    PROVE  /\ dest' \in [Component -> Content]
           /\ aside' \in [Component -> [1 .. MaxRestores -> Content]]
           /\ dest'[c] = v /\ aside'[c][attempt] = w
           /\ \A d \in Component \ {c} : dest'[d] = dest[d] /\ aside'[d] = aside[d]
<1>1. attempt \in 1 .. MaxRestores
  BY RestoreSizesAssumption DEF Types, TypeOK
<1>2. aside[c] \in [1 .. MaxRestores -> Content]
  BY DEF Types, TypeOK
<1>3. [aside[c] EXCEPT ![attempt] = w] \in [1 .. MaxRestores -> Content]
  BY <1>2
<1>4. aside' = [aside EXCEPT ![c] = [aside[c] EXCEPT ![attempt] = w]]
  OBVIOUS
<1>5. aside'[c] = [aside[c] EXCEPT ![attempt] = w]
  BY <1>4 DEF Types, TypeOK
<1>6. aside'[c][attempt] = w
  BY <1>1, <1>2, <1>5
<1>7. aside' \in [Component -> [1 .. MaxRestores -> Content]]
  BY <1>3, <1>4 DEF Types, TypeOK
<1> QED BY <1>4, <1>6, <1>7 DEF Types, TypeOK

LEMMA MoveStep ==
    ASSUME IInv, MoveAside \/ FreshDirFails
    PROVE  IInv'
<1> USE RestoreSizesAssumption
<1>1. /\ pc = "placing" /\ at \in bundle /\ at \in Component /\ attempt > 0
      /\ UNCHANGED <<job, unit, strikes>>
      /\ dest[at] \in Content /\ dest[at] = before[at]
      /\ aside' = [aside EXCEPT ![at][attempt] = dest[at]]
  BY DEF MoveAside, FreshDirFails, Abandon, IInv, Types, TypeOK, Progress, Untouched, job,
         Component
<1>2. PICK v \in {Part, None} : dest' = [dest EXCEPT ![at] = v]
  BY DEF MoveAside, FreshDirFails
<1>3. v \in Content
  BY DEF Content
<1>4. /\ dest' \in [Component -> Content]
      /\ aside' \in [Component -> [1 .. MaxRestores -> Content]]
      /\ aside'[at][attempt] = before[at]
      /\ \A d \in Component \ {at} : dest'[d] = dest[d] /\ aside'[d] = aside[d]
  BY <1>1, <1>2, <1>3, Frame DEF IInv
<1>5. CASE MoveAside
  <2>1. pc' = "copying" /\ at' = at /\ result' = result
    BY <1>5 DEF MoveAside
  <2>2. Types'
    BY <1>1, <1>4, <2>1 DEF IInv, Types, TypeOK, job
  <2>3. Progress' /\ Ended'
    BY <1>1, <1>4, <2>1 DEF IInv, Types, TypeOK, Progress, Ended, Untouched, Saved, job,
                            Component
  <2> QED BY <2>2, <2>3 DEF IInv
<1>6. CASE FreshDirFails
  <2>1. pc' = "idle" /\ at' = 0 /\ result' = "abandoned"
    BY <1>6 DEF FreshDirFails, Abandon
  <2>2. Types'
    BY <1>1, <1>4, <2>1 DEF IInv, Types, TypeOK, job
  <2>3. Progress' /\ Ended'
    BY <1>1, <1>4, <2>1 DEF IInv, Types, TypeOK, Progress, Ended, Untouched, Saved, job,
                            Component
  <2> QED BY <2>2, <2>3 DEF IInv
<1> QED BY <1>5, <1>6

LEMMA CopiedStep ==
    ASSUME IInv, Copied
    PROVE  IInv'
<1> USE RestoreSizesAssumption
<1>1. at \in bundle /\ at \in Component /\ attempt \in Content
  BY DEF Copied, IInv, Types, TypeOK, Progress, Content
<1>2. Types'
  BY <1>1 DEF Copied, IInv, Types, TypeOK, job, Component
<1>3. Progress' /\ Ended'
  BY <1>1 DEF Copied, IInv, Types, TypeOK, Progress, Ended, Untouched, Saved, job, Component
<1> QED BY <1>2, <1>3 DEF IInv

\* A saved component is put back, has nothing to put back, or stays aside.
LEMMA BackStep ==
    ASSUME IInv, CopyFails \/ SnapshotCopyFails \/ Undo
    PROVE  IInv'
<1> USE RestoreSizesAssumption
<1>1. /\ pc \in {"copying", "undoing"} /\ at \in Component /\ attempt > 0
      /\ at \in bundle => Saved(at)
      /\ ~cloud => bundle = {1}
      /\ UNCHANGED <<job, strikes>> /\ unit' = unit
      /\ attempt \in 1 .. MaxRestores
  BY DEF CopyFails, SnapshotCopyFails, Undo, Abandon, IInv, Types, TypeOK, Progress,
         Component, job
<1>2. /\ aside[at][attempt] \in Content
      /\ None \in Content /\ Part \in Content
  BY <1>1 DEF IInv, Types, TypeOK, Content
<1>3. CASE at \in bundle /\ PutBack(at) /\ pc' = "undoing" /\ at' = at - 1 /\ result' = result
  <2>1. /\ dest' \in [Component -> Content]
        /\ aside' \in [Component -> [1 .. MaxRestores -> Content]]
        /\ dest'[at] = aside[at][attempt]
        /\ \A d \in Component \ {at} : dest'[d] = dest[d] /\ aside'[d] = aside[d]
    BY <1>1, <1>2, <1>3, Frame DEF IInv, PutBack
  <2>2. dest'[at] = before[at] /\ before' = before
    BY <1>1, <1>3, <2>1 DEF Saved, job
  <2>3. Types'
    BY <1>1, <1>3, <2>1 DEF IInv, Types, TypeOK, job, Component
  <2>4. Progress' /\ Ended'
    BY <1>1, <1>3, <2>1, <2>2 DEF IInv, Types, TypeOK, Progress, Ended, Untouched, Saved,
                                  Back, job, Component
  <2> QED BY <2>3, <2>4 DEF IInv
<1>4. CASE /\ UNCHANGED files /\ (at \in bundle => before[at] = None)
           /\ pc' = "undoing" /\ at' = at - 1 /\ result' = result
  <2>1. Types'
    BY <1>1, <1>4 DEF IInv, Types, TypeOK, job, files, Component
  <2>2. Progress' /\ Ended'
    BY <1>1, <1>4 DEF IInv, Types, TypeOK, Progress, Ended, Untouched, Saved, Back, job,
                      files, Component
  <2> QED BY <2>1, <2>2 DEF IInv
<1>5. CASE /\ at \in bundle /\ CannotPutBack(at) /\ result' = "abandoned"
           /\ \/ pc' = "undoing" /\ at' = at - 1
              \/ pc' = "idle" /\ at' = 0
  <2>1. PICK left \in Content : dest' = [dest EXCEPT ![at] = left]
    BY <1>2, <1>5 DEF CannotPutBack
  <2>2. /\ dest' \in [Component -> Content] /\ aside' = aside
        /\ \A d \in Component \ {at} : dest'[d] = dest[d]
    BY <1>5, <2>1 DEF CannotPutBack, IInv, Types, TypeOK
  <2>3. Types'
    BY <1>1, <1>5, <2>2 DEF IInv, Types, TypeOK, job, Component
  <2>4. Progress' /\ Ended'
    BY <1>1, <1>5, <2>2 DEF IInv, Types, TypeOK, Progress, Ended, Untouched, Saved, Back,
                            job, Component
  <2> QED BY <2>3, <2>4 DEF IInv
<1>6. CASE CopyFails
  BY <1>1, <1>3, <1>4, <1>5, <1>6 DEF CopyFails, IInv, Progress, Saved
<1>7. CASE SnapshotCopyFails
  <2>1. at = 1 /\ at \in bundle
    BY <1>7, <1>1 DEF SnapshotCopyFails, IInv, Progress
  <2> QED BY <1>1, <1>3, <1>5, <1>7, <2>1 DEF SnapshotCopyFails, Abandon
<1>8. CASE Undo
  BY <1>1, <1>3, <1>4, <1>5, <1>8 DEF Undo, IInv, Progress
<1> QED BY <1>6, <1>7, <1>8

LEMMA Step == IInv /\ [Next]_vars => IInv'
<1> SUFFICES ASSUME IInv, [Next]_vars PROVE IInv'
  OBVIOUS
<1>1. CASE UNCHANGED vars
  BY <1>1 DEF vars, IInv, Types, TypeOK, Progress, Ended, Untouched, Saved, Back
<1>2. CASE RestoreNext
  BY <1>2, StartStep, StillStep, MoveStep, CopiedStep, BackStep DEF RestoreNext
<1>3. CASE ReconcileTick \/ Crash
  BY <1>3, StillStep
<1> QED BY <1>1, <1>2, <1>3 DEF Next

\* What the properties need of the invariant.
LEMMA Consequences == IInv => OriginalsKept /\ FailureRestores /\ SuccessReplaces
<1> SUFFICES ASSUME IInv PROVE OriginalsKept /\ FailureRestores /\ SuccessReplaces
  OBVIOUS
<1>1. FailureRestores /\ SuccessReplaces
  BY DEF IInv, Ended, Back, Untouched, Saved, FailureRestores, SuccessReplaces
<1>2. attempt > 0 => attempt \in 1 .. MaxRestores
  BY RestoreSizesAssumption DEF IInv, Types, TypeOK
<1>3. ASSUME NEW c \in Component, before[c] # None, result # "ok"
      PROVE  Untouched(c) \/ (attempt > 0 /\ Saved(c))
  BY <1>3 DEF IInv, Types, TypeOK, Progress, Ended, Back, Untouched, Saved
<1>4. OriginalsKept
  BY <1>2, <1>3 DEF OriginalsKept, Untouched, Saved
<1> QED BY <1>1, <1>4

\* Every variable keeps its type, for any number of components and restores.
THEOREM TypeCorrect == Spec => []TypeOK
<1>1. IInv => TypeOK
  BY DEF IInv, Types
<1> QED BY InitHolds, Step, <1>1, PTL DEF Spec

\* Nothing that a restore found is lost by failures, crashes or further steps.
THEOREM NothingIsLost == Spec => []OriginalsKept
BY InitHolds, Step, Consequences, PTL DEF Spec

\* A restore that reports failure has put back all that existed, and one that
\* reports success has replaced exactly its bundle.
THEOREM ReportsHold == Spec => []ReportsAreTrue
<1>1. IInv => ReportsAreTrue
  BY Consequences DEF ReportsAreTrue
<1> QED BY InitHolds, Step, <1>1, PTL DEF Spec

-----------------------------------------------------------------------------
(* The other side: the backups that a restore brings back *)


Holding == {"first", "second", "complete", "drop"}
Apart == {"idle", "report"}

BackupTypes ==
    /\ phase \in {"active", "quiesced"}
    /\ data \in [Piece -> Int] /\ data[1] >= data[2]
    /\ step \in [Backups -> Holding \cup Apart \cup {"prepare", "pack", "verify", "upload"}]
    /\ DOMAIN guard = Backups
    /\ copy \in [Backups -> [Piece -> Int] \cup {<<>>}]
    /\ sealed \in [Backups -> BOOLEAN]
    /\ DOMAIN exit = Backups /\ DOMAIN did = Backups
    /\ overlapped \in BOOLEAN /\ orphaned \in BOOLEAN

\* A guard is held exactly from prepare to complete, and where none is held the
\* workload runs, unless a backup was killed or an answer lost.
Guarded ==
    /\ \A b \in Backups : guard[b] <=> Resident /\ step[b] \in Holding
    /\ ~orphaned /\ phase # "active" => \E b \in Backups : guard[b]

\* Backups that do not overlap are at work one at a time, so the workload stays
\* frozen while one copies.
Alone ==
    ~overlapped =>
        /\ \A b, o \in Backups : b # o => step[b] \in Apart \/ step[o] \in Apart
        /\ Resident => \A b \in Backups :
              step[b] \in {"first", "second", "complete"} => phase = "quiesced"

\* What a backup has staged is of the moment at which it froze the workload.
Staged ==
    /\ \A b \in Backups :
        step[b] \in {"second", "pack", "verify", "upload"} => copy[b] \in [Piece -> Int]
    /\ Resident /\ ~overlapped => \A b \in Backups :
        /\ step[b] = "second" => copy[b][1] = data[1]
        /\ step[b] = "complete" => copy[b] = <<>> \/ IsSnapshot(copy[b])
        /\ step[b] \in {"pack", "verify", "upload"} => IsSnapshot(copy[b])

\* What is uploaded can be opened, and a backup that returns 0 has stored it.
Told ==
    /\ \A b \in Backups : step[b] = "upload" => sealed[b]
    /\ \A b \in Backups : step[b] = "report" /\ exit[b] = "0" => did[b] \in {"stored", "dry"}
    /\ StoredMeansRestorable

BackupInv == BackupTypes /\ Guarded /\ Alone /\ Staged /\ Told /\ BundlesAreSnapshots

-----------------------------------------------------------------------------
LEMMA InitBackups == BackupInit => BackupInv
<1> SUFFICES ASSUME BackupInit PROVE BackupInv
  OBVIOUS
<1>1. BackupTypes
  <2>1. data \in [Piece -> Int] /\ data[1] >= data[2] /\ Blank \in [Piece -> Int]
    BY DEF BackupInit, Blank, Piece
  <2> QED BY <2>1 DEF BackupInit, BackupTypes, Apart
<1>2. Guarded /\ Alone
  BY DEF BackupInit, Guarded, Alone, Holding, Apart
<1>3. Staged /\ Told /\ BundlesAreSnapshots
  BY DEF BackupInit, Staged, Told, StoredMeansRestorable, BundlesAreSnapshots
<1> QED BY <1>1, <1>2, <1>3 DEF BackupInv

\* One lemma per step: the control and the guard, what is staged, what is told.
LEMMA BeginBackupKeeps ==
    ASSUME BackupInv, NEW b \in Backups, BeginBackup(b)
    PROVE  BackupInv'
<1> USE DEF BackupInv, BeginBackup, Goto, Returns, Forget, Holding, Apart, outcome, history
<1>1. BackupTypes'
  BY DEF BackupTypes, Blank, Piece
<1>2. Guarded'
  BY DEF BackupTypes, Guarded
<1>3. Alone'
  BY DEF BackupTypes, Alone
<1>4. Staged'
  BY DEF BackupTypes, Alone, Staged, Blank, Piece, IsSnapshot
<1>5. Told'
  BY DEF BackupTypes, Told, StoredMeansRestorable, Success, Bundle
<1>6. BundlesAreSnapshots'
  BY DEF BackupTypes, BundlesAreSnapshots, Staged, Bundle, IsSnapshot, Consistency
<1> QED BY <1>1, <1>2, <1>3, <1>4, <1>5, <1>6

LEMMA BeginOnlyKeeps ==
    ASSUME BackupInv, NEW b \in Backups, BeginOnly(b)
    PROVE  BackupInv'
<1> USE DEF BackupInv, BeginOnly, Goto, Returns, Forget, Holding, Apart, outcome, history
<1>1. BackupTypes'
  BY DEF BackupTypes, Blank, Piece
<1>2. Guarded'
  BY DEF BackupTypes, Guarded
<1>3. Alone'
  BY DEF BackupTypes, Alone
<1>4. Staged'
  BY DEF BackupTypes, Alone, Staged, Blank, Piece, IsSnapshot
<1>5. Told'
  BY DEF BackupTypes, Told, StoredMeansRestorable, Success, Bundle
<1>6. BundlesAreSnapshots'
  BY DEF BackupTypes, BundlesAreSnapshots, Staged, Bundle, IsSnapshot, Consistency
<1> QED BY <1>1, <1>2, <1>3, <1>4, <1>5, <1>6

LEMMA PrepareKeeps ==
    ASSUME BackupInv, NEW b \in Backups, Prepare(b)
    PROVE  BackupInv'
<1> USE DEF BackupInv, Prepare, Goto, Returns, Forget, Holding, Apart, outcome, history
<1>1. BackupTypes'
  BY DEF BackupTypes, Blank, Piece
<1>2. Guarded'
  BY DEF BackupTypes, Guarded
<1>3. Alone'
  BY DEF BackupTypes, Alone
<1>4. Staged'
  BY DEF BackupTypes, Alone, Staged, Blank, Piece, IsSnapshot
<1>5. Told'
  BY DEF BackupTypes, Told, StoredMeansRestorable, Success, Bundle
<1>6. BundlesAreSnapshots'
  BY DEF BackupTypes, BundlesAreSnapshots, Staged, Bundle, IsSnapshot, Consistency
<1> QED BY <1>1, <1>2, <1>3, <1>4, <1>5, <1>6

LEMMA PrepareFailsKeeps ==
    ASSUME BackupInv, NEW b \in Backups, PrepareFails(b)
    PROVE  BackupInv'
<1> USE DEF BackupInv, PrepareFails, Goto, Returns, Forget, Holding, Apart, outcome, history
<1>1. BackupTypes'
  BY DEF BackupTypes, Blank, Piece
<1>2. Guarded'
  BY DEF BackupTypes, Guarded
<1>3. Alone'
  BY DEF BackupTypes, Alone
<1>4. Staged'
  BY DEF BackupTypes, Alone, Staged, Blank, Piece, IsSnapshot
<1>5. Told'
  BY DEF BackupTypes, Told, StoredMeansRestorable, Success, Bundle
<1>6. BundlesAreSnapshots'
  BY DEF BackupTypes, BundlesAreSnapshots, Staged, Bundle, IsSnapshot, Consistency
<1> QED BY <1>1, <1>2, <1>3, <1>4, <1>5, <1>6

LEMMA CopyFirstKeeps ==
    ASSUME BackupInv, NEW b \in Backups, CopyFirst(b)
    PROVE  BackupInv'
<1> USE DEF BackupInv, CopyFirst, Goto, Returns, Forget, Holding, Apart, outcome, history
<1>1. BackupTypes'
  BY DEF BackupTypes, Blank, Piece
<1>2. Guarded'
  BY DEF BackupTypes, Guarded
<1>3. Alone'
  BY DEF BackupTypes, Alone
<1>4. Staged'
  BY DEF BackupTypes, Alone, Staged, Blank, Piece, IsSnapshot
<1>5. Told'
  BY DEF BackupTypes, Told, StoredMeansRestorable, Success, Bundle
<1>6. BundlesAreSnapshots'
  BY DEF BackupTypes, BundlesAreSnapshots, Staged, Bundle, IsSnapshot, Consistency
<1> QED BY <1>1, <1>2, <1>3, <1>4, <1>5, <1>6

LEMMA CopySecondKeeps ==
    ASSUME BackupInv, NEW b \in Backups, CopySecond(b)
    PROVE  BackupInv'
<1> USE DEF BackupInv, CopySecond, Goto, Returns, Forget, Holding, Apart, outcome, history
<1>1. BackupTypes'
  BY DEF BackupTypes, Blank, Piece
<1>2. Guarded'
  BY DEF BackupTypes, Guarded
<1>3. Alone'
  BY DEF BackupTypes, Alone
<1>4. Staged'
  BY DEF BackupTypes, Alone, Staged, Blank, Piece, IsSnapshot
<1>5. Told'
  BY DEF BackupTypes, Told, StoredMeansRestorable, Success, Bundle
<1>6. BundlesAreSnapshots'
  BY DEF BackupTypes, BundlesAreSnapshots, Staged, Bundle, IsSnapshot, Consistency
<1> QED BY <1>1, <1>2, <1>3, <1>4, <1>5, <1>6

LEMMA StagingFailsKeeps ==
    ASSUME BackupInv, NEW b \in Backups, StagingFails(b)
    PROVE  BackupInv'
<1> USE DEF BackupInv, StagingFails, Goto, Returns, Forget, Holding, Apart, outcome, history
<1>1. BackupTypes'
  BY DEF BackupTypes, Blank, Piece
<1>2. Guarded'
  BY DEF BackupTypes, Guarded
<1>3. Alone'
  BY DEF BackupTypes, Alone
<1>4. Staged'
  BY DEF BackupTypes, Alone, Staged, Blank, Piece, IsSnapshot
<1>5. Told'
  BY DEF BackupTypes, Told, StoredMeansRestorable, Success, Bundle
<1>6. BundlesAreSnapshots'
  BY DEF BackupTypes, BundlesAreSnapshots, Staged, Bundle, IsSnapshot, Consistency
<1> QED BY <1>1, <1>2, <1>3, <1>4, <1>5, <1>6

LEMMA CompleteKeeps ==
    ASSUME BackupInv, NEW b \in Backups, Complete(b)
    PROVE  BackupInv'
<1> USE DEF BackupInv, Complete, Goto, Returns, Forget, Holding, Apart, outcome, history
<1>1. BackupTypes'
  BY DEF BackupTypes, Blank, Piece
<1>2. Guarded'
  BY DEF BackupTypes, Guarded
<1>3. Alone'
  BY DEF BackupTypes, Alone
<1>4. Staged'
  BY DEF BackupTypes, Alone, Staged, Blank, Piece, IsSnapshot
<1>5. Told'
  BY DEF BackupTypes, Told, StoredMeansRestorable, Success, Bundle
<1>6. BundlesAreSnapshots'
  BY DEF BackupTypes, BundlesAreSnapshots, Staged, Bundle, IsSnapshot, Consistency
<1> QED BY <1>1, <1>2, <1>3, <1>4, <1>5, <1>6

LEMMA CompleteFailsKeeps ==
    ASSUME BackupInv, NEW b \in Backups, CompleteFails(b)
    PROVE  BackupInv'
<1> USE DEF BackupInv, CompleteFails, Goto, Returns, Forget, Holding, Apart, outcome,
            history
<1>1. BackupTypes'
  BY DEF BackupTypes, Blank, Piece
<1>2. Guarded'
  BY DEF BackupTypes, Guarded
<1>3. Alone'
  BY DEF BackupTypes, Alone
<1>4. Staged'
  BY DEF BackupTypes, Alone, Staged, Blank, Piece, IsSnapshot
<1>5. Told'
  BY DEF BackupTypes, Told, StoredMeansRestorable, Success, Bundle
<1>6. BundlesAreSnapshots'
  BY DEF BackupTypes, BundlesAreSnapshots, Staged, Bundle, IsSnapshot, Consistency
<1> QED BY <1>1, <1>2, <1>3, <1>4, <1>5, <1>6

LEMMA DropKeeps ==
    ASSUME BackupInv, NEW b \in Backups, Drop(b)
    PROVE  BackupInv'
<1> USE DEF BackupInv, Drop, Goto, Returns, Forget, Holding, Apart, outcome, history
<1>1. BackupTypes'
  BY DEF BackupTypes, Blank, Piece
<1>2. Guarded'
  BY DEF BackupTypes, Guarded
<1>3. Alone'
  BY DEF BackupTypes, Alone
<1>4. Staged'
  BY DEF BackupTypes, Alone, Staged, Blank, Piece, IsSnapshot
<1>5. Told'
  BY DEF BackupTypes, Told, StoredMeansRestorable, Success, Bundle
<1>6. BundlesAreSnapshots'
  BY DEF BackupTypes, BundlesAreSnapshots, Staged, Bundle, IsSnapshot, Consistency
<1> QED BY <1>1, <1>2, <1>3, <1>4, <1>5, <1>6

LEMMA encrypt_with_ageKeeps ==
    ASSUME BackupInv, NEW b \in Backups, encrypt_with_age(b)
    PROVE  BackupInv'
<1> USE DEF BackupInv, encrypt_with_age, Goto, Returns, Forget, Holding, Apart, outcome,
            history
<1>1. BackupTypes'
  BY DEF BackupTypes, Blank, Piece
<1>2. Guarded'
  <2>1. CASE UNCHANGED guard /\ step' = [step EXCEPT ![b] = "verify"]
    BY <2>1 DEF BackupTypes, Guarded
  <2>2. CASE guard' = [guard EXCEPT ![b] = FALSE] /\ step' = [step EXCEPT ![b] = "report"]
    BY <2>2 DEF BackupTypes, Guarded
  <2> QED BY <2>1, <2>2
<1>3. Alone'
  BY DEF BackupTypes, Alone
<1>4. Staged'
  BY DEF BackupTypes, Alone, Staged, Blank, Piece, IsSnapshot
<1>5. Told'
  BY DEF BackupTypes, Told, StoredMeansRestorable, Success, Bundle
<1>6. BundlesAreSnapshots'
  BY DEF BackupTypes, BundlesAreSnapshots, Staged, Bundle, IsSnapshot, Consistency
<1> QED BY <1>1, <1>2, <1>3, <1>4, <1>5, <1>6

LEMMA verify_encrypted_bundleKeeps ==
    ASSUME BackupInv, NEW b \in Backups, verify_encrypted_bundle(b)
    PROVE  BackupInv'
<1> USE DEF BackupInv, verify_encrypted_bundle, Goto, Returns, Forget, Holding, Apart,
            outcome, history
<1>1. BackupTypes'
  BY DEF BackupTypes, Blank, Piece
<1>2. Guarded'
  BY DEF BackupTypes, Guarded
<1>3. Alone'
  <2>1. CASE step' = [step EXCEPT ![b] = "upload"]
    BY <2>1 DEF BackupTypes, Alone
  <2>2. CASE step' = [step EXCEPT ![b] = "report"]
    BY <2>2 DEF BackupTypes, Alone
  <2> QED BY <2>1, <2>2
<1>4. Staged'
  BY DEF BackupTypes, Alone, Staged, Blank, Piece, IsSnapshot
<1>5. Told'
  BY DEF BackupTypes, Told, StoredMeansRestorable, Success, Bundle
<1>6. BundlesAreSnapshots'
  BY DEF BackupTypes, BundlesAreSnapshots, Staged, Bundle, IsSnapshot, Consistency
<1> QED BY <1>1, <1>2, <1>3, <1>4, <1>5, <1>6

LEMMA UploadKeeps ==
    ASSUME BackupInv, NEW b \in Backups, Upload(b)
    PROVE  BackupInv'
<1> USE DEF BackupInv, Upload, Goto, Returns, Forget, Holding, Apart, outcome, history
<1>1. BackupTypes'
  BY DEF BackupTypes, Blank, Piece
<1>2. Guarded'
  BY DEF BackupTypes, Guarded
<1>3. Alone'
  BY DEF BackupTypes, Alone
<1>4. Staged'
  BY DEF BackupTypes, Alone, Staged, Blank, Piece, IsSnapshot
<1>5. Told'
  <2>1. CASE stored' = Bundle(b) /\ did' = [did EXCEPT ![b] = "stored"]
    <3>1. stored'.sealed
      BY <2>1 DEF Told, Bundle
    <3> QED BY <2>1, <3>1 DEF BackupTypes, Told, StoredMeansRestorable
  <2>2. CASE Returns(b, "1") /\ UNCHANGED <<stored, did>>
    BY <2>2 DEF BackupTypes, Told, StoredMeansRestorable
  <2> QED BY <2>1, <2>2
<1>6. BundlesAreSnapshots'
  BY DEF BackupTypes, BundlesAreSnapshots, Staged, Bundle, IsSnapshot, Consistency
<1> QED BY <1>1, <1>2, <1>3, <1>4, <1>5, <1>6

LEMMA write_backup_statusKeeps ==
    ASSUME BackupInv, NEW b \in Backups, write_backup_status(b)
    PROVE  BackupInv'
<1> USE DEF BackupInv, write_backup_status, Goto, Returns, Forget, Holding, Apart, outcome,
            history
<1>1. BackupTypes'
  BY DEF BackupTypes, Blank, Piece
<1>2. Guarded'
  BY DEF BackupTypes, Guarded
<1>3. Alone'
  BY DEF BackupTypes, Alone
<1>4. Staged'
  BY DEF BackupTypes, Alone, Staged, Blank, Piece, IsSnapshot
<1>5. Told'
  <2>1. status' # Nothing /\ status'.success => status'.did \in {"stored", "dry"}
    <3>1. CASE status' = [success |-> Success(exit[b]), did |-> did[b]]
      BY <3>1 DEF Told, Success
    <3> QED BY <3>1 DEF Told, StoredMeansRestorable
  <2> QED BY <2>1 DEF BackupTypes, Told, StoredMeansRestorable
<1>6. BundlesAreSnapshots'
  BY DEF BackupTypes, BundlesAreSnapshots, Staged, Bundle, IsSnapshot, Consistency
<1> QED BY <1>1, <1>2, <1>3, <1>4, <1>5, <1>6

LEMMA KillKeeps ==
    ASSUME BackupInv, NEW b \in Backups, Kill(b)
    PROVE  BackupInv'
<1> USE DEF BackupInv, Kill, Goto, Returns, Forget, Holding, Apart, outcome, history
<1>1. BackupTypes'
  BY DEF BackupTypes, Blank, Piece
<1>2. Guarded'
  BY DEF BackupTypes, Guarded
<1>3. Alone'
  BY DEF BackupTypes, Alone
<1>4. Staged'
  BY DEF BackupTypes, Alone, Staged, Blank, Piece, IsSnapshot
<1>5. Told'
  BY DEF BackupTypes, Told, StoredMeansRestorable, Success, Bundle
<1>6. BundlesAreSnapshots'
  BY DEF BackupTypes, BundlesAreSnapshots, Staged, Bundle, IsSnapshot, Consistency
<1> QED BY <1>1, <1>2, <1>3, <1>4, <1>5, <1>6

LEMMA WriteKeeps == ASSUME BackupInv, Write PROVE BackupInv'
<1> USE DEF BackupInv, Write, outcome, history
<1>1. BackupTypes'
  BY DEF BackupTypes, Piece
<1>2. Guarded' /\ Alone' /\ Told' /\ BundlesAreSnapshots'
  BY DEF Guarded, Alone, Told, StoredMeansRestorable, BundlesAreSnapshots
<1>3. Staged'
  BY DEF BackupTypes, Alone, Staged
<1> QED BY <1>1, <1>2, <1>3

LEMMA BackupInductive == BackupInv /\ [BackupNext]_backupVars => BackupInv'
<1> SUFFICES ASSUME BackupInv, [BackupNext]_backupVars PROVE BackupInv'
  OBVIOUS
<1>1. ASSUME NEW b \in Backups, BackupStep(b) PROVE BackupInv'
  BY <1>1, BeginBackupKeeps, BeginOnlyKeeps, PrepareKeeps, PrepareFailsKeeps,
     CopyFirstKeeps,
     CopySecondKeeps, StagingFailsKeeps, CompleteKeeps, CompleteFailsKeeps, DropKeeps,
     encrypt_with_ageKeeps, verify_encrypted_bundleKeeps, UploadKeeps,
     write_backup_statusKeeps, KillKeeps DEF BackupStep
<1>2. CASE UNCHANGED backupVars
  BY <1>2 DEF backupVars, outcome, BackupInv, BackupTypes, Guarded, Alone, Staged, Told,
              StoredMeansRestorable, BundlesAreSnapshots
<1> QED BY <1>1, <1>2, WriteKeeps DEF BackupNext

\* For any number of backups and writes: without overlap a bundle that says it was
\* quiesced is of one moment, every bundle in the cloud can be opened, and a status
\* of success is of a backup that stored one.
THEOREM BackedUpTruly == BackupSpec => []BackupsAreTrue
<1>1. BackupInv => BackupsAreTrue
  BY DEF BackupInv, Told, BackupsAreTrue
<1> QED BY InitBackups, BackupInductive, <1>1, PTL DEF BackupSpec

\* No backup leaves the workload frozen behind, however many overlap and whichever
\* of them fails, unless one was killed or an answer of deputyd lost.
THEOREM Thaws == BackupSpec => []ThawedAfter
<1>1. BackupInv => ThawedAfter
  BY DEF BackupInv, Guarded, ThawedAfter, Holding
<1> QED BY InitBackups, BackupInductive, <1>1, PTL DEF BackupSpec
=============================================================================
