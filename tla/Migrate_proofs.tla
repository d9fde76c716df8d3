-------------------------- MODULE Migrate_proofs ---------------------------
(***************************************************************************)
(* Proofs about Migrate, for every set of runners, of files and of         *)
(* releases.                                                               *)
(***************************************************************************)
EXTENDS Migrate, FiniteSetTheorems, WellFoundedInduction, TLAPS

LEMMA StoppedType == Stopped \in Runner /\ Nothing \in Listing
BY DEF Stopped, Runner, Listing, Nothing

(* Type correctness of Migrate.                                            *)
THEOREM TypeCorrect == Spec => []TypeOK
<1>1. Init => TypeOK
  BY StoppedType DEF Init, TypeOK
<1>2. TypeOK /\ [Next]_vars => TypeOK'
  <2> SUFFICES ASSUME TypeOK, [Next]_vars
               PROVE  TypeOK'
    OBVIOUS
  <2>1. CASE UNCHANGED vars
    BY <2>1 DEF vars, TypeOK
  <2>2. ASSUME NEW r \in Runners, NEW c \in {"up", "status"},
               NEW f \in Releases, Start(r, c, f)
        PROVE  TypeOK'
    <3>1. [Stopped EXCEPT !.pc = "locking", !.command = c, !.files = f]
            \in Runner
      BY StoppedType DEF Stopped, Runner
    <3> QED BY <2>2, <3>1 DEF Start, TypeOK
  <2>3. ASSUME NEW r \in Runners, Lock(r)
        PROVE  TypeOK'
    <3>1. [run[r] EXCEPT !.pc = "inspecting"] \in Runner
      BY DEF TypeOK, Runner
    <3> QED BY <2>3, <3>1 DEF Lock, TypeOK
  <2>4. ASSUME NEW r \in Runners, Abort(r)
        PROVE  TypeOK'
    BY <2>4, StoppedType DEF Abort, End, TypeOK
  <2>5. ASSUME NEW r \in Runners, Inspect(r)
        PROVE  TypeOK'
    <3>1. [run[r] EXCEPT !.pc = "applying", !.applied = recorded] \in Runner
      BY DEF TypeOK, Runner
    <3> QED BY <2>5, <3>1 DEF Inspect, TypeOK
  <2>6. ASSUME NEW r \in Runners, Execute(r)
        PROVE  TypeOK'
    <3>1. PICK v \in Pending(r) :
            run' = [run EXCEPT ![r].pc = "recording",
                               ![r].executed = @ \cup {v}]
      BY <2>6 DEF Execute
    <3>2. v \in Versions
      BY DEF Pending
    <3>3. [run[r] EXCEPT !.pc = "recording", !.executed = @ \cup {v}]
            \in Runner
      BY <3>2 DEF TypeOK, Runner
    <3> QED BY <2>6, <3>1, <3>3 DEF Execute, TypeOK
  <2>7. ASSUME NEW r \in Runners, Record(r)
        PROVE  TypeOK'
    <3>1. [run[r] EXCEPT !.pc = "applying", !.inserted = run[r].executed]
            \in Runner
      BY DEF TypeOK, Runner
    <3> QED BY <2>7, <3>1 DEF Record, TypeOK
  <2>8. ASSUME NEW r \in Runners, Commit(r)
        PROVE  TypeOK'
    <3>1. [Stopped EXCEPT !.pc = "done", !.files = run[r].files] \in Runner
      BY StoppedType DEF TypeOK, Stopped, Runner
    <3>2. recorded' \in Listing
      BY <2>8, MigrateAssumption DEF Commit, TypeOK, Runner, Listing, Nothing
    <3>3. schema' \subseteq Versions
      BY <2>8 DEF Commit, TypeOK, Runner
    <3> QED BY <2>8, <3>1, <3>2, <3>3 DEF Commit, End, Served, TypeOK
  <2> QED
    BY <2>1, <2>2, <2>3, <2>4, <2>5, <2>6, <2>7, <2>8
    DEF Next, Step, Refuse, Status
<1> QED BY <1>1, <1>2, PTL DEF Spec

-----------------------------------------------------------------------------
(* Only the holder of the lock is past the lock statement.                 *)
Exclusive == \A r \in Runners : Inside(r) => lock = r

(* What a runner has found and done in its open transaction: it works from *)
(* the committed rows, which are still what its SELECT returned, and has   *)
(* executed only files of its own that have no row.                        *)
InTransaction(r) ==
  /\ run[r].pc # "idle" => run[r].files \in Releases
  /\ run[r].pc \notin {"applying", "recording"} =>
       run[r].executed = {} /\ run[r].inserted = {}
  /\ run[r].pc \in {"applying", "recording"} =>
       /\ run[r].applied = recorded
       /\ Valid(recorded, run[r].files)
       /\ \A v \in run[r].executed : run[r].files[v] # None /\ recorded[v] = None
  /\ run[r].pc = "applying" => run[r].inserted = run[r].executed

IInv ==
  /\ TypeOK
  /\ Exclusive
  /\ \A r \in Runners : InTransaction(r)
  /\ InStep
  /\ ServedBySchema

(* A commit makes the recorded list that of the release that commits, and  *)
(* loses no row.                                                           *)
LEMMA CommitFacts ==
  ASSUME IInv, NEW r \in Runners, Commit(r)
  PROVE  /\ recorded' = run[r].files
         /\ recorded' \in Releases
         /\ Valid(recorded, recorded')
         /\ InStep'
<1> DEFINE f == run[r].files
<1>1. f \in Releases /\ f \in Listing /\ recorded \in Listing
  BY MigrateAssumption
  DEF IInv, InTransaction, Commit, AllApplied, TypeOK, Listing
<1>2. /\ run[r].inserted = run[r].executed
      /\ run[r].executed \subseteq Versions
      /\ run[r].applied = recorded
      /\ \A v \in Versions : recorded[v] # None => f[v] = recorded[v]
      /\ \A v \in run[r].executed : f[v] # None /\ recorded[v] = None
  BY DEF IInv, InTransaction, Commit, AllApplied, Valid, TypeOK, Runner
<1>3. \A v \in Versions : f[v] # None /\ recorded[v] = None
                            => v \in run[r].executed
  BY <1>2 DEF Commit, AllApplied, Pending
<1>4. recorded' = [v \in Versions |-> IF v \in run[r].executed
                                      THEN f[v] ELSE recorded[v]]
  BY <1>2 DEF Commit
<1>5. \A v \in Versions : recorded'[v] = f[v]
  BY <1>2, <1>3, <1>4
<1>6. recorded' = f
  BY <1>1, <1>4, <1>5 DEF Listing
<1>7. Valid(recorded, recorded')
  BY <1>2, <1>6 DEF Valid
<1>8. InStep'
  <2>1. schema' = schema \cup run[r].executed
    BY DEF Commit
  <2>2. schema = {v \in Versions : recorded[v] # None}
    BY DEF IInv, InStep
  <2> QED BY <1>2, <1>3, <1>6, <2>1, <2>2 DEF InStep
<1> QED BY <1>1, <1>6, <1>7, <1>8

(* Abort leaves everything but its runner and the lock alone; the lock     *)
(* stays with whoever else holds it.                                       *)
LEMMA AbortFacts ==
  ASSUME IInv, NEW r \in Runners, Abort(r)
  PROVE  Exclusive' /\ (\A s \in Runners : InTransaction(s)')
         /\ InStep' /\ ServedBySchema'
<1>1. /\ recorded' = recorded /\ schema' = schema
      /\ lock' = IF lock = r THEN None ELSE lock
      /\ \A s \in Runners : run'[s] = IF s = r THEN Stopped ELSE run[s]
  BY DEF Abort, End, IInv, TypeOK
<1>2. Exclusive'
  BY <1>1 DEF IInv, Exclusive, Inside, Stopped
<1>3. \A s \in Runners : InTransaction(s)'
  BY <1>1 DEF IInv, InTransaction, Stopped, Valid
<1>4. InStep' /\ ServedBySchema'
  BY <1>1 DEF IInv, InStep, ServedBySchema, Stopped, Valid
<1> QED BY <1>2, <1>3, <1>4

(* The lock serves one runner at a time, so what its SELECT returned stays *)
(* what is committed until it commits itself.                              *)
LEMMA Inductive == Spec => []IInv
<1>1. Init => IInv
  <2> SUFFICES ASSUME Init PROVE IInv
    OBVIOUS
  <2>1. \A r \in Runners : run[r] = Stopped
    BY DEF Init
  <2>2. TypeOK
    BY StoppedType DEF Init, TypeOK
  <2> QED
    BY <2>1, <2>2 DEF Init, IInv, Exclusive, Inside, InTransaction, InStep,
       ServedBySchema, Stopped, Nothing
<1>2. IInv /\ TypeOK' /\ [Next]_vars => IInv'
  <2> SUFFICES ASSUME IInv, TypeOK', [Next]_vars
               PROVE  Exclusive' /\ (\A s \in Runners : InTransaction(s)')
                      /\ InStep' /\ ServedBySchema'
    BY DEF IInv
  <2>1. CASE UNCHANGED vars
    BY <2>1 DEF vars, IInv, Exclusive, Inside, InTransaction, InStep,
                ServedBySchema, Valid
  <2>2. ASSUME NEW r \in Runners, NEW c \in {"up", "status"},
               NEW f \in Releases, Start(r, c, f)
        PROVE  Exclusive' /\ (\A s \in Runners : InTransaction(s)')
               /\ InStep' /\ ServedBySchema'
    <3> DEFINE started ==
          [Stopped EXCEPT !.pc = "locking", !.command = c, !.files = f]
    <3>1. /\ recorded' = recorded /\ schema' = schema /\ lock' = lock
          /\ \A s \in Runners : run'[s] = IF s = r THEN started ELSE run[s]
      BY <2>2 DEF Start, IInv, TypeOK
    <3>2. /\ started.pc = "locking" /\ started.files = f
          /\ started.executed = {} /\ started.inserted = {}
      BY DEF Stopped
    <3> HIDE DEF started
    <3>3. Exclusive'
      BY <3>1, <3>2 DEF IInv, Exclusive, Inside
    <3>4. \A s \in Runners : InTransaction(s)'
      BY <3>1, <3>2 DEF IInv, InTransaction, Valid
    <3>5. InStep' /\ ServedBySchema'
      BY <3>1, <3>2 DEF IInv, InStep, ServedBySchema, Valid
    <3> QED BY <3>3, <3>4, <3>5
  <2>3. ASSUME NEW r \in Runners, Lock(r)
        PROVE  Exclusive' /\ (\A s \in Runners : InTransaction(s)')
               /\ InStep' /\ ServedBySchema'
    <3>1. /\ recorded' = recorded /\ schema' = schema
          /\ lock = None /\ lock' = r /\ run[r].pc = "locking"
          /\ \A s \in Runners :
               run'[s] = IF s = r THEN [run[r] EXCEPT !.pc = "inspecting"]
                                  ELSE run[s]
      BY <2>3 DEF Lock, IInv, TypeOK
    <3>2. run[r] \in Runner
      BY DEF IInv, TypeOK
    <3>3. \A s \in Runners : ~Inside(s)
      BY <3>1, MigrateAssumption DEF IInv, Exclusive
    <3>4. Exclusive'
      BY <3>1, <3>3 DEF Exclusive, Inside
    <3>5. \A s \in Runners : InTransaction(s)'
      BY <3>1, <3>2 DEF IInv, InTransaction, Valid, Runner
    <3>6. InStep' /\ ServedBySchema'
      BY <3>1, <3>2 DEF IInv, InStep, ServedBySchema, Valid, Runner
    <3> QED BY <3>4, <3>5, <3>6
  <2>4. ASSUME NEW r \in Runners, Abort(r)
        PROVE  Exclusive' /\ (\A s \in Runners : InTransaction(s)')
               /\ InStep' /\ ServedBySchema'
    BY <2>4, AbortFacts
  <2>5. ASSUME NEW r \in Runners, Inspect(r) \/ Execute(r) \/ Record(r)
        PROVE  Exclusive' /\ (\A s \in Runners : InTransaction(s)')
               /\ InStep' /\ ServedBySchema'
    <3>1. /\ recorded' = recorded /\ schema' = schema /\ lock' = lock
          /\ Inside(r)
          /\ run'[r].pc \in {"applying", "recording"}
          /\ \A s \in Runners : s # r => run'[s] = run[s]
      <4>1. CASE Inspect(r)
        BY <4>1 DEF Inspect, Inside, IInv, TypeOK, Runner
      <4>2. CASE Execute(r)
        BY <4>2 DEF Execute, Inside, IInv, TypeOK, Runner
      <4>3. CASE Record(r)
        BY <4>3 DEF Record, Inside, IInv, TypeOK, Runner
      <4> QED BY <2>5, <4>1, <4>2, <4>3
    <3>2. InTransaction(r)'
      <4>1. CASE Inspect(r)
        <5>1. run[r] \in Runner /\ run[r].pc = "inspecting"
              /\ run'[r] = [run[r] EXCEPT !.pc = "applying",
                                          !.applied = recorded]
              /\ recorded' = recorded /\ Valid(recorded, run[r].files)
          BY <4>1 DEF Inspect, IInv, TypeOK
        <5>2. /\ run[r].executed = {} /\ run[r].inserted = {}
              /\ run[r].files \in Releases
          BY <5>1 DEF IInv, InTransaction
        <5> QED BY <5>1, <5>2 DEF InTransaction, Runner, Valid
      <4>2. CASE Execute(r)
        <5>1. PICK v \in Pending(r) :
                run' = [run EXCEPT ![r].pc = "recording",
                                   ![r].executed = @ \cup {v}]
          BY <4>2 DEF Execute
        <5>2. run[r].files[v] # None /\ run[r].applied[v] = None
          BY DEF Pending
        <5>3. run[r] \in Runner /\ run[r].pc = "applying"
              /\ run'[r] = [run[r] EXCEPT !.pc = "recording",
                                          !.executed = @ \cup {v}]
          BY <4>2, <5>1 DEF Execute, IInv, TypeOK
        <5> QED
          BY <3>1, <5>2, <5>3 DEF InTransaction, IInv, Runner, Valid
      <4>3. CASE Record(r)
        BY <4>3 DEF Record, InTransaction, IInv, TypeOK, Runner, Valid
      <4> QED BY <2>5, <4>1, <4>2, <4>3
    <3>3. Exclusive'
      BY <3>1 DEF IInv, Exclusive, Inside
    <3>4. \A s \in Runners : InTransaction(s)'
      BY <3>1, <3>2 DEF IInv, InTransaction, Valid
    <3>5. InStep' /\ ServedBySchema'
      BY <3>1 DEF IInv, InStep, ServedBySchema, Valid
    <3> QED BY <3>3, <3>4, <3>5
  <2>6. ASSUME NEW r \in Runners, Commit(r)
        PROVE  Exclusive' /\ (\A s \in Runners : InTransaction(s)')
               /\ InStep' /\ ServedBySchema'
    <3> DEFINE served == [Stopped EXCEPT !.pc = "done", !.files = run[r].files]
    <3>1. /\ recorded' = run[r].files /\ recorded' \in Releases
          /\ Valid(recorded, recorded') /\ InStep'
      BY <2>6, CommitFacts
    <3>2. /\ run[r].pc = "applying"
          /\ lock' = IF lock = r THEN None ELSE lock
          /\ \A s \in Runners : run'[s] = IF s = r THEN served ELSE run[s]
      BY <2>6 DEF Commit, AllApplied, Served, End, IInv, TypeOK
    <3>3. /\ served.pc = "done" /\ served.files = run[r].files
          /\ served.executed = {} /\ served.inserted = {}
      BY DEF Stopped
    <3>4. \A s \in Runners : Inside(s) => s = r
      BY <3>2 DEF IInv, Exclusive, Inside
    <3>5. Exclusive'
      BY <3>2, <3>3, <3>4 DEF Exclusive, Inside
    <3>6. ASSUME NEW s \in Runners PROVE InTransaction(s)'
      <4>1. CASE s = r
        BY <3>1, <3>2, <3>3, <4>1 DEF InTransaction
      <4>2. CASE s # r
        <5>1. run'[s] = run[s] /\ ~Inside(s)
          BY <3>2, <3>4, <4>2
        <5> QED BY <5>1 DEF IInv, InTransaction, Inside
      <4> QED BY <4>1, <4>2
    <3>7. ServedBySchema'
      <4>1. ASSUME NEW s \in Runners, run'[s].pc = "done"
            PROVE  Valid(run'[s].files, recorded')
        <5>1. CASE s = r
          BY <3>1, <3>2, <3>3, <5>1 DEF Valid
        <5>2. CASE s # r
          <6>1. run'[s] = run[s] /\ Valid(run[s].files, recorded)
            BY <3>2, <4>1, <5>2 DEF IInv, ServedBySchema
          <6> QED BY <3>1, <6>1 DEF Valid
        <5> QED BY <5>1, <5>2
      <4> QED BY <4>1 DEF ServedBySchema, Valid
    <3> QED BY <3>1, <3>5, <3>6, <3>7
  <2> QED
    BY <2>1, <2>2, <2>3, <2>4, <2>5, <2>6 DEF Next, Step, Refuse, Status
<1> QED BY <1>1, <1>2, TypeCorrect, PTL DEF Spec

-----------------------------------------------------------------------------
(* A row says exactly that the SQL of its file has taken effect: a failure *)
(* at any statement leaves neither without the other.                      *)
THEOREM InStepAlways == Spec => []InStep
<1>1. IInv => InStep
  BY DEF IInv
<1> QED BY <1>1, Inductive, PTL

(* However many containers start at once, no file's SQL is executed twice. *)
THEOREM NothingTwice == Spec => []ExecutedOnce
<1>1. IInv => ExecutedOnce
  <2> SUFFICES ASSUME IInv, NEW r \in Runners
               PROVE  /\ run[r].executed \cap schema = {}
                      /\ \A s \in Runners \ {r} :
                           run[r].executed \cap run[s].executed = {}
    BY DEF ExecutedOnce
  <2>1. run[r].executed \cap schema = {}
    BY DEF IInv, InTransaction, InStep
  <2>2. ASSUME NEW s \in Runners, s # r
        PROVE  run[r].executed \cap run[s].executed = {}
    <3>1. ~Inside(r) \/ ~Inside(s)
      BY <2>2 DEF IInv, Exclusive
    <3> QED BY <3>1 DEF IInv, InTransaction, Inside
  <2> QED BY <2>1, <2>2
<1> QED BY <1>1, Inductive, PTL

(* A container that serves finds the schema its release was written for.   *)
THEOREM ServedAlways == Spec => []ServedBySchema
<1>1. IInv => ServedBySchema
  BY DEF IInv
<1> QED BY <1>1, Inductive, PTL

(* What is recorded changes to the whole list of the release whose `up`    *)
(* returns, and a new list extends the old one.                            *)
THEOREM WholeReleases == Spec => ReleaseToRelease
<1>1. IInv /\ [Next]_vars
        => [/\ Valid(recorded, recorded')
            /\ \E r \in Runners :
                 run'[r].pc = "done" /\ recorded' = run'[r].files]_recorded
  <2> SUFFICES ASSUME IInv, [Next]_vars, recorded' # recorded
               PROVE  /\ Valid(recorded, recorded')
                      /\ \E r \in Runners : /\ run'[r].pc = "done"
                                            /\ recorded' = run'[r].files
    OBVIOUS
  <2>1. PICK r \in Runners : Commit(r)
    BY DEF Next, Step, Start, Lock, Inspect, Refuse, Execute, Record, Status,
           Abort, vars
  <2>2. run'[r].pc = "done" /\ run'[r].files = run[r].files
    BY <2>1 DEF Commit, Served, Stopped, End, IInv, TypeOK
  <2> QED BY <2>1, <2>2, CommitFacts
<1> QED BY <1>1, Inductive, PTL DEF Spec, ReleaseToRelease

-----------------------------------------------------------------------------
(* What a run has left to do: a file takes its SQL and its row, and before *)
(* the SELECT all files of the release may be pending.                     *)

FilesLeft(r) == Cardinality(Pending(r))

StatementsLeft(r) ==
  CASE run[r].pc = "locking"    -> 3 + 2 * Cardinality(Versions)
    [] run[r].pc = "inspecting" -> 2 + 2 * Cardinality(Versions)
    [] run[r].pc = "recording"  -> 2 + 2 * FilesLeft(r)
    [] run[r].pc = "applying"   -> 1 + 2 * FilesLeft(r)
    [] OTHER                    -> 0

(* The statement of Step that comes next finds what it needs: a first      *)
(* pending file, and no row yet for the file it has executed.              *)
CanStep(r) ==
  CASE run[r].pc = "applying" ->
         \/ run[r].command = "status"
         \/ run[r].command = "up" /\ Pending(r) = {}
         \/ /\ run[r].command = "up"
            /\ \E v \in Pending(r) : \A w \in Pending(r) : v <= w
    [] run[r].pc = "recording" ->
         \A v \in run[r].executed \ run[r].inserted : recorded[v] = None
    [] OTHER -> run[r].pc = "inspecting"

(* The lock is held by a run that is under way.                            *)
HeldInside == lock # None => Inside(lock)

(* Finitely many files have a first one: of the sets of what comes before  *)
(* a file, one is smallest.                                                *)
LEMMA FirstFile ==
  ASSUME NEW S \in SUBSET Versions, S # {}
  PROVE  \E v \in S : \A w \in S : v <= w
<1> DEFINE Before(v) == {w \in S : w < v}
           Heads == {Before(v) : v \in S}
<1>1. S \subseteq Nat /\ IsFiniteSet(S)
  BY MigrateAssumption, FS_Subset
<1>2. Heads # {} /\ \A H \in Heads : H \subseteq S
  OBVIOUS
<1>3. PICK H \in Heads : \A G \in Heads : ~ (<<G, H>> \in StrictSubsetOrdering(S))
  <2> HIDE DEF Heads
  <2>1. Heads \subseteq FiniteSubsetsOf(S)
    BY <1>1, <1>2, FS_FiniteSubsetsOfFinite
  <2> QED BY <1>1, <1>2, <2>1, WFMin, FS_StrictSubsetOrderingWellFounded
<1>4. PICK v \in S : H = Before(v)
  OBVIOUS
<1>5. ASSUME NEW w \in S, w < v PROVE FALSE
  <2>0. \A x \in S : x \in Int
    BY <1>1
  <2>1. /\ Before(w) \subseteq Before(v) /\ w \in Before(v) /\ w \notin Before(w)
        /\ Before(v) \subseteq S
    BY <1>5, <2>0
  <2>2. Before(w) \in Heads
    OBVIOUS
  <2> HIDE DEF Before, Heads
  <2> QED BY <1>3, <1>4, <2>1, <2>2 DEF StrictSubsetOrdering
<1> QED BY <1>1, <1>5

LEMMA FilesLeftIs ==
  ASSUME NEW r \in Runners
  PROVE  /\ Pending(r) \in SUBSET Versions /\ IsFiniteSet(Pending(r))
         /\ FilesLeft(r) \in Nat /\ FilesLeft(r) <= Cardinality(Versions)
         /\ Cardinality(Versions) \in Nat
<1>1. Pending(r) \in SUBSET Versions
  BY DEF Pending
<1>2. /\ IsFiniteSet(Pending(r)) /\ Cardinality(Pending(r)) <= Cardinality(Versions)
  BY <1>1, MigrateAssumption, FS_Subset
<1> QED BY <1>1, <1>2, MigrateAssumption, FS_CardinalityType DEF FilesLeft

(* The file a run executes is pending no longer; to record it changes      *)
(* nothing about the others.                                               *)
LEMMA ExecuteLess ==
  ASSUME TypeOK, NEW r \in Runners, Execute(r)
  PROVE  /\ run[r].pc = "applying" /\ run'[r].pc = "recording"
         /\ FilesLeft(r)' = FilesLeft(r) - 1
<1>0. run[r] \in Runner
  BY DEF TypeOK
<1>1. PICK v \in Pending(r) :
        run'[r] = [run[r] EXCEPT !.pc = "recording",
                                 !.executed = run[r].executed \cup {v}]
  BY DEF Execute, TypeOK
<1>2. /\ run'[r].pc = "recording"
      /\ run'[r].executed = run[r].executed \cup {v}
      /\ run'[r].files = run[r].files /\ run'[r].applied = run[r].applied
  BY <1>0, <1>1 DEF Runner
<1>3. Pending(r)' = Pending(r) \ {v}
  BY <1>2 DEF Pending
<1>4. Cardinality(Pending(r) \ {v}) = Cardinality(Pending(r)) - 1
  BY FilesLeftIs, FS_RemoveElement
<1> QED BY <1>2, <1>3, <1>4 DEF FilesLeft, Execute

LEMMA RecordSame ==
  ASSUME TypeOK, NEW r \in Runners, Record(r)
  PROVE  /\ run[r].pc = "recording" /\ run'[r].pc = "applying"
         /\ FilesLeft(r)' = FilesLeft(r)
<1>0. run[r] \in Runner
  BY DEF TypeOK
<1>1. run'[r] = [run[r] EXCEPT !.pc = "applying", !.inserted = run[r].executed]
  BY DEF Record, TypeOK
<1>2. /\ run'[r].pc = "applying" /\ run'[r].executed = run[r].executed
      /\ run'[r].files = run[r].files /\ run'[r].applied = run[r].applied
  BY <1>0, <1>1 DEF Runner
<1>3. Pending(r)' = Pending(r)
  BY <1>2 DEF Pending
<1> QED BY <1>2, <1>3 DEF FilesLeft, Record

(* A run never starts over: each of its statements, and its failure,       *)
(* leaves it less to do, whatever the other runners do.                    *)
THEOREM MigrationsRunDown ==
  Spec => [][\A r \in Runners :
               run'[r] # run[r] /\ run[r].pc \notin {"idle", "done"} =>
                 /\ StatementsLeft(r) \in Nat /\ StatementsLeft(r)' \in Nat
                 /\ StatementsLeft(r)' < StatementsLeft(r)]_vars
<1>1. ASSUME TypeOK, NEW r \in Runners PROVE StatementsLeft(r) \in Nat
  BY FilesLeftIs DEF StatementsLeft
<1>2. TypeOK => \A r \in Runners : StatementsLeft(r) \in Nat
  BY <1>1
<1> DEFINE IsNat == \A r \in Runners : StatementsLeft(r) \in Nat
<1>3. ASSUME TypeOK, TypeOK', [Next]_vars, NEW r \in Runners,
             run'[r] # run[r], run[r].pc \notin {"idle", "done"}, StatementsLeft(r)' \in Nat
      PROVE  StatementsLeft(r)' < StatementsLeft(r)
  <2>0. /\ run[r].pc \in {"locking", "inspecting", "recording", "applying"}
        /\ run[r] \in Runner
    BY <1>3 DEF TypeOK, Runner
  <2>1. FilesLeft(r) \in Nat /\ Cardinality(Versions) \in Nat
    BY FilesLeftIs
  <2>2. ASSUME NEW x \in Runners, x # r,
               \/ \E c \in {"up", "status"}, f \in Releases : Start(x, c, f)
               \/ Lock(x) \/ Step(x) \/ Abort(x)
        PROVE  FALSE
    BY <1>3, <2>2 DEF Start, Lock, Step, Inspect, Refuse, Execute, Record, Commit,
                      Status, Abort, End, TypeOK
  <2>3. ~ \E c \in {"up", "status"}, f \in Releases : Start(r, c, f)
    BY <1>3 DEF Start
  <2>4. CASE Lock(r)
    <3>1. run[r].pc = "locking" /\ run'[r].pc = "inspecting"
      BY <1>3, <2>0, <2>4 DEF Lock, TypeOK, Runner
    <3> QED BY <2>1, <3>1 DEF StatementsLeft
  <2>5. CASE Abort(r) \/ Commit(r)
    <3>1. run'[r] = Stopped \/ run'[r] = Served(r)
      BY <1>3, <2>5 DEF Abort, Commit, End, TypeOK
    <3>2. Stopped.pc = "idle" /\ Served(r).pc = "done"
      BY DEF Served, Stopped
    <3>3. run'[r].pc \in {"idle", "done"}
      BY <3>1, <3>2
    <3>4. StatementsLeft(r)' = 0
      BY <3>3 DEF StatementsLeft
    <3> QED BY <2>0, <2>1, <3>4 DEF StatementsLeft
  <2>6. CASE Inspect(r)
    <3>1. run[r].pc = "inspecting" /\ run'[r].pc = "applying"
      BY <1>3, <2>0, <2>6 DEF Inspect, TypeOK, Runner
    <3>3. FilesLeft(r)' <= Cardinality(Versions) /\ FilesLeft(r)' \in Nat
      <4>1. Pending(r)' \in SUBSET Versions
        BY DEF Pending
      <4>2. /\ IsFiniteSet(Pending(r)')
            /\ Cardinality(Pending(r)') <= Cardinality(Versions)
        BY <4>1, MigrateAssumption, FS_Subset
      <4>3. Cardinality(Pending(r)') \in Nat
        BY <4>2, FS_CardinalityType
      <4> QED BY <4>2, <4>3 DEF FilesLeft
    <3> QED BY <2>1, <3>1, <3>3 DEF StatementsLeft
  <2>7. CASE Execute(r)
    BY <1>3, <2>1, <2>7, ExecuteLess DEF StatementsLeft
  <2>8. CASE Record(r)
    BY <1>3, <2>1, <2>8, RecordSame DEF StatementsLeft
  <2> QED
    BY <1>3, <2>2, <2>3, <2>4, <2>5, <2>6, <2>7, <2>8 DEF Next, Step, Refuse, Status, vars
<1>4. TypeOK /\ TypeOK' /\ IsNat /\ IsNat' /\ [Next]_vars =>
        [\A r \in Runners :
           run'[r] # run[r] /\ run[r].pc \notin {"idle", "done"} =>
             /\ StatementsLeft(r) \in Nat /\ StatementsLeft(r)' \in Nat
             /\ StatementsLeft(r)' < StatementsLeft(r)]_vars
  BY <1>3
<1> HIDE DEF IsNat
<1>5. TypeOK => IsNat
  BY <1>2 DEF IsNat
<1> QED BY <1>4, <1>5, TypeCorrect, PTL DEF Spec

LEMMA AlwaysHeldInside == Spec => []HeldInside
<1>1. Init => HeldInside
  BY DEF Init, HeldInside
<1>2. TypeOK /\ HeldInside /\ [Next]_vars => HeldInside'
  <2> SUFFICES ASSUME TypeOK, HeldInside, [Next]_vars, lock' # None
               PROVE  Inside(lock)'
    BY DEF HeldInside
  <2>1. CASE UNCHANGED vars
    BY <2>1 DEF vars, HeldInside, Inside
  <2>2. ASSUME NEW r \in Runners, NEW c \in {"up", "status"}, NEW f \in Releases,
               Start(r, c, f)
        PROVE  Inside(lock)'
    <3>1. lock' = lock /\ Inside(lock) /\ lock # r /\ lock \in Runners
      BY <2>2 DEF Start, HeldInside, Inside, TypeOK
    <3> QED BY <2>2, <3>1 DEF Start, Inside, TypeOK
  <2>3. ASSUME NEW r \in Runners, Lock(r) PROVE Inside(lock)'
    BY <2>3 DEF Lock, Inside, TypeOK, Runner
  <2>4. ASSUME NEW r \in Runners, Abort(r) \/ Commit(r) PROVE Inside(lock)'
    <3>1. lock' = lock /\ Inside(lock) /\ lock # r /\ lock \in Runners
      BY <2>4 DEF Abort, Commit, End, HeldInside, TypeOK
    <3>2. run'[lock] = run[lock]
      BY <2>4, <3>1 DEF Abort, Commit, End, TypeOK
    <3> QED BY <3>1, <3>2 DEF Inside
  <2>5. ASSUME NEW r \in Runners, Inspect(r) \/ Execute(r) \/ Record(r)
        PROVE  Inside(lock)'
    <3>1. lock' = lock /\ Inside(lock) /\ lock \in Runners
      BY <2>5 DEF Inspect, Execute, Record, HeldInside, TypeOK
    <3>2. CASE lock = r
      <4>1. run'[r].pc \in {"applying", "recording"}
        BY <2>5, ExecuteLess, RecordSame DEF Inspect, TypeOK, Runner
      <4> QED BY <3>1, <3>2, <4>1 DEF Inside
    <3>3. CASE lock # r
      BY <2>5, <3>1, <3>3 DEF Inspect, Execute, Record, Inside, TypeOK
    <3> QED BY <3>2, <3>3
  <2> QED BY <2>1, <2>2, <2>3, <2>4, <2>5 DEF Next, Step, Refuse, Status
<1> QED BY <1>1, <1>2, TypeCorrect, PTL DEF Spec

(* The lock is never left behind by a run that is over, and its holder     *)
(* never waits: there is a first pending file, and the primary key never   *)
(* refuses the row of the file whose SQL was executed.  So whoever waits   *)
(* for the lock waits for a run that gets on.                              *)
THEOREM HolderGetsOn ==
  Spec => [](/\ lock # None => lock \in Runners /\ Inside(lock)
             /\ \A r \in Runners : Inside(r) => lock = r /\ CanStep(r))
<1>1. IInv /\ HeldInside =>
        /\ lock # None => lock \in Runners /\ Inside(lock)
        /\ \A r \in Runners : Inside(r) => lock = r /\ CanStep(r)
  <2> SUFFICES ASSUME IInv, HeldInside
               PROVE  /\ lock # None => lock \in Runners /\ Inside(lock)
                      /\ \A r \in Runners : Inside(r) => lock = r /\ CanStep(r)
    OBVIOUS
  <2>1. lock # None => lock \in Runners /\ Inside(lock)
    BY DEF IInv, TypeOK, HeldInside
  <2>2. ASSUME NEW r \in Runners, Inside(r) PROVE lock = r /\ CanStep(r)
    <3>1. lock = r /\ InTransaction(r) /\ run[r] \in Runner
      BY <2>2 DEF IInv, Exclusive, TypeOK
    <3>2. CASE run[r].pc = "inspecting"
      BY <3>1, <3>2 DEF CanStep
    <3>3. CASE run[r].pc = "applying"
      <4>1. run[r].command \in {"up", "status"}
        BY <3>1 DEF Runner
      <4>2. Pending(r) = {} \/ \E v \in Pending(r) : \A w \in Pending(r) : v <= w
        BY FirstFile, FilesLeftIs
      <4> QED BY <3>1, <3>3, <4>1, <4>2 DEF CanStep
    <3>4. CASE run[r].pc = "recording"
      BY <3>1, <3>4 DEF CanStep, InTransaction
    <3> QED BY <2>2, <3>2, <3>3, <3>4 DEF Inside
  <2> QED BY <2>1, <2>2
<1> QED BY <1>1, Inductive, AlwaysHeldInside, PTL

=============================================================================
