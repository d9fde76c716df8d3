--------------------------- MODULE AclSync_proofs ---------------------------
(***************************************************************************)
(* Proofs about AclSync, for every set of documents, sources and policies  *)
(* and every delay, skew and staleness bound.                              *)
(***************************************************************************)
EXTENDS AclSync, FiniteSetTheorems, TLAPS

(* Stamping keeps the policy: what _stamped wrote reads back as the policy *)
(* it was given, with the stamp it was given, and is an ACL.               *)
LEMMA StampedFacts ==
  ASSUME NEW p \in Policies, NEW t \in Int
  PROVE  /\ Stamped(p, t) \in Acl
         /\ Stamped(p, t) # None
         /\ PolicyOf(Stamped(p, t)) = p
         /\ Stamped(p, t).synced = t
         /\ p # None
<1>1. p \in PolicySpace(Roles, Sites) /\ p # None
  BY AclSyncAssumption, AclStoreAssumption
<1>2. Stamped(p, t) \in Acl
  BY <1>1 DEF Stamped, Acl, PolicySpace
<1>3. PolicyOf(Stamped(p, t)) = p
  BY <1>1 DEF PolicyOf, Stamped, PolicySpace
<1> QED
  BY <1>1, <1>2, <1>3, AclSyncAssumption, AclStoreAssumption DEF Stamped

(* apply_event and reconcile's upsert both keep the store well typed.      *)
LEMMA UpsertType ==
  ASSUME store \in [Docs -> Acl \cup {None}],
         NEW d \in Docs, NEW p \in Policies, NEW t \in Int, Upsert(d, p, t)
  PROVE  /\ store' \in [Docs -> Acl \cup {None}]
         /\ store' = [store EXCEPT ![d] = Stamped(p, t)]
BY StampedFacts DEF Upsert

LEMMA DeleteType ==
  ASSUME store \in [Docs -> Acl \cup {None}], NEW d \in Docs, Delete(d)
  PROVE  store' \in [Docs -> Acl \cup {None}]
BY DEF Delete

LEMMA TouchType ==
  ASSUME touched \in [Sources -> SUBSET Docs],
         NEW d \in Docs, NEW S \in SUBSET Sources, Touch(S, d)
  PROVE  touched' \in [Sources -> SUBSET Docs]
BY DEF Touch

LEMMA ReadingsAreInt ==
  ASSUME now \in Nat
  PROVE  /\ ClockReadings \subseteq Int
         /\ \A t \in ClockReadings : t <= now + Skew
BY AclSyncAssumption, AclStoreAssumption DEF ClockReadings

LEMMA IdleType == Idle \in Reconcile /\ NothingFetched \in Fetched
BY DEF Idle, NothingFetched, Reconcile, Fetched

(* Updating the fields reconcile updates keeps its record well typed.      *)
LEMMA ReconcileUpdateType ==
  ASSUME NEW r \in Reconcile, NEW f \in Fetched, NEW T \in SUBSET Docs,
         NEW q \in {"idle", "fetching", "upserting", "sweeping"}
  PROVE  /\ [r EXCEPT !.pc = q, !.fetched = f, !.todo = T] \in Reconcile
         /\ [r EXCEPT !.pc = q, !.todo = T] \in Reconcile
         /\ [r EXCEPT !.todo = T] \in Reconcile
         /\ T \in SUBSET Docs
BY DEF Reconcile

-----------------------------------------------------------------------------
(* Type correctness.  MatchInv is needed for one thing: what reconcile     *)
(* still has to upsert was really fetched, hence is a policy.              *)

LEMMA InitType == Init => TypeOK /\ MatchInv
<1> SUFFICES ASSUME Init PROVE TypeOK /\ MatchInv
  OBVIOUS
<1>1. Never \in Int
  BY AclSyncAssumption, AclStoreAssumption DEF Never
<1>2. \A s \in Sources : rec[s].pc = "idle"
  BY DEF Init, Idle
<1>3. MatchInv
  BY <1>2 DEF MatchInv
<1> QED
  BY <1>1, <1>3, IdleType DEF Init, TypeOK, Event

LEMMA StepType == TypeOK /\ MatchInv /\ [Next]_vars => TypeOK'
<1> SUFFICES ASSUME TypeOK, MatchInv, [Next]_vars PROVE TypeOK'
  OBVIOUS
<1> USE DEF TypeOK
<1>1. CASE Tick
  BY <1>1 DEF Tick, StoreTick, envVars
<1>2. ASSUME NEW d \in Docs, NEW p \in Policies \cup {None},
             UpstreamChange(d, p)
      PROVE TypeOK'
  <2>1. truth' \in [Docs -> Policies \cup {None}] /\ changes' \in Nat
    BY <1>2 DEF UpstreamChange
  <2>2. heldUntil' \in [Docs -> [Policies -> Int]]
    BY <1>2 DEF UpstreamChange
  <2>3. events' \subseteq Event
    BY <1>2 DEF UpstreamChange, Event
  <2> QED
    BY <1>2, <2>1, <2>2, <2>3 DEF UpstreamChange
<1>3. ASSUME NEW e \in events, ApplyEvent(e) PROVE TypeOK'
  <2>1. e.doc \in Docs /\ e.policy \in Policies \cup {None}
    BY DEF Event
  <2>2. store' \in [Docs -> Acl \cup {None}]
    <3>1. CASE e.policy = None
      BY <1>3, <2>1, <3>1, DeleteType DEF ApplyEvent
    <3>2. CASE e.policy # None
      <4> PICK t \in ClockReadings : Upsert(e.doc, e.policy, t)
        BY <1>3, <3>2 DEF ApplyEvent
      <4> QED
        BY <2>1, <3>2, ReadingsAreInt, UpsertType
    <3> QED
      BY <3>1, <3>2
  <2>3. touched' \in [Sources -> SUBSET Docs]
    BY <1>3, <2>1, TouchType DEF ApplyEvent
  <2> QED
    BY <1>3, <2>2, <2>3 DEF ApplyEvent, envVars
<1>4. ASSUME NEW s \in Sources, ReconcileBegin(s) PROVE TypeOK'
  <2> PICK t \in ClockReadings :
        rec' = [rec EXCEPT ![s] = [Idle EXCEPT !.pc = "fetching", !.stamp = t]]
    BY <1>4 DEF ReconcileBegin
  <2>1. [Idle EXCEPT !.pc = "fetching", !.stamp = t] \in Reconcile
    BY ReadingsAreInt, IdleType DEF Reconcile, Idle
  <2> QED
    BY <1>4, <2>1 DEF ReconcileBegin, envVars
<1>5. ASSUME NEW s \in Sources, ReconcileFetch(s) PROVE TypeOK'
  <2> DEFINE got == [d \in Docs |-> IF SourceOf[d] = s THEN truth[d] ELSE None]
             T == {d \in Docs : got[d] # None}
  <2>1. got \in Fetched /\ T \in SUBSET Docs
    BY DEF Fetched
  <2>2. rec' = [rec EXCEPT ![s] = [rec[s] EXCEPT !.pc = "upserting",
                                     !.fetched = got, !.todo = T]]
    BY <1>5 DEF ReconcileFetch
  <2> HIDE DEF got, T
  <2>3. rec' \in [Sources -> Reconcile]
    BY <2>1, <2>2, ReconcileUpdateType
  <2> QED
    BY <1>5, <2>3 DEF ReconcileFetch, envVars
<1>6. ASSUME NEW s \in Sources, NEW d \in Docs, ReconcileUpsert(s, d)
      PROVE TypeOK'
  <2>1. rec[s].fetched[d] \in Policies /\ rec[s].stamp \in Int
    BY <1>6 DEF Reconcile, Fetched, ReconcileUpsert, MatchInv
  <2>2. store' \in [Docs -> Acl \cup {None}]
    BY <1>6, <2>1, UpsertType DEF ReconcileUpsert
  <2>3. touched' \in [Sources -> SUBSET Docs]
    BY <1>6, TouchType DEF ReconcileUpsert
  <2>4. rec[s].todo \ {d} \in SUBSET Docs
    BY DEF Reconcile
  <2>5. rec' = [rec EXCEPT ![s] = [rec[s] EXCEPT !.todo = rec[s].todo \ {d}]]
    BY <1>6 DEF ReconcileUpsert
  <2>6. rec' \in [Sources -> Reconcile]
    BY <2>4, <2>5, IdleType, ReconcileUpdateType
  <2> QED
    BY <1>6, <2>2, <2>3, <2>6 DEF ReconcileUpsert, envVars
<1>7. ASSUME NEW s \in Sources, ReconcileSweep(s) PROVE TypeOK'
  <2> DEFINE T == {d \in AllDocumentIds : rec[s].fetched[d] = None}
  <2>1. T \in SUBSET Docs
    BY DEF AllDocumentIds
  <2>2. rec' = [rec EXCEPT ![s] = [rec[s] EXCEPT !.pc = "sweeping", !.todo = T]]
    BY <1>7 DEF ReconcileSweep
  <2> HIDE DEF T
  <2>3. rec' \in [Sources -> Reconcile]
    BY <2>1, <2>2, IdleType, ReconcileUpdateType
  <2> QED
    BY <1>7, <2>3 DEF ReconcileSweep, envVars
<1>8. ASSUME NEW s \in Sources, NEW d \in Docs, ReconcileDelete(s, d)
      PROVE TypeOK'
  <2>1. store' \in [Docs -> Acl \cup {None}]
    BY <1>8, DeleteType DEF ReconcileDelete
  <2>2. touched' \in [Sources -> SUBSET Docs]
    BY <1>8, TouchType DEF ReconcileDelete
  <2>3. rec[s].todo \ {d} \in SUBSET Docs
    BY DEF Reconcile
  <2>4. rec' = [rec EXCEPT ![s] = [rec[s] EXCEPT !.todo = rec[s].todo \ {d}]]
    BY <1>8 DEF ReconcileDelete
  <2>5. rec' \in [Sources -> Reconcile]
    BY <2>3, <2>4, IdleType, ReconcileUpdateType
  <2> QED
    BY <1>8, <2>1, <2>2, <2>5 DEF ReconcileDelete, envVars
<1>9. ASSUME NEW s \in Sources, ReconcileEnd(s) \/ ReconcileFail(s)
      PROVE TypeOK'
  BY <1>9, IdleType DEF ReconcileEnd, ReconcileFail, envVars
<1>10. CASE UNCHANGED vars
  BY <1>10 DEF vars
<1> QED
  BY <1>1, <1>2, <1>3, <1>4, <1>5, <1>6, <1>7, <1>8, <1>9, <1>10
     DEF Next, ReconcileStep

-----------------------------------------------------------------------------
(* reconcile makes the store match what it fetched.                        *)

(* A write to one document leaves the grant of every other one alone.      *)
LEMMA UpsertGrants ==
  ASSUME TypeOK, NEW d \in Docs, NEW p \in Policies, NEW t \in Int,
         Upsert(d, p, t)
  PROVE  /\ Granted(d)' = p
         /\ \A x \in Docs \ {d} : Granted(x)' = Granted(x)
BY StampedFacts, UpsertType DEF Granted, TypeOK

LEMMA DeleteGrants ==
  ASSUME TypeOK, NEW d \in Docs, Delete(d)
  PROVE  /\ Granted(d)' = None
         /\ \A x \in Docs \ {d} : Granted(x)' = Granted(x)
BY DEF Granted, Delete, TypeOK

(* The only way a grant changes is a write the active reconciles see.      *)
LEMMA TouchCovers ==
  ASSUME TypeOK, NEW S \in SUBSET Sources, NEW d \in Docs, Touch(S, d),
         NEW s \in S, rec[s].pc \in {"upserting", "sweeping"}
  PROVE  touched'[s] = touched[s] \cup {d}
BY DEF Touch

LEMMA TouchSpares ==
  ASSUME TypeOK, NEW S \in SUBSET Sources, NEW d \in Docs, Touch(S, d),
         NEW s \in Sources \ S
  PROVE  touched'[s] = touched[s]
BY DEF Touch

(* MatchInv for one source, so that a step is one line per source.         *)
MatchFor(s) ==
  /\ rec[s].pc = "upserting" =>
       /\ \A d \in rec[s].todo : rec[s].fetched[d] # None
       /\ \A d \in Docs \ (touched[s] \cup rec[s].todo) :
            rec[s].fetched[d] # None => Granted(d) = rec[s].fetched[d]
  /\ rec[s].pc = "sweeping" =>
       /\ \A d \in rec[s].todo : rec[s].fetched[d] = None
       /\ \A d \in Docs \ (touched[s] \cup rec[s].todo) :
            Granted(d) = rec[s].fetched[d]

(* Somebody else's write: the document joins touched[s].                   *)
LEMMA OthersWrite ==
  ASSUME TypeOK, NEW s \in Sources, MatchFor(s), NEW d \in Docs,
         rec'[s] = rec[s],
         rec[s].pc \in {"upserting", "sweeping"} =>
            touched'[s] = touched[s] \cup {d},
         \A x \in Docs \ {d} : Granted(x)' = Granted(x)
  PROVE  MatchFor(s)'
BY DEF MatchFor

LEMMA StepMatch == TypeOK /\ MatchInv /\ [Next]_vars => MatchInv'
<1> SUFFICES ASSUME TypeOK, MatchInv, [Next]_vars, NEW s \in Sources
             PROVE  MatchFor(s)'
  BY DEF MatchInv, MatchFor
<1>0. MatchFor(s)
  BY DEF MatchInv, MatchFor
<1>1. CASE Tick
  BY <1>0, <1>1 DEF Tick, StoreTick, MatchFor, Granted
<1>2. ASSUME NEW d \in Docs, NEW p \in Policies \cup {None},
             UpstreamChange(d, p)
      PROVE MatchFor(s)'
  BY <1>0, <1>2 DEF UpstreamChange, MatchFor, Granted
<1>3. ASSUME NEW e \in events, ApplyEvent(e) PROVE MatchFor(s)'
  <2>1. e.doc \in Docs /\ e.policy \in Policies \cup {None}
    BY DEF TypeOK, Event
  <2>2. \A x \in Docs \ {e.doc} : Granted(x)' = Granted(x)
    <3>1. CASE e.policy = None
      BY <1>3, <2>1, <3>1, DeleteGrants DEF ApplyEvent
    <3>2. CASE e.policy # None
      <4> PICK t \in ClockReadings : Upsert(e.doc, e.policy, t)
        BY <1>3, <3>2 DEF ApplyEvent
      <4> t \in Int
        BY ReadingsAreInt DEF TypeOK
      <4> QED
        BY <2>1, <3>2, UpsertGrants
    <3> QED
      BY <3>1, <3>2
  <2>3. rec[s].pc \in {"upserting", "sweeping"} =>
          touched'[s] = touched[s] \cup {e.doc}
    BY <1>3, <2>1, TouchCovers DEF ApplyEvent
  <2>4. rec'[s] = rec[s]
    BY <1>3 DEF ApplyEvent
  <2> QED
    BY <1>0, <2>1, <2>2, <2>3, <2>4, OthersWrite
<1>4. ASSUME NEW r \in Sources, ReconcileBegin(r) PROVE MatchFor(s)'
  <2>1. CASE r = s
    <3>1. rec'[s].pc = "fetching"
      BY <1>4, <2>1 DEF ReconcileBegin, Idle, TypeOK
    <3> QED
      BY <3>1 DEF MatchFor
  <2>2. CASE r # s
    BY <1>0, <1>4, <2>2 DEF ReconcileBegin, MatchFor, Granted, TypeOK
  <2> QED
    BY <2>1, <2>2
<1>5. ASSUME NEW r \in Sources, ReconcileFetch(r) PROVE MatchFor(s)'
  <2>1. CASE r = s
    <3>1. /\ rec'[s].pc = "upserting"
          /\ rec'[s].todo = {d \in Docs : rec'[s].fetched[d] # None}
      BY <1>5, <2>1 DEF ReconcileFetch, TypeOK, Reconcile
    <3> QED
      BY <3>1 DEF MatchFor
  <2>2. CASE r # s
    BY <1>0, <1>5, <2>2 DEF ReconcileFetch, MatchFor, Granted, TypeOK
  <2> QED
    BY <2>1, <2>2
<1>6. ASSUME NEW r \in Sources, NEW d \in Docs, ReconcileUpsert(r, d)
      PROVE MatchFor(s)'
  <2>1. rec[r].fetched[d] \in Policies /\ rec[r].stamp \in Int
    BY <1>6 DEF Reconcile, Fetched, ReconcileUpsert, MatchInv, TypeOK
  <2>2. /\ Granted(d)' = rec[r].fetched[d]
        /\ \A x \in Docs \ {d} : Granted(x)' = Granted(x)
    BY <1>6, <2>1, UpsertGrants DEF ReconcileUpsert
  <2>3. CASE r = s
    <3>1. /\ rec'[s].pc = "upserting" /\ rec[s].pc = "upserting"
          /\ rec'[s].fetched = rec[s].fetched
          /\ rec'[s].todo = rec[s].todo \ {d}
      BY <1>6, <2>3 DEF ReconcileUpsert, TypeOK, Reconcile
    <3>2. touched'[s] = touched[s]
      BY <1>6, <2>3, TouchSpares DEF ReconcileUpsert
    <3> QED
      BY <1>0, <2>2, <2>3, <3>1, <3>2 DEF MatchFor
  <2>4. CASE r # s
    <3>1. rec'[s] = rec[s]
      BY <1>6, <2>4 DEF ReconcileUpsert, TypeOK
    <3>2. ASSUME rec[s].pc \in {"upserting", "sweeping"}
          PROVE  touched'[s] = touched[s] \cup {d}
      BY <3>2, <1>6, <2>4, TouchCovers DEF ReconcileUpsert
    <3> QED
      BY <1>0, <2>2, <3>1, <3>2, OthersWrite
  <2> QED
    BY <2>3, <2>4
<1>7. ASSUME NEW r \in Sources, ReconcileSweep(r) PROVE MatchFor(s)'
  <2>1. CASE r = s
    <3>1. /\ rec[s].pc = "upserting" /\ rec[s].todo = {}
          /\ rec'[s].pc = "sweeping"
          /\ rec'[s].fetched = rec[s].fetched
          /\ rec'[s].todo = {d \in AllDocumentIds : rec[s].fetched[d] = None}
      BY <1>7, <2>1 DEF ReconcileSweep, TypeOK, Reconcile
    <3>2. touched'[s] = touched[s] /\ store' = store
      BY <1>7 DEF ReconcileSweep
    <3> QED
      BY <1>0, <3>1, <3>2 DEF MatchFor, Granted, AllDocumentIds
  <2>2. CASE r # s
    BY <1>0, <1>7, <2>2 DEF ReconcileSweep, MatchFor, Granted, TypeOK
  <2> QED
    BY <2>1, <2>2
<1>8. ASSUME NEW r \in Sources, NEW d \in Docs, ReconcileDelete(r, d)
      PROVE MatchFor(s)'
  <2>1. /\ Granted(d)' = None
        /\ \A x \in Docs \ {d} : Granted(x)' = Granted(x)
    BY <1>8, DeleteGrants DEF ReconcileDelete
  <2>2. CASE r = s
    <3>1. /\ rec'[s].pc = "sweeping" /\ rec[s].pc = "sweeping"
          /\ rec'[s].fetched = rec[s].fetched
          /\ rec'[s].todo = rec[s].todo \ {d}
          /\ d \in rec[s].todo
      BY <1>8, <2>2 DEF ReconcileDelete, TypeOK, Reconcile
    <3>2. touched'[s] = touched[s]
      BY <1>8, <2>2, TouchSpares DEF ReconcileDelete
    <3> QED
      BY <1>0, <2>1, <3>1, <3>2 DEF MatchFor
  <2>3. CASE r # s
    <3>1. rec'[s] = rec[s]
      BY <1>8, <2>3 DEF ReconcileDelete, TypeOK
    <3>2. ASSUME rec[s].pc \in {"upserting", "sweeping"}
          PROVE  touched'[s] = touched[s] \cup {d}
      BY <3>2, <1>8, <2>3, TouchCovers DEF ReconcileDelete
    <3> QED
      BY <1>0, <2>1, <3>1, <3>2, OthersWrite
  <2> QED
    BY <2>2, <2>3
<1>9. ASSUME NEW r \in Sources, ReconcileEnd(r) \/ ReconcileFail(r)
      PROVE MatchFor(s)'
  <2>1. CASE r = s
    <3>1. rec'[s].pc = "idle"
      BY <1>9, <2>1 DEF ReconcileEnd, ReconcileFail, Idle, TypeOK
    <3> QED
      BY <3>1 DEF MatchFor
  <2>2. CASE r # s
    BY <1>0, <1>9, <2>2
       DEF ReconcileEnd, ReconcileFail, MatchFor, Granted, TypeOK
  <2> QED
    BY <2>1, <2>2
<1>10. CASE UNCHANGED vars
  BY <1>0, <1>10 DEF vars, MatchFor, Granted
<1> QED
  BY <1>1, <1>2, <1>3, <1>4, <1>5, <1>6, <1>7, <1>8, <1>9, <1>10
     DEF Next, ReconcileStep

(* Every reachable state is well typed.                                    *)
THEOREM TypeCorrect == Spec => []TypeOK
<1>1. TypeOK /\ MatchInv /\ [Next]_vars => (TypeOK /\ MatchInv)'
  BY StepType, StepMatch
<1> QED
  BY <1>1, InitType, PTL DEF Spec

(* How far each reconcile has come, as an invariant.                       *)
THEOREM MatchCorrect == Spec => []MatchInv
<1>1. TypeOK /\ MatchInv /\ [Next]_vars => (TypeOK /\ MatchInv)'
  BY StepType, StepMatch
<1> QED
  BY <1>1, InitType, PTL DEF Spec

(* "Make `store` match `source`": the postcondition of reconcile under any *)
(* interference, lost answers and concurrent reconciles included.          *)
THEOREM ReconcileCorrect == Spec => ReconcileMatches
<1>1. TypeOK /\ MatchInv /\ [Next]_vars =>
        [\A s \in Sources :
           (rec[s].pc = "sweeping" /\ rec'[s].pc = "idle") =>
              \A d \in Docs \ touched[s] : Granted(d) = rec[s].fetched[d]]_vars
  <2> SUFFICES ASSUME TypeOK, MatchInv, Next, NEW s \in Sources,
                      rec[s].pc = "sweeping", rec'[s].pc = "idle"
               PROVE  rec[s].todo = {}
    BY DEF MatchInv
  <2>1. rec'[s] # rec[s]
    OBVIOUS
  <2>2. PICK r \in Sources : ReconcileStep(r) \/ ReconcileFail(r)
    BY <2>1 DEF Next, Tick, UpstreamChange, ApplyEvent
  <2>3. rec' = [rec EXCEPT ![r] = rec'[r]]
    BY <2>2 DEF ReconcileStep, ReconcileBegin, ReconcileFetch, ReconcileUpsert,
                ReconcileSweep, ReconcileDelete, ReconcileEnd, ReconcileFail,
                TypeOK
  <2>4. r = s
    BY <2>1, <2>3 DEF TypeOK
  <2>5. ~ReconcileBegin(s) /\ ~ReconcileFetch(s) /\ ~ReconcileSweep(s)
        /\ ~ReconcileFail(s) /\ \A d \in Docs : ~ReconcileUpsert(s, d)
    BY DEF ReconcileBegin, ReconcileFetch, ReconcileSweep, ReconcileFail,
           ReconcileUpsert
  <2>6. ASSUME NEW d \in Docs, ReconcileDelete(s, d) PROVE FALSE
    BY <2>6 DEF ReconcileDelete, TypeOK, Reconcile
  <2>7. ReconcileEnd(s)
    BY <2>2, <2>4, <2>5, <2>6 DEF ReconcileStep
  <2> QED
    BY <2>7 DEF ReconcileEnd
<1> QED
  BY <1>1, TypeCorrect, MatchCorrect, PTL DEF Spec, ReconcileMatches

-----------------------------------------------------------------------------
(* Stamps.                                                                 *)

(* Every step either lets time pass, changes upstream, or leaves both      *)
(* alone; in each case what a policy was true until only grows.            *)
LEMMA LastTrueGrows ==
  ASSUME TypeOK, HeldBound, [Next]_vars
  PROVE  /\ HeldBound'
         /\ now <= now'
         /\ \A d \in Docs, p \in Policies : LastTrue(d, p) <= LastTrue(d, p)'
<1>1. CASE Tick
  BY <1>1 DEF Tick, StoreTick, envVars, HeldBound, LastTrue, TypeOK
<1>2. ASSUME NEW d \in Docs, NEW p \in Policies \cup {None},
             UpstreamChange(d, p)
      PROVE /\ HeldBound' /\ now <= now'
            /\ \A x \in Docs, q \in Policies : LastTrue(x, q) <= LastTrue(x, q)'
  <2>1. now' = now /\ truth' = [truth EXCEPT ![d] = p] /\ p # truth[d]
    BY <1>2 DEF UpstreamChange
  <2>2. \A x \in Docs, q \in Policies :
          heldUntil'[x][q] = IF x = d /\ q = truth[d] THEN now
                                                      ELSE heldUntil[x][q]
    BY <1>2, AclSyncAssumption, AclStoreAssumption DEF UpstreamChange, TypeOK
  <2> QED
    BY <2>1, <2>2 DEF HeldBound, LastTrue, TypeOK
<1>3. CASE UNCHANGED <<now, truth, heldUntil>>
  BY <1>3 DEF HeldBound, LastTrue, TypeOK
<1>4. ASSUME NEW s \in Sources, ReconcileStep(s) \/ ReconcileFail(s)
      PROVE  UNCHANGED <<now, truth, heldUntil>>
  BY <1>4 DEF ReconcileStep, ReconcileBegin, ReconcileFetch, ReconcileUpsert,
              ReconcileSweep, ReconcileDelete, ReconcileEnd, ReconcileFail,
              envVars
<1>5. ASSUME NEW e \in events, ApplyEvent(e)
      PROVE  UNCHANGED <<now, truth, heldUntil>>
  BY <1>5 DEF ApplyEvent, envVars
<1> QED
  BY <1>1, <1>2, <1>3, <1>4, <1>5 DEF Next, vars

(* LastTrue in the next state, of a document and a policy of this one.     *)
NextTrue(d, p) == IF truth'[d] = p THEN now' ELSE heldUntil'[d][p]

LEMMA NextTrueFacts ==
  ASSUME TypeOK, TypeOK', HeldBound, [Next]_vars
  PROVE  \A d \in Docs, p \in Policies :
           /\ LastTrue(d, p) <= NextTrue(d, p)
           /\ LastTrue(d, p) \in Int /\ NextTrue(d, p) \in Int
<1>1. \A d \in Docs, p \in Policies : LastTrue(d, p) \in Int
  BY DEF LastTrue, TypeOK
<1>2. \A d \in Docs, p \in Policies : NextTrue(d, p) \in Int
  BY DEF NextTrue, TypeOK
<1>3. \A d \in Docs, p \in Policies : LastTrue(d, p) <= NextTrue(d, p)
  BY LastTrueGrows DEF LastTrue, NextTrue
<1> QED
  BY <1>1, <1>2, <1>3

(* What is on its way into the store is covered ...                        *)
LEMMA StepEvents ==
  ASSUME TypeOK, TypeOK', StampInv, [Next]_vars
  PROVE  EventBound'
<1> SUFFICES ASSUME NEW e \in events', e.policy # None
             PROVE  e.at <= NextTrue(e.doc, e.policy)
  BY DEF EventBound, LastTrue, NextTrue
<1>1. CASE e \in events
  <2>1. e.doc \in Docs /\ e.policy \in Policies /\ e.at \in Int
    BY <1>1 DEF TypeOK, Event
  <2>2. e.at <= LastTrue(e.doc, e.policy)
    BY <1>1 DEF StampInv, EventBound
  <2> QED
    BY <2>1, <2>2, NextTrueFacts DEF StampInv
<1>2. CASE \E d \in Docs, p \in Policies \cup {None} : UpstreamChange(d, p)
  <2> PICK d \in Docs, p \in Policies \cup {None} : UpstreamChange(d, p)
    BY <1>2
  <2>1. events' = events \cup {[doc |-> d, policy |-> p, at |-> now]}
        /\ now' = now /\ truth'[d] = p
    BY DEF UpstreamChange, TypeOK
  <2>2. CASE e = [doc |-> d, policy |-> p, at |-> now]
    BY <2>1, <2>2 DEF NextTrue, TypeOK
  <2> QED
    BY <1>1, <2>1, <2>2
<1>3. CASE Tick
  BY <1>1, <1>3 DEF Tick, StoreTick, envVars
<1>4. ASSUME NEW x \in events, ApplyEvent(x) PROVE UNCHANGED events
  BY <1>4 DEF ApplyEvent, envVars
<1>5. ASSUME NEW s \in Sources, ReconcileStep(s) \/ ReconcileFail(s)
      PROVE  UNCHANGED events
  BY <1>5 DEF ReconcileStep, ReconcileBegin, ReconcileFetch, ReconcileUpsert,
              ReconcileSweep, ReconcileDelete, ReconcileEnd, ReconcileFail,
              envVars
<1> QED
  BY <1>1, <1>2, <1>3, <1>4, <1>5 DEF Next, vars

LEMMA StepFetched ==
  ASSUME TypeOK, TypeOK', StampInv, [Next]_vars
  PROVE  FetchBound'
<1> DEFINE Good(s) ==
      /\ rec'[s].pc = "fetching" => rec'[s].stamp <= now' + Skew
      /\ \A d \in Docs : rec'[s].fetched[d] # None =>
           rec'[s].stamp <= NextTrue(d, rec'[s].fetched[d]) + Skew
<1> SUFFICES ASSUME NEW s \in Sources PROVE Good(s)
  BY DEF FetchBound, LastTrue, NextTrue
<1>2. now <= now' /\ now \in Int /\ now' \in Int /\ Skew \in Nat
  BY LastTrueGrows, AclSyncAssumption, AclStoreAssumption DEF StampInv, TypeOK
<1>3. rec[s] \in Reconcile
  BY DEF TypeOK
<1>4. CASE rec'[s].fetched = rec[s].fetched /\ rec'[s].stamp = rec[s].stamp
           /\ (rec'[s].pc = "fetching" => rec[s].pc = "fetching")
  <2>1. rec'[s].pc = "fetching" => rec'[s].stamp <= now' + Skew
    BY <1>2, <1>3, <1>4 DEF StampInv, FetchBound, Reconcile
  <2>2. ASSUME NEW d \in Docs, rec'[s].fetched[d] # None
        PROVE  rec'[s].stamp <= NextTrue(d, rec'[s].fetched[d]) + Skew
    <3>1. rec[s].fetched[d] \in Policies /\ rec[s].stamp \in Int
      BY <1>3, <1>4, <2>2 DEF Reconcile, Fetched
    <3>2. rec[s].stamp <= LastTrue(d, rec[s].fetched[d]) + Skew
      BY <1>4, <2>2 DEF StampInv, FetchBound
    <3> QED
      BY <1>2, <1>4, <3>1, <3>2, NextTrueFacts DEF StampInv
  <2> QED
    BY <2>1, <2>2
<1>5. CASE rec'[s] = Idle
  BY <1>5 DEF Idle, NothingFetched
<1>6. CASE rec'[s] = rec[s]
  BY <1>4, <1>6
<1>7. CASE Tick \/ (\E d \in Docs, p \in Policies \cup {None} :
                      UpstreamChange(d, p))
                \/ (\E e \in events : ApplyEvent(e)) \/ UNCHANGED vars
  BY <1>6, <1>7 DEF Tick, StoreTick, UpstreamChange, ApplyEvent, vars
<1>8. ASSUME NEW r \in Sources, ReconcileStep(r) \/ ReconcileFail(r), r # s
      PROVE  rec'[s] = rec[s]
  BY <1>8 DEF ReconcileStep, ReconcileBegin, ReconcileFetch, ReconcileUpsert,
              ReconcileSweep, ReconcileDelete, ReconcileEnd, ReconcileFail,
              TypeOK
<1>9. CASE ReconcileBegin(s)
  <2> PICK t \in ClockReadings :
        rec' = [rec EXCEPT ![s] = [Idle EXCEPT !.pc = "fetching", !.stamp = t]]
    BY <1>9 DEF ReconcileBegin
  <2>1. rec'[s].stamp = t /\ rec'[s].fetched = NothingFetched
    BY DEF TypeOK, Idle
  <2>2. t <= now + Skew /\ t \in Int
    BY ReadingsAreInt DEF TypeOK
  <2> QED
    BY <1>2, <2>1, <2>2 DEF NothingFetched
<1>10. CASE ReconcileFetch(s)
  <2>1. /\ rec[s].pc = "fetching" /\ rec'[s].pc = "upserting"
        /\ rec'[s].stamp = rec[s].stamp
        /\ \A d \in Docs : rec'[s].fetched[d] # None =>
             rec'[s].fetched[d] = truth[d]
        /\ now' = now /\ truth' = truth
    BY <1>3, <1>10 DEF ReconcileFetch, TypeOK, Reconcile, envVars
  <2>2. rec[s].stamp <= now + Skew
    BY <2>1 DEF StampInv, FetchBound
  <2>3. \A d \in Docs : rec'[s].fetched[d] # None =>
          NextTrue(d, rec'[s].fetched[d]) = now
    BY <2>1 DEF NextTrue
  <2> QED
    BY <2>1, <2>2, <2>3
<1>11. ASSUME NEW d \in Docs, ReconcileUpsert(s, d) \/ ReconcileDelete(s, d)
       PROVE  /\ rec'[s].fetched = rec[s].fetched /\ rec'[s].stamp = rec[s].stamp
              /\ rec'[s].pc = rec[s].pc
  BY <1>3, <1>11 DEF ReconcileUpsert, ReconcileDelete, TypeOK, Reconcile
<1>12. CASE ReconcileSweep(s)
  <2>1. /\ rec'[s].fetched = rec[s].fetched /\ rec'[s].stamp = rec[s].stamp
        /\ rec'[s].pc = "sweeping"
    BY <1>3, <1>12 DEF ReconcileSweep, TypeOK, Reconcile
  <2> QED
    BY <1>4, <2>1
<1>13. CASE ReconcileEnd(s) \/ ReconcileFail(s)
  BY <1>5, <1>13 DEF ReconcileEnd, ReconcileFail, TypeOK
<1> HIDE DEF Good
<1> QED
  BY <1>4, <1>6, <1>7, <1>8, <1>9, <1>10, <1>11, <1>12, <1>13
     DEF Next, ReconcileStep

(* ... so whatever a step writes into the store is covered too.            *)
LEMMA StepStored ==
  ASSUME TypeOK, TypeOK', MatchInv, StampInv, [Next]_vars
  PROVE  StampBound'
<1> DEFINE Good(d) ==
      store'[d] # None =>
        /\ PolicyOf(store'[d]) \in Policies
        /\ store'[d].synced
             <= NextTrue(d, PolicyOf(store'[d])) + MaxDelay + Skew
<1> SUFFICES ASSUME NEW d \in Docs PROVE Good(d)
  BY DEF StampBound, AllDocumentIds, LastTrue, NextTrue
<1>1. MaxDelay \in Nat /\ Skew \in Nat /\ now \in Nat
  BY AclSyncAssumption, AclStoreAssumption DEF TypeOK
<1>2. CASE store'[d] = store[d]
  <2> SUFFICES ASSUME store[d] # None PROVE Good(d)
    BY <1>2
  <2>1. store[d] \in Acl /\ store[d].synced \in Int
    BY DEF TypeOK, Acl
  <2>2. /\ PolicyOf(store[d]) \in Policies
        /\ store[d].synced <= LastTrue(d, PolicyOf(store[d])) + MaxDelay + Skew
    BY DEF StampInv, StampBound, AllDocumentIds
  <2>3. LastTrue(d, PolicyOf(store[d])) <= NextTrue(d, PolicyOf(store[d]))
        /\ LastTrue(d, PolicyOf(store[d])) \in Int
        /\ NextTrue(d, PolicyOf(store[d])) \in Int
    BY <2>2, NextTrueFacts DEF StampInv
  <2> QED
    BY <1>1, <1>2, <2>1, <2>2, <2>3
<1>3. CASE store'[d] = None
  BY <1>3
<1>4. ASSUME NEW p \in Policies, NEW t \in Int, store'[d] = Stamped(p, t),
             t <= LastTrue(d, p) + MaxDelay + Skew
      PROVE  Good(d)
  <2>1. LastTrue(d, p) <= NextTrue(d, p)
        /\ LastTrue(d, p) \in Int /\ NextTrue(d, p) \in Int
    BY NextTrueFacts DEF StampInv
  <2> QED
    BY <1>1, <1>4, <2>1, StampedFacts
<1>5. ASSUME NEW e \in events, ApplyEvent(e) PROVE Good(d)
  <2>1. e.doc \in Docs /\ e.policy \in Policies \cup {None} /\ e.at \in Int
    BY DEF TypeOK, Event
  <2>2. CASE e.policy = None
    BY <1>2, <1>3, <1>5, <2>2 DEF ApplyEvent, Delete, TypeOK
  <2>3. CASE e.policy # None
    <3> PICK t \in ClockReadings : Upsert(e.doc, e.policy, t)
      BY <1>5, <2>3 DEF ApplyEvent
    <3>1. t \in Int /\ t <= now + Skew
      BY ReadingsAreInt DEF TypeOK
    <3>2. e.at <= LastTrue(e.doc, e.policy) /\ now <= e.at + MaxDelay
      BY <1>5, <2>3 DEF StampInv, EventBound, ApplyEvent
    <3>3. LastTrue(e.doc, e.policy) \in Int
      BY <2>1, <2>3, NextTrueFacts DEF StampInv
    <3>4. t <= LastTrue(e.doc, e.policy) + MaxDelay + Skew
      BY <1>1, <2>1, <3>1, <3>2, <3>3
    <3>5. CASE e.doc = d
      <4>1. store'[d] = Stamped(e.policy, t)
        BY <3>5 DEF Upsert, TypeOK
      <4> QED
        BY <1>4, <2>1, <2>3, <3>1, <3>4, <3>5, <4>1
    <3>6. CASE e.doc # d
      BY <1>2, <3>6 DEF Upsert, TypeOK
    <3> QED
      BY <3>5, <3>6
  <2> QED
    BY <2>2, <2>3
<1>6. ASSUME NEW s \in Sources, NEW x \in Docs, ReconcileUpsert(s, x)
      PROVE  Good(d)
  <2>1. rec[s].fetched[x] \in Policies /\ rec[s].stamp \in Int
    BY <1>6 DEF Reconcile, Fetched, ReconcileUpsert, MatchInv, TypeOK
  <2>2. rec[s].stamp <= LastTrue(x, rec[s].fetched[x]) + Skew
        /\ LastTrue(x, rec[s].fetched[x]) \in Int
    BY <2>1, NextTrueFacts, AclSyncAssumption, AclStoreAssumption DEF StampInv, FetchBound
  <2>3. CASE x = d
    <3>1. store'[d] = Stamped(rec[s].fetched[d], rec[s].stamp)
      BY <1>6, <2>3 DEF ReconcileUpsert, Upsert, TypeOK
    <3>2. rec[s].stamp <= LastTrue(d, rec[s].fetched[d]) + MaxDelay + Skew
      BY <1>1, <2>1, <2>2, <2>3
    <3> QED
      BY <1>4, <2>1, <2>3, <3>1, <3>2
  <2>4. CASE x # d
    BY <1>2, <1>6, <2>4 DEF ReconcileUpsert, Upsert, TypeOK
  <2> QED
    BY <2>3, <2>4
<1>7. ASSUME NEW s \in Sources, NEW x \in Docs, ReconcileDelete(s, x)
      PROVE  Good(d)
  BY <1>2, <1>3, <1>7 DEF ReconcileDelete, Delete, TypeOK
<1>8. ASSUME NEW s \in Sources,
             ReconcileBegin(s) \/ ReconcileFetch(s) \/ ReconcileSweep(s)
               \/ ReconcileEnd(s) \/ ReconcileFail(s)
      PROVE  store' = store
  BY <1>8 DEF ReconcileBegin, ReconcileFetch, ReconcileSweep, ReconcileEnd,
              ReconcileFail
<1>9. ASSUME Tick \/ (\E x \in Docs, p \in Policies \cup {None} :
                        UpstreamChange(x, p)) \/ UNCHANGED vars
      PROVE  store' = store
  BY <1>9 DEF Tick, StoreTick, UpstreamChange, vars
<1> HIDE DEF Good
<1> QED
  BY <1>2, <1>5, <1>6, <1>7, <1>8, <1>9 DEF Next, ReconcileStep

LEMMA InitStamp == Init => StampInv
<1> SUFFICES ASSUME Init PROVE StampInv
  OBVIOUS
<1>1. Never <= 0 /\ Never \in Int
  BY AclSyncAssumption, AclStoreAssumption DEF Never
<1>2. HeldBound
  BY <1>1 DEF Init, HeldBound
<1>3. EventBound /\ StampBound
  BY DEF Init, EventBound, StampBound, AllDocumentIds
<1>4. FetchBound
  BY DEF Init, FetchBound, Idle, NothingFetched
<1> QED
  BY <1>2, <1>3, <1>4 DEF StampInv

(* The bound on every stamp, in the store or on its way into it.           *)
THEOREM StampCorrect == Spec => []StampInv
<1>1. TypeOK /\ TypeOK' /\ MatchInv /\ StampInv /\ [Next]_vars => StampInv'
  BY StepEvents, StepFetched, StepStored, LastTrueGrows DEF StampInv
<1> QED
  BY <1>1, InitStamp, TypeCorrect, MatchCorrect, PTL DEF Spec

(* evaluate_document never lets anybody in on a policy that upstream       *)
(* withdrew longer ago than its staleness bound, the longest delivery      *)
(* delay and the clock offset together.                                    *)
THEOREM ExposureBounded == Spec => []BoundedExposure
<1>1. TypeOK /\ StampInv => BoundedExposure
  <2> SUFFICES ASSUME TypeOK, StampInv, NEW d \in AllDocumentIds,
                      NEW ctx \in Contexts(Roles, Sites),
                      EvaluateDocument(ctx, store[d], now)
               PROVE  now <= LastTrue(d, PolicyOf(store[d]))
                               + Staleness(store[d]) + MaxDelay + Skew
    BY DEF BoundedExposure
  <2>1. store[d] \in Acl /\ d \in Docs
    BY DEF AllDocumentIds, TypeOK
  <2>2. /\ store[d].synced \in Int
        /\ Staleness(store[d]) \in Nat
    BY <2>1, AuthzAssumption DEF Acl, Staleness
  <2>3. now - store[d].synced <= Staleness(store[d])
    BY DEF EvaluateDocument, CheckFreshness
  <2>4. /\ PolicyOf(store[d]) \in Policies
        /\ store[d].synced <= LastTrue(d, PolicyOf(store[d])) + MaxDelay + Skew
    BY DEF StampInv, StampBound
  <2>5. LastTrue(d, PolicyOf(store[d])) \in Int
    BY <2>1, <2>4 DEF LastTrue, TypeOK
  <2> QED
    BY <2>2, <2>3, <2>4, <2>5, AclSyncAssumption, AclStoreAssumption DEF TypeOK
<1> QED
  BY <1>1, TypeCorrect, StampCorrect, PTL

-----------------------------------------------------------------------------
(* The AclStore its readers see.                                           *)

(* The stamp a reconcile carries is one that some clock has read.          *)
StampsRead == \A s \in Sources : rec[s].stamp \in Readings

LEMMA WiderRange ==
  ASSUME NEW a \in Int, NEW b \in Int, NEW k \in Int, 0 <= a, a <= b, 0 <= k
  PROVE  /\ (-k .. (a + k)) \subseteq (-k .. (b + k))
         /\ 0 \in -k .. (b + k)
OBVIOUS

LEMMA ReadingsGrow ==
  ASSUME TypeOK, TypeOK', [Next]_vars
  PROVE  /\ Readings \subseteq Readings'
         /\ ClockReadings \subseteq Readings
         /\ 0 \in Readings'
<1>1. now \in Int /\ now' \in Int /\ 0 <= now /\ now <= now'
  <2>1. CASE Tick
    BY <2>1 DEF TypeOK, Tick, StoreTick
  <2>2. CASE now' = now
    BY <2>2 DEF TypeOK
  <2>3. Next => Tick \/ now' = now
    BY DEF Next, UpstreamChange, ApplyEvent, ReconcileStep, ReconcileBegin,
           ReconcileFetch, ReconcileUpsert, ReconcileSweep, ReconcileDelete,
           ReconcileEnd, ReconcileFail
  <2> QED
    BY <2>1, <2>2, <2>3 DEF vars
<1>2. Skew \in Int /\ 0 <= Skew
  BY AclStoreAssumption
<1>3. Readings = -Skew .. (now + Skew) /\ Readings' = -Skew .. (now' + Skew)
  BY DEF Readings
<1>4. Readings \subseteq Readings' /\ 0 \in Readings'
  BY <1>1, <1>2, <1>3, WiderRange
<1>6. ClockReadings \subseteq Readings
  BY <1>1, <1>2 DEF Readings, ClockReadings
<1> QED
  BY <1>4, <1>6

LEMMA StepRead ==
  ASSUME TypeOK, TypeOK', StampsRead, [Next]_vars
  PROVE  StampsRead'
<1> SUFFICES ASSUME NEW s \in Sources PROVE rec'[s].stamp \in Readings'
  BY DEF StampsRead
<1>0. rec \in [Sources -> Reconcile] /\ rec[s] \in Reconcile
  BY DEF TypeOK
<1>1. rec[s].stamp \in Readings'
  BY ReadingsGrow DEF StampsRead
<1>2. CASE UNCHANGED rec
  BY <1>1, <1>2
<1>3. ASSUME NEW x \in Sources, ReconcileStep(x) \/ ReconcileFail(x)
      PROVE  rec'[s].stamp \in Readings'
  <2>1. CASE x # s
    BY <1>0, <1>1, <1>3, <2>1
       DEF ReconcileStep, ReconcileBegin, ReconcileFetch, ReconcileUpsert,
           ReconcileSweep, ReconcileDelete, ReconcileEnd, ReconcileFail
  <2>2. CASE x = s /\ ReconcileBegin(s)
    BY <1>0, <2>2, ReadingsGrow DEF ReconcileBegin, Idle
  <2>3. CASE x = s /\ (ReconcileEnd(s) \/ ReconcileFail(s))
    BY <1>0, <2>3, ReadingsGrow DEF ReconcileEnd, ReconcileFail, Idle
  <2>4. CASE x = s /\ ReconcileFetch(s)
    BY <1>0, <1>1, <2>4 DEF ReconcileFetch, Reconcile
  <2>6. CASE x = s /\ ReconcileSweep(s)
    BY <1>0, <1>1, <2>6 DEF ReconcileSweep, Reconcile
  <2>5. ASSUME x = s, NEW d \in Docs, ReconcileUpsert(s, d) \/ ReconcileDelete(s, d)
        PROVE  rec'[s].stamp \in Readings'
    BY <1>0, <1>1, <2>5 DEF ReconcileUpsert, ReconcileDelete, Reconcile
  <2> QED
    BY <1>3, <2>1, <2>2, <2>3, <2>4, <2>5, <2>6 DEF ReconcileStep
<1>4. CASE UNCHANGED vars
  BY <1>2, <1>4 DEF vars
<1> QED
  BY <1>2, <1>3, <1>4 DEF Next, Tick, UpstreamChange, ApplyEvent

(* Whatever reconcile and apply_event do, one step of theirs is one write  *)
(* of the store, of a policy upstream may set, with a stamp some clock has *)
(* read, or no write at all.                                               *)
LEMMA StepStore ==
  ASSUME TypeOK, MatchInv, StampsRead, [Next]_vars, TypeOK'
  PROVE  [StoreNext]_<<now, store>>
<1>1. CASE Tick
  BY <1>1 DEF Tick, StoreNext
<1>2. ASSUME NEW e \in events, ApplyEvent(e)
      PROVE  StoreNext
  <2>1. e.doc \in Docs /\ (e.policy # None => e.policy \in Policies)
    BY DEF TypeOK, Event
  <2> QED
    BY <1>2, <2>1, ReadingsGrow
       DEF ApplyEvent, envVars, StoreNext, StoreUpsert, StoreDelete
<1>3. ASSUME NEW s \in Sources, NEW d \in Docs, ReconcileUpsert(s, d)
      PROVE  StoreNext
  <2>1. rec[s].fetched[d] \in Policies
    BY <1>3 DEF ReconcileUpsert, MatchInv, TypeOK, Reconcile, Fetched
  <2>2. rec[s].stamp \in Readings
    BY DEF StampsRead
  <2> QED
    BY <1>3, <2>1, <2>2 DEF ReconcileUpsert, envVars, StoreNext, StoreUpsert
<1>4. ASSUME NEW s \in Sources, NEW d \in Docs, ReconcileDelete(s, d)
      PROVE  StoreNext
  BY <1>4 DEF ReconcileDelete, envVars, StoreNext, StoreDelete
<1> QED
  BY <1>1, <1>2, <1>3, <1>4
     DEF Next, vars, envVars, UpstreamChange, ReconcileStep, ReconcileBegin,
         ReconcileFetch, ReconcileSweep, ReconcileEnd, ReconcileFail

LEMMA InitStore == Init => StoreInit /\ StampsRead
BY AclStoreAssumption DEF Init, StoreInit, StampsRead, Readings, Idle

(* PULL and PUSH together implement the AclStore specification that the    *)
(* query pipeline is built on.                                             *)
THEOREM ImplementsAclStore == Spec => StoreSpec
<1>1. TypeOK /\ TypeOK' /\ StampsRead /\ [Next]_vars => StampsRead'
  BY StepRead
<1>2. TypeOK /\ TypeOK' /\ MatchInv /\ StampsRead /\ [Next]_vars
        => [StoreNext]_<<now, store>>
  BY StepStore
<1> QED
  BY <1>1, <1>2, InitStore, TypeCorrect, MatchCorrect, PTL DEF Spec, StoreSpec

-----------------------------------------------------------------------------
(* What a reconcile repairs, and that it ends: what Converges rests on.    *)

Returning(s) == rec[s].pc \in {"upserting", "sweeping"}

(* Upstream announced d's present policy (or that it has none) after the   *)
(* reconcile of s read its clock, as far as that clock tells.              *)
Announced(s, d) ==
  \E e \in events : /\ e.doc = d /\ e.policy = truth[d]
                    /\ e.at >= rec[s].stamp - Skew

(* What was fetched is upstream's still, unless it was announced since.    *)
FetchedFor(s) ==
  /\ rec[s].pc # "idle" => rec[s].stamp <= now + Skew
  /\ Returning(s) =>
       \A d \in Docs : SourceOf[d] = s /\ rec[s].fetched[d] # truth[d] => Announced(s, d)

FetchedInv == \A s \in Sources : FetchedFor(s)

Repairs(s) ==
  rec[s].pc = "sweeping" /\ rec'[s].pc = "idle" =>
    \A d \in Docs \ touched[s] :
      SourceOf[d] = s => Granted(d) = truth[d] \/ Announced(s, d)

(* The documents to upsert, then those to delete, and the steps between.   *)
CallsLeft(s) ==
  CASE rec[s].pc = "fetching"  -> 3 + 2 * Cardinality(Docs)
    [] rec[s].pc = "upserting" -> 2 + Cardinality(rec[s].todo) + Cardinality(Docs)
    [] rec[s].pc = "sweeping"  -> 1 + Cardinality(rec[s].todo)
    [] OTHER                   -> 0

(* Time and truth move on; nobody touches the reconcile of s.              *)
LEMMA WorldFetched ==
  ASSUME TypeOK, NEW s \in Sources, FetchedFor(s), rec'[s] = rec[s],
         now' \in Nat, now <= now', events \subseteq events',
         \A d \in Docs : truth'[d] # truth[d] =>
           [doc |-> d, policy |-> truth'[d], at |-> now] \in events'
  PROVE  FetchedFor(s)'
<1>0. /\ rec[s].stamp \in Int /\ now \in Int /\ now' \in Int /\ Skew \in Int
  BY AclStoreAssumption DEF TypeOK, Reconcile
<1>1. (rec[s].pc # "idle" => rec[s].stamp <= now + Skew)'
  BY <1>0 DEF FetchedFor
<1>2. ASSUME NEW d \in Docs, Returning(s), SourceOf[d] = s, rec[s].fetched[d] # truth'[d]
      PROVE  \E e \in events' : /\ e.doc = d /\ e.policy = truth'[d]
                                /\ e.at >= rec[s].stamp - Skew
  <2>1. CASE truth'[d] # truth[d]
    <3> DEFINE e == [doc |-> d, policy |-> truth'[d], at |-> now]
    <3>1. rec[s].stamp <= now + Skew
      BY <1>2 DEF FetchedFor, Returning
    <3>2. e \in events' /\ e.doc = d /\ e.policy = truth'[d] /\ e.at = now
      BY <2>1
    <3>3. e.at >= rec[s].stamp - Skew
      BY <1>0, <3>1, <3>2
    <3> QED
      BY <3>2, <3>3
  <2>2. CASE truth'[d] = truth[d]
    BY <1>2, <2>2 DEF FetchedFor, Announced
  <2> QED
    BY <2>1, <2>2
<1> QED
  BY <1>1, <1>2 DEF FetchedFor, Announced, Returning

LEMMA OnlyItself ==
  ASSUME TypeOK, NEW r \in Sources, ReconcileStep(r) \/ ReconcileFail(r)
  PROVE  /\ UNCHANGED envVars /\ now' = now
         /\ \A s \in Sources : s # r => rec'[s] = rec[s]
BY DEF ReconcileStep, ReconcileBegin, ReconcileFetch, ReconcileUpsert,
       ReconcileSweep, ReconcileDelete, ReconcileEnd, ReconcileFail, TypeOK

(* The reconcile's own steps: only Begin reads the clock, only Fetch asks  *)
(* upstream.                                                               *)
LEMMA OwnFetched ==
  ASSUME TypeOK, NEW s \in Sources, FetchedFor(s), ReconcileStep(s) \/ ReconcileFail(s)
  PROVE  FetchedFor(s)'
<1>0. /\ rec \in [Sources -> Reconcile] /\ rec[s] \in Reconcile /\ now \in Nat
      /\ UNCHANGED envVars /\ now' = now
  BY OnlyItself DEF TypeOK
<1>1. CASE ReconcileBegin(s)
  <2>1. PICK t \in ClockReadings :
          rec'[s] = [Idle EXCEPT !.pc = "fetching", !.stamp = t]
    BY <1>0, <1>1 DEF ReconcileBegin
  <2>2. rec'[s].pc = "fetching" /\ rec'[s].stamp = t
    BY <2>1 DEF Idle
  <2>3. t <= now + Skew
    BY <1>0, ReadingsAreInt
  <2> QED
    BY <1>0, <2>2, <2>3 DEF FetchedFor, Returning
<1>2. CASE ReconcileFetch(s)
  <2>0. PICK got : got = [d \in Docs |-> IF SourceOf[d] = s THEN truth[d] ELSE None]
    OBVIOUS
  <2>1. rec'[s] = [rec[s] EXCEPT !.pc = "upserting", !.fetched = got,
                                 !.todo = {d \in Docs : got[d] # None}]
    BY <1>0, <1>2, <2>0 DEF ReconcileFetch
  <2>2. rec'[s].fetched = got /\ rec'[s].stamp = rec[s].stamp
    BY <1>0, <2>1 DEF Reconcile
  <2>3. rec[s].pc # "idle"
    BY <1>2 DEF ReconcileFetch
  <2> QED
    BY <1>0, <2>0, <2>2, <2>3 DEF FetchedFor, Returning, envVars
<1>3. CASE \/ (\E d \in Docs : ReconcileUpsert(s, d) \/ ReconcileDelete(s, d))
           \/ ReconcileSweep(s)
  <2>1. Returning(s) /\ rec[s].pc # "idle"
    BY <1>3 DEF ReconcileUpsert, ReconcileDelete, ReconcileSweep, Returning
  <2>2. /\ rec'[s].fetched = rec[s].fetched /\ rec'[s].stamp = rec[s].stamp
    BY <1>0, <1>3 DEF ReconcileUpsert, ReconcileDelete, ReconcileSweep, Reconcile
  <2> QED
    BY <1>0, <2>1, <2>2 DEF FetchedFor, Announced, envVars
<1>4. CASE ReconcileEnd(s) \/ ReconcileFail(s)
  <2>1. rec'[s].pc = "idle"
    BY <1>0, <1>4 DEF ReconcileEnd, ReconcileFail, Idle
  <2> QED
    BY <2>1 DEF FetchedFor, Returning
<1> QED
  BY <1>1, <1>2, <1>3, <1>4 DEF ReconcileStep

LEMMA AlwaysFetched == Spec => []FetchedInv
<1>1. Init => FetchedInv
  BY DEF Init, FetchedInv, FetchedFor, Returning, Idle
<1>2. TypeOK /\ TypeOK' /\ FetchedInv /\ [Next]_vars => FetchedInv'
  <2> SUFFICES ASSUME TypeOK, TypeOK', FetchedInv, [Next]_vars, NEW s \in Sources
               PROVE  FetchedFor(s)'
    BY DEF FetchedInv
  <2>0. FetchedFor(s) /\ now \in Nat /\ now' \in Nat
    BY DEF FetchedInv, TypeOK
  <2>1. CASE Tick
    <3>1. now <= now' /\ events' = events /\ truth' = truth /\ rec' = rec
      BY <2>0, <2>1 DEF Tick, StoreTick, envVars
    <3> QED
      BY <2>0, <3>1, WorldFetched
  <2>2. ASSUME NEW d \in Docs, NEW p \in Policies \cup {None}, UpstreamChange(d, p)
        PROVE  FetchedFor(s)'
    <3>1. /\ now' = now /\ rec' = rec /\ events \subseteq events'
          /\ [doc |-> d, policy |-> p, at |-> now] \in events'
          /\ \A x \in Docs : truth'[x] = IF x = d THEN p ELSE truth[x]
      BY <2>2 DEF UpstreamChange, TypeOK
    <3> QED
      BY <2>0, <3>1, WorldFetched
  <2>3. ASSUME NEW e \in events, ApplyEvent(e) PROVE FetchedFor(s)'
    BY <2>0, <2>3, WorldFetched DEF ApplyEvent, envVars
  <2>4. ASSUME NEW r \in Sources, ReconcileStep(r) \/ ReconcileFail(r)
        PROVE  FetchedFor(s)'
    <3>1. CASE r = s
      BY <2>0, <2>4, <3>1, OwnFetched
    <3>2. CASE r # s
      BY <2>0, <2>4, <3>2, OnlyItself, WorldFetched DEF envVars
    <3> QED
      BY <3>1, <3>2
  <2>5. CASE UNCHANGED vars
    BY <2>0, <2>5, WorldFetched DEF vars
  <2> QED
    BY <2>1, <2>2, <2>3, <2>4, <2>5 DEF Next
<1> QED
  BY <1>1, <1>2, TypeCorrect, PTL DEF Spec

(* PULL repairs whatever PUSH lost, repeated or spoiled: when a reconcile  *)
(* returns, each document its source owns has exactly upstream's policy,   *)
(* unless somebody else wrote the document in the meantime, or upstream's  *)
(* last change of it came after the reconcile read its clock.              *)
THEOREM ReconcileRepairs == Spec => [][\A s \in Sources : Repairs(s)]_vars
<1>1. FetchedInv /\ [\A s \in Sources :
         (rec[s].pc = "sweeping" /\ rec'[s].pc = "idle") =>
            \A d \in Docs \ touched[s] : Granted(d) = rec[s].fetched[d]]_vars
      => [\A s \in Sources : Repairs(s)]_vars
  <2> SUFFICES ASSUME FetchedInv, NEW s \in Sources,
                      rec[s].pc = "sweeping",
                      \A d \in Docs \ touched[s] : Granted(d) = rec[s].fetched[d]
               PROVE  Repairs(s)
    BY DEF Repairs
  <2>1. \A d \in Docs : SourceOf[d] = s /\ rec[s].fetched[d] # truth[d] => Announced(s, d)
    BY DEF FetchedInv, FetchedFor, Returning
  <2> QED
    BY <2>1 DEF Repairs
<1> QED
  BY <1>1, AlwaysFetched, ReconcileCorrect, PTL DEF ReconcileMatches

(* A reconcile comes to its end whatever the others write meanwhile: what  *)
(* it has to delete is read from the store once, so no writer can keep it  *)
(* busy.                                                                   *)
THEOREM ReconcilesRunDown ==
  ASSUME IsFiniteSet(Docs)
  PROVE  Spec => [][\A s \in Sources :
                      rec'[s] # rec[s] /\ rec[s].pc # "idle" =>
                        /\ CallsLeft(s) \in Nat /\ CallsLeft(s)' \in Nat
                        /\ CallsLeft(s)' < CallsLeft(s)]_vars
<1>1. \A T \in SUBSET Docs : /\ IsFiniteSet(T) /\ Cardinality(T) \in Nat
                             /\ Cardinality(T) <= Cardinality(Docs)
                             /\ Cardinality(Docs) \in Nat
  BY FS_Subset, FS_CardinalityType
<1>2. ASSUME TypeOK, TypeOK', [Next]_vars, NEW s \in Sources,
             rec'[s] # rec[s], rec[s].pc # "idle"
      PROVE  /\ CallsLeft(s) \in Nat /\ CallsLeft(s)' \in Nat
             /\ CallsLeft(s)' < CallsLeft(s)
  <2>0. /\ rec \in [Sources -> Reconcile] /\ rec[s] \in Reconcile /\ rec'[s] \in Reconcile
    BY <1>2 DEF TypeOK
  <2>1. /\ rec[s].todo \in SUBSET Docs /\ rec'[s].todo \in SUBSET Docs
        /\ rec[s].pc \in {"fetching", "upserting", "sweeping"}
    BY <1>2, <2>0 DEF Reconcile
  <2>2. /\ Cardinality(Docs) \in Nat /\ IsFiniteSet(rec[s].todo)
        /\ Cardinality(rec[s].todo) \in Nat /\ Cardinality(rec'[s].todo) \in Nat
        /\ Cardinality(rec'[s].todo) <= Cardinality(Docs)
    BY <1>1, <2>1
  <2>3. ReconcileStep(s) \/ ReconcileFail(s)
    <3>1. PICK r \in Sources : ReconcileStep(r) \/ ReconcileFail(r)
      BY <1>2 DEF Next, Tick, UpstreamChange, ApplyEvent, vars
    <3> QED
      BY <1>2, <3>1, OnlyItself
  <2>4. CASE ReconcileFetch(s)
    <3>1. rec[s].pc = "fetching" /\ rec'[s].pc = "upserting"
      BY <2>0, <2>4 DEF ReconcileFetch, Reconcile
    <3> QED
      BY <2>2, <3>1 DEF CallsLeft
  <2>5. CASE ReconcileSweep(s)
    <3>1. rec[s].pc = "upserting" /\ rec'[s].pc = "sweeping"
      BY <2>0, <2>5 DEF ReconcileSweep, Reconcile
    <3> QED
      BY <2>2, <3>1 DEF CallsLeft
  <2>6. ASSUME NEW d \in Docs, ReconcileUpsert(s, d) \/ ReconcileDelete(s, d)
        PROVE  /\ CallsLeft(s) \in Nat /\ CallsLeft(s)' \in Nat
               /\ CallsLeft(s)' < CallsLeft(s)
    <3>1. /\ d \in rec[s].todo /\ rec'[s].todo = rec[s].todo \ {d}
          /\ rec'[s].pc = rec[s].pc /\ rec[s].pc \in {"upserting", "sweeping"}
      BY <2>0, <2>6 DEF ReconcileUpsert, ReconcileDelete, Reconcile
    <3>2. Cardinality(rec'[s].todo) = Cardinality(rec[s].todo) - 1
      <4>1. PICK T : T = rec[s].todo
        OBVIOUS
      <4>2. IsFiniteSet(T) /\ d \in T
        BY <2>2, <3>1, <4>1
      <4>3. Cardinality(T \ {d}) = Cardinality(T) - 1
        BY <4>2, FS_RemoveElement
      <4> QED
        BY <3>1, <4>1, <4>3
    <3> QED
      BY <2>2, <3>1, <3>2 DEF CallsLeft
  <2>7. CASE ReconcileEnd(s) \/ ReconcileFail(s)
    <3>1. rec'[s].pc = "idle"
      BY <2>0, <2>7 DEF ReconcileEnd, ReconcileFail, Idle
    <3> QED
      BY <2>1, <2>2, <3>1 DEF CallsLeft
  <2> QED
    BY <1>2, <2>3, <2>4, <2>5, <2>6, <2>7 DEF ReconcileStep, ReconcileBegin
<1>3. TypeOK /\ TypeOK' /\ [Next]_vars =>
        [\A s \in Sources :
           rec'[s] # rec[s] /\ rec[s].pc # "idle" =>
             /\ CallsLeft(s) \in Nat /\ CallsLeft(s)' \in Nat
             /\ CallsLeft(s)' < CallsLeft(s)]_vars
  BY <1>2
<1> QED
  BY <1>3, TypeCorrect, PTL DEF Spec

=============================================================================
