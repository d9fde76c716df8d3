------------------------ MODULE QueryPipeline_proofs ------------------------
(***************************************************************************)
(* Proofs about QueryPipeline, for every number of requests, documents,    *)
(* chunks, channels and policies, and every staleness bound.               *)
(***************************************************************************)
EXTENDS QueryPipeline, FiniteSetTheorems, WellFoundedInduction, TLAPS

(* The ACLs in the store carry no stamp from further in the future than a  *)
(* clock may be off.                                                       *)
StampsPast == \A d \in AllDocumentIds : store[d].synced <= now + Skew

(* A request being served has seen what its caller can see now.            *)
SeenNow == \A r \in Requests : Served(r) => VisibleTo(req[r].ctx) \subseteq seen[r]

(* A candidate that its ACL lets through now or later belongs to a         *)
(* document that was visible while the request was being served: the ACL   *)
(* can only expire between the moment it is read and the filter.           *)
CandidatesSeen ==
  \A r \in Requests : \A x \in req[r].cands, t \in now .. MaxTime :
    EvaluateDocument(req[r].ctx, x.acl, t) => DocOf[x.chunk] \in seen[r]

SeenInv == StampsPast /\ SeenNow /\ CandidatesSeen /\ ShownWasVisible

-----------------------------------------------------------------------------

LEMMA AnAcl ==
  ASSUME NEW p \in Policies, NEW t \in Int
  PROVE  Stamped(p, t) \in Acl /\ Stamped(p, t) # None /\ Stamped(p, t).synced = t
<1>1. p \in PolicySpace(Roles, Sites)
  BY AclStoreAssumption
<1>2. Stamped(p, t) \in Acl
  BY <1>1 DEF Stamped, Acl, PolicySpace
<1> QED
  BY <1>2, AclStoreAssumption DEF Stamped

LEMMA VisibleType == \A ctx : VisibleTo(ctx) \subseteq Docs /\ (VisibleTo(ctx))' \subseteq Docs
BY DEF VisibleTo, AllDocumentIds

LEMMA ReadingsAre ==
  ASSUME now \in 0 .. MaxTime
  PROVE  \A t \in Readings : t \in Int /\ t <= now + Skew
BY AclStoreAssumption DEF Readings

(* What a step of the store may do.                                        *)
LEMMA StoreStepType ==
  ASSUME now \in 0 .. MaxTime, store \in [Docs -> Acl \cup {None}], StoreNext
  PROVE  /\ now' \in 0 .. MaxTime /\ now <= now'
         /\ store' \in [Docs -> Acl \cup {None}]
         /\ StampsPast => StampsPast'
<1>0. MaxTime \in Int /\ Skew \in Int /\ now \in Int
  BY AclStoreAssumption
<1>1. CASE StoreTick
  <2>1. now' = now + 1 /\ now < MaxTime /\ store' = store
    BY <1>1 DEF StoreTick
  <2>2. ASSUME StampsPast, NEW d \in Docs, store[d] # None
        PROVE  store[d].synced <= now' + Skew
    <3>1. store[d].synced <= now + Skew /\ store[d].synced \in Int
      BY <2>2 DEF StampsPast, AllDocumentIds, Acl
    <3> QED
      BY <1>0, <2>1, <3>1
  <2> QED
    BY <1>0, <2>1, <2>2 DEF StampsPast, AllDocumentIds
<1>2. ASSUME NEW d \in Docs, StoreUpsert(d)
      PROVE  /\ now' = now
             /\ store' \in [Docs -> Acl \cup {None}]
             /\ StampsPast => StampsPast'
  <2>1. PICK p \in Policies, t \in Readings : store' = [store EXCEPT ![d] = Stamped(p, t)]
    BY <1>2 DEF StoreUpsert, Upsert
  <2>2. /\ t <= now + Skew
        /\ Stamped(p, t) \in Acl /\ Stamped(p, t).synced = t
    BY ReadingsAre, AnAcl
  <2> QED
    BY <1>2, <2>1, <2>2 DEF StoreUpsert, StampsPast, AllDocumentIds
<1>3. ASSUME NEW d \in Docs, StoreDelete(d)
      PROVE  /\ now' = now
             /\ store' \in [Docs -> Acl \cup {None}]
             /\ StampsPast => StampsPast'
  BY <1>3 DEF StoreDelete, Delete, StampsPast, AllDocumentIds
<1> QED
  BY <1>0, <1>1, <1>2, <1>3 DEF StoreNext

-----------------------------------------------------------------------------
(* Types.                                                                  *)

LEMMA InitType == Init => TypeOK
<1> SUFFICES ASSUME Init PROVE TypeOK
  OBVIOUS
<1>1. now \in 0 .. MaxTime
  BY AclStoreAssumption DEF Init, StoreInit
<1>2. store \in [Docs -> Acl \cup {None}]
  BY <1>1, ReadingsAre, AnAcl DEF Init, StoreInit
<1>3. NotYet \in Request
  <2> DEFINE ctx == [roles |-> {}, sites |-> {}, verified |-> FALSE]
  <2>1. ctx \in Contexts(Roles, Sites) /\ 0 \in 0 .. NumChannels
    BY QueryAssumption DEF Contexts
  <2>2. NotYet = Fresh("new", "search", ctx, {})
    BY DEF NotYet
  <2> HIDE DEF ctx
  <2> QED
    BY <2>1, <2>2 DEF Fresh, Request, Kinds, Outcomes
<1> QED
  BY <1>1, <1>2, <1>3 DEF Init, TypeOK

(* The fields each step of a request updates keep its record well typed.   *)
LEMMA FreshType ==
  ASSUME NEW k \in Kinds, NEW ctx \in Callers, NEW D \in SUBSET Docs
  PROVE  Fresh("gate", k, ctx, D) \in Request
BY QueryAssumption DEF Fresh, Request, Outcomes

LEMMA RespondType ==
  ASSUME req \in [Requests -> Request], NEW r \in Requests,
         NEW o \in Outcomes, Respond(r, o)
  PROVE  /\ req' \in [Requests -> Request]
         /\ \A x \in Requests :
              /\ req'[x].ctx = req[x].ctx /\ req'[x].cands = req[x].cands
              /\ req'[x].evidence = req[x].evidence /\ req'[x].docs = req[x].docs
         /\ \A x \in Requests : req'[x].pc = req[x].pc \/ req'[x].pc = "done"
<1>1. req' = [req EXCEPT ![r] = [req[r] EXCEPT !.pc = "done", !.outcome = o]]
  BY DEF Respond
<1>2. [req[r] EXCEPT !.pc = "done", !.outcome = o] \in Request
  BY DEF Request
<1>3. req' \in [Requests -> Request]
  BY <1>1, <1>2
<1> QED
  BY <1>1, <1>3 DEF Request

LEMMA ResolveType ==
  ASSUME store \in [Docs -> Acl \cup {None}], NEW d \in Docs
  PROVE  ResolveAcl(d) \in Acl \cup {Unresolved}
BY DEF ResolveAcl

(* Steps that only move a request on: Gate, SearchChannel, Compose, the    *)
(* gateway's and the responses.                                            *)
Quiet(r) ==
  /\ req' \in [Requests -> Request]
  /\ \A x \in Requests :
       /\ req'[x].ctx = req[x].ctx
       /\ req'[x].cands = req[x].cands
       /\ req'[x].evidence = req[x].evidence
       /\ req'[x].docs = req[x].docs
       /\ Served(x)' => Served(x)

LEMMA QuietSteps ==
  ASSUME TypeOK, NEW r \in Requests,
         \/ Gate(r) \/ SearchChannel(r) \/ Compose(r) \/ GatewayReturn(r)
         \/ GatewayError(r) \/ FetchContent(r) \/ ListDone(r)
  PROVE  Quiet(r)
<1> USE DEF TypeOK
<1>0. req \in [Requests -> Request] /\ req[r] \in Request
  OBVIOUS
<1>1. ASSUME NEW o \in Outcomes, Respond(r, o), Served(r) PROVE Quiet(r)
  BY <1>0, <1>1, RespondType DEF Quiet, Served
<1>2. ASSUME NEW p \in {"fanout", "check", "gateway"},
             req' = [req EXCEPT ![r].pc = p], Served(r)
      PROVE  Quiet(r)
  <2>1. [req[r] EXCEPT !.pc = p] \in Request
    BY <1>0 DEF Request
  <2>2. req' = [req EXCEPT ![r] = [req[r] EXCEPT !.pc = p]]
    BY <1>2
  <2> QED
    BY <1>0, <1>2, <2>1, <2>2 DEF Quiet, Served, Request
<1>3. CASE Gate(r)
  <2>1. Served(r)
    BY <1>3 DEF Gate, Served
  <2>2. {"forbidden", "unauthorized_scope"} \subseteq Outcomes
    BY DEF Outcomes
  <2> QED
    BY <1>1, <1>2, <1>3, <2>1, <2>2 DEF Gate
<1>4. CASE SearchChannel(r)
  <2>1. PICK H \in SUBSET Chunks :
          req' = [req EXCEPT ![r] = [req[r] EXCEPT
                    !.pc = IF H = {} THEN "fanout" ELSE "resolving",
                    !.chan = req[r].chan + 1, !.hits = H]]
    BY <1>4 DEF SearchChannel
  <2>2. req[r].chan + 1 \in 0 .. NumChannels
    <3>1. /\ req[r].chan \in Int /\ 0 <= req[r].chan
          /\ req[r].chan < NumChannels /\ NumChannels \in Int
      <4>1. req[r].chan \in 0 .. NumChannels
        BY <1>0 DEF Request
      <4>2. NumChannels \in Int
        BY QueryAssumption
      <4>3. req[r].chan < NumChannels
        BY <1>4 DEF SearchChannel
      <4> QED
        BY <4>1, <4>2, <4>3
    <3> QED
      BY <3>1
  <2>3. [req[r] EXCEPT !.pc = IF H = {} THEN "fanout" ELSE "resolving",
                       !.chan = req[r].chan + 1, !.hits = H] \in Request
    BY <1>0, <2>2 DEF Request
  <2>4. req' \in [Requests -> Request]
    BY <1>0, <2>1, <2>3
  <2> QED
    BY <1>0, <1>4, <2>1, <2>4 DEF Quiet, Served, Request, SearchChannel
<1>5. CASE Compose(r)
  <2>1. Served(r)
    BY <1>5 DEF Compose, Served
  <2>2. {"results", "insufficient"} \subseteq Outcomes
    BY DEF Outcomes
  <2> QED
    BY <1>1, <1>2, <1>5, <2>1, <2>2 DEF Compose
<1>6. CASE GatewayReturn(r)
  <2>1. PICK C \in SUBSET Chunks, o \in Outcomes, disc \in BOOLEAN :
          req' = [req EXCEPT ![r] = [req[r] EXCEPT
                    !.pc = "done", !.outcome = o, !.cites = C, !.disclosed = disc]]
    <3>1. PICK C \in SUBSET Chunks, disc \in BOOLEAN :
            req' = [req EXCEPT
              ![r].pc = "done",
              ![r].outcome = DraftOutcome(C, Violations(C, disc, req[r].evidence)),
              ![r].cites =
                 IF Violations(C, disc, req[r].evidence) = {} THEN C ELSE {},
              ![r].disclosed = disc /\ Violations(C, disc, req[r].evidence) = {}]
      BY <1>6, Zenon DEF GatewayReturn
    <3> DEFINE V == Violations(C, disc, req[r].evidence)
    <3>2. DraftOutcome(C, V) \in Outcomes
      BY DEF DraftOutcome, Outcomes
    <3>3. (IF V = {} THEN C ELSE {}) \in SUBSET Chunks /\ (disc /\ V = {}) \in BOOLEAN
      OBVIOUS
    <3> HIDE DEF V
    <3>4. req' = [req EXCEPT ![r] = [req[r] EXCEPT
                      !.pc = "done", !.outcome = DraftOutcome(C, V),
                      !.cites = IF V = {} THEN C ELSE {},
                      !.disclosed = disc /\ V = {}]]
      BY <3>1 DEF V
    <3> QED
      BY <3>2, <3>3, <3>4
  <2>2. [req[r] EXCEPT !.pc = "done", !.outcome = o,
                       !.cites = C, !.disclosed = disc] \in Request
    BY <1>0 DEF Request
  <2>3. req' \in [Requests -> Request]
    BY <1>0, <2>1, <2>2
  <2> QED
    BY <1>0, <2>1, <2>3 DEF Quiet, Served, Request
<1>7. CASE GatewayError(r) \/ FetchContent(r) \/ ListDone(r)
  <2>1. Served(r)
    BY <1>7 DEF GatewayError, FetchContent, ListDone, Served
  <2>2. {"unavailable", "content", "error", "documents"} \subseteq Outcomes
    BY DEF Outcomes
  <2> QED
    BY <1>1, <1>7, <2>1, <2>2 DEF GatewayError, FetchContent, ListDone
<1> QED
  BY <1>3, <1>4, <1>5, <1>6, <1>7

-----------------------------------------------------------------------------
(* The steps that add to what a request holds.                             *)

LEMMA CandidateStep ==
  ASSUME TypeOK, NEW r \in Requests, NEW c \in Chunks, ToCandidate(r, c)
  PROVE  /\ req' \in [Requests -> Request]
         /\ Served(r)
         /\ \A x \in Requests :
              /\ req'[x].ctx = req[x].ctx
              /\ req'[x].evidence = req[x].evidence
              /\ req'[x].docs = req[x].docs
              /\ Served(x)' => Served(x)
              /\ x # r => req'[x].cands = req[x].cands
         /\ req'[r].cands =
              req[r].cands \cup {[chunk |-> c, acl |-> ResolveAcl(DocOf[c])]}
<1> USE DEF TypeOK
<1>0. req \in [Requests -> Request] /\ req[r] \in Request
  OBVIOUS
<1> DEFINE new == [chunk |-> c, acl |-> ResolveAcl(DocOf[c])]
           q == [req[r] EXCEPT
                   !.pc = IF req[r].hits = {c} THEN "fanout" ELSE "resolving",
                   !.hits = req[r].hits \ {c},
                   !.cands = req[r].cands \cup {new}]
<1>1. req' = [req EXCEPT ![r] = q]
  BY DEF ToCandidate
<1>2. new \in Candidates
  BY ResolveType, QueryAssumption DEF Candidates
<1>3. q \in Request
  <2>1. req[r].cands \cup {new} \in SUBSET Candidates
    BY <1>0, <1>2 DEF Request
  <2>2. req[r].hits \ {c} \in SUBSET Chunks
    BY <1>0 DEF Request
  <2> HIDE DEF new
  <2> QED
    BY <1>0, <2>1, <2>2 DEF Request
<1>4. q.ctx = req[r].ctx /\ q.evidence = req[r].evidence /\ q.docs = req[r].docs
      /\ q.cands = req[r].cands \cup {new}
  <2> HIDE DEF new
  <2> QED
    BY <1>0 DEF Request
<1>5. Served(r)
  BY DEF ToCandidate, Served
<1> HIDE DEF q
<1>6. req' \in [Requests -> Request] /\ req'[r] = q
  BY <1>0, <1>1, <1>3
<1>7. \A x \in Requests : x # r => req'[x] = req[x]
  BY <1>0, <1>1
<1> QED
  BY <1>4, <1>5, <1>6, <1>7 DEF Served

LEMMA MergeStep ==
  ASSUME TypeOK, NEW r \in Requests, MergeAssemble(r)
  PROVE  /\ req' \in [Requests -> Request]
         /\ Served(r)
         /\ \A x \in Requests : x # r => req'[x] = req[x]
         /\ req'[r].ctx = req[r].ctx /\ req'[r].cands = {}
         /\ req'[r].docs = req[r].docs
         /\ req'[r].evidence \subseteq Authorized(r)
<1> USE DEF TypeOK
<1>0. req \in [Requests -> Request] /\ req[r] \in Request
  OBVIOUS
<1>1. PICK E \in SUBSET Authorized(r) :
        req' = [req EXCEPT ![r] = [req[r] EXCEPT
                  !.pc = "compose", !.evidence = E, !.cands = {}]]
  BY DEF MergeAssemble
<1>2. Authorized(r) \subseteq Chunks
  BY <1>0 DEF Authorized, Request, Candidates
<1>3. [req[r] EXCEPT !.pc = "compose", !.evidence = E, !.cands = {}] \in Request
  BY <1>0, <1>1, <1>2 DEF Request
<1>4. req' \in [Requests -> Request]
  BY <1>0, <1>1, <1>3
<1>5. Served(r)
  BY DEF MergeAssemble, Served
<1> QED
  BY <1>0, <1>1, <1>4, <1>5 DEF Request

(* /documents/{id}: the check either fails, or finds a visible document.   *)
LEMMA CheckStep ==
  ASSUME TypeOK, NEW r \in Requests,
         CheckDocument(r) \/ \E d \in Docs : ListOne(r, d)
  PROVE  /\ req' \in [Requests -> Request]
         /\ Served(r)
         /\ \A x \in Requests :
              /\ req'[x].ctx = req[x].ctx
              /\ req'[x].cands = req[x].cands
              /\ req'[x].evidence = req[x].evidence
              /\ Served(x)' => Served(x)
              /\ x # r => req'[x].docs = req[x].docs
         /\ req'[r].docs \subseteq req[r].docs \cup VisibleTo(req[r].ctx)
<1> USE DEF TypeOK
<1>0. req \in [Requests -> Request] /\ req[r] \in Request
  OBVIOUS
<1>1. Served(r)
  BY DEF CheckDocument, ListOne, Served
<1>2. ASSUME Respond(r, "not_found")
      PROVE  /\ req' \in [Requests -> Request]
             /\ \A x \in Requests :
                  /\ req'[x].ctx = req[x].ctx
                  /\ req'[x].cands = req[x].cands
                  /\ req'[x].evidence = req[x].evidence
                  /\ req'[x].docs = req[x].docs
                  /\ Served(x)' => Served(x)
  <2>1. "not_found" \in Outcomes
    BY DEF Outcomes
  <2> QED
    BY <1>0, <1>2, <2>1, RespondType DEF Served
<1>3. ASSUME NEW q \in Request, req' = [req EXCEPT ![r] = q],
             q.ctx = req[r].ctx, q.cands = req[r].cands,
             q.evidence = req[r].evidence
      PROVE  /\ req' \in [Requests -> Request]
             /\ \A x \in Requests :
                  /\ req'[x].ctx = req[x].ctx
                  /\ req'[x].cands = req[x].cands
                  /\ req'[x].evidence = req[x].evidence
                  /\ Served(x)' => Served(x)
                  /\ x # r => req'[x].docs = req[x].docs
             /\ req'[r].docs = q.docs
  BY <1>0, <1>1, <1>3 DEF Served
<1>4. CASE CheckDocument(r)
  <2>1. PICK d \in req[r].todo :
          IF d \in Uploaded /\ MayOpen(r, d)
          THEN req' = [req EXCEPT ![r] =
                         [req[r] EXCEPT !.pc = "fetch", !.docs = {d}]]
          ELSE Respond(r, "not_found")
    BY <1>4 DEF CheckDocument
  <2>2. CASE ~(d \in Uploaded /\ MayOpen(r, d))
    BY <1>1, <1>2, <2>1, <2>2
  <2>3. CASE d \in Uploaded /\ MayOpen(r, d)
    <3> DEFINE q == [req[r] EXCEPT !.pc = "fetch", !.docs = {d}]
    <3>1. {d} \in SUBSET Docs
      BY <1>0 DEF Request
    <3>2. /\ q \in Request /\ q.ctx = req[r].ctx /\ q.cands = req[r].cands
          /\ q.evidence = req[r].evidence /\ q.docs = {d}
      BY <1>0, <3>1 DEF Request
    <3>3. req' = [req EXCEPT ![r] = q]
      BY <2>1, <2>3
    <3>4. {d} \subseteq VisibleTo(req[r].ctx)
      BY <2>3 DEF MayOpen
    <3> HIDE DEF q
    <3> QED
      BY <1>1, <1>3, <3>2, <3>3, <3>4
  <2> QED
    BY <2>2, <2>3
<1>5. ASSUME NEW d \in Docs, ListOne(r, d)
      PROVE  \E q \in Request :
               /\ q.docs \subseteq req[r].docs \cup VisibleTo(req[r].ctx)
               /\ q.ctx = req[r].ctx /\ q.cands = req[r].cands
               /\ q.evidence = req[r].evidence
               /\ req' = [req EXCEPT ![r] = q]
  <2> DEFINE D == IF MayOpen(r, d) THEN req[r].docs \cup {d} ELSE req[r].docs
             T == req[r].todo \ {d}
             q == [req[r] EXCEPT !.todo = T, !.docs = D]
  <2>1. D \in SUBSET Docs /\ T \in SUBSET Docs
    BY <1>0 DEF Request
  <2>2. D \subseteq req[r].docs \cup VisibleTo(req[r].ctx)
    BY DEF MayOpen
  <2>3. req' = [req EXCEPT ![r] = q]
    BY <1>5 DEF ListOne
  <2> HIDE DEF D, T
  <2>4. /\ q \in Request /\ q.ctx = req[r].ctx /\ q.cands = req[r].cands
        /\ q.evidence = req[r].evidence /\ q.docs = D
    BY <1>0, <2>1 DEF Request
  <2> HIDE DEF q
  <2> QED
    BY <2>2, <2>3, <2>4
<1> QED
  BY <1>1, <1>3, <1>4, <1>5

-----------------------------------------------------------------------------

LEMMA ArriveStep ==
  ASSUME TypeOK, NEW r \in Requests, Arrive(r)
  PROVE  /\ req' \in [Requests -> Request] /\ seen' \in [Requests -> SUBSET Docs]
         /\ \A x \in Requests : x # r => req'[x] = req[x] /\ seen'[x] = seen[x]
         /\ seen'[r] = VisibleTo(req'[r].ctx)
         /\ req'[r].cands = {} /\ req'[r].evidence = {} /\ req'[r].docs = {}
<1>1. PICK k \in Kinds, ctx \in Callers :
        /\ \E D \in ToCheck(k) : req' = [req EXCEPT ![r] = Fresh("gate", k, ctx, D)]
        /\ seen' = [seen EXCEPT ![r] = VisibleTo(ctx)]
  BY DEF Arrive
<1>2. PICK D \in SUBSET Docs : req' = [req EXCEPT ![r] = Fresh("gate", k, ctx, D)]
  BY <1>1, QueryAssumption DEF ToCheck
<1>3. /\ Fresh("gate", k, ctx, D) \in Request
      /\ Fresh("gate", k, ctx, D).ctx = ctx
      /\ Fresh("gate", k, ctx, D).cands = {}
      /\ Fresh("gate", k, ctx, D).evidence = {}
      /\ Fresh("gate", k, ctx, D).docs = {}
  BY FreshType DEF Fresh
<1> QED
  BY <1>1, <1>2, <1>3, VisibleType DEF TypeOK

LEMMA StepType == TypeOK /\ [Next]_vars => TypeOK'
<1> SUFFICES ASSUME TypeOK, [Next]_vars PROVE TypeOK'
  OBVIOUS
<1>1. CASE StoreStep
  <2>1. seen' \in [Requests -> SUBSET Docs]
    BY <1>1, VisibleType DEF StoreStep, TypeOK
  <2> QED
    BY <1>1, <2>1, StoreStepType DEF StoreStep, TypeOK
<1>2. ASSUME NEW r \in Requests, Arrive(r) PROVE TypeOK'
  BY <1>2, ArriveStep DEF Arrive, TypeOK
<1>3. ASSUME NEW r \in Requests, RequestStep(r) PROVE TypeOK'
  <2>1. UNCHANGED <<now, store, seen>>
    BY <1>3 DEF RequestStep, Gate, SearchChannel, ToCandidate, MergeAssemble,
                Compose, GatewayReturn, GatewayError, CheckDocument,
                FetchContent, ListOne, ListDone
  <2>2. req' \in [Requests -> Request]
    BY <1>3, QuietSteps, CandidateStep, MergeStep, CheckStep DEF RequestStep, Quiet
  <2> QED
    BY <2>1, <2>2 DEF TypeOK
<1>4. CASE UNCHANGED vars
  BY <1>4 DEF vars, TypeOK
<1> QED
  BY <1>1, <1>2, <1>3, <1>4 DEF Next

(* The state stays well typed.                                             *)
THEOREM TypeCorrect == Spec => []TypeOK
BY InitType, StepType, PTL DEF Spec

-----------------------------------------------------------------------------
(* What is shown was visible.                                              *)

(* An ACL that lets the caller in now or later lets the caller in now: its *)
(* stamp is not from further in the future than freshness tolerates, and   *)
(* it only gets older.                                                     *)
LEMMA VisibleLater ==
  ASSUME TypeOK, StampsPast, NEW d \in Docs, NEW ctx,
         NEW t \in now .. MaxTime, EvaluateDocument(ctx, ResolveAcl(d), t)
  PROVE  d \in VisibleTo(ctx)
<1>1. store[d] # None /\ ResolveAcl(d) = store[d]
  <2>1. CASE store[d] = None
    BY <2>1 DEF ResolveAcl, Unresolved, EvaluateDocument, CheckFreshness
  <2> QED
    BY <2>1 DEF ResolveAcl
<1>2. store[d] \in Acl /\ store[d].synced \in Int
  BY <1>1 DEF TypeOK, Acl
<1>3. Staleness(store[d]) \in Int
  BY <1>2, AuthzAssumption DEF Staleness, Acl
<1>4. /\ now \in Int /\ t \in Int /\ now <= t
      /\ Skew \in Int /\ ClockSkewTolerance \in Int /\ Skew <= ClockSkewTolerance
  BY AclStoreAssumption, AuthzAssumption, QueryAssumption DEF TypeOK
<1>5. store[d].synced <= now + Skew
  BY <1>1 DEF StampsPast, AllDocumentIds
<1>6. t - store[d].synced <= Staleness(store[d])
  BY <1>1 DEF EvaluateDocument, CheckFreshness
<1>7. /\ now - store[d].synced >= -ClockSkewTolerance
      /\ now - store[d].synced <= Staleness(store[d])
  BY <1>2, <1>3, <1>4, <1>5, <1>6
<1>8. CheckFreshness(store[d], now)
  BY <1>1, <1>7 DEF EvaluateDocument, CheckFreshness
<1> QED
  BY <1>1, <1>8 DEF VisibleTo, AllDocumentIds, EvaluateDocument

LEMMA InitSeen == Init => SeenInv
<1> SUFFICES ASSUME Init PROVE SeenInv
  OBVIOUS
<1>1. now \in 0 .. MaxTime /\ Skew \in Nat
  BY AclStoreAssumption DEF Init, StoreInit
<1>2. StampsPast
  <2> SUFFICES ASSUME NEW d \in Docs, store[d] # None
               PROVE  store[d].synced <= now + Skew
    BY DEF StampsPast, AllDocumentIds
  <2>1. PICK p \in Policies, t \in Readings : store[d] = Stamped(p, t)
    BY DEF Init, StoreInit
  <2> QED
    BY <1>1, <2>1, ReadingsAre, AnAcl
<1>3. \A r \in Requests : /\ req[r].pc = "new" /\ req[r].cands = {}
                           /\ req[r].evidence = {} /\ req[r].docs = {}
  BY DEF Init, NotYet, Fresh
<1> QED
  BY <1>2, <1>3
     DEF SeenInv, SeenNow, CandidatesSeen, ShownWasVisible, DocsOf, Served

(* The part of the invariant that speaks of one request.                   *)
SeenFor(r) ==
  /\ Served(r) => VisibleTo(req[r].ctx) \subseteq seen[r]
  /\ \A x \in req[r].cands, t \in now .. MaxTime :
       EvaluateDocument(req[r].ctx, x.acl, t) => DocOf[x.chunk] \in seen[r]
  /\ DocsOf(req[r].evidence) \cup req[r].docs \subseteq seen[r]

LEMMA StoreSeen ==
  ASSUME TypeOK, SeenInv, StoreStep, NEW r \in Requests
  PROVE  SeenFor(r)'
<1>1. /\ now' \in Int /\ now \in Int /\ now <= now' /\ MaxTime \in Int
      /\ req' = req
  BY StoreStepType, AclStoreAssumption DEF StoreStep, TypeOK
<1>2. /\ seen[r] \subseteq seen'[r]
      /\ Served(r) => (VisibleTo(req[r].ctx))' \subseteq seen'[r]
  BY DEF StoreStep
<1>3. (Served(r) => VisibleTo(req[r].ctx) \subseteq seen[r])'
  BY <1>1, <1>2 DEF Served
<1>4. \A x \in req'[r].cands, t \in now' .. MaxTime :
        EvaluateDocument(req'[r].ctx, x.acl, t) => DocOf[x.chunk] \in seen'[r]
  <2> SUFFICES ASSUME NEW x \in req[r].cands, NEW t \in now' .. MaxTime,
                      EvaluateDocument(req[r].ctx, x.acl, t)
               PROVE  DocOf[x.chunk] \in seen'[r]
    BY <1>1
  <2>1. t \in now .. MaxTime
    BY <1>1
  <2> QED
    BY <1>2, <2>1 DEF SeenInv, CandidatesSeen
<1>5. (DocsOf(req[r].evidence) \cup req[r].docs \subseteq seen[r])'
  BY <1>1, <1>2 DEF SeenInv, ShownWasVisible, DocsOf
<1> QED
  BY <1>3, <1>4, <1>5 DEF SeenFor

LEMMA RequestSeen ==
  ASSUME TypeOK, SeenInv, NEW x \in Requests, RequestStep(x), NEW r \in Requests
  PROVE  SeenFor(r)'
<1>0. SeenFor(r)
  BY DEF SeenInv, SeenNow, CandidatesSeen, ShownWasVisible, SeenFor
<1>1. UNCHANGED <<now, store, seen>>
  BY DEF RequestStep, Gate, SearchChannel, ToCandidate, MergeAssemble,
         Compose, GatewayReturn, GatewayError, CheckDocument,
         FetchContent, ListOne, ListDone
<1>2. \A ctx : (VisibleTo(ctx))' = VisibleTo(ctx)
  BY <1>1 DEF VisibleTo, AllDocumentIds
<1>3. ASSUME /\ req'[r].ctx = req[r].ctx
             /\ req'[r].cands = req[r].cands
             /\ req'[r].evidence = req[r].evidence
             /\ req'[r].docs \subseteq seen[r]
             /\ Served(r)' => Served(r)
      PROVE  SeenFor(r)'
  BY <1>0, <1>1, <1>2, <1>3 DEF SeenFor, DocsOf
<1>4. req[r].docs \subseteq seen[r]
  BY <1>0 DEF SeenFor
<1>5. CASE Quiet(x)
  BY <1>3, <1>4, <1>5 DEF Quiet
<1>6. ASSUME NEW c \in Chunks, ToCandidate(x, c) PROVE SeenFor(r)'
  <2>1. CASE x # r
    BY <1>3, <1>4, <1>6, <2>1, CandidateStep
  <2>2. CASE x = r
    <3>1. ASSUME NEW t \in now .. MaxTime,
                 EvaluateDocument(req[r].ctx, ResolveAcl(DocOf[c]), t)
          PROVE  DocOf[c] \in seen[r]
      <4>1. DocOf[c] \in VisibleTo(req[r].ctx)
        BY <3>1, VisibleLater, QueryAssumption DEF SeenInv
      <4>2. Served(r)
        BY <1>6, <2>2, CandidateStep
      <4> QED
        BY <1>0, <4>1, <4>2 DEF SeenFor
    <3>2. \A y \in req'[r].cands, t \in now .. MaxTime :
            EvaluateDocument(req[r].ctx, y.acl, t) => DocOf[y.chunk] \in seen[r]
      <4>1. req'[r].cands =
              req[r].cands \cup {[chunk |-> c, acl |-> ResolveAcl(DocOf[c])]}
        BY <1>6, <2>2, CandidateStep
      <4> QED
        BY <1>0, <3>1, <4>1 DEF SeenFor
    <3>3. /\ req'[r].ctx = req[r].ctx /\ req'[r].evidence = req[r].evidence
          /\ req'[r].docs = req[r].docs /\ Served(r)
      BY <1>6, <2>2, CandidateStep
    <3> QED
      BY <1>0, <1>1, <1>2, <3>2, <3>3 DEF SeenFor, DocsOf
  <2> QED
    BY <2>1, <2>2
<1>7. CASE MergeAssemble(x)
  <2>1. CASE x # r
    BY <1>0, <1>1, <1>2, <1>7, <2>1, MergeStep DEF SeenFor, DocsOf, Served
  <2>2. CASE x = r
    <3>1. \A c \in Authorized(r) : DocOf[c] \in seen[r]
      <4>1. now \in now .. MaxTime
        BY AclStoreAssumption DEF TypeOK
      <4> QED
        BY <1>0, <4>1 DEF Authorized, SeenFor
    <3>2. /\ req'[r].ctx = req[r].ctx /\ req'[r].cands = {} /\ Served(r)
          /\ req'[r].docs = req[r].docs /\ req'[r].evidence \subseteq Authorized(r)
      BY <1>7, <2>2, MergeStep
    <3> QED
      BY <1>0, <1>1, <1>2, <3>1, <3>2 DEF SeenFor, DocsOf
  <2> QED
    BY <2>1, <2>2
<1>8. CASE CheckDocument(x) \/ \E d \in Docs : ListOne(x, d)
  <2>1. CASE x # r
    BY <1>3, <1>4, <1>8, <2>1, CheckStep
  <2>2. CASE x = r
    <3>1. VisibleTo(req[r].ctx) \subseteq seen[r]
      BY <1>0, <1>8, <2>2, CheckStep DEF SeenFor
    <3> QED
      BY <1>3, <1>4, <1>8, <2>2, <3>1, CheckStep
  <2> QED
    BY <2>1, <2>2
<1> QED
  BY <1>5, <1>6, <1>7, <1>8, QuietSteps DEF RequestStep

LEMMA StepSeen == TypeOK /\ SeenInv /\ [Next]_vars => SeenInv'
<1> SUFFICES ASSUME TypeOK, SeenInv, [Next]_vars PROVE SeenInv'
  OBVIOUS
<1>1. (\A r \in Requests : SeenFor(r)') => (SeenNow /\ CandidatesSeen /\ ShownWasVisible)'
  BY DEF SeenNow, CandidatesSeen, ShownWasVisible, SeenFor
<1>2. CASE StoreStep
  <2>1. StampsPast'
    BY <1>2, StoreStepType DEF StoreStep, TypeOK, SeenInv
  <2> QED
    BY <1>1, <1>2, <2>1, StoreSeen DEF SeenInv
<1>3. ASSUME UNCHANGED <<now, store>> PROVE StampsPast'
  BY <1>3 DEF SeenInv, StampsPast, AllDocumentIds
<1>4. ASSUME NEW x \in Requests, Arrive(x) PROVE SeenInv'
  <2>1. UNCHANGED <<now, store>>
    BY <1>4 DEF Arrive
  <2>2. ASSUME NEW r \in Requests PROVE SeenFor(r)'
    <3>1. \A ctx : (VisibleTo(ctx))' = VisibleTo(ctx)
      BY <2>1 DEF VisibleTo, AllDocumentIds
    <3>2. CASE x = r
      BY <1>4, <3>1, <3>2, ArriveStep DEF SeenFor, DocsOf
    <3>3. CASE x # r
      <4>1. SeenFor(r)
        BY DEF SeenInv, SeenNow, CandidatesSeen, ShownWasVisible, SeenFor
      <4>2. req'[r] = req[r] /\ seen'[r] = seen[r]
        BY <1>4, <3>3, ArriveStep
      <4> QED
        BY <2>1, <3>1, <4>1, <4>2 DEF SeenFor, DocsOf, Served
    <3> QED
      BY <3>2, <3>3
  <2> QED
    BY <1>1, <1>3, <2>1, <2>2 DEF SeenInv
<1>5. ASSUME NEW x \in Requests, RequestStep(x) PROVE SeenInv'
  <2>1. UNCHANGED <<now, store, seen>>
    BY <1>5 DEF RequestStep, Gate, SearchChannel, ToCandidate, MergeAssemble,
                Compose, GatewayReturn, GatewayError, CheckDocument,
                FetchContent, ListOne, ListDone
  <2> QED
    BY <1>1, <1>3, <1>5, <2>1, RequestSeen DEF SeenInv
<1>6. CASE UNCHANGED vars
  BY <1>6 DEF vars, SeenInv, StampsPast, SeenNow, CandidatesSeen, ShownWasVisible,
              AllDocumentIds, VisibleTo, Served, DocsOf
<1> QED
  BY <1>2, <1>4, <1>5, <1>6 DEF Next

(* Nothing is ranked, prompted, cited, listed or served that its caller    *)
(* was not entitled to see at some moment since the request arrived.       *)
THEOREM ShownOnlyVisible == Spec => []ShownWasVisible
<1>1. TypeOK /\ SeenInv /\ [Next]_vars => SeenInv'
  BY StepSeen
<1>2. SeenInv => ShownWasVisible
  BY DEF SeenInv
<1> QED
  BY <1>1, <1>2, InitSeen, TypeCorrect, PTL DEF Spec

-----------------------------------------------------------------------------
(* What a response may say.                                                *)

(* What is true of a request q at each of its stages.  Its evidence is     *)
(* current guidance; until it ends it has no outcome and cites nothing;    *)
(* what an earlier stage let through still holds at the later ones.        *)
StageFits(q) ==
  /\ \A c \in q.evidence : Weight[c] > 0
  /\ q.pc # "done" => q.outcome = "none" /\ q.cites = {}
  /\ q.pc \in {"fanout", "resolving", "compose", "gateway"} =>
       /\ q.ctx.verified /\ AuthorizeScope(q.ctx)
       /\ q.kind \in {"search", "answer"}
  /\ q.pc = "gateway" => q.kind = "answer" /\ q.evidence # {}
  /\ q.pc \in {"check", "fetch"} => q.ctx.verified
  /\ q.pc = "fetch" => q.docs # {}

(* AnswerGrounded, of one request.                                         *)
Grounded(q) ==
  /\ q.outcome = "answered" =>
       /\ q.cites # {}
       /\ \A c \in q.cites : c \in q.evidence /\ Weight[c] > 0
       /\ HasMaterialConflict(q.evidence) => q.disclosed
  /\ q.outcome # "answered" => q.cites = {}

(* A request that is over, of a caller who could see nothing.              *)
Blank(q, S) ==
  q.pc = "done" /\ S = {} => q.outcome = BlankOutcome(q.kind, q.ctx)

Answers(q, S) == StageFits(q) /\ Grounded(q) /\ Blank(q, S)

AnswerInv == \A r \in Requests : Answers(req[r], seen[r])

LEMMA OnlyOne ==
  ASSUME TypeOK, NEW r \in Requests, RequestStep(r)
  PROVE  \A x \in Requests : x # r => req'[x] = req[x]
<1>0. req \in [Requests -> Request]
  BY DEF TypeOK
<1>1. ASSUME Gate(r) \/ Compose(r) \/ FetchContent(r) \/ ListDone(r) \/ GatewayError(r)
      PROVE  \A x \in Requests : x # r => req'[x] = req[x]
  BY <1>0, <1>1 DEF Gate, Compose, FetchContent, ListDone, GatewayError, Respond
<1>2. ASSUME SearchChannel(r) \/ (\E c \in Chunks : ToCandidate(r, c))
      PROVE  \A x \in Requests : x # r => req'[x] = req[x]
  BY <1>0, <1>2 DEF SearchChannel, ToCandidate
<1>3. ASSUME GatewayReturn(r) PROVE \A x \in Requests : x # r => req'[x] = req[x]
  BY <1>0, <1>3 DEF GatewayReturn
<1>4. ASSUME CheckDocument(r) \/ (\E d \in Docs : ListOne(r, d))
      PROVE  \A x \in Requests : x # r => req'[x] = req[x]
  BY <1>0, <1>4 DEF CheckDocument, ListOne, Respond
<1> QED
  BY <1>1, <1>2, <1>3, <1>4, MergeStep DEF RequestStep

(* A request that ends without an answer keeps its evidence and cites      *)
(* nothing.                                                                *)
LEMMA EndsUnanswered ==
  ASSUME TypeOK, NEW r \in Requests, NEW o \in Outcomes \ {"answered"},
         Answers(req[r], seen[r]), req[r].pc # "done", Respond(r, o),
         seen[r] = {} => o = BlankOutcome(req[r].kind, req[r].ctx)
  PROVE  Answers(req'[r], seen[r])
<1>1. /\ req'[r].pc = "done" /\ req'[r].outcome = o /\ req'[r].cites = {}
      /\ req'[r].evidence = req[r].evidence
      /\ req'[r].kind = req[r].kind /\ req'[r].ctx = req[r].ctx
  BY DEF Respond, TypeOK, Request, Answers, StageFits
<1> QED
  BY <1>1 DEF Answers, StageFits, Grounded, Blank

(* A request that only moves on to a stage whose conditions hold.          *)
LEMMA MovesOn ==
  ASSUME NEW q, NEW q1, NEW S, Answers(q, S), q.pc # "done", q1.pc # "done",
         q1.outcome = q.outcome, q1.cites = q.cites, StageFits(q1)
  PROVE  Answers(q1, S)
BY DEF Answers, StageFits, Grounded, Blank

LEMMA RequestAnswers ==
  ASSUME TypeOK, ShownWasVisible, NEW r \in Requests, RequestStep(r),
         Answers(req[r], seen[r])
  PROVE  Answers(req'[r], seen[r])
<1> DEFINE q == req[r]
<1>0. req \in [Requests -> Request] /\ q \in Request
  BY DEF TypeOK
<1>1. seen[r] = {} => q.evidence = {} /\ q.docs = {}
  BY DEF ShownWasVisible, DocsOf
<1>2. CASE Gate(r)
  <2>1. CASE \E o \in Outcomes \ {"answered"} :
               Respond(r, o) /\ o = BlankOutcome(q.kind, q.ctx)
    BY <1>2, <2>1, EndsUnanswered DEF Gate
  <2>2. ASSUME NEW p \in {"fanout", "check"}, req' = [req EXCEPT ![r].pc = p],
               q.ctx.verified,
               p = "fanout" => AuthorizeScope(q.ctx) /\ q.kind \in {"search", "answer"}
        PROVE  Answers(req'[r], seen[r])
    <3>1. req'[r] = [q EXCEPT !.pc = p]
      BY <1>0, <2>2
    <3>2. /\ req'[r].pc = p /\ req'[r].outcome = q.outcome /\ req'[r].cites = q.cites
          /\ req'[r].evidence = q.evidence /\ req'[r].kind = q.kind
          /\ req'[r].ctx = q.ctx
      BY <1>0, <3>1 DEF Request
    <3>3. q.pc = "gate"
      BY <1>2 DEF Gate
    <3>4. StageFits(req'[r])
      BY <2>2, <3>2, <3>3 DEF StageFits, Answers
    <3> QED
      BY <2>2, <3>2, <3>3, <3>4, MovesOn
  <2>3. CASE ~q.ctx.verified
    <3>1. Respond(r, "forbidden") /\ "forbidden" = BlankOutcome(q.kind, q.ctx)
      BY <1>2, <2>3 DEF Gate, BlankOutcome
    <3> QED
      BY <2>1, <3>1 DEF Outcomes
  <2>4. CASE q.ctx.verified /\ q.kind \in {"content", "list"}
    BY <1>2, <2>2, <2>4 DEF Gate
  <2>5. CASE q.ctx.verified /\ q.kind \notin {"content", "list"}
    <3>1. q.kind \in {"search", "answer"}
      BY <1>0, <2>5 DEF Request, Kinds
    <3>2. CASE AuthorizeScope(q.ctx)
      BY <1>2, <2>2, <2>5, <3>1, <3>2 DEF Gate
    <3>3. CASE ~AuthorizeScope(q.ctx) /\ q.kind = "search"
      <4>1. Respond(r, "forbidden") /\ "forbidden" = BlankOutcome(q.kind, q.ctx)
        BY <1>2, <2>5, <3>3 DEF Gate, BlankOutcome
      <4> QED
        BY <2>1, <4>1 DEF Outcomes
    <3>4. CASE ~AuthorizeScope(q.ctx) /\ q.kind = "answer"
      <4>1. /\ Respond(r, "unauthorized_scope")
            /\ "unauthorized_scope" = BlankOutcome(q.kind, q.ctx)
        BY <1>2, <2>5, <3>4 DEF Gate, BlankOutcome
      <4> QED
        BY <2>1, <4>1 DEF Outcomes
    <3> QED
      BY <3>1, <3>2, <3>3, <3>4
  <2> QED
    BY <2>3, <2>4, <2>5
<1>3. ASSUME /\ q.pc \in {"fanout", "resolving"}
             /\ req'[r].pc \in {"fanout", "resolving"}
             /\ req'[r].outcome = q.outcome /\ req'[r].cites = q.cites
             /\ req'[r].evidence = q.evidence /\ req'[r].kind = q.kind
             /\ req'[r].ctx = q.ctx
      PROVE  Answers(req'[r], seen[r])
  <2>1. StageFits(req'[r])
    BY <1>3 DEF StageFits, Answers
  <2> QED
    BY <1>3, <2>1, MovesOn
<1>4. CASE SearchChannel(r)
  <2>1. PICK H \in SUBSET Chunks :
          req'[r] = [q EXCEPT !.pc = IF H = {} THEN "fanout" ELSE "resolving",
                              !.chan = q.chan + 1, !.hits = H]
    BY <1>0, <1>4 DEF SearchChannel
  <2> QED
    BY <1>0, <1>3, <1>4, <2>1 DEF SearchChannel, Request
<1>5. ASSUME NEW c \in Chunks, ToCandidate(r, c) PROVE Answers(req'[r], seen[r])
  <2>1. PICK C : req'[r] = [q EXCEPT
                   !.pc = IF q.hits = {c} THEN "fanout" ELSE "resolving",
                   !.hits = q.hits \ {c}, !.cands = C]
    BY <1>0, <1>5 DEF ToCandidate
  <2> QED
    BY <1>0, <1>3, <1>5, <2>1 DEF ToCandidate, Request
<1>6. CASE MergeAssemble(r)
  <2>1. PICK E \in SUBSET Authorized(r) :
          req'[r] = [q EXCEPT !.pc = "compose", !.evidence = E, !.cands = {}]
    BY <1>0, <1>6 DEF MergeAssemble
  <2>2. /\ req'[r].pc = "compose" /\ req'[r].outcome = q.outcome
        /\ req'[r].cites = q.cites /\ req'[r].evidence = E
        /\ req'[r].kind = q.kind /\ req'[r].ctx = q.ctx
    BY <1>0, <2>1 DEF Request
  <2>3. \A c \in E : Weight[c] > 0
    BY <2>1 DEF Authorized
  <2>4. q.pc = "fanout"
    BY <1>6 DEF MergeAssemble
  <2>5. StageFits(req'[r])
    BY <2>2, <2>3, <2>4 DEF StageFits, Answers
  <2> QED
    BY <2>2, <2>4, <2>5, MovesOn
<1>7. CASE Compose(r)
  <2>1. q.pc = "compose" /\ q.ctx.verified /\ AuthorizeScope(q.ctx)
        /\ q.kind \in {"search", "answer"}
    BY <1>7 DEF Compose, Answers, StageFits
  <2>2. CASE q.kind = "search"
    <3>1. Respond(r, "results") /\ "results" = BlankOutcome(q.kind, q.ctx)
      BY <1>7, <2>1, <2>2 DEF Compose, BlankOutcome
    <3> QED
      BY <2>1, <3>1, EndsUnanswered DEF Outcomes
  <2>3. CASE q.kind = "answer" /\ q.evidence = {}
    <3>1. Respond(r, "insufficient") /\ "insufficient" = BlankOutcome(q.kind, q.ctx)
      BY <1>7, <2>1, <2>3 DEF Compose, BlankOutcome
    <3> QED
      BY <2>1, <3>1, EndsUnanswered DEF Outcomes
  <2>4. CASE q.kind = "answer" /\ q.evidence # {}
    <3>1. req'[r] = [q EXCEPT !.pc = "gateway"]
      BY <1>0, <1>7, <2>4 DEF Compose
    <3>2. /\ req'[r].pc = "gateway" /\ req'[r].outcome = q.outcome
          /\ req'[r].cites = q.cites /\ req'[r].evidence = q.evidence
          /\ req'[r].kind = q.kind /\ req'[r].ctx = q.ctx
      BY <1>0, <3>1 DEF Request
    <3>3. StageFits(req'[r])
      BY <2>1, <2>4, <3>2 DEF StageFits, Answers
    <3> QED
      BY <2>1, <3>2, <3>3, MovesOn
  <2> QED
    BY <2>1, <2>2, <2>3, <2>4
<1>8. CASE GatewayReturn(r)
  <2>1. PICK C \in SUBSET Chunks, disc \in BOOLEAN :
          req' = [req EXCEPT
            ![r].pc = "done",
            ![r].outcome = DraftOutcome(C, Violations(C, disc, q.evidence)),
            ![r].cites = IF Violations(C, disc, q.evidence) = {} THEN C ELSE {},
            ![r].disclosed = disc /\ Violations(C, disc, q.evidence) = {}]
    BY <1>8, Zenon DEF GatewayReturn
  <2> DEFINE V == Violations(C, disc, q.evidence)
  <2>2. V = {} => \/ C = {}
                  \/ C \subseteq q.evidence /\ (HasMaterialConflict(q.evidence) => disc)
    BY DEF Violations
  <2>3. /\ DraftOutcome(C, V) = "answered" => V = {} /\ C # {}
        /\ DraftOutcome(C, V) # "answered" => V # {} \/ C = {}
    BY DEF DraftOutcome
  <2> HIDE DEF V
  <2>4. /\ req'[r].pc = "done" /\ req'[r].outcome = DraftOutcome(C, V)
        /\ req'[r].cites = (IF V = {} THEN C ELSE {})
        /\ req'[r].disclosed = (disc /\ V = {})
        /\ req'[r].evidence = q.evidence
    <3>1. req'[r] = [q EXCEPT !.pc = "done", !.outcome = DraftOutcome(C, V),
                              !.cites = IF V = {} THEN C ELSE {},
                              !.disclosed = disc /\ V = {}]
      BY <1>0, <2>1 DEF V
    <3> QED
      BY <1>0, <3>1 DEF Request
  <2>5. \A c \in q.evidence : Weight[c] > 0
    BY DEF Answers, StageFits
  <2>6. seen[r] # {}
    BY <1>1, <1>8 DEF GatewayReturn, Answers, StageFits
  <2>7. Grounded(req'[r])
    BY <2>2, <2>3, <2>4, <2>5 DEF Grounded
  <2> QED
    BY <2>4, <2>5, <2>6, <2>7 DEF Answers, StageFits, Blank
<1>9. CASE GatewayError(r)
  <2>1. seen[r] # {} /\ q.pc = "gateway" /\ Respond(r, "unavailable")
    BY <1>1, <1>9 DEF GatewayError, Answers, StageFits
  <2> QED
    BY <2>1, EndsUnanswered DEF Outcomes
<1>10. CASE CheckDocument(r)
  <2>1. q.pc = "check" /\ q.kind = "content" /\ q.ctx.verified
    BY <1>10 DEF CheckDocument, Answers, StageFits
  <2>2. CASE Respond(r, "not_found")
    <3>1. "not_found" = BlankOutcome(q.kind, q.ctx)
      BY <2>1 DEF BlankOutcome
    <3> QED
      BY <2>1, <2>2, <3>1, EndsUnanswered DEF Outcomes
  <2>3. ASSUME NEW d \in Docs, req' = [req EXCEPT ![r].pc = "fetch", ![r].docs = {d}]
        PROVE  Answers(req'[r], seen[r])
    <3>1. req'[r] = [q EXCEPT !.pc = "fetch", !.docs = {d}]
      BY <1>0, <2>3
    <3>2. /\ req'[r].pc = "fetch" /\ req'[r].docs = {d}
          /\ req'[r].outcome = q.outcome /\ req'[r].cites = q.cites
          /\ req'[r].evidence = q.evidence /\ req'[r].ctx = q.ctx
      BY <1>0, <3>1 DEF Request
    <3>3. StageFits(req'[r])
      BY <2>1, <3>2 DEF StageFits, Answers
    <3> QED
      BY <2>1, <3>2, <3>3, MovesOn
  <2>4. q.todo \subseteq Docs
    BY <1>0 DEF Request
  <2> QED
    BY <1>10, <2>2, <2>3, <2>4 DEF CheckDocument
<1>11. CASE FetchContent(r)
  <2>1. seen[r] # {} /\ q.pc = "fetch" /\ (Respond(r, "content") \/ Respond(r, "error"))
    BY <1>1, <1>11 DEF FetchContent, Answers, StageFits
  <2> QED
    BY <2>1, EndsUnanswered DEF Outcomes
<1>12. ASSUME NEW d \in Docs, ListOne(r, d) PROVE Answers(req'[r], seen[r])
  <2>1. PICK D : req'[r] = [q EXCEPT !.todo = q.todo \ {d}, !.docs = D]
    BY <1>0, <1>12 DEF ListOne
  <2>2. /\ req'[r].pc = "check" /\ q.pc = "check"
        /\ req'[r].outcome = q.outcome /\ req'[r].cites = q.cites
        /\ req'[r].evidence = q.evidence /\ req'[r].ctx = q.ctx
    BY <1>0, <1>12, <2>1 DEF ListOne, Request
  <2>3. StageFits(req'[r])
    BY <2>2 DEF StageFits, Answers
  <2> QED
    BY <2>2, <2>3, MovesOn
<1>13. CASE ListDone(r)
  <2>1. q.pc = "check" /\ q.kind = "list" /\ q.ctx.verified /\ Respond(r, "documents")
    BY <1>13 DEF ListDone, Answers, StageFits
  <2>2. "documents" = BlankOutcome(q.kind, q.ctx)
    BY <2>1 DEF BlankOutcome
  <2> QED
    BY <2>1, <2>2, EndsUnanswered DEF Outcomes
<1> QED
  BY <1>2, <1>4, <1>5, <1>6, <1>7, <1>8, <1>9, <1>10, <1>11, <1>12, <1>13
     DEF RequestStep

LEMMA InitAnswers == Init => AnswerInv
BY DEF Init, NotYet, Fresh, AnswerInv, Answers, StageFits, Grounded, Blank

LEMMA StepAnswers ==
  TypeOK /\ ShownWasVisible /\ AnswerInv /\ [Next]_vars => AnswerInv'
<1> SUFFICES ASSUME TypeOK, ShownWasVisible, AnswerInv, [Next]_vars,
                    NEW x \in Requests
             PROVE  Answers(req'[x], seen'[x])
  BY DEF AnswerInv
<1>0. Answers(req[x], seen[x])
  BY DEF AnswerInv
<1>1. CASE StoreStep
  <2>1. req' = req /\ (req[x].pc = "done" => seen'[x] = seen[x])
    BY <1>1 DEF StoreStep, Served
  <2> QED
    BY <1>0, <2>1 DEF Answers, Blank
<1>2. ASSUME NEW r \in Requests, Arrive(r) PROVE Answers(req'[x], seen'[x])
  <2>1. CASE x # r
    BY <1>0, <1>2, <2>1, ArriveStep
  <2>2. CASE x = r
    <3>1. PICK k \in Kinds, ctx \in Callers :
            \E D \in ToCheck(k) : req' = [req EXCEPT ![r] = Fresh("gate", k, ctx, D)]
      BY <1>2 DEF Arrive
    <3>2. PICK D \in ToCheck(k) : req'[r] = Fresh("gate", k, ctx, D)
      BY <3>1 DEF TypeOK
    <3> QED
      BY <2>2, <3>2 DEF Fresh, Answers, StageFits, Grounded, Blank
  <2> QED
    BY <2>1, <2>2
<1>3. ASSUME NEW r \in Requests, RequestStep(r) PROVE Answers(req'[x], seen'[x])
  <2>1. seen' = seen
    BY <1>3 DEF RequestStep, Gate, SearchChannel, ToCandidate, MergeAssemble,
                Compose, GatewayReturn, GatewayError, CheckDocument,
                FetchContent, ListOne, ListDone
  <2>2. CASE x # r
    BY <1>0, <1>3, <2>1, <2>2, OnlyOne
  <2>3. CASE x = r
    BY <1>0, <1>3, <2>1, <2>3, RequestAnswers
  <2> QED
    BY <2>2, <2>3
<1>4. CASE UNCHANGED vars
  BY <1>0, <1>4 DEF vars
<1> QED
  BY <1>1, <1>2, <1>3, <1>4 DEF Next

LEMMA AlwaysAnswers == Spec => []AnswerInv
BY InitAnswers, StepAnswers, TypeCorrect, ShownOnlyVisible, PTL DEF Spec

(* An answer that reaches the user cites only current guidance that was in *)
(* its prompt, discloses a conflict the evidence holds within a family,    *)
(* and no rejected draft leaves a trace, whatever the gateway writes.      *)
THEOREM AnswersGrounded == Spec => []AnswerGrounded
<1>1. AnswerInv => AnswerGrounded
  BY DEF AnswerInv, Answers, Grounded, AnswerGrounded
<1> QED
  BY <1>1, AlwaysAnswers, PTL

(* A caller who could see nothing gets the response of a system without    *)
(* documents, whatever is in the store, the indexes and the uploads.       *)
THEOREM NothingGivenAway == Spec => []NoExistenceLeak
<1>1. AnswerInv /\ ShownWasVisible => NoExistenceLeak
  <2> SUFFICES ASSUME AnswerInv, ShownWasVisible, NEW r \in Requests, seen[r] = {}
               PROVE  /\ req[r].pc \notin {"gateway", "fetch"}
                      /\ req[r].pc = "done" =>
                           req[r].outcome = BlankOutcome(req[r].kind, req[r].ctx)
    BY DEF NoExistenceLeak
  <2>1. req[r].evidence = {} /\ req[r].docs = {}
    BY DEF ShownWasVisible, DocsOf
  <2> QED
    BY <2>1 DEF AnswerInv, Answers, StageFits, Blank
<1> QED
  BY <1>1, AlwaysAnswers, ShownOnlyVisible, PTL

-----------------------------------------------------------------------------
(* What assemble keeps.                                                    *)

(* Among sets of elements of a finite set, one has no other below it: how  *)
(* what follows argues about finite sets without induction.                *)
LEMMA SmallestSubset ==
  ASSUME NEW S, IsFiniteSet(S), NEW B \in SUBSET (SUBSET S), B # {}
  PROVE  \E T \in B : \A U \in SUBSET T : U # T => U \notin B
<1>1. B \subseteq FiniteSubsetsOf(S)
  BY FS_FiniteSubsetsOfFinite
<1>2. PICK T \in B : \A U \in B : ~ (<<U, T>> \in StrictSubsetOrdering(S))
  BY <1>1, WFMin, FS_StrictSubsetOrderingWellFounded
<1>3. ASSUME NEW U \in SUBSET T, U # T, U \in B PROVE FALSE
  BY <1>2, <1>3 DEF StrictSubsetOrdering
<1> QED
  BY <1>3

(* A finite set has a last element, whatever numbers its elements: of the  *)
(* sets of what comes after an element, one is smallest.                   *)
LEMMA LastElement ==
  ASSUME NEW S, IsFiniteSet(S), S # {}, NEW f, \A x \in S : f[x] \in Int
  PROVE  \E m \in S : \A x \in S : f[x] <= f[m]
<1> DEFINE After(e) == {x \in S : f[x] > f[e]}
           Tails == {After(e) : e \in S}
<1>1. Tails \in SUBSET (SUBSET S) /\ Tails # {}
  OBVIOUS
<1>2. PICK T \in Tails : \A U \in SUBSET T : U # T => U \notin Tails
  <2> HIDE DEF Tails
  <2> QED
    BY <1>1, SmallestSubset
<1>3. PICK m \in S : T = After(m)
  OBVIOUS
<1>4. ASSUME NEW x \in S, f[x] > f[m] PROVE FALSE
  <2>1. After(x) \subseteq After(m) /\ x \in After(m) /\ x \notin After(x)
    BY <1>4
  <2>2. After(x) \in Tails
    OBVIOUS
  <2> HIDE DEF After, Tails
  <2> QED
    BY <1>2, <1>3, <2>1, <2>2
<1> QED
  BY <1>4

(* A set of which each element has fewer than cap before it has at most    *)
(* cap elements.                                                           *)
LEMMA CapHolds ==
  ASSUME NEW S, IsFiniteSet(S), NEW cap \in Nat, NEW f,
         \A x \in S : f[x] \in Int,
         \A x, y \in S : f[x] = f[y] => x = y,
         \A e \in S : Cardinality({x \in S : f[x] < f[e]}) < cap
  PROVE  Cardinality(S) <= cap
<1>1. CASE S = {}
  BY <1>1, FS_EmptySet
<1>2. CASE S # {}
  <2>1. PICK m \in S : \A x \in S : f[x] <= f[m]
    BY <1>2, LastElement
  <2>2. {x \in S : f[x] < f[m]} = S \ {m}
    BY <2>1
  <2>3. Cardinality(S \ {m}) < cap
    BY <2>2
  <2>4. Cardinality(S \ {m}) = Cardinality(S) - 1 /\ Cardinality(S) \in Nat
    BY FS_RemoveElement, FS_CardinalityType
  <2> QED
    BY <2>3, <2>4
<1> QED
  BY <1>1, <1>2

(* What the caps cut off is never better than what they keep.              *)
LEMMA AssembledBest ==
  ASSUME NEW A \in SUBSET Chunks, NEW f \in Rankings(A), NEW E \in SUBSET A,
         Assembled(A, f, E)
  PROVE  /\ Cardinality(E) <= MaxEvidence
         /\ \A d : Cardinality({e \in E : DocOf[e] = d}) <= MaxPerDocument
         /\ \A c \in A \ E :
              \/ /\ Cardinality(E) = MaxEvidence
                 /\ \A e \in E : Weight[e] >= Weight[c]
              \/ /\ Cardinality({e \in E : DocOf[e] = DocOf[c]}) = MaxPerDocument
                 /\ \A e \in E : DocOf[e] = DocOf[c] => Weight[e] >= Weight[c]
<1> DEFINE Better(c) == {e \in E : f[e] < f[c]}
           OfDoc(d) == {e \in E : DocOf[e] = d}
           BetterOfDoc(c) == {e \in Better(c) : DocOf[e] = DocOf[c]}
<1>1. /\ IsFiniteSet(A) /\ Cardinality(A) \in Nat
      /\ MaxEvidence \in Nat /\ MaxPerDocument \in Nat /\ Weight \in [Chunks -> Nat]
  BY QueryAssumption, FS_Subset, FS_CardinalityType
<1>2. /\ \A a \in A : f[a] \in Int
      /\ \A a, b \in A : f[a] = f[b] => a = b
      /\ \A a, b \in A : f[a] < f[b] => Weight[a] >= Weight[b]
  <2>1. f \in [A -> 1 .. Cardinality(A)]
    BY DEF Rankings
  <2>2. \A a \in A : f[a] \in Int
    BY <1>1, <2>1
  <2>3. \A a, b \in A : (f[a] = f[b] => a = b) /\ (Weight[a] > Weight[b] => f[a] < f[b])
    BY DEF Rankings
  <2>4. \A a \in A : Weight[a] \in Nat
    BY <1>1
  <2> QED
    BY <2>2, <2>3, <2>4
<1>3. /\ IsFiniteSet(E) /\ Cardinality(E) \in Nat
      /\ \A d : /\ OfDoc(d) \in SUBSET E
               /\ IsFiniteSet(OfDoc(d)) /\ Cardinality(OfDoc(d)) \in Nat
  <2>1. IsFiniteSet(E)
    BY <1>1, FS_Subset
  <2>2. \A d : OfDoc(d) \in SUBSET E
    OBVIOUS
  <2> HIDE DEF OfDoc
  <2> QED
    BY <2>1, <2>2, FS_Subset, FS_CardinalityType
<1>4. \A c \in A : c \in E <=> /\ Cardinality(Better(c)) < MaxEvidence
                             /\ Cardinality(BetterOfDoc(c)) < MaxPerDocument
  BY DEF Assembled
<1>5. \A c \in A : BetterOfDoc(c) = {e \in OfDoc(DocOf[c]) : f[e] < f[c]}
  OBVIOUS
<1>6. Cardinality(E) <= MaxEvidence
  <2>1. \A x \in E : x \in A
    OBVIOUS
  <2>2. \A e \in E : Cardinality({x \in E : f[x] < f[e]}) < MaxEvidence
    BY <1>4, <2>1
  <2> QED
    BY <1>1, <1>2, <1>3, <2>1, <2>2, CapHolds
<1>7. ASSUME NEW d PROVE Cardinality(OfDoc(d)) <= MaxPerDocument
  <2>1. \A e \in OfDoc(d) : Cardinality({x \in OfDoc(d) : f[x] < f[e]}) < MaxPerDocument
    <3> SUFFICES ASSUME NEW e \in OfDoc(d)
                 PROVE  Cardinality({x \in OfDoc(d) : f[x] < f[e]}) < MaxPerDocument
      OBVIOUS
    <3>1. e \in E /\ DocOf[e] = d
      OBVIOUS
    <3>2. BetterOfDoc(e) = {x \in OfDoc(d) : f[x] < f[e]}
      BY <3>1
    <3> QED
      BY <1>4, <3>1, <3>2
  <2>2. \A x \in OfDoc(d) : x \in A
    OBVIOUS
  <2> HIDE DEF OfDoc
  <2> QED
    BY <1>1, <1>2, <1>3, <2>1, <2>2, CapHolds
<1>8. ASSUME NEW c \in A \ E, Cardinality(Better(c)) >= MaxEvidence
      PROVE  Cardinality(E) = MaxEvidence /\ \A e \in E : Weight[e] >= Weight[c]
  <2>1. Better(c) \in SUBSET E
    OBVIOUS
  <2>2. /\ Cardinality(Better(c)) <= Cardinality(E) /\ Cardinality(Better(c)) \in Nat
        /\ Cardinality(E) = Cardinality(Better(c)) => E = Better(c)
    BY <1>3, <2>1, FS_Subset, FS_CardinalityType
  <2>3. Cardinality(E) = MaxEvidence /\ E = Better(c)
    BY <1>1, <1>3, <1>6, <1>8, <2>2
  <2>4. \A e \in E : f[e] < f[c]
    BY <2>3
  <2> QED
    BY <1>2, <2>3, <2>4
<1>9. ASSUME NEW c \in A \ E, Cardinality(BetterOfDoc(c)) >= MaxPerDocument
      PROVE  /\ Cardinality(OfDoc(DocOf[c])) = MaxPerDocument
             /\ \A e \in OfDoc(DocOf[c]) : Weight[e] >= Weight[c]
  <2> DEFINE O == OfDoc(DocOf[c])
             B == BetterOfDoc(c)
  <2>1. B \in SUBSET O /\ O \in SUBSET A /\ \A e \in B : f[e] < f[c]
    OBVIOUS
  <2>2. IsFiniteSet(O) /\ Cardinality(O) \in Nat /\ Cardinality(O) <= MaxPerDocument
    BY <1>3, <1>7
  <2>3. Cardinality(B) >= MaxPerDocument
    BY <1>9
  <2> HIDE DEF O, B
  <2>4. /\ Cardinality(B) <= Cardinality(O) /\ Cardinality(B) \in Nat
        /\ Cardinality(O) = Cardinality(B) => O = B
    BY <2>1, <2>2, FS_Subset, FS_CardinalityType
  <2>5. Cardinality(O) = MaxPerDocument /\ O = B
    BY <1>1, <2>2, <2>3, <2>4
  <2>6. \A e \in O : Weight[e] >= Weight[c]
    BY <1>2, <2>1, <2>5
  <2> QED
    BY <2>5, <2>6 DEF O
<1>10. \A c \in A \ E : /\ Cardinality(Better(c)) \in Nat
                        /\ Cardinality(BetterOfDoc(c)) \in Nat
  <2>1. \A c \in A \ E : Better(c) \in SUBSET E /\ BetterOfDoc(c) \in SUBSET E
    OBVIOUS
  <2> HIDE DEF Better, BetterOfDoc
  <2> QED
    BY <1>3, <2>1, FS_Subset, FS_CardinalityType
<1>11. ASSUME NEW c \in A \ E
       PROVE  \/ Cardinality(Better(c)) >= MaxEvidence
              \/ Cardinality(BetterOfDoc(c)) >= MaxPerDocument
  <2> HIDE DEF Better, BetterOfDoc
  <2> QED
    BY <1>1, <1>4, <1>10
<1> QED
  BY <1>6, <1>7, <1>8, <1>9, <1>11

(* Every set of chunks can be ranked: the one of least weight last.        *)
LEMMA RankingExists ==
  ASSUME NEW A \in SUBSET Chunks
  PROVE  Rankings(A) # {}
<1> DEFINE Bad == {T \in SUBSET Chunks : Rankings(T) = {}}
<1>1. SUFFICES ASSUME Bad # {} PROVE FALSE
  OBVIOUS
<1>2. PICK T \in Bad : \A U \in SUBSET T : U # T => U \notin Bad
  <2>1. Bad \in SUBSET (SUBSET Chunks)
    OBVIOUS
  <2> HIDE DEF Bad
  <2> QED
    BY <1>1, <2>1, QueryAssumption, SmallestSubset
<1>3. /\ T \in SUBSET Chunks /\ IsFiniteSet(T) /\ Cardinality(T) \in Nat
      /\ \A x \in T : Weight[x] \in Nat
  BY QueryAssumption, FS_Subset, FS_CardinalityType
<1>4. CASE T = {}
  <2>1. [x \in {} |-> 1] \in Rankings({})
    BY DEF Rankings
  <2> QED
    BY <1>4, <2>1
<1>5. CASE T # {}
  <2> DEFINE g == [x \in T |-> -Weight[x]]
  <2>1. \A x \in T : g[x] \in Int /\ g[x] = -Weight[x]
    BY <1>3
  <2>2. PICK m \in T : \A x \in T : g[x] <= g[m]
    <3> HIDE DEF g
    <3> QED
      BY <1>3, <1>5, <2>1, LastElement
  <2>3. \A x \in T : Weight[m] <= Weight[x]
    BY <1>3, <2>1, <2>2
  <2> DEFINE R == T \ {m}
             n == Cardinality(T)
  <2>4. R # T /\ R \in SUBSET T
    OBVIOUS
  <2>5. PICK h \in Rankings(R) : TRUE
    BY <1>2, <1>3, <2>4
  <2>6. Cardinality(R) = n - 1 /\ n - 1 \in Nat
    BY <1>3, FS_RemoveElement, FS_Subset, FS_CardinalityType
  <2>7. /\ \A x \in R : h[x] \in 1 .. (n - 1)
        /\ \A a, b \in R : (h[a] = h[b] => a = b) /\ (Weight[a] > Weight[b] => h[a] < h[b])
    BY <2>6 DEF Rankings
  <2> DEFINE k == [x \in T |-> IF x = m THEN n ELSE h[x]]
  <2>8. k \in [T -> 1 .. n]
    <3>1. n \in 1 .. n
      BY <1>3, <2>6
    <3>2. \A x \in R : h[x] \in 1 .. n
      BY <1>3, <2>7
    <3> HIDE DEF n
    <3> QED
      BY <3>1, <3>2
  <2>9. \A a, b \in T : (k[a] = k[b] => a = b) /\ (Weight[a] > Weight[b] => k[a] < k[b])
    <3> SUFFICES ASSUME NEW a \in T, NEW b \in T
                 PROVE  (k[a] = k[b] => a = b) /\ (Weight[a] > Weight[b] => k[a] < k[b])
      OBVIOUS
    <3>1. n \in Nat /\ \A x \in R : h[x] \in Int /\ h[x] < n
      BY <1>3, <2>7
    <3>2. k[m] = n /\ \A x \in R : k[x] = h[x]
      OBVIOUS
    <3>3. Weight[a] \in Nat /\ Weight[b] \in Nat /\ Weight[m] \in Nat
      BY <1>3
    <3> HIDE DEF k, n
    <3>4. CASE a = m
      BY <2>3, <3>1, <3>2, <3>3, <3>4
    <3>5. CASE b = m /\ a # m
      BY <3>1, <3>2, <3>5
    <3>6. CASE a # m /\ b # m
      BY <2>7, <3>2, <3>6
    <3> QED
      BY <3>4, <3>5, <3>6
  <2>10. k \in Rankings(T)
    BY <2>8, <2>9 DEF Rankings
  <2> QED
    BY <2>10
<1> QED
  BY <1>4, <1>5

LEMMA RanksAre ==
  ASSUME NEW A \in SUBSET Chunks, NEW f \in Rankings(A)
  PROVE  /\ IsFiniteSet(A)
         /\ \A a \in A : f[a] \in Int
         /\ \A a, b \in A : f[a] = f[b] => a = b
<1>1. IsFiniteSet(A) /\ Cardinality(A) \in Nat
  BY QueryAssumption, FS_Subset, FS_CardinalityType
<1> QED
  BY <1>1 DEF Rankings

(* The loop of assemble has a result: what it keeps of all but the last    *)
(* chunk, and the last one if the caps allow.                              *)
LEMMA AssembledExists ==
  ASSUME NEW A \in SUBSET Chunks, NEW f \in Rankings(A)
  PROVE  \E E \in SUBSET A : Assembled(A, f, E)
<1> DEFINE Bad == {T \in SUBSET A : \A E \in SUBSET T : ~Assembled(T, f, E)}
<1>0. /\ IsFiniteSet(A) /\ \A a \in A : f[a] \in Int
      /\ \A a, b \in A : f[a] = f[b] => a = b
  BY RanksAre
<1>1. SUFFICES ASSUME Bad # {} PROVE FALSE
  OBVIOUS
<1>2. PICK T \in Bad : \A U \in SUBSET T : U # T => U \notin Bad
  <2>1. Bad \in SUBSET (SUBSET A)
    OBVIOUS
  <2> HIDE DEF Bad
  <2> QED
    BY <1>0, <1>1, <2>1, SmallestSubset
<1>3. T \in SUBSET A /\ IsFiniteSet(T) /\ \A E \in SUBSET T : ~Assembled(T, f, E)
  BY <1>0, FS_Subset
<1>4. T # {}
  <2>1. Assembled({}, f, {})
    BY DEF Assembled
  <2> QED
    BY <1>3, <2>1
<1>5. PICK m \in T : \A x \in T : f[x] <= f[m]
  BY <1>0, <1>3, <1>4, LastElement
<1> DEFINE R == T \ {m}
<1>6. PICK G \in SUBSET R : Assembled(R, f, G)
  <2>1. R # T /\ R \in SUBSET T /\ R \in SUBSET A
    BY <1>3
  <2> QED
    BY <1>2, <2>1
<1>7. \A x \in R : f[x] < f[m] /\ ~(f[m] < f[x])
  BY <1>0, <1>3, <1>5
<1> DEFINE Fits == /\ Cardinality(G) < MaxEvidence
                   /\ Cardinality({e \in G : DocOf[e] = DocOf[m]}) < MaxPerDocument
           E == IF Fits THEN G \cup {m} ELSE G
           Better(c) == {e \in E : f[e] < f[c]}
<1>8. \A c \in R : Better(c) = {e \in G : f[e] < f[c]} /\ (c \in E <=> c \in G)
  BY <1>7
<1>9. Better(m) = G /\ (m \in E <=> Fits)
  <2>1. \A e \in G : f[e] < f[m]
    BY <1>7
  <2>2. ~(f[m] < f[m]) /\ m \notin G
    BY <1>0, <1>3
  <2> HIDE DEF Fits
  <2> QED
    BY <2>1, <2>2
<1>10. E \in SUBSET T
  OBVIOUS
<1>11. Assembled(T, f, E)
  <2> SUFFICES ASSUME NEW c \in T
               PROVE  c \in E <=>
                        /\ Cardinality(Better(c)) < MaxEvidence
                        /\ Cardinality({e \in Better(c) : DocOf[e] = DocOf[c]})
                             < MaxPerDocument
    BY DEF Assembled
  <2>1. CASE c = m
    <3> HIDE DEF E, Better
    <3> QED
      BY <1>9, <2>1
  <2>2. CASE c # m
    <3>1. c \in R
      BY <2>2
    <3>2. Better(c) = {e \in G : f[e] < f[c]} /\ (c \in E <=> c \in G)
      BY <1>8, <3>1
    <3> HIDE DEF E, Better
    <3> QED
      BY <1>6, <3>1, <3>2 DEF Assembled
  <2> QED
    BY <2>1, <2>2
<1> QED
  BY <1>3, <1>10, <1>11

(* And only one: two results would differ first at some chunk, with the    *)
(* same chunks before it.                                                  *)
LEMMA AssembledUnique ==
  ASSUME NEW A \in SUBSET Chunks, NEW f \in Rankings(A),
         NEW E \in SUBSET A, NEW F \in SUBSET A,
         Assembled(A, f, E), Assembled(A, f, F)
  PROVE  E = F
<1> DEFINE D == (E \ F) \cup (F \ E)
<1>1. SUFFICES ASSUME D # {} PROVE FALSE
  OBVIOUS
<1>2. IsFiniteSet(D) /\ D \in SUBSET A /\ \A a \in A : f[a] \in Int
  <2>1. D \in SUBSET A
    OBVIOUS
  <2> HIDE DEF D
  <2> QED
    BY <2>1, RanksAre, FS_Subset
<1> DEFINE g == [x \in D |-> -f[x]]
<1>3. \A x \in D : g[x] \in Int /\ g[x] = -f[x]
  <2> HIDE DEF D
  <2> QED
    BY <1>2
<1>4. PICK c \in D : \A x \in D : g[x] <= g[c]
  <2> HIDE DEF D, g
  <2> QED
    BY <1>1, <1>2, <1>3, LastElement
<1>5. \A x \in D : ~(f[x] < f[c])
  <2> HIDE DEF D, g
  <2> QED
    BY <1>2, <1>3, <1>4
<1>6. {e \in E : f[e] < f[c]} = {e \in F : f[e] < f[c]}
  BY <1>5
<1>7. c \in A
  BY <1>2
<1>8. c \in E <=> c \in F
  BY <1>6, <1>7 DEF Assembled
<1> QED
  BY <1>4, <1>8

(* merge_and_rank and assemble are defined for whatever the channels       *)
(* return: it can be ranked, and to each ranking there is exactly one      *)
(* evidence, the one the loop of assemble arrives at.                      *)
THEOREM EvidenceIsDetermined ==
  \A A \in SUBSET Chunks :
    /\ Rankings(A) # {}
    /\ \A f \in Rankings(A) :
         \E E \in SUBSET A :
           /\ Assembled(A, f, E)
           /\ \A F \in SUBSET A : Assembled(A, f, F) => F = E
<1> SUFFICES ASSUME NEW A \in SUBSET Chunks, NEW f \in Rankings(A)
             PROVE  \E E \in SUBSET A :
                      /\ Assembled(A, f, E)
                      /\ \A F \in SUBSET A : Assembled(A, f, F) => F = E
  BY RankingExists
<1>1. PICK E \in SUBSET A : Assembled(A, f, E)
  BY AssembledExists
<1> QED
  BY <1>1, AssembledUnique

(* Only merge_and_rank and assemble lead from the channels to the answer.  *)
LEMMA OnlyMerges ==
  ASSUME TypeOK, [Next]_vars, NEW r \in Requests,
         req[r].pc = "fanout", req'[r].pc = "compose"
  PROVE  MergeAssemble(r)
<1>0. req \in [Requests -> Request] /\ req[r] \in Request
  BY DEF TypeOK
<1>1. req'[r] # req[r]
  OBVIOUS
<1>2. CASE StoreStep \/ UNCHANGED vars
  BY <1>1, <1>2 DEF StoreStep, vars
<1>3. ASSUME NEW x \in Requests, Arrive(x) PROVE FALSE
  <2>1. x # r
    BY <1>3 DEF Arrive
  <2> QED
    BY <1>1, <1>3, <2>1, ArriveStep
<1>4. ASSUME NEW x \in Requests, RequestStep(x) PROVE MergeAssemble(r)
  <2>1. x = r
    BY <1>1, <1>4, OnlyOne
  <2>2. ~SearchChannel(r)
    <3>1. ASSUME SearchChannel(r) PROVE FALSE
      <4>1. PICK H \in SUBSET Chunks :
              req'[r] = [req[r] EXCEPT !.pc = IF H = {} THEN "fanout" ELSE "resolving",
                                       !.chan = req[r].chan + 1, !.hits = H]
        BY <1>0, <3>1 DEF SearchChannel
      <4> QED
        BY <1>0, <4>1 DEF Request
    <3> QED
      BY <3>1
  <2> QED
    BY <1>4, <2>1, <2>2
       DEF RequestStep, Gate, ToCandidate, Compose, GatewayReturn, GatewayError,
           CheckDocument, FetchContent, ListOne, ListDone
<1> QED
  BY <1>2, <1>3, <1>4 DEF Next

(* The evidence keeps to its caps, and an authorized chunk of current      *)
(* guidance is left out only when the evidence, or its document's share,   *)
(* is full of chunks that rank at least as high.                           *)
THEOREM BestIsKept == Spec => BestEvidence
<1>1. TypeOK /\ [Next]_vars => [\A r \in Requests : KeepsBest(r)]_vars
  <2> SUFFICES ASSUME TypeOK, [Next]_vars, NEW r \in Requests,
                      req[r].pc = "fanout", req'[r].pc = "compose"
               PROVE  KeepsBest(r)
    BY DEF KeepsBest
  <2>0. req \in [Requests -> Request] /\ req[r] \in Request
    BY DEF TypeOK
  <2>1. MergeAssemble(r)
    BY OnlyMerges
  <2>2. PICK E \in SUBSET Authorized(r) :
          /\ \E f \in Rankings(Authorized(r)) : Assembled(Authorized(r), f, E)
          /\ req'[r] = [req[r] EXCEPT !.pc = "compose", !.evidence = E, !.cands = {}]
    BY <2>0, <2>1 DEF MergeAssemble
  <2>3. PICK f \in Rankings(Authorized(r)) : Assembled(Authorized(r), f, E)
    BY <2>2
  <2>4. req'[r].evidence = E
    BY <2>0, <2>2 DEF Request
  <2>5. Authorized(r) \in SUBSET Chunks
    BY <2>0 DEF Authorized, Request, Candidates
  <2>6. /\ Cardinality(E) <= MaxEvidence
        /\ \A d : Cardinality({e \in E : DocOf[e] = d}) <= MaxPerDocument
        /\ \A c \in Authorized(r) \ E :
             \/ /\ Cardinality(E) = MaxEvidence
                /\ \A e \in E : Weight[e] >= Weight[c]
             \/ /\ Cardinality({e \in E : DocOf[e] = DocOf[c]}) = MaxPerDocument
                /\ \A e \in E : DocOf[e] = DocOf[c] => Weight[e] >= Weight[c]
    BY <2>3, <2>5, AssembledBest
  <2> QED
    BY <2>4, <2>6 DEF KeepsBest
<1> QED
  BY <1>1, TypeCorrect, PTL DEF Spec, BestEvidence

-----------------------------------------------------------------------------
(* What a request has left to do: the channels not asked yet, each of      *)
(* which may find every chunk, the hits and rows not looked at, and the    *)
(* stages that follow.                                                     *)

Searching(q) == (NumChannels - q.chan) * (1 + Cardinality(Chunks)) + Cardinality(q.hits)
Checking(q)  == Cardinality(q.todo)

StepsLeft(q) ==
  CASE q.pc = "gate"                    -> 4 + Searching(q) + Checking(q)
    [] q.pc \in {"fanout", "resolving"} -> 3 + Searching(q)
    [] q.pc = "check"                   -> 2 + Checking(q)
    [] q.pc = "compose"                 -> 2
    [] q.pc \in {"gateway", "fetch"}    -> 1
    [] OTHER                            -> 0

(* What no stage waits for in vain: a request resolves hits it has, checks *)
(* documents somebody asked for, and has finitely many of them.            *)
NoneAwaited(q) ==
  /\ IsFiniteSet(q.todo)
  /\ q.pc = "resolving" => q.hits # {}
  /\ q.pc = "check" => q.kind \in {"content", "list"}
  /\ q.pc \in {"gate", "check"} /\ q.kind = "content" => q.todo # {}

(* Some step of RequestStep finds what it needs: a channel, a hit, an      *)
(* evidence for what was found, a document.                                *)
CanStep(r) ==
  LET q == req[r] IN
  CASE q.pc = "fanout" ->
         \/ q.chan < NumChannels
         \/ /\ q.chan = NumChannels
            /\ \E E \in SUBSET Authorized(r) :
                 \E f \in Rankings(Authorized(r)) : Assembled(Authorized(r), f, E)
    [] q.pc = "resolving" -> q.hits \cap Chunks # {}
    [] q.pc = "check"     -> \/ q.kind = "content" /\ q.todo # {}
                             \/ q.kind = "list" /\ (q.todo = {} \/ q.todo \cap Docs # {})
    [] OTHER              -> q.pc \in {"gate", "compose", "gateway", "fetch"}

AwaitInv == \A r \in Requests : NoneAwaited(req[r])

(* The summands are numbers, and no channel finds more than all chunks.    *)
LEMMA LeftIsNat ==
  ASSUME NEW q \in Request, IsFiniteSet(q.todo)
  PROVE  /\ Cardinality(Chunks) \in Nat
         /\ Cardinality(q.hits) \in Nat /\ Cardinality(q.hits) <= Cardinality(Chunks)
         /\ Searching(q) \in Nat /\ Checking(q) \in Nat
<1>1. /\ q.hits \in SUBSET Chunks /\ q.chan \in 0 .. NumChannels
      /\ NumChannels \in Nat
  BY QueryAssumption DEF Request
<1>2. /\ Cardinality(Chunks) \in Nat /\ Cardinality(q.hits) \in Nat
      /\ Cardinality(q.hits) <= Cardinality(Chunks)
  BY <1>1, QueryAssumption, FS_Subset, FS_CardinalityType
<1>3. (NumChannels - q.chan) \in Nat /\ (1 + Cardinality(Chunks)) \in Nat
  BY <1>1, <1>2
<1>4. \A a, b \in Nat : a * b \in Nat
  OBVIOUS
<1>5. (NumChannels - q.chan) * (1 + Cardinality(Chunks)) \in Nat
  BY <1>3, <1>4
<1>6. Checking(q) \in Nat
  BY FS_CardinalityType DEF Checking
<1> QED
  BY <1>2, <1>5, <1>6 DEF Searching

LEMMA OneLess ==
  ASSUME NEW S, IsFiniteSet(S), NEW x \in S
  PROVE  IsFiniteSet(S \ {x}) /\ Cardinality(S \ {x}) < Cardinality(S)
<1>1. Cardinality(S) \in Nat /\ Cardinality(S \ {x}) = Cardinality(S) - 1
  BY FS_CardinalityType, FS_RemoveElement
<1> QED
  BY <1>1, FS_RemoveElement

(* The steps that work through the channels, the hits and the rows.        *)
LEMMA ChannelRunsDown ==
  ASSUME TypeOK, NEW r \in Requests, NoneAwaited(req[r]), SearchChannel(r)
  PROVE  NoneAwaited(req'[r]) /\ StepsLeft(req'[r]) < StepsLeft(req[r])
<1>0. req \in [Requests -> Request] /\ req[r] \in Request /\ req[r].pc = "fanout"
  BY DEF TypeOK, SearchChannel
<1>1. PICK H \in SUBSET Chunks :
        req'[r] = [req[r] EXCEPT !.pc = IF H = {} THEN "fanout" ELSE "resolving",
                                 !.chan = req[r].chan + 1, !.hits = H]
  BY <1>0 DEF SearchChannel
<1>2. /\ req'[r].pc \in {"fanout", "resolving"} /\ req'[r].hits = H
      /\ req'[r].pc = "resolving" => H # {}
      /\ req'[r].chan = req[r].chan + 1 /\ req'[r].todo = req[r].todo
  BY <1>0, <1>1 DEF Request
<1>3. /\ req[r].chan \in Int /\ NumChannels \in Int
      /\ Cardinality(Chunks) \in Int /\ Cardinality(req[r].hits) \in Nat
  BY <1>0, LeftIsNat, QueryAssumption DEF NoneAwaited, Request
<1>4. Cardinality(H) \in Nat /\ Cardinality(H) <= Cardinality(Chunks)
  BY QueryAssumption, FS_Subset, FS_CardinalityType
<1>5. \A n, k, m \in Int : (n - k) * (1 + m) = (n - (k + 1)) * (1 + m) + 1 + m
  OBVIOUS
<1>6. (NumChannels - req[r].chan) * (1 + Cardinality(Chunks)) =
        (NumChannels - (req[r].chan + 1)) * (1 + Cardinality(Chunks))
        + 1 + Cardinality(Chunks)
  BY <1>3, <1>5
<1>7. \A n, k, m \in Int : (n - k) * (1 + m) \in Int
  OBVIOUS
<1>8. (NumChannels - (req[r].chan + 1)) * (1 + Cardinality(Chunks)) \in Int
  BY <1>3, <1>7
<1>9. Searching(req'[r]) < Searching(req[r]) /\ Searching(req'[r]) \in Int
      /\ Searching(req[r]) \in Int
  BY <1>2, <1>3, <1>4, <1>6, <1>8 DEF Searching
<1> QED
  BY <1>0, <1>2, <1>9 DEF StepsLeft, NoneAwaited

LEMMA CandidateRunsDown ==
  ASSUME TypeOK, NEW r \in Requests, NoneAwaited(req[r]),
         NEW c \in Chunks, ToCandidate(r, c)
  PROVE  NoneAwaited(req'[r]) /\ StepsLeft(req'[r]) < StepsLeft(req[r])
<1>0. /\ req \in [Requests -> Request] /\ req[r] \in Request
      /\ req[r].pc = "resolving" /\ c \in req[r].hits
  BY DEF TypeOK, ToCandidate
<1>1. PICK C : C = req[r].cands \cup {[chunk |-> c, acl |-> ResolveAcl(DocOf[c])]}
  OBVIOUS
<1>2. req'[r] = [req[r] EXCEPT
                   !.pc = IF req[r].hits = {c} THEN "fanout" ELSE "resolving",
                   !.hits = req[r].hits \ {c}, !.cands = C]
  BY <1>0, <1>1 DEF ToCandidate
<1>3. /\ req'[r].pc = IF req[r].hits = {c} THEN "fanout" ELSE "resolving"
      /\ req'[r].hits = req[r].hits \ {c}
      /\ req'[r].chan = req[r].chan /\ req'[r].todo = req[r].todo
  BY <1>0, <1>2 DEF Request
<1>4. IsFiniteSet(req[r].hits)
  BY <1>0, QueryAssumption, FS_Subset DEF Request
<1>5. /\ Cardinality(req'[r].hits) < Cardinality(req[r].hits)
      /\ Cardinality(req'[r].hits) \in Int
  BY <1>0, <1>3, <1>4, OneLess, FS_CardinalityType
<1>6. Searching(req[r]) \in Nat /\ Cardinality(req[r].hits) \in Nat
  BY <1>0, LeftIsNat DEF NoneAwaited
<1>7. Searching(req'[r]) - Cardinality(req'[r].hits)
        = Searching(req[r]) - Cardinality(req[r].hits)
      /\ Searching(req'[r]) \in Int
  <2>1. /\ NumChannels \in Int /\ req[r].chan \in Int /\ Cardinality(Chunks) \in Int
    BY <1>0, LeftIsNat, QueryAssumption DEF NoneAwaited, Request
  <2>2. \A n, k, m \in Int : (n - k) * (1 + m) \in Int
    OBVIOUS
  <2>3. (NumChannels - req[r].chan) * (1 + Cardinality(Chunks)) \in Int
    BY <2>1, <2>2
  <2> QED
    BY <1>3, <1>5, <1>6, <2>3 DEF Searching
<1>8. Searching(req'[r]) < Searching(req[r])
  BY <1>5, <1>6, <1>7
<1>9. req'[r].pc \in {"fanout", "resolving"}
      /\ (req'[r].pc = "resolving" => req'[r].hits # {})
  BY <1>0, <1>3
<1> QED
  BY <1>0, <1>3, <1>6, <1>7, <1>8, <1>9 DEF StepsLeft, NoneAwaited

LEMMA ListRunsDown ==
  ASSUME TypeOK, NEW r \in Requests, NoneAwaited(req[r]),
         NEW d \in Docs, ListOne(r, d)
  PROVE  NoneAwaited(req'[r]) /\ StepsLeft(req'[r]) < StepsLeft(req[r])
<1>0. /\ req \in [Requests -> Request] /\ req[r] \in Request
      /\ req[r].pc = "check" /\ req[r].kind = "list" /\ d \in req[r].todo
  BY DEF TypeOK, ListOne
<1>1. PICK D : req'[r] = [req[r] EXCEPT !.todo = req[r].todo \ {d}, !.docs = D]
  BY <1>0 DEF ListOne
<1>2. /\ req'[r].pc = "check" /\ req'[r].kind = "list"
      /\ req'[r].todo = req[r].todo \ {d}
  BY <1>0, <1>1 DEF Request
<1>3. /\ IsFiniteSet(req'[r].todo)
      /\ Checking(req'[r]) < Checking(req[r])
      /\ Checking(req'[r]) \in Int /\ Checking(req[r]) \in Int
  BY <1>0, <1>2, OneLess, FS_CardinalityType DEF NoneAwaited, Checking
<1> QED
  BY <1>0, <1>2, <1>3 DEF StepsLeft, NoneAwaited

(* A step from a stage to a later one.                                     *)
LEMMA StageRunsDown ==
  ASSUME NEW q \in Request, NEW q1, NoneAwaited(q),
         q1.todo = q.todo, q1.kind = q.kind, q1.chan = q.chan, q1.hits = q.hits,
         \/ /\ q.pc = "gate"
            /\ \/ q1.pc = "fanout"
               \/ q1.pc = "check" /\ q.kind \in {"content", "list"}
         \/ q.pc = "fanout" /\ q1.pc = "compose"
         \/ q.pc = "compose" /\ q1.pc = "gateway"
         \/ q.pc = "check" /\ q1.pc = "fetch"
         \/ q.pc \notin {"new", "done"} /\ q1.pc = "done"
  PROVE  NoneAwaited(q1) /\ StepsLeft(q1) < StepsLeft(q)
<1>1. Searching(q) \in Nat /\ Checking(q) \in Nat
  BY LeftIsNat DEF NoneAwaited
<1>2. Searching(q1) = Searching(q) /\ Checking(q1) = Checking(q)
  BY DEF Searching, Checking
<1>3. q.pc \in {"new", "gate", "fanout", "resolving", "compose", "gateway",
                "check", "fetch", "done"}
  BY DEF Request
<1>4. NoneAwaited(q1)
  BY DEF NoneAwaited
<1> HIDE DEF NoneAwaited
<1> QED
  BY <1>1, <1>2, <1>3, <1>4 DEF StepsLeft

LEMMA RespondRunsDown ==
  ASSUME TypeOK, NEW r \in Requests, NoneAwaited(req[r]), Served(r),
         NEW o, Respond(r, o)
  PROVE  NoneAwaited(req'[r]) /\ StepsLeft(req'[r]) < StepsLeft(req[r])
<1>1. req[r] \in Request /\ req'[r] = [req[r] EXCEPT !.pc = "done", !.outcome = o]
  BY DEF TypeOK, Respond
<1>2. /\ req'[r].pc = "done" /\ req'[r].todo = req[r].todo
      /\ req'[r].kind = req[r].kind /\ req'[r].chan = req[r].chan
      /\ req'[r].hits = req[r].hits
  BY <1>1 DEF Request
<1> QED
  BY <1>1, <1>2, StageRunsDown DEF Served

LEMMA MoveRunsDown ==
  ASSUME TypeOK, NEW r \in Requests, NoneAwaited(req[r]), NEW p,
         req'[r] = [req[r] EXCEPT !.pc = p],
         \/ req[r].pc = "gate" /\ p = "fanout"
         \/ req[r].pc = "gate" /\ p = "check" /\ req[r].kind \in {"content", "list"}
         \/ req[r].pc = "compose" /\ p = "gateway"
  PROVE  NoneAwaited(req'[r]) /\ StepsLeft(req'[r]) < StepsLeft(req[r])
<1>1. req[r] \in Request
  BY DEF TypeOK
<1>2. /\ req'[r].pc = p /\ req'[r].todo = req[r].todo
      /\ req'[r].kind = req[r].kind /\ req'[r].chan = req[r].chan
      /\ req'[r].hits = req[r].hits
  BY <1>1 DEF Request
<1> QED
  BY <1>1, <1>2, StageRunsDown

LEMMA RequestRunsDown ==
  ASSUME TypeOK, NEW r \in Requests, NoneAwaited(req[r]), RequestStep(r)
  PROVE  NoneAwaited(req'[r]) /\ StepsLeft(req'[r]) < StepsLeft(req[r])
<1> DEFINE Goal == NoneAwaited(req'[r]) /\ StepsLeft(req'[r]) < StepsLeft(req[r])
<1>0. req \in [Requests -> Request] /\ req[r] \in Request
  BY DEF TypeOK
<1>1. CASE Gate(r)
  <2>0. req[r].pc = "gate" /\ Served(r)
    BY <1>1 DEF Gate, Served
  <2>1. ASSUME NEW o, Respond(r, o) PROVE Goal
    BY <2>0, <2>1, RespondRunsDown
  <2>2. ASSUME NEW p \in {"check", "fanout"}, req' = [req EXCEPT ![r].pc = p],
               p = "check" => req[r].kind \in {"content", "list"}
        PROVE  Goal
    <3>1. req'[r] = [req[r] EXCEPT !.pc = p]
      BY <1>0, <2>2
    <3> QED
      BY <2>0, <2>2, <3>1, MoveRunsDown
  <2> QED
    BY <1>1, <2>1, <2>2 DEF Gate
<1>2. CASE MergeAssemble(r)
  <2>1. PICK E : req'[r] = [req[r] EXCEPT !.pc = "compose", !.evidence = E, !.cands = {}]
    BY <1>0, <1>2 DEF MergeAssemble
  <2>2. /\ req'[r].pc = "compose" /\ req'[r].todo = req[r].todo
        /\ req'[r].kind = req[r].kind /\ req'[r].chan = req[r].chan
        /\ req'[r].hits = req[r].hits
    BY <1>0, <2>1 DEF Request
  <2> QED
    BY <1>0, <1>2, <2>2, StageRunsDown DEF MergeAssemble
<1>3. CASE Compose(r)
  <2>0. req[r].pc = "compose" /\ Served(r)
    BY <1>3 DEF Compose, Served
  <2>1. ASSUME NEW o, Respond(r, o) PROVE Goal
    BY <2>0, <2>1, RespondRunsDown
  <2>2. ASSUME req' = [req EXCEPT ![r].pc = "gateway"] PROVE Goal
    <3>1. req'[r] = [req[r] EXCEPT !.pc = "gateway"]
      BY <1>0, <2>2
    <3> QED
      BY <2>0, <3>1, MoveRunsDown
  <2> QED
    BY <1>3, <2>1, <2>2 DEF Compose
<1>4. CASE GatewayReturn(r)
  <2>0. PICK C \in SUBSET Chunks, disc \in BOOLEAN :
          req' = [req EXCEPT
            ![r].pc = "done",
            ![r].outcome = DraftOutcome(C, Violations(C, disc, req[r].evidence)),
            ![r].cites = IF Violations(C, disc, req[r].evidence) = {} THEN C ELSE {},
            ![r].disclosed = disc /\ Violations(C, disc, req[r].evidence) = {}]
    BY <1>4, Zenon DEF GatewayReturn
  <2> DEFINE V == Violations(C, disc, req[r].evidence)
  <2>1. req'[r] = [req[r] EXCEPT !.pc = "done", !.outcome = DraftOutcome(C, V),
                                 !.cites = IF V = {} THEN C ELSE {},
                                 !.disclosed = disc /\ V = {}]
    BY <1>0, <2>0
  <2> HIDE DEF V
  <2>2. /\ req'[r].pc = "done" /\ req'[r].todo = req[r].todo
        /\ req'[r].kind = req[r].kind /\ req'[r].chan = req[r].chan
        /\ req'[r].hits = req[r].hits
    BY <1>0, <2>1 DEF Request
  <2> QED
    BY <1>0, <1>4, <2>2, StageRunsDown DEF GatewayReturn
<1>5. CASE GatewayError(r) \/ FetchContent(r) \/ ListDone(r)
  <2>1. Served(r) /\ \E o : Respond(r, o)
    BY <1>5 DEF GatewayError, FetchContent, ListDone, Served
  <2> QED
    BY <2>1, RespondRunsDown
<1>6. CASE CheckDocument(r)
  <2>0. req[r].pc = "check" /\ Served(r)
    BY <1>6 DEF CheckDocument, Served
  <2>1. ASSUME NEW o, Respond(r, o) PROVE Goal
    BY <2>0, <2>1, RespondRunsDown
  <2>2. ASSUME NEW d, req' = [req EXCEPT ![r].pc = "fetch", ![r].docs = {d}] PROVE Goal
    <3>1. req'[r] = [req[r] EXCEPT !.pc = "fetch", !.docs = {d}]
      BY <1>0, <2>2
    <3>2. /\ req'[r].pc = "fetch" /\ req'[r].todo = req[r].todo
          /\ req'[r].kind = req[r].kind /\ req'[r].chan = req[r].chan
          /\ req'[r].hits = req[r].hits
      BY <1>0, <3>1 DEF Request
    <3> QED
      BY <1>0, <2>0, <3>2, StageRunsDown
  <2> QED
    BY <1>6, <2>1, <2>2 DEF CheckDocument
<1> QED
  BY <1>1, <1>2, <1>3, <1>4, <1>5, <1>6, ChannelRunsDown, CandidateRunsDown,
     ListRunsDown DEF RequestStep

LEMMA ArriveAwaits ==
  ASSUME TypeOK, NEW r \in Requests, Arrive(r)
  PROVE  NoneAwaited(req'[r])
<1>0. PICK k \in Kinds, ctx \in Callers :
        \E D \in ToCheck(k) : req'[r] = Fresh("gate", k, ctx, D)
  BY DEF Arrive, TypeOK
<1>1. PICK D \in ToCheck(k) : req'[r] = Fresh("gate", k, ctx, D)
  BY <1>0
<1>2. /\ D = Uploaded \/ D = {} \/ \E d \in Docs : D = {d}
      /\ k = "content" => D # {}
  BY DEF ToCheck
<1>3. IsFiniteSet(D)
  <2>1. \A x : IsFiniteSet({x})
    BY FS_Singleton
  <2> QED
    BY <1>2, <2>1, QueryAssumption, FS_EmptySet
<1> QED
  BY <1>1, <1>2, <1>3 DEF NoneAwaited, Fresh

LEMMA AlwaysAwaits == Spec => []AwaitInv
<1>1. Init => AwaitInv
  <2>1. NoneAwaited(NotYet)
    <3>1. NotYet.pc = "new" /\ NotYet.todo = {}
      BY DEF NotYet, Fresh
    <3> QED
      BY <3>1, FS_EmptySet DEF NoneAwaited
  <2> QED
    BY <2>1 DEF Init, AwaitInv
<1>2. TypeOK /\ AwaitInv /\ [Next]_vars => AwaitInv'
  <2> SUFFICES ASSUME TypeOK, AwaitInv, [Next]_vars, NEW r \in Requests
               PROVE  NoneAwaited(req'[r])
    BY DEF AwaitInv
  <2>0. NoneAwaited(req[r])
    BY DEF AwaitInv
  <2>1. CASE StoreStep \/ UNCHANGED vars
    BY <2>0, <2>1 DEF StoreStep, vars
  <2>2. ASSUME NEW x \in Requests, Arrive(x) PROVE NoneAwaited(req'[r])
    <3>1. CASE x = r
      BY <2>2, <3>1, ArriveAwaits
    <3>2. CASE x # r
      BY <2>0, <2>2, <3>2, ArriveStep
    <3> QED
      BY <3>1, <3>2
  <2>3. ASSUME NEW x \in Requests, RequestStep(x) PROVE NoneAwaited(req'[r])
    <3>1. CASE x = r
      BY <2>0, <2>3, <3>1, RequestRunsDown
    <3>2. CASE x # r
      BY <2>0, <2>3, <3>2, OnlyOne
    <3> QED
      BY <3>1, <3>2
  <2> QED
    BY <2>1, <2>2, <2>3 DEF Next
<1> QED
  BY <1>1, <1>2, TypeCorrect, PTL DEF Spec

(* Half of the promise that every request gets a response: each step of a  *)
(* request that is being served leaves it fewer steps to take, however the *)
(* store and other requests move, so it cannot go round in circles.        *)
THEOREM RequestsRunDown ==
  Spec => [][\A r \in Requests :
               Served(r) /\ req'[r] # req[r] =>
                 /\ StepsLeft(req[r]) \in Nat /\ StepsLeft(req'[r]) \in Nat
                 /\ StepsLeft(req'[r]) < StepsLeft(req[r])]_vars
<1> DEFINE Down(r) == Served(r) /\ req'[r] # req[r] =>
                        /\ StepsLeft(req[r]) \in Nat /\ StepsLeft(req'[r]) \in Nat
                        /\ StepsLeft(req'[r]) < StepsLeft(req[r])
<1>1. ASSUME NEW q \in Request, NoneAwaited(q) PROVE StepsLeft(q) \in Nat
  <2>1. Searching(q) \in Nat /\ Checking(q) \in Nat
    BY <1>1, LeftIsNat DEF NoneAwaited
  <2> QED
    BY <2>1 DEF StepsLeft
<1>2. TypeOK /\ TypeOK' /\ AwaitInv /\ [Next]_vars
        => [\A r \in Requests : Down(r)]_vars
  <2> SUFFICES ASSUME TypeOK, TypeOK', AwaitInv, [Next]_vars, NEW r \in Requests,
                      Served(r), req'[r] # req[r]
               PROVE  /\ StepsLeft(req[r]) \in Nat /\ StepsLeft(req'[r]) \in Nat
                      /\ StepsLeft(req'[r]) < StepsLeft(req[r])
    OBVIOUS
  <2>0. /\ req[r] \in Request /\ req'[r] \in Request /\ NoneAwaited(req[r])
    BY DEF TypeOK, AwaitInv
  <2>1. ~(StoreStep \/ UNCHANGED vars)
    BY DEF StoreStep, vars
  <2>2. ASSUME NEW x \in Requests, Arrive(x) PROVE FALSE
    <3>1. x # r
      BY <2>2 DEF Arrive, Served
    <3> QED
      BY <2>2, <3>1, ArriveStep
  <2>3. RequestStep(r)
    BY <2>1, <2>2, OnlyOne DEF Next
  <2>4. NoneAwaited(req'[r]) /\ StepsLeft(req'[r]) < StepsLeft(req[r])
    BY <2>0, <2>3, RequestRunsDown
  <2> QED
    BY <1>1, <2>0, <2>4
<1> QED
  BY <1>2, TypeCorrect, AlwaysAwaits, PTL DEF Spec

(* The other half: a request that is being served never waits for what     *)
(* does not come.  Its next step finds the channel, the hit or the row it  *)
(* needs, and what the channels returned can always be assembled.          *)
THEOREM NeverStuck == Spec => [](\A r \in Requests : Served(r) => CanStep(r))
<1>1. TypeOK /\ AwaitInv => \A r \in Requests : Served(r) => CanStep(r)
  <2> SUFFICES ASSUME TypeOK, AwaitInv, NEW r \in Requests, Served(r)
               PROVE  CanStep(r)
    OBVIOUS
  <2>0. req[r] \in Request /\ NoneAwaited(req[r])
    BY DEF TypeOK, AwaitInv
  <2>1. CASE req[r].pc = "fanout"
    <3>1. Authorized(r) \in SUBSET Chunks
      BY <2>0 DEF Authorized, Request, Candidates
    <3>2. \E f \in Rankings(Authorized(r)) : TRUE
      BY <3>1, EvidenceIsDetermined
    <3>3. \E E \in SUBSET Authorized(r) :
            \E f \in Rankings(Authorized(r)) : Assembled(Authorized(r), f, E)
      BY <3>1, <3>2, EvidenceIsDetermined
    <3>4. req[r].chan < NumChannels \/ req[r].chan = NumChannels
      BY <2>0, QueryAssumption DEF Request
    <3> QED
      BY <2>1, <3>3, <3>4 DEF CanStep
  <2>2. CASE req[r].pc = "resolving"
    BY <2>0, <2>2 DEF CanStep, NoneAwaited, Request
  <2>3. CASE req[r].pc = "check"
    BY <2>0, <2>3 DEF CanStep, NoneAwaited, Request
  <2>4. CASE req[r].pc \in {"gate", "compose", "gateway", "fetch"}
    BY <2>4 DEF CanStep
  <2> QED
    BY <2>0, <2>1, <2>2, <2>3, <2>4 DEF Served, Request
<1> QED
  BY <1>1, TypeCorrect, AlwaysAwaits, PTL

=============================================================================
