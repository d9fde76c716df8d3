--------------------------- MODULE QueryPipeline ---------------------------
(***************************************************************************)
(* The requests that read documents: /search, /answer, /documents and      *)
(* /documents/{id}[/content], on top of an AclStore that changes under     *)
(* them.                                                                   *)
(*                                                                         *)
(* A request passes the gate, asks the search channels one after another   *)
(* (each hit is given the ACL the store holds at that moment), filters     *)
(* what they returned by those ACLs, ranks it, keeps the best, and, for    *)
(* /answer, has the gateway write a draft and validates it.  The AclStore  *)
(* and the clock move between any two of these steps.                      *)
(*                                                                         *)
(* Data: a chunk is a model value; which chunks a channel finds, the order *)
(* among equally ranked ones and the draft are arbitrary.  merge_and_rank  *)
(* and assemble are one step, with one reading of the clock; so are the    *)
(* lookup of one document's ACL and its evaluation in the endpoints of     *)
(* documents.                                                              *)
(***************************************************************************)
EXTENDS AclStore, FiniteSets

CONSTANTS
  Requests,
  Callers,         \* the authorization contexts requests arrive with
  Chunks, DocOf,   \* what the indexes hold, [Chunks -> Docs]
  Uploaded,        \* the documents the upload repository has
  Weight,          \* [Chunks -> Nat]: authority, applicability and revision
                   \* as one rank; 0 means superseded or withdrawn
  Family,          \* [Docs -> ...]: the document id up to its first ":"
  Scope,           \* [Chunks -> ...]: applicability's scope
  Position,        \* [Chunks -> ...]: the position it takes, or None
  NumChannels, MaxEvidence, MaxPerDocument

ASSUME QueryAssumption ==
  /\ Callers \subseteq Contexts(Roles, Sites)
  /\ IsFiniteSet(Chunks) /\ DocOf \in [Chunks -> Docs]
  /\ Weight \in [Chunks -> Nat]
  /\ Uploaded \subseteq Docs /\ IsFiniteSet(Uploaded)
  /\ NumChannels \in Nat /\ MaxEvidence \in Nat /\ MaxPerDocument \in Nat
  /\ Skew <= ClockSkewTolerance

VARIABLES
  req,        \* [Requests -> state of the request]
  seen        \* history: the documents the caller was entitled to see at
              \* some moment while the request was being served

vars == <<now, store, req, seen>>

(* What resolve_acl attaches to a hit; Unresolved stands for a document    *)
(* that has no ACL.                                                        *)
Unresolved == [sites |-> {}, roles |-> {}, maxStale |-> None, synced |-> None]
(* Mutant of ResolveAcl: a missing record is passed on as it is.           *)
ResolveAcl_NoFallback(d) == store[d]
ResolveAcl(d) == IF store[d] = None THEN Unresolved ELSE store[d]

Candidates == [chunk : Chunks, acl : Acl \cup {Unresolved}]

Kinds == {"search", "answer", "content", "list"}
Outcomes == {"none", "forbidden", "unauthorized_scope", "insufficient",
             "unavailable", "conflicting", "model_abstained", "answered",
             "results", "not_found", "content", "documents", "error"}

Request ==
  [pc : {"new", "gate", "fanout", "resolving", "compose", "gateway",
         "check", "fetch", "done"},
   kind : Kinds, ctx : Contexts(Roles, Sites),
   chan : 0 .. NumChannels, hits : SUBSET Chunks, cands : SUBSET Candidates,
   evidence : SUBSET Chunks,   \* what assemble kept
   cites : SUBSET Chunks, disclosed : BOOLEAN,
   todo : SUBSET Docs, docs : SUBSET Docs,   \* to check / found visible
   outcome : Outcomes]

Fresh(pc, kind, ctx, D) ==
  [pc |-> pc, kind |-> kind, ctx |-> ctx, chan |-> 0, hits |-> {},
   cands |-> {}, evidence |-> {}, cites |-> {}, disclosed |-> FALSE,
   todo |-> D, docs |-> {}, outcome |-> "none"]

NotYet ==
  Fresh("new", "search", [roles |-> {}, sites |-> {}, verified |-> FALSE], {})

VisibleTo(ctx) ==
  {d \in AllDocumentIds : EvaluateDocument(ctx, store[d], now)}

Served(r) == req[r].pc \notin {"new", "done"}

Init ==
  /\ StoreInit
  /\ req = [r \in Requests |-> NotYet]
  /\ seen = [r \in Requests |-> {}]

Respond(r, outcome) ==
  req' = [req EXCEPT ![r].pc = "done", ![r].outcome = outcome]

-----------------------------------------------------------------------------
(* The clock, reconcile, apply_event, uploads and /admin/acl/revoke.       *)
StoreStep ==
  /\ StoreNext
  /\ UNCHANGED req
  /\ seen' = [r \in Requests |->
                IF Served(r) THEN seen[r] \cup VisibleTo(req[r].ctx)' ELSE seen[r]]

(* The document a request names, or the rows repo.list() returns.          *)
ToCheck(k) ==
  CASE k = "content" -> {{d} : d \in Docs}
    [] k = "list"    -> {Uploaded}
    [] OTHER         -> {{}}

Arrive(r) ==
  /\ req[r].pc = "new"
  /\ \E k \in Kinds, ctx \in Callers :
       /\ \E D \in ToCheck(k) :
            req' = [req EXCEPT ![r] = Fresh("gate", k, ctx, D)]
       /\ seen' = [seen EXCEPT ![r] = VisibleTo(ctx)]
  /\ UNCHANGED <<now, store>>

(* require_verified; for /search and /answer also authorize_scope.         *)
Gate(r) ==
  /\ req[r].pc = "gate"
  /\ LET q == req[r] IN
     IF ~q.ctx.verified
     THEN Respond(r, "forbidden")
     ELSE IF q.kind \in {"content", "list"}
     THEN req' = [req EXCEPT ![r].pc = "check"]
     ELSE IF ~AuthorizeScope(q.ctx)
     THEN Respond(r, IF q.kind = "search" THEN "forbidden" ELSE "unauthorized_scope")
     ELSE req' = [req EXCEPT ![r].pc = "fanout"]
  /\ UNCHANGED <<now, store, seen>>

-----------------------------------------------------------------------------
(* [ch.search(query) for ch in channels]: the hits are found first, then   *)
(* each becomes a candidate with its ACL, one at a time.                   *)

(* Mutant of SearchChannel: waits for a first hit that never comes.        *)
SearchChannel_WaitsForHit(r) ==
  /\ req[r].pc = "fanout"
  /\ req[r].chan < NumChannels
  /\ \E H \in SUBSET Chunks :
       req' = [req EXCEPT ![r].pc = "resolving", ![r].chan = @ + 1, ![r].hits = H]
  /\ UNCHANGED <<now, store, seen>>

SearchChannel(r) ==
  /\ req[r].pc = "fanout"
  /\ req[r].chan < NumChannels
  /\ \E H \in SUBSET Chunks :
       req' = [req EXCEPT ![r].pc = IF H = {} THEN "fanout" ELSE "resolving",
                          ![r].chan = @ + 1, ![r].hits = H]
  /\ UNCHANGED <<now, store, seen>>

ToCandidate(r, c) ==
  /\ req[r].pc = "resolving"
  /\ c \in req[r].hits
  /\ req' = [req EXCEPT
               ![r].pc = IF req[r].hits = {c} THEN "fanout" ELSE "resolving",
               ![r].hits = @ \ {c},
               ![r].cands = @ \cup {[chunk |-> c, acl |-> ResolveAcl(DocOf[c])]}]
  /\ UNCHANGED <<now, store, seen>>

-----------------------------------------------------------------------------
(* merge_and_rank, then assemble.                                          *)

(* Mutant of Authorized: the scope decides, freshness is not checked.      *)
Authorized_ScopeOnly(r) ==
  {x.chunk : x \in {y \in req[r].cands :
                      Weight[y.chunk] > 0 /\ InScope(req[r].ctx, y.acl)}}

Authorized(r) ==
  {x.chunk : x \in {y \in req[r].cands :
                      /\ Weight[y.chunk] > 0
                      /\ EvaluateDocument(req[r].ctx, y.acl, now)}}

(* Best first: ranks by weight, ties in any order.                         *)
Rankings(A) ==
  {f \in [A -> 1 .. Cardinality(A)] :
     \A a, b \in A : /\ f[a] = f[b] => a = b
                     /\ Weight[a] > Weight[b] => f[a] < f[b]}

(* Mutant of Assembled: the cap per document is one too high.              *)
Assembled_OffByOne(A, f, E) ==
  \A c \in A :
    LET better == {e \in E : f[e] < f[c]} IN
    c \in E <=> /\ Cardinality(better) < MaxEvidence
                /\ Cardinality({e \in better : DocOf[e] = DocOf[c]}) <= MaxPerDocument

(* The chunks the loop of assemble keeps when it meets A in this order.    *)
Assembled(A, f, E) ==
  \A c \in A :
    LET better == {e \in E : f[e] < f[c]} IN
    c \in E <=> /\ Cardinality(better) < MaxEvidence
                /\ Cardinality({e \in better : DocOf[e] = DocOf[c]}) < MaxPerDocument

MergeAssemble(r) ==
  /\ req[r].pc = "fanout"
  /\ req[r].chan = NumChannels
  /\ \E E \in SUBSET Authorized(r) :
       /\ \E f \in Rankings(Authorized(r)) : Assembled(Authorized(r), f, E)
       /\ req' = [req EXCEPT ![r].pc = "compose", ![r].evidence = E, ![r].cands = {}]
  /\ UNCHANGED <<now, store, seen>>

-----------------------------------------------------------------------------
(* compose_answer; /search just returns the evidence.                      *)

(* Mutant of Compose: no evidence is no reason not to ask the model.       *)
Compose_AlwaysAsks(r) ==
  /\ req[r].pc = "compose"
  /\ IF req[r].kind = "search" THEN Respond(r, "results")
     ELSE req' = [req EXCEPT ![r].pc = "gateway"]
  /\ UNCHANGED <<now, store, seen>>

Compose(r) ==
  /\ req[r].pc = "compose"
  /\ IF req[r].kind = "search" THEN Respond(r, "results")
     ELSE IF req[r].evidence = {} THEN Respond(r, "insufficient")
     ELSE req' = [req EXCEPT ![r].pc = "gateway"]
  /\ UNCHANGED <<now, store, seen>>

(* _has_material_conflict: opposing positions within one document family   *)
(* and scope.                                                              *)
HasMaterialConflict(E) ==
  \E a, b \in E : /\ Weight[a] > 0 /\ Weight[b] > 0
                  /\ Position[a] # None /\ Position[b] # None
                  /\ Position[a] # Position[b]
                  /\ Family[DocOf[a]] = Family[DocOf[b]]
                  /\ Scope[a] = Scope[b]

(* Mutant of Violations: one good citation is enough.                      *)
Violations_AnyCitation(cites, disclosed, E) ==
  IF cites = {} THEN {}
  ELSE (IF cites \cap E # {} THEN {} ELSE {"unknown_evidence_id"}) \cup
       (IF HasMaterialConflict(E) /\ ~disclosed
        THEN {"undisclosed_conflict"} ELSE {})

(* validate_answer.  A draft that is an abstention has no claims, and any  *)
(* other has one and each of its claims cites something: the Answer        *)
(* contract rejects the rest.                                              *)
Violations(cites, disclosed, E) ==
  IF cites = {} THEN {}
  ELSE (IF cites \subseteq E THEN {} ELSE {"unknown_evidence_id"}) \cup
       (IF HasMaterialConflict(E) /\ ~disclosed
        THEN {"undisclosed_conflict"} ELSE {})

DraftOutcome(cites, V) ==
  IF V = {} THEN IF cites = {} THEN "model_abstained" ELSE "answered"
  ELSE IF V = {"undisclosed_conflict"} THEN "conflicting" ELSE "insufficient"

(* The draft is untrusted: it may cite anything and disclose or not.       *)
(* Only a draft that is accepted is returned.                              *)
GatewayReturn(r) ==
  /\ req[r].pc = "gateway"
  /\ \E cites \in SUBSET Chunks, disclosed \in BOOLEAN :
       LET V == Violations(cites, disclosed, req[r].evidence) IN
       req' = [req EXCEPT ![r].pc = "done",
                          ![r].outcome = DraftOutcome(cites, V),
                          ![r].cites = IF V = {} THEN cites ELSE {},
                          ![r].disclosed = disclosed /\ V = {}]
  /\ UNCHANGED <<now, store, seen>>

GatewayError(r) ==
  /\ req[r].pc = "gateway"
  /\ Respond(r, "unavailable")
  /\ UNCHANGED <<now, store, seen>>

-----------------------------------------------------------------------------
(* Document endpoints.                                                     *)

MayOpen(r, d) == d \in VisibleTo(req[r].ctx)

(* _authorized_document: no row, no ACL and no permission look alike.      *)
CheckDocument(r) ==
  /\ req[r].pc = "check" /\ req[r].kind = "content"
  /\ \E d \in req[r].todo :
       IF d \in Uploaded /\ MayOpen(r, d)
       THEN req' = [req EXCEPT ![r].pc = "fetch", ![r].docs = {d}]
       ELSE Respond(r, "not_found")
  /\ UNCHANGED <<now, store, seen>>

(* object_store.get, after the check; it may fail.                         *)
FetchContent(r) ==
  /\ req[r].pc = "fetch"
  /\ Respond(r, "content") \/ Respond(r, "error")
  /\ UNCHANGED <<now, store, seen>>

(* list_documents: one row after another.                                  *)
ListOne(r, d) ==
  /\ req[r].pc = "check" /\ req[r].kind = "list"
  /\ d \in req[r].todo
  /\ req' = [req EXCEPT ![r].todo = @ \ {d},
                        ![r].docs = IF MayOpen(r, d) THEN @ \cup {d} ELSE @]
  /\ UNCHANGED <<now, store, seen>>

ListDone(r) ==
  /\ req[r].pc = "check" /\ req[r].kind = "list"
  /\ req[r].todo = {}
  /\ Respond(r, "documents")
  /\ UNCHANGED <<now, store, seen>>

-----------------------------------------------------------------------------

RequestStep(r) ==
  \/ Gate(r)
  \/ SearchChannel(r)
  \/ \E c \in Chunks : ToCandidate(r, c)
  \/ MergeAssemble(r)
  \/ Compose(r)
  \/ GatewayReturn(r)
  \/ GatewayError(r)
  \/ CheckDocument(r)
  \/ FetchContent(r)
  \/ \E d \in Docs : ListOne(r, d)
  \/ ListDone(r)

Next ==
  \/ StoreStep
  \/ \E r \in Requests : Arrive(r) \/ RequestStep(r)

Spec == Init /\ [][Next]_vars

(* Every request has a thread of its own, and the gateway answers or       *)
(* raises.                                                                 *)
FairSpec == Spec /\ \A r \in Requests : WF_vars(RequestStep(r))

-----------------------------------------------------------------------------
(* Properties.                                                             *)

DocsOf(C) == {DocOf[c] : c \in C}

TypeOK ==
  /\ now \in 0 .. MaxTime
  /\ store \in [Docs -> Acl \cup {None}]
  /\ req \in [Requests -> Request]
  /\ seen \in [Requests -> SUBSET Docs]

(* Whatever a request ranks, puts in a prompt, cites, lists or serves      *)
(* comes from a document its caller was entitled to see at some moment     *)
(* since the request arrived: a request that arrives after a revocation    *)
(* never shows the document, although ACLs are read chunk by chunk,        *)
(* evaluated later, and change in between.                                 *)
ShownWasVisible ==
  \A r \in Requests :
    DocsOf(req[r].evidence) \cup req[r].docs \subseteq seen[r]

(* The response to a caller who could see nothing is the one a system that *)
(* holds no documents would give, and no model call was made for it.       *)
BlankOutcome(kind, ctx) ==
  CASE ~ctx.verified                        -> "forbidden"
    [] ctx.verified /\ kind = "content"     -> "not_found"
    [] ctx.verified /\ kind = "list"        -> "documents"
    [] ctx.verified /\ kind = "search"      ->
         IF AuthorizeScope(ctx) THEN "results" ELSE "forbidden"
    [] ctx.verified /\ kind = "answer"      ->
         IF AuthorizeScope(ctx) THEN "insufficient" ELSE "unauthorized_scope"

NoExistenceLeak ==
  \A r \in Requests :
    seen[r] = {} =>
      /\ req[r].pc \notin {"gateway", "fetch"}
      /\ req[r].pc = "done" =>
           req[r].outcome = BlankOutcome(req[r].kind, req[r].ctx)

(* An answer that reaches the user rests on current guidance that was in   *)
(* its prompt, discloses a conflict the evidence holds within a document   *)
(* family, and no draft that failed validation leaves a trace.             *)
AnswerGrounded ==
  \A r \in Requests :
    LET q == req[r] IN
    /\ q.outcome = "answered" =>
         /\ q.cites # {}
         /\ \A c \in q.cites : c \in q.evidence /\ Weight[c] > 0
         /\ HasMaterialConflict(q.evidence) => q.disclosed
    /\ q.outcome # "answered" => q.cites = {}

(* No document crowds the others out, and what the caps cut off is never   *)
(* better than what they keep: an authorized chunk of current guidance is  *)
(* left out only when the evidence, or its document's share of it, is full *)
(* of chunks that rank at least as high.                                   *)
KeepsBest(r) ==
  (req[r].pc = "fanout" /\ req'[r].pc = "compose") =>
    LET E == req'[r].evidence
        ofDoc(d) == {e \in E : DocOf[e] = d}
        fullOfBetter(S, cap, c) ==
          Cardinality(S) = cap /\ \A e \in S : Weight[e] >= Weight[c]
    IN  /\ Cardinality(E) <= MaxEvidence
        /\ \A d \in Docs : Cardinality(ofDoc(d)) <= MaxPerDocument
        /\ \A c \in Authorized(r) \ E :
             \/ fullOfBetter(E, MaxEvidence, c)
             \/ fullOfBetter(ofDoc(DocOf[c]), MaxPerDocument, c)

(* This holds of every ranking of what the channels returned.              *)
BestEvidence == [][\A r \in Requests : KeepsBest(r)]_vars

(* Every request gets a response.                                          *)
Responds ==
  \A r \in Requests : (req[r].pc = "gate") ~> (req[r].pc = "done")

=============================================================================
