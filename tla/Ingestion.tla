----------------------------- MODULE Ingestion -----------------------------
(***************************************************************************)
(* CAD files on their way to the index: gate, extraction with its handlers *)
(* and the conversion fallback, routing, part identity, governance and the *)
(* chunk rows.  Several workers run at once over one part store; a worker  *)
(* may die anywhere and its file is taken up again, and toolkits are       *)
(* installed and the PLM system changes meanwhile.                         *)
(*                                                                         *)
(* Nothing under src/ puts the stages together; their order is that of     *)
(* docs/architecture/06-ingestion-pipeline.md and of the stage tests.      *)
(*                                                                         *)
(* Data: what a file is and holds are constants of the document; a part is *)
(* its number and whether its properties mark it as export controlled;     *)
(* chunks are one card per part and the rest is left out.                  *)
(***************************************************************************)
EXTENDS Integers, Sequences, FiniteSets

CONSTANTS
  None,
  Docs,
  Numbers,      \* part numbers
  Recognised,   \* [Docs -> SUBSET Handlers]: the handlers that sniff it
  Broken,       \* documents whose extraction raises
  Convertible,  \* documents the converter has an importer for
  Parts,        \* [Docs -> Seq(Part)]: the parts extraction finds
  Optional,     \* toolkits that may be missing at first
  Workers       \* bound: number of workers

(* default_registry, in the order of registration.                         *)
Handlers == <<"STEP", "STL", "OLE", "BLOCKED">>
HandlerKeys == {Handlers[i] : i \in 1 .. Len(Handlers)}
Toolkits == {"OCP", "olefile", "FreeCAD"}
Dispositions == {"admit", "review", "reject"}
Part == [number : Numbers \cup {None}, controlled : BOOLEAN]

ASSUME IngestionAssumption ==
  /\ None \notin Numbers \cup HandlerKeys \cup Dispositions
  /\ None \notin Docs \X Nat
  /\ Recognised \in [Docs -> SUBSET HandlerKeys]
  /\ Broken \subseteq Docs /\ Convertible \subseteq Docs
  /\ Parts \in [Docs -> Seq(Part) \ {<<>>}]
  /\ Optional \subseteq Toolkits
  /\ Workers \in Nat

VARIABLES
  installed,  \* toolkits this deployment has
  job,        \* [Docs -> the attempt under way, or what came of the last]
  registry,   \* the part store: [Numbers -> id or None]
  resolved,   \* [Docs -> ids of its parts, as last resolved]
  edges,      \* assembly edges: <<parent id, child id>>
  rows,       \* [Docs -> chunk rows written]
  overlapped  \* history: did two resolve_identity calls ever overlap

identity == <<registry, resolved, edges, overlapped>>
vars == <<installed, job, identity, rows>>

Tiers == {"full_geometry", "metadata_only", "needs_conversion", "blocked"}
Failures == {"unsupported", "handler_error", "timeout", "unavailable"}
Stages == {"idle", "gate", "extract", "convert", "reingest", "route",
           "find", "register", "store", "govern", "index"}

Ids == Docs \X Nat
Verdicts == [acl : BOOLEAN, restricted : BOOLEAN, review : BOOLEAN]

(* "ready" is history: the toolkits installed when the attempt began.      *)
Jobs == [at : Stages, result : Tiers \cup Failures \cup {None},
         disposition : Dispositions \cup {None},
         ids : Seq(Ids), verdicts : Seq(Verdicts), ready : SUBSET Toolkits]

Idle == [at |-> "idle", result |-> None, disposition |-> None,
         ids |-> <<>>, verdicts |-> <<>>, ready |-> {}]

Init ==
  /\ installed = Toolkits \ Optional
  /\ job = [d \in Docs |-> Idle]
  /\ registry = [n \in Numbers |-> None]
  /\ resolved = [d \in Docs |-> <<>>]
  /\ edges = {}
  /\ rows = [d \in Docs |-> {}]
  /\ overlapped = FALSE

At(d, stage)   == job[d].at = stage
Goto(d, stage) == job' = [job EXCEPT ![d].at = stage]
Got(d, result, stage) == job' = [job EXCEPT ![d].result = result, ![d].at = stage]
Ended(to, ready) == [Idle EXCEPT !.disposition = to, !.ready = ready]
Stay == UNCHANGED <<installed, identity, rows>>

-----------------------------------------------------------------------------
(* Handlers.                                                               *)

(* The first handler that sniffs a file; None if no one does.              *)
Detect(d) ==
  IF Recognised[d] = {} THEN None
  ELSE Handlers[CHOOSE i \in 1 .. Len(Handlers) :
                  /\ Handlers[i] \in Recognised[d]
                  /\ \A j \in 1 .. i - 1 : Handlers[j] \notin Recognised[d]]

Needs(h) == IF h = "STEP" THEN {"OCP"} ELSE IF h = "OLE" THEN {"olefile"} ELSE {}

TierOf(h) == IF h = "OLE" THEN "metadata_only"
             ELSE IF h = "BLOCKED" THEN "needs_conversion" ELSE "full_geometry"

(* run_sandboxed turns what a handler raises into a result; the handler    *)
(* for proprietary formats does not open the file.                         *)
RunSandboxed(h, broken) ==
  IF broken /\ h # "BLOCKED" THEN "handler_error" ELSE TierOf(h)

Handle(h, broken) ==
  IF ~(Needs(h) \subseteq installed) THEN "unavailable" ELSE RunSandboxed(h, broken)

CanConvert(d) == "FreeCAD" \in installed /\ d \in Convertible

-----------------------------------------------------------------------------
(* Routing.                                                                *)

(* Mutant of RouteExtraction: only what failed to parse is reviewed.       *)
RouteExtraction_DropsUnavailable(result) ==
  IF result \in Tiers THEN "admit"
  ELSE IF result = "handler_error" THEN "review" ELSE "reject"

RouteExtraction(result) ==
  IF result \in Tiers THEN "admit"
  ELSE IF result = "unsupported" THEN "reject" ELSE "review"

RouteModel(tier) ==
  IF tier = "needs_conversion" THEN "review"
  ELSE IF tier = "blocked" THEN "reject" ELSE "admit"

Route(result) ==
  IF RouteExtraction(result) = "admit" THEN RouteModel(result)
  ELSE RouteExtraction(result)

-----------------------------------------------------------------------------
(* One attempt.                                                            *)

Start(d) ==
  /\ At(d, "idle")
  /\ Cardinality({e \in Docs : ~At(e, "idle")}) < Workers
  /\ job' = [job EXCEPT ![d] = [Idle EXCEPT !.at = "gate", !.ready = installed]]
  /\ Stay

Gate(d) ==
  /\ At(d, "gate")
  /\ IF Detect(d) = None
     THEN job' = [job EXCEPT ![d] = Ended("reject", {})]
     ELSE Goto(d, "extract")
  /\ Stay

(* route_and_extract: a converter is asked only about what needs it.       *)
Extract(d) ==
  /\ At(d, "extract")
  /\ LET result == Handle(Detect(d), d \in Broken)
     IN  Got(d, result, IF result = "needs_conversion" /\ CanConvert(d)
                        THEN "convert" ELSE "route")
  /\ Stay

(* FreeCAD may fail or time out: the file is then routed as it was.        *)
Convert(d) ==
  /\ At(d, "convert")
  /\ Goto(d, "reingest") \/ Goto(d, "route")
  /\ Stay

(* What FreeCAD wrote is named .step, readable or not.                     *)
Reingest(d) ==
  /\ At(d, "reingest")
  /\ \E broken \in BOOLEAN : Got(d, Handle("STEP", broken), "route")
  /\ Stay

Resolving(d) == job[d].at \in {"find", "register", "store"}

Routed(d) ==
  LET to == Route(job[d].result) IN
  /\ At(d, "route")
  /\ job' = [job EXCEPT ![d] = IF to = "admit" THEN [@ EXCEPT !.at = "find"]
                               ELSE Ended(to, @.ready)]
  /\ overlapped' = \/ overlapped
                   \/ to = "admit" /\ \E e \in Docs : Resolving(e)
  /\ UNCHANGED <<installed, registry, resolved, edges, rows>>

-----------------------------------------------------------------------------
(* resolve_identity, one turn of its loop per part.                        *)

(* Mutant of MakePartId: ids unique in their document only.                *)
MakePartId_RefOnly(d, i) == <<CHOOSE e \in Docs : TRUE, i>>

MakePartId(d, i) == <<d, i>>

Turn(d) == Len(job[d].ids) + 1
Number(d) == Parts[d][Turn(d)].number
Assign(d, id) ==
  job' = [job EXCEPT ![d].ids = Append(@, id), ![d].at = "find"]

(* Mutant of Find: a known number is used, and recorded anew.              *)
Find_Overwrites(d) ==
  /\ At(d, "find") /\ Turn(d) <= Len(Parts[d])
  /\ IF Number(d) = None THEN Assign(d, MakePartId(d, Turn(d)))
     ELSE IF registry[Number(d)] # None THEN Assign(d, registry[Number(d)])
     ELSE Goto(d, "register")
  /\ registry' = [n \in Numbers |->
                    IF n = Number(d) /\ registry[n] # None THEN MakePartId(d, Turn(d))
                    ELSE registry[n]]
  /\ UNCHANGED <<installed, resolved, edges, overlapped, rows>>

Find(d) ==
  /\ At(d, "find") /\ Turn(d) <= Len(Parts[d])
  /\ IF Number(d) = None THEN Assign(d, MakePartId(d, Turn(d)))
     ELSE IF registry[Number(d)] # None THEN Assign(d, registry[Number(d)])
     ELSE Goto(d, "register")
  /\ Stay

(* register looks again, without a lock.  Whoever comes first, the caller  *)
(* goes on with its own id.                                                *)
Register(d) ==
  /\ At(d, "register")
  /\ IF registry[Number(d)] = None THEN Goto(d, "store")
     ELSE Assign(d, MakePartId(d, Turn(d)))
  /\ Stay

(* Mutant of Store: the id is used, but not registered.                    *)
Store_Forgets(d) ==
  /\ At(d, "store")
  /\ Assign(d, MakePartId(d, Turn(d)))
  /\ Stay

(* Mutant of Store: the store keeps the document, not the part.            *)
Store_Document(d) ==
  /\ At(d, "store")
  /\ registry' = [registry EXCEPT ![Number(d)] = d]
  /\ Assign(d, MakePartId(d, Turn(d)))
  /\ UNCHANGED <<installed, resolved, edges, overlapped, rows>>

(* The id is stored, over one stored since register looked.                *)
Store(d) ==
  /\ At(d, "store")
  /\ registry' = [registry EXCEPT ![Number(d)] = MakePartId(d, Turn(d))]
  /\ Assign(d, MakePartId(d, Turn(d)))
  /\ UNCHANGED <<installed, resolved, edges, overlapped, rows>>

(* The first part is the root, the others are its children.                *)
Resolved(d) ==
  /\ At(d, "find") /\ Turn(d) > Len(Parts[d])
  /\ resolved' = [resolved EXCEPT ![d] = job[d].ids]
  /\ edges' = edges \cup {<<job[d].ids[1], job[d].ids[i]>> : i \in 2 .. Len(job[d].ids)}
  /\ Goto(d, "govern")
  /\ UNCHANGED <<installed, registry, overlapped, rows>>

-----------------------------------------------------------------------------
(* govern_part, part by part, and the rows.                                *)

(* Mutant of GovernPart: what PLM knows needs no review.                   *)
GovernPart_TrustsPlm(part, synced) ==
  [acl |-> synced, restricted |-> part.controlled, review |-> ~synced]

GovernPart(part, synced) ==
  [acl |-> synced, restricted |-> part.controlled,
   review |-> ~synced \/ part.controlled]

(* The PLM system may know a number, or not, at each lookup.               *)
Govern(d) ==
  LET i == Len(job[d].verdicts) + 1 IN
  /\ At(d, "govern")
  /\ \/ /\ i > Len(Parts[d])
        /\ Goto(d, "index")
     \/ /\ i <= Len(Parts[d])
        /\ \E synced \in {FALSE} \cup {Parts[d][i].number # None} :
             job' = [job EXCEPT ![d].verdicts = Append(@, GovernPart(Parts[d][i], synced))]
  /\ Stay

ChunkModel(d) == 1 .. Len(Parts[d])

(* All chunks share the provenance; without parser and tier they are       *)
(* dropped.                                                                *)
ValidateChunks(chunks, tagged) == IF tagged THEN chunks ELSE {}

(* Rows are kept by chunk id.                                              *)
Index(d) ==
  /\ At(d, "index")
  /\ \E tagged \in BOOLEAN :
       rows' = [rows EXCEPT ![d] = @ \cup ValidateChunks(ChunkModel(d), tagged)]
  /\ job' = [job EXCEPT ![d] = Ended("admit", {})]
  /\ UNCHANGED <<installed, identity>>

(* The worker dies; what the stores have stays, the file is taken again.   *)
WorkerCrash(d) ==
  /\ ~At(d, "idle")
  /\ job' = [job EXCEPT ![d] = Idle]
  /\ Stay

-----------------------------------------------------------------------------

Install(t) ==
  /\ t \notin installed
  /\ installed' = installed \cup {t}
  /\ UNCHANGED <<job, identity, rows>>

Attempt(d) ==
  \/ Start(d) \/ Gate(d) \/ Extract(d) \/ Convert(d) \/ Reingest(d) \/ Routed(d)
  \/ Find(d) \/ Register(d) \/ Store(d) \/ Resolved(d) \/ Govern(d) \/ Index(d)

Next ==
  \/ \E d \in Docs : Attempt(d) \/ WorkerCrash(d)
  \/ \E t \in Toolkits : Install(t)

Spec == Init /\ [][Next]_vars

-----------------------------------------------------------------------------
(* Properties.                                                             *)

TypeOK ==
  /\ installed \subseteq Toolkits
  /\ job \in [Docs -> Jobs]
  /\ registry \in [Numbers -> Ids \cup {None}]
  /\ resolved \in [Docs -> Seq(Ids)]
  /\ edges \subseteq Ids \X Ids
  /\ rows \in [Docs -> SUBSET Nat]
  /\ overlapped \in BOOLEAN

Reading(d) == Recognised[d] \ {"BLOCKED"}

(* quarantine.py:52, "enabling the toolkit later recovers it": a file that *)
(* a handler recognises is never rejected, through conversion or not, and  *)
(* an attempt that began with the toolkits it needs ends in the review     *)
(* queue only for a file that is broken or has no handler that reads it.   *)
RecognisedIsKept ==
  \A d \in Docs :
    /\ job[d].disposition = "reject" => Recognised[d] = {}
    /\ job[d].disposition = "review" =>
         \/ d \in Broken
         \/ Reading(d) = {}
         \/ \E h \in Reading(d) : ~(Needs(h) \subseteq job[d].ready)

(* Rows exist only of a file that was really read, by its own handler or   *)
(* after a conversion; and no part is let go without a review that PLM     *)
(* does not know or that is marked as export controlled.                   *)
ReleasedIsCleared ==
  \A d \in Docs :
    /\ rows[d] # {} =>
         IF Detect(d) = "BLOCKED"
         THEN d \in Convertible /\ {"FreeCAD", "OCP"} \subseteq installed
         ELSE Detect(d) # None /\ d \notin Broken /\ Needs(Detect(d)) \subseteq installed
    /\ \A i \in 1 .. Len(job[d].verdicts) :
         LET part == Parts[d][i]
             verdict == job[d].verdicts[i]
         IN  /\ ~verdict.review => verdict.acl /\ ~part.controlled
             /\ verdict.acl => part.number # None
             /\ part.controlled => verdict.restricted

(* The parts of a document under the names they have in every file.        *)
Name(d, i) == IF Parts[d][i].number # None THEN Parts[d][i].number ELSE <<d, i>>

(* An id never stands for two parts, however workers overlap, crash and    *)
(* repeat; and as long as no two of them resolved at once, a part number   *)
(* has one id in all documents, the one the store holds.                   *)
OneIdPerPart ==
  \A d \in Docs : \A i \in 1 .. Len(resolved[d]) :
    /\ \A e \in Docs : \A j \in 1 .. Len(resolved[e]) :
         resolved[d][i] = resolved[e][j] => Name(d, i) = Name(e, j)
    /\ ~overlapped /\ Parts[d][i].number # None =>
         resolved[d][i] = registry[Parts[d][i].number]

Acyclic(R) ==
  \A S \in SUBSET {e[1] : e \in R} :
    S # {} => \E x \in S : \A y \in S : <<y, x>> \notin R

Structure ==
  UNION {{<<Name(d, 1), Name(d, i)>> : i \in 2 .. Len(Parts[d])} : d \in Docs}

(* Deduplication across files never makes an assembly part of itself, if   *)
(* the files themselves do not, also when one number got two ids.          *)
NoCircularAssembly == Acyclic(Structure) => Acyclic(edges)

(* resolve_identity.py:15, "re-running with the same input produces the    *)
(* same part_ids and edge set": a file that was resolved before, is given  *)
(* the same ids again and adds no edge, whatever other files brought and   *)
(* whoever died meanwhile, as long as no two workers resolved at once.     *)
ReingestKeepsIds ==
  [][~overlapped' =>
       /\ \A d \in Docs : resolved[d] # <<>> => resolved'[d] = resolved[d]
       /\ (\A d \in Docs : resolved[d] = <<>> => resolved'[d] = <<>>) => edges' = edges]_vars

(* resolve_identity.py:10-13, "When two PartRecords share a part_number,   *)
(* they collapse to one canonical part_id".                                *)
OneCanonicalId ==
  \A d, e \in Docs : \A i \in 1 .. Len(resolved[d]) : \A j \in 1 .. Len(resolved[e]) :
    Parts[d][i].number # None /\ Parts[d][i].number = Parts[e][j].number
      => resolved[d][i] = resolved[e][j]

=============================================================================
