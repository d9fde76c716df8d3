-------------------------- MODULE Ingestion_proofs --------------------------
(***************************************************************************)
(* Proofs about Ingestion, for any files, parts, workers and toolkits.     *)
(*                                                                         *)
(* JobInv says what an attempt has established at each stage.  It survives *)
(* the steps of the others because toolkits are only added and, while no   *)
(* two workers resolve at once, the part store never changes an id.        *)
(***************************************************************************)
EXTENDS Ingestion, TLAPS

USE IngestionAssumption

Excused(d, ready) ==
  \/ d \in Broken
  \/ Reading(d) = {}
  \/ \E h \in Reading(d) : ~(Needs(h) \subseteq ready)

(* The file of d was really read.                                          *)
Opened(d) ==
  IF Detect(d) = "BLOCKED"
  THEN d \in Convertible /\ {"FreeCAD", "OCP"} \subseteq installed
  ELSE Detect(d) # None /\ d \notin Broken /\ Needs(Detect(d)) \subseteq installed

(* An id is that of some part with the same name.                          *)
Names(id, name) ==
  /\ id \in Ids /\ id[2] \in 1 .. Len(Parts[id[1]])
  /\ Name(id[1], id[2]) = name

IdsFit(d, ids) ==
  /\ Len(ids) <= Len(Parts[d])
  /\ \A i \in 1 .. Len(ids) :
       /\ Names(ids[i], Name(d, i))
       /\ Parts[d][i].number = None => ids[i] = <<d, i>>
       /\ ~overlapped /\ Parts[d][i].number # None => ids[i] = registry[Parts[d][i].number]

Cleared(part, verdict) ==
  /\ ~verdict.review => verdict.acl /\ ~part.controlled
  /\ verdict.acl => part.number # None
  /\ part.controlled => verdict.restricted

Read == {"full_geometry", "metadata_only"}
Unread == {"needs_conversion", "unavailable", "handler_error"}

StageFits(d, j) ==
  /\ j.at = "extract" => Detect(d) # None
  /\ j.at \in {"convert", "reingest"} =>
       /\ Detect(d) = "BLOCKED" /\ d \in Convertible /\ "FreeCAD" \in installed
       /\ j.result = "needs_conversion"
  /\ j.at = "route" =>
       /\ j.result \in Read => Opened(d)
       /\ j.result \in Unread => Excused(d, j.ready)
       /\ j.result \in Read \cup Unread
  /\ j.at \in {"find", "register", "store", "govern", "index"} => Opened(d)
  /\ j.at \in {"register", "store"} =>
       /\ Len(j.ids) + 1 <= Len(Parts[d])
       /\ Parts[d][Len(j.ids) + 1].number # None

JobInv(d, j) ==
  /\ j \in Jobs
  /\ j.ready \subseteq installed
  /\ j.disposition = "reject" => Recognised[d] = {}
  /\ j.disposition = "review" => Excused(d, j.ready)
  /\ StageFits(d, j)
  /\ IdsFit(d, j.ids)
  /\ Len(j.verdicts) <= Len(Parts[d])
  /\ \A i \in 1 .. Len(j.verdicts) : Cleared(Parts[d][i], j.verdicts[i])

Registered ==
  \A n \in Numbers : registry[n] # None => Names(registry[n], n)

(* As long as no two workers resolved at once, one at most is about to,    *)
(* and what it found unknown still is.                                     *)
Exclusive ==
  ~overlapped =>
    \A d \in Docs : Resolving(d) =>
      /\ \A e \in Docs : Resolving(e) => e = d
      /\ ~At(d, "find") => registry[Number(d)] = None

NameOf(id) == Name(id[1], id[2])

EdgesFit == \A e \in edges : <<NameOf(e[1]), NameOf(e[2])>> \in Structure

(* What was resolved was resolved whole, and its edges are kept.           *)
EdgesKept ==
  \A d \in Docs : resolved[d] # <<>> =>
    /\ Len(resolved[d]) = Len(Parts[d])
    /\ \A i \in 2 .. Len(resolved[d]) : <<resolved[d][1], resolved[d][i]>> \in edges

IInv ==
  /\ TypeOK
  /\ \A d \in Docs : JobInv(d, job[d]) /\ IdsFit(d, resolved[d])
  /\ \A d \in Docs : rows[d] # {} => Opened(d)
  /\ Registered /\ Exclusive /\ EdgesFit /\ EdgesKept

-----------------------------------------------------------------------------
(* Handlers.                                                               *)

(* Detection finds a handler if one recognises the file, the one for       *)
(* proprietary formats only if no other does.                              *)
LEMMA DetectFits ==
  ASSUME NEW d \in Docs
  PROVE  /\ Recognised[d] = {} => Detect(d) = None
         /\ Recognised[d] # {} => Detect(d) \in Recognised[d] /\ Detect(d) # None
         /\ Detect(d) = "BLOCKED" => Reading(d) = {}
         /\ Detect(d) # None /\ Detect(d) # "BLOCKED" => Detect(d) \in Reading(d)
         /\ Detect(d) # None => Detect(d) \in HandlerKeys
<1> DEFINE R == Recognised[d]
           P(i) == Handlers[i] \in R /\ \A j \in 1 .. i - 1 : Handlers[j] \notin R
<1>1. /\ Handlers[1] = "STEP" /\ Handlers[2] = "STL" /\ Handlers[3] = "OLE"
      /\ Handlers[4] = "BLOCKED" /\ Len(Handlers) = 4
  BY DEF Handlers
<1>2. HandlerKeys = {"STEP", "STL", "OLE", "BLOCKED"}
  BY <1>1 DEF HandlerKeys
<1>3. R \subseteq {"STEP", "STL", "OLE", "BLOCKED"}
  BY <1>2
<1>4. CASE R = {}
  BY <1>4 DEF Detect, Reading
<1>5. CASE R # {}
  <2>1. \E i \in 1 .. 4 : P(i)
    <3>1. CASE "STEP" \in R
      BY <1>1, <3>1
    <3>2. CASE "STEP" \notin R /\ "STL" \in R
      BY <1>1, <3>2
    <3>3. CASE "STEP" \notin R /\ "STL" \notin R /\ "OLE" \in R
      BY <1>1, <3>3
    <3>4. CASE "STEP" \notin R /\ "STL" \notin R /\ "OLE" \notin R /\ "BLOCKED" \in R
      BY <1>1, <3>4
    <3> QED BY <1>3, <1>5, <3>1, <3>2, <3>3, <3>4
  <2> DEFINE i == CHOOSE k \in 1 .. Len(Handlers) : P(k)
  <2>2. i \in 1 .. 4 /\ P(i)
    BY <1>1, <2>1
  <2>3. Detect(d) = Handlers[i]
    BY <1>5 DEF Detect
  <2>4. Detect(d) \in R
    BY <2>2, <2>3
  <2>7. i = 1 \/ i = 2 \/ i = 3 \/ i = 4
    BY <2>2
  <2> HIDE DEF i
  <2>5. Detect(d) = "BLOCKED" => i = 4
    BY <1>1, <2>3, <2>7
  <2>6. i = 4 => "STEP" \notin R /\ "STL" \notin R /\ "OLE" \notin R
    BY <1>1, <2>2
  <2> QED BY <1>2, <1>3, <1>5, <2>4, <2>5, <2>6 DEF Reading
<1> QED BY <1>4, <1>5

(* What is admitted, and what goes to the review queue.                    *)
LEMMA RouteFits ==
  ASSUME NEW result \in Read \cup Unread
  PROVE  /\ Route(result) = "admit" <=> result \in Read
         /\ Route(result) = "review" <=> result \in Unread
BY DEF Route, RouteExtraction, RouteModel, Tiers, Read, Unread

-----------------------------------------------------------------------------
(* Records of attempts.                                                    *)

LEMMA JobType ==
  ASSUME NEW j \in Jobs
  PROVE  /\ j = [at |-> j.at, result |-> j.result, disposition |-> j.disposition,
                 ids |-> j.ids, verdicts |-> j.verdicts, ready |-> j.ready]
         /\ j.at \in Stages /\ j.result \in Tiers \cup Failures \cup {None}
         /\ j.ids \in Seq(Ids) /\ j.verdicts \in Seq(Verdicts) /\ j.ready \in SUBSET Toolkits
BY DEF Jobs

(* A change of stage and result.                                           *)
LEMMA Moved ==
  ASSUME NEW d \in Docs, NEW j, JobInv(d, j),
         NEW at \in Stages, NEW result \in Tiers \cup Failures \cup {None},
         StageFits(d, [j EXCEPT !.result = result, !.at = at])
  PROVE  JobInv(d, [j EXCEPT !.result = result, !.at = at])
<1> DEFINE b == [j EXCEPT !.result = result, !.at = at]
<1>1. b \in Jobs
  BY DEF JobInv, Jobs
<1>2. /\ b.ready = j.ready /\ b.disposition = j.disposition
      /\ b.ids = j.ids /\ b.verdicts = j.verdicts
  BY DEF JobInv, Jobs
<1> HIDE DEF b
<1> QED BY <1>1, <1>2 DEF JobInv, b

LEMMA OnlyStage ==
  ASSUME NEW j \in Jobs, NEW at
  PROVE  [j EXCEPT !.at = at] = [j EXCEPT !.result = j.result, !.at = at]
BY DEF Jobs

LEMMA IdleType == Idle \in Jobs
BY DEF Idle, Jobs, Stages

(* The end of an attempt, and an attempt that died.                        *)
LEMMA EndedFits ==
  ASSUME NEW d \in Docs, NEW to \in Dispositions,
         NEW ready \in SUBSET Toolkits, ready \subseteq installed,
         to = "reject" => Recognised[d] = {},
         to = "review" => Excused(d, ready)
  PROVE  JobInv(d, Ended(to, ready))
<1> DEFINE b == Ended(to, ready)
<1>1. /\ b.at = "idle" /\ b.disposition = to /\ b.ids = <<>> /\ b.verdicts = <<>>
      /\ b.ready = ready
  BY DEF Ended, Idle
<1>2. b \in Jobs
  BY IdleType DEF Ended, Jobs, Dispositions
<1>3. Parts[d] \in Seq(Part)
  OBVIOUS
<1> HIDE DEF b
<1> QED BY <1>1, <1>2, <1>3 DEF JobInv, StageFits, IdsFit, Dispositions, b

LEMMA IdleFits ==
  ASSUME NEW d \in Docs
  PROVE  JobInv(d, Idle)
<1>1. Parts[d] \in Seq(Part)
  OBVIOUS
<1> QED BY <1>1, IdleType DEF Idle, JobInv, StageFits, IdsFit, Dispositions

LEMMA StartFits ==
  ASSUME NEW d \in Docs, TypeOK
  PROVE  JobInv(d, [Idle EXCEPT !.at = "gate", !.ready = installed])
<1> DEFINE b == [Idle EXCEPT !.at = "gate", !.ready = installed]
<1>1. /\ b.at = "gate" /\ b.disposition = None /\ b.ids = <<>> /\ b.verdicts = <<>>
      /\ b.ready = installed
  BY DEF Idle
<1>2. b \in Jobs
  BY IdleType DEF Jobs, Stages, TypeOK
<1>3. Parts[d] \in Seq(Part)
  OBVIOUS
<1> HIDE DEF b
<1> QED BY <1>1, <1>2, <1>3 DEF JobInv, StageFits, IdsFit, Dispositions, b

(* One more id, one more verdict.                                          *)
LEMMA IdAdded ==
  ASSUME NEW j \in Jobs, NEW id \in Ids
  PROVE  LET b == [j EXCEPT !.ids = Append(@, id), !.at = "find"]
         IN  /\ b \in Jobs /\ b.at = "find"
             /\ b.ids = Append(j.ids, id) /\ b.verdicts = j.verdicts
             /\ b.ready = j.ready /\ b.disposition = j.disposition
<1>1. j.ids \in Seq(Ids) /\ Append(j.ids, id) \in Seq(Ids)
  BY JobType
<1> DEFINE s == Append(j.ids, id)
<1> HIDE DEF s
<1>2. s \in Seq(Ids)
  BY <1>1 DEF s
<1>3. LET b == [j EXCEPT !.ids = s, !.at = "find"]
      IN  /\ b \in Jobs /\ b.at = "find"
          /\ b.ids = s /\ b.verdicts = j.verdicts
          /\ b.ready = j.ready /\ b.disposition = j.disposition
  BY <1>2 DEF Jobs, Stages
<1> QED BY <1>3 DEF s

LEMMA VerdictAdded ==
  ASSUME NEW j \in Jobs, NEW v \in Verdicts
  PROVE  LET b == [j EXCEPT !.verdicts = Append(@, v)]
         IN  /\ b \in Jobs /\ b.at = j.at /\ b.result = j.result
             /\ b.ids = j.ids /\ b.verdicts = Append(j.verdicts, v)
             /\ b.ready = j.ready /\ b.disposition = j.disposition
<1>1. j.verdicts \in Seq(Verdicts) /\ Append(j.verdicts, v) \in Seq(Verdicts)
  BY JobType
<1> DEFINE s == Append(j.verdicts, v)
<1> HIDE DEF s
<1>2. s \in Seq(Verdicts)
  BY <1>1 DEF s
<1>3. LET b == [j EXCEPT !.verdicts = s]
      IN  /\ b \in Jobs /\ b.at = j.at /\ b.result = j.result
          /\ b.ids = j.ids /\ b.verdicts = s
          /\ b.ready = j.ready /\ b.disposition = j.disposition
  BY <1>2 DEF Jobs
<1> QED BY <1>3 DEF s

-----------------------------------------------------------------------------
(* What the others do.                                                     *)

(* Toolkits are only added, overlaps are not forgotten, and without one    *)
(* ids never change.                                                       *)
Grows ==
  /\ installed \subseteq installed'
  /\ ~overlapped' => \A n \in Numbers : registry[n] # None => registry'[n] = registry[n]
  /\ ~overlapped' => ~overlapped

(* IdsFit of these ids in the next state.                                  *)
IdsFitNext(d, ids) ==
  /\ Len(ids) <= Len(Parts[d])
  /\ \A i \in 1 .. Len(ids) :
       /\ Names(ids[i], Name(d, i))
       /\ Parts[d][i].number = None => ids[i] = <<d, i>>
       /\ ~overlapped' /\ Parts[d][i].number # None => ids[i] = registry'[Parts[d][i].number]

LEMMA IdsKept ==
  ASSUME Grows, NEW d \in Docs, NEW ids, IdsFit(d, ids)
  PROVE  IdsFitNext(d, ids)
<1>1. Parts[d] \in Seq(Part)
  OBVIOUS
<1>2. ASSUME NEW i \in 1 .. Len(ids), ~overlapped', Parts[d][i].number # None
      PROVE  ids[i] = registry'[Parts[d][i].number]
  <2>1. Len(ids) <= Len(Parts[d])
    BY DEF IdsFit
  <2>2. i \in 1 .. Len(Parts[d])
    BY <1>1, <2>1
  <2>3. Parts[d][i].number \in Numbers
    <3>1. Parts[d][i] \in Part
      BY <1>1, <2>2
    <3> QED BY <1>2, <3>1 DEF Part
  <2>4. ids[i] = registry[Parts[d][i].number] /\ ids[i] \in Ids
    BY <1>2 DEF IdsFit, Names, Grows
  <2>5. ids[i] # None
    BY <2>4 DEF Ids
  <2> QED BY <1>2, <2>3, <2>4, <2>5 DEF Grows
<1> QED BY <1>2 DEF IdsFit, IdsFitNext

LEMMA JobKept ==
  ASSUME Grows, NEW d \in Docs, NEW j, JobInv(d, j)
  PROVE  JobInv(d, j)'
<1>1. IdsFit(d, j.ids)'
  <2>1. IdsFitNext(d, j.ids)
    BY IdsKept DEF JobInv
  <2> QED BY <2>1 DEF IdsFit, IdsFitNext, Names, Name
<1>2. Opened(d) => Opened(d)'
  BY DEF Grows, Opened, Detect
<1>3. Excused(d, j.ready)' = Excused(d, j.ready)
  BY DEF Excused, Reading, Needs
<1>4. StageFits(d, j)'
  BY <1>2, <1>3 DEF JobInv, StageFits, Grows, Detect
<1> QED BY <1>1, <1>3, <1>4 DEF JobInv, Grows, Cleared

-----------------------------------------------------------------------------
(* A step of an attempt.  Store comes on its own: it writes the part store.*)

Step(d) ==
  \/ Start(d) \/ Gate(d) \/ Extract(d) \/ Convert(d) \/ Reingest(d) \/ Routed(d)
  \/ Find(d) \/ Register(d) \/ Resolved(d) \/ Govern(d) \/ Index(d) \/ WorkerCrash(d)

Becomes(d, b) == job' = [job EXCEPT ![d] = b]

LEMMA StageSteps ==
  ASSUME TypeOK, NEW d \in Docs, JobInv(d, job[d]),
         Start(d) \/ Gate(d) \/ Extract(d) \/ Convert(d) \/ Reingest(d) \/ Routed(d)
           \/ WorkerCrash(d)
  PROVE  \E b : Becomes(d, b) /\ JobInv(d, b)
<1> DEFINE j == job[d]
<1>1. /\ j \in Jobs /\ JobInv(d, j) /\ j.ready \subseteq installed
      /\ j.ready \in SUBSET Toolkits /\ StageFits(d, j)
  BY JobType DEF TypeOK, JobInv
<1>2. ASSUME NEW at \in Stages, NEW result \in Tiers \cup Failures \cup {None},
             Becomes(d, [j EXCEPT !.result = result, !.at = at]),
             StageFits(d, [j EXCEPT !.result = result, !.at = at])
      PROVE  \E b : Becomes(d, b) /\ JobInv(d, b)
  BY <1>1, <1>2, Moved
<1>3. ASSUME NEW at \in Stages, NEW result \in Tiers \cup Failures \cup {None}
      PROVE  LET b == [j EXCEPT !.result = result, !.at = at]
             IN  b.at = at /\ b.result = result /\ b.ready = j.ready /\ b.ids = j.ids
  BY <1>1 DEF Jobs
<1>4. j.result \in Tiers \cup Failures \cup {None}
  BY <1>1, JobType
<1>5. CASE Start(d)
  BY <1>5, StartFits DEF Start, Becomes
<1>6. CASE Gate(d)
  <2>1. CASE Detect(d) = None
    <3>1. JobInv(d, Ended("reject", {}))
      BY <2>1, DetectFits, EndedFits DEF Dispositions
    <3> QED BY <1>6, <2>1, <3>1 DEF Gate, Becomes
  <2>2. CASE Detect(d) # None
    <3>1. Becomes(d, [j EXCEPT !.result = j.result, !.at = "extract"])
      BY <1>1, <1>6, <2>2, OnlyStage DEF Gate, Goto, Becomes
    <3>2. StageFits(d, [j EXCEPT !.result = j.result, !.at = "extract"])
      BY <1>3, <1>4, <2>2 DEF StageFits, Stages
    <3> QED BY <1>2, <1>4, <3>1, <3>2 DEF Stages
  <2> QED BY <2>1, <2>2
<1>7. CASE Extract(d)
  <2> DEFINE result == Handle(Detect(d), d \in Broken)
             at == IF result = "needs_conversion" /\ CanConvert(d) THEN "convert" ELSE "route"
  <2>1. Becomes(d, [j EXCEPT !.result = result, !.at = at])
    BY <1>7 DEF Extract, Got, Becomes
  <2>2. Detect(d) \in HandlerKeys
    BY <1>1, <1>7, DetectFits DEF Extract, At, StageFits
  <2>3. /\ result \in Read \cup Unread
        /\ result = "unavailable" => ~(Needs(Detect(d)) \subseteq installed)
        /\ result = "handler_error" => d \in Broken
        /\ result = "needs_conversion" => Detect(d) = "BLOCKED"
        /\ result \in Read => Detect(d) # "BLOCKED" /\ d \notin Broken
                              /\ Needs(Detect(d)) \subseteq installed
    BY DEF Handle, RunSandboxed, TierOf, Read, Unread
  <2>4. Detect(d) # None
    BY <2>2
  <2>5. result \in Unread => Excused(d, j.ready)
    BY <1>1, <2>3, <2>4, DetectFits DEF Excused, Unread, Reading, Needs
  <2>6. result \in Read => Opened(d)
    BY <2>3, <2>4 DEF Opened
  <2>7. at \in Stages /\ result \in Tiers \cup Failures \cup {None}
    BY <2>3 DEF Stages, Read, Unread, Tiers, Failures
  <2>8. at = "convert" => Detect(d) = "BLOCKED" /\ CanConvert(d) /\ result = "needs_conversion"
    BY <2>3
  <2>9. at = "route" \/ at = "convert"
    OBVIOUS
  <2> HIDE DEF result, at
  <2>10. StageFits(d, [j EXCEPT !.result = result, !.at = at])
    BY <1>3, <2>3, <2>5, <2>6, <2>7, <2>8, <2>9 DEF StageFits, CanConvert
  <2> QED BY <1>2, <2>1, <2>7, <2>10
<1>8. CASE Convert(d)
  <2>1. /\ Detect(d) = "BLOCKED" /\ d \in Convertible /\ "FreeCAD" \in installed
        /\ j.result = "needs_conversion"
    BY <1>1, <1>8 DEF Convert, At, StageFits
  <2>2. Reading(d) = {}
    BY <2>1, DetectFits
  <2>3. ASSUME NEW at \in {"reingest", "route"}, Goto(d, at)
        PROVE  \E b : Becomes(d, b) /\ JobInv(d, b)
    <3>1. Becomes(d, [j EXCEPT !.result = j.result, !.at = at])
      BY <1>1, <2>3, OnlyStage DEF Goto, Becomes
    <3>2. at \in Stages
      BY DEF Stages
    <3>3. StageFits(d, [j EXCEPT !.result = j.result, !.at = at])
      BY <1>3, <1>4, <2>1, <2>2, <3>2 DEF StageFits, Excused, Read, Unread
    <3> QED BY <1>2, <1>4, <3>1, <3>2, <3>3
  <2> QED BY <1>8, <2>3 DEF Convert
<1>9. CASE Reingest(d)
  <2>1. Detect(d) = "BLOCKED" /\ d \in Convertible /\ "FreeCAD" \in installed
    BY <1>1, <1>9 DEF Reingest, At, StageFits
  <2>2. Reading(d) = {}
    BY <2>1, DetectFits
  <2>3. PICK broken \in BOOLEAN : Got(d, Handle("STEP", broken), "route")
    BY <1>9 DEF Reingest
  <2> DEFINE result == Handle("STEP", broken)
  <2>4. result \in Read \cup Unread /\ (result \in Read => Needs("STEP") \subseteq installed)
    BY DEF Handle, RunSandboxed, TierOf, Read, Unread
  <2>5. result \in Tiers \cup Failures \cup {None} /\ "route" \in Stages
    BY <2>4 DEF Stages, Read, Unread, Tiers, Failures
  <2>6. Becomes(d, [j EXCEPT !.result = result, !.at = "route"])
    BY <2>3 DEF Got, Becomes
  <2> HIDE DEF result
  <2>7. result \in Read => Opened(d)
    BY <2>1, <2>4 DEF Opened, Needs
  <2>8. StageFits(d, [j EXCEPT !.result = result, !.at = "route"])
    BY <1>3, <2>2, <2>4, <2>5, <2>7 DEF StageFits, Excused
  <2> QED BY <1>2, <2>5, <2>6, <2>8
<1>10. CASE Routed(d)
  <2>1. /\ j.at = "route" /\ j.result \in Read \cup Unread
        /\ j.result \in Read => Opened(d)
        /\ j.result \in Unread => Excused(d, j.ready)
    BY <1>1, <1>10 DEF Routed, At, StageFits
  <2>2. CASE j.result \in Read
    <3>1. Becomes(d, [j EXCEPT !.result = j.result, !.at = "find"])
      BY <1>1, <1>10, <2>2, RouteFits, OnlyStage DEF Routed, Becomes
    <3>2. StageFits(d, [j EXCEPT !.result = j.result, !.at = "find"])
      BY <1>3, <1>4, <2>1, <2>2 DEF StageFits, Stages
    <3> QED BY <1>2, <1>4, <3>1, <3>2 DEF Stages
  <2>3. CASE j.result \in Unread /\ j.result \notin Read
    <3>1. Route(j.result) = "review"
      BY <2>3, RouteFits
    <3>2. Becomes(d, Ended("review", j.ready))
      BY <1>10, <3>1 DEF Routed, Becomes
    <3>3. JobInv(d, Ended("review", j.ready))
      BY <1>1, <2>1, <2>3, EndedFits DEF Dispositions
    <3> QED BY <3>2, <3>3
  <2> QED BY <2>1, <2>2, <2>3
<1>11. CASE WorkerCrash(d)
  BY <1>11, IdleFits DEF WorkerCrash, Becomes
<1> QED BY <1>5, <1>6, <1>7, <1>8, <1>9, <1>10, <1>11

(* A part that is given an id.                                             *)
LEMMA AssignFits ==
  ASSUME TypeOK, NEW d \in Docs, JobInv(d, job[d]), Resolving(d),
         NEW n, n = Turn(d), n <= Len(Parts[d]),
         NEW id \in Ids, Assign(d, id), Names(id, Name(d, n)),
         Parts[d][n].number = None => id = <<d, n>>,
         ~overlapped /\ Parts[d][n].number # None => id = registry[Parts[d][n].number]
  PROVE  \E b : Becomes(d, b) /\ JobInv(d, b)
<1> DEFINE j == job[d]
           b == [j EXCEPT !.ids = Append(@, id), !.at = "find"]
<1>1. /\ j \in Jobs /\ j.ids \in Seq(Ids) /\ Opened(d) /\ n = Len(j.ids) + 1
      /\ Parts[d] \in Seq(Part) /\ n \in 1 .. Len(Parts[d])
  BY JobType DEF TypeOK, JobInv, Resolving, StageFits, Turn
<1>2. Becomes(d, b)
  BY DEF Assign, Becomes
<1>3. /\ b \in Jobs /\ b.at = "find" /\ b.ids = Append(j.ids, id)
      /\ b.verdicts = j.verdicts /\ b.ready = j.ready /\ b.disposition = j.disposition
  BY <1>1, IdAdded
<1> HIDE DEF b
<1>4. IdsFit(d, Append(j.ids, id))
  <2>1. Len(Append(j.ids, id)) = n
    BY <1>1
  <2>2. ASSUME NEW i \in 1 .. n
        PROVE  Append(j.ids, id)[i] = IF i = n THEN id ELSE j.ids[i]
    BY <1>1
  <2> QED BY <1>1, <2>1, <2>2 DEF IdsFit, JobInv
<1>5. JobInv(d, b)
  BY <1>1, <1>3, <1>4 DEF JobInv, StageFits
<1> QED BY <1>2, <1>5

(* A part without a number, or with a number the store knows.              *)
LEMMA FindFits ==
  ASSUME TypeOK, Registered, NEW d \in Docs, JobInv(d, job[d]), Find(d)
  PROVE  \E b : Becomes(d, b) /\ JobInv(d, b)
<1> DEFINE j == job[d]
           n == Len(j.ids) + 1
<1>1. /\ j \in Jobs /\ j.ids \in Seq(Ids) /\ j.at = "find" /\ Opened(d)
      /\ Parts[d] \in Seq(Part) /\ n \in 1 .. Len(Parts[d])
  BY JobType DEF TypeOK, JobInv, Find, At, StageFits, Turn
<1>2. Parts[d][n] \in Part
  BY <1>1
<1>3. n = Turn(d) /\ n <= Len(Parts[d]) /\ Resolving(d)
  BY <1>1 DEF Turn, Resolving
<1>4. CASE Parts[d][n].number = None
  <2>1. Assign(d, <<d, n>>) /\ <<d, n>> \in Ids
    BY <1>1, <1>4 DEF Find, Number, Turn, MakePartId, Ids
  <2>2. Names(<<d, n>>, Name(d, n))
    BY <1>1, <2>1 DEF Names
  <2> QED BY <1>3, <1>4, <2>1, <2>2, AssignFits
<1>5. CASE Parts[d][n].number # None /\ registry[Parts[d][n].number] # None
  <2> DEFINE id == registry[Parts[d][n].number]
  <2>1. Assign(d, id)
    BY <1>5 DEF Find, Number, Turn
  <2>2. Parts[d][n].number \in Numbers
    BY <1>2, <1>5 DEF Part
  <2>3. Names(id, Parts[d][n].number) /\ id \in Ids
    BY <1>5, <2>2 DEF Registered, Names
  <2>4. Names(id, Name(d, n))
    BY <1>5, <2>3 DEF Name
  <2> HIDE DEF n, id
  <2> QED BY <1>3, <1>5, <2>1, <2>3, <2>4, AssignFits DEF id
<1>6. CASE Parts[d][n].number # None /\ registry[Parts[d][n].number] = None
  <2>1. Becomes(d, [j EXCEPT !.result = j.result, !.at = "register"])
    BY <1>1, <1>6, OnlyStage DEF Find, Number, Turn, Goto, Becomes
  <2>2. j.result \in Tiers \cup Failures \cup {None} /\ "register" \in Stages
    BY <1>1, JobType DEF Stages
  <2>3. LET b == [j EXCEPT !.result = j.result, !.at = "register"]
        IN  b.at = "register" /\ b.ids = j.ids
    BY <1>1 DEF Jobs
  <2>4. StageFits(d, [j EXCEPT !.result = j.result, !.at = "register"])
    BY <1>1, <1>6, <2>3 DEF StageFits
  <2> QED BY <2>1, <2>2, <2>4, Moved
<1> QED BY <1>4, <1>5, <1>6

(* A number that was unknown when it was looked up: it still is, or two    *)
(* workers overlap and the caller's own id does for both.                  *)
LEMMA RegisterFits ==
  ASSUME TypeOK, Exclusive, NEW d \in Docs, JobInv(d, job[d]), Register(d)
  PROVE  \E b : Becomes(d, b) /\ JobInv(d, b)
<1> DEFINE j == job[d]
           n == Len(j.ids) + 1
<1>1. /\ j \in Jobs /\ j.ids \in Seq(Ids) /\ j.at = "register" /\ Opened(d)
      /\ Parts[d] \in Seq(Part) /\ n \in 1 .. Len(Parts[d]) /\ Parts[d][n].number # None
  BY JobType DEF TypeOK, JobInv, Register, At, StageFits
<1>2. n = Turn(d) /\ n <= Len(Parts[d]) /\ Resolving(d) /\ Number(d) = Parts[d][n].number
  BY <1>1 DEF Turn, Resolving, Number
<1>3. CASE registry[Number(d)] = None
  <2>1. Becomes(d, [j EXCEPT !.result = j.result, !.at = "store"])
    BY <1>1, <1>3, OnlyStage DEF Register, Goto, Becomes
  <2>2. j.result \in Tiers \cup Failures \cup {None} /\ "store" \in Stages
    BY <1>1, JobType DEF Stages
  <2>3. LET b == [j EXCEPT !.result = j.result, !.at = "store"]
        IN  b.at = "store" /\ b.ids = j.ids
    BY <1>1 DEF Jobs
  <2>4. StageFits(d, [j EXCEPT !.result = j.result, !.at = "store"])
    BY <1>1, <2>3 DEF StageFits
  <2> QED BY <2>1, <2>2, <2>4, Moved
<1>4. CASE registry[Number(d)] # None
  <2>1. <<d, n>> \in Ids
    BY <1>1 DEF Ids
  <2>2. Assign(d, <<d, n>>) /\ <<d, n>> \in Ids
    <3> HIDE DEF n
    <3> QED BY <1>2, <1>4, <2>1 DEF Register, MakePartId
  <2>3. Names(<<d, n>>, Name(d, n))
    BY <1>1, <2>1 DEF Names
  <2>4. overlapped
    BY <1>1, <1>2, <1>4 DEF Exclusive, At
  <2> QED BY <1>1, <1>2, <2>2, <2>3, <2>4, AssignFits
<1> QED BY <1>3, <1>4

(* Verdicts, and the ends of the stages.                                   *)
LEMMA LaterFits ==
  ASSUME TypeOK, NEW d \in Docs, JobInv(d, job[d]), Resolved(d) \/ Govern(d) \/ Index(d)
  PROVE  \E b : Becomes(d, b) /\ JobInv(d, b)
<1> DEFINE j == job[d]
<1>1. /\ j \in Jobs /\ j.at \in {"find", "govern", "index"} /\ Opened(d)
      /\ j.verdicts \in Seq(Verdicts) /\ Parts[d] \in Seq(Part)
      /\ j.result \in Tiers \cup Failures \cup {None}
  BY JobType DEF TypeOK, JobInv, Resolved, Govern, Index, At, StageFits
<1>2. ASSUME NEW at \in {"govern", "index"}, Goto(d, at)
      PROVE  \E b : Becomes(d, b) /\ JobInv(d, b)
  <2>1. Becomes(d, [j EXCEPT !.result = j.result, !.at = at])
    BY <1>1, <1>2, OnlyStage DEF Goto, Becomes
  <2>2. [j EXCEPT !.result = j.result, !.at = at].at = at /\ at \in Stages
    BY <1>1 DEF Jobs, Stages
  <2>3. StageFits(d, [j EXCEPT !.result = j.result, !.at = at])
    BY <1>1, <2>2 DEF StageFits
  <2> QED BY <1>1, <2>1, <2>2, <2>3, Moved
<1>3. CASE Resolved(d)
  BY <1>2, <1>3 DEF Resolved
<1>4. CASE Govern(d)
  <2> DEFINE n == Len(j.verdicts) + 1
  <2>1. CASE Goto(d, "index")
    BY <1>2, <2>1
  <2>2. CASE /\ n <= Len(Parts[d])
             /\ \E synced \in {FALSE} \cup {Parts[d][n].number # None} :
                  job' = [job EXCEPT ![d].verdicts = Append(@, GovernPart(Parts[d][n], synced))]
    <3>1. PICK synced \in {FALSE} \cup {Parts[d][n].number # None} :
            job' = [job EXCEPT ![d].verdicts = Append(@, GovernPart(Parts[d][n], synced))]
      BY <2>2
    <3>2. n \in 1 .. Len(Parts[d]) /\ Parts[d][n] \in Part
      BY <1>1, <2>2
    <3> DEFINE v == GovernPart(Parts[d][n], synced)
               b == [j EXCEPT !.verdicts = Append(@, v)]
    <3>3. Becomes(d, b)
      BY <3>1 DEF Becomes
    <3>4. v \in Verdicts /\ Cleared(Parts[d][n], v)
      BY <3>2 DEF GovernPart, Verdicts, Cleared, Part
    <3> HIDE DEF v
    <3>5. /\ b \in Jobs /\ b.at = j.at /\ b.result = j.result
          /\ b.ids = j.ids /\ b.verdicts = Append(j.verdicts, v)
          /\ b.ready = j.ready /\ b.disposition = j.disposition
      BY <1>1, <3>4, VerdictAdded
    <3> HIDE DEF b
    <3> DEFINE s == j.verdicts
    <3>9. s \in Seq(Verdicts) /\ n = Len(s) + 1
      BY <1>1
    <3> HIDE DEF s
    <3>10. Len(Append(s, v)) = Len(s) + 1
      BY <3>4, <3>9
    <3>11. ASSUME NEW i \in 1 .. Len(s) + 1
           PROVE  Append(s, v)[i] = IF i = Len(s) + 1 THEN v ELSE s[i]
      BY <3>4, <3>9
    <3>6. /\ Len(Append(j.verdicts, v)) = n
          /\ \A i \in 1 .. n : Append(j.verdicts, v)[i] = IF i = n THEN v ELSE j.verdicts[i]
      BY <3>9, <3>10, <3>11 DEF s
    <3>7. \A i \in 1 .. n : Cleared(Parts[d][i], Append(j.verdicts, v)[i])
      BY <1>1, <3>4, <3>6 DEF JobInv
    <3>8. JobInv(d, b)
      BY <1>1, <3>2, <3>5, <3>6, <3>7 DEF JobInv, StageFits
    <3> QED BY <3>3, <3>8
  <2> QED BY <1>4, <2>1, <2>2 DEF Govern
<1>5. CASE Index(d)
  <2>1. JobInv(d, Ended("admit", {}))
    BY EndedFits DEF Dispositions
  <2> QED BY <1>5, <2>1 DEF Index, Becomes
<1> QED BY <1>3, <1>4, <1>5

-----------------------------------------------------------------------------
(* The invariant.                                                          *)

LEMMA InitInv == Init => IInv
<1> SUFFICES ASSUME Init PROVE IInv
  OBVIOUS
<1>1. TypeOK
  <2>1. job \in [Docs -> Jobs] /\ registry \in [Numbers -> Ids \cup {None}]
    BY IdleType DEF Init
  <2>2. resolved \in [Docs -> Seq(Ids)] /\ rows \in [Docs -> SUBSET Nat]
    BY DEF Init
  <2>3. installed \subseteq Toolkits /\ edges \subseteq Ids \X Ids /\ overlapped \in BOOLEAN
    BY DEF Init
  <2> QED BY <2>1, <2>2, <2>3 DEF TypeOK
<1>2. ASSUME NEW d \in Docs PROVE JobInv(d, job[d]) /\ IdsFit(d, resolved[d]) /\ rows[d] = {}
  <2>1. Parts[d] \in Seq(Part)
    OBVIOUS
  <2> QED BY <2>1, IdleFits DEF Init, IdsFit
<1>3. Exclusive
  BY DEF Init, Exclusive, Resolving, Idle
<1>4. Registered /\ EdgesFit /\ EdgesKept
  BY DEF Init, Registered, EdgesFit, EdgesKept
<1> QED BY <1>1, <1>2, <1>3, <1>4 DEF IInv

(* The step of an attempt that does not write the part store.              *)
LEMMA StepInv ==
  ASSUME IInv, NEW d \in Docs, Step(d)
  PROVE  IInv'
<1> USE DEF IInv
<1>1. PICK b : Becomes(d, b) /\ JobInv(d, b)
  BY StageSteps, FindFits, RegisterFits, LaterFits DEF Step
<1>2. /\ UNCHANGED <<installed, registry>> /\ (~overlapped' => ~overlapped)
      /\ overlapped' \in BOOLEAN
  BY DEF Step, Start, Gate, Extract, Convert, Reingest, Routed, Find, Register, Resolved,
         Govern, Index, WorkerCrash, Stay, identity, TypeOK
<1>3. Grows
  BY <1>2 DEF Grows
<1>4. job'[d] = b /\ job' \in [Docs -> Jobs] /\ \A e \in Docs : e # d => job'[e] = job[e]
  BY <1>1 DEF Becomes, JobInv, TypeOK
<1>5. ASSUME NEW e \in Docs PROVE JobInv(e, job[e])'
  <2>1. JobInv(e, job'[e])
    BY <1>1, <1>4
  <2> DEFINE c == job'[e]
  <2> QED BY <1>3, <2>1, JobKept DEF JobInv
<1>6. ASSUME Resolved(d)
      PROVE  /\ resolved' \in [Docs -> Seq(Ids)] /\ edges' \subseteq Ids \X Ids
             /\ rows' = rows /\ EdgesFit' /\ EdgesKept'
             /\ \A e \in Docs : IdsFit(e, resolved[e])'
  <2> DEFINE ids == job[d].ids
  <2>1. /\ ids \in Seq(Ids) /\ Parts[d] \in Seq(Part) /\ Parts[d] # <<>>
        /\ IdsFit(d, ids) /\ Len(ids) = Len(Parts[d]) /\ job[d].at = "find"
    <3>1. ids \in Seq(Ids) /\ Parts[d] \in Seq(Part) /\ Parts[d] # <<>> /\ IdsFit(d, ids)
      BY JobType DEF TypeOK, JobInv
    <3> QED BY <1>6, <3>1 DEF Resolved, Turn, IdsFit, At
  <2> DEFINE new == {<<ids[1], ids[i]>> : i \in 2 .. Len(ids)}
  <2>2. resolved' = [resolved EXCEPT ![d] = ids] /\ edges' = edges \cup new /\ rows' = rows
    BY <1>6 DEF Resolved
  <2>3. Len(ids) >= 1
    BY <2>1
  <2>4. \A i \in 1 .. Len(ids) : ids[i] \in Ids /\ NameOf(ids[i]) = Name(d, i)
    BY <2>1 DEF IdsFit, Names, NameOf
  <2>5. new \subseteq Ids \X Ids
    BY <2>1, <2>3, <2>4
  <2>6. \A e \in new : <<NameOf(e[1]), NameOf(e[2])>> \in Structure
    <3> SUFFICES ASSUME NEW i \in 2 .. Len(ids)
                 PROVE  <<NameOf(ids[1]), NameOf(ids[i])>> \in Structure
      OBVIOUS
    <3>1. NameOf(ids[1]) = Name(d, 1) /\ NameOf(ids[i]) = Name(d, i)
      BY <2>1, <2>3, <2>4
    <3>2. i \in 2 .. Len(Parts[d])
      BY <2>1
    <3> QED BY <3>1, <3>2 DEF Structure
  <2>7. EdgesFit'
    BY <2>2, <2>6 DEF EdgesFit, NameOf, Structure, Name
  <2>8. \A e \in Docs : IdsFit(e, resolved'[e])
    BY <2>1, <2>2 DEF TypeOK
  <2>9. ASSUME NEW e \in Docs PROVE IdsFit(e, resolved[e])'
    <3>1. IdsFit(e, resolved'[e])
      BY <2>8
    <3>2. IdsFitNext(e, resolved'[e])
      BY <1>3, <3>1, IdsKept
    <3> QED BY <3>2 DEF IdsFit, IdsFitNext, Names, Name
  <2>10. resolved' \in [Docs -> Seq(Ids)] /\ edges' \subseteq Ids \X Ids
    BY <2>1, <2>2, <2>5 DEF TypeOK
  <2>11. EdgesKept'
    <3> SUFFICES ASSUME NEW e \in Docs, resolved'[e] # <<>>
                 PROVE  /\ Len(resolved'[e]) = Len(Parts[e])
                        /\ \A i \in 2 .. Len(resolved'[e]) :
                             <<resolved'[e][1], resolved'[e][i]>> \in edges'
      BY DEF EdgesKept
    <3>1. resolved'[e] = IF e = d THEN ids ELSE resolved[e]
      BY <2>2 DEF TypeOK
    <3> QED BY <2>1, <2>2, <3>1 DEF EdgesKept
  <2> HIDE DEF ids
  <2> QED BY <2>2, <2>7, <2>9, <2>10, <2>11
<1>7. ASSUME ~Resolved(d)
      PROVE  /\ resolved' \in [Docs -> Seq(Ids)] /\ edges' \subseteq Ids \X Ids
             /\ EdgesFit' /\ EdgesKept' /\ \A e \in Docs : IdsFit(e, resolved[e])'
  <2>1. UNCHANGED <<resolved, edges>>
    BY <1>7 DEF Step, Start, Gate, Extract, Convert, Reingest, Routed, Find, Register, Govern,
       Index, WorkerCrash, Stay, identity
  <2>2. EdgesFit' /\ EdgesKept'
    BY <2>1 DEF EdgesFit, EdgesKept, NameOf, Structure, Name
  <2>3. ASSUME NEW e \in Docs PROVE IdsFit(e, resolved[e])'
    <3>1. IdsFit(e, resolved'[e])
      BY <2>1
    <3>2. IdsFitNext(e, resolved'[e])
      BY <1>3, <3>1, IdsKept
    <3> QED BY <3>2 DEF IdsFit, IdsFitNext, Names, Name
  <2> QED BY <2>1, <2>2, <2>3 DEF TypeOK
<1>8. rows' \in [Docs -> SUBSET Nat] /\ \A e \in Docs : rows'[e] # {} => Opened(e)'
  <2>1. \A e \in Docs : Opened(e) => Opened(e)'
    BY <1>3 DEF Grows, Opened, Detect
  <2>2. CASE Index(d)
    <3>1. Opened(d)
      BY <2>2 DEF Index, At, JobInv, StageFits
    <3>2. PICK tagged \in BOOLEAN :
            rows' = [rows EXCEPT ![d] = @ \cup ValidateChunks(ChunkModel(d), tagged)]
      BY <2>2 DEF Index
    <3> DEFINE new == ValidateChunks(ChunkModel(d), tagged)
    <3>3. new \subseteq Nat
      BY DEF ValidateChunks, ChunkModel
    <3>6. rows' = [rows EXCEPT ![d] = @ \cup new]
      BY <3>2
    <3> HIDE DEF new
    <3>4. rows' \in [Docs -> SUBSET Nat]
      BY <3>6, <3>3 DEF TypeOK
    <3>5. \A e \in Docs : e # d => rows'[e] = rows[e]
      BY <3>6 DEF TypeOK
    <3> QED BY <2>1, <3>1, <3>4, <3>5
  <2>3. CASE ~Index(d)
    <3>1. rows' = rows
      BY <1>6, <2>3 DEF Step, Start, Gate, Extract, Convert, Reingest, Routed, Find, Register,
         Govern, WorkerCrash, Stay
    <3> QED BY <2>1, <3>1 DEF TypeOK
  <2> QED BY <2>2, <2>3
<1>9. Registered'
  BY <1>2 DEF Registered, Names, Name
<1>10. Exclusive'
  <2> SUFFICES ASSUME ~overlapped' PROVE Exclusive'
    BY DEF Exclusive
  <2>1. ~overlapped
    BY <1>2
  <2>2. ASSUME NEW e \in Docs, e # d
        PROVE  Resolving(e)' = Resolving(e) /\ Number(e)' = Number(e) /\ At(e, "find")' = At(e, "find")
    BY <1>4, <2>2 DEF Resolving, Number, Turn, At
  <2>4. CASE Find(d) \/ Register(d)
    <3>1. Resolving(d)
      BY <2>4 DEF Find, Register, Resolving, At
    <3>2. job'[d].at # "find" => registry[Number(d)] = None /\ job'[d].ids = job[d].ids
      BY <2>4 DEF Find, Register, Goto, Assign, Number, Turn, TypeOK, Jobs
    <3>3. \A e \in Docs : e # d => ~Resolving(e)'
      BY <2>1, <2>2, <3>1 DEF Exclusive
    <3>4. ~At(d, "find")' => registry'[Number(d)'] = None
      BY <1>2, <3>2 DEF At, Number, Turn
    <3> QED BY <3>3, <3>4 DEF Exclusive
  <2>5. CASE Routed(d)
    <3>1. job'[d].at = "find" \/ job'[d].at = "idle"
      BY <2>5 DEF Routed, Ended, Idle, TypeOK, Jobs
    <3>2. job'[d].at = "find" => \A e \in Docs : ~Resolving(e)
      BY <2>5 DEF Routed, Ended, Idle, TypeOK, Jobs
    <3>3. Resolving(d)' <=> job'[d].at = "find"
      BY <3>1 DEF Resolving
    <3>4. At(d, "find")' <=> job'[d].at = "find"
      BY DEF At
    <3>5. CASE job'[d].at = "find"
      <4>1. \A e \in Docs : Resolving(e)' => e = d
        BY <2>2, <3>2, <3>5
      <4> QED BY <3>4, <3>5, <4>1 DEF Exclusive
    <3>6. CASE job'[d].at # "find"
      <4>1. \A e \in Docs : Resolving(e)' =>
              e # d /\ Resolving(e) /\ Number(e)' = Number(e) /\ At(e, "find")' = At(e, "find")
        BY <2>2, <3>3, <3>6
      <4> QED BY <1>2, <2>1, <4>1 DEF Exclusive
    <3> QED BY <3>5, <3>6
  <2>6. CASE ~Find(d) /\ ~Register(d) /\ ~Routed(d)
    <3>1. job'[d].at \notin {"find", "register", "store"}
      <4>7. job \in [Docs -> Jobs] /\ job[d] \in Jobs
        BY DEF TypeOK
      <4>8. \A to, ready : Ended(to, ready).at = "idle"
        BY DEF Ended, Idle
      <4>9. [Idle EXCEPT !.at = "gate", !.ready = installed].at = "gate" /\ Idle.at = "idle"
        BY DEF Idle
      <4>10. ASSUME NEW at, Goto(d, at) PROVE job'[d].at = at
        BY <4>7, <4>10 DEF Goto, Jobs
      <4>1. CASE Start(d) \/ WorkerCrash(d)
        BY <4>1, <4>7, <4>9 DEF Start, WorkerCrash
      <4>2. CASE Gate(d) \/ Index(d)
        BY <4>2, <4>7, <4>8, <4>10 DEF Gate, Index
      <4>3. CASE Extract(d)
        BY <4>3, <4>7 DEF Extract, Got, Jobs
      <4>4. CASE Convert(d) \/ Resolved(d)
        BY <4>4, <4>10 DEF Convert, Resolved
      <4>5. CASE Reingest(d)
        BY <4>5, <4>7 DEF Reingest, Got, Jobs
      <4>6. CASE Govern(d)
        <5>1. CASE Goto(d, "index")
          BY <4>10, <5>1
        <5>2. CASE \E v : job' = [job EXCEPT ![d].verdicts = Append(@, v)]
          BY <4>6, <4>7, <5>2 DEF Govern, At, Jobs
        <5> QED BY <4>6, <5>1, <5>2 DEF Govern
      <4> QED BY <2>6, <4>1, <4>2, <4>3, <4>4, <4>5, <4>6 DEF Step
    <3>2. \A e \in Docs : Resolving(e)' =>
            e # d /\ Resolving(e) /\ Number(e)' = Number(e) /\ At(e, "find")' = At(e, "find")
      BY <2>2, <3>1 DEF Resolving
    <3> QED BY <1>2, <2>1, <3>2 DEF Exclusive
  <2> QED BY <2>4, <2>5, <2>6
<1>11. TypeOK'
  BY <1>2, <1>4, <1>6, <1>7, <1>8 DEF TypeOK
<1> QED BY <1>5, <1>6, <1>7, <1>8, <1>9, <1>10, <1>11

(* The id is stored, over nothing unless two workers overlap.              *)
LEMMA StoreInv ==
  ASSUME IInv, NEW d \in Docs, Store(d)
  PROVE  IInv'
<1> USE DEF IInv
<1> DEFINE j == job[d]
           n == Len(j.ids) + 1
           num == Parts[d][n].number
           id == <<d, n>>
           b == [j EXCEPT !.ids = Append(@, id), !.at = "find"]
<1>1. /\ j \in Jobs /\ j.ids \in Seq(Ids) /\ Parts[d] \in Seq(Part) /\ At(d, "store")
      /\ n \in 1 .. Len(Parts[d]) /\ num # None /\ Opened(d) /\ Number(d) = num
      /\ IdsFit(d, j.ids)
  BY JobType DEF TypeOK, JobInv, StageFits, Store, At, Number, Turn
<1>2. num \in Numbers
  <2>1. Parts[d][n] \in Part
    BY <1>1
  <2> QED BY <1>1, <2>1 DEF Part
<1>3. id \in Ids /\ id # None /\ Names(id, Name(d, n)) /\ Name(d, n) = num
  <2>1. id \in Ids
    BY <1>1 DEF Ids
  <2> QED BY <1>1, <2>1 DEF Ids, Names, Name
<1>4. /\ registry' = [registry EXCEPT ![num] = id]
      /\ Becomes(d, b)
      /\ UNCHANGED <<installed, resolved, edges, overlapped, rows>>
  BY <1>1 DEF Store, Assign, Becomes, MakePartId, Number, Turn
<1>5. /\ b \in Jobs /\ b.at = "find" /\ b.ids = Append(j.ids, id)
      /\ b.verdicts = j.verdicts /\ b.ready = j.ready /\ b.disposition = j.disposition
  BY <1>1, <1>3, IdAdded
<1> HIDE DEF b, id
<1>6. job'[d] = b /\ job' \in [Docs -> Jobs] /\ \A e \in Docs : e # d => job'[e] = job[e]
  BY <1>4, <1>5 DEF Becomes, TypeOK
<1>7. registry' \in [Numbers -> Ids \cup {None}]
  BY <1>2, <1>3, <1>4 DEF TypeOK
<1>9. /\ ~overlapped => registry[num] = None
      /\ registry'[num] = id
  BY <1>1, <1>2, <1>4 DEF Exclusive, Resolving, At, TypeOK
<1>8. Grows
  BY <1>2, <1>4, <1>9 DEF Grows, TypeOK
<1>10. TypeOK'
  BY <1>4, <1>6, <1>7 DEF TypeOK
<1>11. Registered'
  <2>1. Names(id, num)
    BY <1>3
  <2>2. ASSUME NEW m \in Numbers, registry'[m] # None PROVE Names(registry'[m], m)
    BY <1>2, <1>4, <2>1, <2>2 DEF Registered, TypeOK
  <2> QED BY <2>2 DEF Registered, Names, Name
<1>12. JobInv(d, job[d])'
  <2>1. IdsFitNext(d, j.ids)
    BY <1>1, <1>8, IdsKept
  <2>2. IdsFitNext(d, Append(j.ids, id))
    <3>1. Len(Append(j.ids, id)) = n
      BY <1>1, <1>3
    <3>2. ASSUME NEW i \in 1 .. n
          PROVE  Append(j.ids, id)[i] = IF i = n THEN id ELSE j.ids[i]
      BY <1>1, <1>3
    <3>3. n <= Len(Parts[d]) /\ Len(j.ids) = n - 1 /\ n \in Nat
      BY <1>1
    <3>4. ASSUME NEW i \in 1 .. n
          PROVE  /\ Names(Append(j.ids, id)[i], Name(d, i))
                 /\ Parts[d][i].number = None => Append(j.ids, id)[i] = <<d, i>>
                 /\ ~overlapped' /\ Parts[d][i].number # None
                      => Append(j.ids, id)[i] = registry'[Parts[d][i].number]
      <4>1. CASE i = n
        BY <1>1, <1>3, <1>4, <1>9, <3>2, <4>1
      <4>2. CASE i # n
        <5>1. i \in 1 .. Len(j.ids)
          BY <3>3, <4>2
        <5> QED BY <2>1, <3>2, <4>2, <5>1 DEF IdsFitNext
      <4> QED BY <4>1, <4>2
    <3> QED BY <3>1, <3>3, <3>4 DEF IdsFitNext
  <2>3. IdsFitNext(d, job'[d].ids)
    BY <1>5, <1>6, <2>2
  <2>4. IdsFit(d, job[d].ids)'
    BY <2>3 DEF IdsFit, IdsFitNext, Names, Name
  <2>5. Opened(d)'
    BY <1>1, <1>4 DEF Opened, Detect
  <2>7. JobInv(d, j)
    OBVIOUS
  <2>8. /\ job'[d] \in Jobs /\ job'[d].ready \subseteq installed'
        /\ job'[d].at = "find" /\ job'[d].verdicts = j.verdicts
        /\ job'[d].ready = j.ready /\ job'[d].disposition = j.disposition
    BY <1>4, <1>5, <1>6, <2>7 DEF JobInv
  <2>9. StageFits(d, job[d])'
    BY <2>5, <2>8 DEF StageFits
  <2>10. job'[d].disposition = "review" => Excused(d, job'[d].ready)
    BY <2>7, <2>8 DEF JobInv
  <2>11. job'[d].disposition = "reject" => Recognised[d] = {}
    BY <2>7, <2>8 DEF JobInv
  <2>12. /\ Len(job'[d].verdicts) <= Len(Parts[d])
         /\ \A i \in 1 .. Len(job'[d].verdicts) : Cleared(Parts[d][i], job'[d].verdicts[i])
    BY <2>7, <2>8 DEF JobInv
  <2> QED BY <2>4, <2>8, <2>9, <2>10, <2>11, <2>12
        DEF JobInv, Excused, Reading, Needs, Cleared
<1>13. ASSUME NEW e \in Docs, e # d PROVE JobInv(e, job[e])'
  <2>1. JobInv(e, job'[e])
    BY <1>6, <1>13
  <2> DEFINE c == job'[e]
  <2> QED BY <1>8, <2>1, JobKept DEF JobInv
<1>14. ASSUME NEW e \in Docs PROVE IdsFit(e, resolved[e])'
  <2>1. IdsFit(e, resolved'[e])
    BY <1>4
  <2>2. IdsFitNext(e, resolved'[e])
    BY <1>8, <2>1, IdsKept
  <2> QED BY <2>2 DEF IdsFit, IdsFitNext, Names, Name
<1>15. \A e \in Docs : rows'[e] # {} => Opened(e)'
  BY <1>4 DEF Opened, Detect
<1>16. EdgesFit' /\ EdgesKept'
  BY <1>4 DEF EdgesFit, EdgesKept, NameOf, Structure, Name
<1>17. Exclusive'
  <2>1. ~overlapped => \A e \in Docs : e # d => ~Resolving(e)'
    BY <1>1, <1>6 DEF Exclusive, Resolving, At
  <2>2. At(d, "find")'
    BY <1>5, <1>6 DEF At
  <2> QED BY <1>4, <2>1, <2>2 DEF Exclusive
<1> QED BY <1>10, <1>11, <1>12, <1>13, <1>14, <1>15, <1>16, <1>17

LEMMA InstallInv ==
  ASSUME IInv, NEW t \in Toolkits, Install(t)
  PROVE  IInv'
<1> USE DEF IInv
<1>1. /\ installed' = installed \cup {t}
      /\ UNCHANGED <<job, registry, resolved, edges, overlapped, rows>>
  BY DEF Install, identity
<1>2. Grows
  BY <1>1 DEF Grows
<1>3. TypeOK'
  BY <1>1 DEF TypeOK
<1>4. ASSUME NEW e \in Docs PROVE JobInv(e, job[e])'
  <2>1. JobInv(e, job'[e])
    BY <1>1
  <2> DEFINE c == job'[e]
  <2> QED BY <1>2, <2>1, JobKept DEF JobInv
<1>5. ASSUME NEW e \in Docs PROVE IdsFit(e, resolved[e])'
  <2>1. IdsFit(e, resolved'[e])
    BY <1>1
  <2>2. IdsFitNext(e, resolved'[e])
    BY <1>2, <2>1, IdsKept
  <2> QED BY <2>2 DEF IdsFit, IdsFitNext, Names, Name
<1>6. \A e \in Docs : rows'[e] # {} => Opened(e)'
  BY <1>1 DEF Opened, Detect
<1>7. Registered' /\ Exclusive' /\ EdgesFit' /\ EdgesKept'
  BY <1>1 DEF Registered, Exclusive, EdgesFit, EdgesKept, NameOf, Structure, Name, Names,
     Resolving, At, Number, Turn
<1> QED BY <1>3, <1>4, <1>5, <1>6, <1>7

LEMMA StutterInv == IInv /\ UNCHANGED vars => IInv'
<1> SUFFICES ASSUME IInv, UNCHANGED vars PROVE IInv'
  OBVIOUS
<1>1. UNCHANGED <<installed, job, registry, resolved, edges, overlapped, rows>>
  BY DEF vars, identity
<1>2. Grows
  BY <1>1 DEF Grows
<1>3. ASSUME NEW e \in Docs PROVE JobInv(e, job[e])'
  <2>1. JobInv(e, job'[e])
    BY <1>1 DEF IInv
  <2> DEFINE c == job'[e]
  <2> QED BY <1>2, <2>1, JobKept DEF JobInv
<1>4. ASSUME NEW e \in Docs PROVE IdsFit(e, resolved[e])'
  <2>1. IdsFit(e, resolved'[e])
    BY <1>1 DEF IInv
  <2>2. IdsFitNext(e, resolved'[e])
    BY <1>2, <2>1, IdsKept
  <2> QED BY <2>2 DEF IdsFit, IdsFitNext, Names, Name
<1>5. TypeOK' /\ \A e \in Docs : rows'[e] # {} => Opened(e)'
  BY <1>1 DEF IInv, TypeOK, Opened, Detect
<1>6. Registered' /\ Exclusive' /\ EdgesFit' /\ EdgesKept'
  BY <1>1 DEF IInv, Registered, Exclusive, EdgesFit, EdgesKept, NameOf, Structure, Name, Names,
     Resolving, At, Number, Turn
<1> QED BY <1>3, <1>4, <1>5, <1>6 DEF IInv

LEMMA Inductive == Spec => []IInv
<1>1. IInv /\ [Next]_vars => IInv'
  BY StepInv, StoreInv, InstallInv, StutterInv DEF Next, Attempt, Step
<1> QED BY InitInv, <1>1, PTL DEF Spec

-----------------------------------------------------------------------------
(* What follows.                                                           *)

(* Type correctness, whatever the workers do and whenever they die.        *)
THEOREM TypeCorrect == Spec => []TypeOK
<1>1. IInv => TypeOK
  BY DEF IInv
<1> QED BY Inductive, <1>1, PTL

(* Installing the missing toolkit recovers a file: what some handler       *)
(* recognises is never rejected, and it is reviewed only for a reason.     *)
THEOREM KeptFile == Spec => []RecognisedIsKept
<1>1. IInv => RecognisedIsKept
  BY DEF IInv, JobInv, Excused, RecognisedIsKept
<1> QED BY Inductive, <1>1, PTL

(* Rows come only of files that were read, and no part goes without review *)
(* that PLM does not know or that is export controlled.                    *)
THEOREM ClearedRelease == Spec => []ReleasedIsCleared
<1>1. IInv => ReleasedIsCleared
  BY DEF IInv, JobInv, Opened, Cleared, ReleasedIsCleared
<1> QED BY Inductive, <1>1, PTL

(* An id stands for one part only; and while no two workers resolved at    *)
(* once, a part number has one id in all documents.                        *)
THEOREM OneId == Spec => []OneIdPerPart
<1>1. ASSUME IInv, NEW d \in Docs, NEW i \in 1 .. Len(resolved[d])
      PROVE  /\ Name(resolved[d][i][1], resolved[d][i][2]) = Name(d, i)
             /\ ~overlapped /\ Parts[d][i].number # None =>
                  resolved[d][i] = registry[Parts[d][i].number]
  BY <1>1 DEF IInv, IdsFit, Names
<1>2. ASSUME IInv, NEW d \in Docs, NEW i \in 1 .. Len(resolved[d]),
             NEW e \in Docs, NEW k \in 1 .. Len(resolved[e]), resolved[d][i] = resolved[e][k]
      PROVE  Name(d, i) = Name(e, k)
  BY <1>1, <1>2
<1>3. IInv => OneIdPerPart
  BY <1>1, <1>2 DEF OneIdPerPart
<1> QED BY Inductive, <1>3, PTL

(* Parts shared by files never make an assembly a part of itself, when the *)
(* files do not: a set of ids with no top gives a set of names with none.  *)
THEOREM NoCircles == Spec => []NoCircularAssembly
<1>1. ASSUME EdgesFit, Acyclic(Structure) PROVE Acyclic(edges)
  <2> SUFFICES ASSUME NEW S \in SUBSET {e[1] : e \in edges}, S # {},
                      \A x \in S : \E y \in S : <<y, x>> \in edges
               PROVE  FALSE
    BY DEF Acyclic
  <2> DEFINE T == {NameOf(x) : x \in S}
  <2>1. T \subseteq {e[1] : e \in Structure}
    <3> SUFFICES ASSUME NEW x \in S PROVE NameOf(x) \in {e[1] : e \in Structure}
      OBVIOUS
    <3>1. PICK e \in edges : x = e[1]
      OBVIOUS
    <3>2. <<NameOf(x), NameOf(e[2])>> \in Structure
      BY <1>1, <3>1 DEF EdgesFit
    <3> HIDE DEF T
    <3>3. <<NameOf(x), NameOf(e[2])>>[1] = NameOf(x)
      OBVIOUS
    <3> QED BY <3>2, <3>3
  <2>2. T # {}
    OBVIOUS
  <2>3. PICK p \in T : \A q \in T : <<q, p>> \notin Structure
    <3> HIDE DEF T
    <3> QED BY <1>1, <2>1, <2>2 DEF Acyclic
  <2>4. PICK x \in S : p = NameOf(x)
    BY <2>3
  <2>5. PICK y \in S : <<y, x>> \in edges
    OBVIOUS
  <2>6. <<NameOf(y), NameOf(x)>> \in Structure
    BY <1>1, <2>5 DEF EdgesFit
  <2>7. NameOf(y) \in T
    OBVIOUS
  <2> QED BY <2>3, <2>4, <2>6, <2>7
<1>2. IInv => NoCircularAssembly
  BY <1>1 DEF IInv, NoCircularAssembly
<1> QED BY Inductive, <1>2, PTL

(* Resolving a file again gives the same ids and no new edge: its ids are  *)
(* those of the store or its own, and those of the store stay, as long as  *)
(* no two workers resolved at once.                                        *)
THEOREM Idempotent == Spec => ReingestKeepsIds
<1> DEFINE Keeps == ~overlapped' =>
             /\ \A d \in Docs : resolved[d] # <<>> => resolved'[d] = resolved[d]
             /\ (\A d \in Docs : resolved[d] = <<>> => resolved'[d] = <<>>) => edges' = edges
<1>1. ASSUME IInv, NEW d \in Docs, Resolved(d) PROVE Keeps
  <2> DEFINE ids == job[d].ids
             old == resolved[d]
  <2>1. /\ resolved' = [resolved EXCEPT ![d] = ids] /\ overlapped' = overlapped
        /\ edges' = edges \cup {<<ids[1], ids[i]>> : i \in 2 .. Len(ids)}
    BY <1>1 DEF Resolved
  <2>2. /\ ids \in Seq(Ids) /\ old \in Seq(Ids) /\ Parts[d] \in Seq(Part) /\ Parts[d] # <<>>
        /\ IdsFit(d, ids) /\ IdsFit(d, old)
    BY <1>1, JobType DEF IInv, TypeOK, JobInv
  <2>3. Len(ids) = Len(Parts[d])
    BY <1>1, <2>2 DEF Resolved, Turn, IdsFit
  <2>4. ids # <<>>
    BY <2>2, <2>3
  <2>5. ASSUME ~overlapped, old # <<>> PROVE ids = old
    <3>1. Len(old) = Len(Parts[d])
      BY <1>1, <2>5 DEF IInv, EdgesKept
    <3>2. ASSUME NEW i \in 1 .. Len(Parts[d]) PROVE ids[i] = old[i]
      BY <2>2, <2>3, <2>5, <3>1, <3>2 DEF IdsFit
    <3> QED BY <2>2, <2>3, <3>1, <3>2
  <2>6. old # <<>> => \A i \in 2 .. Len(old) : <<old[1], old[i]>> \in edges
    BY <1>1 DEF IInv, EdgesKept
  <2>7. \A e \in Docs : resolved'[e] = IF e = d THEN ids ELSE resolved[e]
    BY <1>1, <2>1 DEF IInv, TypeOK
  <2> HIDE DEF ids, old
  <2>8. ~overlapped /\ old # <<>> => edges' = edges
    BY <2>1, <2>5, <2>6
  <2> QED BY <2>1, <2>4, <2>5, <2>7, <2>8 DEF old
<1>2. ASSUME NEW d \in Docs, (Step(d) /\ ~Resolved(d)) \/ Store(d)
      PROVE  UNCHANGED <<resolved, edges>>
  BY <1>2 DEF Step, Start, Gate, Extract, Convert, Reingest, Routed, Find, Register, Store,
     Govern, Index, WorkerCrash, Stay, identity
<1>3. IInv /\ [Next]_vars => [Keeps]_vars
  BY <1>1, <1>2 DEF Next, Attempt, Step, Install, identity, vars
<1> QED BY Inductive, <1>3, PTL DEF Spec, ReingestKeepsIds

=============================================================================
