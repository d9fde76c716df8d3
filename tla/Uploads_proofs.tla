--------------------------- MODULE Uploads_proofs ---------------------------
(***************************************************************************)
(* Proofs about Uploads, for any number of documents, chunks and crashes.  *)
(*                                                                         *)
(* None of the invariants is inductive: what a write may rely on is what   *)
(* the task did before it.  DocInv says, document by document, how far the *)
(* row and the stores are at each point of its task.                       *)
(***************************************************************************)
EXTENDS Uploads, TLAPS

USE UploadsAssumption

Completed == {"completed", "completed_with_warnings"}
Loop    == {"add_chunk", "index_lexical", "index_exact"}
Running == {"extract", "add_shape", "index_shape"} \cup Loop
Over    == {"done", "lost"}

(* The row against the task.                                               *)
RowFits(d) ==
  /\ task[d] \in {"put", "create"} => row[d] = "absent"
  /\ task[d] \in {"grant", "begin"} => row[d] = "received"
  /\ task[d] \in Running => row[d] = "processing"
  /\ task[d] = "fail" => row[d] \in {"processing"} \cup Completed
  /\ row[d] \in Completed => task[d] \in {"fail"} \cup Over
  /\ row[d] = "failed" => task[d] \in Over
  /\ task[d] = "done" => row[d] \in Terminal

(* The stores against the row.                                             *)
Sound(d) ==
  /\ d \in acl => row[d] # "absent"
  /\ row[d] # "absent" => d \in object
  /\ (stored[d] # {} \/ d \in shape) => row[d] # "absent"
  /\ exact[d] \subseteq lexical[d] /\ lexical[d] \subseteq stored[d]
  /\ d \in shapeIndex => d \in shape

Whole(d) ==
  row[d] \in Completed =>
    /\ stored[d] = ChunksOf(d)
    /\ d \in HasMesh => d \in shape
    /\ up => /\ lexical[d] = stored[d] /\ exact[d] = stored[d]
             /\ d \in HasMesh => d \in shapeIndex

(* How far the loop over the chunks is.                                    *)
Progress(d) ==
  /\ task[d] = "create" => d \in object
  /\ next[d] >= 1 /\ next[d] <= NumChunks[d] + 1
  /\ stored[d] \subseteq ChunksOf(d)
  /\ task[d] \in Accepting \cup {"begin", "extract", "add_shape", "index_shape"} => next[d] = 1
  /\ task[d] \in Loop => ChunksOf(d) \cap 1 .. (next[d] - 1) \subseteq exact[d]
  /\ task[d] = "index_lexical" => next[d] \in stored[d]
  /\ task[d] = "index_exact" => next[d] \in lexical[d]
  /\ task[d] = "index_shape" => d \in shape
  /\ task[d] \in Loop /\ d \in HasMesh => d \in shape /\ d \in shapeIndex

Refused(d) ==
  d \notin Extractable =>
    /\ stored[d] = {} /\ lexical[d] = {} /\ exact[d] = {}
    /\ d \notin shape /\ d \notin shapeIndex
    /\ row[d] \notin Completed
    /\ task[d] \notin {"add_shape", "index_shape"} \cup Loop

Down(d) ==
  ~up =>
    /\ task[d] \in {"put"} \cup Over
    /\ d \notin acl /\ d \notin shapeIndex
    /\ lexical[d] = {} /\ exact[d] = {}

DocInv(d) ==
  RowFits(d) /\ Sound(d) /\ Whole(d) /\ Progress(d) /\ Refused(d) /\ Down(d)

IInv == TypeOK /\ \A d \in Docs : DocInv(d)

Step(d) == AcceptStep(d) \/ ProcessStep(d) \/ Revoke(d)

-----------------------------------------------------------------------------
(* Steps of other documents.                                               *)

Same(d) ==
  /\ d \in object' <=> d \in object
  /\ d \in shape' <=> d \in shape
  /\ d \in acl' <=> d \in acl
  /\ d \in shapeIndex' <=> d \in shapeIndex
  /\ row'[d] = row[d] /\ stored'[d] = stored[d]
  /\ lexical'[d] = lexical[d] /\ exact'[d] = exact[d]
  /\ task'[d] = task[d] /\ next'[d] = next[d]
  /\ up' = up

(* A step of one document leaves every other as it is.                     *)
LEMMA Elsewhere ==
  ASSUME TypeOK, NEW d \in Docs, NEW e \in Docs, d # e, Step(e)
  PROVE  Same(d)
<1> USE DEF TypeOK, At, Goto, Try, SetRow, durable, memory
<1>1. CASE AcceptStep(e)
  BY <1>1 DEF AcceptStep, PutObject, CreateRow, GrantAcl, Same
<1>2. CASE BeginProcess(e) \/ Extract(e) \/ AddShape(e) \/ IndexShape(e)
  BY <1>2 DEF BeginProcess, Extract, AddShape, IndexShape, Same
<1>3. CASE AddChunk(e) \/ IndexLexical(e) \/ IndexExact(e)
  BY <1>3 DEF AddChunk, IndexLexical, IndexExact, Same
<1>4. CASE Finish(e) \/ Fail(e) \/ Revoke(e)
  BY <1>4 DEF Finish, Fail, Revoke, Same
<1> QED BY <1>1, <1>2, <1>3, <1>4 DEF Step, ProcessStep

LEMMA SameKeeps ==
  ASSUME NEW d \in Docs, DocInv(d), Same(d)
  PROVE  DocInv(d)'
BY DEF DocInv, RowFits, Sound, Whole, Progress, Refused, Down, Same, ChunksOf

-----------------------------------------------------------------------------
(* Types.                                                                  *)

LEMMA StepTypeOK ==
  ASSUME TypeOK, NEW d \in Docs, Step(d)
  PROVE  TypeOK'
<1> USE DEF TypeOK, At, Goto, Try, SetRow, durable, memory, States, Terminal,
            Tasks, Accepting, Processing
<1>1. CASE AcceptStep(d)
  BY <1>1 DEF AcceptStep, PutObject, CreateRow, GrantAcl
<1>2. CASE BeginProcess(d) \/ Extract(d)
  BY <1>2 DEF BeginProcess, Extract
<1>3. CASE AddShape(d) \/ IndexShape(d)
  BY <1>3 DEF AddShape, IndexShape
<1>4. CASE AddChunk(d)
  BY <1>4 DEF AddChunk
<1>5. CASE IndexLexical(d)
  BY <1>5 DEF IndexLexical
<1>6. CASE IndexExact(d)
  BY <1>6 DEF IndexExact
<1>7. CASE Finish(d) \/ Fail(d) \/ Revoke(d)
  BY <1>7 DEF Finish, Fail, Revoke
<1> QED BY <1>1, <1>2, <1>3, <1>4, <1>5, <1>6, <1>7 DEF Step, ProcessStep

LEMMA InitTypeOK == Init => TypeOK
BY DEF Init, TypeOK, States, Terminal, Tasks, Accepting, Processing, NoChunks

LEMMA NextTypeOK == TypeOK /\ [Next]_vars => TypeOK'
<1> SUFFICES ASSUME TypeOK, [Next]_vars PROVE TypeOK'
  OBVIOUS
<1>1. ASSUME NEW d \in Docs, Step(d) PROVE TypeOK'
  BY <1>1, StepTypeOK
<1>2. CASE Crash
  <2>1. task' \in [Docs -> Tasks]
    BY <1>2 DEF Crash, TypeOK, Tasks
  <2>2. lexical' \in [Docs -> SUBSET Nat] /\ exact' \in [Docs -> SUBSET Nat]
    BY <1>2 DEF Crash, NoChunks
  <2>3. /\ UNCHANGED <<object, row, stored, shape, next, revoked>>
        /\ acl' = {} /\ shapeIndex' = {} /\ up' = FALSE /\ crashes' = crashes + 1
    BY <1>2 DEF Crash, durable
  <2>4. acl' \subseteq Docs /\ shapeIndex' \subseteq Docs
    BY <2>3
  <2>5. up' \in BOOLEAN
    BY <2>3
  <2>6. crashes' \in Nat
    BY <2>3 DEF TypeOK
  <2>7. object' \subseteq Docs /\ shape' \subseteq Docs /\ revoked' \subseteq Docs
    BY <2>3 DEF TypeOK
  <2>8. row' \in [Docs -> States] /\ stored' \in [Docs -> SUBSET Nat] /\ next' \in [Docs -> Nat]
    BY <2>3 DEF TypeOK
  <2> QED BY <2>1, <2>2, <2>4, <2>5, <2>6, <2>7, <2>8 DEF TypeOK
<1>3. CASE Restart
  BY <1>3 DEF Restart, TypeOK, durable
<1>4. CASE UNCHANGED vars
  BY <1>4 DEF TypeOK, vars, durable, memory
<1> QED BY <1>1, <1>2, <1>3, <1>4 DEF Next, Step

(* TypeOK of Uploads: the variables keep their types.                      *)
THEOREM TypeCorrect == Spec => []TypeOK
BY InitTypeOK, NextTypeOK, PTL DEF Spec

-----------------------------------------------------------------------------
(* A step of the document itself.                                          *)

LEMMA AcceptKeeps ==
  ASSUME TypeOK, NEW d \in Docs, DocInv(d), AcceptStep(d)
  PROVE  DocInv(d)'
<1> USE DEF TypeOK, At, Goto, Try, SetRow, durable, memory, DocInv, RowFits, Sound,
            Whole, Progress, Refused, Down, ChunksOf, Accepting, Running, Loop, Over,
            Completed
<1>1. CASE PutObject(d)
  BY <1>1 DEF PutObject
<1>2. CASE CreateRow(d)
  BY <1>2 DEF CreateRow
<1>3. CASE GrantAcl(d)
  BY <1>3 DEF GrantAcl
<1> QED BY <1>1, <1>2, <1>3 DEF AcceptStep

LEMMA ProcessKeeps ==
  ASSUME TypeOK, NEW d \in Docs, DocInv(d), ProcessStep(d)
  PROVE  DocInv(d)'
<1> USE DEF TypeOK, At, Goto, Try, SetRow, durable, memory, DocInv, RowFits, Sound,
            Whole, Progress, Refused, Down, ChunksOf, Accepting, Running, Loop, Over,
            Completed, Terminal
<1>1. CASE BeginProcess(d)
  BY <1>1 DEF BeginProcess
<1>2. CASE Extract(d)
  BY <1>2 DEF Extract
<1>3. CASE AddShape(d)
  BY <1>3 DEF AddShape
<1>4. CASE IndexShape(d)
  BY <1>4 DEF IndexShape
<1>5. CASE AddChunk(d)
  BY <1>5 DEF AddChunk
<1>6. CASE IndexLexical(d)
  BY <1>6 DEF IndexLexical
<1>7. CASE IndexExact(d)
  BY <1>7 DEF IndexExact
<1>8. CASE Finish(d)
  <2>1. ChunksOf(d) \cap 1 .. (next[d] - 1) = ChunksOf(d)
    BY <1>8, UploadsAssumption DEF Finish
  <2>2. exact[d] = ChunksOf(d) /\ lexical[d] = ChunksOf(d) /\ stored[d] = ChunksOf(d)
    BY <1>8, <2>1 DEF Finish
  <2>3. d \in HasMesh => d \in shape /\ d \in shapeIndex
    BY <1>8 DEF Finish
  <2>4. d \in Extractable
    BY <1>8 DEF Finish
  <2>5. /\ row'[d] = row[d] \/ row'[d] \in Completed
        /\ task'[d] \in {"done", "fail"}
        /\ task'[d] = "done" => row'[d] \in Completed
    BY <1>8 DEF Finish
  <2>6. UNCHANGED <<object, stored, shape, acl, lexical, exact, shapeIndex, next, up>>
        /\ up /\ task[d] = "add_chunk"
    BY <1>8 DEF Finish
  <2> QED BY <2>2, <2>3, <2>4, <2>5, <2>6
<1>9. CASE Fail(d)
  BY <1>9 DEF Fail
<1> QED BY <1>1, <1>2, <1>3, <1>4, <1>5, <1>6, <1>7, <1>8, <1>9 DEF ProcessStep

LEMMA RevokeKeeps ==
  ASSUME TypeOK, NEW d \in Docs, DocInv(d), Revoke(d)
  PROVE  DocInv(d)'
BY DEF Revoke, TypeOK, durable, DocInv, RowFits, Sound, Whole, Progress, Refused,
       Down, ChunksOf

(* A crash empties the memory, a restart fills it from the stores.         *)
LEMMA CrashKeeps ==
  ASSUME TypeOK, NEW d \in Docs, DocInv(d), Crash \/ Restart
  PROVE  DocInv(d)'
<1> USE DEF TypeOK, durable, DocInv, RowFits, Sound, Whole, Progress, Refused, Down,
            ChunksOf, Accepting, Running, Loop, Over, Completed, NoChunks
<1>1. CASE Crash
  BY <1>1 DEF Crash
<1>2. CASE Restart
  BY <1>2 DEF Restart
<1> QED BY <1>1, <1>2

LEMMA Inductive == Spec => []IInv
<1>1. Init => IInv
  <2> SUFFICES ASSUME Init PROVE IInv
    OBVIOUS
  <2>1. TypeOK
    BY InitTypeOK
  <2>2. ASSUME NEW d \in Docs PROVE DocInv(d)
    BY DEF Init, DocInv, RowFits, Sound, Whole, Progress, Refused, Down, ChunksOf,
           Accepting, Running, Loop, Over, Completed, NoChunks
  <2> QED BY <2>1, <2>2 DEF IInv
<1>2. IInv /\ [Next]_vars => IInv'
  <2> SUFFICES ASSUME IInv, [Next]_vars, NEW d \in Docs PROVE DocInv(d)'
    BY NextTypeOK DEF IInv
  <2> USE DEF IInv
  <2>1. CASE Step(d)
    BY <2>1, AcceptKeeps, ProcessKeeps, RevokeKeeps DEF Step
  <2>2. ASSUME NEW e \in Docs, e # d, Step(e) PROVE DocInv(d)'
    BY <2>2, Elsewhere, SameKeeps
  <2>3. CASE Crash \/ Restart
    BY <2>3, CrashKeeps
  <2>4. CASE UNCHANGED vars
    BY <2>4, SameKeeps DEF vars, durable, memory, Same
  <2> QED BY <2>1, <2>2, <2>3, <2>4 DEF Next, Step
<1> QED BY <1>1, <1>2, PTL DEF Spec

-----------------------------------------------------------------------------
(* Wherever an upload stops, no store refers to what another one lacks.    *)
THEOREM ReferencesGood == Spec => []NothingDangles
<1>1. IInv => NothingDangles
  BY DEF IInv, DocInv, Sound, NothingDangles
<1> QED BY <1>1, Inductive, PTL

(* A completed document is whole in every store and index, also after any  *)
(* number of crashes and restarts.                                         *)
THEOREM CompletedWhole == Spec => []CompletedIsWhole
<1>1. IInv => CompletedIsWhole
  BY DEF IInv, DocInv, Whole, CompletedIsWhole, Completed
<1> QED BY <1>1, Inductive, PTL

(* A file that extraction refuses leaves nothing to find.                  *)
THEOREM RefusedNothing == Spec => []RefusedLeavesNothing
<1>1. IInv => RefusedLeavesNothing
  BY DEF IInv, DocInv, Refused, RefusedLeavesNothing, Completed
<1> QED BY <1>1, Inductive, PTL

-----------------------------------------------------------------------------
(* Steps and the lifecycle of the row.                                     *)

Settled(d) ==
  /\ task[d] \in Over => /\ row'[d] = row[d] /\ stored'[d] = stored[d]
                         /\ d \in shape' <=> d \in shape
                         /\ d \in object' <=> d \in object
  /\ row[d] \in Terminal /\ row'[d] # row[d] => task[d] = "fail" /\ row'[d] = "failed"

LEMMA StepSettles ==
  ASSUME IInv, NEW d \in Docs, Step(d)
  PROVE  Settled(d)
<1> USE DEF IInv, TypeOK, At, Goto, Try, SetRow, durable, memory, DocInv, RowFits,
            Running, Loop, Over, Completed, Terminal, Settled
<1>1. CASE AcceptStep(d)
  BY <1>1 DEF AcceptStep, PutObject, CreateRow, GrantAcl
<1>2. CASE BeginProcess(d) \/ Extract(d) \/ AddShape(d) \/ IndexShape(d)
  BY <1>2 DEF BeginProcess, Extract, AddShape, IndexShape
<1>3. CASE AddChunk(d) \/ IndexLexical(d) \/ IndexExact(d)
  BY <1>3 DEF AddChunk, IndexLexical, IndexExact
<1>4. CASE Finish(d) \/ Fail(d) \/ Revoke(d)
  BY <1>4 DEF Finish, Fail, Revoke
<1> QED BY <1>1, <1>2, <1>3, <1>4 DEF Step, ProcessStep

(* What is over stays as it is, and a terminal state changes to "failed"   *)
(* at most, by the task that wrote it.                                     *)
THEOREM TerminalFinal == Spec => TerminalIsFinal
<1>1. IInv /\ [Next]_vars =>
        [\A d \in Docs :
           /\ task[d] \in {"done", "lost"} =>
                UNCHANGED <<row[d], stored[d], d \in shape, d \in object>>
           /\ row[d] \in Terminal /\ row'[d] # row[d] =>
                task[d] = "fail" /\ row'[d] = "failed"]_vars
  <2> SUFFICES ASSUME IInv, Next, NEW d \in Docs PROVE Settled(d)
    BY DEF Settled, Over
  <2>1. CASE Step(d)
    BY <2>1, StepSettles
  <2>2. ASSUME NEW e \in Docs, e # d, Step(e) PROVE Settled(d)
    BY <2>2, Elsewhere DEF IInv, Same, Settled
  <2>3. CASE Crash \/ Restart
    BY <2>3 DEF Crash, Restart, durable, Settled
  <2> QED BY <2>1, <2>2, <2>3 DEF Next, Step
<1> QED BY <1>1, Inductive, PTL DEF Spec, TerminalIsFinal

Busy == {d \in Docs : task[d] \notin {"done", "lost"}}

(* Only the document of the step may leave those that are worked on.       *)
LEMMA StepBusy ==
  ASSUME IInv, NEW d \in Docs, AcceptStep(d) \/ ProcessStep(d)
  PROVE  d \in Busy /\ (Busy' = Busy \/ Busy' = Busy \ {d})
<1>1. ASSUME NEW e \in Docs, e # d PROVE task'[e] = task[e]
  BY <1>1, Elsewhere DEF IInv, Same, Step
<1>2. d \in Busy
  BY DEF Busy, AcceptStep, ProcessStep, At, PutObject, CreateRow, GrantAcl, BeginProcess,
         Extract, AddShape, IndexShape, AddChunk, IndexLexical, IndexExact, Finish, Fail
<1> QED BY <1>1, <1>2 DEF Busy

(* A step on a row is one the lifecycle has.                               *)
LEMMA RowSteps ==
  ASSUME IInv, NEW d \in Docs, AcceptStep(d) \/ ProcessStep(d)
  PROVE  \/ UNCHANGED row
         \/ row[d] = "absent" /\ row' = [row EXCEPT ![d] = "received"]
         \/ row[d] = "received" /\ row' = [row EXCEPT ![d] = "processing"]
         \/ /\ row' = [row EXCEPT ![d] = row'[d]] /\ row'[d] \in Terminal
            /\ row[d] = "processing" \/ (row[d] \in Terminal /\ row'[d] = "failed")
<1> USE DEF IInv, DocInv, RowFits, At, Goto, Try, SetRow, durable, Running, Loop,
            Completed, Terminal
<1>1. CASE PutObject(d) \/ CreateRow(d) \/ GrantAcl(d)
  BY <1>1 DEF PutObject, CreateRow, GrantAcl
<1>2. CASE BeginProcess(d) \/ Extract(d) \/ AddShape(d) \/ IndexShape(d)
  BY <1>2 DEF BeginProcess, Extract, AddShape, IndexShape
<1>3. CASE AddChunk(d) \/ IndexLexical(d) \/ IndexExact(d)
  BY <1>3 DEF AddChunk, IndexLexical, IndexExact
<1>4. CASE Finish(d)
  BY <1>4 DEF Finish, TypeOK
<1>5. CASE Fail(d)
  BY <1>5 DEF Fail, TypeOK
<1> QED BY <1>1, <1>2, <1>3, <1>4, <1>5 DEF AcceptStep, ProcessStep

(* Uploads, with its stores, failing writes and crashes, implements the    *)
(* lifecycle that a client sees.                                           *)
THEOREM ImplementsLifecycle == Spec => LifecycleSpec
<1>1. Init => Lifecycle!Init
  <2> SUFFICES ASSUME Init PROVE Lifecycle!Init
    OBVIOUS
  <2>1. {d \in Docs : task[d] \notin {"done", "lost"}} = Docs
    BY DEF Init
  <2> QED BY <2>1 DEF Init, Lifecycle!Init
<1>2. IInv /\ [Next]_vars => [Lifecycle!Next]_(Lifecycle!vars)
  <2> SUFFICES ASSUME IInv, [Next]_vars
               PROVE  Lifecycle!Next \/ (row' = row /\ Busy' = Busy)
    BY DEF Lifecycle!vars, Busy
  <2>1. ASSUME NEW d \in Docs, AcceptStep(d) \/ ProcessStep(d)
        PROVE  Lifecycle!Next \/ (row' = row /\ Busy' = Busy)
    <3>1. d \in Busy /\ (Busy' = Busy \/ Busy' = Busy \ {d})
      BY <2>1, StepBusy
    <3>2. Lifecycle!Continue(d)
      BY <3>1 DEF Lifecycle!Continue, Busy
    <3>3. CASE UNCHANGED row
      BY <3>1, <3>3 DEF Lifecycle!Next, Lifecycle!GiveUp, Busy
    <3>4. CASE row[d] = "absent" /\ row' = [row EXCEPT ![d] = "received"]
      BY <3>1, <3>2, <3>4 DEF Lifecycle!Next, Lifecycle!Create, Busy
    <3>5. CASE row[d] = "received" /\ row' = [row EXCEPT ![d] = "processing"]
      BY <3>1, <3>2, <3>5 DEF Lifecycle!Next, Lifecycle!Begin, Busy
    <3>6. CASE /\ row' = [row EXCEPT ![d] = row'[d]] /\ row'[d] \in Terminal
               /\ row[d] = "processing" \/ (row[d] \in Terminal /\ row'[d] = "failed")
      BY <3>1, <3>2, <3>6 DEF Lifecycle!Next, Lifecycle!End, Lifecycle!Terminal,
         Lifecycle!Completed, Terminal, Busy
    <3> QED BY <2>1, <3>3, <3>4, <3>5, <3>6, RowSteps
  <2>2. CASE \E d \in Docs : Revoke(d)
    BY <2>2 DEF Revoke, durable, Busy
  <2>3. CASE Crash
    <3>1. UNCHANGED row
      BY <2>3 DEF Crash, durable
    <3>2. Busy' \in SUBSET Busy
      BY <2>3 DEF Crash, Busy
    <3> QED BY <3>1, <3>2 DEF Lifecycle!Next, Lifecycle!GiveUp, Busy
  <2>4. CASE Restart \/ UNCHANGED vars
    BY <2>4 DEF Restart, vars, durable, Busy
  <2> QED BY <2>1, <2>2, <2>3, <2>4 DEF Next
<1> QED BY <1>1, <1>2, Inductive, PTL DEF Spec, LifecycleSpec, Lifecycle!Spec

-----------------------------------------------------------------------------
(* What is left to do for an upload: the writes that follow, three for     *)
(* each chunk the loop has not come to.                                    *)

ChunksLeft(d) == NumChunks[d] + 1 - next[d]

WorkLeft(d) ==
  CASE task[d] = "put"           -> 9 + 3 * ChunksLeft(d)
    [] task[d] = "create"        -> 8 + 3 * ChunksLeft(d)
    [] task[d] = "grant"         -> 7 + 3 * ChunksLeft(d)
    [] task[d] = "begin"         -> 6 + 3 * ChunksLeft(d)
    [] task[d] = "extract"       -> 5 + 3 * ChunksLeft(d)
    [] task[d] = "add_shape"     -> 4 + 3 * ChunksLeft(d)
    [] task[d] = "index_shape"   -> 3 + 3 * ChunksLeft(d)
    [] task[d] = "add_chunk"     -> 2 + 3 * ChunksLeft(d)
    [] task[d] = "index_lexical" -> 1 + 3 * ChunksLeft(d)
    [] task[d] = "index_exact"   -> 3 * ChunksLeft(d)
    [] task[d] = "fail"          -> 1
    [] OTHER                     -> 0

LeftIsNat == \A d \in Docs : WorkLeft(d) \in Nat

LEMMA ChunksLeftIs ==
  ASSUME IInv, NEW d \in Docs
  PROVE  /\ ChunksLeft(d) \in Nat
         /\ task[d] \in {"index_lexical", "index_exact"} => ChunksLeft(d) >= 1
<1>1. next[d] \in Nat /\ next[d] <= NumChunks[d] + 1 /\ NumChunks[d] \in Nat
  BY DEF IInv, TypeOK, DocInv, Progress
<1>2. task[d] \in {"index_lexical", "index_exact"} => next[d] \in ChunksOf(d)
  BY DEF IInv, DocInv, Progress, Sound
<1> QED BY <1>1, <1>2 DEF ChunksLeft, ChunksOf

(* Each step of the upload leaves less.                                    *)
LEMMA StepWorks ==
  ASSUME IInv, NEW d \in Docs, AcceptStep(d) \/ ProcessStep(d)
  PROVE  WorkLeft(d)' < WorkLeft(d)
<1>0. /\ ChunksLeft(d) \in Nat /\ next[d] \in Nat /\ NumChunks[d] \in Nat
      /\ task \in [Docs -> Tasks] /\ next \in [Docs -> Nat]
  BY ChunksLeftIs DEF IInv, TypeOK
<1> USE DEF At, Goto, Try, WorkLeft, Tasks, Accepting, Processing
<1>1. ASSUME next' = next PROVE ChunksLeft(d)' = ChunksLeft(d)
  BY <1>1 DEF ChunksLeft
<1>2. CASE PutObject(d) \/ CreateRow(d)
  BY <1>0, <1>1, <1>2 DEF PutObject, CreateRow
<1>3. CASE GrantAcl(d) \/ BeginProcess(d)
  BY <1>0, <1>1, <1>3 DEF GrantAcl, BeginProcess
<1>4. CASE Extract(d)
  BY <1>0, <1>1, <1>4 DEF Extract
<1>5. CASE AddShape(d) \/ IndexShape(d)
  BY <1>0, <1>1, <1>5 DEF AddShape, IndexShape
<1>6. CASE AddChunk(d)
  BY <1>0, <1>1, <1>6 DEF AddChunk
<1>7. CASE IndexLexical(d)
  BY <1>0, <1>1, <1>7 DEF IndexLexical
<1>8. CASE IndexExact(d)
  <2>1. ChunksLeft(d)' = ChunksLeft(d) - 1
    BY <1>0, <1>8 DEF IndexExact, ChunksLeft
  <2> QED BY <1>0, <1>8, <2>1 DEF IndexExact
<1>9. CASE Finish(d) \/ Fail(d)
  BY <1>0, <1>1, <1>9 DEF Finish, Fail
<1> QED BY <1>2, <1>3, <1>4, <1>5, <1>6, <1>7, <1>8, <1>9 DEF AcceptStep, ProcessStep

(* Half of the promise that every upload reaches an end: whatever raises,  *)
(* crashes or restarts, an upload that gets on gets closer to its end.     *)
(* None is started over, and none goes round in its loop for ever.         *)
THEOREM UploadsRunDown ==
  Spec => [][\A d \in Docs :
               task'[d] # task[d] =>
                 /\ WorkLeft(d) \in Nat /\ WorkLeft(d)' \in Nat
                 /\ WorkLeft(d)' < WorkLeft(d)]_vars
<1>1. ASSUME IInv, NEW d \in Docs PROVE WorkLeft(d) \in Nat
  BY <1>1, ChunksLeftIs DEF WorkLeft
<1>2. ASSUME IInv, [Next]_vars, NEW d \in Docs, task'[d] # task[d]
      PROVE  WorkLeft(d)' < WorkLeft(d)
  <2>1. CASE AcceptStep(d) \/ ProcessStep(d)
    BY <1>2, <2>1, StepWorks
  <2>2. ASSUME NEW e \in Docs, e # d, Step(e) PROVE FALSE
    BY <1>2, <2>2, Elsewhere DEF IInv, Same
  <2>3. CASE Crash
    <3>1. task[d] \notin {"done", "lost"} /\ task'[d] = "lost"
      BY <1>2, <2>3 DEF Crash, IInv, TypeOK
    <3>2. WorkLeft(d)' = 0
      BY <3>1 DEF WorkLeft
    <3>3. task[d] \in Accepting \cup Processing
      BY <1>2, <3>1 DEF IInv, TypeOK, Tasks
    <3> QED BY <1>2, <3>2, <3>3, ChunksLeftIs DEF WorkLeft, Accepting, Processing
  <2>4. ~(Restart \/ UNCHANGED vars \/ \E e \in Docs : Revoke(e))
    BY <1>2 DEF Restart, vars, Revoke
  <2> QED BY <1>2, <2>1, <2>2, <2>3, <2>4 DEF Next, Step
<1>3. IInv => LeftIsNat
  BY <1>1 DEF LeftIsNat
<1>4. IInv /\ LeftIsNat /\ LeftIsNat' /\ [Next]_vars =>
        [\A d \in Docs :
           task'[d] # task[d] =>
             /\ WorkLeft(d) \in Nat /\ WorkLeft(d)' \in Nat
             /\ WorkLeft(d)' < WorkLeft(d)]_vars
  BY <1>2 DEF LeftIsNat
<1> QED BY <1>3, <1>4, Inductive, PTL DEF Spec

(* The other half: a background task that has not ended is one the process *)
(* still runs, never one left behind by a crash, and a task that is done   *)
(* has left a terminal state in the row.                                   *)
THEOREM NoUploadHangs ==
  Spec => [](\A d \in Docs :
               /\ task[d] \in Processing => up
               /\ task[d] = "done" => row[d] \in Terminal)
<1>1. IInv => \A d \in Docs : /\ task[d] \in Processing => up
                              /\ task[d] = "done" => row[d] \in Terminal
  BY DEF IInv, DocInv, Down, RowFits, Processing, Over
<1> QED BY <1>1, Inductive, PTL

=============================================================================
