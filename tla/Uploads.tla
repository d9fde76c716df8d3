------------------------------ MODULE Uploads ------------------------------
(***************************************************************************)
(* Document uploads in the durable profile: UploadManager.accept and       *)
(* .process, /admin/acl/revoke, a crash of the API process at any point,   *)
(* and build_services, which rebuilds from PostgreSQL what the process     *)
(* kept in memory.                                                         *)
(*                                                                         *)
(* An upload is five stores written one after the other with no common     *)
(* transaction: the object store and the rows survive a crash, the ACLs    *)
(* and the search indexes do not.  A write to the object store or to       *)
(* PostgreSQL may raise, and then may or may not have been applied.        *)
(*                                                                         *)
(* Data: what extraction makes of a file is a constant of the document.    *)
(* The uploader's scope check and validate() happen before the first write *)
(* and only decide whether an upload exists; messages and metadata are     *)
(* left out.                                                               *)
(***************************************************************************)
EXTENDS Integers

CONSTANTS
  Docs,
  Extractable,   \* documents the extraction code accepts
  HasMesh,       \* documents that yield a canonical mesh
  Warns,         \* documents that complete with a warning
  NumChunks,     \* [Docs -> Nat]: chunks extraction yields
  MaxCrashes     \* bound: number of crashes

ASSUME UploadsAssumption ==
  /\ Extractable \subseteq Docs /\ HasMesh \subseteq Docs /\ Warns \subseteq Docs
  /\ NumChunks \in [Docs -> Nat]
  /\ MaxCrashes \in Nat

VARIABLES
  object,      \* documents whose original is in the object store
  row,         \* [Docs -> state of the uploaded_document row]
  stored,      \* [Docs -> set of uploaded_chunk rows]
  shape,       \* documents that have an uploaded_shape row
  acl,         \* documents the AclStore has an ACL for
  lexical,     \* [Docs -> set of chunks]: the lexical index
  exact,       \* [Docs -> set of chunks]: the exact index
  shapeIndex,  \* documents in the shape index
  task,        \* [Docs -> what the API process is doing for the upload]
  next,        \* [Docs -> Nat]: the chunk process() is at
  up,          \* is the API process running
  crashes,     \* number of crashes so far
  revoked      \* history: documents an administrator revoked

durable == <<object, row, stored, shape>>
memory  == <<acl, lexical, exact, shapeIndex>>
vars == <<durable, memory, task, next, up, crashes, revoked>>

Terminal == {"completed", "completed_with_warnings", "failed"}
States == {"absent", "received", "processing"} \cup Terminal

Accepting  == {"put", "create", "grant"}
Processing == {"begin", "extract", "add_shape", "index_shape", "add_chunk",
               "index_lexical", "index_exact", "fail"}
(* "lost": the thread ended with an exception, or with the process.        *)
Tasks == Accepting \cup Processing \cup {"done", "lost"}

ChunksOf(d) == 1 .. NumChunks[d]
NoChunks == [d \in Docs |-> {}]

Init ==
  /\ object = {} /\ shape = {} /\ acl = {} /\ shapeIndex = {} /\ revoked = {}
  /\ row = [d \in Docs |-> "absent"]
  /\ stored = NoChunks /\ lexical = NoChunks /\ exact = NoChunks
  /\ task = [d \in Docs |-> "put"]
  /\ next = [d \in Docs |-> 1]
  /\ up = TRUE
  /\ crashes = 0

-----------------------------------------------------------------------------

At(d, t)   == up /\ task[d] = t
Goto(d, t) == task' = [task EXCEPT ![d] = t]

(* A write that succeeds and goes on at `ok`, or raises, applied or not,   *)
(* and goes on at `err`.                                                   *)
Try(d, write, skip, ok, err) ==
  \/ write /\ Goto(d, ok)
  \/ (write \/ skip) /\ Goto(d, err)

SetRow(d, state) == row' = [row EXCEPT ![d] = state]

-----------------------------------------------------------------------------
(* accept: an exception in it is a 500 and leaves what was written.        *)

(* Mutant of PutObject: accept goes on when the object store raised.       *)
PutObject_IgnoresError(d) ==
  /\ At(d, "put")
  /\ Try(d, object' = object \cup {d}, UNCHANGED object, "create", "create")
  /\ UNCHANGED <<row, stored, shape, memory, next, up, crashes, revoked>>

PutObject(d) ==
  /\ At(d, "put")
  /\ Try(d, object' = object \cup {d}, UNCHANGED object, "create", "lost")
  /\ UNCHANGED <<row, stored, shape, memory, next, up, crashes, revoked>>

CreateRow(d) ==
  /\ At(d, "create")
  /\ Try(d, SetRow(d, "received"), UNCHANGED row, "grant", "lost")
  /\ UNCHANGED <<object, stored, shape, memory, next, up, crashes, revoked>>

(* acl_store.upsert; then the 202 goes out and process is scheduled.       *)
GrantAcl(d) ==
  /\ At(d, "grant")
  /\ acl' = acl \cup {d}
  /\ Goto(d, "begin")
  /\ UNCHANGED <<durable, lexical, exact, shapeIndex, next, up, crashes, revoked>>

-----------------------------------------------------------------------------
(* process.                                                                *)

(* Mutant of BeginProcess: it goes on when the update raised.              *)
BeginProcess_IgnoresError(d) ==
  /\ At(d, "begin")
  /\ Try(d, SetRow(d, "processing"), UNCHANGED row, "extract", "extract")
  /\ UNCHANGED <<object, stored, shape, memory, next, up, crashes, revoked>>

(* The update to "processing" is outside the try: if it raises, the task   *)
(* is gone.                                                                *)
BeginProcess(d) ==
  /\ At(d, "begin")
  /\ Try(d, SetRow(d, "processing"), UNCHANGED row, "extract", "lost")
  /\ UNCHANGED <<object, stored, shape, memory, next, up, crashes, revoked>>

(* Mutant of Extract: the limits are not enforced.                         *)
Extract_NoLimits(d) ==
  /\ At(d, "extract")
  /\ \/ d \in object /\ Goto(d, IF d \in HasMesh THEN "add_shape" ELSE "add_chunk")
     \/ Goto(d, "fail")
  /\ UNCHANGED <<durable, memory, next, up, crashes, revoked>>

(* Mutant of Extract: extraction of a broken file does not return.         *)
Extract_Hangs(d) ==
  /\ At(d, "extract")
  /\ d \in object /\ d \in Extractable
  /\ Goto(d, IF d \in HasMesh THEN "add_shape" ELSE "add_chunk")
  /\ UNCHANGED <<durable, memory, next, up, crashes, revoked>>

(* Read the object and extract; nothing shared is written.  Limits, an     *)
(* encrypted file or a broken one raise here.                              *)
Extract(d) ==
  /\ At(d, "extract")
  /\ \/ /\ d \in object /\ d \in Extractable
        /\ Goto(d, IF d \in HasMesh THEN "add_shape" ELSE "add_chunk")
     \/ Goto(d, "fail")
  /\ UNCHANGED <<durable, memory, next, up, crashes, revoked>>

AddShape(d) ==
  /\ At(d, "add_shape")
  /\ Try(d, shape' = shape \cup {d}, UNCHANGED shape, "index_shape", "fail")
  /\ UNCHANGED <<object, row, stored, memory, next, up, crashes, revoked>>

IndexShape(d) ==
  /\ At(d, "index_shape")
  /\ shapeIndex' = shapeIndex \cup {d}
  /\ Goto(d, "add_chunk")
  /\ UNCHANGED <<durable, acl, lexical, exact, next, up, crashes, revoked>>

AddChunk(d) ==
  /\ At(d, "add_chunk")
  /\ next[d] <= NumChunks[d]
  /\ Try(d, stored' = [stored EXCEPT ![d] = @ \cup {next[d]}], UNCHANGED stored,
         "index_lexical", "fail")
  /\ UNCHANGED <<object, row, shape, memory, next, up, crashes, revoked>>

(* index_text: the lexical index first, then the exact one.                *)
IndexLexical(d) ==
  /\ At(d, "index_lexical")
  /\ lexical' = [lexical EXCEPT ![d] = @ \cup {next[d]}]
  /\ Goto(d, "index_exact")
  /\ UNCHANGED <<durable, acl, exact, shapeIndex, next, up, crashes, revoked>>

IndexExact(d) ==
  /\ At(d, "index_exact")
  /\ exact' = [exact EXCEPT ![d] = @ \cup {next[d]}]
  /\ next' = [next EXCEPT ![d] = @ + 1]
  /\ Goto(d, "add_chunk")
  /\ UNCHANGED <<durable, acl, lexical, shapeIndex, up, crashes, revoked>>

(* Mutant of Finish: a state that the row does not know.                   *)
Finish_UnknownState(d) ==
  /\ At(d, "add_chunk")
  /\ next[d] > NumChunks[d]
  /\ Try(d, SetRow(d, IF d \in Warns THEN "warning" ELSE "completed"),
         UNCHANGED row, "done", "fail")
  /\ UNCHANGED <<object, stored, shape, memory, next, up, crashes, revoked>>

Finish(d) ==
  /\ At(d, "add_chunk")
  /\ next[d] > NumChunks[d]
  /\ Try(d, SetRow(d, IF d \in Warns THEN "completed_with_warnings" ELSE "completed"),
         UNCHANGED row, "done", "fail")
  /\ UNCHANGED <<object, stored, shape, memory, next, up, crashes, revoked>>

(* The except branch; its own update may raise too.                        *)
Fail(d) ==
  /\ At(d, "fail")
  /\ Try(d, SetRow(d, "failed"), UNCHANGED row, "done", "lost")
  /\ UNCHANGED <<object, stored, shape, memory, next, up, crashes, revoked>>

-----------------------------------------------------------------------------

(* /admin/acl/revoke of a document that has an ACL (else it is a no-op).   *)
Revoke(d) ==
  /\ up /\ d \in acl
  /\ acl' = acl \ {d}
  /\ revoked' = revoked \cup {d}
  /\ UNCHANGED <<durable, lexical, exact, shapeIndex, task, next, up, crashes>>

(* Everything in memory goes, running requests and background tasks too.   *)
Crash ==
  /\ up
  /\ crashes < MaxCrashes
  /\ up' = FALSE
  /\ crashes' = crashes + 1
  /\ acl' = {} /\ shapeIndex' = {}
  /\ lexical' = NoChunks /\ exact' = NoChunks
  /\ task' = [d \in Docs |-> IF task[d] \in {"put", "done"} THEN task[d] ELSE "lost"]
  /\ UNCHANGED <<durable, next, revoked>>

(* Mutant of Restart: the exact index is not rebuilt.                      *)
Restart_LexicalOnly ==
  /\ ~up
  /\ up' = TRUE
  /\ acl' = {d \in Docs : row[d] # "absent"}
  /\ lexical' = stored
  /\ shapeIndex' = shape
  /\ UNCHANGED <<durable, exact, task, next, crashes, revoked>>

(* Mutant of Restart: what the crash cut short is processed again, without *)
(* a look at the state it had reached.                                     *)
Restart_Requeues ==
  /\ ~up
  /\ up' = TRUE
  /\ acl' = {d \in Docs : row[d] # "absent"}
  /\ lexical' = stored
  /\ exact' = stored
  /\ shapeIndex' = shape
  /\ task' = [d \in Docs |-> IF task[d] = "lost" /\ row[d] # "absent"
                              THEN "begin" ELSE task[d]]
  /\ UNCHANGED <<durable, next, crashes, revoked>>

(* build_services, before the first request: an ACL for every row, and the *)
(* indexes from the chunk and shape rows.  No task is resumed.             *)
Restart ==
  /\ ~up
  /\ up' = TRUE
  /\ acl' = {d \in Docs : row[d] # "absent"}
  /\ lexical' = stored
  /\ exact' = stored
  /\ shapeIndex' = shape
  /\ UNCHANGED <<durable, task, next, crashes, revoked>>

-----------------------------------------------------------------------------

AcceptStep(d)  == PutObject(d) \/ CreateRow(d) \/ GrantAcl(d)

ProcessStep(d) ==
  \/ BeginProcess(d) \/ Extract(d) \/ AddShape(d) \/ IndexShape(d)
  \/ AddChunk(d) \/ IndexLexical(d) \/ IndexExact(d) \/ Finish(d) \/ Fail(d)

Next ==
  \/ \E d \in Docs : AcceptStep(d) \/ ProcessStep(d) \/ Revoke(d)
  \/ Crash
  \/ Restart

Spec == Init /\ [][Next]_vars

(* A background task that can go on does: it has a thread of its own.      *)
FairSpec == Spec /\ \A d \in Docs : WF_vars(ProcessStep(d))

-----------------------------------------------------------------------------
(* Properties.                                                             *)

TypeOK ==
  /\ object \subseteq Docs /\ shape \subseteq Docs /\ acl \subseteq Docs
  /\ shapeIndex \subseteq Docs /\ revoked \subseteq Docs
  /\ row \in [Docs -> States]
  /\ stored \in [Docs -> SUBSET Nat]
  /\ lexical \in [Docs -> SUBSET Nat]
  /\ exact \in [Docs -> SUBSET Nat]
  /\ task \in [Docs -> Tasks]
  /\ next \in [Docs -> Nat]
  /\ up \in BOOLEAN
  /\ crashes \in Nat

(* The order of the writes keeps every reference good, wherever an upload  *)
(* stops: a document that can be authorized has a row, a row an original,  *)
(* chunks and shapes a row, and an index nothing that a restart would not  *)
(* find again.                                                             *)
NothingDangles ==
  \A d \in Docs :
    /\ d \in acl => row[d] # "absent"
    /\ row[d] # "absent" => d \in object
    /\ (stored[d] # {} \/ d \in shape) => row[d] # "absent"
    /\ exact[d] \subseteq lexical[d] /\ lexical[d] \subseteq stored[d]
    /\ d \in shapeIndex => d \in shape

(* "completed" is a promise about the other stores: every chunk and the    *)
(* shape are stored, and, whenever the process is up, found by every index *)
(* that should find them, also after a crash and restart.                  *)
CompletedIsWhole ==
  \A d \in Docs :
    row[d] \in {"completed", "completed_with_warnings"} =>
      /\ stored[d] = ChunksOf(d)
      /\ d \in HasMesh => d \in shape
      /\ up => /\ lexical[d] = stored[d] /\ exact[d] = stored[d]
               /\ d \in HasMesh => d \in shapeIndex

(* A file that extraction refuses (a limit, encryption, a parse error)     *)
(* leaves nothing to find and never completes.                             *)
RefusedLeavesNothing ==
  \A d \in Docs \ Extractable :
    /\ stored[d] = {} /\ lexical[d] = {} /\ exact[d] = {}
    /\ d \notin shape /\ d \notin shapeIndex
    /\ row[d] \notin {"completed", "completed_with_warnings"}

(* Once nobody works on a document its row and its derivatives never       *)
(* change again; until then a terminal state only changes to "failed",     *)
(* when the update to "completed" raised although it was applied.          *)
TerminalIsFinal ==
  [][\A d \in Docs :
       /\ task[d] \in {"done", "lost"} =>
            UNCHANGED <<row[d], stored[d], d \in shape, d \in object>>
       /\ row[d] \in Terminal /\ row'[d] # row[d] =>
            task[d] = "fail" /\ row'[d] = "failed"]_vars

(* A client that polls sees a row go through received, processing and one  *)
(* end, with nothing but a completed that turns failed after it, and no    *)
(* change once the upload is given up, whatever raises or crashes.         *)
Lifecycle == INSTANCE UploadLifecycle
  WITH status <- row, busy <- {d \in Docs : task[d] \notin {"done", "lost"}}
LifecycleSpec == Lifecycle!Spec

(* Every upload that was accepted reaches a terminal state, unless the     *)
(* process died or an update of the row raised: then it is lost for good.  *)
EventuallyTerminal ==
  \A d \in Docs :
    (task[d] = "begin") ~> (row[d] \in Terminal \/ task[d] = "lost")

(* What /search and /answer may find for a caller in the document's scope. *)
Searchable(d) ==
  up /\ d \in acl /\ (lexical[d] # {} \/ exact[d] # {} \/ d \in shapeIndex)

(* docs/architecture/06-ingestion-pipeline.md:97, "A failed or malicious   *)
(* file remains isolated and cannot enter retrieval".  It does not hold    *)
(* when a write fails after the first chunk.                               *)
FailedIsIsolated == \A d \in Docs : row[d] = "failed" => ~Searchable(d)

(* app.py:220, "revocation takes effect immediately with no reindexing: a  *)
(* subsequent /search or /answer for that document abstains or omits it".  *)
(* It does not hold across a restart.                                      *)
RevokedStaysHidden == \A d \in revoked : ~Searchable(d)

=============================================================================
