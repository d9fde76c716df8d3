------------------------------ MODULE Migrate ------------------------------
(***************************************************************************)
(* The schema migrations: db/migrate.py, run by every API container when   *)
(* it starts and by operators, on one database.                            *)
(*                                                                         *)
(* A runner carries the migration files of one release.  It works in one   *)
(* transaction: it takes the advisory lock, reads which files were         *)
(* recorded, checks them against its own, and for each file that was not   *)
(* executes the SQL and then inserts the row.  Nothing of an open          *)
(* transaction is visible outside it; commit makes the DDL and the rows    *)
(* visible together, and the end of the transaction releases the lock.     *)
(* Any statement may raise and any process may die: both are Abort.        *)
(*                                                                         *)
(* PostgreSQL (transactional DDL, READ COMMITTED, the primary key and the  *)
(* lock) is modelled from how the runner uses it.  The text of a file is   *)
(* its checksum; the wording of the status lines is left out.              *)
(***************************************************************************)
EXTENDS Naturals, FiniteSets

CONSTANTS
  Runners,
  Versions,      \* file names, in the order discover sorts them
  Checksums,
  Releases,      \* the sets of files that runners carry
  None

ASSUME MigrateAssumption ==
  /\ Versions \subseteq Nat /\ IsFiniteSet(Versions)
  /\ None \notin Checksums /\ None \notin Runners
  /\ Releases \subseteq [Versions -> Checksums \cup {None}]

VARIABLES
  recorded,   \* committed rows of schema_migration: checksum or None
  schema,     \* versions whose SQL has taken effect in the database
  lock,       \* holder of the advisory lock, or None
  run         \* [Runners -> state of that runner]

vars == <<recorded, schema, lock, run>>

Listing == [Versions -> Checksums \cup {None}]
Nothing == [v \in Versions |-> None]

(* "done": `up` returned, and the container goes on to start the API.      *)
Runner == [pc : {"idle", "locking", "inspecting", "applying", "recording",
                 "done"},
           command : {"up", "status"},
           files : Releases \cup {Nothing},
           applied : Listing,          \* what the SELECT returned
           executed : SUBSET Versions, \* SQL executed, not committed
           inserted : SUBSET Versions] \* rows inserted, not committed

Stopped == [pc |-> "idle", command |-> "status", files |-> Nothing,
            applied |-> Nothing, executed |-> {}, inserted |-> {}]

(* The runners that are past the lock statement.                           *)
Inside(r) == run[r].pc \in {"inspecting", "applying", "recording"}

(* Mutant of Valid: files the release does not know are skipped.           *)
Valid_KnownOnly(applied, files) ==
  \A v \in Versions :
    applied[v] # None /\ files[v] # None => files[v] = applied[v]

(* validate_applied: every recorded file is known, with the same checksum. *)
Valid(applied, files) ==
  \A v \in Versions : applied[v] # None => files[v] = applied[v]

(* The files the loop has not come to yet and will execute.                *)
Pending(r) == {v \in Versions : /\ run[r].files[v] # None
                                /\ run[r].applied[v] = None
                                /\ v \notin run[r].executed}

Init ==
  /\ recorded = Nothing
  /\ schema = {}
  /\ lock = None
  /\ run = [r \in Runners |-> Stopped]

-----------------------------------------------------------------------------
(* A container starts or restarts, or an operator runs a command.          *)
Start(r, c, f) ==
  /\ run[r].pc \in {"idle", "done"}
  /\ run' = [run EXCEPT ![r] =
               [Stopped EXCEPT !.pc = "locking", !.command = c, !.files = f]]
  /\ UNCHANGED <<recorded, schema, lock>>

(* Mutant of Lock: pg_try_advisory_xact_lock, its result not looked at.    *)
Lock_NotWaiting(r) ==
  /\ run[r].pc = "locking"
  /\ lock' = IF lock = None THEN r ELSE lock
  /\ run' = [run EXCEPT ![r].pc = "inspecting"]
  /\ UNCHANGED <<recorded, schema>>

(* pg_advisory_xact_lock returns.                                          *)
Lock(r) ==
  /\ run[r].pc = "locking"
  /\ lock = None
  /\ lock' = r
  /\ run' = [run EXCEPT ![r].pc = "inspecting"]
  /\ UNCHANGED <<recorded, schema>>

(* Mutant of End: a session lock, on a connection that stays open.         *)
End_SessionLock(r, next) == run' = [run EXCEPT ![r] = next] /\ UNCHANGED lock

(* The transaction of r ends, and with it its hold of the lock.            *)
End(r, next) ==
  /\ run' = [run EXCEPT ![r] = next]
  /\ lock' = IF lock = r THEN None ELSE lock

(* Mutant of Abort: autocommit, so that the SQL stays.                     *)
Abort_Autocommit(r) ==
  /\ run[r].pc \notin {"idle", "done"}
  /\ End(r, Stopped)
  /\ schema' = schema \cup run[r].executed /\ UNCHANGED recorded

(* An exception or the death of the process: the transaction is undone.    *)
Abort(r) ==
  /\ run[r].pc \notin {"idle", "done"}
  /\ End(r, Stopped)
  /\ UNCHANGED <<recorded, schema>>

(* The SELECT, which sees what is committed when it runs, and              *)
(* validate_applied.                                                       *)
Inspect(r) ==
  /\ run[r].pc = "inspecting"
  /\ Valid(recorded, run[r].files)
  /\ run' = [run EXCEPT ![r].pc = "applying", ![r].applied = recorded]
  /\ UNCHANGED <<recorded, schema, lock>>

(* validate_applied raises.                                                *)
Refuse(r) ==
  /\ run[r].pc = "inspecting"
  /\ ~Valid(recorded, run[r].files)
  /\ Abort(r)

(* The next pending file, in file order: its SQL.                          *)
Execute(r) ==
  /\ run[r].pc = "applying" /\ run[r].command = "up"
  /\ \E v \in Pending(r) :
       /\ \A w \in Pending(r) : v <= w
       /\ run' = [run EXCEPT ![r].pc = "recording",
                             ![r].executed = @ \cup {v}]
  /\ UNCHANGED <<recorded, schema, lock>>

(* The INSERT of its row.  The primary key refuses a row that is there.    *)
Record(r) ==
  /\ run[r].pc = "recording"
  /\ \A v \in run[r].executed \ run[r].inserted : recorded[v] = None
  /\ run' = [run EXCEPT ![r].pc = "applying", ![r].inserted = run[r].executed]
  /\ UNCHANGED <<recorded, schema, lock>>

(* The loop is over, with every file applied.                              *)
AllApplied(r) ==
  run[r].pc = "applying" /\ run[r].command = "up" /\ Pending(r) = {}

Served(r) == [Stopped EXCEPT !.pc = "done", !.files = run[r].files]

(* Mutants of Commit: the table is rewritten with the rows of this run;    *)
(* the commit is forgotten.                                                *)
Commit_OwnRows(r) ==
  /\ AllApplied(r) /\ End(r, Served(r))
  /\ recorded' = [v \in run[r].inserted |-> run[r].files[v]]
  /\ schema' = schema \cup run[r].executed
Commit_Forgotten(r) ==
  AllApplied(r) /\ End(r, Served(r)) /\ UNCHANGED <<recorded, schema>>

(* `up` commits.  The caller may still see an error: that is the commit    *)
(* followed by a new Start.                                                *)
Commit(r) ==
  /\ AllApplied(r) /\ End(r, Served(r))
  /\ recorded' = [v \in Versions |-> IF v \in run[r].inserted
                                     THEN run[r].files[v] ELSE recorded[v]]
  /\ schema' = schema \cup run[r].executed

(* `status` has listed the files and rolls back.                           *)
Status(r) ==
  /\ run[r].pc = "applying" /\ run[r].command = "status"
  /\ Abort(r)

Step(r) == Inspect(r) \/ Refuse(r) \/ Execute(r) \/ Record(r) \/ Commit(r)
           \/ Status(r)

Next ==
  \E r \in Runners :
    \/ \E c \in {"up", "status"}, f \in Releases : Start(r, c, f)
    \/ Lock(r)
    \/ Step(r)
    \/ Abort(r)

Spec == Init /\ [][Next]_vars

(* A runner goes on working, or PostgreSQL notices that it died; the lock  *)
(* goes to the waiting transactions in turn.                               *)
FairSpec ==
  /\ Spec
  /\ \A r \in Runners : WF_vars(Step(r)) /\ SF_vars(Lock(r))

-----------------------------------------------------------------------------
(* Types of the database and of every runner.                              *)
TypeOK ==
  /\ recorded \in Listing
  /\ schema \subseteq Versions
  /\ lock \in Runners \cup {None}
  /\ run \in [Runners -> Runner]

(* A row says exactly that the SQL of its file has taken effect, whatever  *)
(* failed, and whenever it failed.                                         *)
InStep == schema = {v \in Versions : recorded[v] # None}

(* No SQL is executed that has taken effect before, or that another open   *)
(* transaction has executed as well.                                       *)
ExecutedOnce ==
  \A r \in Runners :
    /\ run[r].executed \cap schema = {}
    /\ \A s \in Runners \ {r} : run[r].executed \cap run[s].executed = {}

(* A container whose `up` returned finds all the files of its release in   *)
(* the database, with its checksums, and keeps finding them, whichever     *)
(* releases run their migrations after it.                                 *)
ServedBySchema ==
  \A r \in Runners :
    run[r].pc = "done" => Valid(run[r].files, recorded)

(* The database moves from release to release in one step: what is         *)
(* recorded becomes the whole list of the release whose `up` returns,      *)
(* never a part of it or a mixture with another's, and keeps every row.    *)
ReleaseToRelease ==
  [][/\ Valid(recorded, recorded')
     /\ \E r \in Runners : run'[r].pc = "done" /\ recorded' = run'[r].files
    ]_recorded

(* A run that asked for the lock ends: it is served, refused or fails.     *)
Ends == \A r \in Runners :
          run[r].pc = "locking" ~> run[r].pc \in {"idle", "done"}

=============================================================================
