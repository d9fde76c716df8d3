# A TLA+ model of IKIP

IKIP answers engineering questions from governed documents: it keeps a local
copy of the permissions that upstream systems own, finds evidence the caller may
see, has a model write an answer from that evidence, and returns the answer only
when it checks out.  These modules model the parts of the repository where the
order of steps matters (permissions, queries, uploads, indexes, ingestion, migrations, the web
client), state what they promise, check it with TLC on small instances and prove the most important of it
with TLAPS for all instances.

Paths below are relative to the repository.  `PROJECT.json` maps every definition to the lines
it stands for.

## 1. Inventory

| component | source | state it keeps | operations | modelled by |
|---|---|---|---|---|
| authorization decisions | `packages/ikip-authz`: `context`, `decision`, `filter`, `freshness` | none | `authorize_scope`, `evaluate_document`, `check_freshness` | `Authz` |
| ACL store and sync | `packages/ikip-authz`: `sync.py` | document id -> ACL | `reconcile` (pull), `apply_event` (push), `upsert`, `delete`, `get` | `AclStore`, `AclSync` |
| query pipeline | `services/retrieval/.../pipeline` | the request's locals | gate, fan out, merge and rank, assemble, compose | `QueryPipeline` |
| statement validation | `packages/ikip-statements` | none | `validate_answer` | `QueryPipeline` |
| read endpoints | `services/api/.../app.py`, `identity.py` | none | `/search`, `/answer`, `/documents...` | `QueryPipeline` |
| uploads | `services/api/.../uploads.py` | object store, three tables | `accept`, `process` | `UploadLifecycle`, `Uploads` |
| composition | `services/api/.../services.py` | in-memory ACLs and indexes | `build_services`, `index_text`, `index_shape` | `Uploads` (`Restart`), `SearchIndex` (the seed) |
| search indexes | `services/retrieval/.../adapters`, `search_shape.py` | chunk lists, postings | `add`, `search` | partly: `SearchIndex` (`LexicalIndex`), `Uploads` (what all of them hold), `QueryPipeline` (what a search finds is arbitrary) |
| answer gateway | `ports/answer_gateway.py`, `dev_gateway.py` | none | `synthesize` | `QueryPipeline`: any draft, or an error |
| contracts | `packages/ikip-contracts` | none | pydantic validation | partly: the records of the modules above |
| ingestion stages | `services/ingestion/.../stages` | part-number store, assembly edges, chunk rows | gate, route, convert, resolve identity, govern, validate, index | partly: `Ingestion` |
| CAD extraction | `services/ingestion/.../extract` | which toolkits are installed | detect, route to a handler, run it in a sandbox | partly: `Ingestion` |
| schema migrations | `db/migrate.py` | `schema_migration` table | `run up` / `status` | `Migrate` |
| web client | `web/src` | identity; React state per panel | search, answer, upload, poll, re-check | partly: `DevIdentity`, `UploadPanel`, `WorkspacePanel`, `WebClient` |
| stubs, build scripts, deployment | audit, observability, provenance, pgvector adapters, `contracts/codegen`, `evaluation`, `deploy`, `infra` | none | none | no: there is no logic to model |

How they interact.  The API process holds one `AclStore`.  It is written by
`apply_event` (from `/admin/acl/revoke`), by `reconcile` (a library function: no
schedule in the repository calls it, the design documents say a deployment
does), by `accept` and by `build_services`.  Every
search channel reads it, hit by hit, while building candidates; the document
endpoints read it per row.  Requests run on threads of their own, so all of this
interleaves.  Uploads are accepted in the request and processed by a background
task of the same process; the tables and the object store outlive the
process, the ACLs and the search indexes do not.  The tasks of several uploads add to one
`LexicalIndex` while requests search it, and no lock is held.  The ingestion stages are functions over a part
store that several workers share; nothing under `services/` puts them together, so their order is taken
from `docs/architecture/06-ingestion-pipeline.md` and from the tests of the stages.  The web client polls
`/documents`, and asks for answers and evidence again under whatever identity is chosen at that moment.

What is hard, and what makes each part correct:

* **Synchronisation.** Notifications may be lost, repeated, reordered and late; a
  reconcile reads the clock first and writes much later, over a store that others write,
  and its fetch may fail half way.  It is correct if nobody is let in by a policy
  that was withdrawn longer ago than a known bound, if a reconcile makes the
  store match what it fetched, and if pull repairs what push spoils.
* **Queries.** Permissions are read, used later, and change in between; two
  channels may disagree; the draft cannot be trusted.  It is correct if nothing is shown that the
  caller was never entitled to see while the request ran, if a response does not
  tell that something hidden exists, if an accepted answer rests on the evidence that was
  in the prompt, and if every request ends.
* **Uploads.** Five stores, no transaction, writes that raise although they were applied, a process
  that dies anywhere.  It is correct if no store refers to something another
  lacks, if "completed" means complete in all of them, also after a restart, and
  if refused files leave nothing behind.
* **Search index.** Two lists and two counters, written one after another and read in
  between; `+=` is a read and a write.  It is correct if no search fails on a state half
  written, if a hit is the chunk that holds the term, and if what was added is found.
* **Ingestion.** Toolkits may be missing, a converter may fail or lie, workers overlap and
  die, attempts are repeated, PLM is asked anew for every part.  It is correct if no recognised file is thrown
  away, if only what was read is indexed, if nothing goes uncleared without a review, if a part id never stands
  for two parts, and if a file that is ingested again keeps its ids.
* **Web client.** Answers arrive in any order, after the identity, the question or the
  tab changed, and the server cuts searches off.  The answer in the workspace and an open drawer outlive a change of identity: the
  code keeps them, and no property says otherwise of the answer.  It is correct if the upload tab turns to the identity in use,
  if the source drawer shows what was checked and reports as gone only what is, and if polling does not stop while a row it shows can still change.
* **Migrations.** Every API container migrates the shared database before it serves; containers of several
  releases start, fail and restart at the same time.  It is correct if rows and schema agree after any failure, if
  nothing is executed twice, and if whoever serves finds the schema its release was written for.

`PROJECT.json` lists the hazards one by one, at their lines, with the
properties that watch them.

## 2. Modules

`Authz` holds the authorization decisions as operators.  An ACL is a record of sites,
roles, staleness bound and `synced`; `None` is Python's `None`.  Time is a whole
number; the decision is a Boolean.

`AclStore` (extends `Authz`) is the abstract specification between the writers of
permissions and their readers: ACLs change one document at a time and
no stamp is later than a clock off by at most `Skew` can read.  `AclSync`
implements it (`StoreSpec`, checked and proved), `QueryPipeline` is built on it,
so what is shown of a query holds over anything `AclSync` may do.

`AclSync` (extends `AclStore`).  `truth` is what upstream grants; `UpstreamChange` and `Tick` are the
environment.  `events` only grows, so a notification may be delivered never, twice or
out of order, until `MaxDelay` after it was sent.  A reconcile is a small program per source:
`ReconcileBegin` (`now = _now()`), `ReconcileFetch`, one `ReconcileUpsert` per ACL,
`ReconcileSweep` (the set difference is computed once), one `ReconcileDelete` per
document, `ReconcileEnd`; `ReconcileFail` is an exception from the fetch or its
iterator.  `heldUntil` and `touched` are history: when each policy was last upstream's, and what others
wrote since the fetch.

`QueryPipeline` (extends `AclStore`).  `req[r]` holds the locals of one request and its program
counter.  `SearchChannel` and `ToCandidate` are the comprehension over channels: hits first, then
one ACL lookup per hit.  `MergeAssemble` is `merge_and_rank` and `assemble`
with one reading of the clock.  `Rankings` and `Assembled` describe the sort and the capping loop
without a sequence: any order that respects the weights, and the chunks the loop
keeps in that order.  `GatewayReturn` takes any draft the Answer contract admits.
`CheckDocument`, `FetchContent`, `ListOne` and `ListDone` are the document endpoints.
`seen[r]` is history: the documents the caller could see at some moment of the request.

`Uploads`.  `object`, `row`, `stored` and `shape` are durable; `acl`, `lexical`,
`exact` and `shapeIndex` are memory.  `task[d]` is the program counter of `accept`
and then `process`.  `Try` is a write to PostgreSQL or the object store: it
succeeds, or raises, and then it may or may not have been applied.  `Crash` takes
the memory and every running task; `Restart` is `build_services`.

`UploadLifecycle` is the abstract specification of an upload as a client sees it: the states a row goes
through and who may still change it.  `Uploads` implements it (`LifecycleSpec`, with `status` mapped to the
row and `busy` to the documents a request or task works on; checked and proved), and `WebClient` is built on it.
The abstract specification admits one thing a reader may not expect: a completed row may still turn failed, when the
update that completed it raised after it had been applied.

`SearchIndex` is `LexicalIndex` split at every read and write of what threads share.  A call of `add` is `AppendChunk`,
`AppendTokens`, the read and the write of `_total_len`, then a read and a write of `_df` per term; a call of `search` reads
the length and the total for the average, then scans position by position, then collects the hits.  The interpreter may
switch threads between any two of these steps.  `overlapped` is history: whether two calls of `add` were ever under way at once.  A chunk is a set
of terms and a length; a score is zero or not.

`Ingestion`.  `job[d]` is the attempt under way for a file, one action per stage; `registry` is the part store,
`edges` the assembly, `rows` the chunk rows.  `Handle` is the registry lookup with the toolkit check,
`RunSandboxed` the sandbox.  `Find` and `Register` are the two calls of the loop of `resolve_identity`;
`register` looks again and stores without a lock, so `Store` is a step of its own and may replace an id stored in between.
`WorkerCrash` ends an attempt anywhere and the file is taken again; `Install` adds a toolkit.  Files are constants: which handlers
recognise them, whether extraction raises, which parts they have.  A part is its number, or none, and whether it is marked
as export controlled; a number stands for whatever label the extraction gives `resolve_identity` to compare.
`ready` and `overlapped` are history: the toolkits at the start of the attempt, and whether two resolutions ever ran at once.

`DevIdentity`, `UploadPanel`, `WorkspacePanel`, `WebClient`.  `WebClient` composes the panels: one tab is mounted at a
time, the identity bar is outside of them.  `UploadPanel` has the listings in flight, in the order they were asked for and
answered in any order, the timer (`Tick`, under the condition of `Polling`), and an upload, whose listing is asked for under
the identity that began it.  Its server is `UploadLifecycle` with an ACL for each row: `readers[d]` is whom it lets in.
`accept` writes it after the row (`WriteAcl`), for all who are in the scope of the upload (`Shares`), and it may change
later (`AclChange`: a revocation, a stamp that gets too old, a crash, a grant).
`WorkspacePanel` has the question in flight, the answer, and the drawer with its searches, some
of them cancelled by the clean-up of the effect.  `Found` is what `/search` returns: each channel may be cut off at `ChannelLimit` before permissions
are looked at (`Hits`), then what may be seen is ranked and capped, in all and by document (`Assemble`).
`shown`, `failed`, `mine`, `moments` and `behind` are history: which listing is shown, whether one failed, what was uploaded in this
mount, what the drawer's identity could see since it was opened, and whether a question was submitted behind it.  The
properties use them to name exactly the cases the code does not handle.

`Migrate`.  `recorded` is the committed table, `schema` the files whose SQL has taken effect, `lock` the advisory
lock; `run[r]` is one process of some release with its open transaction (`executed`, `inserted`).  `Inspect`
is the SELECT with `validate_applied`; `Execute` and `Record` are the two statements per file; `Commit` makes
both visible at once; `Abort` is any exception and any death of the process.  PostgreSQL is modelled as the runner relies on it:
DDL is transactional, each statement of a READ COMMITTED transaction sees what was committed when
it ran (so the SELECT after the lock is not out of date), and the lock ends with the transaction.  Order holds within
a run only: a release that contains an earlier file which was not applied applies it after later ones, and the
code does not refuse that (`MCReleases` has such a release).

`MC...` modules give the constants values; `..._proofs` modules hold the theorems.
A definition `X_Y` whose comment says "Mutant of X" is X with a plausible bug; it is never
part of a specification and exists to show that a property would notice.

## 3. Runs

| run | asks | bounds |
|---|---|---|
| `acl_pull_push` | the safety of synchronisation, that it implements `AclStore`, and that pull repairs push | 2 documents, 2 policies (own bound 0, default bound 1), 1 source, 2 upstream changes, delay 1, time 0..3, no skew |
| `acl_sweep` | finding: sources delete each other's ACLs | 2 documents, 2 sources, no upstream change |
| `query_revocation` | nothing is shown that was not visible | 1 document, 2 chunks, 2 channels, 3 callers, 2 policies, skew 1 within tolerance 1, time 0..2 |
| `query_response` | outcome, grounding, caps, termination | 3 documents, 5 chunks, 3 ranks, 1 channel, caps 2 and 1, time 0 |
| `upload_stores` | consistency of the stores, and that they implement `UploadLifecycle` | 3 uploads (CAD with mesh and 2 chunks; refused; PDF without text), 1 crash, every write may raise |
| `upload_failed` | finding: chunks of a failed upload are searchable | 1 upload |
| `upload_revoked` | finding: a restart undoes a revocation | 1 upload, 1 crash |
| `migrate_start` | concurrent starts of containers | 3 runners, 3 files, 5 releases (one edited, one with a gap), any number of failures and restarts |
| `index_search` | adds and searches without a lock | 1 seed chunk, 2 writers (2 chunks, the first without tokens; 1 chunk), 1 reader that searches again and again, 2 terms |
| `ingestion_stages` | what is kept and released, how parts are named, and named again | 4 files (STEP assembly of 2 numbers, one export controlled; proprietary assembly that converts; a broken OLE file; junk), 2 numbers, 2 workers, OCP and FreeCAD missing at first |
| `ingestion_overlap` | finding: one part number gets two ids | 2 files, 2 workers |
| `web_client` | what the panels show | 2 identities, 1 document, 2 listings in flight, 2 questions and claims, 3 passages of 2 documents, caps 2, 2 and 1, 2 checks in flight, 1 event: a switch, a change of an ACL or of what may be seen |

Why the bounds suffice for the cases that matter.  Two upstream changes give grant, revoke and grant
again with both old notifications in flight; time 3 exceeds bound plus delay (0+1,
1+1), so the age test must deny; `MaxDelay = 1` lets an old notification follow a
newer one.  Skew is 0 there because the state space grows by an order of magnitude
with it; the theorems cover every skew, and `query_revocation` checks skew at
the reader.  In `query_revocation` two chunks of one document can be resolved before and after
a change, by two channels, and go stale before they are merged (a policy with bound 0, and
skew 1).  In `query_response` both caps bind, one chunk is withdrawn, two documents
of a family oppose each other; the store still changes (grants and revocations),
only time stands still.  Three uploads of different kinds interleave in `upload_stores`;
one crash suffices because a task that was lost is never resumed and a restart depends on the durable
state only.  In `migrate_start` three runners are one more than the holder of the lock and one that waits; the
releases extend, contradict and skip one another.  It has no bound of its own.

In `index_search` two writers are what it takes to lose an update or to misalign the lists, an empty chunk leaves
the total as it was, and the reader may start between any two steps of both.  In `ingestion_stages` number S occurs in two files, as a child and as
a root, so it is deduplicated across them, also by two workers at once; a handler is
unavailable until its toolkit is installed, a handler raises, and what FreeCAD writes may be broken as well; nobody bounds
the deaths and repetitions.  In `web_client` one switch of identity suffices to have listings of both
identities in flight, and two listings are what it takes to overtake; the second identity is in the scope of what the first uploads.
The change of an ACL falls before or after each of the listings, and takes readers away or adds them.
The second question finds a passage the first does not, so the
drawer can be checked with the wrong question; a change of permissions falls before or after a check; the channel limit, the total and
the share of a document each can push a passage out.  Two events in one run are beyond TLC's reach with liveness; the theorems
about the list and the drawer cover any number.  `Reopened` leaves out returning to
the workspace: it keeps nothing when it is left, so the first visit stands for all.

Bounds on the models are `MaxTime`, `MaxChanges`, `MaxCrashes`, `Workers`, `MaxSwitches`, `MaxInFlight`, `MaxAclChanges`, `MaxChecks`, `MaxEvents` and `Reopened`;
at `MaxTime` the clock stops, nothing else does.  Deadlock is checked except in the upload runs, where all uploads may be over
and the crash used up, and in `web_client`, where the last tab may be one in which nothing happens.

Properties, by run (each is stated in words where it is defined):

* `StampInv`, `BoundedExposure`: no ACL carries a stamp later than the last moment its policy was
  upstream's plus `MaxDelay + Skew`; so whoever is let in is let in by a policy that was upstream's no
  longer ago than its staleness bound plus `MaxDelay + Skew`.
* `MatchInv`, `ReconcileMatches`: the store matches the fetched answer when a reconcile returns,
  except where somebody else wrote meanwhile.
* `StoreSpec`: refinement of `AclStore`.
* `Converges`: once upstream rests and fetches stop failing, the store returns to upstream's answer again and again.
* `ShownWasVisible`, `NoExistenceLeak`, `AnswerGrounded`, `BestEvidence`, `Responds`: see section 1.
  `BestEvidence` is relative to what the channels returned: each channel is cut off at 50 hits before authorization.
* `NothingDangles`, `CompletedIsWhole`, `RefusedLeavesNothing`, `TerminalIsFinal`, `EventuallyTerminal`: see section 1.
* `InStep`, `ExecutedOnce`, `ServedBySchema`, `ReleaseToRelease`, `Ends`: see section 1; the fourth says that the
  recorded list is always one release's, never a mixture.
* `LifecycleSpec`: refinement of `UploadLifecycle`.
* `NeverFails`, `HitsMatch`, `FindsAdded`: see section 1.  The first holds however threads overlap; the others as long as no two uploads
  add at once, and `FindsAdded` excepts a term that more chunks hold by now than there were when the search began (its weight is then zero).  With overlapping adds the two lists can hold different chunks at one position, for good, and counters can be too low.
* `RecognisedIsKept`, `ReleasedIsCleared`, `OneIdPerPart`, `NoCircularAssembly`, `ReingestKeepsIds`: see section 1.  That one number has one id,
  and that resolving again changes nothing, holds as long as no two workers resolve at once; that one id stands for one part, and that no assembly becomes part of itself, holds always.
* `ListingIsForIdentity`: after a change of identity the list of the other one is replaced.  It excepts a listing that failed, one that
  came after a listing asked for later (`shown.late`), and the one an upload awaits, which is asked for under the identity that began it (`shown.awaited`).
* `KeepsUp`: the tab keeps coming back to what `/documents` has for the identity, for a row it shows as under way without exception but a failed listing.
  It excepts, by name: a completed row that turns failed and a row that is over and loses its ACL, since polling has stopped; and rows that are not
  shown at all and start no polling: those of other users of the scope, of other mounts, with an ACL that changed, or taken off by a late listing or by another identity's.
* `DrawerShowsChecked`, `MissingHasReason`: the drawer shows only what its identity could see since it was opened; what it reports as gone was not to be seen, or the caps
  could push it out (`Crowded`).  Both except a question submitted with the keyboard behind the open drawer (`behind`), and both speak of the identity that opened it.

The runs that end in a violation state what a comment or document says of
the program, and find what the code does instead; `PROJECT.json` quotes both.  In short: a reconcile deletes
other sources' ACLs; a failed upload keeps what it had indexed; a restart grants again what an administrator revoked; and files resolved at the
same time give one part number two ids.

Other things the models show that nobody promises otherwise: a late UPSERT extends the life of a withdrawn policy, by at
most the delay (`BoundedExposure` says so); opposing positions are compared within one document family only (the validator's comment calls the rest an
open design item).

The exceptions that the properties of the web client name are cases the code does not handle, against what its texts suggest: the drawer reports a passage as no longer
authorized (`EvidenceDrawer.tsx:95`) when only the caps of `/search` pushed it out; an open drawer keeps what it found for an earlier identity (line 17 speaks of the
current one; the backdrop covers the identity bar, but the keyboard reaches it); and a listing that comes late ends the polling and takes an upload off the list, although
polling is said to expose each state (`UploadPanel.tsx:40`).

### Fairness

`AclSync!FairSpec` assumes that a source's reconcile takes its next step when it can: the design runs
it periodically (`docs/safety/acl-sync-and-freshness.md`).  It may fail every time; `Converges` says
what it needs of that as a premise.  Delivery of notifications, upstream and the clock are not fair.
`QueryPipeline!FairSpec` assumes that a request's thread runs and that the gateway returns or raises.
`Uploads!FairSpec` assumes that a background task runs while the process is up; nobody restarts a crashed
process in the model's fairness, and requests (`accept`) are not fair either.
`WebClient!FairSpec` assumes that a request of the upload panel is served, that its answer arrives or the request fails, that an upload's POST ends, and that the
browser's timer fires.  Nobody has to act, and the server need not go on.
`SearchIndex` and `Ingestion` state no fairness: every property of theirs is a safety property.
`Migrate!FairSpec` assumes that a runner's next statement ends, or the runner dies and PostgreSQL notices,
and strong fairness for the lock: PostgreSQL serves its waiting transactions in the order they came.

## 4. Proofs

`AclSync_proofs`, for any sets of documents, sources, sites, roles and policies, any delay and any skew:

* `TypeCorrect` comes first; every other proof uses it.
* `MatchCorrect`, `ReconcileCorrect`: "when it returns, the store matches" is not inductive; `MatchInv`
  adds what holds half way (documents that are neither touched by others nor still to do already match).
* `StampCorrect`: the bound on stamps in the store is not inductive either, since stamps arrive from
  notifications and from fetched answers.  `StampInv` adds the same bound for both (`EventBound`,
  `FetchBound`) and that history lies in the past (`HeldBound`).
* `ExposureBounded` follows from `StampInv` and the age test of `CheckFreshness` alone.
* `ImplementsAclStore`: initial states map to initial states; every step is a step of the
  store or leaves `now` and `store` alone.  It needs that a reconcile's stamp was read in the past.
* `ReconcileRepairs`: `ReconcileCorrect` speaks of what was fetched; this one speaks of upstream.  The invariant `FetchedInv` says that a
  fetched policy is upstream's still, or a notification that it changed was sent after the reconcile read its clock; a reconcile of the
  owning source therefore repairs whatever notifications got lost, were repeated or came late, and leaves out only what changed during its own run.
* `ReconcilesRunDown`: with finitely many documents a reconcile is over after a bounded number of calls (`CallsLeft`), whoever else writes.
  Together with `ReconcileRepairs` this is what `Converges` rests on.

`QueryPipeline_proofs`, for any requests, callers, documents, chunks and channels:

* `TypeCorrect`.
* `ShownOnlyVisible`: `ShownWasVisible` alone is not inductive.  `SeenInv` adds that stamps lie in the past up to
  `Skew` (`StampsPast`), that what is visible now is in `seen` (`SeenNow`), and that any candidate that would pass
  the filter now belongs to a document that has been seen (`CandidatesSeen`).  The last one is where time matters: an
  ACL that was resolved in the request and is fresh now was fresh then, because ages only grow, and a stamp
  from a clock that runs ahead was acceptable then because `Skew <= ClockSkewTolerance`
  (`QueryAssumption`).

* `AnswersGrounded`, `NothingGivenAway`: one invariant for both, `AnswerInv`, says per request what each stage has established
  (`StageFits`: past the gate the caller is verified and has a role; before the end there is no outcome and nothing cited; whoever asks the gateway has
  evidence; whoever fetches has found something visible) and what a finished one says.  With `ShownWasVisible`, a caller who could see nothing has
  no evidence and no document, so these stages are never reached.
* `EvidenceIsDetermined`, `BestIsKept`: the model says what `assemble` keeps by a condition on the evidence (`Assembled`), not by a loop.  The first
  theorem shows that this condition stands for the loop: chunks can be ranked, and to each ranking there is exactly one evidence.  The second
  shows what the caps cut off.  Both count finite sets; where one would use induction, they take a smallest set of a kind
  (`SmallestSubset`, from the library's theorem that strict inclusion among finite sets is well-founded) or the last element of one (`LastElement`).
* `RequestsRunDown`, `NeverStuck`: the two halves of `Responds` that are not about scheduling.  `StepsLeft` is a number that every step of a
  request makes smaller, whatever the store and other requests do; and a request that is served always finds what its next step needs (`CanStep`), where
  `EvidenceIsDetermined` is needed for the merge.  `AwaitInv` is the invariant behind it: a request resolves only hits it has, and checks only documents
  somebody asked for.

`Migrate_proofs`, for any runners, files and releases: `TypeCorrect`, and then one inductive invariant
(`IInv`) for the rest.  It adds to the properties that only the holder of the lock is past the lock statement
(`Exclusive`) and that what its SELECT returned is still what is committed (`InTransaction`).  From it
follow `InStepAlways`, `NothingTwice`, `ServedAlways` and, with `CommitFacts`, `WholeReleases`.  `MigrationsRunDown` and `HolderGetsOn` are the halves of `Ends` that
are not about scheduling: no run goes round in its loop (`StatementsLeft`), the lock is held by a run that is under way and by nobody else, and that
run's next statement finds what it needs.  In particular the primary key never refuses the row of a file whose SQL has just been executed.

`Uploads_proofs`, for any uploads, chunk counts, failing writes and crashes: documents do not interfere, so the inductive invariant is one
statement per document (`DocInv`): the row fits the task's program counter (`RowFits`), references are good (`Sound`), what is completed
is whole (`Whole`), the stores hold what the task has got to (`Progress`), a refused file has nothing (`Refused`), and memory is empty while the process is down
(`Down`).  From it `TypeCorrect`, `ReferencesGood`, `CompletedWhole`, `RefusedNothing`, `TerminalFinal` and the refinement `ImplementsLifecycle`.
`UploadsRunDown` and `NoUploadHangs` are what `EventuallyTerminal` rests on: every change of an upload's task, a crash included, brings it closer to its
end (`WorkLeft`), a task that has not ended is one of a process that runs, and one that is done has left a terminal state.

`SearchIndex_proofs`, for any writers, uploads, readers and terms: `TypeCorrect`, `SearchNeverFails`, `FoundMatches`.  The invariant counts: the chunk list is
as long as the token list plus the number of writers between their two appends, and neither ever shrinks; so a position found in the token list exists in the
chunk list, and with one writer at a time both lists agree where both have an entry.
`AddedIsFound` and `CountsAgree` need more counting.  `Exact` says that the document frequency of a term is the number of chunks that hold it, less what
the one writer under way has still to count (`Pending`, `Uncounted`); `Complete` says of a search that every position with the term it has passed is among its hits, or
more chunks hold the term by now than there were when it began (`TooMany`, when its weight is zero).  That only one writer is ever under way while nothing has overlapped (`OneAdder`) makes the count exact.

`Ingestion_proofs`, for any files, handlers that recognise them, parts and toolkits: `TypeCorrect`, `KeptFile`, `ClearedRelease`, `OneId`, `NoCircles`, `Idempotent`.
The invariant says per file what its stage has established (`JobInv`), that the store holds under a number only ids of parts with that number (`Registered`),
that at most one file is resolved at a time unless `overlapped` (`Exclusive`), and that every edge of ids stands for an edge of the files' own structure (`EdgesFit`).  An id is
made of a file and a position, so it names one part (`Names`); a cycle of ids therefore maps to a cycle of names.  `Idempotent` rests on
`IdsFit` (the ids of an attempt, and those last resolved, are the store's or the file's own) and on `EdgesKept`; the store may change
an id only when two workers overlap, which is why `Grows` asks for that.

`WebClient_proofs`, for any identities, documents, questions, passages, claims and caps: `ListedForIdentity`, `ShowsChecked`, `MissingExplained`.  The first
follows each listing through reordering: one of another identity is late, or awaited by an upload, or has one of the identity in use
behind it, unless such a listing failed (`Outdated`).  For the drawer, `DrawerInv` says that an
answer fits the last question (`AnswerFits`), that the drawer's history is up to date and that it stands for a claim of the answer shown
(`DrawerFits`), and that a search which was not cancelled is the drawer's own (`CheckFits`); the last two hold of the cited passage only while no
question is submitted behind the drawer.  `FoundFits` says of `/search` what the theorems need: it returns nothing that may not be seen, and what
fits and may be seen is returned unless the caps can push it out.

Assumptions are the named ASSUMEs of the modules: constants have their types, and, for queries,
the skew of stamping clocks is within the tolerance the code allows (60 seconds in
`freshness.py`).  What is counted is finite: the chunks the indexes hold and the uploads (`QueryAssumption`), the passages (`WorkspaceAssumption`), the
migration files of all releases (`MigrateAssumption`) and, for `ReconcilesRunDown` alone, the documents.

Only model-checked: `Converges`, `Responds`, `EventuallyTerminal`, `Ends` and `KeepsUp`.  Liveness under fairness and ENABLED are out of the
prover's reach.  For `Responds`, `EventuallyTerminal` and `Ends` the theorems above prove what is not scheduling: steps lead towards the end, and there
is a next one; for `Converges`, that a reconcile ends and what it has repaired by then.  That `CanStep` of `QueryPipeline_proofs` and `Migrate_proofs`
tells when a step is enabled is read off the guards of the actions.  For `KeepsUp` no such theorem is stated.

## 5. Plan

Done, in this order: `Authz`, `AclSync` with its proofs, `AclStore` and the refinement, `QueryPipeline` with its
proofs, `Uploads`, `Migrate` with its proofs; `UploadLifecycle` and the refinement, `SearchIndex`, `Ingestion`, `WebClient`; the proofs of
`Uploads`, `SearchIndex`, `Ingestion` and `WebClient`, and the rest of `QueryPipeline`'s; the safety halves of the liveness properties.  Left, in order of importance:

1. Files that change between two ingestions, once the stages make derivative sets (`stages/index.py` only adds rows today).
2. One theorem from upstream to the response, over `AclSync` and `QueryPipeline` together.  Today it is two theorems and a refinement: `ShownOnlyVisible` (what is
   shown was visible during the request), `ExposureBounded` (what is visible was granted upstream not too long ago), and `ImplementsAclStore`.

## 6. Not modelled

Texts, scores and tokenization (BM25, identifiers, phrases): in `QueryPipeline` a channel may find anything, in `WorkspacePanel` the score decides
between passages of equal rank in any way.  That searches rank and cut off is modelled in both, and properties depend on it.  Audit reasons and messages.  The wording of abstentions; the model
distinguishes `unauthorized_scope` from `insufficient` as the response's `reason` does.  Validation of upload
names, types and sizes, which precedes every write.  Geometry, PMI, what a toolkit reads from a file, the shape descriptor `enrich` computes, and
the texts of chunks: data that no property tells apart.  Ingestion routes of other formats than CAD have no code in the stages.  `ExactIndex` and the shape store append to
one list and have no counters; `SearchIndex` covers the harder case.  HTTP, header parsing and the
environment gate of the development identity.  The in-memory profile of the upload repository,
which has the same order of writes and loses everything in a crash.  In the web client: the 3D preview, the display of the search mode, the
revocation form and the storage of the identity in the browser.  Packages that hold no code, build scripts,
containers and infrastructure.
