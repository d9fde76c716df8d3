------------------------------ MODULE AclSync ------------------------------
(***************************************************************************)
(* ACL synchronisation: the upstream systems that own permissions, the     *)
(* local AclStore, the PULL path (reconcile) and the PUSH path             *)
(* (apply_event).                                                          *)
(*                                                                         *)
(* Upstream changes whenever it likes and sends a notification for each    *)
(* change.  A notification may be lost, duplicated and reordered, but is   *)
(* not delivered more than MaxDelay after it was sent.  reconcile takes    *)
(* the clock, fetches, upserts the fetched ACLs one at a time and then     *)
(* deletes, one at a time, what it did not fetch; notifications, other     *)
(* sources' reconciles and the clock interleave with it.  Clocks that      *)
(* stamp differ from `now` by at most Skew.                                *)
(*                                                                         *)
(* The SyncReport counters are left out: both branches of reconcile's IF   *)
(* write the same ACL.                                                     *)
(***************************************************************************)
EXTENDS AclStore

CONSTANTS
  Sources,
  SourceOf,      \* [Docs -> Sources]: the one system that owns a document
  MaxDelay,      \* longest delivery delay of a notification
  MaxChanges     \* bound: number of upstream changes

ASSUME AclSyncAssumption ==
  /\ SourceOf \in [Docs -> Sources]
  /\ MaxDelay \in Nat /\ MaxChanges \in Nat

VARIABLES
  truth,      \* [Docs -> policy or None]: what upstream grants
  heldUntil,  \* history: last time each policy was upstream's for a document
  events,     \* notifications sent so far
  changes,    \* number of upstream changes so far
  rec,        \* [Sources -> state of that source's reconcile]
  touched     \* history: documents others wrote since that source's fetch

vars == <<now, truth, heldUntil, events, changes, store, rec, touched>>
envVars == <<truth, heldUntil, events, changes>>

Event == [doc : Docs, policy : Policies \cup {None}, at : Nat]
Fetched == [Docs -> Policies \cup {None}]
Reconcile == [pc : {"idle", "fetching", "upserting", "sweeping"},
              stamp : Int, fetched : Fetched, todo : SUBSET Docs]

(* A time no stamp can be mistaken for: "this policy was never granted".   *)
Never == -(1 + MaxDelay + 2 * Skew)

(* What a clock that is off by at most Skew reads.                         *)
ClockReadings == (now - Skew) .. (now + Skew)

LastTrue(d, p) == IF truth[d] = p THEN now ELSE heldUntil[d][p]

(* Record for the reconciles of S that somebody else wrote d.              *)
Touch(S, d) ==
  touched' = [s \in Sources |->
                IF s \in S /\ rec[s].pc \in {"upserting", "sweeping"}
                THEN touched[s] \cup {d} ELSE touched[s]]

NothingFetched == [d \in Docs |-> None]
Idle == [pc |-> "idle", stamp |-> 0, fetched |-> NothingFetched, todo |-> {}]

Init ==
  /\ now = 0
  /\ truth \in [Docs -> Policies \cup {None}]
  /\ heldUntil = [d \in Docs |-> [p \in Policies |-> Never]]
  /\ events = {}
  /\ changes = 0
  /\ store = [d \in Docs |-> None]
  /\ rec = [s \in Sources |-> Idle]
  /\ touched = [s \in Sources |-> {}]

-----------------------------------------------------------------------------
(* The environment: time, upstream, and its notifications.                 *)

Tick == StoreTick /\ UNCHANGED <<envVars, rec, touched>>

(* Upstream grants, changes or revokes, and sends the notification.        *)
UpstreamChange(d, p) ==
  /\ changes < MaxChanges
  /\ p # truth[d]
  /\ truth' = [truth EXCEPT ![d] = p]
  /\ heldUntil' = IF truth[d] = None THEN heldUntil
                  ELSE [heldUntil EXCEPT ![d][truth[d]] = now]
  /\ events' = events \cup {[doc |-> d, policy |-> p, at |-> now]}
  /\ changes' = changes + 1
  /\ UNCHANGED <<now, store, rec, touched>>

-----------------------------------------------------------------------------
(* apply_event.  An event stays in `events`: it may be delivered again.    *)
(* UPSERT without a payload raises and changes nothing.                    *)

ApplyEvent(e) ==
  /\ now <= e.at + MaxDelay
  /\ IF e.policy = None
     THEN Delete(e.doc)
     ELSE \E t \in ClockReadings : Upsert(e.doc, e.policy, t)
  /\ Touch(Sources, e.doc)
  /\ UNCHANGED <<now, envVars, rec>>

-----------------------------------------------------------------------------
(* reconcile(source, store).                                               *)

(* Mutant of ReconcileBegin: a clock that is further off than Skew.        *)
ReconcileBegin_SlowClock(s) ==
  /\ rec[s].pc = "idle"
  /\ \E t \in ClockReadings :
        rec' = [rec EXCEPT ![s] = [Idle EXCEPT !.pc = "fetching", !.stamp = t - 1]]
  /\ UNCHANGED <<now, envVars, store, touched>>

(* now = _now(), before the fetch.                                         *)
ReconcileBegin(s) ==
  /\ rec[s].pc = "idle"
  /\ \E t \in ClockReadings :
        rec' = [rec EXCEPT ![s] = [Idle EXCEPT !.pc = "fetching", !.stamp = t]]
  /\ UNCHANGED <<now, envVars, store, touched>>

(* source.fetch_current(): this source's granted documents.                *)
ReconcileFetch(s) ==
  /\ rec[s].pc = "fetching"
  /\ LET got == [d \in Docs |-> IF SourceOf[d] = s THEN truth[d] ELSE None]
     IN  rec' = [rec EXCEPT ![s].pc = "upserting",
                            ![s].fetched = got,
                            ![s].todo = {d \in Docs : got[d] # None}]
  /\ UNCHANGED <<now, envVars, store, touched>>

(* Mutant of ReconcileUpsert: stamped when written, not when fetched.      *)
ReconcileUpsert_StampsLate(s, d) ==
  /\ rec[s].pc = "upserting"
  /\ d \in rec[s].todo
  /\ \E t \in ClockReadings : Upsert(d, rec[s].fetched[d], t)
  /\ Touch(Sources \ {s}, d)
  /\ rec' = [rec EXCEPT ![s].todo = @ \ {d}]
  /\ UNCHANGED <<now, envVars>>

ReconcileUpsert(s, d) ==
  /\ rec[s].pc = "upserting"
  /\ d \in rec[s].todo
  /\ Upsert(d, rec[s].fetched[d], rec[s].stamp)
  /\ Touch(Sources \ {s}, d)
  /\ rec' = [rec EXCEPT ![s].todo = @ \ {d}]
  /\ UNCHANGED <<now, envVars>>

(* Mutant of ReconcileSweep: nothing is found to delete.                   *)
ReconcileSweep_UpsertOnly(s) ==
  /\ rec[s].pc = "upserting"
  /\ rec[s].todo = {}
  /\ rec' = [rec EXCEPT ![s].pc = "sweeping"]
  /\ UNCHANGED <<now, envVars, store, touched>>

(* store.all_document_ids() - seen, read once, after the last upsert.      *)
ReconcileSweep(s) ==
  /\ rec[s].pc = "upserting"
  /\ rec[s].todo = {}
  /\ rec' = [rec EXCEPT ![s].pc = "sweeping",
                        ![s].todo = {d \in AllDocumentIds :
                                       rec[s].fetched[d] = None}]
  /\ UNCHANGED <<now, envVars, store, touched>>

ReconcileDelete(s, d) ==
  /\ rec[s].pc = "sweeping"
  /\ d \in rec[s].todo
  /\ Delete(d)
  /\ Touch(Sources \ {s}, d)
  /\ rec' = [rec EXCEPT ![s].todo = @ \ {d}]
  /\ UNCHANGED <<now, envVars>>

(* Mutant of ReconcileEnd: returns while revoked documents are left.       *)
ReconcileEnd_Early(s) ==
  /\ rec[s].pc = "sweeping"
  /\ rec' = [rec EXCEPT ![s] = Idle]
  /\ touched' = [touched EXCEPT ![s] = {}]
  /\ UNCHANGED <<now, envVars, store>>

ReconcileEnd(s) ==
  /\ rec[s].pc = "sweeping"
  /\ rec[s].todo = {}
  /\ rec' = [rec EXCEPT ![s] = Idle]
  /\ touched' = [touched EXCEPT ![s] = {}]
  /\ UNCHANGED <<now, envVars, store>>

(* Mutant of ReconcileFail: the exception is swallowed and the sweep goes  *)
(* on with the part of the answer that was read.                           *)
ReconcileFail_Swallowed(s) ==
  /\ rec[s].pc = "upserting" /\ rec[s].todo # {}
  /\ rec' = [rec EXCEPT ![s].pc = "sweeping",
                        ![s].todo = {d \in AllDocumentIds :
                                       d \in @ \/ rec[s].fetched[d] = None}]
  /\ UNCHANGED <<now, envVars, store, touched>>

(* fetch_current, or the iterator it returned, raises: the exception       *)
(* leaves reconcile before the sweep.                                      *)
ReconcileFail(s) ==
  /\ \/ rec[s].pc = "fetching"
     \/ rec[s].pc = "upserting" /\ rec[s].todo # {}
  /\ rec' = [rec EXCEPT ![s] = Idle]
  /\ touched' = [touched EXCEPT ![s] = {}]
  /\ UNCHANGED <<now, envVars, store>>

-----------------------------------------------------------------------------

ReconcileStep(s) ==
  \/ ReconcileBegin(s)
  \/ ReconcileFetch(s)
  \/ \E d \in Docs : ReconcileUpsert(s, d)
  \/ ReconcileSweep(s)
  \/ \E d \in Docs : ReconcileDelete(s, d)
  \/ ReconcileEnd(s)

Next ==
  \/ Tick
  \/ \E d \in Docs, p \in Policies \cup {None} : UpstreamChange(d, p)
  \/ \E e \in events : ApplyEvent(e)
  \/ \E s \in Sources : ReconcileStep(s) \/ ReconcileFail(s)

Spec == Init /\ [][Next]_vars

(* The deployment runs every source's reconcile over and over: a run that *)
(* can take its next step is not put off for ever.  It may still fail      *)
(* every time (Converges says what it needs).  Nothing else is fair.       *)
FairSpec ==
  Spec /\ \A s \in Sources : WF_vars(ReconcileStep(s))

-----------------------------------------------------------------------------
(* Properties.                                                             *)

TypeOK ==
  /\ now \in Nat
  /\ truth \in [Docs -> Policies \cup {None}]
  /\ heldUntil \in [Docs -> [Policies -> Int]]
  /\ events \subseteq Event
  /\ changes \in Nat
  /\ store \in [Docs -> Acl \cup {None}]
  /\ rec \in [Sources -> Reconcile]
  /\ touched \in [Sources -> SUBSET Docs]

(* What the store holds for d, as a policy.                                *)
Granted(d) == IF store[d] = None THEN None ELSE PolicyOf(store[d])

(* No ACL carries a stamp later than the last moment its policy was        *)
(* upstream's, plus the delivery delay and the clock offset: neither a     *)
(* slow reconcile (sync.py takes `now` before it fetches) nor a late or    *)
(* repeated notification can rejuvenate a withdrawn policy further.        *)
StampBound ==
  \A d \in AllDocumentIds :
    /\ PolicyOf(store[d]) \in Policies
    /\ store[d].synced <= LastTrue(d, PolicyOf(store[d])) + MaxDelay + Skew

(* Why StampBound is inductive: the same bound for what is still on its    *)
(* way into the store, a notification or a fetched answer.                 *)
HeldBound ==
  \A d \in Docs, p \in Policies : heldUntil[d][p] <= now

EventBound ==
  \A e \in events : e.policy # None => e.at <= LastTrue(e.doc, e.policy)

FetchBound ==
  \A s \in Sources :
    /\ rec[s].pc = "fetching" => rec[s].stamp <= now + Skew
    /\ \A d \in Docs : rec[s].fetched[d] # None =>
         rec[s].stamp <= LastTrue(d, rec[s].fetched[d]) + Skew

StampInv == HeldBound /\ EventBound /\ FetchBound /\ StampBound

(* Freshness bounds exposure: whenever evaluate_document lets somebody see *)
(* d, the policy it used was upstream's no longer ago than that policy's   *)
(* staleness bound plus delivery delay plus clock offset, whatever was     *)
(* lost, repeated, reordered or cut short.                                 *)
BoundedExposure ==
  \A d \in AllDocumentIds, ctx \in Contexts(Roles, Sites) :
    EvaluateDocument(ctx, store[d], now) =>
      now <= LastTrue(d, PolicyOf(store[d]))
               + Staleness(store[d]) + MaxDelay + Skew

(* "Make `store` match `source`": when a reconcile returns, every document *)
(* that nobody else wrote since its fetch has exactly the policy it        *)
(* fetched, and none if it fetched none.                                   *)
ReconcileMatches ==
  [][\A s \in Sources :
       (rec[s].pc = "sweeping" /\ rec'[s].pc = "idle") =>
         \A d \in Docs \ touched[s] : Granted(d) = rec[s].fetched[d]]_vars

(* How far a reconcile has come in making the store match what it fetched. *)
MatchInv ==
  \A s \in Sources :
    /\ rec[s].pc = "upserting" =>
         /\ \A d \in rec[s].todo : rec[s].fetched[d] # None
         /\ \A d \in Docs \ (touched[s] \cup rec[s].todo) :
              rec[s].fetched[d] # None => Granted(d) = rec[s].fetched[d]
    /\ rec[s].pc = "sweeping" =>
         /\ \A d \in rec[s].todo : rec[s].fetched[d] = None
         /\ \A d \in Docs \ (touched[s] \cup rec[s].todo) :
              Granted(d) = rec[s].fetched[d]

(* Once upstream stops changing and its fetches stop failing, the store    *)
(* keeps coming back to upstream's answer for every document, although old *)
(* notifications may still arrive: PULL repairs whatever PUSH lost or      *)
(* spoiled.  (One source.)                                                 *)
Converges ==
  (\A s \in Sources : <>[][~ReconcileFail(s)]_vars) =>
    \A d \in Docs, p \in Policies \cup {None} :
      <>[](truth[d] = p) => []<>(Granted(d) = p)

(* sync.py:115, "Anything in the store but NOT in the current upstream set *)
(* has been revoked": the sweep only deletes what upstream has withdrawn.  *)
(* It does not hold with two sources.                                      *)
SweepDeletesOnlyRevoked ==
  [][\A s \in Sources, d \in Docs :
       (ReconcileDelete(s, d) /\ store[d] # None) => truth[d] = None]_vars

=============================================================================
