------------------------------ MODULE AclStore ------------------------------
(***************************************************************************)
(* The AclStore: what every reader of permissions sees, and all it may     *)
(* count on.  AclSync implements this specification; QueryPipeline runs on *)
(* top of it.  A write replaces or removes one document's ACL; no ACL is   *)
(* stamped later than a clock that is off by at most Skew can read.        *)
(***************************************************************************)
EXTENDS Authz

CONSTANTS
  Docs, Roles, Sites,
  Policies,      \* the policies an ACL may carry
  Skew,          \* largest offset of a stamping clock
  MaxTime        \* bound: the clock stops here

Acl == [sites : SUBSET Sites, roles : SUBSET Roles,
        maxStale : Nat \cup {None}, synced : Int]

ASSUME AclStoreAssumption ==
  /\ Policies \subseteq PolicySpace(Roles, Sites)
  /\ None \notin Policies \cup Acl
  /\ Skew \in Nat /\ MaxTime \in Nat

VARIABLES
  now,        \* true time
  store       \* [Docs -> ACL or None]: the AclStore

AllDocumentIds == {d \in Docs : store[d] # None}

Upsert(d, p, t) == store' = [store EXCEPT ![d] = Stamped(p, t)]
Delete(d)       == store' = [store EXCEPT ![d] = None]

(* Every stamp a clock that is off by at most Skew has read so far.        *)
Readings == -Skew .. (now + Skew)

StoreInit ==
  /\ now = 0
  /\ store \in [Docs -> {None} \cup {Stamped(p, t) : p \in Policies, t \in Readings}]

StoreTick == now < MaxTime /\ now' = now + 1 /\ UNCHANGED store

StoreUpsert(d) ==
  /\ \E p \in Policies, t \in Readings : Upsert(d, p, t)
  /\ UNCHANGED now

StoreDelete(d) == Delete(d) /\ UNCHANGED now

StoreNext ==
  \/ StoreTick
  \/ \E d \in Docs : StoreUpsert(d) \/ StoreDelete(d)

(* What AclSync promises its readers: ACLs change one document at a time,  *)
(* and no write is stamped with a time no clock can have read.             *)
StoreSpec == StoreInit /\ [][StoreNext]_<<now, store>>

=============================================================================
