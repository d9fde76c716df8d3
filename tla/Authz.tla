------------------------------- MODULE Authz -------------------------------
(***************************************************************************)
(* The authorization decisions of packages/ikip-authz, as operators.       *)
(*                                                                         *)
(* A policy is what an upstream system says about a document: the sites    *)
(* and roles it is restricted to (empty means unrestricted) and how long a *)
(* cached copy may be trusted.  An ACL is a policy together with the time  *)
(* it was last synchronised.  A context is the verified identity a request *)
(* carries.  Every decision is a pure function of (context, ACL, clock).   *)
(* Reasons and their wording are left out; the decision is BOOLEAN.        *)
(***************************************************************************)
EXTENDS Integers

CONSTANTS
  DefaultMaxStaleness,  \* bound used when an ACL carries none
  ClockSkewTolerance,   \* how far in the future synced_at may lie
  None                  \* Python's None: no timestamp, no bound, no ACL

ASSUME AuthzAssumption ==
  /\ DefaultMaxStaleness \in Nat
  /\ ClockSkewTolerance \in Nat
  /\ None \notin Int

Contexts(Roles, Sites) ==
  [roles : SUBSET Roles, sites : SUBSET Sites, verified : BOOLEAN]

PolicySpace(Roles, Sites) ==
  [sites : SUBSET Sites, roles : SUBSET Roles, maxStale : Nat \cup {None}]

(* Mutant of Stamped: the synced_at upstream sent, none, is kept.          *)
Stamped_AsSent(p, t) ==
  [sites |-> p.sites, roles |-> p.roles, maxStale |-> p.maxStale, synced |-> None]

(* _stamped: the policy with synced_at replaced by the caller's clock.     *)
Stamped(p, t) ==
  [sites |-> p.sites, roles |-> p.roles, maxStale |-> p.maxStale, synced |-> t]

PolicyOf(acl) ==
  [sites |-> acl.sites, roles |-> acl.roles, maxStale |-> acl.maxStale]

-----------------------------------------------------------------------------

Staleness(acl) ==
  IF acl.maxStale = None THEN DefaultMaxStaleness ELSE acl.maxStale

(* Mutant of CheckFreshness: the age of the ACL is not looked at.          *)
CheckFreshness_AnyAge(acl, clock) ==
  /\ acl.synced # None
  /\ clock - acl.synced >= -ClockSkewTolerance

(* Allow only a synced_at that exists, is not implausibly in the future    *)
(* and is no older than the bound.                                         *)
CheckFreshness(acl, clock) ==
  /\ acl.synced # None
  /\ clock - acl.synced >= -ClockSkewTolerance
  /\ clock - acl.synced <= Staleness(acl)

InScope(ctx, acl) ==
  /\ \/ ctx.sites = {}
     \/ acl.sites = {}
     \/ ctx.sites \cap acl.sites # {}
  /\ \/ acl.roles = {}
     \/ ctx.roles \cap acl.roles # {}

EvaluateDocument(ctx, acl, clock) ==
  CheckFreshness(acl, clock) /\ InScope(ctx, acl)

(* The gate on the whole request; an unverified context raises before it.  *)
AuthorizeScope(ctx) == ctx.roles # {}

=============================================================================
