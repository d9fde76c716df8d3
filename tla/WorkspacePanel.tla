--------------------------- MODULE WorkspacePanel ---------------------------
(***************************************************************************)
(* The workspace tab: a question is asked, its answer cites passages, and  *)
(* the drawer of a cited source searches again, to show nothing that is    *)
(* withdrawn meanwhile.                                                    *)
(*                                                                         *)
(* Data: a claim cites one passage; claim ids are the same in every        *)
(* answer.  /search and /answer find what fits the question, drop what the *)
(* caller may not see, rank the rest and cut it off; how that is computed, *)
(* and the draft, are QueryPipeline's.  The search mode has no drawer and  *)
(* is left out.                                                            *)
(***************************************************************************)
EXTENDS DevIdentity, FiniteSets

CONSTANTS
  Questions, Passages, Claims,
  Documents,      \* permission is given by document
  Source,         \* [Passages -> Documents]
  Fits,           \* [Questions -> SUBSET Passages]: what the channels match
  Weight,         \* [Passages -> Nat]: rank by authority, scope and revision;
                  \*   the score decides between equals, in any way
  ChannelLimit,   \* hits a channel returns at most
  MaxEvidence, MaxPerDocument,  \* caps of the evidence
  Granted,        \* [Identities -> SUBSET Documents]: may be seen at first
  MaxChanges,     \* bound: number of changes of what may be seen
  MaxChecks       \* bound: searches of the drawer not yet answered

(* "moments" is history: what the drawer's identity could see at each      *)
(* moment since it was opened.                                             *)
Drawers == [claim : Claims, cites : Passages, by : Identities,
            status : {"loading", "ready", "error"}, found : SUBSET Passages,
            moments : SUBSET SUBSET Documents]

Checks == [cites : Passages, question : Questions, by : Identities,
           live : BOOLEAN, result : (SUBSET Passages) \cup {None}]

ASSUME WorkspaceAssumption ==
  /\ IsFiniteSet(Passages)
  /\ Source \in [Passages -> Documents]
  /\ Fits \in [Questions -> SUBSET Passages]
  /\ Weight \in [Passages -> Nat]
  /\ ChannelLimit \in Nat /\ MaxEvidence \in Nat /\ MaxPerDocument \in Nat
  /\ Granted \in [Identities -> SUBSET Documents]
  /\ None \notin Drawers

VARIABLES
  visible,   \* [Identities -> documents the server lets it see]
  changes,   \* number of changes of visible
  asking,    \* the question in flight, None if nothing is: `loading`
  lastQuery, \* the last question submitted
  answer,    \* the answer shown: [Claims -> passage or None], or None
  drawer,    \* the drawer, None if closed
  checks,    \* searches of the drawer in flight
  behind     \* history since the mount: a question was submitted while the
             \*   drawer was open (with the keyboard; it covers the form)

workspace == <<asking, lastQuery, answer, drawer, checks, behind>>

Of(docs) == {p \in Passages : Source[p] \in docs}

(* The channels together: all that fits, or one of them was cut off, before *)
(* permissions are looked at.                                              *)
Hits(q) == {H \in SUBSET Fits[q] : H = Fits[q] \/ Cardinality(H) >= ChannelLimit}

NoWorse(p, A) == {x \in A \ {p} : Weight[x] >= Weight[p]}
SameDocument(p, A) == {x \in A : Source[x] = Source[p]}

(* Merged, ranked and capped: what is left out comes after a full set, or  *)
(* after a full share of its document.                                     *)
Assemble(A) ==
  {K \in SUBSET A :
     /\ Cardinality(K) <= MaxEvidence
     /\ \A p \in K : Cardinality(SameDocument(p, K)) <= MaxPerDocument
     /\ \A p \in A \ K :
          \/ Cardinality(NoWorse(p, K)) >= MaxEvidence
          \/ Cardinality(SameDocument(p, NoWorse(p, K))) >= MaxPerDocument}

(* What /search may return, and /answer may cite.                          *)
Found(q, i) == UNION {Assemble(H \cap Of(visible[i])) : H \in Hits(q)}

WorkspaceReset ==
  /\ asking' = None /\ lastQuery' = None /\ answer' = None
  /\ drawer' = None /\ checks' = {} /\ behind' = FALSE

-----------------------------------------------------------------------------
(* A grant, a revocation or a new document.                                *)
Change(i, docs) ==
  /\ changes < MaxChanges /\ docs # visible[i]
  /\ changes' = changes + 1
  /\ visible' = [visible EXCEPT ![i] = docs]
  /\ drawer' = IF drawer = None THEN None
               ELSE IF drawer.by # i THEN drawer
               ELSE [drawer EXCEPT !.moments = @ \cup {docs}]
  /\ UNCHANGED <<asking, lastQuery, answer, checks, behind>>

(* Mutant of Submit: the last answer is left while a new one is awaited.   *)
Submit_KeepsAnswer(q) ==
  /\ asking = None
  /\ asking' = [question |-> q, by |-> identity]
  /\ lastQuery' = q
  /\ behind' = (behind \/ drawer # None)
  /\ UNCHANGED <<visible, changes, answer, drawer, checks>>

(* The button is disabled while loading.                                   *)
Submit(q) ==
  /\ asking = None
  /\ asking' = [question |-> q, by |-> identity]
  /\ lastQuery' = q
  /\ answer' = None
  /\ behind' = (behind \/ drawer # None)
  /\ UNCHANGED <<visible, changes, drawer, checks>>

Answer ==
  /\ asking # None
  /\ \E K \in Found(asking.question, asking.by) : answer' \in [Claims -> K \cup {None}]
  /\ asking' = None
  /\ UNCHANGED <<visible, changes, lastQuery, drawer, checks, behind>>

AnswerFails ==
  /\ asking # None
  /\ asking' = None
  /\ UNCHANGED <<visible, changes, lastQuery, answer, drawer, checks, behind>>

-----------------------------------------------------------------------------
(* The drawer.                                                             *)

(* The cleanup of the effect: `cancelled`.                                 *)
Cancelled == {[c EXCEPT !.live = FALSE] : c \in checks}

(* The effect depends on the claim alone: the same claim of another answer *)
(* changes what is cited, and nothing is searched.                         *)
OpenCitation(k) ==
  /\ answer # None /\ answer[k] # None
  /\ IF drawer # None /\ drawer.claim = k
     THEN /\ drawer' = [drawer EXCEPT !.cites = answer[k]]
          /\ UNCHANGED checks
     ELSE /\ Cardinality(checks) < MaxChecks
          /\ drawer' = [claim |-> k, cites |-> answer[k], by |-> identity,
                        status |-> "loading", found |-> {}, moments |-> {visible[identity]}]
          /\ checks' = Cancelled \cup
               {[cites |-> answer[k], question |-> lastQuery, by |-> identity,
                 live |-> TRUE, result |-> None]}
  /\ UNCHANGED <<visible, changes, asking, lastQuery, answer, behind>>

CheckServed(c) ==
  /\ c.result = None
  /\ \E K \in Found(c.question, c.by) :
       checks' = (checks \ {c}) \cup {[c EXCEPT !.result = K]}
  /\ UNCHANGED <<visible, changes, asking, lastQuery, answer, drawer, behind>>

(* Mutant of Arrived: the flag is not looked at.                           *)
Arrived_Cancelled(c) == drawer # None

Arrived(c) == c.live

(* The cited passages that came back are shown, the others reported.       *)
CheckReceived(c) ==
  /\ c.result # None
  /\ checks' = checks \ {c}
  /\ drawer' = IF Arrived(c)
               THEN [drawer EXCEPT !.status = "ready", !.found = {c.cites} \cap c.result]
               ELSE drawer
  /\ UNCHANGED <<visible, changes, asking, lastQuery, answer, behind>>

CheckFails(c) ==
  /\ checks' = checks \ {c}
  /\ drawer' = IF Arrived(c) THEN [drawer EXCEPT !.status = "error"] ELSE drawer
  /\ UNCHANGED <<visible, changes, asking, lastQuery, answer, behind>>

CloseDrawer ==
  /\ drawer # None
  /\ drawer' = None
  /\ checks' = Cancelled
  /\ UNCHANGED <<visible, changes, asking, lastQuery, answer, behind>>

WorkspaceStep ==
  \/ \E q \in Questions : Submit(q)
  \/ Answer \/ AnswerFails
  \/ \E k \in Claims : OpenCitation(k)
  \/ \E c \in checks : CheckServed(c) \/ CheckReceived(c) \/ CheckFails(c)
  \/ CloseDrawer

-----------------------------------------------------------------------------
(* Properties.                                                             *)

Ready == drawer # None /\ drawer.status = "ready"

(* EvidenceDrawer.tsx:64, "Re-checking authorization now rather than       *)
(* showing what was cached": what the drawer shows could be seen, by the   *)
(* identity that opened it, at some moment since it was opened, and is the *)
(* passage its claim cites; late answers of other drawers do not show.     *)
DrawerShowsChecked ==
  Ready =>
    /\ drawer.found \subseteq Of(UNION drawer.moments)
    /\ ~behind => drawer.found \subseteq {drawer.cites}

(* The caps of /search can push p out for who sees these documents: the    *)
(* channels return fewer than fit, or enough that ranks no lower is there, *)
(* of all documents or of its own.                                         *)
Crowded(p, q, docs) ==
  LET rivals == NoWorse(p, Fits[q] \cap Of(docs))
  IN /\ p \in Fits[q]
     /\ \/ Cardinality(Fits[q]) > ChannelLimit
        \/ Cardinality(rivals) >= MaxEvidence
        \/ Cardinality(SameDocument(p, rivals)) >= MaxPerDocument

(* A cited passage that the drawer reports as gone was, for the identity   *)
(* that opened it and at some moment since then, not to be seen, or pushed *)
(* out by the caps; never lost to another question or a late answer.       *)
MissingHasReason ==
  Ready /\ ~behind /\ drawer.cites \notin drawer.found =>
    \E docs \in drawer.moments :
      drawer.cites \notin Of(docs) \/ Crowded(drawer.cites, lastQuery, docs)

=============================================================================
