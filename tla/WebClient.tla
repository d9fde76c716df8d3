----------------------------- MODULE WebClient -----------------------------
(***************************************************************************)
(* The web client: one tab is mounted at a time, and a tab that is left    *)
(* loses its state; the identity belongs to all of them.  The API and what *)
(* it lets an identity see change behind it.                               *)
(***************************************************************************)
EXTENDS UploadPanel, WorkspacePanel

CONSTANTS
  Reopened,  \* bound: tabs opened again after the first one, the workspace,
             \*   which keeps nothing when it is left
  MaxEvents  \* bound: number of changes of identity, of ACLs and of what may
             \*   be seen, together

VARIABLE tab

vars == <<identity, switches, server, panel, visible, changes, workspace, tab>>

Tabs == {"uploads", "workspace", "other"}

Init ==
  /\ InitIdentity
  /\ Server!Init
  /\ owner = [d \in Docs |-> None]
  /\ readers = [d \in Docs |-> None] /\ aclChanges = 0
  /\ documents = Nothing /\ shown = NothingShown /\ listings = <<>>
  /\ uploading = None /\ failed = FALSE /\ mine = {}
  /\ visible = Granted
  /\ changes = 0
  /\ asking = None /\ lastQuery = None /\ answer = None
  /\ drawer = None /\ checks = {} /\ behind = FALSE
  /\ tab = "workspace"

OpenTab(t) ==
  /\ t \in Reopened \ {tab}
  /\ tab' = t
  /\ IF t = "uploads" THEN Mounted ELSE Unmounted
  /\ WorkspaceReset
  /\ UNCHANGED <<identity, switches, server, visible, changes>>

Eventful == switches + aclChanges + changes < MaxEvents

SwitchIdentity(i) ==
  /\ Eventful
  /\ IF tab = "uploads" THEN Switch(i)
     ELSE SetIdentity(i) /\ UNCHANGED <<server, panel>>
  /\ UNCHANGED <<visible, changes, workspace, tab>>

InPanel(A) ==
  /\ tab = "uploads"
  /\ A
  /\ UNCHANGED <<identity, switches, visible, changes, workspace, tab>>

InUploads == InPanel(UploadPanelStep)

InWorkspace ==
  /\ tab = "workspace"
  /\ WorkspaceStep
  /\ UNCHANGED <<identity, switches, server, panel, tab>>

(* The ACLs of rows, which the upload tab lists, change at any time.  What *)
(* may be found is read by the workspace tab alone, from now on and not in *)
(* the past, so that it matters only while that tab is open.               *)
Behind ==
  \/ /\ \/ ServerStep
        \/ \E d \in Docs : WriteAcl(d)
        \/ Eventful /\ \E d \in Docs : AclChange(d)
     /\ UNCHANGED <<identity, switches, visible, changes, workspace, tab>>
  \/ /\ tab = "workspace" /\ Eventful
     /\ \E i \in Identities, docs \in SUBSET Documents : Change(i, docs)
     /\ UNCHANGED <<identity, switches, server, panel, tab>>

Next ==
  \/ \E t \in Tabs : OpenTab(t)
  \/ \E i \in Identities : SwitchIdentity(i)
  \/ InUploads
  \/ InWorkspace
  \/ Behind

Spec == Init /\ [][Next]_vars

(* Every request of the panel is answered or fails, and the timer fires.   *)
Fairness ==
  /\ WF_vars(InPanel(\E k \in 1 .. Len(listings) : Serve(k)))
  /\ WF_vars(InPanel(\E k \in 1 .. Len(listings) : Receive(k) \/ Refused(k)))
  /\ WF_vars(InPanel(Tick))
  /\ WF_vars(InPanel(Uploaded \/ UploadFailed))

FairSpec == Spec /\ Fairness

-----------------------------------------------------------------------------
(* Properties.                                                             *)

(* After a change of identity the other identity's documents go away: what *)
(* is shown was asked for by the identity in use, or its listing is on the *)
(* way or failed, or what is shown came late, after one asked for later,   *)
(* or is the listing of an upload, which keeps the identity it began with. *)
ListingIsForIdentity ==
  tab = "uploads" =>
    \/ shown.by = identity
    \/ \E k \in 1 .. Len(listings) : listings[k].by = identity
    \/ failed
    \/ shown.late
    \/ shown.awaited

(* A row the identity uploaded in this mount, with the ACL it got then.    *)
Own(d) == d \in mine /\ owner[d] = identity

(* While the upload tab is open it keeps coming back to what /documents    *)
(* has for the identity, unless its last listing failed.  What it shows as *)
(* under way is followed to the end.  What it shows as over may since have *)
(* turned failed, or gone with its ACL.  What it does not show at all is a *)
(* row it did not upload in this mount, or whose ACL changed since, unless *)
(* what is shown came late, or is an upload's listing of another identity. *)
KeepsUp ==
  \A d \in Docs :
    []<>(\/ tab # "uploads" \/ failed
         \/ documents[d] = Listed(identity)[d]
         \/ documents[d] \in Server!Completed /\ Listed(identity)[d] = "failed"
         \/ documents[d] \in Server!Terminal /\ ~Reads(identity, d)
         \/ /\ documents[d] = "absent"
            /\ ~Own(d) \/ shown.late \/ (shown.awaited /\ shown.by # identity))

=============================================================================
