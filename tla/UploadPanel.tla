---------------------------- MODULE UploadPanel ----------------------------
(***************************************************************************)
(* The upload tab: it lists the documents of the identity in use when it   *)
(* is mounted, when the identity changes and after an upload, and polls    *)
(* while a document it shows is received or processing.  Listings are      *)
(* answered in any order, may fail, and are applied as they come.          *)
(*                                                                         *)
(* The server is UploadLifecycle with an ACL for every row: it is written  *)
(* after the row, for the scope of the upload, and may change later.       *)
(* Choosing a file, messages and the previews are left out.                *)
(***************************************************************************)
EXTENDS DevIdentity, Sequences

CONSTANTS
  Docs,           \* files that may be uploaded
  Shares,         \* [Identities -> who is in the scope of its uploads]
  MaxInFlight,    \* bound: listings asked for and not yet answered
  MaxAclChanges   \* bound: number of changes of a row's ACL

ASSUME UploadPanelAssumption == Shares \in [Identities -> SUBSET Identities]

VARIABLES
  status, busy,  \* the server's rows, see UploadLifecycle
  owner,         \* [Docs -> who uploaded it, None if nobody did]
  readers,       \* [Docs -> whom its ACL lets in, None before it is written]
  aclChanges,    \* number of changes of ACLs so far
  documents,     \* [Docs -> state shown, "absent" if not shown]
  listings,      \* listings in flight, in the order they were asked for
  uploading,     \* what `upload` is doing, None if nothing
  shown,         \* history: which listing is shown
  failed,        \* history: a listing for the identity in use failed, and none
                 \*   asked for later arrived since
  mine           \* history: what was uploaded in this mount, up to the 202,
                 \*   and has kept its ACL

Server == INSTANCE UploadLifecycle

server == <<status, busy, owner, readers, aclChanges>>
panel == <<documents, listings, uploading, shown, failed, mine>>

InProgress == {"received", "processing"}
Nothing == [d \in Docs |-> "absent"]
NothingShown == [by |-> None, awaited |-> FALSE, late |-> FALSE]

(* What /documents answers an identity: rows whose ACL lets it in.         *)
Reads(i, d) == readers[d] # None /\ i \in readers[d]
Listed(i) == [d \in Docs |-> IF Reads(i, d) THEN status[d] ELSE "absent"]

(* "awaited": by `upload`; "late": one asked for later is through already. *)
Ask(i, awaited) ==
  Append(listings, [by |-> i, answer |-> None, awaited |-> awaited, late |-> FALSE])
Without(k) == [j \in 1 .. Len(listings) - 1 |->
                 IF j < k THEN [listings[j] EXCEPT !.late = TRUE] ELSE listings[j + 1]]

Unmounted ==
  /\ documents' = Nothing /\ shown' = NothingShown
  /\ listings' = <<>>
  /\ uploading' = None
  /\ failed' = FALSE /\ mine' = {}

(* Nothing of what an earlier mount asked for arrives here.                *)
Mounted ==
  /\ documents' = Nothing /\ shown' = NothingShown
  /\ listings' = Ask(identity, FALSE)
  /\ uploading' = None
  /\ failed' = FALSE /\ mine' = {}

-----------------------------------------------------------------------------
(* The server.                                                             *)

(* It goes on by itself; a row is created only for an upload it received,  *)
(* and processed only after `accept` has written its ACL.                  *)
ServerStep ==
  /\ Server!Next
  /\ \A d \in Docs :
       /\ owner[d] = None => status'[d] = status[d] /\ (d \in busy' <=> d \in busy)
       /\ status'[d] # status[d] => (readers[d] = None <=> status[d] = "absent")
  /\ UNCHANGED <<owner, readers, aclChanges, panel>>

(* The ACL of a new row: by `accept`, or by the start after a crash.       *)
WriteAcl(d) ==
  /\ status[d] # "absent" /\ readers[d] = None
  /\ readers' = [readers EXCEPT ![d] = Shares[owner[d]]]
  /\ UNCHANGED <<status, busy, owner, aclChanges, panel>>

(* Revocation, a staleness bound that runs out, a crash, a new grant.      *)
AclChange(d) ==
  /\ aclChanges < MaxAclChanges /\ readers[d] # None
  /\ \E r \in SUBSET Identities : r # readers[d] /\ readers' = [readers EXCEPT ![d] = r]
  /\ aclChanges' = aclChanges + 1
  /\ mine' = mine \ {d}
  /\ UNCHANGED <<status, busy, owner, documents, listings, uploading, shown, failed>>

Serve(k) ==
  /\ listings[k].answer = None
  /\ listings' = [listings EXCEPT ![k].answer = Listed(listings[k].by)]
  /\ UNCHANGED <<server, documents, uploading, shown, failed, mine>>

-----------------------------------------------------------------------------
(* The panel.                                                              *)

(* Mutant of Refreshed: the effect runs on mount only.                     *)
Refreshed_OnMount(i) == UNCHANGED listings

(* The effect on [refresh]: a new identity asks for its listing.           *)
Refreshed(i) == listings' = Ask(i, FALSE)

Room == Len(listings) < MaxInFlight

Switch(i) ==
  /\ Room
  /\ SetIdentity(i)
  /\ Refreshed(i)
  /\ failed' = FALSE
  /\ UNCHANGED <<server, documents, uploading, shown, mine>>

(* Mutant of Polling: only documents that are being processed count.       *)
Polling_Processing == \E d \in Docs : documents[d] = "processing"

Polling == \E d \in Docs : documents[d] \in InProgress

(* The timer, under the identity in use.                                   *)
Tick ==
  /\ Polling
  /\ Room
  /\ listings' = Ask(identity, FALSE)
  /\ UNCHANGED <<server, documents, uploading, shown, failed, mine>>

(* `upload` ends with the listing it asked for, whatever came of that.     *)
Answered(k) ==
  /\ listings' = Without(k)
  /\ uploading' = IF listings[k].awaited THEN None ELSE uploading

(* What was asked for later is under way still, and for the identity too.  *)
Newest(k) ==
  ~listings[k].late /\ \A j \in k .. Len(listings) : listings[j].by = identity

(* setDocuments, whatever has been shown meanwhile.                        *)
Receive(k) ==
  /\ listings[k].answer # None
  /\ documents' = listings[k].answer
  /\ Answered(k)
  /\ shown' = [by |-> listings[k].by, awaited |-> listings[k].awaited, late |-> listings[k].late]
  /\ failed' = (failed /\ ~Newest(k))
  /\ UNCHANGED <<server, mine>>

(* A listing that fails leaves what is shown.                              *)
Refused(k) ==
  /\ Answered(k)
  /\ failed' = (failed \/ listings[k].by = identity)
  /\ UNCHANGED <<server, documents, shown, mine>>

(* The button is disabled while an upload is under way.                    *)
Upload(d) ==
  /\ uploading = None /\ owner[d] = None
  /\ owner' = [owner EXCEPT ![d] = identity]
  /\ uploading' = [doc |-> d, by |-> identity, posting |-> TRUE]
  /\ UNCHANGED <<status, busy, readers, aclChanges, documents, listings, shown, failed, mine>>

Posting == uploading # None /\ uploading.posting

(* The 202; `refresh` is the one of the identity that started the upload.  *)
Uploaded ==
  /\ Room
  /\ Posting /\ readers[uploading.doc] # None
  /\ uploading' = [uploading EXCEPT !.posting = FALSE]
  /\ listings' = Ask(uploading.by, TRUE)
  /\ mine' = mine \cup {uploading.doc}
  /\ UNCHANGED <<server, documents, shown, failed>>

(* The upload is refused, fails, or its answer is lost.                    *)
UploadFailed ==
  /\ Posting
  /\ uploading' = None
  /\ UNCHANGED <<server, documents, listings, shown, failed, mine>>

UploadPanelStep ==
  \/ \E k \in 1 .. Len(listings) : Serve(k) \/ Receive(k) \/ Refused(k)
  \/ Tick
  \/ \E d \in Docs : Upload(d)
  \/ Uploaded
  \/ UploadFailed

=============================================================================
