-------------------------- MODULE UploadLifecycle --------------------------
(***************************************************************************)
(* What the API promises a client that polls /documents: the state a row   *)
(* goes through, and when it may still change.  Uploads implements this,   *)
(* with its stores, failing writes and crashes; WebClient is built on it.  *)
(***************************************************************************)
CONSTANT Docs

VARIABLES
  status,  \* [Docs -> state of the row]
  busy     \* documents a request or a background task of the API works on

vars == <<status, busy>>

Completed == {"completed", "completed_with_warnings"}
Terminal  == Completed \cup {"failed"}
States    == {"absent", "received", "processing"} \cup Terminal

Init ==
  /\ status = [d \in Docs |-> "absent"]
  /\ busy = Docs

(* From here on the API either goes on with the document or is through.    *)
Continue(d) == busy' = busy \/ busy' = busy \ {d}

(* A row is created, and processing begins, only by the one who works on   *)
(* the document.                                                           *)
Create(d) ==
  /\ d \in busy /\ status[d] = "absent"
  /\ status' = [status EXCEPT ![d] = "received"]
  /\ Continue(d)

Begin(d) ==
  /\ d \in busy /\ status[d] = "received"
  /\ status' = [status EXCEPT ![d] = "processing"]
  /\ Continue(d)

(* An update that raised may have been applied all the same: a document    *)
(* becomes "failed" also after it became completed, by the same task.      *)
End(d, result) ==
  /\ d \in busy
  /\ \/ status[d] = "processing" /\ result \in Terminal
     \/ status[d] \in Terminal /\ result = "failed"
  /\ status' = [status EXCEPT ![d] = result]
  /\ Continue(d)

(* Whoever works on some of the documents is gone, with what they had      *)
(* reached: a crash, an exception, or a write that changed nothing.        *)
GiveUp ==
  /\ busy' \in SUBSET busy
  /\ UNCHANGED status

Next ==
  \/ \E d \in Docs : Create(d) \/ Begin(d)
  \/ \E d \in Docs, result \in Terminal : End(d, result)
  \/ GiveUp

Spec == Init /\ [][Next]_vars

=============================================================================
