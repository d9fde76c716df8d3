-------------------------- MODULE WebClient_proofs --------------------------
(***************************************************************************)
(* Proofs about WebClient, for any identities, documents, questions,       *)
(* passages and claims, and every bound.                                   *)
(***************************************************************************)
EXTENDS WebClient, FiniteSetTheorems, TLAPS

-----------------------------------------------------------------------------
(* The invariant.                                                          *)

Rows == [Docs -> Server!States]

Listings == [by : Identities, answer : Rows \cup {None},
             awaited : BOOLEAN, late : BOOLEAN]

(* A listing of another identity is overtaken, or an upload's, or one of   *)
(* the identity in use was asked for later, and is on its way or failed.   *)
Outdated ==
  \A k \in 1 .. Len(listings) :
    listings[k].by # identity =>
      \/ listings[k].late \/ listings[k].awaited \/ failed
      \/ \E j \in 1 .. Len(listings) : j > k /\ listings[j].by = identity

(* Of the upload tab.                                                      *)
ListInv ==
  /\ identity \in Identities
  /\ status \in Rows
  /\ listings \in Seq(Listings)
  /\ failed \in BOOLEAN
  /\ uploading # None => uploading \in [doc : Docs, by : Identities, posting : BOOLEAN]
  /\ tab # "uploads" => listings = <<>>
  /\ Outdated
  /\ ListingIsForIdentity

(* What is shown in answer to the last question fits it, and nothing is    *)
(* shown while the next one is in flight.                                  *)
AnswerFits ==
  /\ asking # None =>
       asking.question = lastQuery /\ lastQuery \in Questions /\ answer = None
  /\ answer # None =>
       /\ lastQuery \in Questions
       /\ \A k \in Claims : answer[k] # None => answer[k] \in Fits[lastQuery]

(* The drawer's history is up to date, and unless a question was submitted *)
(* behind it, it stands for a claim of the answer that is shown.           *)
DrawerFits ==
  drawer # None =>
    /\ drawer \in Drawers
    /\ visible[drawer.by] \in drawer.moments
    /\ ~behind => answer # None /\ answer[drawer.claim] = drawer.cites

(* Why a search for q by one who sees docs does not return p.              *)
Excused(p, q, docs) == p \notin Of(docs) \/ Crowded(p, q, docs)

(* A search that was not cancelled is the drawer's own: it was asked for   *)
(* its identity and for the passage it cites, what it found was seen, and  *)
(* what it did not find has its reason.                                    *)
CheckFits(c) ==
  c.live =>
    /\ drawer # None
    /\ c.by = drawer.by
    /\ c.result # None => c.result \subseteq Of(UNION drawer.moments)
    /\ ~behind => /\ c.cites = drawer.cites
                  /\ c.question = lastQuery
                  /\ c.cites \in Fits[lastQuery]
                  /\ c.result # None /\ c.cites \notin c.result =>
                       \E docs \in drawer.moments : Excused(c.cites, lastQuery, docs)

DrawerInv ==
  /\ identity \in Identities
  /\ visible \in [Identities -> SUBSET Documents]
  /\ checks \subseteq Checks
  /\ AnswerFits
  /\ DrawerFits
  /\ \A c \in checks : CheckFits(c)
  /\ DrawerShowsChecked
  /\ MissingHasReason

-----------------------------------------------------------------------------
(* The upload tab.                                                         *)

LEMMA NoListing ==
  /\ <<>> \in Seq(Listings)
  /\ \A k \in 1 .. Len(<<>>) : FALSE
OBVIOUS

LEMMA InitList == Init => ListInv
<1> SUFFICES ASSUME Init PROVE ListInv
  OBVIOUS
<1>1. /\ identity \in Identities /\ listings = <<>> /\ uploading = None
      /\ tab = "workspace" /\ failed = FALSE
  BY DEF Init, InitIdentity
<1>2. status \in Rows
  BY DEF Init, Server!Init, Rows, Server!States
<1> QED
  BY <1>1, <1>2, NoListing DEF ListInv, Outdated, ListingIsForIdentity

LEMMA ListedType == status \in Rows => \A i : Listed(i) \in Rows
BY DEF Rows, Listed, Server!States

(* One more is asked for, the last one of all.                             *)
LEMMA AskType ==
  ASSUME listings \in Seq(Listings), NEW i \in Identities, NEW a \in BOOLEAN
  PROVE  /\ Ask(i, a) \in Seq(Listings)
         /\ Len(Ask(i, a)) = Len(listings) + 1
         /\ Ask(i, a)[Len(listings) + 1].by = i
         /\ Ask(i, a)[Len(listings) + 1].awaited = a
         /\ \A k \in 1 .. Len(listings) : Ask(i, a)[k] = listings[k]
<1> DEFINE new == [by |-> i, answer |-> None, awaited |-> a, late |-> FALSE]
<1>1. new \in Listings /\ new.by = i /\ new.awaited = a
  BY DEF Listings
<1> HIDE DEF new
<1>2. Ask(i, a) = Append(listings, new)
  BY DEF Ask, new
<1>3. /\ Ask(i, a) \in Seq(Listings) /\ Len(Ask(i, a)) = Len(listings) + 1
      /\ Ask(i, a)[Len(listings) + 1] = new
      /\ \A k \in 1 .. Len(listings) : Ask(i, a)[k] = listings[k]
  BY <1>1, <1>2
<1> QED
  BY <1>1, <1>3

(* One leaves; those before it are late, those after it move up.           *)
LEMMA WithoutType ==
  ASSUME listings \in Seq(Listings), NEW k \in 1 .. Len(listings)
  PROVE  /\ Without(k) \in Seq(Listings)
         /\ Len(Without(k)) = Len(listings) - 1
         /\ \A m \in 1 .. Len(listings) - 1 :
              IF m < k THEN Without(k)[m].by = listings[m].by /\ Without(k)[m].late
              ELSE Without(k)[m] = listings[m + 1]
<1>1. ASSUME NEW j \in 1 .. Len(listings)
      PROVE  /\ listings[j] \in Listings
             /\ [listings[j] EXCEPT !.late = TRUE] \in Listings
             /\ [listings[j] EXCEPT !.late = TRUE].by = listings[j].by
             /\ [listings[j] EXCEPT !.late = TRUE].late
  <2>1. listings[j] \in Listings
    OBVIOUS
  <2> QED
    BY <2>1 DEF Listings
<1>2. Len(listings) - 1 \in Nat
  OBVIOUS
<1>3. Without(k) \in [1 .. Len(listings) - 1 -> Listings]
  BY <1>1, <1>2 DEF Without
<1>4. Without(k) \in Seq(Listings) /\ Len(Without(k)) = Len(listings) - 1
  BY <1>2, <1>3
<1>5. ASSUME NEW m \in 1 .. Len(listings) - 1
      PROVE  IF m < k THEN Without(k)[m].by = listings[m].by /\ Without(k)[m].late
             ELSE Without(k)[m] = listings[m + 1]
  <2>1. m \in 1 .. Len(listings)
    OBVIOUS
  <2>2. Without(k)[m] = IF m < k THEN [listings[m] EXCEPT !.late = TRUE] ELSE listings[m + 1]
    BY DEF Without
  <2> QED
    BY <1>1, <2>1, <2>2
<1> QED
  BY <1>4, <1>5

(* What the steps of the tab owe.                                          *)
ListGoal ==
  /\ listings' \in Seq(Listings) /\ status' = status /\ failed' \in BOOLEAN
  /\ Outdated'
  /\ \/ shown'.by = identity
     \/ \E k \in 1 .. Len(listings') : listings'[k].by = identity
     \/ failed' \/ shown'.late \/ shown'.awaited

LEMMA AskList ==
  ASSUME ListInv, tab = "uploads", NEW i \in Identities, NEW a \in BOOLEAN,
         listings' = Ask(i, a), i = identity \/ a,
         UNCHANGED <<identity, status, failed, shown>>
  PROVE  ListGoal
<1> DEFINE n == Len(listings)
<1>1. /\ listings' \in Seq(Listings) /\ Len(listings') = n + 1 /\ n \in Nat
      /\ listings'[n + 1].by = i /\ listings'[n + 1].awaited = a
      /\ \A k \in 1 .. n : listings'[k] = listings[k]
  <2>1. listings \in Seq(Listings)
    BY DEF ListInv
  <2> QED
    BY <2>1, AskType
<1> HIDE DEF n
<1>2. \A k \in 1 .. n : k \in 1 .. n + 1 /\ k < n + 1
  BY <1>1
<1>3. Outdated'
  <2> SUFFICES ASSUME NEW k \in 1 .. n + 1, listings'[k].by # identity
               PROVE  \/ listings'[k].late \/ listings'[k].awaited \/ failed
                      \/ \E j \in 1 .. n + 1 : j > k /\ listings'[j].by = identity
    BY <1>1 DEF Outdated
  <2>1. CASE k = n + 1
    BY <1>1, <2>1
  <2>2. CASE k # n + 1
    <3>1. k \in 1 .. n
      BY <1>1, <2>2
    <3>2. \/ listings[k].late \/ listings[k].awaited \/ failed
          \/ \E j \in 1 .. n : j > k /\ listings[j].by = identity
      BY <1>1, <3>1 DEF ListInv, Outdated, n
    <3> QED
      BY <1>1, <1>2, <3>1, <3>2
  <2> QED
    BY <2>1, <2>2
<1>4. \/ shown'.by = identity
      \/ \E k \in 1 .. Len(listings') : listings'[k].by = identity
      \/ failed' \/ shown'.late \/ shown'.awaited
  BY <1>1, <1>2 DEF ListInv, ListingIsForIdentity, n
<1> QED
  BY <1>1, <1>3, <1>4 DEF ListGoal, ListInv

(* A listing that arrives or fails.                                        *)
LEMMA AnsweredList ==
  ASSUME ListInv, tab = "uploads", NEW k \in 1 .. Len(listings),
         Receive(k) \/ Refused(k), identity' = identity
  PROVE  ListGoal
<1> DEFINE n == Len(listings)
<1>0. n \in Nat /\ listings \in Seq(Listings) /\ failed \in BOOLEAN
  BY DEF ListInv
<1>1. /\ listings' \in Seq(Listings) /\ Len(listings') = n - 1
      /\ \A m \in 1 .. n - 1 :
           IF m < k THEN listings'[m].by = listings[m].by /\ listings'[m].late
           ELSE listings'[m] = listings[m + 1]
  BY <1>0, WithoutType DEF Receive, Refused, Answered
<1>2. status' = status /\ failed' \in BOOLEAN
  BY <1>0 DEF Receive, Refused, server
<1>3. failed => failed' \/ \A j \in k .. n : listings[j].by = identity
  BY DEF Receive, Refused, Newest
<1> HIDE DEF n
<1>4. ASSUME NEW j \in 1 .. n, j > k
      PROVE  j - 1 \in 1 .. n - 1 /\ j - 1 >= k /\ listings'[j - 1] = listings[j]
  <2>1. j - 1 \in 1 .. n - 1 /\ ~(j - 1 < k) /\ (j - 1) + 1 = j /\ j - 1 >= k /\ k \in Nat
    BY <1>0, <1>4 DEF n
  <2> QED
    BY <1>1, <2>1
<1>5. Outdated'
  <2> SUFFICES ASSUME NEW m \in 1 .. n - 1, listings'[m].by # identity
               PROVE  \/ listings'[m].late \/ listings'[m].awaited \/ failed'
                      \/ \E j \in 1 .. n - 1 : j > m /\ listings'[j].by = identity
    BY <1>1 DEF Outdated
  <2>1. CASE m < k
    BY <1>1, <2>1
  <2>2. CASE ~(m < k)
    <3>1. /\ m + 1 \in 1 .. n /\ m + 1 \in k .. n /\ m + 1 > k
          /\ listings'[m] = listings[m + 1]
      BY <1>0, <1>1, <2>2 DEF n
    <3>2. \/ listings[m + 1].late \/ listings[m + 1].awaited \/ failed
          \/ \E j \in 1 .. n : j > m + 1 /\ listings[j].by = identity
      BY <3>1 DEF ListInv, Outdated, n
    <3>3. CASE \E j \in 1 .. n : j > m + 1 /\ listings[j].by = identity
      <4>1. PICK j \in 1 .. n : j > m + 1 /\ listings[j].by = identity
        BY <3>3
      <4>2. j > k /\ j - 1 > m
        BY <1>0, <3>1, <4>1 DEF n
      <4> QED
        BY <1>4, <4>1, <4>2
    <3> QED
      BY <1>3, <3>1, <3>2, <3>3
  <2> QED
    BY <2>1, <2>2
<1>6. ASSUME NEW j \in 1 .. n, j # k, listings[j].by = identity
      PROVE  \E m \in 1 .. n - 1 : listings'[m].by = identity
  <2>1. CASE j < k
    <3>1. j \in 1 .. n - 1
      BY <1>0, <2>1 DEF n
    <3> QED
      BY <1>1, <1>6, <2>1, <3>1
  <2>2. CASE j > k
    BY <1>4, <1>6, <2>2
  <2> QED
    BY <1>0, <1>6, <2>1, <2>2 DEF n
<1>7. \/ shown'.by = identity
      \/ \E m \in 1 .. Len(listings') : listings'[m].by = identity
      \/ failed' \/ shown'.late \/ shown'.awaited
  <2>1. CASE Receive(k)
    <3>1. /\ shown'.by = listings[k].by /\ shown'.late = listings[k].late
          /\ shown'.awaited = listings[k].awaited
      BY <2>1 DEF Receive
    <3>2. k \in k .. n
      BY <1>0 DEF n
    <3>3. CASE listings[k].by # identity
      <4>1. \/ listings[k].late \/ listings[k].awaited \/ failed
            \/ \E j \in 1 .. n : j > k /\ listings[j].by = identity
        BY <3>3 DEF ListInv, Outdated, n
      <4>2. failed => failed'
        BY <1>3, <3>2, <3>3
      <4>3. \A j \in 1 .. n : j > k => j # k
        BY <1>0
      <4> QED
        BY <1>1, <1>6, <3>1, <4>1, <4>2, <4>3
    <3> QED
      BY <3>1, <3>3
  <2>2. CASE Refused(k)
    <3>1. /\ shown' = shown /\ failed' = (failed \/ listings[k].by = identity)
      BY <2>2 DEF Refused
    <3>2. \/ shown.by = identity \/ failed \/ shown.late \/ shown.awaited
          \/ \E j \in 1 .. n : listings[j].by = identity
      BY DEF ListInv, ListingIsForIdentity, n
    <3> QED
      BY <1>1, <1>6, <3>1, <3>2
  <2> QED
    BY <2>1, <2>2
<1> QED
  BY <1>1, <1>2, <1>5, <1>7 DEF ListGoal

(* A step of the tab: its listings stay well typed, and the identity's is  *)
(* shown, on the way, or has failed or been overtaken.                     *)
LEMMA PanelList ==
  ASSUME ListInv, tab = "uploads", UploadPanelStep, identity' = identity
  PROVE  ListGoal
<1>0. /\ identity \in Identities /\ status \in Rows /\ listings \in Seq(Listings)
      /\ failed \in BOOLEAN /\ Outdated /\ ListingIsForIdentity
  BY DEF ListInv
<1>1. ASSUME NEW k \in 1 .. Len(listings), Serve(k) PROVE ListGoal
  <2>1. listings[k] \in Listings /\ Listed(listings[k].by) \in Rows
    BY <1>0, ListedType
  <2> DEFINE served == [listings[k] EXCEPT !.answer = Listed(listings[k].by)]
  <2>2. /\ served \in Listings /\ served.by = listings[k].by
        /\ served.late = listings[k].late /\ served.awaited = listings[k].awaited
    BY <2>1 DEF Listings
  <2>3. listings' = [listings EXCEPT ![k] = served]
    BY <1>1 DEF Serve
  <2> HIDE DEF served
  <2>4. listings' \in Seq(Listings) /\ Len(listings') = Len(listings)
    BY <1>0, <2>2, <2>3
  <2>5. \A j \in 1 .. Len(listings) :
          /\ listings'[j].by = listings[j].by /\ listings'[j].late = listings[j].late
          /\ listings'[j].awaited = listings[j].awaited
    BY <1>0, <2>2, <2>3
  <2>6. status' = status /\ shown' = shown /\ failed' = failed
    BY <1>1 DEF Serve, server
  <2>7. Outdated'
    BY <1>0, <2>4, <2>5, <2>6 DEF Outdated
  <2> QED
    BY <1>0, <2>4, <2>5, <2>6, <2>7 DEF ListGoal, ListingIsForIdentity
<1>2. ASSUME NEW k \in 1 .. Len(listings), Receive(k) \/ Refused(k) PROVE ListGoal
  BY <1>2, AnsweredList
<1>3. CASE Tick
  <2>1. listings' = Ask(identity, FALSE) /\ UNCHANGED <<status, failed, shown>>
    BY <1>3 DEF Tick, server
  <2> QED
    BY <1>0, <2>1, AskList
<1>4. ASSUME UNCHANGED <<status, listings, shown, failed>> PROVE ListGoal
  BY <1>0, <1>4 DEF ListGoal, Outdated, ListingIsForIdentity
<1>5. ASSUME NEW d \in Docs, Upload(d) PROVE ListGoal
  BY <1>4, <1>5 DEF Upload
<1>6. CASE UploadFailed
  BY <1>4, <1>6 DEF UploadFailed, server
<1>7. CASE Uploaded
  <2>1. /\ listings' = Ask(uploading.by, TRUE) /\ UNCHANGED <<status, failed, shown>>
    BY <1>7 DEF Uploaded, server
  <2>2. uploading.by \in Identities
    BY <1>7 DEF Uploaded, Posting, ListInv
  <2> QED
    BY <2>1, <2>2, AskList
<1> QED
  BY <1>1, <1>2, <1>3, <1>5, <1>6, <1>7 DEF UploadPanelStep

LEMMA UploadingType ==
  ASSUME ListInv, UploadPanelStep
  PROVE  uploading' # None => uploading' \in [doc : Docs, by : Identities, posting : BOOLEAN]
<1> DEFINE Posts == [doc : Docs, by : Identities, posting : BOOLEAN]
<1>0. identity \in Identities /\ (uploading # None => uploading \in Posts)
  BY DEF ListInv
<1>1. ASSUME NEW k \in 1 .. Len(listings), Serve(k) \/ Receive(k) \/ Refused(k)
      PROVE  uploading' # None => uploading' \in Posts
  BY <1>0, <1>1 DEF Serve, Receive, Refused, Answered
<1>2. ASSUME NEW d \in Docs, Upload(d) PROVE uploading' # None => uploading' \in Posts
  BY <1>0, <1>2 DEF Upload
<1>3. CASE Uploaded
  BY <1>0, <1>3 DEF Uploaded, Posting
<1>4. CASE Tick \/ UploadFailed
  BY <1>0, <1>4 DEF Tick, UploadFailed
<1> QED
  BY <1>1, <1>2, <1>3, <1>4 DEF UploadPanelStep

(* The server's rows stay well typed.                                      *)
LEMMA ServerType == status \in Rows /\ Server!Next => status' \in Rows
<1> SUFFICES ASSUME status \in Rows, Server!Next PROVE status' \in Rows
  OBVIOUS
<1>1. CASE \E d \in Docs : Server!Create(d) \/ Server!Begin(d)
  BY <1>1 DEF Rows, Server!Create, Server!Begin, Server!States
<1>2. CASE \E d \in Docs, result \in Server!Terminal : Server!End(d, result)
  BY <1>2 DEF Rows, Server!End, Server!States
<1>3. CASE Server!GiveUp
  BY <1>3 DEF Server!GiveUp
<1> QED
  BY <1>1, <1>2, <1>3 DEF Server!Next

LEMMA StepList == ListInv /\ [Next]_vars => ListInv'
<1> SUFFICES ASSUME ListInv, [Next]_vars PROVE ListInv'
  OBVIOUS
<1>0. /\ identity \in Identities /\ status \in Rows /\ listings \in Seq(Listings)
      /\ failed \in BOOLEAN
      /\ tab # "uploads" => listings = <<>>
  BY DEF ListInv
<1>1. ASSUME NEW i \in Identities, identity' = i, listings' = Ask(i, FALSE), failed' = FALSE,
             status' = status, tab' = "uploads",
             uploading' # None => uploading' \in [doc : Docs, by : Identities, posting : BOOLEAN]
      PROVE  ListInv'
  <2> DEFINE n == Len(listings)
  <2>1. /\ listings' \in Seq(Listings) /\ Len(listings') = n + 1 /\ n \in Nat
        /\ listings'[n + 1].by = i
    <3>1. /\ Ask(i, FALSE) \in Seq(Listings) /\ Len(Ask(i, FALSE)) = Len(listings) + 1
          /\ Ask(i, FALSE)[Len(listings) + 1].by = i
      BY <1>0, AskType
    <3>2. Len(listings) \in Nat
      BY <1>0
    <3>3. listings' = Ask(i, FALSE)
      BY <1>1
    <3> QED
      BY <3>1, <3>2, <3>3
  <2> HIDE DEF n
  <2>2. \A k \in 1 .. n + 1 : k = n + 1 \/ n + 1 > k
    BY <2>1
  <2>3. n + 1 \in 1 .. n + 1
    BY <2>1
  <2>4. Outdated'
    BY <1>1, <2>1, <2>2, <2>3 DEF Outdated
  <2>5. ListingIsForIdentity'
    BY <1>1, <2>1, <2>3 DEF ListingIsForIdentity
  <2> QED
    BY <1>0, <1>1, <2>1, <2>4, <2>5 DEF ListInv
<1>2. ASSUME NEW t \in Tabs, OpenTab(t) PROVE ListInv'
  <2>1. tab' = t /\ t # tab /\ identity' = identity /\ status' = status /\ uploading' = None
        /\ failed' = FALSE
    BY <1>2 DEF OpenTab, server, Mounted, Unmounted
  <2>2. CASE t = "uploads"
    <3>1. listings' = Ask(identity, FALSE)
      BY <1>2, <2>2 DEF OpenTab, Mounted
    <3> QED
      BY <1>0, <1>1, <2>1, <2>2, <3>1
  <2>3. CASE t # "uploads"
    <3>1. listings' = <<>>
      BY <1>2, <2>3 DEF OpenTab, Unmounted
    <3> QED
      BY <1>0, <2>1, <2>3, <3>1, NoListing DEF ListInv, Outdated, ListingIsForIdentity
  <2> QED
    BY <2>2, <2>3
<1>3. ASSUME NEW i \in Identities, SwitchIdentity(i) PROVE ListInv'
  <2>1. identity' = i /\ tab' = tab /\ status' = status /\ uploading' = uploading
    BY <1>3 DEF SwitchIdentity, Switch, SetIdentity, server, panel
  <2>2. CASE tab = "uploads"
    <3>1. listings' = Ask(i, FALSE) /\ failed' = FALSE
      BY <1>3, <2>2 DEF SwitchIdentity, Switch, Refreshed
    <3> QED
      BY <1>1, <2>1, <2>2, <3>1 DEF ListInv
  <2>3. CASE tab # "uploads"
    <3>1. listings' = listings /\ failed' = failed
      BY <1>3, <2>3 DEF SwitchIdentity, panel
    <3> QED
      BY <1>0, <2>1, <2>3, <3>1 DEF ListInv, Outdated, ListingIsForIdentity
  <2> QED
    BY <2>2, <2>3
<1>4. CASE InUploads
  <2>1. tab = "uploads" /\ UploadPanelStep /\ identity' = identity /\ tab' = tab
    BY <1>4 DEF InUploads, InPanel
  <2>2. ListGoal
    BY <2>1, PanelList
  <2>3. uploading' # None => uploading' \in [doc : Docs, by : Identities, posting : BOOLEAN]
    BY <2>1, UploadingType
  <2> QED
    BY <1>0, <2>1, <2>2, <2>3 DEF ListInv, ListGoal, ListingIsForIdentity
<1>5. ASSUME UNCHANGED <<identity, listings, uploading, shown, failed, tab>>, status' \in Rows
      PROVE  ListInv'
  BY <1>5 DEF ListInv, Outdated, ListingIsForIdentity
<1>6. CASE InWorkspace \/ Behind
  <2>1. status' \in Rows
    BY <1>0, <1>6, ServerType
       DEF InWorkspace, Behind, ServerStep, WriteAcl, AclChange, server
  <2>2. UNCHANGED <<identity, listings, uploading, shown, failed, tab>>
    BY <1>6 DEF InWorkspace, Behind, ServerStep, WriteAcl, AclChange, panel
  <2> QED
    BY <1>5, <2>1, <2>2
<1>7. CASE UNCHANGED vars
  BY <1>0, <1>5, <1>7 DEF vars, server, panel
<1> QED
  BY <1>2, <1>3, <1>4, <1>6, <1>7 DEF Next

(* After a change of identity the other identity's documents go away,      *)
(* however listings are reordered and whichever fail: the identity's own   *)
(* is shown, on its way or failed, unless what is shown was overtaken or   *)
(* is an upload's listing.                                                 *)
THEOREM ListedForIdentity == Spec => []ListingIsForIdentity
<1>1. ListInv => ListingIsForIdentity
  BY DEF ListInv
<1> QED
  BY <1>1, InitList, StepList, PTL DEF Spec

-----------------------------------------------------------------------------
(* The drawer.                                                             *)

(* What a search returns fits and may be seen, and what it does not return *)
(* may not be seen or is pushed out by the caps.                           *)
LEMMA FoundFits ==
  ASSUME NEW q \in Questions, NEW i, NEW K \in Found(q, i)
  PROVE  /\ K \subseteq Fits[q] \cap Of(visible[i])
         /\ \A p \in Fits[q] \ K : Excused(p, q, visible[i])
<1> DEFINE docs == visible[i]
           F == Fits[q]
<1>0. F \in SUBSET Passages /\ IsFiniteSet(F) /\ Cardinality(F) \in Nat
  BY WorkspaceAssumption, FS_Subset, FS_CardinalityType
<1>1. PICK H \in Hits(q) : K \in Assemble(H \cap Of(docs))
  BY DEF Found
<1>2. H \in SUBSET F /\ (H = F \/ Cardinality(H) >= ChannelLimit)
  BY <1>1 DEF Hits
<1>3. K \subseteq H \cap Of(docs)
  BY <1>1 DEF Assemble
<1> HIDE DEF F, docs
<1>4. ASSUME NEW p \in F, p \notin K, p \in Of(docs), p \notin H
      PROVE  Cardinality(F) > ChannelLimit
  <2>1. IsFiniteSet(H) /\ Cardinality(H) \in Nat /\ Cardinality(H) <= Cardinality(F)
        /\ Cardinality(H) # Cardinality(F)
    BY <1>0, <1>2, <1>4, FS_Subset, FS_CardinalityType
  <2>2. Cardinality(H) >= ChannelLimit /\ ChannelLimit \in Nat
    BY <1>2, <1>4, WorkspaceAssumption
  <2> QED
    BY <1>0, <2>1, <2>2
<1>5. ASSUME NEW p \in F, p \notin K, p \in Of(docs), p \in H
      PROVE  \/ Cardinality(NoWorse(p, F \cap Of(docs))) >= MaxEvidence
             \/ Cardinality(SameDocument(p, NoWorse(p, F \cap Of(docs)))) >= MaxPerDocument
  <2> DEFINE kept == NoWorse(p, K)
             rivals == NoWorse(p, F \cap Of(docs))
  <2>1. \/ Cardinality(kept) >= MaxEvidence
        \/ Cardinality(SameDocument(p, kept)) >= MaxPerDocument
    BY <1>1, <1>5 DEF Assemble
  <2>2. /\ kept \in SUBSET rivals
        /\ SameDocument(p, kept) \in SUBSET SameDocument(p, rivals)
        /\ rivals \in SUBSET F /\ SameDocument(p, rivals) \in SUBSET F
    BY <1>2, <1>3 DEF NoWorse, SameDocument
  <2> HIDE DEF kept, rivals
  <2>3. /\ IsFiniteSet(rivals) /\ IsFiniteSet(SameDocument(p, rivals))
    BY <1>0, <2>2, FS_Subset
  <2>4. /\ Cardinality(kept) <= Cardinality(rivals)
        /\ Cardinality(SameDocument(p, kept)) <= Cardinality(SameDocument(p, rivals))
        /\ IsFiniteSet(kept) /\ IsFiniteSet(SameDocument(p, kept))
    BY <2>2, <2>3, FS_Subset
  <2>5. /\ Cardinality(kept) \in Nat /\ Cardinality(rivals) \in Nat
        /\ Cardinality(SameDocument(p, kept)) \in Nat
        /\ Cardinality(SameDocument(p, rivals)) \in Nat
    BY <2>3, <2>4, FS_CardinalityType
  <2>6. \/ Cardinality(rivals) >= MaxEvidence
        \/ Cardinality(SameDocument(p, rivals)) >= MaxPerDocument
    BY <2>1, <2>4, <2>5, WorkspaceAssumption
  <2> QED
    BY <2>6 DEF rivals
<1>6. ASSUME NEW p \in F, p \notin K PROVE Excused(p, q, docs)
  BY <1>4, <1>5, <1>6 DEF Excused, Crowded, F
<1> QED
  BY <1>2, <1>3, <1>6 DEF F, docs

LEMMA InitDrawer == Init => DrawerInv
BY WorkspaceAssumption
   DEF Init, InitIdentity, DrawerInv, AnswerFits, DrawerFits, DrawerShowsChecked,
       MissingHasReason, Ready

LEMMA CancelledFit ==
  ASSUME checks \subseteq Checks
  PROVE  Cancelled \subseteq Checks /\ \A c \in Cancelled : ~c.live
<1> SUFFICES ASSUME NEW c \in checks
             PROVE  /\ [c EXCEPT !.live = FALSE] \in Checks
                    /\ ~[c EXCEPT !.live = FALSE].live
  BY DEF Cancelled
<1> QED
  BY DEF Checks

(* More moments excuse no less.                                            *)
LEMMA MoreMoments ==
  ASSUME NEW S, NEW T, S \subseteq T
  PROVE  Of(UNION S) \subseteq Of(UNION T)
BY DEF Of

LEMMA ChangeFits ==
  ASSUME DrawerInv, NEW i \in Identities, NEW docs \in SUBSET Documents, Change(i, docs),
         identity' = identity
  PROVE  DrawerInv'
<1>0. /\ visible \in [Identities -> SUBSET Documents]
      /\ visible' = [visible EXCEPT ![i] = docs]
      /\ UNCHANGED <<asking, lastQuery, answer, checks, behind>>
  BY DEF DrawerInv, Change
<1>1. AnswerFits'
  BY <1>0 DEF DrawerInv, AnswerFits
<1>2. CASE drawer = None
  <2>1. drawer' = None
    BY <1>2 DEF Change
  <2>2. \A c \in checks : ~c.live
    BY <1>2 DEF DrawerInv, CheckFits
  <2>3. visible' \in [Identities -> SUBSET Documents]
    BY <1>0
  <2> QED
    BY <1>0, <1>1, <2>1, <2>2, <2>3
       DEF DrawerInv, DrawerFits, CheckFits, DrawerShowsChecked, MissingHasReason, Ready
<1>3. CASE drawer # None
  <2> DEFINE grown == drawer.moments \cup {docs}
             new == [drawer EXCEPT !.moments = grown]
  <2>1. drawer \in Drawers /\ visible[drawer.by] \in drawer.moments
    BY <1>3 DEF DrawerInv, DrawerFits
  <2>2. drawer' = IF drawer.by # i THEN drawer ELSE new
    BY <1>3 DEF Change
  <2>3. grown \in SUBSET SUBSET Documents
    BY <2>1 DEF Drawers
  <2> HIDE DEF grown
  <2>4. /\ new \in Drawers /\ new.claim = drawer.claim /\ new.cites = drawer.cites
        /\ new.by = drawer.by /\ new.status = drawer.status /\ new.found = drawer.found
        /\ new.moments = grown
    BY <2>1, <2>3 DEF Drawers
  <2> HIDE DEF new
  <2>5. /\ drawer' \in Drawers
        /\ drawer'.claim = drawer.claim /\ drawer'.cites = drawer.cites
        /\ drawer'.by = drawer.by /\ drawer'.status = drawer.status
        /\ drawer'.found = drawer.found
        /\ drawer.moments \subseteq drawer'.moments
    BY <2>1, <2>2, <2>4 DEF grown
  <2>6. visible'[drawer.by] \in drawer'.moments /\ visible' \in [Identities -> SUBSET Documents]
    <3>1. drawer.by \in Identities
      BY <2>1 DEF Drawers
    <3>2. CASE drawer.by # i
      BY <1>0, <2>1, <2>2, <3>1, <3>2
    <3>3. CASE drawer.by = i
      BY <1>0, <2>2, <2>4, <3>1, <3>3 DEF grown
    <3> QED
      BY <1>0, <3>2, <3>3
  <2>7. DrawerFits'
    BY <1>0, <1>3, <2>5, <2>6 DEF DrawerInv, DrawerFits
  <2>8. drawer' # None
    BY <2>5, WorkspaceAssumption
  <2>9. Of(UNION drawer.moments) \subseteq Of(UNION drawer'.moments)
    BY <2>5, MoreMoments
  <2>10. \A c \in checks' : CheckFits(c)'
    BY <1>0, <2>5, <2>8, <2>9 DEF DrawerInv, CheckFits, Excused, Crowded
  <2>11. (DrawerShowsChecked /\ MissingHasReason)'
    BY <1>0, <1>3, <2>5, <2>8, <2>9
       DEF DrawerInv, DrawerShowsChecked, MissingHasReason, Crowded, Ready
  <2> QED
    BY <1>0, <1>1, <2>6, <2>7, <2>10, <2>11 DEF DrawerInv
<1> QED
  BY <1>2, <1>3

(* The steps of the panel.                                                 *)
Same == identity' = identity /\ visible' = visible /\ identity \in Identities
        /\ visible \in [Identities -> SUBSET Documents]

LEMMA AskedFits ==
  ASSUME DrawerInv, Same,
         (\E q \in Questions : Submit(q)) \/ Answer \/ AnswerFails
  PROVE  DrawerInv'
<1>0. drawer' = drawer /\ checks' = checks
  BY DEF Submit, Answer, AnswerFails
<1>1. behind' \/ drawer = None \/ (behind' = behind /\ lastQuery' = lastQuery)
  BY DEF Submit, Answer, AnswerFails
<1>2. AnswerFits'
  <2>1. ASSUME NEW q \in Questions, Submit(q) PROVE AnswerFits'
    BY <2>1 DEF Submit, AnswerFits
  <2>2. CASE AnswerFails
    BY <2>2 DEF DrawerInv, AnswerFails, AnswerFits
  <2>3. CASE Answer
    <3>1. asking # None /\ asking.question = lastQuery /\ lastQuery \in Questions
      BY <2>3 DEF DrawerInv, AnswerFits, Answer
    <3>2. PICK K \in Found(lastQuery, asking.by) : answer' \in [Claims -> K \cup {None}]
      BY <2>3, <3>1 DEF Answer
    <3>3. K \subseteq Fits[lastQuery]
      BY <3>1, <3>2, FoundFits
    <3>4. asking' = None /\ lastQuery' = lastQuery
      BY <2>3 DEF Answer
    <3> QED
      BY <3>1, <3>2, <3>3, <3>4 DEF AnswerFits
  <2> QED
    BY <2>1, <2>2, <2>3
<1>3. drawer # None /\ ~behind' => ~behind /\ answer' = answer /\ lastQuery' = lastQuery
  <2> SUFFICES ASSUME drawer # None, ~behind'
               PROVE  ~behind /\ answer' = answer /\ lastQuery' = lastQuery
    OBVIOUS
  <2>1. ~behind /\ lastQuery' = lastQuery
    <3>1. behind' = behind /\ lastQuery' = lastQuery
      BY <1>1
    <3> QED
      BY <3>1
  <2>2. asking = None
    BY <2>1 DEF DrawerInv, DrawerFits, AnswerFits
  <2>3. ASSUME NEW q \in Questions, Submit(q) PROVE FALSE
    BY <2>3 DEF Submit
  <2> QED
    BY <2>1, <2>2, <2>3 DEF Answer, AnswerFails
<1>4. DrawerFits'
  BY <1>0, <1>3 DEF DrawerInv, DrawerFits, Same
<1>5. ASSUME NEW c \in checks PROVE CheckFits(c)'
  <2>1. CheckFits(c)
    BY DEF DrawerInv
  <2> QED
    BY <1>0, <1>3, <2>1 DEF CheckFits, Excused, Crowded
<1>6. (DrawerShowsChecked /\ MissingHasReason)'
  BY <1>0, <1>3 DEF DrawerInv, DrawerShowsChecked, MissingHasReason, Crowded, Ready
<1> QED
  BY <1>0, <1>2, <1>4, <1>5, <1>6 DEF DrawerInv, Same

LEMMA OpenFits ==
  ASSUME DrawerInv, Same, NEW k \in Claims, OpenCitation(k)
  PROVE  DrawerInv'
<1>0. /\ UNCHANGED <<asking, lastQuery, answer, behind>>
      /\ answer # None /\ answer[k] # None
  BY DEF OpenCitation
<1>1. lastQuery \in Questions /\ answer[k] \in Fits[lastQuery] /\ answer[k] \in Passages
  BY <1>0, WorkspaceAssumption DEF DrawerInv, AnswerFits
<1>2. AnswerFits'
  BY <1>0 DEF DrawerInv, AnswerFits
<1>3. CASE drawer # None /\ drawer.claim = k
  <2>1. drawer' = [drawer EXCEPT !.cites = answer[k]] /\ checks' = checks
    BY <1>3 DEF OpenCitation
  <2>2. /\ drawer \in Drawers /\ (~behind => drawer.cites = answer[k])
    BY <1>3 DEF DrawerInv, DrawerFits
  <2>3. /\ drawer' \in Drawers
        /\ drawer'.claim = drawer.claim /\ drawer'.cites = answer[k]
        /\ drawer'.by = drawer.by /\ drawer'.status = drawer.status
        /\ drawer'.found = drawer.found /\ drawer'.moments = drawer.moments
    BY <1>1, <2>1, <2>2 DEF Drawers
  <2>4. drawer' # None
    BY <2>3, WorkspaceAssumption
  <2>5. DrawerFits'
    BY <1>0, <1>3, <2>3 DEF DrawerInv, DrawerFits, Same
  <2>6. ASSUME NEW c \in checks PROVE CheckFits(c)'
    <3>1. CheckFits(c)
      BY DEF DrawerInv
    <3> QED
      BY <1>0, <2>2, <2>3, <2>4, <3>1 DEF CheckFits, Excused, Crowded
  <2>7. (DrawerShowsChecked /\ MissingHasReason)'
    BY <1>0, <1>3, <2>2, <2>3
       DEF DrawerInv, DrawerShowsChecked, MissingHasReason, Crowded, Ready
  <2> QED
    BY <1>2, <2>1, <2>5, <2>6, <2>7 DEF DrawerInv, Same
<1>4. CASE ~(drawer # None /\ drawer.claim = k)
  <2> DEFINE new == [claim |-> k, cites |-> answer[k], by |-> identity,
                     status |-> "loading", found |-> {}, moments |-> {visible[identity]}]
             check == [cites |-> answer[k], question |-> lastQuery, by |-> identity,
                       live |-> TRUE, result |-> None]
  <2>1. drawer' = new /\ checks' = Cancelled \cup {check}
    BY <1>4 DEF OpenCitation
  <2>2. {visible[identity]} \in SUBSET SUBSET Documents
    BY DEF Same
  <2>3. new \in Drawers
    BY <1>1, <2>2 DEF Drawers, Same
  <2>4. check \in Checks
    <3>1. TRUE \in BOOLEAN /\ identity \in Identities
      BY DEF Same
    <3>2. None \in (SUBSET Passages) \cup {None}
      OBVIOUS
    <3> QED
      BY <1>1, <3>1, <3>2, Zenon DEF Checks
  <2>5. drawer' # None
    BY <2>1, <2>3, WorkspaceAssumption
  <2>6. DrawerFits'
    BY <1>0, <2>1, <2>3 DEF DrawerFits, Same
  <2>7. ASSUME NEW x, x = check PROVE CheckFits(x)'
    BY <1>0, <1>1, <2>1, <2>5, <2>7 DEF CheckFits
  <2>8. Cancelled \subseteq Checks /\ \A c \in Cancelled : ~c.live
    BY CancelledFit DEF DrawerInv
  <2>9. \A c \in checks' : CheckFits(c)'
    <3>1. ASSUME NEW x \in Cancelled PROVE CheckFits(x)'
      BY <2>8, <3>1 DEF CheckFits
    <3> QED
      BY <2>1, <2>7, <3>1
  <2>10. ~Ready'
    BY <2>1 DEF Ready
  <2> QED
    BY <1>2, <2>1, <2>4, <2>6, <2>8, <2>9, <2>10
       DEF DrawerInv, Same, DrawerShowsChecked, MissingHasReason
<1> QED
  BY <1>3, <1>4

LEMMA ServedFits ==
  ASSUME DrawerInv, Same, NEW c \in checks, CheckServed(c)
  PROVE  DrawerInv'
<1>1. c \in Checks /\ CheckFits(c) /\ c.question \in Questions
  BY DEF DrawerInv, Checks
<1>2. PICK K \in Found(c.question, c.by) :
        checks' = (checks \ {c}) \cup {[c EXCEPT !.result = K]}
  BY DEF CheckServed
<1> DEFINE done == [c EXCEPT !.result = K]
<1>3. UNCHANGED <<asking, lastQuery, answer, drawer, behind>>
  BY DEF CheckServed
<1>4. /\ K \subseteq Fits[c.question] \cap Of(visible[c.by])
      /\ \A p \in Fits[c.question] \ K : Excused(p, c.question, visible[c.by])
  BY <1>1, FoundFits
<1>5. K \in SUBSET Passages
  BY <1>4 DEF Of
<1>6. /\ done \in Checks /\ done.cites = c.cites /\ done.question = c.question
      /\ done.by = c.by /\ done.live = c.live /\ done.result = K
  BY <1>1, <1>5 DEF Checks
<1>7. checks' = (checks \ {c}) \cup {done}
  BY <1>2
<1> HIDE DEF done
<1>8. ASSUME NEW x, x = done, c.live PROVE CheckFits(x)'
  <2>1. /\ drawer # None /\ c.by = drawer.by /\ visible[drawer.by] \in drawer.moments
        /\ ~behind => /\ c.cites = drawer.cites /\ c.question = lastQuery
                      /\ c.cites \in Fits[lastQuery]
    BY <1>1, <1>8 DEF CheckFits, DrawerInv, DrawerFits
  <2>2. K \subseteq Of(UNION drawer.moments)
    <3>1. visible[c.by] \subseteq UNION drawer.moments
      BY <2>1
    <3> QED
      BY <1>4, <3>1 DEF Of
  <2>3. ~behind /\ c.cites \notin K => Excused(c.cites, lastQuery, visible[drawer.by])
    BY <1>4, <2>1
  <2>4. ~behind /\ c.cites \notin K =>
          \E docs \in drawer.moments : Excused(c.cites, lastQuery, docs)
    BY <2>1, <2>3
  <2>5. /\ x.by = drawer.by /\ x.result \subseteq Of(UNION drawer.moments)
        /\ ~behind => /\ x.cites = drawer.cites /\ x.question = lastQuery
                      /\ x.cites \in Fits[lastQuery]
                      /\ x.cites \notin x.result =>
                           \E docs \in drawer.moments : Excused(x.cites, lastQuery, docs)
    BY <1>6, <1>8, <2>1, <2>2, <2>4
  <2> QED
    BY <1>3, <2>1, <2>5 DEF CheckFits, Excused, Crowded
<1>9. ASSUME NEW x, x = done, ~c.live PROVE CheckFits(x)'
  BY <1>6, <1>9 DEF CheckFits
<1>10. \A x \in checks' : CheckFits(x)'
  <2>1. ASSUME NEW x \in checks PROVE CheckFits(x)'
    BY <1>3, <2>1 DEF DrawerInv, CheckFits, Excused, Crowded
  <2> QED
    BY <1>7, <1>8, <1>9, <2>1
<1>11. AnswerFits' /\ DrawerFits' /\ (DrawerShowsChecked /\ MissingHasReason)'
  BY <1>3 DEF DrawerInv, Same, AnswerFits, DrawerFits, DrawerShowsChecked,
              MissingHasReason, Crowded, Ready
<1>12. checks' \subseteq Checks
  BY <1>6, <1>7 DEF DrawerInv
<1> QED
  BY <1>10, <1>11, <1>12 DEF DrawerInv, Same

LEMMA ArrivedFits ==
  ASSUME DrawerInv, Same, NEW c \in checks, CheckReceived(c) \/ CheckFails(c)
  PROVE  DrawerInv'
<1>0. /\ UNCHANGED <<asking, lastQuery, answer, behind>>
      /\ checks' = checks \ {c}
  BY DEF CheckReceived, CheckFails
<1>1. c \in Checks /\ CheckFits(c)
  BY DEF DrawerInv
<1>2. ASSUME drawer' = drawer PROVE DrawerInv'
  BY <1>0, <1>2
     DEF DrawerInv, Same, AnswerFits, DrawerFits, CheckFits, DrawerShowsChecked,
         MissingHasReason, Excused, Crowded, Ready
<1>3. CASE ~c.live
  BY <1>2, <1>3 DEF CheckReceived, CheckFails, Arrived
<1>4. CASE c.live
  <2>1. drawer # None /\ drawer \in Drawers
    BY <1>1, <1>4 DEF DrawerInv, CheckFits, DrawerFits
  <2>2. PICK st \in {"ready", "error"}, found \in SUBSET Passages :
          /\ drawer' = [drawer EXCEPT !.status = st, !.found = found]
          /\ st = "ready" => c.result # None /\ found = {c.cites} \cap c.result
    <3>1. CASE CheckReceived(c)
      <4>1. {c.cites} \cap c.result \in SUBSET Passages
        BY <1>1 DEF Checks
      <4> QED
        BY <1>4, <3>1, <4>1 DEF CheckReceived, Arrived
    <3>2. CASE CheckFails(c)
      <4>1. drawer' = [drawer EXCEPT !.status = "error"]
        BY <1>4, <3>2 DEF CheckFails, Arrived
      <4>2. drawer' = [drawer EXCEPT !.status = "error", !.found = drawer.found]
        BY <2>1, <4>1 DEF Drawers
      <4> QED
        BY <2>1, <4>2 DEF Drawers
    <3> QED
      BY <3>1, <3>2
  <2>3. /\ drawer' \in Drawers
        /\ drawer'.claim = drawer.claim /\ drawer'.cites = drawer.cites
        /\ drawer'.by = drawer.by /\ drawer'.status = st
        /\ drawer'.found = found /\ drawer'.moments = drawer.moments
    BY <2>1, <2>2 DEF Drawers
  <2>4. drawer' # None
    BY <2>3, WorkspaceAssumption
  <2>5. AnswerFits' /\ DrawerFits'
    BY <1>0, <2>1, <2>3 DEF DrawerInv, AnswerFits, DrawerFits, Same
  <2>6. ASSUME NEW x \in checks' PROVE CheckFits(x)'
    <3>1. CheckFits(x)
      BY <1>0 DEF DrawerInv
    <3> QED
      BY <1>0, <2>3, <2>4, <3>1 DEF CheckFits, Excused, Crowded
  <2>7. st = "ready" =>
          /\ found \subseteq Of(UNION drawer.moments)
          /\ ~behind =>
               /\ found \subseteq {drawer.cites}
               /\ drawer.cites \notin found =>
                    \E docs \in drawer.moments : Excused(drawer.cites, lastQuery, docs)
    BY <1>1, <1>4, <2>2 DEF CheckFits
  <2>8. (DrawerShowsChecked /\ MissingHasReason)'
    BY <1>0, <2>3, <2>7 DEF DrawerShowsChecked, MissingHasReason, Excused, Crowded, Ready
  <2> QED
    BY <1>0, <2>5, <2>6, <2>8 DEF DrawerInv, Same
<1> QED
  BY <1>3, <1>4 DEF Checks

LEMMA NoDrawer ==
  ASSUME DrawerInv, identity' \in Identities,
         visible' = visible, drawer' = None, AnswerFits', checks' \subseteq Checks,
         \A c \in checks' : ~c.live
  PROVE  DrawerInv'
BY DEF DrawerInv, DrawerFits, CheckFits, DrawerShowsChecked, MissingHasReason, Ready

LEMMA StepDrawer == DrawerInv /\ [Next]_vars => DrawerInv'
<1> SUFFICES ASSUME DrawerInv, [Next]_vars PROVE DrawerInv'
  OBVIOUS
<1>1. ASSUME NEW t \in Tabs, OpenTab(t) PROVE DrawerInv'
  <2>1. /\ identity' = identity /\ visible' = visible
        /\ drawer' = None /\ checks' = {} /\ asking' = None /\ answer' = None
    BY <1>1 DEF OpenTab, WorkspaceReset
  <2>2. AnswerFits'
    BY <2>1 DEF AnswerFits
  <2> QED
    BY <2>1, <2>2, NoDrawer DEF DrawerInv
<1>2. ASSUME UNCHANGED <<visible, workspace>>, identity' \in Identities PROVE DrawerInv'
  BY <1>2 DEF DrawerInv, workspace, AnswerFits, DrawerFits, CheckFits,
              DrawerShowsChecked, MissingHasReason, Excused, Crowded, Ready
<1>3. ASSUME NEW i \in Identities, SwitchIdentity(i) PROVE DrawerInv'
  BY <1>2, <1>3 DEF SwitchIdentity, Switch, SetIdentity
<1>4. CASE InUploads
  BY <1>2, <1>4 DEF InUploads, InPanel, DrawerInv
<1>5. CASE InWorkspace
  <2>1. WorkspaceStep /\ identity' = identity
    BY <1>5 DEF InWorkspace
  <2>2. Same
    BY <2>1 DEF Same, DrawerInv, WorkspaceStep, Submit, Answer, AnswerFails, OpenCitation,
                CheckServed, CheckReceived, CheckFails, CloseDrawer
  <2>3. CASE CloseDrawer
    <3>1. AnswerFits'
      BY <2>3 DEF CloseDrawer, DrawerInv, AnswerFits
    <3> QED
      BY <2>2, <2>3, <3>1, CancelledFit, NoDrawer DEF CloseDrawer, DrawerInv, Same
  <2> QED
    BY <2>1, <2>2, <2>3, AskedFits, OpenFits, ServedFits, ArrivedFits DEF WorkspaceStep
<1>6. CASE Behind
  <2>1. CASE UNCHANGED <<identity, visible, workspace>>
    BY <1>2, <2>1 DEF DrawerInv
  <2>2. ASSUME NEW i \in Identities, NEW docs \in SUBSET Documents, Change(i, docs),
               identity' = identity
        PROVE  DrawerInv'
    BY <2>2, ChangeFits
  <2> QED
    BY <1>6, <2>1, <2>2 DEF Behind
<1>7. CASE UNCHANGED vars
  BY <1>2, <1>7 DEF vars, DrawerInv
<1> QED
  BY <1>1, <1>3, <1>4, <1>5, <1>6, <1>7 DEF Next

(* What the drawer shows could be seen by the identity that opened it, and *)
(* is what its claim cites, however searches are answered.                 *)
THEOREM ShowsChecked == Spec => []DrawerShowsChecked
<1>1. DrawerInv => DrawerShowsChecked
  BY DEF DrawerInv
<1> QED
  BY <1>1, InitDrawer, StepDrawer, PTL DEF Spec

(* What the drawer reports as gone could not be seen by that identity at   *)
(* some moment, or the caps of /search pushed it out.                      *)
THEOREM MissingExplained == Spec => []MissingHasReason
<1>1. DrawerInv => MissingHasReason
  BY DEF DrawerInv
<1> QED
  BY <1>1, InitDrawer, StepDrawer, PTL DEF Spec

=============================================================================
