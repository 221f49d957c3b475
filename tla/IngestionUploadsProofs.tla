------------------------ MODULE IngestionUploadsProofs ------------------------
(***************************************************************************)
(* For any number of files, requests, uploads and cleaners: a registered   *)
(* document keeps its object, and every other object keeps its row.        *)
(*                                                                         *)
(* The argument.  A row belongs to one party at a time: while it is in     *)
(* state 'staging' and not due it protects the requests in flight, and     *)
(* while it is 'deleting' and not due it protects the batch that claimed   *)
(* it.  A registered document needs no row and has none, so no batch       *)
(* handles its object; and what a batch has deleted stays deleted until    *)
(* its row is gone, because a request would need the row to write it.      *)
(* The queue limit is at the end, and needs of this that a request about   *)
(* to register holds the slot its job will take.                           *)
(***************************************************************************)
EXTENDS IngestionUploads, FiniteSetTheorems, TLAPS

\* A registered document has its object and no row.
Settled == \A f \in Files : Referenced(f) => f \in object /\ row[f] = None

\* A request in flight holds a fresh row, unless its document is registered.
Protected ==
  \A c \in Clients : client[c].phase # "idle" =>
    \/ Referenced(client[c].file)
    \/ /\ row[client[c].file] # None
       /\ row[client[c].file].state = "staging" /\ ~row[client[c].file].due

\* What a request has written is in the store.
Written == \A c \in Clients : client[c].phase = "stored" => client[c].file \in object

\* A batch holds the lease of every row it handles.
Leased ==
  \A k \in Cleaners, f \in Files :
    f \in cleaner[k].todo \/ cleaner[k].gone = f =>
      row[f] # None /\ row[f].state = "deleting" /\ ~row[f].due /\ row[f].token = k

\* What a batch has deleted has not been written again, and is not deleted twice.
Gone == \A k \in Cleaners, f \in Files : cleaner[k].gone = f => f \notin object /\ f \notin cleaner[k].todo

IInv == TypeOK /\ Settled /\ Protected /\ Written /\ Leased /\ Gone /\ ObjectsAreTracked

\* At the start nothing is stored, staged or registered.
LEMMA InitEstablishes == Init => IInv
BY UploadsAssumption DEF Init, IInv, TypeOK, Settled, Protected, Written, Leased, Gone, ObjectsAreTracked,
   Referenced, Staged, Rows, Quiet, Resting

\* What staging writes is a row.
LEMMA FreshRow == [state |-> "staging", due |-> FALSE, token |-> None] \in Rows
BY DEF Rows

\* A row that becomes due is still a row.
LEMMA DueRow == \A r \in Rows : [r EXCEPT !.due = TRUE] \in Rows
<1> TAKE r \in Rows
<1>1. CASE r \in [state : {"staging"}, due : BOOLEAN, token : {None}]
  BY <1>1 DEF Rows
<1>2. CASE r \in [state : {"deleting"}, due : BOOLEAN, token : Cleaners]
  BY <1>2 DEF Rows
<1>3. QED
  BY <1>1, <1>2 DEF Rows

\* Type correctness: every action keeps each variable in its type.
LEMMA NextKeepsType == TypeOK /\ [Next]_vars => TypeOK'
<1> SUFFICES ASSUME TypeOK, [Next]_vars PROVE TypeOK'
  OBVIOUS
<1> USE UploadsAssumption DEF TypeOK
<1>1. ASSUME NEW c \in Clients, NEW f \in Files, StageIngestionUpload(c, f) PROVE TypeOK'
  <2>1. [phase |-> "staged", file |-> f] \in [phase : {"staged", "stored"}, file : Files]
    OBVIOUS
  <2>2. client' \in [Clients -> [phase : {"idle"}, file : {None}] \cup [phase : {"staged", "stored"}, file : Files]]
    BY <1>1, <2>1 DEF StageIngestionUpload
  <2>3. row' \in [Files -> Rows \cup {None}]
    BY <1>1, FreshRow DEF StageIngestionUpload, Refresh
  <2>4. older' \in SUBSET (Files \X Files)
    <3>1. Touched(f) \in SUBSET (Files \X Files)
      BY DEF Touched, Forget
    <3>2. QED
      BY <1>1, <3>1 DEF StageIngestionUpload
  <2>5. QED
    BY <1>1, <2>2, <2>3, <2>4 DEF StageIngestionUpload
<1>2. ASSUME NEW c \in Clients, StoreObject(c) PROVE TypeOK'
  BY <1>2 DEF StoreObject
<1>3. ASSUME NEW c \in Clients, StoreFails(c) PROVE TypeOK'
  BY <1>3 DEF StoreFails, Quiet
<1>4. ASSUME NEW c \in Clients, RegisterIngestion(c) PROVE TypeOK'
  BY <1>4 DEF RegisterIngestion, Clear, Forget, Quiet
<1>5. ASSUME NEW c \in Clients, AbandonUpload(c) PROVE TypeOK'
  BY <1>5 DEF AbandonUpload, Quiet
<1>6. ASSUME NEW k \in Cleaners, ClaimStaleIngestionUploads(k) PROVE TypeOK'
  BY <1>6, ZenonT(30) DEF ClaimStaleIngestionUploads, Claimed, Oldest, Claimable, Rows
<1>7. ASSUME NEW k \in Cleaners, NEW f \in Files, DeleteDocument(k, f) PROVE TypeOK'
  BY <1>7 DEF DeleteDocument
<1>8. ASSUME NEW k \in Cleaners, NEW f \in Files, DeleteFails(k, f) PROVE TypeOK'
  BY <1>8 DEF DeleteFails
<1>9. ASSUME NEW k \in Cleaners, FinishIngestionUploadCleanup(k) PROVE TypeOK'
  BY <1>9 DEF FinishIngestionUploadCleanup, Clear, Forget
<1>10. ASSUME NEW k \in Cleaners, StopBatch(k) PROVE TypeOK'
  BY <1>10 DEF StopBatch, Resting
<1>11. ASSUME NEW f \in Files, JobEnds(f) PROVE TypeOK'
  BY <1>11 DEF JobEnds
<1>12. ASSUME NEW f \in Files, RetryIngestion(f) PROVE TypeOK'
  BY <1>12 DEF RetryIngestion
<1>13. ASSUME NEW f \in Files, BecomesDue(f) PROVE TypeOK'
  <2>1. [row[f] EXCEPT !.due = TRUE] \in Rows
    BY <1>13, DueRow DEF BecomesDue, Staged
  <2>2. row' \in [Files -> Rows \cup {None}]
    BY <1>13, <2>1 DEF BecomesDue
  <2>3. QED
    BY <1>13, <2>2 DEF BecomesDue
<1>14. ASSUME OtherJobs PROVE TypeOK'
  BY <1>14 DEF OtherJobs
<1>15. CASE UNCHANGED vars
  BY <1>15 DEF vars
<1>16. QED
  BY <1>1, <1>2, <1>3, <1>4, <1>5, <1>6, <1>7, <1>8, <1>9, <1>10, <1>11, <1>12, <1>13, <1>14, <1>15 DEF Next, Upload, RunCleanupBatch, Queue

\* Settled is kept: registering needs a fresh row and clears it, and no batch handles a registered document.
LEMMA NextKeepsSettled == IInv /\ Next => Settled'
<1> SUFFICES ASSUME IInv, Next PROVE Settled'
  OBVIOUS
<1> USE UploadsAssumption DEF IInv, TypeOK, Settled
<1>1. ASSUME NEW c \in Clients, NEW f \in Files, StageIngestionUpload(c, f) PROVE Settled'
  BY <1>1 DEF StageIngestionUpload, Refresh, Quiet, Referenced, Staged, Protected, Written, Leased
<1>2. ASSUME NEW c \in Clients, StoreObject(c) PROVE Settled'
  BY <1>2 DEF StoreObject, Referenced, Protected, Written, Leased
<1>3. ASSUME NEW c \in Clients, StoreFails(c) PROVE Settled'
  BY <1>3 DEF StoreFails, Quiet, Referenced, Protected, Written, Leased
<1>4. ASSUME NEW c \in Clients, RegisterIngestion(c) PROVE Settled'
  BY <1>4 DEF RegisterIngestion, Clear, Quiet, Deleting, Staged, Referenced, Protected, Written, Leased
<1>5. ASSUME NEW f \in Files, BecomesDue(f) PROVE Settled'
  BY <1>5 DEF BecomesDue, Staged, Referenced, Protected, Written, Leased
<1>6. ASSUME NEW k \in Cleaners, ClaimStaleIngestionUploads(k) PROVE Settled'
  BY <1>6 DEF ClaimStaleIngestionUploads, Claimed, Oldest, Claimable, Staged, Referenced, Protected, Written, Leased
<1>7. ASSUME NEW k \in Cleaners, NEW f \in Files, DeleteDocument(k, f) PROVE Settled'
  BY <1>7 DEF DeleteDocument, Referenced, Protected, Written, Leased
<1>8. ASSUME NEW k \in Cleaners, FinishIngestionUploadCleanup(k) PROVE Settled'
  BY <1>8 DEF FinishIngestionUploadCleanup, Clear, Referenced, Protected, Written, Leased
<1>9. CASE UNCHANGED <<row, object, document>>
  BY <1>9 DEF Referenced
<1>10. QED
  BY <1>1, <1>2, <1>3, <1>4, <1>5, <1>6, <1>7, <1>8, <1>9 DEF Next, Upload, RunCleanupBatch, Queue, AbandonUpload, DeleteFails, StopBatch, JobEnds, RetryIngestion, OtherJobs

\* A row turns due or is claimed only while no request relies on it.
LEMMA NextKeepsProtected == IInv /\ Next => Protected'
<1> SUFFICES ASSUME IInv, Next PROVE Protected'
  OBVIOUS
<1> USE UploadsAssumption DEF IInv, TypeOK, Protected
<1>1. ASSUME NEW c \in Clients, NEW f \in Files, StageIngestionUpload(c, f) PROVE Protected'
  <2>0. document' = document
    BY <1>1 DEF StageIngestionUpload
  <2> SUFFICES ASSUME NEW d \in Clients, client'[d].phase # "idle", ~Referenced(client'[d].file)
               PROVE  row'[client'[d].file] # None /\ row'[client'[d].file].state = "staging" /\ ~row'[client'[d].file].due
    BY <2>0 DEF Referenced
  <2> DEFINE fresh == [state |-> "staging", due |-> FALSE, token |-> None]
  <2>1. fresh # None
    BY FreshRow
  <2>2. row' = row \/ row' = [row EXCEPT ![f] = fresh]
    BY <1>1 DEF StageIngestionUpload, Refresh
  <2>3. CASE d = c /\ client' = [client EXCEPT ![c] = [phase |-> "staged", file |-> f]]
    <3>1. client'[d].file = f /\ client' # client
      BY <1>1, <2>3 DEF StageIngestionUpload, Quiet
    <3>2. row' = [row EXCEPT ![f] = fresh]
      BY <1>1, <3>1 DEF StageIngestionUpload, Refresh
    <3>3. QED
      BY <2>1, <3>1, <3>2
  <2>4. CASE client'[d] = client[d]
    BY <1>1, <2>1, <2>2, <2>4 DEF Referenced, StageIngestionUpload
  <2>5. QED
    BY <1>1, <2>3, <2>4 DEF StageIngestionUpload
<1>2. ASSUME NEW c \in Clients, StoreObject(c) PROVE Protected'
  BY <1>2 DEF StoreObject, Referenced, Settled, Leased
<1>3. ASSUME NEW c \in Clients, StoreFails(c) PROVE Protected'
  BY <1>3 DEF StoreFails, Quiet, Referenced, Settled, Leased
<1>4. ASSUME NEW c \in Clients, RegisterIngestion(c) PROVE Protected'
  BY <1>4 DEF RegisterIngestion, Clear, Quiet, Deleting, Staged, Referenced, Settled, Leased
<1>5. ASSUME NEW c \in Clients, AbandonUpload(c) PROVE Protected'
  BY <1>5 DEF AbandonUpload, Quiet, Referenced, Settled, Leased
<1>6. ASSUME NEW f \in Files, BecomesDue(f) PROVE Protected'
  BY <1>6 DEF BecomesDue, Staged, Referenced, Deleting, InFlight, Handled, Settled, Leased
<1>7. ASSUME NEW k \in Cleaners, ClaimStaleIngestionUploads(k) PROVE Protected'
  BY <1>7 DEF ClaimStaleIngestionUploads, Claimed, Oldest, Claimable, Staged, Referenced, Settled, Leased
<1>8. ASSUME NEW k \in Cleaners, FinishIngestionUploadCleanup(k) PROVE Protected'
  BY <1>8 DEF FinishIngestionUploadCleanup, Clear, Referenced, Settled, Leased
<1>9. CASE UNCHANGED <<row, document, client>>
  BY <1>9 DEF Referenced
<1>10. QED
  BY <1>1, <1>2, <1>3, <1>4, <1>5, <1>6, <1>7, <1>8, <1>9 DEF Next, Upload, RunCleanupBatch, Queue, DeleteDocument, DeleteFails, StopBatch, JobEnds, RetryIngestion, OtherJobs

\* What a request has written is not deleted before it registers.
LEMMA NextKeepsWritten == IInv /\ Next => Written'
<1> SUFFICES ASSUME IInv, Next PROVE Written'
  OBVIOUS
<1> USE UploadsAssumption DEF IInv, TypeOK, Written
<1>1. ASSUME NEW c \in Clients, NEW f \in Files, StageIngestionUpload(c, f) PROVE Written'
  BY <1>1 DEF StageIngestionUpload, Refresh, Quiet, Referenced, Protected, Leased, Settled
<1>2. ASSUME NEW c \in Clients, StoreObject(c) PROVE Written'
  BY <1>2 DEF StoreObject, Referenced, Protected, Leased, Settled
<1>3. ASSUME NEW c \in Clients, StoreFails(c) PROVE Written'
  BY <1>3 DEF StoreFails, Quiet, Referenced, Protected, Leased, Settled
<1>4. ASSUME NEW c \in Clients, RegisterIngestion(c) PROVE Written'
  BY <1>4 DEF RegisterIngestion, Clear, Quiet, Deleting, Staged, Referenced, Protected, Leased, Settled
<1>5. ASSUME NEW c \in Clients, AbandonUpload(c) PROVE Written'
  BY <1>5 DEF AbandonUpload, Quiet, Referenced, Protected, Leased, Settled
<1>6. ASSUME NEW k \in Cleaners, NEW f \in Files, DeleteDocument(k, f) PROVE Written'
  BY <1>6 DEF DeleteDocument, Referenced, Protected, Leased, Settled
<1>7. CASE UNCHANGED <<object, client>>
  BY <1>7 DEF Referenced
<1>8. QED
  BY <1>1, <1>2, <1>3, <1>4, <1>5, <1>6, <1>7 DEF Next, Upload, RunCleanupBatch, Queue, ClaimStaleIngestionUploads, DeleteFails, FinishIngestionUploadCleanup, StopBatch, JobEnds, RetryIngestion, BecomesDue, OtherJobs

\* A lease is taken over only when no batch handles the row any more.
LEMMA NextKeepsLeased == IInv /\ Next => Leased'
<1> SUFFICES ASSUME IInv, Next PROVE Leased'
  OBVIOUS
<1> USE UploadsAssumption DEF IInv, TypeOK, Leased
<1>1. ASSUME NEW c \in Clients, NEW f \in Files, StageIngestionUpload(c, f) PROVE Leased'
  BY <1>1 DEF StageIngestionUpload, Refresh, Quiet, Referenced, Deleting, Staged, Protected, Settled
<1>2. ASSUME NEW c \in Clients, RegisterIngestion(c) PROVE Leased'
  BY <1>2 DEF RegisterIngestion, Clear, Quiet, Deleting, Staged, Referenced, Protected, Settled
<1>3. ASSUME NEW f \in Files, BecomesDue(f) PROVE Leased'
  BY <1>3 DEF BecomesDue, Staged, Referenced, Deleting, InFlight, Handled, Protected, Settled
<1>4. ASSUME NEW k \in Cleaners, ClaimStaleIngestionUploads(k) PROVE Leased'
  <2> DEFINE S == Oldest(Claimable)
             lease == [state |-> "deleting", due |-> FALSE, token |-> k]
  <2>1. lease \in Rows
    BY DEF Rows
  <2>2. \A f \in S : f \in Files /\ row[f] # None /\ row[f].due
    BY DEF Oldest, Claimable, Staged
  <2>3. cleaner' = [cleaner EXCEPT ![k].todo = S] /\ cleaner[k] = [todo |-> {}, gone |-> None]
    BY <1>4 DEF ClaimStaleIngestionUploads, Resting
  <2>4. \A f \in Files : row'[f] = IF f \in S THEN lease ELSE IF Referenced(f) THEN None ELSE row[f]
    BY <1>4 DEF ClaimStaleIngestionUploads, Claimed
  <2> HIDE DEF S, lease
  <2> SUFFICES ASSUME NEW m \in Cleaners, NEW f \in Files, f \in cleaner'[m].todo \/ cleaner'[m].gone = f
               PROVE  row'[f] # None /\ row'[f].state = "deleting" /\ ~row'[f].due /\ row'[f].token = m
    OBVIOUS
  <2>5. CASE m = k
    <3>1. f \in S
      BY <2>3, <2>5
    <3>2. row'[f] = lease
      BY <2>4, <3>1
    <3>3. lease.state = "deleting" /\ ~lease.due /\ lease.token = m
      BY <2>5 DEF lease
    <3>4. lease # None
      BY <2>1
    <3>5. QED
      BY <3>2, <3>3, <3>4
  <2>6. CASE m # k
    BY <2>2, <2>3, <2>4, <2>6 DEF Settled
  <2>7. QED
    BY <2>5, <2>6
<1>5. ASSUME NEW k \in Cleaners, NEW f \in Files, DeleteDocument(k, f) PROVE Leased'
  BY <1>5 DEF DeleteDocument, Referenced, Protected, Settled
<1>6. ASSUME NEW k \in Cleaners, NEW f \in Files, DeleteFails(k, f) PROVE Leased'
  BY <1>6 DEF DeleteFails, Referenced, Protected, Settled
<1>7. ASSUME NEW k \in Cleaners, FinishIngestionUploadCleanup(k) PROVE Leased'
  <2> DEFINE f == cleaner[k].gone
  <2>1. \A g \in Files : g # f => row'[g] = row[g]
    BY <1>7 DEF FinishIngestionUploadCleanup, Clear
  <2> USE DEF Gone
  <2>2. \A m \in Cleaners \ {k} : f \notin cleaner[m].todo /\ cleaner[m].gone # f
    <3>1. cleaner[k].gone # None
      BY <1>7 DEF FinishIngestionUploadCleanup
    <3>2. f \in Files /\ row[f].token = k
      <4>1. f \in Files
        BY <3>1 DEF TypeOK
      <4>2. QED
        BY <4>1 DEF Leased
    <3>3. SUFFICES ASSUME NEW m \in Cleaners \ {k}, f \in cleaner[m].todo \/ cleaner[m].gone = f
                   PROVE  FALSE
      OBVIOUS
    <3>4. row[f].token = m
      BY <3>2, <3>3 DEF Leased
    <3>5. QED
      BY <3>2, <3>3, <3>4
  <2>3. QED
    BY <1>7, <2>1, <2>2 DEF FinishIngestionUploadCleanup
<1>8. ASSUME NEW k \in Cleaners, StopBatch(k) PROVE Leased'
  BY <1>8 DEF StopBatch, Resting, Referenced, Protected, Settled
<1>9. CASE UNCHANGED <<row, cleaner>>
  BY <1>9 DEF Referenced
<1>10. QED
  BY <1>1, <1>2, <1>3, <1>4, <1>5, <1>6, <1>7, <1>8, <1>9 DEF Next, Upload, RunCleanupBatch, Queue, StoreObject, StoreFails, AbandonUpload, JobEnds, RetryIngestion, OtherJobs

\* Writing needs a row that is not deleting.
LEMMA NextKeepsGone == IInv /\ Next => Gone'
<1> SUFFICES ASSUME IInv, Next PROVE Gone'
  OBVIOUS
<1> USE UploadsAssumption DEF IInv, TypeOK, Gone
<1>1. ASSUME NEW c \in Clients, StoreObject(c) PROVE Gone'
  BY <1>1 DEF StoreObject, Referenced, Protected, Settled, Leased
<1>2. ASSUME NEW c \in Clients, StoreFails(c) PROVE Gone'
  BY <1>2 DEF StoreFails, Quiet, Referenced, Protected, Settled, Leased
<1>3. ASSUME NEW k \in Cleaners, ClaimStaleIngestionUploads(k) PROVE Gone'
  BY <1>3 DEF ClaimStaleIngestionUploads, Claimed, Oldest, Claimable, Staged, Referenced, Resting, Protected, Settled, Leased
<1>4. ASSUME NEW k \in Cleaners, NEW f \in Files, DeleteDocument(k, f) PROVE Gone'
  BY <1>4 DEF DeleteDocument, Referenced, Protected, Settled, Leased
<1>5. ASSUME NEW k \in Cleaners, NEW f \in Files, DeleteFails(k, f) PROVE Gone'
  BY <1>5 DEF DeleteFails, Referenced, Protected, Settled, Leased
<1>6. ASSUME NEW k \in Cleaners, FinishIngestionUploadCleanup(k) PROVE Gone'
  BY <1>6 DEF FinishIngestionUploadCleanup, Clear, Referenced, Protected, Settled, Leased
<1>7. ASSUME NEW k \in Cleaners, StopBatch(k) PROVE Gone'
  BY <1>7 DEF StopBatch, Resting, Referenced, Protected, Settled, Leased
<1>8. CASE UNCHANGED <<object, cleaner>>
  BY <1>8 DEF Referenced
<1>9. QED
  BY <1>1, <1>2, <1>3, <1>4, <1>5, <1>6, <1>7, <1>8 DEF Next, Upload, RunCleanupBatch, Queue, StageIngestionUpload, RegisterIngestion, AbandonUpload, JobEnds, RetryIngestion, BecomesDue, OtherJobs

\* An object loses its row only when it is registered or deleted.
LEMMA NextKeepsObjectsAreTracked == IInv /\ Next => ObjectsAreTracked'
<1> SUFFICES ASSUME IInv, Next PROVE ObjectsAreTracked'
  OBVIOUS
<1> USE UploadsAssumption DEF IInv, TypeOK, ObjectsAreTracked
<1>1. ASSUME NEW c \in Clients, NEW f \in Files, StageIngestionUpload(c, f) PROVE ObjectsAreTracked'
  <2>1. row' = row \/ row' = [row EXCEPT ![f] = [state |-> "staging", due |-> FALSE, token |-> None]]
    BY <1>1 DEF StageIngestionUpload, Refresh
  <2>2. object' = object /\ document' = document
    BY <1>1 DEF StageIngestionUpload
  <2>3. QED
    BY <2>1, <2>2, FreshRow, ZenonT(30) DEF Referenced, Staged
<1>2. ASSUME NEW c \in Clients, StoreObject(c) PROVE ObjectsAreTracked'
  BY <1>2 DEF StoreObject, Referenced, Staged, Settled, Protected, Leased, Gone
<1>3. ASSUME NEW c \in Clients, StoreFails(c) PROVE ObjectsAreTracked'
  BY <1>3 DEF StoreFails, Quiet, Referenced, Staged, Settled, Protected, Leased, Gone
<1>4. ASSUME NEW c \in Clients, RegisterIngestion(c) PROVE ObjectsAreTracked'
  BY <1>4 DEF RegisterIngestion, Clear, Quiet, Deleting, Staged, Referenced, Settled, Protected, Leased, Gone
<1>5. ASSUME NEW f \in Files, BecomesDue(f) PROVE ObjectsAreTracked'
  <2>1. [row[f] EXCEPT !.due = TRUE] \in Rows
    BY <1>5, DueRow DEF BecomesDue, Staged
  <2>2. QED
    BY <1>5, <2>1 DEF BecomesDue, Referenced, Staged
<1>6. ASSUME NEW k \in Cleaners, ClaimStaleIngestionUploads(k) PROVE ObjectsAreTracked'
  <2>1. [state |-> "deleting", due |-> FALSE, token |-> k] \in Rows
    BY DEF Rows
  <2>2. \A f \in Files : ~Referenced(f) /\ row[f] # None => row'[f] # None
    BY <1>6, <2>1 DEF ClaimStaleIngestionUploads, Claimed
  <2>3. QED
    BY <1>6, <2>2 DEF ClaimStaleIngestionUploads, Referenced, Staged
<1>7. ASSUME NEW k \in Cleaners, NEW f \in Files, DeleteDocument(k, f) PROVE ObjectsAreTracked'
  BY <1>7 DEF DeleteDocument, Referenced, Staged, Settled, Protected, Leased, Gone
<1>8. ASSUME NEW k \in Cleaners, FinishIngestionUploadCleanup(k) PROVE ObjectsAreTracked'
  BY <1>8 DEF FinishIngestionUploadCleanup, Clear, Referenced, Staged, Holds, Deleting, Settled, Protected, Leased, Gone
<1>9. CASE UNCHANGED <<row, object, document>>
  BY <1>9 DEF Referenced, Staged
<1>10. QED
  BY <1>1, <1>2, <1>3, <1>4, <1>5, <1>6, <1>7, <1>8, <1>9 DEF Next, Upload, RunCleanupBatch, Queue, AbandonUpload, DeleteFails, StopBatch, JobEnds, RetryIngestion, OtherJobs

\* The invariant is kept by every step.
LEMMA NextKeeps == IInv /\ [Next]_vars => IInv'
<1> SUFFICES ASSUME IInv, [Next]_vars PROVE IInv'
  OBVIOUS
<1>1. TypeOK'
  BY NextKeepsType DEF IInv
<1>2. CASE Next
  BY <1>1, <1>2, NextKeepsSettled, NextKeepsProtected, NextKeepsWritten, NextKeepsLeased, NextKeepsGone,
     NextKeepsObjectsAreTracked DEF IInv
<1>3. CASE UNCHANGED vars
  BY <1>1, <1>3 DEF vars, IInv, Settled, Protected, Written, Leased, Gone, ObjectsAreTracked, Referenced, Staged
<1>4. QED
  BY <1>2, <1>3

\* The invariant holds in every state of every behaviour.
LEMMA Inductive == Spec => []IInv
<1>1. QED
  BY InitEstablishes, NextKeeps, PTL DEF Spec

\* Every reachable state is well typed: a lease token is held exactly by rows
\* that are being deleted.
THEOREM UploadsTypeCorrect == Spec => []TypeOK
<1>1. IInv => TypeOK
  BY DEF IInv
<1>2. QED
  BY <1>1, Inductive, PTL

\* A registered document always has its object (RegisterIngestion against
\* ClaimStaleIngestionUploads and DeleteDocument).
THEOREM RegisteredObjectsStay == Spec => []RegisteredObjectKept
<1>1. IInv => RegisteredObjectKept
  BY DEF IInv, Settled, RegisteredObjectKept
<1>2. QED
  BY <1>1, Inductive, PTL

\* Every object without a document has a row that cleanup will find.
THEOREM ObjectsStayTracked == Spec => []ObjectsAreTracked
<1>1. IInv => ObjectsAreTracked
  BY DEF IInv
<1>2. QED
  BY <1>1, Inductive, PTL

------------------------------------------------------------------------------
(* The queue limit.  A slot is an open job or a row without a document; in *)
(* one step at most one file takes a slot, and when an upload registers,   *)
(* its slot only moves from the row to the job.                            *)

OpenFiles == {f \in Files : job[f] = "open"}
Slots     == {f \in Files : Staged(f) /\ ~Referenced(f)}

\* What a step may do to the slots: nothing more than before, one more after a look at
\* the limit, or one moved.
SlotsFewer  == others' = others /\ OpenFiles' \subseteq OpenFiles /\ Slots' \subseteq Slots
SlotTaken   ==
  /\ others' = others /\ (Occupied < Limit \/ ~(Occupied >= Limit))
  /\ \E f \in Files : \/ OpenFiles' \subseteq OpenFiles \cup {f} /\ Slots' \subseteq Slots
                      \/ OpenFiles' \subseteq OpenFiles /\ Slots' \subseteq Slots \cup {f}
SlotMoves   ==
  others' = others /\ \E f \in Slots : OpenFiles' \subseteq OpenFiles \cup {f} /\ Slots' \subseteq Slots \ {f}
OthersMove  == others' # others /\ OpenFiles' \subseteq OpenFiles /\ Slots' \subseteq Slots

\* A smaller set has no more elements.
LEMMA Fewer ==
  ASSUME NEW A, NEW B, IsFiniteSet(A), B \subseteq A
  PROVE  IsFiniteSet(B) /\ Cardinality(A) \in Nat /\ Cardinality(B) \in Nat /\ Cardinality(B) <= Cardinality(A)
  BY FS_Subset, FS_CardinalityType

\* A set with one more candidate has at most one element more.
LEMMA OneMore ==
  ASSUME NEW A, NEW B, NEW x, IsFiniteSet(A), B \subseteq A \cup {x}
  PROVE  IsFiniteSet(B) /\ Cardinality(A) \in Nat /\ Cardinality(B) \in Nat /\ Cardinality(B) <= Cardinality(A) + 1
<1>1. /\ IsFiniteSet(A \cup {x}) /\ Cardinality(A) \in Nat
      /\ Cardinality(A \cup {x}) = Cardinality(A) \/ Cardinality(A \cup {x}) = Cardinality(A) + 1
  BY FS_AddElement, FS_CardinalityType
<1>2. /\ IsFiniteSet(B) /\ Cardinality(B) \in Nat /\ Cardinality(B) <= Cardinality(A \cup {x})
  BY <1>1, Fewer
<1> QED BY <1>1, <1>2

\* Taking an element out leaves one less.
LEMMA OneLess ==
  ASSUME NEW A, NEW B, NEW x \in A, IsFiniteSet(A), B \subseteq A \ {x}
  PROVE  IsFiniteSet(B) /\ Cardinality(A) \in Nat /\ Cardinality(B) \in Nat /\ Cardinality(B) + 1 <= Cardinality(A)
<1>1. /\ IsFiniteSet(A \ {x}) /\ Cardinality(A) \in Nat /\ Cardinality(A \ {x}) = Cardinality(A) - 1
  BY FS_RemoveElement, FS_CardinalityType
<1>2. /\ IsFiniteSet(B) /\ Cardinality(B) \in Nat /\ Cardinality(B) <= Cardinality(A \ {x})
  BY <1>1, Fewer
<1> QED BY <1>1, <1>2, FS_CardinalityType

\* Every step is of one of the four kinds.
LEMMA SlotSteps ==
  ASSUME IInv, [Next]_vars
  PROVE  SlotsFewer \/ SlotTaken \/ SlotMoves \/ OthersMove
<1>0. TypeOK
  BY DEF IInv
<1>1. ASSUME NEW c \in Clients, NEW f \in Files, StageIngestionUpload(c, f)
      PROVE  SlotsFewer \/ SlotTaken
  <2>1. UNCHANGED <<document, job, others>>
    BY <1>1 DEF StageIngestionUpload
  <2>2. OpenFiles' = OpenFiles
    BY <2>1 DEF OpenFiles
  <2>3. \A g \in Files \ {f} : row'[g] = row[g]
    BY <1>0, <1>1 DEF StageIngestionUpload, Refresh, TypeOK
  <2>4. CASE row' = row
    BY <2>1, <2>2, <2>4 DEF SlotsFewer, Slots, Staged, Referenced
  <2>5. CASE row' # row /\ Staged(f)
    <3>1. ~Referenced(f)
      BY <1>1, <2>5 DEF StageIngestionUpload
    <3>2. Slots' \subseteq Slots
      BY <2>1, <2>3, <2>5, <3>1 DEF Slots, Staged, Referenced
    <3> QED BY <2>1, <2>2, <3>2 DEF SlotsFewer
  <2>6. CASE row' # row /\ ~Staged(f)
    <3>1. ~(Occupied >= Limit)
      BY <1>1, <2>6 DEF StageIngestionUpload
    <3>2. Slots' \subseteq Slots \cup {f}
      BY <2>1, <2>3 DEF Slots, Staged, Referenced
    <3> QED BY <2>1, <2>2, <3>1, <3>2 DEF SlotTaken
  <2> QED BY <2>4, <2>5, <2>6
<1>2. ASSUME NEW c \in Clients, RegisterIngestion(c)
      PROVE  SlotsFewer \/ SlotMoves
  <2> DEFINE f == client[c].file
             r == RequestOf[f]
  <2>1. f \in Files /\ r \in Requests /\ None \notin Files
    BY <1>0, <1>2, UploadsAssumption DEF RegisterIngestion, TypeOK
  <2>2. others' = others
    BY <1>2 DEF RegisterIngestion
  <2>3. CASE UNCHANGED <<row, document, job>>
    BY <2>2, <2>3 DEF SlotsFewer, OpenFiles, Slots, Staged, Referenced
  <2>4. CASE row' = [row EXCEPT ![f] = None] /\ UNCHANGED <<document, job>>
    <3>1. \A g \in Files : Staged(g)' => Staged(g)
      BY <1>0, <2>1, <2>4 DEF TypeOK, Staged
    <3> QED BY <2>2, <2>4, <3>1 DEF SlotsFewer, OpenFiles, Slots, Referenced
  <2>5. CASE /\ document[r] = None /\ document' = [document EXCEPT ![r] = f]
             /\ job' = [job EXCEPT ![f] = "open"] /\ row' = [row EXCEPT ![f] = None]
    <3>1. \A g \in Files : document[RequestOf[g]] = g => document'[RequestOf[g]] = g
      BY <1>0, <2>1, <2>5, UploadsAssumption DEF TypeOK
    <3>2. \A g \in Files \ {f} : row'[g] = row[g] /\ job'[g] = job[g]
      BY <1>0, <2>1, <2>5 DEF TypeOK
    <3>3. document'[r] = f
      BY <1>0, <2>1, <2>5 DEF TypeOK
    <3>4. f \in Slots
      <4>1. ~Referenced(f)
        BY <2>1, <2>5 DEF Referenced
      <4>2. client[c].phase = "stored"
        BY <1>2 DEF RegisterIngestion
      <4>3. Staged(f)
        BY <4>1, <4>2 DEF IInv, Protected, Staged
      <4> QED BY <2>1, <4>1, <4>3 DEF Slots
    <3>5. Slots' \subseteq Slots \ {f}
      BY <3>1, <3>2, <3>3 DEF Slots, Staged, Referenced
    <3>6. OpenFiles' \subseteq OpenFiles \cup {f}
      BY <3>2 DEF OpenFiles
    <3> QED BY <2>2, <3>4, <3>5, <3>6 DEF SlotMoves
  <2> QED BY <1>2, <2>3, <2>4, <2>5 DEF RegisterIngestion, Clear
<1>3. ASSUME NEW f \in Files, JobEnds(f)
      PROVE  SlotsFewer
  <2>1. \A g \in Files : job'[g] = "open" => job[g] = "open"
    BY <1>0, <1>3 DEF JobEnds, TypeOK
  <2> QED BY <1>3, <2>1 DEF JobEnds, SlotsFewer, OpenFiles, Slots, Staged, Referenced
<1>4. ASSUME NEW f \in Files, RetryIngestion(f)
      PROVE  SlotTaken
  <2>1. Occupied < Limit
    BY <1>4 DEF RetryIngestion
  <2>2. \A g \in Files \ {f} : job'[g] = job[g]
    BY <1>0, <1>4 DEF RetryIngestion, TypeOK
  <2> QED BY <1>4, <2>1, <2>2 DEF RetryIngestion, SlotTaken, OpenFiles, Slots, Staged, Referenced
<1>5. ASSUME NEW f \in Files, BecomesDue(f)
      PROVE  SlotsFewer
  <2>1. \A g \in Files : Staged(g)' => Staged(g)
    BY <1>0, <1>5 DEF BecomesDue, Staged, TypeOK
  <2> QED BY <1>5, <2>1 DEF BecomesDue, SlotsFewer, OpenFiles, Slots, Referenced
<1>6. ASSUME NEW k \in Cleaners, ClaimStaleIngestionUploads(k)
      PROVE  SlotsFewer
  <2>1. \A g \in Files : Staged(g)' => Staged(g)
    BY <1>6 DEF ClaimStaleIngestionUploads, Claimed, Oldest, Claimable, Staged
  <2> QED BY <1>6, <2>1 DEF ClaimStaleIngestionUploads, SlotsFewer, OpenFiles, Slots, Referenced
<1>7. ASSUME NEW k \in Cleaners, FinishIngestionUploadCleanup(k)
      PROVE  SlotsFewer
  <2>1. \A g \in Files : Staged(g)' => Staged(g)
    BY <1>0, <1>7 DEF FinishIngestionUploadCleanup, Clear, Staged, TypeOK
  <2> QED BY <1>7, <2>1 DEF FinishIngestionUploadCleanup, SlotsFewer, OpenFiles, Slots, Referenced
<1>8. ASSUME OtherJobs
      PROVE  OthersMove
  BY <1>8 DEF OtherJobs, OthersMove, OpenFiles, Slots, Staged, Referenced
<1>9. CASE UNCHANGED <<row, document, job, others>>
  BY <1>9 DEF SlotsFewer, OpenFiles, Slots, Staged, Referenced
<1> QED
  BY <1>1, <1>2, <1>3, <1>4, <1>5, <1>6, <1>7, <1>8, <1>9
     DEF Next, Upload, RunCleanupBatch, Queue, StoreObject, StoreFails, AbandonUpload, DeleteDocument, DeleteFails,
         StopBatch, vars

\* Only finitely many slots are ever taken, however many keys there are.
SlotsFinite == IsFiniteSet(OpenFiles) /\ IsFiniteSet(Slots)

\* At the start there is none.
LEMMA NoSlotsYet == Init => SlotsFinite
<1> SUFFICES ASSUME Init PROVE SlotsFinite
  OBVIOUS
<1>1. OpenFiles = {} /\ Slots = {}
  BY DEF Init, OpenFiles, Slots, Staged
<1> QED BY <1>1, FS_EmptySet DEF SlotsFinite

\* A step keeps them finite and respects the limit.
LEMMA SlotsRespectLimit ==
  ASSUME IInv, SlotsFinite, [Next]_vars
  PROVE  /\ SlotsFinite'
         /\ Occupied' > Occupied /\ others' = others => Occupied' <= Limit
<1> DEFINE a == Cardinality(OpenFiles)
           b == Cardinality(Slots)
           x == Cardinality(OpenFiles')
           y == Cardinality(Slots')
<1>1. Occupied = (a + others) + b /\ Occupied' = (x + others') + y
  BY DEF Occupied, OpenJobs, OpenFiles, Slots
<1>2. others \in Nat /\ others' \in Nat /\ Limit \in Nat
  BY NextKeepsType, UploadsAssumption DEF IInv, TypeOK
<1>3. CASE SlotsFewer
  <2>1. /\ IsFiniteSet(OpenFiles') /\ a \in Nat /\ x \in Nat /\ x <= a
        /\ IsFiniteSet(Slots') /\ b \in Nat /\ y \in Nat /\ y <= b
    BY <1>3, Fewer DEF SlotsFewer, SlotsFinite
  <2>2. ~(Occupied' > Occupied)
    <3> HIDE DEF a, b, x, y
    <3> QED BY <1>1, <1>2, <1>3, <2>1 DEF SlotsFewer
  <2> QED BY <2>1, <2>2 DEF SlotsFinite
<1>4. CASE SlotTaken
  <2>1. PICK f \in Files : \/ OpenFiles' \subseteq OpenFiles \cup {f} /\ Slots' \subseteq Slots
                           \/ OpenFiles' \subseteq OpenFiles /\ Slots' \subseteq Slots \cup {f}
    BY <1>4 DEF SlotTaken
  <2>2. /\ IsFiniteSet(OpenFiles') /\ a \in Nat /\ x \in Nat
        /\ IsFiniteSet(Slots') /\ b \in Nat /\ y \in Nat
        /\ (x <= a + 1 /\ y <= b) \/ (x <= a /\ y <= b + 1)
    <3>1. CASE OpenFiles' \subseteq OpenFiles \cup {f} /\ Slots' \subseteq Slots
      BY <3>1, Fewer, OneMore DEF SlotsFinite
    <3>2. CASE OpenFiles' \subseteq OpenFiles /\ Slots' \subseteq Slots \cup {f}
      BY <3>2, Fewer, OneMore DEF SlotsFinite
    <3> QED BY <2>1, <3>1, <3>2
  <2>3. Occupied' <= Limit
    <3> HIDE DEF a, b, x, y
    <3>1. others' = others /\ (Occupied < Limit \/ ~(Occupied >= Limit))
      BY <1>4 DEF SlotTaken
    <3> QED BY <1>1, <1>2, <2>2, <3>1
  <2> QED BY <2>2, <2>3 DEF SlotsFinite
<1>5. CASE SlotMoves
  <2>1. PICK f \in Slots : OpenFiles' \subseteq OpenFiles \cup {f} /\ Slots' \subseteq Slots \ {f}
    BY <1>5 DEF SlotMoves
  <2>2. /\ IsFiniteSet(OpenFiles') /\ a \in Nat /\ x \in Nat /\ x <= a + 1
        /\ IsFiniteSet(Slots') /\ b \in Nat /\ y \in Nat /\ y + 1 <= b
    BY <2>1, OneMore, OneLess DEF SlotsFinite
  <2>3. ~(Occupied' > Occupied)
    <3> HIDE DEF a, b, x, y
    <3> QED BY <1>1, <1>2, <1>5, <2>2 DEF SlotMoves
  <2> QED BY <2>2, <2>3 DEF SlotsFinite
<1>6. CASE OthersMove
  <2>1. IsFiniteSet(OpenFiles') /\ IsFiniteSet(Slots')
    BY <1>6, Fewer DEF OthersMove, SlotsFinite
  <2> QED BY <1>6, <2>1 DEF OthersMove, SlotsFinite
<1> QED BY <1>3, <1>4, <1>5, <1>6, SlotSteps

\* Uploads and retries never push the queue above its limit (StageIngestionUpload,
\* RegisterIngestion and RetryIngestion against each other and against rebuilds and purges).
THEOREM UploadsStayWithinLimit == Spec => UploadsRespectLimit
<1> DEFINE Respects == Occupied' > Occupied /\ others' = others => Occupied' <= Limit
<1>1. IInv /\ SlotsFinite /\ [Next]_vars => SlotsFinite' /\ Respects
  BY SlotsRespectLimit
<1> HIDE DEF Respects
<1>2. Spec => [](IInv /\ SlotsFinite)
  BY <1>1, NoSlotsYet, InitEstablishes, NextKeeps, PTL DEF Spec
<1>3. Spec => [][Respects]_vars
  BY <1>1, <1>2, PTL DEF Spec
<1> QED BY <1>3 DEF UploadsRespectLimit, Respects
=============================================================================
