------------------------- MODULE PullPaymentProofs -------------------------
(* What a user pays: theorems for every value of the constants.  The         *)
(* inductive invariant is PaymentInvariant; see its comment in PullService.  *)
EXTENDS PullServiceProofs

\* A row update never leaves the committed statuses nor the returned ones, and
\* makes a row committed only if its operation is charged.
StatusKept ==
  \A k \in Keys :
    /\ row[k].status \in Store!Committed => row'[k].status \in Store!Committed
    /\ row[k].status \in Returned => row'[k].status \in Returned
    /\ row'[k].status \in Store!Committed => row[k].status \in Store!Committed \/ Charged(k)

\* Debits and credits are never taken back.
EntriesKept == debits \subseteq debits' /\ credits \subseteq credits'

\* Whatever update one row gets, the others keep their status.
LEMMA OneRow ==
  ASSUME StoreOK, NEW k \in Keys, NEW r, row' = [row EXCEPT ![k] = r],
         \/ r.status = row[k].status
         \/ /\ row[k].status \in {"absent", "processing"}
            /\ r.status \in Store!Committed => Charged(k)
         \/ row[k].status \in Store!Committed /\ r.status \in Store!Committed
         \/ row[k].status \in Returned /\ r.status \in Returned
  PROVE  StatusKept
<1> SUFFICES ASSUME NEW l \in Keys
             PROVE  /\ row[l].status \in Store!Committed => row'[l].status \in Store!Committed
                    /\ row[l].status \in Returned => row'[l].status \in Returned
                    /\ row'[l].status \in Store!Committed =>
                         row[l].status \in Store!Committed \/ Charged(l)
  BY DEF StatusKept
<1>1. CASE l = k
  <2>1. row'[l] = r
    BY <1>1 DEF StoreOK
  <2> QED BY <1>1, <2>1 DEF Store!Committed, Returned
<1>2. CASE l # k
  <2>1. row'[l] = row[l]
    BY <1>2 DEF StoreOK
  <2> QED BY <2>1
<1> QED BY <1>1, <1>2

\* The status each update writes.
LEMMA RowStatus ==
  ASSUME NEW r \in Store!Rows
  PROVE  /\ \A h \in Hashes, w \in Workers, c \in Contexts :
              Store!Inserted(h, w, c).status = "processing"
         /\ \A w, c : Store!Claimed(r, w, c).status = r.status
         /\ \A w : Store!Reclaimed(r, w).status = r.status
         /\ \A s, p : Store!Transitioned(r, s, p).status = s
         /\ \A s, p : Store!Updated(r, s, p).status = s
         /\ Store!Locked(r).status = r.status
         /\ Store!Released(r).status = r.status
BY DEF Store!Rows, Store!Inserted, Store!Absent, Store!Claimed, Store!Reclaimed,
       Store!Transitioned, Store!Updated, Store!Locked, Store!Released

\* The third conjunct of PaymentInvariant, for one worker with a job.
LEMMA Known ==
  ASSUME TypeOK, PaymentInvariant, NEW w \in Workers, pc[w] # "idle"
  PROVE  /\ job[w].key \in Keys /\ row[job[w].key] \in Store!Rows
         /\ Grounded(pc[w], job[w].key)
BY JobRow DEF TypeOK, PaymentInvariant, JobsGrounded

\* Every step keeps what rows say of committed and returned operations.
LEMMA StatusStep ==
  ASSUME TypeOK, PaymentInvariant, [Next]_vars
  PROVE  StatusKept
<1> StoreOK /\ LocalOK
  BY DEF TypeOK
<1>1. CASE UNCHANGED row
  BY <1>1 DEF StatusKept
<1>2. ASSUME NEW c \in Clients, NEW acked \in Acks, Insert(c, acked) PROVE StatusKept
  <2> DEFINE k == job[c].key
  <2>1. pc[c] = "insert" /\ c \in Workers
    BY <1>2 DEF Insert, Workers
  <2>2. k \in Keys /\ job[c].hash \in Hashes /\ job[c].ctx \in Contexts
    BY <2>1, JobRow, Prepared DEF WithContext
  <2>3. CASE row[k] = Store!Absent /\
             row' = [row EXCEPT ![k] = Store!Inserted(job[c].hash, c, job[c].ctx)]
    <3>1. row[k].status = "absent"
      BY <2>3 DEF Store!Absent
    <3>2. Store!Inserted(job[c].hash, c, job[c].ctx).status = "processing"
      BY <2>1, <2>2, RowStatus DEF StoreOK
    <3> QED BY <2>2, <2>3, <3>1, <3>2, OneRow DEF Store!Committed
  <2> QED BY <1>1, <1>2, <2>3 DEF Insert
<1>3. ASSUME NEW c \in Clients, NEW acked \in Acks, Claim(c, acked) PROVE StatusKept
  <2> DEFINE k == job[c].key
             claimed == Store!Claimed(row[k], c, job[c].ctx)
  <2>1. pc[c] = "claim" /\ c \in Workers
    BY <1>3 DEF Claim, Workers
  <2>2. k \in Keys /\ row[k] \in Store!Rows
    BY <2>1, JobRow
  <2>3. row' = [row EXCEPT ![k] = claimed] \/ UNCHANGED row
    BY <1>3 DEF Claim
  <2>4. claimed.status = row[k].status
    BY <2>2, RowStatus
  <2> HIDE DEF k, claimed
  <2> QED BY <1>1, <2>2, <2>3, <2>4, OneRow
<1>4. ASSUME NEW w \in Workers, MarkFailed(w) PROVE StatusKept
  <2> DEFINE k == job[w].key
             new == Store!Transitioned(row[k], "failed", None)
  <2>1. k \in Keys /\ row[k] \in Store!Rows
    BY <1>4, JobRow DEF MarkFailed
  <2>2. UNCHANGED row \/ (row[k].status = "processing" /\ row' = [row EXCEPT ![k] = new])
    BY <1>4 DEF MarkFailed, Store!OwnedBy
  <2>3. new.status = "failed"
    BY <2>1, RowStatus
  <2> HIDE DEF k, new
  <2> QED BY <1>1, <2>1, <2>2, <2>3, OneRow DEF Store!Committed
<1>5. ASSUME NEW w \in Workers, NEW acked \in Acks, Commit(w, acked) PROVE StatusKept
  <2> DEFINE k == job[w].key
             new == Store!Updated(row[k], "event_pending", job[w].resp)
  <2>1. k \in Keys /\ row[k] \in Store!Rows /\ Charged(k)
    BY <1>5, Known DEF Commit, Grounded
  <2>2. UNCHANGED row \/ (row[k].status = "processing" /\ row' = [row EXCEPT ![k] = new])
    BY <1>5 DEF Commit, Store!OwnedBy, db
  <2>3. new.status = "event_pending"
    BY <2>1, RowStatus
  <2> HIDE DEF k, new
  <2> QED BY <1>1, <2>1, <2>2, <2>3, OneRow
<1>6. ASSUME NEW w \in Workers, Save(w) \/ Confirm(w) PROVE StatusKept
  <2> DEFINE k == job[w].key
  <2>1. k \in Keys /\ row[k] \in Store!Rows /\ row[k].status \in Store!Committed
    BY <1>6, Known DEF Save, Confirm, Grounded, Delivering
  <2>2. PICK s, p : /\ s \in {"event_published", "succeeded"}
                    /\ Written(k, Store!Updated(row[k], s, p))
    BY <1>6 DEF Save, Confirm
  <2>3. Store!Updated(row[k], s, p).status = s
    BY <2>1, RowStatus
  <2>4. s \in Store!Committed
    BY <2>2 DEF Store!Committed
  <2>5. UNCHANGED row \/ row' = [row EXCEPT ![k] = Store!Updated(row[k], s, p)]
    BY <2>2 DEF Written
  <2> HIDE DEF k
  <2> QED BY <1>1, <2>1, <2>3, <2>4, <2>5, OneRow
<1>7. ASSUME NEW w \in Workers, Close(w) PROVE StatusKept
  <2> DEFINE k == job[w].key
             new == Store!Updated(row[k], "failed", None)
  <2>1. k \in Keys /\ row[k] \in Store!Rows /\ row[k].status \in Returned
    BY <1>7, Known DEF Close, Grounded, Refunding
  <2>2. UNCHANGED row \/ row' = [row EXCEPT ![k] = new]
    BY <1>7 DEF Close, Written
  <2>3. new.status = "failed" /\ "failed" \in Returned
    BY <2>1, RowStatus DEF Returned
  <2> HIDE DEF k, new
  <2> QED BY <1>1, <2>1, <2>2, <2>3, OneRow
<1>8. ASSUME NEW v \in Recoverers, NEW x \in batch[v], NEW acked \in Acks,
             Reclaim(v, x, acked) \/ LockRow(v, x, acked)
      PROVE  StatusKept
  <2> DEFINE k == x.job.key
  <2>1. k \in Keys /\ row[k] \in Store!Rows
    BY DEF Workers, LocalOK, Records, Jobs, StoreOK
  <2>2. \/ UNCHANGED row
        \/ row' = [row EXCEPT ![k] = Store!Reclaimed(row[k], v)]
        \/ row' = [row EXCEPT ![k] = Store!Locked(row[k])]
    BY <1>8 DEF Reclaim, LockRow
  <2>3. /\ Store!Reclaimed(row[k], v).status = row[k].status
        /\ Store!Locked(row[k]).status = row[k].status
    BY <2>1, RowStatus
  <2> HIDE DEF k
  <2> QED BY <1>1, <2>1, <2>2, <2>3, OneRow
<1>9. ASSUME NEW v \in Recoverers, Release(v) PROVE StatusKept
  <2> DEFINE k == job[v].key
  <2>1. k \in Keys /\ row[k] \in Store!Rows
    BY <1>9, JobRow DEF Release, Workers
  <2>2. row' = [row EXCEPT ![k] = Store!Released(row[k])]
    BY <1>9 DEF Release
  <2>3. Store!Released(row[k]).status = row[k].status
    BY <2>1, RowStatus
  <2> HIDE DEF k
  <2> QED BY <2>1, <2>2, <2>3, OneRow
<1>10. ASSUME NEW k \in Keys, ExpireLease(k) \/ ExpireLock(k) PROVE StatusKept
  <2>1. row[k] \in Store!Rows
    BY DEF StoreOK
  <2>2. \/ row' = [row EXCEPT ![k] = [row[k] EXCEPT !.leased = FALSE]]
        \/ row' = [row EXCEPT ![k] = [row[k] EXCEPT !.locked = FALSE]]
    BY <1>10 DEF ExpireLease, ExpireLock
  <2>3. /\ [row[k] EXCEPT !.leased = FALSE].status = row[k].status
        /\ [row[k] EXCEPT !.locked = FALSE].status = row[k].status
    BY <2>1 DEF Store!Rows
  <2> QED BY <2>2, <2>3, OneRow
<1>11. ASSUME NEW c \in Clients, ClientStep(c) PROVE StatusKept
  BY <1>1, <1>2, <1>3, <1>11 DEF ClientStep, Request, Poll, Lookup, Select, db
<1>12. ASSUME NEW w \in Workers, Execute(w) PROVE StatusKept
  BY <1>1, <1>4, <1>5, <1>6, <1>7, <1>12
     DEF Execute, SpendOk, SpendRejected, SpendUnknown, ReadPity, DrawFails, Reconcile, Publish,
         PublishFails, Refund, RefundFails, StoreError, Crash, db
<1>13. ASSUME NEW v \in Recoverers, RecoveryStep(v) PROVE StatusKept
  BY <1>1, <1>6, <1>8, <1>9, <1>13
     DEF RecoveryStep, Workers, Scan, ScanError, Receipt, ReceiptFails, db
<1>14. CASE Environment
  BY <1>1, <1>10, <1>14 DEF Environment, LateSpend, Apply, TopUp, db
<1>15. CASE UNCHANGED vars
  BY <1>1, <1>15 DEF vars
<1> QED BY <1>11, <1>12, <1>13, <1>14, <1>15 DEF Next

\* No step takes an entry back.
LEMMA EntriesStep ==
  ASSUME [Next]_vars
  PROVE  EntriesKept
<1>1. ASSUME NEW c \in Clients, ClientStep(c) PROVE EntriesKept
  BY <1>1 DEF EntriesKept, ClientStep, Request, Poll, Lookup, Insert, Claim, Select, asset
<1>2. ASSUME NEW w \in Workers, Execute(w) PROVE EntriesKept
  BY <1>2
     DEF EntriesKept, Execute, SpendOk, SpendRejected, SpendUnknown, Charge, Unanswered,
         MarkFailed, ReadPity, DrawFails, Commit, Reconcile, Publish, PublishFails, Save,
         Refund, RefundFails, Close, StoreError, Crash, asset
<1>3. ASSUME NEW v \in Recoverers, RecoveryStep(v) PROVE EntriesKept
  BY <1>3
     DEF EntriesKept, RecoveryStep, Scan, ScanError, Reclaim, LockRow, Receipt,
         ReceiptFails, Confirm, Release, asset
<1>4. CASE Environment
  BY <1>4
     DEF EntriesKept, Environment, ExpireLease, ExpireLock, LateSpend, Charge, TopUp,
         Apply, asset
<1>5. CASE UNCHANGED vars
  BY <1>5 DEF EntriesKept, vars
<1> QED BY <1>1, <1>2, <1>3, <1>4, <1>5 DEF Next

\* What is known about an operation stays true.
LEMMA GroundedKept ==
  ASSUME StatusKept, EntriesKept, NEW k \in Keys, NEW l, Grounded(l, k)
  PROVE  Grounded(l, k)'
BY DEF StatusKept, EntriesKept, Grounded, Charged

\* A step at which nothing needs to be known.
Free(l) == l \notin {"read", "commit"} \cup Delivering \cup Refunding

\* A worker stays where it is, or moves to a step l on operation k that needs
\* no ground or has it.
LEMMA StaysGrounded ==
  ASSUME TypeOK, PaymentInvariant, StatusKept, EntriesKept,
         NEW u \in Workers, NEW l, NEW k, pc'[u] = l, job'[u].key = k,
         \/ UNCHANGED <<pc[u], job[u]>>
         \/ Free(l)
         \/ k \in Keys /\ Grounded(l, k)
         \/ Grounded(l, k)'
  PROVE  Grounded(pc[u], job[u].key)'
<1>1. CASE UNCHANGED <<pc[u], job[u]>>
  <2>1. CASE pc[u] = "idle"
    BY <1>1, <2>1 DEF Grounded, Delivering, Refunding
  <2>2. CASE pc[u] # "idle"
    <3>1. k \in Keys /\ Grounded(l, k)
      BY <1>1, <2>2, Known
    <3>2. Grounded(l, k)'
      BY <3>1, GroundedKept
    <3> QED BY <3>2 DEF Grounded, Charged
  <2> QED BY <2>1, <2>2
<1>2. CASE Free(l)
  BY <1>2 DEF Free, Grounded
<1>3. CASE k \in Keys /\ Grounded(l, k)
  <2>1. Grounded(l, k)'
    BY <1>3, GroundedKept
  <2> QED BY <2>1 DEF Grounded, Charged
<1>4. CASE Grounded(l, k)'
  BY <1>4 DEF Grounded, Charged
<1> QED BY <1>1, <1>2, <1>3, <1>4

\* The same for all workers after a step of one of them.
LEMMA OneWorker ==
  ASSUME TypeOK, PaymentInvariant, StatusKept, EntriesKept,
         NEW w \in Workers, NEW l, NEW j,
         pc' = [pc EXCEPT ![w] = l], job' = [job EXCEPT ![w] = j],
         \/ Free(l)
         \/ j.key \in Keys /\ Grounded(l, j.key)
         \/ Grounded(l, j.key)'
  PROVE  JobsGrounded'
<1> SUFFICES ASSUME NEW u \in Workers PROVE Grounded(pc[u], job[u].key)'
  BY DEF JobsGrounded
<1>1. CASE u = w
  <2>1. pc'[u] = l /\ job'[u].key = j.key
    BY <1>1 DEF TypeOK, LocalOK
  <2> QED BY <2>1, StaysGrounded
<1>2. CASE u # w
  <2>1. UNCHANGED <<pc[u], job[u]>>
    BY <1>2 DEF TypeOK, LocalOK
  <2> QED BY <2>1, StaysGrounded
<1> QED BY <1>1, <1>2

\* A worker that finishes, or goes on where it needs no more than it knows.
LEMMA MoveGrounded ==
  ASSUME TypeOK, PaymentInvariant, StatusKept, EntriesKept, NEW w \in Workers,
         \/ UNCHANGED <<pc, job>>
         \/ Finish(w) \/ Leave(w)
         \/ \E l \in Steps : Goto(w, l) /\ Free(l)
         \/ \E l \in Steps : /\ Goto(w, l) /\ pc[w] # "idle"
                             /\ Grounded(l, job[w].key) \/ Grounded(l, job[w].key)'
  PROVE  JobsGrounded'
<1>1. CASE UNCHANGED <<pc, job>>
  BY <1>1, StaysGrounded DEF JobsGrounded
<1>2. Free("idle") /\ Free("release") /\ "release" \in Steps
  BY DEF Free, Delivering, Refunding, Steps
<1>3. CASE Finish(w)
  BY <1>2, <1>3, OneWorker DEF Finish
<1>4. ASSUME NEW l \in Steps, Goto(w, l),
             \/ Free(l)
             \/ pc[w] # "idle" /\ (Grounded(l, job[w].key) \/ Grounded(l, job[w].key)')
      PROVE  JobsGrounded'
  <2> DEFINE j == job[w]
  <2>1. pc' = [pc EXCEPT ![w] = l] /\ job' = [job EXCEPT ![w] = j]
    BY <1>4 DEF Goto, TypeOK, LocalOK
  <2>2. job'[w] = job[w]
    BY <1>4 DEF Goto
  <2>3. \/ Free(l)
        \/ j.key \in Keys /\ Grounded(l, j.key)
        \/ /\ l \in {"read", "commit"} => Charged(j.key)'
           /\ l \in Delivering => row'[j.key].status \in Store!Committed
           /\ l \in Refunding => row'[j.key].status \in Returned
    BY <1>4, <2>2, Known DEF Grounded, Charged
  <2> QED BY <2>1, <2>2, <2>3, OneWorker DEF Grounded, Charged
<1> QED BY <1>1, <1>2, <1>3, <1>4 DEF Leave

\* A handler that goes on from what the row says knows it from the row.
LEMMA ExistingGrounded ==
  ASSUME TypeOK, PaymentInvariant, StatusKept, EntriesKept, NEW w \in Workers,
         pc[w] # "idle", Existing(w, row[job[w].key])
  PROVE  JobsGrounded'
<1> DEFINE k == job[w].key
<1>1. k \in Keys /\ job[w] \in Jobs
  BY JobRow DEF TypeOK
<1>2. CASE Finish(w)
  BY <1>2, MoveGrounded
<1>3. ASSUME NEW l \in {"publish", "refund"}, Grounded(l, k), Resume(w, l, row[k])
      PROVE  JobsGrounded'
  <2> DEFINE j == [job[w] EXCEPT !.resp = row[k].resp]
  <2>1. pc' = [pc EXCEPT ![w] = l] /\ job' = [job EXCEPT ![w] = j]
    BY <1>3 DEF Resume
  <2>2. j.key = k
    BY <1>1 DEF Jobs
  <2> HIDE DEF j
  <2> QED BY <1>1, <1>3, <2>1, <2>2, OneWorker
<1>4. /\ row[k].status = "event_pending" => Grounded("publish", k)
      /\ row[k].status = "refund_pending" => Grounded("refund", k)
  BY DEF Grounded, Delivering, Refunding, Returned, Store!Committed
<1> QED BY <1>2, <1>3, <1>4 DEF Existing, Answer

\* Whatever a worker does next, it knows what the step it comes to needs.
LEMMA JobsStep ==
  ASSUME TypeOK, PaymentInvariant, [Next]_vars
  PROVE  JobsGrounded'
<1> StatusKept /\ EntriesKept
  BY StatusStep, EntriesStep
<1> USE DEF Free, Delivering, Refunding, Steps
<1>1. ASSUME NEW c \in Clients, ClientStep(c) PROVE JobsGrounded'
  <2> c \in Workers
    BY DEF Workers
  <2>1. ASSUME NEW k \in Keys, NEW h \in Hashes, Request(c, k, h) PROVE JobsGrounded'
    <3>1. PICK l \in {"insert", "lookup"} :
            \E j : pc' = [pc EXCEPT ![c] = l] /\ job' = [job EXCEPT ![c] = j]
      BY <2>1 DEF Request
    <3>2. Free(l)
      OBVIOUS
    <3> QED BY <3>1, <3>2, OneWorker
  <2>2. CASE Lookup(c)
    <3>1. pc[c] # "idle"
      BY <2>2 DEF Lookup
    <3>2. CASE Finish(c)
      BY <3>2, MoveGrounded
    <3>3. CASE Existing(c, row[job[c].key])
      BY <3>1, <3>3, ExistingGrounded
    <3>4. ASSUME NEW x, pc' = [pc EXCEPT ![c] = "insert"],
                 job' = [job EXCEPT ![c] = x]
          PROVE  JobsGrounded'
      BY <3>4, OneWorker
    <3> QED BY <2>2, <3>2, <3>3, <3>4 DEF Lookup
  <2>3. ASSUME NEW acked \in Acks, Insert(c, acked) \/ Claim(c, acked) PROVE JobsGrounded'
    <3>1. CASE Finish(c) \/ \E l \in {"spend", "claim", "select"} : Goto(c, l)
      BY <3>1, MoveGrounded
    <3>2. ASSUME NEW x, pc' = [pc EXCEPT ![c] = "spend"],
                 job' = [job EXCEPT ![c] = x]
          PROVE  JobsGrounded'
      BY <3>2, OneWorker
    <3> QED BY <2>3, <3>1, <3>2 DEF Insert, Claim
  <2>4. CASE Select(c)
    BY <2>4, ExistingGrounded DEF Select
  <2>5. ASSUME NEW k \in Keys, Poll(c, k) PROVE JobsGrounded'
    BY <2>5, MoveGrounded DEF Poll, local
  <2> QED BY <1>1, <2>1, <2>2, <2>3, <2>4, <2>5 DEF ClientStep
<1>2. ASSUME NEW w \in Workers, Execute(w) PROVE JobsGrounded'
  <2>1. CASE SpendOk(w)
    <3>1. pc[w] = "spend" /\ Goto(w, "read")
      BY <2>1 DEF SpendOk
    <3>2. Charged(job[w].key)'
      BY <2>1, <3>1 DEF SpendOk, Charge, Debit, Charged, Goto
    <3> QED BY <3>1, <3>2, MoveGrounded DEF Grounded
  <2>2. CASE ReadPity(w)
    <3> DEFINE j == [job[w] EXCEPT !.resp = Draw(w)]
    <3>1. pc' = [pc EXCEPT ![w] = "commit"] /\ job' = [job EXCEPT ![w] = j]
      BY <2>2 DEF ReadPity
    <3>2. /\ pc[w] = "read" /\ job[w] \in Jobs /\ job[w].key \in Keys
          /\ Grounded("read", job[w].key)
      BY <2>2, Known, JobRow DEF ReadPity, TypeOK
    <3>3. j.key = job[w].key
      BY <3>2 DEF Jobs
    <3> HIDE DEF j
    <3>4. j.key \in Keys /\ Grounded("commit", j.key)
      BY <3>2, <3>3 DEF Grounded
    <3> QED BY <3>1, <3>4, OneWorker
  <2>3. ASSUME NEW acked \in Acks, Commit(w, acked) PROVE JobsGrounded'
    <3> DEFINE k == job[w].key
               new == Store!Updated(row[k], "event_pending", job[w].resp)
    <3>1. /\ pc[w] = "commit" /\ job[w] \in Jobs /\ k \in Keys
          /\ row[k] \in Store!Rows /\ Grounded("commit", k)
      BY <2>3, Known, JobRow DEF Commit, TypeOK
    <3>2. CASE Finish(w)
      BY <3>2, MoveGrounded
    <3>3. CASE Conflict(w)
      <4> DEFINE j == [job[w] EXCEPT !.resp = None]
      <4>1. CASE pc' = [pc EXCEPT ![w] = "read"] /\ job' = [job EXCEPT ![w] = j]
        <5>1. j.key = k
          BY <3>1 DEF Jobs
        <5> HIDE DEF j
        <5>2. j.key \in Keys /\ Grounded("read", j.key)
          BY <3>1, <5>1 DEF Grounded
        <5> QED BY <4>1, <5>2, OneWorker
      <4> QED BY <3>2, <3>3, <4>1 DEF Conflict
    <3>4. CASE row' = [row EXCEPT ![k] = new] /\ Goto(w, IF acked THEN "publish" ELSE "reconcile")
      <4>1. row'[k] = new /\ new.status = "event_pending"
        BY <3>1, <3>4, RowStatus DEF TypeOK, StoreOK
      <4>2. row'[k].status \in Store!Committed /\ job' = job
        BY <3>4, <4>1 DEF Store!Committed, Goto
      <4>3. Grounded("publish", job[w].key)'
        BY <4>2 DEF Grounded
      <4> QED BY <3>1, <3>4, <4>3, MoveGrounded
    <3> QED BY <2>3, <3>2, <3>3, <3>4 DEF Commit
  <2>4. CASE Reconcile(w)
    BY <2>4, ExistingGrounded DEF Reconcile
  <2>5. CASE Publish(w)
    <3>1. CASE pc[w] = "publish" /\ Goto(w, "save")
      BY <3>1, Known, MoveGrounded DEF Grounded
    <3>2. CASE Goto(w, "release")
      BY <3>2, MoveGrounded
    <3> QED BY <2>5, <3>1, <3>2 DEF Publish
  <2>6. CASE Refund(w)
    <3>1. pc[w] = "refund" /\ Goto(w, "close")
      BY <2>6 DEF Refund
    <3> QED BY <3>1, Known, MoveGrounded DEF Grounded
  <2>7. CASE Crash(w)
    <3>1. pc' = [pc EXCEPT ![w] = "idle"] /\ job' = [job EXCEPT ![w] = NoJob]
      BY <2>7 DEF Crash
    <3> QED BY <3>1, OneWorker
  <2>8. CASE Finish(w) \/ Leave(w) \/ \E l \in {"fail", "reconcile", "release"} : Goto(w, l)
    BY <2>8, MoveGrounded
  <2>9. CASE Conclude(w)
    BY <2>8, <2>9 DEF Conclude, Answer
  <2>10. CASE StoreError(w)
    BY <2>8, <2>9, <2>10 DEF StoreError
  <2>11. CASE SpendRejected(w) \/ SpendUnknown(w) \/ MarkFailed(w) \/ DrawFails(w)
    BY <2>8, <2>11 DEF SpendRejected, SpendUnknown, MarkFailed, DrawFails
  <2>12. CASE PublishFails(w) \/ Save(w) \/ RefundFails(w) \/ Close(w)
    BY <2>8, <2>9, <2>12 DEF PublishFails, Save, RefundFails, Close
  <2> QED
    BY <1>2, <2>1, <2>2, <2>3, <2>4, <2>5, <2>6, <2>7, <2>10, <2>11, <2>12 DEF Execute
<1>3. ASSUME NEW v \in Recoverers, RecoveryStep(v) PROVE JobsGrounded'
  <2> v \in Workers
    BY DEF Workers
  <2>1. ASSUME NEW x \in batch[v], NEW acked \in Acks, Reclaim(v, x, acked) PROVE JobsGrounded'
    <3>1. ASSUME NEW j, pc' = [pc EXCEPT ![v] = "spend"],
                 job' = [job EXCEPT ![v] = j]
          PROVE  JobsGrounded'
      BY <3>1, OneWorker
    <3> QED BY <2>1, <3>1, MoveGrounded DEF Reclaim
  <2>2. ASSUME NEW x \in batch[v], NEW acked \in Acks, LockRow(v, x, acked) PROVE JobsGrounded'
    <3> DEFINE l == FirstStep(x.status)
    <3>1. CASE UNCHANGED <<pc, job>>
      BY <3>1, MoveGrounded
    <3>2. CASE /\ Store!Lockable(row[x.job.key], x.status)
               /\ pc' = [pc EXCEPT ![v] = l] /\ job' = [job EXCEPT ![v] = x.job]
      <4>1. x.job.key \in Keys
        BY DEF TypeOK, LocalOK, Records, Jobs
      <4>2. Grounded(l, x.job.key)
        BY <3>2 DEF Store!Lockable, PaymentInvariant, RecordsGrounded
      <4> HIDE DEF l
      <4> QED BY <3>2, <4>1, <4>2, OneWorker
    <3> QED BY <2>2, <3>1, <3>2 DEF LockRow
  <2>3. CASE Receipt(v)
    <3>1. PICK l \in {"confirm", "republish"} : pc[v] = "receipt" /\ Goto(v, l)
      BY <2>3 DEF Receipt
    <3>2. Grounded(l, job[v].key)
      BY <3>1, Known DEF Grounded
    <3> QED BY <3>1, <3>2, MoveGrounded
  <2>4. CASE UNCHANGED <<pc, job>> \/ Finish(v) \/ Goto(v, "release")
    BY <2>4, MoveGrounded
  <2> QED
    BY <1>3, <2>1, <2>2, <2>3, <2>4
       DEF RecoveryStep, Scan, ScanError, ReceiptFails, Confirm, Release
<1>4. ASSUME UNCHANGED <<pc, job>> PROVE JobsGrounded'
  BY <1>4, StaysGrounded DEF JobsGrounded
<1>5. CASE Environment
  BY <1>4, <1>5 DEF Environment, ExpireLease, ExpireLock, LateSpend, Apply, TopUp, local
<1>6. CASE UNCHANGED vars
  BY <1>4, <1>6 DEF vars
<1> QED BY <1>1, <1>2, <1>3, <1>5, <1>6 DEF Next

\* The records of a scan say what was true when they were read, and still is.
LEMMA RecordsStep ==
  ASSUME TypeOK, PaymentInvariant, [Next]_vars
  PROVE  RecordsGrounded'
<1> StatusKept /\ EntriesKept
  BY StatusStep, EntriesStep
<1>1. ASSUME \A w \in Workers : batch'[w] \subseteq batch[w] PROVE RecordsGrounded'
  <2> SUFFICES ASSUME NEW w \in Workers, NEW x \in batch[w], x.status \in Store!Recoverable
               PROVE  Grounded(FirstStep(x.status), x.job.key)'
    BY <1>1 DEF RecordsGrounded
  <2> DEFINE k == x.job.key
             l == FirstStep(x.status)
  <2>1. k \in Keys /\ Grounded(l, k)
    BY DEF TypeOK, LocalOK, Records, Jobs, PaymentInvariant, RecordsGrounded
  <2> HIDE DEF l
  <2>2. Grounded(l, k)'
    BY <2>1, GroundedKept
  <2> QED BY <2>2 DEF l
<1>2. ASSUME NEW v \in Recoverers, Scan(v) PROVE RecordsGrounded'
  <2> DEFINE found == {Record(k) : k \in {l \in Keys : Due(NextPhase(phase[v]), row[l])}}
  <2>1. v \in Workers /\ batch[v] = {} /\ batch' = [batch EXCEPT ![v] = found]
        /\ UNCHANGED <<db, asset>>
    BY <1>2 DEF Scan, Workers
  <2> HIDE DEF found
  <2> SUFFICES ASSUME NEW w \in Workers, NEW x \in batch'[w], x.status \in Store!Recoverable
               PROVE  Grounded(FirstStep(x.status), x.job.key)'
    BY DEF RecordsGrounded
  <2>2. CASE w = v
    <3>1. x \in found
      BY <2>1, <2>2 DEF TypeOK, LocalOK
    <3>2. PICK k \in Keys : x = Record(k)
      BY <3>1 DEF found
    <3>3. x.status = row[k].status /\ x.job.key = k
      BY <3>2 DEF Record
    <3>4. Grounded(FirstStep(x.status), k)
      BY <3>3 DEF Store!Recoverable, FirstStep, Grounded, Delivering, Refunding,
                  Returned, Store!Committed
    <3> QED BY <2>1, <3>3, <3>4 DEF Grounded, Charged, db, asset
  <2>3. CASE w # v
    <3>1. x \in batch[w]
      BY <2>1, <2>3 DEF TypeOK, LocalOK
    <3>2. Grounded(FirstStep(x.status), x.job.key)
      BY <3>1 DEF PaymentInvariant, RecordsGrounded
    <3> QED BY <2>1, <3>2 DEF Grounded, Charged, db, asset
  <2> QED BY <2>2, <2>3
<1>3. ASSUME NEW w \in Workers, NEW b \in SUBSET batch[w],
             batch' = [batch EXCEPT ![w] = b]
      PROVE  RecordsGrounded'
  BY <1>1, <1>3 DEF TypeOK, LocalOK
<1>4. ASSUME UNCHANGED batch PROVE RecordsGrounded'
  BY <1>1, <1>4
<1>5. ASSUME NEW c \in Clients, ClientStep(c) PROVE RecordsGrounded'
  BY <1>4, <1>5
     DEF ClientStep, Request, Poll, Lookup, Insert, Claim, Select, Existing, Answer, Resume,
         Goto, Finish, local
<1>6. ASSUME NEW w \in Workers, Execute(w) PROVE RecordsGrounded'
  <2>1. CASE Crash(w)
    BY <1>3, <2>1 DEF Crash
  <2>2. CASE Finish(w) \/ Leave(w) \/ \E l : Goto(w, l)
    BY <1>4, <2>2 DEF Finish, Leave, Goto
  <2>3. CASE Conclude(w)
    BY <2>2, <2>3 DEF Conclude, Answer
  <2>4. CASE StoreError(w)
    BY <2>2, <2>3, <2>4 DEF StoreError
  <2>5. CASE SpendOk(w) \/ SpendRejected(w) \/ SpendUnknown(w) \/ MarkFailed(w)
    BY <2>2, <2>5 DEF SpendOk, SpendRejected, SpendUnknown, MarkFailed
  <2>6. CASE ReadPity(w) \/ DrawFails(w) \/ Reconcile(w)
    BY <1>4, <2>6 DEF ReadPity, DrawFails, Reconcile, Existing, Answer, Resume, Finish
  <2>7. ASSUME NEW acked \in Acks, Commit(w, acked) PROVE RecordsGrounded'
    BY <1>4, <2>7 DEF Commit, Conflict, Goto, Finish
  <2>8. CASE Publish(w) \/ PublishFails(w) \/ Save(w)
    BY <2>2, <2>3, <2>8 DEF Publish, PublishFails, Save
  <2>9. CASE Refund(w) \/ RefundFails(w) \/ Close(w)
    BY <2>2, <2>9 DEF Refund, RefundFails, Close
  <2> QED BY <1>6, <2>1, <2>4, <2>5, <2>6, <2>7, <2>8, <2>9 DEF Execute
<1>7. ASSUME NEW v \in Recoverers, RecoveryStep(v) PROVE RecordsGrounded'
  <2> v \in Workers
    BY DEF Workers
  <2>1. CASE ScanError(v)
    BY <1>3, <1>4, <2>1 DEF ScanError
  <2>2. ASSUME NEW x \in batch[v], NEW acked \in Acks,
               Reclaim(v, x, acked) \/ LockRow(v, x, acked)
        PROVE  RecordsGrounded'
    BY <1>3, <2>2 DEF Reclaim, LockRow
  <2>3. CASE Receipt(v) \/ ReceiptFails(v) \/ Confirm(v) \/ Release(v)
    BY <1>4, <2>3 DEF Receipt, ReceiptFails, Confirm, Release, Goto, Finish
  <2> QED BY <1>2, <1>7, <2>1, <2>2, <2>3 DEF RecoveryStep
<1>8. CASE Environment
  BY <1>4, <1>8 DEF Environment, ExpireLease, ExpireLock, LateSpend, Apply, TopUp, local
<1>9. CASE UNCHANGED vars
  BY <1>4, <1>9 DEF vars
<1> QED BY <1>5, <1>6, <1>7, <1>8, <1>9 DEF Next

\* A credit appears only for an operation that can no longer be drawn.
LEMMA RefundStep ==
  ASSUME TypeOK, PaymentInvariant, [Next]_vars
  PROVE  RefundedIsReturned'
<1> StatusKept
  BY StatusStep
<1>1. ASSUME \A d \in credits' : d \in credits \/ (d.op \in Keys => row'[d.op].status \in Returned)
      PROVE  RefundedIsReturned'
  BY <1>1 DEF RefundedIsReturned, Refunded, PaymentInvariant, StatusKept
<1>2. ASSUME UNCHANGED credits PROVE RefundedIsReturned'
  BY <1>1, <1>2
<1>3. ASSUME NEW c \in Clients, ClientStep(c) PROVE RefundedIsReturned'
  BY <1>2, <1>3 DEF ClientStep, Request, Poll, Lookup, Insert, Claim, Select, asset
<1>4. ASSUME NEW w \in Workers, Execute(w) PROVE RefundedIsReturned'
  <2>1. ASSUME pc[w] = "refund", UNCHANGED row,
               credits' \subseteq credits \cup {[op |-> job[w].key, key |-> RefundKey(w)]}
        PROVE  RefundedIsReturned'
    <3>1. row[job[w].key].status \in Returned
      BY <2>1, Known DEF Grounded, Refunding
    <3> QED BY <1>1, <2>1, <3>1
  <2>2. CASE Refund(w)
    BY <2>1, <2>2 DEF Refund, db
  <2>3. CASE RefundFails(w)
    BY <2>1, <2>3 DEF RefundFails, db
  <2> QED
    BY <1>2, <1>4, <2>2, <2>3
       DEF Execute, SpendOk, SpendRejected, SpendUnknown, MarkFailed, ReadPity, DrawFails, Commit,
           Reconcile, Publish, PublishFails, Save, Close, StoreError, Crash, asset
<1>5. ASSUME NEW v \in Recoverers, RecoveryStep(v) PROVE RefundedIsReturned'
  BY <1>2, <1>5
     DEF RecoveryStep, Scan, ScanError, Reclaim, LockRow, Receipt, ReceiptFails,
         Confirm, Release, asset
<1>6. CASE Environment
  BY <1>2, <1>6
     DEF Environment, ExpireLease, ExpireLock, LateSpend, TopUp, Apply, asset
<1>7. CASE UNCHANGED vars
  BY <1>2, <1>7 DEF vars
<1> QED BY <1>3, <1>4, <1>5, <1>6, <1>7 DEF Next

\* Debits, credits and late requests carry the key of their operation.
LEMMA KeysStep ==
  ASSUME TypeOK, PaymentInvariant, [Next]_vars
  PROVE  KeysMatch'
<1> KeysMatch
  BY DEF PaymentInvariant
<1>1. ASSUME UNCHANGED <<debits, credits, late>> PROVE KeysMatch'
  BY <1>1 DEF KeysMatch
<1>2. ASSUME NEW c \in Clients, ClientStep(c) PROVE KeysMatch'
  BY <1>1, <1>2 DEF ClientStep, Request, Poll, Lookup, Insert, Claim, Select, asset
<1>3. ASSUME NEW w \in Workers, Execute(w) PROVE KeysMatch'
  <2>1. CASE SpendOk(w) \/ SpendUnknown(w)
    BY <2>1 DEF SpendOk, SpendUnknown, Unanswered, Charge, Debit, SpendKey, KeysMatch
  <2>2. CASE Refund(w) \/ RefundFails(w)
    BY <2>2 DEF Refund, RefundFails, RefundKey, KeysMatch
  <2> QED
    BY <1>1, <1>3, <2>1, <2>2
       DEF Execute, SpendRejected, MarkFailed, ReadPity, DrawFails, Commit, Reconcile, Publish,
           PublishFails, Save, Close, StoreError, Crash, asset
<1>4. ASSUME NEW v \in Recoverers, RecoveryStep(v) PROVE KeysMatch'
  BY <1>1, <1>4
     DEF RecoveryStep, Scan, ScanError, Reclaim, LockRow, Receipt, ReceiptFails,
         Confirm, Release, asset
<1>5. ASSUME NEW d \in late, LateSpend(d) PROVE KeysMatch'
  BY <1>5 DEF LateSpend, Charge, KeysMatch
<1>6. CASE Environment
  BY <1>1, <1>5, <1>6 DEF Environment, ExpireLease, ExpireLock, TopUp, Apply, asset
<1>7. CASE UNCHANGED vars
  BY <1>1, <1>7 DEF vars
<1> QED BY <1>2, <1>3, <1>4, <1>6, <1>7 DEF Next

\* Money, inductively, for every number of handlers, pods, operations and releases.
THEOREM PaymentCorrect == Spec => []PaymentInvariant
<1>1. Init => PaymentInvariant
  <2> SUFFICES ASSUME Init PROVE PaymentInvariant
    OBVIOUS
  <2>1. ASSUME NEW k \in Keys, row[k].status \in Store!Committed PROVE Charged(k)
    <3> DEFINE d == [op |-> k, key |-> k]
    <3>1. d \in debits
      BY <2>1 DEF Init
    <3>2. d.op = k
      OBVIOUS
    <3> QED BY <3>1, <3>2 DEF Charged
  <2>2. \A k \in Keys : ~Refunded(k)
    BY DEF Init, Refunded
  <2>3. JobsGrounded /\ RecordsGrounded
    BY DEF Init, JobsGrounded, RecordsGrounded, Grounded, Delivering, Refunding
  <2>4. KeysMatch
    BY DEF Init, KeysMatch
  <2> QED
    BY <2>1, <2>2, <2>3, <2>4 DEF PaymentInvariant, CommittedIsPaid, RefundedIsReturned
<1>2. TypeOK /\ PaymentInvariant /\ [Next]_vars => PaymentInvariant'
  <2> SUFFICES ASSUME TypeOK, PaymentInvariant, [Next]_vars PROVE PaymentInvariant'
    OBVIOUS
  <2>1. RefundedIsReturned'
    BY RefundStep
  <2>2. ASSUME NEW k \in Keys, row'[k].status \in Store!Committed
        PROVE  Charged(k)' /\ ~Refunded(k)'
    <3>1. Charged(k)
      BY <2>2, StatusStep DEF StatusKept, PaymentInvariant, CommittedIsPaid
    <3>2. Charged(k)'
      BY <3>1, EntriesStep DEF EntriesKept, Charged
    <3>3. row'[k].status \notin Returned
      BY <2>2 DEF Returned, Store!Committed
    <3> QED BY <2>1, <3>2, <3>3 DEF RefundedIsReturned
  <2>3. CommittedIsPaid'
    BY <2>2 DEF CommittedIsPaid
  <2> QED BY <2>1, <2>3, JobsStep, RecordsStep, KeysStep DEF PaymentInvariant
<1> QED BY <1>1, <1>2, TypeCorrect, PTL DEF Spec

\* No operation is charged or refunded twice: at most one debit and one credit
\* exist for it, since both keys are derived from the operation alone.
THEOREM ChargedOnce == Spec => []OneEntryPerOperation
<1>1. TypeOK /\ PaymentInvariant => OneEntryPerOperation
  BY DEF TypeOK, ServicesOK, Entries, PaymentInvariant, KeysMatch, OneEntryPerOperation
<1> QED BY <1>1, TypeCorrect, PaymentCorrect, PTL

\* Every committed draw has been paid for and is never given back.
THEOREM DrawsArePaid == Spec => []CommittedIsPaid
<1>1. PaymentInvariant => CommittedIsPaid
  BY DEF PaymentInvariant
<1> QED BY <1>1, PaymentCorrect, PTL
=============================================================================
