------------------------- MODULE PullPromiseProofs -------------------------
(* What the service promises while leases outlive the work done under them   *)
(* and the asset service refuses for the balance only and executes no request*)
(* its caller has given up on (Prompt), for every value of the constants.    *)
(* First, what is refused is not charged: the inductive invariant is         *)
(* RefusalInvariant.  Then, on a table that starts empty (Fresh: what an     *)
(* older engine left to be refunded is paid and will not be drawn), a step   *)
(* of PullService is a step of PullPromise or none at all.                   *)
EXTENDS PullLogProofs

Prompt == Faults \cap {"late", "refuse", "overrun"} = {}

----------------------------------------------------------------------------
(* What the other workers may rely on *)

\* The lease of operation k.
SameLease(k) ==
  /\ row'[k].status = row[k].status
  /\ row'[k].token = row[k].token
  /\ row'[k].leased = row[k].leased

\* The owner of the lease is executing and this step is not its own.
Held(k) ==
  /\ row[k].status = "processing" /\ row[k].leased
  /\ \E u \in Workers : /\ row[k].token = u /\ job[u].key = k /\ pc[u] \in Executing
                        /\ UNCHANGED pc[u]

\* A lease whose owner is executing is changed by nobody else.
LeasesHeld == \A k \in Keys : Held(k) => SameLease(k)

\* One row is written, and its lease is kept if it is held.
LEMMA OneLease ==
  ASSUME StoreOK, NEW k \in Keys, NEW r, row' = [row EXCEPT ![k] = r],
         Held(k) => r.status = row[k].status /\ r.token = row[k].token /\ r.leased = row[k].leased
  PROVE  LeasesHeld
<1> SUFFICES ASSUME NEW l \in Keys, Held(l) PROVE SameLease(l)
  BY DEF LeasesHeld
<1>1. CASE l = k
  <2>1. row'[k] = r
    BY DEF StoreOK
  <2> QED BY <1>1, <2>1 DEF SameLease
<1>2. CASE l # k
  <2>1. row'[l] = row[l]
    BY <1>2 DEF StoreOK
  <2> QED BY <2>1 DEF SameLease
<1> QED BY <1>1, <1>2

\* Recovery locks and their release keep the lease.
LEMMA LocksKeepLeases ==
  ASSUME NEW r \in Store!Rows
  PROVE  \A new \in {Store!Locked(r), Store!Released(r), [r EXCEPT !.locked = FALSE]} :
           new.status = r.status /\ new.token = r.token /\ new.leased = r.leased
BY DEF Store!Rows, Store!Locked, Store!Released

\* Claims wait for the lease, and only its owner leaves "processing".
LEMMA LeaseStep ==
  ASSUME Prompt, TypeOK, PaymentInvariant, [Next]_vars
  PROVE  LeasesHeld
<1> StoreOK /\ LocalOK
  BY DEF TypeOK
<1>1. CASE UNCHANGED row
  BY <1>1 DEF LeasesHeld, SameLease
<1>2. ASSUME NEW k \in Keys, ~Held(k), NEW r, row' = [row EXCEPT ![k] = r]
      PROVE  LeasesHeld
  BY <1>2, OneLease
<1>3. ASSUME NEW c \in Clients, NEW acked \in Acks, Insert(c, acked) PROVE LeasesHeld
  <2> DEFINE k == job[c].key
             new == Store!Inserted(job[c].hash, c, job[c].ctx)
  <2>1. k \in Keys
    BY <1>3, JobRow DEF Insert, Workers
  <2>2. UNCHANGED row \/ (row[k] = Store!Absent /\ row' = [row EXCEPT ![k] = new])
    BY <1>3 DEF Insert
  <2>3. row[k] = Store!Absent => ~Held(k)
    BY DEF Held, Store!Absent
  <2> HIDE DEF k, new
  <2> QED BY <1>1, <1>2, <2>1, <2>2, <2>3
<1>4. ASSUME NEW c \in Clients, NEW acked \in Acks, Claim(c, acked) PROVE LeasesHeld
  <2> DEFINE k == job[c].key
             new == Store!Claimed(row[k], c, job[c].ctx)
  <2>1. k \in Keys
    BY <1>4, JobRow DEF Claim, Workers
  <2>2. UNCHANGED row \/ (~row[k].leased /\ row' = [row EXCEPT ![k] = new])
    BY <1>4 DEF Claim, Store!Claimable
  <2>3. ~row[k].leased => ~Held(k)
    BY DEF Held
  <2> HIDE DEF k, new
  <2> QED BY <1>1, <1>2, <2>1, <2>2, <2>3
<1>5. ASSUME NEW w \in Workers, NEW k, k = job[w].key, pc[w] # "idle", pc'[w] # pc[w],
             NEW r, Store!OwnedBy(row[k], job[w].hash, w), row' = [row EXCEPT ![k] = r]
      PROVE  LeasesHeld
  <2>1. k \in Keys
    BY <1>5, JobRow
  <2>2. ~Held(k)
    BY <1>5 DEF Held, Store!OwnedBy
  <2> QED BY <1>2, <1>5, <2>1, <2>2
<1>6. ASSUME NEW w \in Workers, MarkFailed(w) PROVE LeasesHeld
  <2>1. pc[w] = "fail" /\ pc'[w] # pc[w]
    BY <1>6 DEF MarkFailed, Finish, LocalOK
  <2> QED BY <1>1, <1>5, <1>6, <2>1 DEF MarkFailed
<1>7. ASSUME NEW w \in Workers, Draws(w) PROVE LeasesHeld
  <2>1. pc[w] = "commit" /\ pc'[w] # pc[w]
    BY <1>7 DEF Draws, Goto, LocalOK
  <2> QED BY <1>5, <1>7, <2>1 DEF Draws
<1>8. ASSUME NEW w \in Workers, NEW k, k = job[w].key, pc[w] \in Delivering \cup Refunding,
             NEW r, UNCHANGED row \/ row' = [row EXCEPT ![k] = r]
      PROVE  LeasesHeld
  <2>1. k \in Keys /\ row[k].status \in Store!Committed \cup Returned
    BY <1>8, Known DEF Grounded, Delivering, Refunding
  <2>2. ~Held(k)
    BY <2>1 DEF Held, Store!Committed, Returned
  <2> QED BY <1>1, <1>2, <1>8, <2>1, <2>2
<1>9. ASSUME NEW w \in Workers, Save(w) \/ Confirm(w) \/ Close(w) PROVE LeasesHeld
  BY <1>8, <1>9 DEF Save, Confirm, Close, Written, Delivering, Refunding
<1>10. ASSUME NEW k \in Keys,
              NEW new \in {Store!Locked(row[k]), Store!Released(row[k]),
                           [row[k] EXCEPT !.locked = FALSE]},
              row' = [row EXCEPT ![k] = new]
       PROVE  LeasesHeld
  <2>1. row[k] \in Store!Rows
    BY DEF StoreOK
  <2> QED BY <1>10, <2>1, LocksKeepLeases, OneLease
<1>11. ASSUME NEW v \in Recoverers, NEW x \in batch[v], NEW acked \in Acks,
              Reclaim(v, x, acked) \/ LockRow(v, x, acked)
       PROVE  LeasesHeld
  <2> DEFINE k == x.job.key
  <2>1. k \in Keys
    BY DEF LocalOK, Records, Jobs, Workers
  <2>2. \/ UNCHANGED row
        \/ ~row[k].leased /\ row' = [row EXCEPT ![k] = Store!Reclaimed(row[k], v)]
        \/ row' = [row EXCEPT ![k] = Store!Locked(row[k])]
    BY <1>11 DEF Reclaim, LockRow, Store!Expired
  <2>3. ~row[k].leased => ~Held(k)
    BY DEF Held
  <2> HIDE DEF k
  <2> QED BY <1>1, <1>2, <1>10, <2>1, <2>2, <2>3
<1>12. ASSUME NEW v \in Recoverers, Release(v) PROVE LeasesHeld
  <2>1. job[v].key \in Keys /\ row' = [row EXCEPT ![job[v].key] = Store!Released(row[job[v].key])]
    BY <1>12, JobRow DEF Release, Workers
  <2> QED BY <1>10, <2>1
<1>13. ASSUME NEW k \in Keys, ExpireLease(k) PROVE LeasesHeld
  <2>1. ~Held(k)
    BY <1>13 DEF ExpireLease, Prompt, Held
  <2>2. row' = [row EXCEPT ![k] = [row[k] EXCEPT !.leased = FALSE]]
    BY <1>13 DEF ExpireLease
  <2> QED BY <1>2, <2>1, <2>2
<1>14. ASSUME NEW k \in Keys, ExpireLock(k) PROVE LeasesHeld
  <2>1. row' = [row EXCEPT ![k] = [row[k] EXCEPT !.locked = FALSE]]
    BY <1>14 DEF ExpireLock
  <2> QED BY <1>10, <2>1
<1>15. ASSUME NEW c \in Clients, ClientStep(c) PROVE LeasesHeld
  BY <1>1, <1>3, <1>4, <1>15 DEF ClientStep, Request, Poll, Lookup, Select, db
<1>16. ASSUME NEW w \in Workers, NEW acked \in Acks, Commit(w, acked) PROVE LeasesHeld
  <2>1. acked \in BOOLEAN
    BY DEF Acks
  <2>2. UNCHANGED row \/ Draws(w)
    BY <1>16, <2>1 DEF Commit, Draws, asset, bus, db
  <2> QED BY <1>1, <1>7, <2>2
<1>17. ASSUME NEW w \in Workers, Execute(w) PROVE LeasesHeld
  BY <1>1, <1>6, <1>9, <1>16, <1>17
     DEF Execute, SpendOk, SpendRejected, SpendUnknown, ReadPity, DrawFails, Reconcile, Publish,
         PublishFails, Refund, RefundFails, StoreError, Crash, db
<1>18. ASSUME NEW v \in Recoverers, RecoveryStep(v) PROVE LeasesHeld
  BY <1>1, <1>9, <1>11, <1>12, <1>18
     DEF RecoveryStep, Workers, Scan, ScanError, Receipt, ReceiptFails, db
<1>19. CASE Environment
  BY <1>1, <1>13, <1>14, <1>19 DEF Environment, LateSpend, Apply, TopUp, db
<1>20. CASE UNCHANGED vars
  BY <1>1, <1>20 DEF vars
<1> QED BY <1>15, <1>17, <1>18, <1>19, <1>20 DEF Next

----------------------------------------------------------------------------
(* Who may charge *)

Charging(w, k) == pc[w] = "spend" /\ job[w].key = k /\ pc'[w] # pc[w]

\* An operation becomes charged by a worker that is about to spend for it, and
\* no spend request is left behind.
LEMMA ChargeStep ==
  ASSUME Prompt, TypeOK, late = {}, [Next]_vars
  PROVE  /\ late' = {}
         /\ \A d \in debits' : d \in debits \/ \E w \in Workers : Charging(w, d.op)
<1> LocalOK
  BY DEF TypeOK
<1>1. CASE UNCHANGED <<debits, late>>
  BY <1>1
<1>2. ASSUME NEW c \in Clients, ClientStep(c) PROVE UNCHANGED <<debits, late>>
  BY <1>2 DEF ClientStep, Request, Poll, Lookup, Insert, Claim, Select, asset
<1>3. ASSUME NEW w \in Workers, SpendOk(w)
      PROVE  /\ late' = {}
             /\ \A d \in debits' : d \in debits \/ \E u \in Workers : Charging(u, d.op)
  <2>1. pc'[w] # pc[w]
    BY <1>3 DEF SpendOk, Goto, LocalOK
  <2> QED BY <1>3, <2>1 DEF SpendOk, Charge, Debit, Charging
<1>4. ASSUME NEW w \in Workers, SpendUnknown(w)
      PROVE  /\ late' = {}
             /\ \A d \in debits' : d \in debits \/ \E u \in Workers : Charging(u, d.op)
  <2>1. pc'[w] # pc[w]
    BY <1>4 DEF SpendUnknown, Finish, LocalOK
  <2> QED BY <1>4, <2>1 DEF SpendUnknown, Unanswered, Charge, Debit, Charging, Prompt
<1>5. ASSUME NEW w \in Workers, Execute(w), ~SpendOk(w), ~SpendUnknown(w)
      PROVE  UNCHANGED <<debits, late>>
  BY <1>5
     DEF Execute, SpendRejected, MarkFailed, ReadPity, DrawFails, Commit, Reconcile, Publish,
         PublishFails, Save, Refund, RefundFails, Close, StoreError, Crash, asset
<1>6. ASSUME NEW v \in Recoverers, RecoveryStep(v) PROVE UNCHANGED <<debits, late>>
  BY <1>6
     DEF RecoveryStep, Scan, ScanError, Reclaim, LockRow, Receipt, ReceiptFails,
         Confirm, Release, asset
<1>7. CASE Environment
  BY <1>7 DEF Environment, ExpireLease, ExpireLock, LateSpend, TopUp, Apply, asset
<1>8. CASE UNCHANGED vars
  BY <1>8 DEF vars
<1>9. CASE \E w \in Workers : Execute(w)
  BY <1>1, <1>3, <1>4, <1>5, <1>9
<1>10. CASE \/ \E c \in Clients : ClientStep(c)
            \/ \E v \in Recoverers : RecoveryStep(v)
            \/ Environment \/ UNCHANGED vars
  BY <1>1, <1>2, <1>6, <1>7, <1>8, <1>10
<1> QED BY <1>9, <1>10 DEF Next

\* Two workers that execute one operation are one worker.
LEMMA OneOwner ==
  ASSUME RefusalInvariant, NEW u \in Workers, NEW w \in Workers,
         pc[u] \in Executing, pc[w] \in Executing, job[u].key = job[w].key
  PROVE  u = w
BY DEF RefusalInvariant, Entitled

\* A refused operation stays uncharged for as long as its worker is about to
\* say so, and is uncharged when it has been said.
LEMMA RefusedStaysUncharged ==
  ASSUME Prompt, TypeOK, RefusalInvariant, [Next]_vars,
         NEW w \in Workers, NEW k, pc[w] = "fail", job[w].key = k
  PROVE  ~Charged(k)'
<1>1. ~Charged(k)
  BY DEF RefusalInvariant, Entitled
<1>2. ASSUME NEW u \in Workers, Charging(u, k) PROVE FALSE
  <2>1. u = w
    BY <1>2, OneOwner DEF Charging, Executing
  <2> QED BY <1>2, <2>1 DEF Charging
<1>3. \A d \in debits' : d \in debits \/ \E u \in Workers : Charging(u, d.op)
  BY ChargeStep DEF RefusalInvariant
<1> QED BY <1>1, <1>2, <1>3 DEF Charged

----------------------------------------------------------------------------
(* The steps of the invariant *)

\* A failed operation has no charge that was not given back.
LEMMA FailedStep ==
  ASSUME Prompt, TypeOK, PaymentInvariant, RefusalInvariant, [Next]_vars
  PROVE  FailedIsUnpaid'
<1> StoreOK /\ LocalOK /\ EntriesKept
  BY EntriesStep DEF TypeOK
<1> SUFFICES ASSUME NEW k \in Keys, row'[k].status = "failed", Charged(k)'
             PROVE  Refunded(k)'
  BY DEF FailedIsUnpaid
<1>0. row[k] \in Store!Rows
  BY DEF StoreOK
<1>1. ASSUME Refunded(k) PROVE Refunded(k)'
  BY <1>1 DEF Refunded, EntriesKept
<1>2. CASE row[k].status = "failed"
  <2>1. ASSUME NEW w \in Workers, Charging(w, k) PROVE FALSE
    BY <1>2, <2>1 DEF Charging, RefusalInvariant, Entitled, Executing
  <2>2. \A d \in debits' : d \in debits \/ \E w \in Workers : Charging(w, d.op)
    BY ChargeStep DEF RefusalInvariant
  <2>3. Charged(k)
    BY <2>1, <2>2 DEF Charged
  <2> QED BY <1>1, <1>2, <2>3 DEF RefusalInvariant, FailedIsUnpaid
<1>3. ASSUME NEW w \in Workers, GivesUp(w, k) PROVE FALSE
  BY <1>3, RefusedStaysUncharged DEF GivesUp
<1>4. ASSUME Closes(k) PROVE Refunded(k)'
  <2>1. Refunded(k)
    BY <1>4 DEF Closes, RefusalInvariant, Entitled
  <2> QED BY <1>1, <2>1
<1>5. ASSUME row[k].status # "failed", Ordinary(k)
      PROVE  Closes(k) \/ \E w \in Workers : GivesUp(w, k)
  <2>1. ASSUME NEW c \in Clients, Opens(c, k) PROVE FALSE
    BY <2>1 DEF Opens, Store!Inserted, Store!Absent
  <2>2. ASSUME NEW c \in Clients, TakesOver(c, k) PROVE FALSE
    BY <1>0, <1>5, <2>2, RowStatus DEF TakesOver
  <2>3. ASSUME NEW w \in Workers, Delivers(w, k) PROVE FALSE
    BY <1>0, <2>3, RowStatus DEF Delivers
  <2> QED BY <1>5, <2>1, <2>2, <2>3 DEF Ordinary, Untouched
<1>6. ASSUME row[k].status # "failed", NEW w \in Workers, Draws(w) PROVE FALSE
  <2> DEFINE d == job[w].key
             new == Store!Updated(row[d], "event_pending", job[w].resp)
  <2>1. d \in Keys /\ row[d] \in Store!Rows /\ row' = [row EXCEPT ![d] = new]
    BY <1>6, Known DEF Draws
  <2>2. new.status = "event_pending"
    BY <2>1, RowStatus
  <2>3. row'[d] = new /\ \A l \in Keys \ {d} : Untouched(l)
    <3> HIDE DEF d, new
    <3> QED BY <2>1, OthersUntouched
  <2> QED BY <1>6, <2>2, <2>3 DEF Untouched
<1> QED BY <1>2, <1>3, <1>4, <1>5, <1>6, DbStep

\* A worker that this step leaves alone stays entitled to go on.
LEMMA StaysEntitled ==
  ASSUME Prompt, TypeOK, PaymentInvariant, RefusalInvariant, [Next]_vars,
         NEW u \in Workers, UNCHANGED <<pc[u], job[u]>>
  PROVE  Entitled(u, pc[u], job[u].key)'
<1>0. PICK k : k = job[u].key
  OBVIOUS
<1>1. Entitled(u, pc[u], k) /\ EntriesKept
  BY <1>0, EntriesStep DEF RefusalInvariant
<1>2. ASSUME pc[u] \in Executing
      PROVE  row'[k].status = "processing" /\ row'[k].token = u /\ row'[k].leased
  <2>1. k \in Keys
    BY <1>0, <1>2, JobRow DEF TypeOK, Executing
  <2>2. Held(k)
    BY <1>0, <1>1, <1>2 DEF Entitled, Held
  <2>3. SameLease(k)
    BY <2>1, <2>2, LeaseStep DEF LeasesHeld
  <2> QED BY <1>1, <1>2, <2>3 DEF Entitled, SameLease
<1>3. ASSUME pc[u] = "fail" PROVE ~Charged(k)'
  BY <1>0, <1>3, RefusedStaysUncharged
<1>4. ASSUME pc[u] = "close" PROVE \E d \in credits' : d.op = k
  BY <1>1, <1>4 DEF Entitled, Refunded, EntriesKept
<1>5. pc'[u] = pc[u] /\ job'[u].key = k
  BY <1>0
<1> QED BY <1>2, <1>3, <1>4, <1>5 DEF Entitled, Charged, Refunded

\* A step at which nothing is relied on.
Open(l) == l \notin Executing \cup {"close"}

\* What a worker must find at step l of operation k after this step.
EntitledNext(w, l, k) ==
  /\ l \in Executing => row'[k].status = "processing" /\ row'[k].token = w /\ row'[k].leased
  /\ l = "fail" => \A d \in debits' : d.op # k
  /\ l = "close" => \E d \in credits' : d.op = k

EntitledAll == \A w \in Workers : Entitled(w, pc[w], job[w].key)

\* All workers are entitled after a step of one of them.
LEMMA OneEntitled ==
  ASSUME Prompt, TypeOK, PaymentInvariant, RefusalInvariant, [Next]_vars,
         NEW w \in Workers, NEW l, NEW j,
         pc' = [pc EXCEPT ![w] = l], job' = [job EXCEPT ![w] = j],
         Open(l) \/ EntitledNext(w, l, j.key)
  PROVE  EntitledAll'
<1> SUFFICES ASSUME NEW u \in Workers PROVE Entitled(u, pc[u], job[u].key)'
  BY DEF EntitledAll
<1>1. CASE u = w
  <2>1. pc'[u] = l /\ job'[u] = j
    BY <1>1 DEF TypeOK, LocalOK
  <2> QED
    BY <1>1, <2>1 DEF Open, Executing, EntitledNext, Entitled, Charged, Refunded
<1>2. CASE u # w
  <2>1. UNCHANGED <<pc[u], job[u]>>
    BY <1>2 DEF TypeOK, LocalOK
  <2> QED BY <2>1, StaysEntitled
<1> QED BY <1>1, <1>2

\* A worker that finishes, or goes on with the same job.
LEMMA MoveEntitled ==
  ASSUME Prompt, TypeOK, PaymentInvariant, RefusalInvariant, [Next]_vars, NEW w \in Workers,
         \/ UNCHANGED <<pc, job>>
         \/ Finish(w) \/ Leave(w)
         \/ \E l : Goto(w, l) /\ (Open(l) \/ EntitledNext(w, l, job[w].key))
  PROVE  EntitledAll'
<1>1. CASE UNCHANGED <<pc, job>>
  BY <1>1, StaysEntitled DEF EntitledAll
<1>2. Open("idle") /\ Open("release")
  BY DEF Open, Executing
<1>3. CASE Finish(w)
  BY <1>2, <1>3, OneEntitled DEF Finish
<1>4. ASSUME NEW l, Goto(w, l), Open(l) \/ EntitledNext(w, l, job[w].key)
      PROVE  EntitledAll'
  <2>1. PICK j : j = job[w]
    OBVIOUS
  <2>2. pc' = [pc EXCEPT ![w] = l] /\ job' = [job EXCEPT ![w] = j]
    BY <1>4, <2>1 DEF Goto, TypeOK, LocalOK
  <2> QED BY <1>4, <2>1, <2>2, OneEntitled
<1> QED BY <1>1, <1>2, <1>3, <1>4 DEF Leave

\* A handler that goes on from what the row says executes nothing.
LEMMA ExistingEntitled ==
  ASSUME Prompt, TypeOK, PaymentInvariant, RefusalInvariant, [Next]_vars,
         NEW w \in Workers, NEW r, Existing(w, r)
  PROVE  EntitledAll'
<1>1. CASE Finish(w)
  BY <1>1, MoveEntitled
<1>2. ASSUME NEW l \in {"publish", "refund"}, Resume(w, l, r) PROVE EntitledAll'
  <2>1. PICK j : j = [job[w] EXCEPT !.resp = r.resp]
    OBVIOUS
  <2>2. pc' = [pc EXCEPT ![w] = l] /\ job' = [job EXCEPT ![w] = j]
    BY <1>2, <2>1 DEF Resume
  <2>3. Open(l)
    BY DEF Open, Executing
  <2> QED BY <2>2, <2>3, OneEntitled
<1> QED BY <1>1, <1>2 DEF Existing, Answer

\* Whoever starts to execute an operation has just taken its lease; whoever goes
\* on with it still holds it.
LEMMA EntitledStep ==
  ASSUME Prompt, TypeOK, PaymentInvariant, RefusalInvariant, [Next]_vars
  PROVE  EntitledAll'
<1> StoreOK /\ LocalOK /\ EntitledAll
  BY DEF TypeOK, RefusalInvariant, EntitledAll
<1> USE DEF Open, Executing
<1>1. ASSUME NEW c \in Clients, ClientStep(c) PROVE EntitledAll'
  <2> c \in Workers
    BY DEF Workers
  <2>1. ASSUME NEW k \in Keys, NEW h \in Hashes, Request(c, k, h) PROVE EntitledAll'
    <3>1. PICK l \in {"insert", "lookup"} :
            \E j : pc' = [pc EXCEPT ![c] = l] /\ job' = [job EXCEPT ![c] = j]
      BY <2>1 DEF Request
    <3> QED BY <3>1, OneEntitled
  <2>2. CASE Lookup(c)
    <3>1. CASE Finish(c)
      BY <3>1, MoveEntitled
    <3>2. CASE Existing(c, row[job[c].key])
      BY <3>2, ExistingEntitled
    <3>3. ASSUME NEW x, pc' = [pc EXCEPT ![c] = "insert"], job' = [job EXCEPT ![c] = x]
          PROVE  EntitledAll'
      BY <3>3, OneEntitled
    <3> QED BY <2>2, <3>1, <3>2, <3>3 DEF Lookup
  <2>3. ASSUME NEW acked \in Acks, Insert(c, acked) PROVE EntitledAll'
    <3>1. PICK k, new : k = job[c].key /\ new = Store!Inserted(job[c].hash, c, job[c].ctx)
      OBVIOUS
    <3>2. CASE Finish(c) \/ Goto(c, "claim")
      BY <3>2, MoveEntitled
    <3>3. CASE row' = [row EXCEPT ![k] = new] /\ Goto(c, "spend")
      <4>1. k \in Keys
        BY <2>3, <3>1, JobRow DEF Insert
      <4>2. row'[k] = new
        BY <3>3, <4>1 DEF StoreOK
      <4>3. new.status = "processing" /\ new.token = c /\ new.leased
        BY <3>1 DEF Store!Inserted, Store!Absent
      <4>4. EntitledNext(c, "spend", job[c].key)
        BY <3>1, <4>2, <4>3 DEF EntitledNext
      <4> QED BY <3>3, <4>4, MoveEntitled
    <3> QED BY <2>3, <3>1, <3>2, <3>3 DEF Insert
  <2>4. ASSUME NEW acked \in Acks, Claim(c, acked) PROVE EntitledAll'
    <3>1. PICK k, new : k = job[c].key /\ new = Store!Claimed(row[k], c, job[c].ctx)
      OBVIOUS
    <3>2. CASE Finish(c) \/ Goto(c, "select")
      BY <3>2, MoveEntitled
    <3>3. CASE /\ Store!Claimable(row[k], job[c].hash)
               /\ row' = [row EXCEPT ![k] = new]
               /\ pc' = [pc EXCEPT ![c] = "spend"]
               /\ job' = [job EXCEPT ![c].ctx = new.ctx]
      <4>1. k \in Keys /\ row[k] \in Store!Rows /\ job[c] \in Jobs
        BY <2>4, <3>1, JobRow DEF Claim
      <4>2. row'[k] = new
        BY <3>3, <4>1 DEF StoreOK
      <4>3. new.status = "processing" /\ new.token = c /\ new.leased
        BY <3>1, <3>3, <4>1 DEF Store!Claimable, Store!Claimed, Store!Rows
      <4>4. PICK j : j = [job[c] EXCEPT !.ctx = new.ctx]
        OBVIOUS
      <4>5. j.key = k /\ job' = [job EXCEPT ![c] = j]
        BY <3>1, <3>3, <4>1, <4>4 DEF Jobs
      <4>6. EntitledNext(c, "spend", j.key)
        BY <4>2, <4>3, <4>5 DEF EntitledNext
      <4> QED BY <3>3, <4>5, <4>6, OneEntitled
    <3> QED BY <2>4, <3>1, <3>2, <3>3 DEF Claim
  <2>5. CASE Select(c)
    BY <2>5, ExistingEntitled DEF Select
  <2>6. ASSUME NEW k \in Keys, Poll(c, k) PROVE EntitledAll'
    BY <2>6, MoveEntitled DEF Poll, local
  <2> QED BY <1>1, <2>1, <2>2, <2>3, <2>4, <2>5, <2>6 DEF ClientStep
<1>2. ASSUME NEW w \in Workers, Execute(w) PROVE EntitledAll'
  <2>1. ASSUME pc[w] \in Executing, UNCHANGED row, NEW l \in {"read", "commit"}
        PROVE  EntitledNext(w, l, job[w].key)
    BY <2>1 DEF EntitledAll, Entitled, EntitledNext
  <2>2. CASE SpendOk(w)
    BY <2>1, <2>2, MoveEntitled DEF SpendOk, db
  <2>3. CASE SpendRejected(w)
    <3>1. pc[w] = "spend" /\ Goto(w, "fail") /\ UNCHANGED <<row, debits>>
          /\ ~CanSpend(Debit(w))
      BY <2>3 DEF SpendRejected, Prompt, db, asset
    <3>2. PICK k : k = job[w].key
      OBVIOUS
    <3>3. ASSUME NEW d \in debits, d.op = k PROVE FALSE
      <4>1. d \in Entries /\ d.key = d.op
        BY DEF TypeOK, ServicesOK, PaymentInvariant, KeysMatch
      <4>2. d = Debit(w)
        BY <3>2, <3>3, <4>1 DEF Entries, Debit, SpendKey
      <4> QED BY <3>1, <4>2 DEF CanSpend
    <3>4. EntitledNext(w, "fail", job[w].key)
      BY <3>1, <3>2, <3>3 DEF EntitledAll, Entitled, EntitledNext
    <3> QED BY <3>1, <3>4, MoveEntitled
  <2>4. CASE ReadPity(w)
    <3>1. PICK j : j = [job[w] EXCEPT !.resp = Draw(w)]
      OBVIOUS
    <3>2. pc' = [pc EXCEPT ![w] = "commit"] /\ job' = [job EXCEPT ![w] = j]
          /\ pc[w] = "read" /\ UNCHANGED row
      BY <2>4, <3>1 DEF ReadPity, db
    <3>3. j.key = job[w].key
      BY <3>1, <3>2, JobRow DEF Jobs
    <3> QED BY <2>1, <3>2, <3>3, OneEntitled
  <2>5. ASSUME NEW acked \in Acks, Commit(w, acked) PROVE EntitledAll'
    <3>1. CASE Finish(w) \/ \E l \in {"publish", "reconcile"} : Goto(w, l)
      BY <3>1, MoveEntitled
    <3>2. CASE Conflict(w) /\ UNCHANGED db
      <4>1. PICK j : j = [job[w] EXCEPT !.resp = None]
        OBVIOUS
      <4>2. CASE pc' = [pc EXCEPT ![w] = "read"] /\ job' = [job EXCEPT ![w] = j]
        <5>1. j.key = job[w].key /\ pc[w] = "commit" /\ UNCHANGED row
          BY <2>5, <3>2, <4>1, JobRow DEF Jobs, Commit, db
        <5> QED BY <2>1, <4>2, <5>1, OneEntitled
      <4> QED BY <3>1, <3>2, <4>1, <4>2 DEF Conflict
    <3> QED BY <2>5, <3>1, <3>2 DEF Commit
  <2>6. CASE Reconcile(w)
    BY <2>6, ExistingEntitled DEF Reconcile
  <2>7. CASE Refund(w)
    <3>1. Goto(w, "close") /\ [op |-> job[w].key, key |-> RefundKey(w)] \in credits'
      BY <2>7 DEF Refund
    <3>2. EntitledNext(w, "close", job[w].key)
      BY <3>1 DEF EntitledNext
    <3> QED BY <3>1, <3>2, MoveEntitled
  <2>8. CASE Crash(w)
    BY <2>8, OneEntitled DEF Crash
  <2>9. CASE Finish(w) \/ Leave(w) \/ \E l \in {"save", "reconcile", "release"} : Goto(w, l)
    BY <2>9, MoveEntitled
  <2>10. CASE Conclude(w)
    BY <2>9, <2>10 DEF Conclude, Answer
  <2>11. CASE StoreError(w)
    BY <2>9, <2>10, <2>11 DEF StoreError
  <2>12. CASE SpendUnknown(w) \/ MarkFailed(w) \/ DrawFails(w) \/ Publish(w) \/ PublishFails(w)
    BY <2>9, <2>12 DEF SpendUnknown, MarkFailed, DrawFails, Publish, PublishFails
  <2>13. CASE Save(w) \/ RefundFails(w) \/ Close(w)
    BY <2>9, <2>10, <2>13 DEF Save, RefundFails, Close
  <2> QED
    BY <1>2, <2>2, <2>3, <2>4, <2>5, <2>6, <2>7, <2>8, <2>11, <2>12, <2>13 DEF Execute
<1>3. ASSUME NEW v \in Recoverers, RecoveryStep(v) PROVE EntitledAll'
  <2> v \in Workers
    BY DEF Workers
  <2>1. ASSUME NEW x \in batch[v], NEW acked \in Acks, Reclaim(v, x, acked) PROVE EntitledAll'
    <3>1. PICK k, new : k = x.job.key /\ new = Store!Reclaimed(row[k], v)
      OBVIOUS
    <3>2. CASE UNCHANGED <<pc, job>>
      BY <3>2, MoveEntitled
    <3>3. CASE /\ Store!Expired(row[k])
               /\ row' = [row EXCEPT ![k] = new]
               /\ pc' = [pc EXCEPT ![v] = "spend"]
               /\ job' = [job EXCEPT ![v] = Record(k).job]
      <4>1. k \in Keys /\ row[k] \in Store!Rows
        BY <3>1 DEF LocalOK, Records, Jobs, StoreOK
      <4>2. row'[k] = new
        BY <3>3, <4>1 DEF StoreOK
      <4>3. new.status = "processing" /\ new.token = v /\ new.leased
        BY <3>1, <3>3, <4>1 DEF Store!Expired, Store!Reclaimed, Store!Rows
      <4>4. PICK j : j = Record(k).job
        OBVIOUS
      <4>5. j.key = k
        BY <4>4 DEF Record
      <4>6. EntitledNext(v, "spend", j.key)
        BY <4>2, <4>3, <4>5 DEF EntitledNext
      <4> QED BY <3>3, <4>4, <4>6, OneEntitled
    <3> QED BY <2>1, <3>1, <3>2, <3>3 DEF Reclaim
  <2>2. ASSUME NEW x \in batch[v], NEW acked \in Acks, LockRow(v, x, acked) PROVE EntitledAll'
    <3>1. PICK l, j : l = FirstStep(x.status) /\ j = x.job
      OBVIOUS
    <3>2. CASE UNCHANGED <<pc, job>>
      BY <3>2, MoveEntitled
    <3>3. CASE pc' = [pc EXCEPT ![v] = l] /\ job' = [job EXCEPT ![v] = j]
      <4>1. Open(l)
        BY <3>1 DEF FirstStep
      <4> QED BY <3>3, <4>1, OneEntitled
    <3> QED BY <2>2, <3>1, <3>2, <3>3 DEF LockRow
  <2>3. CASE \/ UNCHANGED <<pc, job>> \/ Finish(v)
             \/ \E l \in {"release", "confirm", "republish"} : Goto(v, l)
    BY <2>3, MoveEntitled
  <2> QED
    BY <1>3, <2>1, <2>2, <2>3
       DEF RecoveryStep, Scan, ScanError, Receipt, ReceiptFails, Confirm, Release
<1>4. ASSUME UNCHANGED <<pc, job>> PROVE EntitledAll'
  BY <1>4, StaysEntitled DEF EntitledAll
<1>5. CASE Environment
  BY <1>4, <1>5 DEF Environment, ExpireLease, ExpireLock, LateSpend, Apply, TopUp, local
<1>6. CASE UNCHANGED vars
  BY <1>4, <1>6 DEF vars
<1> QED BY <1>1, <1>2, <1>3, <1>5, <1>6 DEF Next

----------------------------------------------------------------------------
(* Refused operations: the theorems *)

\* While leases outlive the work done under them, one worker at a time executes
\* an operation, and it gives up only what nobody has charged.
THEOREM RefusalCorrect ==
  ASSUME Prompt
  PROVE  Spec => []RefusalInvariant
<1>1. Init => RefusalInvariant
  <2> SUFFICES ASSUME Init PROVE RefusalInvariant
    OBVIOUS
  <2>1. ASSUME NEW k \in Keys, row[k].status = "failed" PROVE ~Charged(k)
    BY <2>1 DEF Init, Charged, Store!Committed
  <2> QED
    BY <2>1 DEF Init, RefusalInvariant, Entitled, Executing, FailedIsUnpaid
<1>2. TypeOK /\ PaymentInvariant /\ RefusalInvariant /\ [Next]_vars => RefusalInvariant'
  <2> SUFFICES ASSUME TypeOK, PaymentInvariant, RefusalInvariant, [Next]_vars
               PROVE  RefusalInvariant'
    OBVIOUS
  <2>1. late' = {}
    BY ChargeStep DEF RefusalInvariant
  <2> QED BY <2>1, EntitledStep, FailedStep DEF RefusalInvariant, EntitledAll
<1> QED BY <1>1, <1>2, TypeCorrect, PaymentCorrect, PTL DEF Spec

\* A user who is told that an operation failed has not paid for it, or has got
\* the price back.
THEOREM FailuresAreUnpaid ==
  ASSUME Prompt
  PROVE  Spec => []FailedIsUnpaid
<1>1. RefusalInvariant => FailedIsUnpaid
  BY DEF RefusalInvariant
<1> QED BY <1>1, RefusalCorrect, PTL

----------------------------------------------------------------------------
(* A table that starts empty *)

Fresh == InitRows \subseteq {[k \in Keys |-> Store!Absent]}

----------------------------------------------------------------------------
(* The variables of PullPromise *)

Stages  == [k \in Keys |-> StageOf(k)]
Targets == [k \in Keys |-> GroupOfRow(k)]
Paid    == {k \in Keys : Charged(k) /\ ~Refunded(k)}

\* The actions of PullPromise, read in these.
LEMMA PromiseActions ==
  ASSUME NEW k \in Keys
  PROVE  /\ \A g \in Groups :
              /\ Stages[k] = "new" /\ Stages' = [Stages EXCEPT ![k] = "open"]
              /\ Targets' = [Targets EXCEPT ![k] = g]
              /\ UNCHANGED <<Paid, Tapes, Shown, Rewarded>>
              => Promise!Open(k, g)
         /\ /\ Stages[k] = "open" /\ Paid' = Paid \cup {k}
            /\ UNCHANGED <<Stages, Targets, Tapes, Shown, Rewarded>>
            => Promise!Pay(k)
         /\ /\ Stages[k] = "open" /\ Stages' = [Stages EXCEPT ![k] = "drawn"] /\ k \in Paid
            /\ Tapes' = [Tapes EXCEPT ![Targets[k]] = Append(@, k)]
            /\ UNCHANGED <<Targets, Paid, Shown, Rewarded>>
            => Promise!Draw(k)
         /\ /\ Stages[k] = "open" /\ Stages' = [Stages EXCEPT ![k] = "refused"] /\ k \notin Paid
            /\ Targets' = [Targets EXCEPT ![k] = None]
            /\ UNCHANGED <<Paid, Tapes, Shown, Rewarded>>
            => Promise!Refuse(k)
         /\ /\ Stages[k] \in {"drawn", "settled"} /\ Shown' = Shown \cup {k}
            /\ UNCHANGED <<Stages, Targets, Paid, Tapes, Rewarded>>
            => Promise!Show(k)
         /\ /\ Stages[k] = "drawn" /\ Rewarded' = Rewarded \cup {k}
            /\ UNCHANGED <<Stages, Targets, Paid, Tapes, Shown>>
            => Promise!Reward(k)
         /\ /\ Stages[k] = "drawn" /\ Stages' = [Stages EXCEPT ![k] = "settled"] /\ k \in Rewarded
            /\ UNCHANGED <<Targets, Paid, Tapes, Shown, Rewarded>>
            => Promise!Settle(k)
BY DEF Promise!Open, Promise!Pay, Promise!Draw, Promise!Refuse, Promise!Show,
       Promise!Reward, Promise!Settle, Promise!Move,
       Stages, Targets, Paid, Tapes, Shown, Rewarded

\* A step of the service that does one of these, or nothing to them, is allowed.
LEMMA PromiseStep ==
  ASSUME \/ \E k \in Keys : \/ \E g \in Groups : Promise!Open(k, g)
                            \/ Promise!Pay(k) \/ Promise!Draw(k) \/ Promise!Refuse(k)
                            \/ Promise!Show(k) \/ Promise!Reward(k) \/ Promise!Settle(k)
         \/ UNCHANGED <<Stages, Targets, Paid, Tapes, Shown, Rewarded>>
  PROVE  [Promise!Next]_(Promise!vars)
BY DEF Promise!Next, Promise!vars, Stages, Targets, Paid, Tapes, Shown, Rewarded

----------------------------------------------------------------------------
(* On a table that started empty nothing is ever refunded *)

\* A row has a context while it is processed and a draw once it is committed.
RowFresh(r) == /\ r.status # "refund_pending"
               /\ r.status = "processing" <=> r.ctx # None
               /\ r.status \in Store!Committed <=> r.resp # None

FreshInvariant == /\ credits = {}
                  /\ \A k \in Keys : RowFresh(row[k])
                  /\ \A w \in Workers : pc[w] \notin Refunding

\* No row comes to be refunded.
LEMMA RowsFreshStep ==
  ASSUME TypeOK, PaymentInvariant, FreshInvariant, [Next]_vars
  PROVE  \A k \in Keys : RowFresh(row'[k])
<1> StoreOK /\ LocalOK
  BY DEF TypeOK
<1> USE ServiceAssumption DEF Store!Committed
<1>1. ASSUME NEW k \in Keys, Ordinary(k) PROVE RowFresh(row'[k])
  <2>0. row[k] \in Store!Rows /\ RowFresh(row[k])
    BY DEF StoreOK, FreshInvariant
  <2>1. CASE Untouched(k)
    BY <2>0, <2>1 DEF Untouched, RowFresh
  <2>2. ASSUME NEW c \in Clients, Opens(c, k) PROVE RowFresh(row'[k])
    <3>1. job[c].ctx \in Contexts
      BY <2>2, Prepared DEF Opens, Workers, WithContext
    <3>2. job[c].ctx # None
      BY <3>1
    <3> QED BY <2>2, <3>2 DEF Opens, RowFresh, Store!Inserted, Store!Absent
  <2>3. ASSUME NEW c \in Clients, TakesOver(c, k) PROVE RowFresh(row'[k])
    BY <2>0, <2>3 DEF TakesOver, RowFresh, Store!Claimable, Store!Claimed, Store!Rows
  <2>4. ASSUME NEW w \in Workers, GivesUp(w, k) PROVE RowFresh(row'[k])
    BY <2>0, <2>4 DEF GivesUp, RowFresh, Store!Transitioned, Store!Rows
  <2>5. ASSUME NEW w \in Workers, Delivers(w, k) PROVE RowFresh(row'[k])
    <3>1. PICK s \in {"event_published", "succeeded"}, p \in Responses :
            row'[k] = Store!Updated(row[k], s, p)
      BY <2>5 DEF Delivers
    <3>2. row'[k].status = s /\ row'[k].resp = p /\ row'[k].ctx = None
      BY <2>0, <3>1 DEF Store!Updated, Store!Transitioned, Store!Rows
    <3>3. p # None
      OBVIOUS
    <3> QED BY <3>2, <3>3 DEF RowFresh
  <2>6. ~Closes(k)
    BY DEF Closes, FreshInvariant, Refunding
  <2> QED BY <1>1, <2>1, <2>2, <2>3, <2>4, <2>5, <2>6 DEF Ordinary
<1>2. ASSUME NEW w \in Workers, Draws(w), NEW k \in Keys PROVE RowFresh(row'[k])
  <2>1. PICK d, p, new : /\ d = job[w].key /\ p = job[w].resp
                         /\ new = Store!Updated(row[d], "event_pending", p)
    OBVIOUS
  <2>2. /\ pc[w] = "commit" /\ d \in Keys /\ row[d] \in Store!Rows /\ p \in Responses
        /\ row' = [row EXCEPT ![d] = new]
    BY <1>2, <2>1, Known, Prepared DEF Draws, WithResponse
  <2>3. row'[d] = new /\ \A l \in Keys \ {d} : Untouched(l)
    BY <2>2, OthersUntouched
  <2>4. CASE k = d
    <3>1. new.status = "event_pending" /\ new.resp = p /\ new.ctx = None /\ p # None
      BY <2>1, <2>2 DEF Store!Updated, Store!Transitioned, Store!Rows
    <3> QED BY <2>3, <2>4, <3>1 DEF RowFresh
  <2>5. CASE k # d
    BY <2>3, <2>5 DEF Untouched, FreshInvariant, RowFresh
  <2> QED BY <2>4, <2>5
<1> QED BY <1>1, <1>2, DbStep

\* No worker comes to refund.
LEMMA FreshStep ==
  ASSUME TypeOK, PaymentInvariant, FreshInvariant, [Next]_vars
  PROVE  FreshInvariant'
<1> StoreOK /\ LocalOK
  BY DEF TypeOK
<1> USE DEF Refunding
<1>1. \A k \in Keys : RowFresh(row[k])'
  BY RowsFreshStep DEF RowFresh
<1> DEFINE Calm == credits' = {} /\ \A w \in Workers : pc'[w] \notin Refunding
<1>2. ASSUME UNCHANGED <<credits, pc>> PROVE Calm
  BY <1>2 DEF FreshInvariant
<1>3. ASSUME NEW w \in Workers, NEW l, pc' = [pc EXCEPT ![w] = l], l \notin Refunding,
             UNCHANGED credits
      PROVE  Calm
  BY <1>3 DEF FreshInvariant, LocalOK
<1>4. ASSUME NEW w \in Workers, UNCHANGED credits,
             Finish(w) \/ Leave(w) \/ \E l : Goto(w, l) /\ l \notin Refunding
      PROVE  Calm
  BY <1>3, <1>4 DEF Finish, Leave, Goto
<1>5. ASSUME NEW w \in Workers, UNCHANGED credits, Conclude(w) PROVE Calm
  BY <1>4, <1>5 DEF Conclude, Answer
<1>6. ASSUME NEW w \in Workers, UNCHANGED credits, pc[w] # "idle",
             Existing(w, row[job[w].key])
      PROVE  Calm
  <2>1. row[job[w].key].status # "refund_pending"
    BY <1>6, JobRow DEF FreshInvariant, RowFresh
  <2>2. CASE Finish(w)
    BY <1>4, <1>6, <2>2
  <2>3. CASE \E r : Resume(w, "publish", r)
    BY <1>3, <1>6, <2>3 DEF Resume
  <2> QED BY <1>6, <2>1, <2>2, <2>3 DEF Existing, Answer
<1>7. ASSUME NEW c \in Clients, ClientStep(c) PROVE Calm
  <2> c \in Workers
    BY DEF Workers
  <2>1. ASSUME NEW k \in Keys, NEW h \in Hashes, Request(c, k, h) PROVE Calm
    <3>1. PICK l \in {"insert", "lookup"} : pc' = [pc EXCEPT ![c] = l]
      BY <2>1 DEF Request
    <3> QED BY <1>3, <2>1, <3>1 DEF Request, asset
  <2>2. CASE Lookup(c)
    BY <1>3, <1>4, <1>6, <2>2 DEF Lookup, asset
  <2>3. ASSUME NEW acked \in Acks, Insert(c, acked) \/ Claim(c, acked) PROVE Calm
    BY <1>3, <1>4, <2>3 DEF Insert, Claim, asset
  <2>4. CASE Select(c)
    BY <1>6, <2>4 DEF Select, asset
  <2>5. ASSUME NEW k \in Keys, Poll(c, k) PROVE Calm
    BY <1>2, <2>5 DEF Poll, asset, local
  <2> QED BY <1>7, <2>1, <2>2, <2>3, <2>4, <2>5 DEF ClientStep
<1>8. ASSUME NEW w \in Workers, Execute(w) PROVE Calm
  <2>1. ~Refund(w) /\ ~RefundFails(w) /\ ~Close(w)
    BY DEF Refund, RefundFails, Close, FreshInvariant
  <2>2. CASE SpendOk(w) \/ SpendRejected(w) \/ SpendUnknown(w) \/ MarkFailed(w)
    BY <1>4, <2>2 DEF SpendOk, SpendRejected, SpendUnknown, MarkFailed, asset
  <2>3. CASE ReadPity(w) \/ Crash(w)
    BY <1>3, <2>3 DEF ReadPity, Crash, asset
  <2>4. ASSUME NEW acked \in Acks, Commit(w, acked) PROVE Calm
    <3>1. CASE Conflict(w)
      BY <1>3, <1>4, <2>4, <3>1 DEF Conflict, Commit, asset
    <3> QED BY <1>4, <2>4, <3>1 DEF Commit, asset
  <2>5. CASE Reconcile(w)
    BY <1>6, <2>5 DEF Reconcile, asset
  <2>6. CASE DrawFails(w) \/ Publish(w) \/ PublishFails(w) \/ Save(w)
    BY <1>4, <1>5, <2>6 DEF DrawFails, Publish, PublishFails, Save, asset
  <2>7. CASE StoreError(w)
    BY <1>4, <1>5, <2>7 DEF StoreError, asset
  <2> QED BY <1>8, <2>1, <2>2, <2>3, <2>4, <2>5, <2>6, <2>7 DEF Execute
<1>9. ASSUME NEW v \in Recoverers, RecoveryStep(v) PROVE Calm
  <2> v \in Workers
    BY DEF Workers
  <2>1. ASSUME NEW x \in batch[v], NEW acked \in Acks, Reclaim(v, x, acked) PROVE Calm
    BY <1>2, <1>3, <2>1 DEF Reclaim, asset
  <2>2. ASSUME NEW x \in batch[v], NEW acked \in Acks, LockRow(v, x, acked) PROVE Calm
    <3>1. x.job.key \in Keys
      BY DEF LocalOK, Records, Jobs
    <3>2. Store!Lockable(row[x.job.key], x.status) => FirstStep(x.status) \notin Refunding
      BY <3>1 DEF Store!Lockable, Store!Recoverable, FirstStep, FreshInvariant, RowFresh
    <3> QED BY <1>2, <1>3, <2>2, <3>2 DEF LockRow, asset
  <2>3. CASE Scan(v) \/ ScanError(v)
    BY <1>2, <2>3 DEF Scan, ScanError, asset
  <2>4. CASE Receipt(v) \/ ReceiptFails(v) \/ Confirm(v) \/ Release(v)
    BY <1>4, <2>4 DEF Receipt, ReceiptFails, Confirm, Release, asset
  <2> QED BY <1>9, <2>1, <2>2, <2>3, <2>4 DEF RecoveryStep
<1>10. ASSUME Environment PROVE Calm
  BY <1>2, <1>10 DEF Environment, ExpireLease, ExpireLock, LateSpend, Apply, TopUp, asset, local
<1>11. ASSUME UNCHANGED vars PROVE Calm
  BY <1>2, <1>11 DEF vars
<1>12. Calm
  BY <1>7, <1>8, <1>9, <1>10, <1>11 DEF Next
<1> QED BY <1>1, <1>12 DEF FreshInvariant

----------------------------------------------------------------------------
(* What the promise sees of one row *)

RowStage(r) == CASE r.status = "absent" -> "new"
                 [] r.status \in {"processing", "refund_pending"} -> "open"
                 [] r.status \in {"event_pending", "event_published"} -> "drawn"
                 [] r.status = "succeeded" -> "settled"
                 [] r.status = "failed" -> "refused"

RowGroup(r) == CASE r.ctx # None  -> GroupFor(r.ctx)
                 [] r.resp # None -> GroupFor(r.resp.ctx)
                 [] OTHER -> None

\* Stages and groups are read off the rows.
LEMMA RowViews ==
  /\ Stages = [k \in Keys |-> RowStage(row[k])]
  /\ Stages' = [k \in Keys |-> RowStage(row'[k])]
  /\ Targets = [k \in Keys |-> RowGroup(row[k])]
  /\ Targets' = [k \in Keys |-> RowGroup(row'[k])]
<1>1. /\ \A k \in Keys : StageOf(k) = RowStage(row[k]) /\ GroupOfRow(k) = RowGroup(row[k])
      /\ \A k \in Keys : StageOf(k)' = RowStage(row'[k]) /\ GroupOfRow(k)' = RowGroup(row'[k])
  BY DEF StageOf, GroupOfRow, RowStage, RowGroup
<1> QED BY <1>1 DEF Stages, Targets

\* One row is written.
LEMMA OneView ==
  ASSUME StoreOK, NEW k \in Keys, NEW r, row' = [row EXCEPT ![k] = r]
  PROVE  /\ Stages' = [Stages EXCEPT ![k] = RowStage(r)] /\ Stages[k] = RowStage(row[k])
         /\ Targets' = [Targets EXCEPT ![k] = RowGroup(r)] /\ Targets[k] = RowGroup(row[k])
         /\ UNCHANGED pity /\ SameDraw(r, row[k]) => UNCHANGED Tapes
<1>1. \A l \in Keys : row'[l] = IF l = k THEN r ELSE row[l]
  BY DEF StoreOK
<1>2. /\ Stages' = [Stages EXCEPT ![k] = RowStage(r)] /\ Stages[k] = RowStage(row[k])
      /\ Targets' = [Targets EXCEPT ![k] = RowGroup(r)] /\ Targets[k] = RowGroup(row[k])
  <2>1. /\ Stages = [l \in Keys |-> RowStage(row[l])]
        /\ Targets = [l \in Keys |-> RowGroup(row[l])]
    BY RowViews
  <2>2. /\ Stages' = [l \in Keys |-> RowStage(IF l = k THEN r ELSE row[l])]
        /\ Targets' = [l \in Keys |-> RowGroup(IF l = k THEN r ELSE row[l])]
    BY <1>1, RowViews
  <2> QED BY <2>1, <2>2
<1>3. ASSUME UNCHANGED pity, SameDraw(r, row[k]) PROVE UNCHANGED Tapes
  <2>1. \A l \in Keys : SameDraw(row'[l], row[l])
    BY <1>1, <1>3 DEF SameDraw
  <2> QED BY <1>3, <2>1, TapesKept
<1> QED BY <1>2, <1>3

\* One row is written and the promise does not see it.
LEMMA OneQuiet ==
  ASSUME StoreOK, UNCHANGED pity, NEW k \in Keys, NEW r, row' = [row EXCEPT ![k] = r],
         RowStage(r) = RowStage(row[k]), RowGroup(r) = RowGroup(row[k]), SameDraw(r, row[k])
  PROVE  UNCHANGED <<Stages, Targets, Tapes>>
<1>1. /\ Stages' = [Stages EXCEPT ![k] = Stages[k]]
      /\ Targets' = [Targets EXCEPT ![k] = Targets[k]]
      /\ UNCHANGED Tapes
  <2>1. /\ Stages' = [Stages EXCEPT ![k] = RowStage(r)] /\ Stages[k] = RowStage(row[k])
        /\ Targets' = [Targets EXCEPT ![k] = RowGroup(r)] /\ Targets[k] = RowGroup(row[k])
        /\ UNCHANGED pity /\ SameDraw(r, row[k]) => UNCHANGED Tapes
    BY OneView, Zenon
  <2>2. Stages' = [Stages EXCEPT ![k] = Stages[k]]
    BY <2>1, Zenon
  <2>3. Targets' = [Targets EXCEPT ![k] = Targets[k]]
    BY <2>1, Zenon
  <2> QED BY <2>1, <2>2, <2>3
<1>2. [Stages EXCEPT ![k] = Stages[k]] = Stages
  BY DEF Stages
<1>3. [Targets EXCEPT ![k] = Targets[k]] = Targets
  BY DEF Targets
<1> QED BY <1>1, <1>2, <1>3

\* What the promise sees of the tables and services a step leaves alone.
LEMMA ViewsKept ==
  /\ UNCHANGED db => UNCHANGED <<Stages, Targets, Tapes>>
  /\ UNCHANGED <<debits, credits>> => UNCHANGED Paid
  /\ UNCHANGED answered => UNCHANGED Shown
  /\ UNCHANGED applied => UNCHANGED Rewarded
<1>1. ASSUME UNCHANGED db PROVE UNCHANGED <<Stages, Targets>>
  BY <1>1, RowViews DEF db
<1>2. UNCHANGED <<debits, credits>> => UNCHANGED Paid
  BY DEF Paid, Charged, Refunded
<1> QED BY <1>1, <1>2, LogKeptViews

----------------------------------------------------------------------------
(* What the steps of the service are in the promise *)

Inv == TypeOK /\ PaymentInvariant /\ EvidenceInvariant /\ RefusalInvariant /\ FreshInvariant

\* At most a draw is shown to somebody: one that is on record.
LEMMA ShowStep ==
  ASSUME Inv', MoreAnswers, UNCHANGED <<Stages, Targets, Paid, Tapes, Rewarded>>
  PROVE  [Promise!Next]_(Promise!vars)
<1>1. CASE UNCHANGED answered
  BY <1>1, ViewsKept, PromiseStep
<1>2. ASSUME NEW a, answered' = answered \cup {a} PROVE [Promise!Next]_(Promise!vars)
  <2>1. PICK k : k = a.key
    OBVIOUS
  <2>2. a \in answered' /\ answered' \subseteq Answers
    BY <1>2 DEF Inv, TypeOK, ServicesOK
  <2>3. k \in Keys /\ row'[k].status \in Store!Committed
    BY <2>1, <2>2 DEF Answers, Inv, EvidenceInvariant, AnswersAreDurable
  <2>4. Stages'[k] \in {"drawn", "settled"}
    BY <2>3, RowViews DEF RowStage, Store!Committed
  <2>5. Shown' = Shown \cup {k}
    BY <1>2, <2>1 DEF Shown
  <2>6. Promise!Show(k)
    BY <2>3, <2>4, <2>5, PromiseActions
  <2> QED BY <2>3, <2>6, PromiseStep
<1> QED BY <1>1, <1>2 DEF MoreAnswers

\* The tables stay, and the services the promise is about.
LEMMA SilentStep ==
  ASSUME Inv', MoreAnswers, UNCHANGED <<db, debits, credits, applied>>
  PROVE  [Promise!Next]_(Promise!vars)
BY ViewsKept, ShowStep

\* A row is rewritten in a way the promise does not see.
LEMMA QuietStep ==
  ASSUME Inv, Inv', MoreAnswers, UNCHANGED <<pity, debits, credits, applied>>,
         NEW k \in Keys, NEW r, row' = [row EXCEPT ![k] = r],
         RowStage(r) = RowStage(row[k]), RowGroup(r) = RowGroup(row[k]), SameDraw(r, row[k])
  PROVE  [Promise!Next]_(Promise!vars)
BY ViewsKept, ShowStep, OneQuiet DEF Inv, TypeOK

\* The same, when request, status, context and draw stay as they are.
LEMMA UntouchedStep ==
  ASSUME Inv, Inv', UNCHANGED <<pity, debits, credits, applied, answered>>,
         NEW k \in Keys, NEW r, row' = [row EXCEPT ![k] = r],
         r.status = row[k].status, r.ctx = row[k].ctx, r.resp = row[k].resp
  PROVE  [Promise!Next]_(Promise!vars)
BY QuietStep DEF MoreAnswers, RowStage, RowGroup, SameDraw

\* The first claim of a new operation opens it for the group of its context.
LEMMA OpenStep ==
  ASSUME Inv, Inv', NEW c \in Clients, Opening(c)
  PROVE  [Promise!Next]_(Promise!vars)
<1>1. PICK k, x, r : k = job[c].key /\ x = job[c].ctx /\ r = Store!Inserted(job[c].hash, c, x)
  OBVIOUS
<1>2. k \in Keys /\ x \in Contexts /\ x # None
  BY <1>1, Prepared, ServiceAssumption DEF Opening, Inv, TypeOK, Workers, WithContext
<1>3. r.status = "processing" /\ r.ctx = x /\ r.resp = None
  BY <1>1 DEF Store!Inserted, Store!Absent
<1>4. RowStage(r) = "open" /\ RowGroup(r) = GroupFor(x)
  BY <1>2, <1>3 DEF RowStage, RowGroup
<1>5. row[k] = Store!Absent /\ row' = [row EXCEPT ![k] = r] /\ UNCHANGED pity
  BY <1>1 DEF Opening, OnlyRow
<1>6. RowStage(row[k]) = "new" /\ SameDraw(r, row[k])
  BY <1>3, <1>5 DEF RowStage, SameDraw, Store!Absent, Store!Committed
<1>7. /\ Stages[k] = "new" /\ Stages' = [Stages EXCEPT ![k] = "open"]
      /\ Targets' = [Targets EXCEPT ![k] = GroupFor(x)]
      /\ UNCHANGED Tapes
  <2>1. /\ Stages' = [Stages EXCEPT ![k] = RowStage(r)] /\ Stages[k] = RowStage(row[k])
        /\ Targets' = [Targets EXCEPT ![k] = RowGroup(r)]
        /\ UNCHANGED pity /\ SameDraw(r, row[k]) => UNCHANGED Tapes
    BY <1>2, <1>5, OneView DEF Inv, TypeOK
  <2> QED BY <1>3, <1>4, <1>5, <1>6, <2>1
<1>8. UNCHANGED <<Paid, Shown, Rewarded>>
  BY ViewsKept DEF Opening, OnlyRow
<1>9. PICK g \in Groups : g = GroupFor(x)
  BY <1>2, ContextType
<1>10. Promise!Open(k, g)
  BY <1>2, <1>7, <1>8, <1>9, PromiseActions
<1> QED BY <1>2, <1>9, <1>10, PromiseStep

\* A later claim finds a context and keeps it.
LEMMA ClaimStep ==
  ASSUME Inv, Inv', NEW c \in Clients, Claiming(c)
  PROVE  [Promise!Next]_(Promise!vars)
<1>1. PICK k, r : k = job[c].key /\ r = Store!Claimed(row[k], c, job[c].ctx)
  OBVIOUS
<1>2. /\ k \in Keys /\ row[k] \in Store!Rows /\ RowFresh(row[k])
      /\ row[k].status = "processing" /\ row' = [row EXCEPT ![k] = r] /\ OnlyRow
  BY <1>1, JobRow DEF Claiming, Inv, TypeOK, Workers, FreshInvariant, Store!Claimable
<1>3. r.status = row[k].status /\ r.ctx = row[k].ctx /\ r.resp = row[k].resp
  BY <1>1, <1>2 DEF RowFresh, Store!Claimed, Store!Rows
<1> QED BY <1>2, <1>3, UntouchedStep DEF OnlyRow

\* A spend is the payment of an open operation, or was made before.
LEMMA PayStep ==
  ASSUME Inv, Inv', NEW d \in Entries, Paying(d)
  PROVE  [Promise!Next]_(Promise!vars)
<1>1. PICK k : k = d.op
  OBVIOUS
<1>2. k \in Keys /\ row[k].status = "processing"
  <2>1. PICK w \in Workers : pc[w] = "spend" /\ d = Debit(w)
    BY DEF Paying, Inv, RefusalInvariant
  <2>2. k = job[w].key
    BY <1>1, <2>1 DEF Debit
  <2> QED BY <2>1, <2>2, Prepared DEF Inv, TypeOK, RefusalInvariant, Entitled, Executing
<1>3. Stages[k] = "open"
  BY <1>2, RowViews DEF RowStage
<1>4. UNCHANGED <<Stages, Targets, Tapes, Shown, Rewarded>>
  BY ViewsKept DEF Paying
<1>5. CASE UNCHANGED debits
  <2>1. UNCHANGED Paid
    BY <1>5, ViewsKept DEF Paying
  <2> QED BY <1>4, <2>1, PromiseStep
<1>6. CASE debits' = debits \cup {d}
  <2>1. credits = {} /\ credits' = {}
    BY DEF Inv, FreshInvariant
  <2>2. Paid = {l \in Keys : \E e \in debits : e.op = l}
    BY <2>1 DEF Paid, Charged, Refunded
  <2>3. Paid' = {l \in Keys : \E e \in debits' : e.op = l}
    BY <2>1 DEF Paid, Charged, Refunded
  <2>4. Paid' = Paid \cup {k}
    BY <1>1, <1>2, <1>6, <2>2, <2>3
  <2>5. Promise!Pay(k)
    BY <1>2, <1>3, <1>4, <2>4, PromiseActions
  <2> QED BY <1>2, <2>5, PromiseStep
<1> QED BY <1>5, <1>6 DEF Paying

\* An operation is given up: it is refused, uncharged.
LEMMA RefuseStep ==
  ASSUME Inv, Inv', NEW w \in Workers, Failing(w)
  PROVE  [Promise!Next]_(Promise!vars)
<1>1. PICK k, r : k = job[w].key /\ r = Store!Transitioned(row[k], "failed", None)
  OBVIOUS
<1>2. /\ k \in Keys /\ row[k] \in Store!Rows /\ RowFresh(row[k])
      /\ row[k].status = "processing" /\ ~Charged(k)
  BY <1>1, JobRow
     DEF Failing, Inv, TypeOK, FreshInvariant, RefusalInvariant, Entitled, Store!OwnedBy
<1>3. r.status = "failed" /\ r.ctx = None /\ r.resp = None
  BY <1>1, <1>2 DEF Store!Transitioned, Store!Rows
<1>4. RowStage(r) = "refused" /\ RowGroup(r) = None
  BY <1>3 DEF RowStage, RowGroup
<1>5. RowStage(row[k]) = "open" /\ SameDraw(r, row[k])
  BY <1>2, <1>3 DEF RowStage, SameDraw, Store!Committed
<1>6. row' = [row EXCEPT ![k] = r] /\ UNCHANGED pity
  BY <1>1 DEF Failing, OnlyRow
<1>7. /\ Stages[k] = "open" /\ Stages' = [Stages EXCEPT ![k] = "refused"]
      /\ Targets' = [Targets EXCEPT ![k] = None]
      /\ UNCHANGED Tapes
  <2>1. /\ Stages' = [Stages EXCEPT ![k] = RowStage(r)] /\ Stages[k] = RowStage(row[k])
        /\ Targets' = [Targets EXCEPT ![k] = RowGroup(r)]
        /\ UNCHANGED pity /\ SameDraw(r, row[k]) => UNCHANGED Tapes
    BY <1>2, <1>6, OneView DEF Inv, TypeOK
  <2> QED BY <1>3, <1>4, <1>5, <1>6, <2>1
<1>8. UNCHANGED <<Paid, Shown, Rewarded>> /\ k \notin Paid
  BY <1>2, ViewsKept DEF Failing, OnlyRow, Paid
<1>9. Promise!Refuse(k)
  BY <1>2, <1>7, <1>8, PromiseActions
<1> QED BY <1>2, <1>9, PromiseStep

\* Delivery goes on: the draw stays, and is settled if Backpack has it.
LEMMA DeliverStep ==
  ASSUME Inv, Inv', NEW w \in Workers, Reporting(w)
  PROVE  [Promise!Next]_(Promise!vars)
<1>0. PICK s \in {"event_published", "succeeded"}, p \in Responses :
        /\ s = "succeeded" => pc[w] = "confirm" /\ UNCHANGED answered
        /\ Written(job[w].key, Store!Updated(row[job[w].key], s, p))
  BY DEF Reporting
<1>1. PICK k, r : k = job[w].key /\ r = Store!Updated(row[k], s, p)
  OBVIOUS
<1>2. /\ k \in Keys /\ row[k] \in Store!Rows /\ row[k].status \in Store!Committed
      /\ RowFresh(row[k])
  BY <1>1, Known DEF Reporting, Inv, Grounded, Delivering, FreshInvariant
<1>3. UNCHANGED <<Paid, Rewarded>>
  BY ViewsKept DEF Reporting
<1>4. CASE UNCHANGED row
  BY <1>4, SilentStep DEF Reporting, db
<1>5. CASE row' = [row EXCEPT ![k] = r] /\ Store!TriggerAllows(row[k], r)
  <2>1. r.status = s /\ r.ctx = None /\ r.resp = p
    BY <1>1, <1>2 DEF Store!Updated, Store!Transitioned, Store!Rows
  <2>2. p = row[k].resp /\ row[k].status \in {"event_pending", "event_published"}
    BY <1>2, <1>5, <2>1 DEF Store!TriggerAllows, Store!Committed
  <2>3. row[k].ctx = None /\ RowStage(row[k]) = "drawn"
    BY <1>2, <2>2 DEF RowFresh, RowStage
  <2>4. RowGroup(r) = RowGroup(row[k]) /\ SameDraw(r, row[k])
    BY <1>2, <2>1, <2>2, <2>3 DEF RowGroup, SameDraw, Store!Committed
  <2>5. CASE s = "event_published"
    <3>1. RowStage(r) = "drawn"
      BY <2>1, <2>5 DEF RowStage
    <3>2. MoreAnswers /\ UNCHANGED <<pity, debits, credits, applied>>
      BY DEF Reporting
    <3>3. RowStage(r) = RowStage(row[k])
      BY <2>3, <3>1
    <3> QED BY <1>2, <1>5, <2>4, <3>2, <3>3, QuietStep, Zenon
  <2>6. CASE s = "succeeded"
    <3>1. RowStage(r) = "settled"
      BY <2>1, <2>6 DEF RowStage
    <3>2. \E e \in applied : e.key = k
      BY <1>0, <1>1, <2>6 DEF Inv, EvidenceInvariant, Agrees
    <3>3. k \in Rewarded
      BY <3>2 DEF Rewarded
    <3>4. /\ Stages[k] = "drawn" /\ Stages' = [Stages EXCEPT ![k] = "settled"]
          /\ Targets' = [Targets EXCEPT ![k] = Targets[k]]
          /\ UNCHANGED Tapes
      <4>1. /\ Stages' = [Stages EXCEPT ![k] = RowStage(r)] /\ Stages[k] = RowStage(row[k])
            /\ Targets' = [Targets EXCEPT ![k] = RowGroup(r)] /\ Targets[k] = RowGroup(row[k])
            /\ UNCHANGED pity /\ SameDraw(r, row[k]) => UNCHANGED Tapes
        BY <1>2, <1>5, OneView DEF Inv, TypeOK
      <4> QED BY <2>3, <2>4, <3>1, <4>1 DEF Reporting
    <3>5. UNCHANGED Targets
      BY <3>4 DEF Targets
    <3>6. UNCHANGED Shown
      BY <1>0, <2>6, ViewsKept
    <3>7. Promise!Settle(k)
      BY <1>2, <1>3, <3>3, <3>4, <3>5, <3>6, PromiseActions
    <3> QED BY <1>2, <3>7, PromiseStep
  <2> QED BY <2>5, <2>6
<1> QED BY <1>0, <1>1, <1>4, <1>5 DEF Written

\* Backpack rewards a draw once, and before it is settled.
LEMMA RewardStep ==
  ASSUME Inv, Inv', NEW e \in topic, Rewarding(e)
  PROVE  [Promise!Next]_(Promise!vars)
<1>1. PICK k : k = e.key
  OBVIOUS
<1>2. k \in Keys /\ row[k].status \in Store!Committed
  BY <1>1 DEF Inv, TypeOK, ServicesOK, Events, EvidenceInvariant, OneResultPerEvent
<1>3. row[k].status # "succeeded"
  BY <1>1, <1>2 DEF Rewarding, Apply, Inv, EvidenceInvariant, SucceededIsApplied
<1>4. Stages[k] = "drawn"
  BY <1>2, <1>3, RowViews DEF RowStage, Store!Committed
<1>5. Rewarded' = Rewarded \cup {k}
  BY <1>1 DEF Rewarding, Apply, Rewarded
<1>6. UNCHANGED <<Stages, Targets, Paid, Tapes, Shown>>
  BY ViewsKept DEF Rewarding, Apply, asset
<1>7. Promise!Reward(k)
  BY <1>2, <1>4, <1>5, <1>6, PromiseActions
<1> QED BY <1>2, <1>7, PromiseStep

\* The commit is the draw of a paid operation.
LEMMA DrawStep ==
  ASSUME Inv, Inv', NEW w \in Workers, Drawing(w)
  PROVE  [Promise!Next]_(Promise!vars)
<1> TypeOK /\ PaymentInvariant /\ EvidenceInvariant /\ StoreOK /\ Draws(w)
  BY DEF Inv, TypeOK, Drawing
<1>0. PICK d, p : d = job[w].key /\ p = job[w].resp
  OBVIOUS
<1>1. PICK h, r : h = GroupFor(p.ctx) /\ r = Store!Updated(row[d], "event_pending", p)
  OBVIOUS
<1>2. /\ d \in Keys /\ row[d].status = "processing" /\ Charged(d)
      /\ row[d].ctx = p.ctx /\ p.ctx \in Contexts /\ p \in Responses
      /\ row' = [row EXCEPT ![d] = r]
      /\ r.status = "event_pending" /\ r.ctx = None /\ r.resp = p
  BY <1>0, <1>1, DrawnRow
<1>3. Tapes' = [Tapes EXCEPT ![h] = Append(@, d)]
  BY <1>0, <1>1, TapeGrows
<1>4. /\ RowStage(row[d]) = "open" /\ RowGroup(row[d]) = h
      /\ RowStage(r) = "drawn" /\ RowGroup(r) = h
  <2>1. p # None /\ p.ctx # None /\ row[d].resp = None
    BY <1>2, ServiceAssumption DEF Inv, FreshInvariant, RowFresh, Store!Committed
  <2> QED BY <1>1, <1>2, <2>1 DEF RowStage, RowGroup
<1>5. /\ Stages[d] = "open" /\ Stages' = [Stages EXCEPT ![d] = "drawn"]
      /\ Targets[d] = h /\ UNCHANGED Targets
  <2>1. /\ Stages' = [Stages EXCEPT ![d] = RowStage(r)] /\ Stages[d] = RowStage(row[d])
        /\ Targets' = [Targets EXCEPT ![d] = RowGroup(r)] /\ Targets[d] = RowGroup(row[d])
    BY <1>2, OneView, Zenon
  <2> QED BY <1>4, <2>1 DEF Targets
<1>6. d \in Paid /\ UNCHANGED <<Paid, Shown, Rewarded>>
  BY <1>2, ViewsKept DEF Paid, Refunded, Inv, FreshInvariant, Drawing, Draws
<1>7. Promise!Draw(d)
  BY <1>2, <1>3, <1>5, <1>6, PromiseActions
<1> QED BY <1>2, <1>7, PromiseStep

\* Every effect is a step of the promise, or none.
LEMMA PromiseEffect ==
  ASSUME Inv, Inv', [Next]_vars
  PROVE  [Promise!Next]_(Promise!vars)
<1>1. Effect
  BY EffectStep DEF Inv
<1>2. CASE Silent
  BY <1>2, SilentStep DEF Silent
<1>3. ASSUME NEW k \in Keys, Touching(k) PROVE [Promise!Next]_(Promise!vars)
  BY <1>3, UntouchedStep DEF Touching, OnlyRow
<1>4. ASSUME NEW c \in Clients, Opening(c) \/ Claiming(c) PROVE [Promise!Next]_(Promise!vars)
  BY <1>4, OpenStep, ClaimStep
<1>5. ASSUME NEW w \in Workers PROVE ~Crediting(w) /\ ~Closing(w)
  BY DEF Crediting, Closing, Inv, FreshInvariant, Refunding
<1>6. ASSUME NEW w \in Workers, Failing(w) \/ Drawing(w) \/ Reporting(w)
      PROVE  [Promise!Next]_(Promise!vars)
  BY <1>6, RefuseStep, DrawStep, DeliverStep
<1> QED BY <1>1, <1>2, <1>3, <1>4, <1>5, <1>6, PayStep, RewardStep DEF Effect

----------------------------------------------------------------------------
(* The start, and the theorems *)

\* The service starts where the promise starts.
LEMMA PromiseInit ==
  ASSUME Fresh, Init
  PROVE  FreshInvariant /\ Promise!Init
<1>1. \A k \in Keys : row[k] = Store!Absent
  BY DEF Fresh, Init
<1>2. FreshInvariant
  BY <1>1 DEF Init, FreshInvariant, RowFresh, Refunding, Store!Absent, Store!Committed
<1>3. \A k \in Keys : RowStage(row[k]) = "new" /\ RowGroup(row[k]) = None
  BY <1>1 DEF RowStage, RowGroup, Store!Absent
<1>4. Stages = [k \in Keys |-> "new"] /\ Targets = [k \in Keys |-> None]
  BY <1>3, RowViews
<1>5. \A g \in Groups : pity[g].version = 0
  BY <1>1 DEF Init, StartDrawn, NoPity, Store!Absent, Store!Committed
<1>6. Tapes = [g \in Groups |-> <<>>]
  <2>1. ASSUME NEW g \in Groups PROVE [n \in 1..pity[g].version |-> Pick(At(g, n))] = <<>>
    BY <1>5
  <2> QED BY <2>1, TapeViews
<1>7. Paid = {} /\ Shown = {} /\ Rewarded = {}
  <2>1. debits = {}
    BY <1>1 DEF Init, Store!Absent, Store!Committed
  <2> QED BY <2>1 DEF Init, Paid, Charged, Shown, Rewarded
<1>8. Promise!Init
  BY <1>4, <1>6, <1>7 DEF Promise!Init, Stages, Targets, Tapes, Paid, Shown, Rewarded
<1> QED BY <1>2, <1>8

\* Nothing is refunded that was opened by this engine: it is drawn or refused.
THEOREM FreshCorrect ==
  ASSUME Fresh
  PROVE  Spec => []FreshInvariant
<1>1. Init => FreshInvariant
  BY PromiseInit
<1>2. TypeOK /\ PaymentInvariant /\ FreshInvariant /\ [Next]_vars => FreshInvariant'
  BY FreshStep
<1> QED BY <1>1, <1>2, TypeCorrect, PaymentCorrect, PTL DEF Spec

\* Refinement.  Whatever is retried, taken over, lost or repeated, the service
\* does for each user what PullPromise says and nothing else.
THEOREM PromiseIsKept ==
  ASSUME Prompt, Fresh
  PROVE  Spec => PromiseKept
<1>1. Init => Promise!Init
  BY PromiseInit
<1>2. Inv /\ Inv' /\ [Next]_vars => [Promise!Next]_(Promise!vars)
  BY PromiseEffect
<1>3. TypeOK /\ PaymentInvariant /\ EvidenceInvariant /\ RefusalInvariant /\ FreshInvariant => Inv
  BY DEF Inv
<1> QED BY <1>1, <1>2, <1>3, TypeCorrect, PaymentCorrect, EvidenceCorrect, RefusalCorrect,
           FreshCorrect, PTL DEF PromiseKept, Spec, Promise!Spec
=============================================================================
