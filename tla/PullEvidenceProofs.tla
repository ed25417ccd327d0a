------------------------- MODULE PullEvidenceProofs -------------------------
(* What is on record about a pull, and whose pity it starts from: theorems   *)
(* for every value of the constants.  The inductive invariant is             *)
(* EvidenceInvariant; it stands on PaymentInvariant, which says at which     *)
(* steps a worker may rely on a committed row.                               *)
EXTENDS PullPaymentProofs

----------------------------------------------------------------------------
(* What a step may do to the tables *)

\* Statements that leave request, status, context and draw alone.
Untouched(k) ==
  /\ row'[k].status = row[k].status /\ row'[k].hash = row[k].hash
  /\ row'[k].ctx = row[k].ctx /\ row'[k].resp = row[k].resp

Opens(c, k) ==
  /\ pc[c] = "insert" /\ job[c].key = k /\ row[k] = Store!Absent
  /\ row'[k] = Store!Inserted(job[c].hash, c, job[c].ctx)

TakesOver(c, k) ==
  /\ pc[c] = "claim" /\ job[c].key = k /\ Store!Claimable(row[k], job[c].hash)
  /\ row'[k] = Store!Claimed(row[k], c, job[c].ctx)

GivesUp(w, k) ==
  /\ pc[w] = "fail" /\ job[w].key = k /\ Store!OwnedBy(row[k], job[w].hash, w)
  /\ row'[k] = Store!Transitioned(row[k], "failed", None)
  /\ pc'[w] = "idle"

Delivers(w, k) ==
  /\ pc[w] \in {"save", "confirm"} /\ job[w].key = k /\ row[k].status \in Store!Committed
  /\ \E s \in {"event_published", "succeeded"}, p \in Responses :
       /\ s = "succeeded" => pc[w] = "confirm"
       /\ Store!TriggerAllows(row[k], Store!Updated(row[k], s, p))
       /\ row'[k] = Store!Updated(row[k], s, p)

Closes(k) == /\ \E w \in Workers : pc[w] = "close" /\ job[w].key = k
             /\ row[k].status \in Returned
             /\ row'[k] = Store!Updated(row[k], "failed", None)

Ordinary(k) ==
  \/ Untouched(k)
  \/ \E c \in Clients : Opens(c, k) \/ TakesOver(c, k)
  \/ \E w \in Workers : GivesUp(w, k) \/ Delivers(w, k)
  \/ Closes(k)

\* The commit transaction takes effect.
Draws(w) ==
  LET k == job[w].key
      p == job[w].resp
      g == GroupFor(p.ctx)
  IN /\ pc[w] = "commit" /\ Store!OwnedBy(row[k], job[w].hash, w) /\ ~Outdated(p)
     /\ pity' = [pity EXCEPT ![g] = [version |-> @.version + 1, by |-> k]]
     /\ row' = [row EXCEPT ![k] = Store!Updated(@, "event_pending", p)]
     /\ \E l \in {"publish", "reconcile"} : Goto(w, l)
     /\ UNCHANGED <<topic, applied, answered>>

\* Whatever happens to one row, the others are untouched.
LEMMA OthersUntouched ==
  ASSUME StoreOK, NEW k \in Keys, NEW r, row' = [row EXCEPT ![k] = r]
  PROVE  row'[k] = r /\ \A l \in Keys \ {k} : Untouched(l)
BY DEF StoreOK, Untouched

\* Claims by recovery, locks, releases and expiries touch nothing that counts.
LEMMA UntouchedRows ==
  ASSUME NEW r \in Store!Rows
  PROVE  \A new \in {Store!Reclaimed(r, w) : w \in Workers} \cup
                    {Store!Locked(r), Store!Released(r),
                     [r EXCEPT !.leased = FALSE], [r EXCEPT !.locked = FALSE]} :
           new.status = r.status /\ new.hash = r.hash /\ new.ctx = r.ctx /\ new.resp = r.resp
BY DEF Store!Rows, Store!Reclaimed, Store!Locked, Store!Released

\* Every step is a commit, or leaves pity alone and changes rows as above.
LEMMA DbStep ==
  ASSUME TypeOK, PaymentInvariant, [Next]_vars
  PROVE  \/ UNCHANGED pity /\ \A k \in Keys : Ordinary(k)
         \/ \E w \in Workers : Draws(w)
<1> DEFINE Calm == UNCHANGED pity /\ \A k \in Keys : Ordinary(k)
<1> StoreOK /\ LocalOK
  BY DEF TypeOK
<1>1. ASSUME UNCHANGED db PROVE Calm
  BY <1>1 DEF db, Ordinary, Untouched
<1>2. ASSUME NEW c \in Clients, ClientStep(c) PROVE Calm
  <2>1. ASSUME NEW acked \in Acks, Insert(c, acked), ~UNCHANGED db PROVE Calm
    <3> DEFINE k == job[c].key
               new == Store!Inserted(job[c].hash, c, job[c].ctx)
    <3>1. /\ pc[c] = "insert" /\ row[k] = Store!Absent
          /\ row' = [row EXCEPT ![k] = new] /\ UNCHANGED pity
      BY <2>1 DEF Insert, db
    <3>2. k \in Keys
      BY <3>1, JobRow DEF Workers
    <3>3. row'[k] = new /\ \A l \in Keys \ {k} : Untouched(l)
      <4> HIDE DEF k, new
      <4> QED BY <3>1, <3>2, OthersUntouched
    <3>4. Opens(c, k)
      BY <3>1, <3>3 DEF Opens
    <3> QED BY <3>1, <3>3, <3>4 DEF Ordinary
  <2>2. ASSUME NEW acked \in Acks, Claim(c, acked), ~UNCHANGED db PROVE Calm
    <3> DEFINE k == job[c].key
               new == Store!Claimed(row[k], c, job[c].ctx)
    <3>1. /\ pc[c] = "claim" /\ Store!Claimable(row[k], job[c].hash)
          /\ row' = [row EXCEPT ![k] = new] /\ UNCHANGED pity
      BY <2>2 DEF Claim, db
    <3>2. k \in Keys
      BY <3>1, JobRow DEF Workers
    <3>3. row'[k] = new /\ \A l \in Keys \ {k} : Untouched(l)
      <4> HIDE DEF k, new
      <4> QED BY <3>1, <3>2, OthersUntouched
    <3>4. TakesOver(c, k)
      BY <3>1, <3>3 DEF TakesOver
    <3> QED BY <3>1, <3>3, <3>4 DEF Ordinary
  <2> QED
    BY <1>1, <1>2, <2>1, <2>2 DEF ClientStep, Request, Poll, Lookup, Select
<1>3. ASSUME NEW w \in Workers, MarkFailed(w) PROVE Calm
  <2> DEFINE k == job[w].key
             new == Store!Transitioned(row[k], "failed", None)
  <2>1. pc[w] = "fail" /\ k \in Keys /\ UNCHANGED pity /\ pc'[w] = "idle"
    BY <1>3, JobRow DEF MarkFailed, Finish, LocalOK
  <2>2. CASE ~Store!OwnedBy(row[k], job[w].hash, w)
    BY <1>1, <1>3, <2>2 DEF MarkFailed, db
  <2>3. CASE Store!OwnedBy(row[k], job[w].hash, w)
    <3>1. row' = [row EXCEPT ![k] = new]
      BY <1>3, <2>3 DEF MarkFailed
    <3>2. row'[k] = new /\ \A l \in Keys \ {k} : Untouched(l)
      <4> HIDE DEF k, new
      <4> QED BY <2>1, <3>1, OthersUntouched
    <3>3. GivesUp(w, k)
      BY <2>1, <2>3, <3>2 DEF GivesUp
    <3> QED BY <2>1, <3>2, <3>3 DEF Ordinary
  <2> QED BY <2>2, <2>3
<1>4. ASSUME NEW w \in Workers, NEW acked \in Acks, Commit(w, acked)
      PROVE  UNCHANGED db \/ Draws(w)
  <2>1. acked \in BOOLEAN
    BY DEF Acks
  <2> QED BY <1>4, <2>1 DEF Commit, Draws, asset, bus
<1>5. ASSUME NEW w \in Workers, Save(w) \/ Confirm(w), ~UNCHANGED db PROVE Calm
  <2> DEFINE k == job[w].key
  <2>1. /\ pc[w] \in {"save", "confirm"} /\ k \in Keys
        /\ row[k].status \in Store!Committed
        /\ job[w].resp \in Responses /\ UNCHANGED pity
    BY <1>5, Known, Prepared DEF Save, Confirm, Grounded, Delivering, WithResponse
  <2>2. Serialised(job[w].resp) \in Responses
    BY <2>1 DEF Serialised, Responses
  <2>3. PICK s \in {"event_published", "succeeded"}, p \in Responses :
          /\ s = "succeeded" => pc[w] = "confirm"
          /\ Written(k, Store!Updated(row[k], s, p))
    BY <1>5, <2>2 DEF Save, Confirm
  <2> DEFINE new == Store!Updated(row[k], s, p)
  <2>4. row' = [row EXCEPT ![k] = new] /\ Store!TriggerAllows(row[k], new)
    BY <1>5, <2>1, <2>3 DEF Written, db
  <2>5. row'[k] = new /\ \A l \in Keys \ {k} : Untouched(l)
    <3> HIDE DEF k, new
    <3> QED BY <2>1, <2>4, OthersUntouched
  <2>6. Delivers(w, k)
    BY <2>1, <2>3, <2>4, <2>5 DEF Delivers
  <2> QED BY <2>1, <2>5, <2>6 DEF Ordinary
<1>6. ASSUME NEW w \in Workers, Close(w), ~UNCHANGED db PROVE Calm
  <2> DEFINE k == job[w].key
             new == Store!Updated(row[k], "failed", None)
  <2>1. k \in Keys /\ row[k].status \in Returned /\ UNCHANGED pity
    BY <1>6, Known DEF Close, Grounded, Refunding
  <2>2. row' = [row EXCEPT ![k] = new]
    BY <1>6, <2>1 DEF Close, Written, db
  <2>3. row'[k] = new /\ \A l \in Keys \ {k} : Untouched(l)
    <3> HIDE DEF k, new
    <3> QED BY <2>1, <2>2, OthersUntouched
  <2>4. pc[w] = "close"
    BY <1>6 DEF Close
  <2>5. Closes(k)
    BY <2>1, <2>3, <2>4 DEF Closes
  <2> QED BY <2>1, <2>3, <2>5 DEF Ordinary
<1>7. ASSUME NEW k \in Keys, UNCHANGED pity,
             NEW new \in {Store!Reclaimed(row[k], w) : w \in Workers} \cup
                         {Store!Locked(row[k]), Store!Released(row[k]),
                          [row[k] EXCEPT !.leased = FALSE], [row[k] EXCEPT !.locked = FALSE]},
             row' = [row EXCEPT ![k] = new]
      PROVE  Calm
  <2>1. row[k] \in Store!Rows
    BY DEF StoreOK
  <2>2. /\ new.status = row[k].status /\ new.hash = row[k].hash
        /\ new.ctx = row[k].ctx /\ new.resp = row[k].resp
    BY <1>7, <2>1, UntouchedRows
  <2>3. row'[k] = new /\ \A l \in Keys \ {k} : Untouched(l)
    BY <1>7, OthersUntouched
  <2>4. Untouched(k)
    BY <2>2, <2>3 DEF Untouched
  <2> QED BY <1>7, <2>3, <2>4 DEF Ordinary
<1>8. ASSUME NEW w \in Workers, Execute(w) PROVE Calm \/ Draws(w)
  BY <1>1, <1>3, <1>4, <1>5, <1>6, <1>8
     DEF Execute, SpendOk, SpendRejected, SpendUnknown, ReadPity, DrawFails, Reconcile, Publish,
         PublishFails, Refund, RefundFails, StoreError, Crash
<1>9. ASSUME NEW v \in Recoverers, RecoveryStep(v) PROVE Calm
  <2> v \in Workers
    BY DEF Workers
  <2>1. ASSUME NEW x \in batch[v], NEW acked \in Acks,
               Reclaim(v, x, acked) \/ LockRow(v, x, acked)
        PROVE  Calm
    <3>1. x.job.key \in Keys
      BY DEF LocalOK, Records, Jobs
    <3>2. UNCHANGED pity
      BY <2>1 DEF Reclaim, LockRow
    <3> QED BY <1>1, <1>7, <2>1, <3>1, <3>2 DEF Reclaim, LockRow, db
  <2>2. CASE Release(v)
    <3>1. job[v].key \in Keys /\ UNCHANGED pity
      BY <2>2, JobRow DEF Release
    <3> QED BY <1>7, <2>2, <3>1 DEF Release
  <2> QED
    BY <1>1, <1>5, <1>9, <2>1, <2>2 DEF RecoveryStep, Scan, ScanError, Receipt, ReceiptFails
<1>10. CASE Environment
  <2>1. ASSUME NEW k \in Keys, ExpireLease(k) \/ ExpireLock(k) PROVE Calm
    BY <1>7, <2>1 DEF ExpireLease, ExpireLock
  <2> QED BY <1>1, <1>10, <2>1 DEF Environment, LateSpend, Apply, TopUp
<1>11. CASE UNCHANGED vars
  BY <1>1, <1>11 DEF vars, db
<1> QED BY <1>2, <1>8, <1>9, <1>10, <1>11 DEF Next

----------------------------------------------------------------------------
(* What stays as it is *)

\* An operation keeps its request; while it is being processed its context, once
\* drawn its draw; and it is never processed again.
RowKept(k) ==
  /\ row[k].status # "absent" => row'[k].status # "absent" /\ row'[k].hash = row[k].hash
  /\ row[k].status # "absent" /\ row'[k].status = "processing" =>
       /\ row[k].status = "processing"
       /\ row[k].ctx # None => row'[k].ctx = row[k].ctx
  /\ row[k].status \in Store!Committed =>
       /\ row'[k].status \in Store!Committed /\ row'[k].resp = row[k].resp
       /\ Rank(row'[k].status) >= Rank(row[k].status)

Kept == \A k \in Keys : RowKept(k)

\* The version of a group never goes back, and names one draw.
PityKept ==
  \A g \in Groups : /\ pity'[g].version >= pity[g].version
                    /\ pity'[g].version = pity[g].version => pity'[g] = pity[g]

\* No step takes back a draw, a context or a pity version.
LEMMA KeptStep ==
  ASSUME TypeOK, PaymentInvariant, [Next]_vars
  PROVE  Kept /\ PityKept
<1> StoreOK /\ LocalOK
  BY DEF TypeOK
<1> USE DEF Store!Committed, Rank
<1>1. ASSUME NEW k \in Keys, Ordinary(k) PROVE RowKept(k)
  <2>0. row[k] \in Store!Rows
    BY DEF StoreOK
  <2>1. CASE Untouched(k)
    BY <2>1 DEF Untouched, RowKept
  <2>2. ASSUME NEW c \in Clients, Opens(c, k) PROVE RowKept(k)
    BY <2>2 DEF Opens, RowKept, Store!Absent
  <2>3. ASSUME NEW c \in Clients, TakesOver(c, k) PROVE RowKept(k)
    BY <2>0, <2>3 DEF TakesOver, RowKept, Store!Claimable, Store!Claimed, Store!Rows
  <2>4. ASSUME NEW w \in Workers, GivesUp(w, k) PROVE RowKept(k)
    BY <2>0, <2>4 DEF GivesUp, RowKept, Store!OwnedBy, Store!Transitioned, Store!Rows
  <2>5. ASSUME NEW w \in Workers, Delivers(w, k) PROVE RowKept(k)
    <3>1. PICK s \in {"event_published", "succeeded"}, p \in Responses :
            /\ Store!TriggerAllows(row[k], Store!Updated(row[k], s, p))
            /\ row'[k] = Store!Updated(row[k], s, p)
      BY <2>5 DEF Delivers
    <3>2. row'[k].status = s /\ row'[k].resp = p /\ row'[k].hash = row[k].hash
      BY <2>0, <3>1 DEF Store!Updated, Store!Transitioned, Store!Rows
    <3> QED BY <2>5, <3>1, <3>2 DEF Delivers, RowKept, Store!TriggerAllows
  <2>6. CASE Closes(k)
    BY <2>0, <2>6 DEF Closes, RowKept, Returned, Store!Updated, Store!Transitioned, Store!Rows
  <2> QED BY <1>1, <2>1, <2>2, <2>3, <2>4, <2>5, <2>6 DEF Ordinary
<1>2. ASSUME NEW w \in Workers, Draws(w), NEW k \in Keys PROVE RowKept(k)
  <2> DEFINE d == job[w].key
             new == Store!Updated(row[d], "event_pending", job[w].resp)
  <2>1. /\ d \in Keys /\ row[d] \in Store!Rows /\ row[d].status = "processing"
        /\ row' = [row EXCEPT ![d] = new]
    BY <1>2, Known DEF Draws, Store!OwnedBy
  <2>2. new.status = "event_pending" /\ new.hash = row[d].hash
    BY <2>1 DEF Store!Updated, Store!Transitioned, Store!Rows
  <2>3. row'[d] = new /\ \A l \in Keys \ {d} : Untouched(l)
    <3> HIDE DEF d, new
    <3> QED BY <2>1, OthersUntouched
  <2>4. CASE k = d
    BY <2>1, <2>2, <2>3, <2>4 DEF RowKept
  <2>5. CASE k # d
    BY <2>3, <2>5 DEF Untouched, RowKept
  <2> QED BY <2>4, <2>5
<1>3. ASSUME NEW w \in Workers, Draws(w) PROVE PityKept
  <2> DEFINE g == GroupFor(job[w].resp.ctx)
  <2>1. pity' = [pity EXCEPT ![g] = [version |-> @.version + 1, by |-> job[w].key]]
    BY <1>3 DEF Draws
  <2> HIDE DEF g
  <2> QED BY <2>1 DEF PityKept, StoreOK, PityStates
<1>4. ASSUME UNCHANGED pity PROVE PityKept
  BY <1>4 DEF PityKept, StoreOK, PityStates
<1> QED BY <1>1, <1>2, <1>3, <1>4, DbStep DEF Kept

\* A committed row keeps its draw for good, and its delivery never goes back.
THEOREM EvidenceStays == Spec => EvidenceIsStable
<1>1. TypeOK /\ PaymentInvariant /\ [Next]_vars =>
        [\A k \in Keys : row[k].status \in Store!Committed =>
           /\ row'[k].resp = row[k].resp
           /\ Rank(row'[k].status) >= Rank(row[k].status)]_vars
  BY KeptStep DEF Kept, RowKept
<1> QED BY <1>1, TypeCorrect, PaymentCorrect, PTL DEF Spec, EvidenceIsStable

\* A worker whose lease was taken over neither commits nor fails the operation.
THEOREM StaleOwnersAreFenced == Spec => StaleOwnerIsFenced
<1>1. TypeOK /\ PaymentInvariant /\ [Next]_vars =>
        [\A k \in Keys : row[k].status = "processing" /\ row'[k].status # "processing" =>
           \E w \in Workers : row[k].token = w /\ job[w].key = k /\ pc'[w] # pc[w]]_vars
  <2> SUFFICES ASSUME TypeOK, PaymentInvariant, [Next]_vars, NEW k \in Keys,
                      row[k].status = "processing", row'[k].status # "processing"
               PROVE  \E w \in Workers : row[k].token = w /\ job[w].key = k /\ pc'[w] # pc[w]
    OBVIOUS
  <2>1. row[k] \in Store!Rows /\ StoreOK /\ LocalOK
    BY DEF TypeOK, StoreOK
  <2>2. ASSUME Ordinary(k) PROVE \E w \in Workers : GivesUp(w, k)
    <3>1. \A c \in Clients : ~Opens(c, k)
      BY DEF Opens, Store!Absent
    <3>2. \A c \in Clients : ~TakesOver(c, k)
      BY <2>1, RowStatus DEF TakesOver
    <3> QED
      BY <2>2, <3>1, <3>2
         DEF Ordinary, Untouched, Delivers, Closes, Returned, Store!Committed
  <2>3. ASSUME NEW w \in Workers, GivesUp(w, k)
        PROVE  row[k].token = w /\ job[w].key = k /\ pc'[w] # pc[w]
    BY <2>3 DEF GivesUp, Store!OwnedBy
  <2>4. ASSUME NEW w \in Workers, Draws(w)
        PROVE  row[k].token = w /\ job[w].key = k /\ pc'[w] # pc[w]
    <3> DEFINE d == job[w].key
               new == Store!Updated(row[d], "event_pending", job[w].resp)
    <3>1. /\ pc[w] = "commit" /\ d \in Keys /\ Store!OwnedBy(row[d], job[w].hash, w)
          /\ row' = [row EXCEPT ![d] = new]
      BY <2>1, <2>4, Known DEF Draws
    <3>2. \A l \in Keys \ {d} : Untouched(l)
      <4> HIDE DEF d, new
      <4> QED BY <2>1, <3>1, OthersUntouched
    <3>3. k = d
      BY <3>2 DEF Untouched
    <3>4. pc'[w] # pc[w]
      BY <2>1, <2>4, <3>1 DEF Draws, Goto, LocalOK
    <3> QED BY <3>1, <3>3, <3>4 DEF Store!OwnedBy
  <2> QED BY <2>2, <2>3, <2>4, DbStep
<1> QED BY <1>1, TypeCorrect, PaymentCorrect, PTL DEF Spec, StaleOwnerIsFenced

----------------------------------------------------------------------------
(* The inductive invariant, part by part *)

\* Rows keep to the request they were opened with.
LEMMA RowsMatchStep ==
  ASSUME TypeOK, PaymentInvariant, EvidenceInvariant, [Next]_vars, NEW k \in Keys
  PROVE  RowMatches(row'[k])
<1> StoreOK /\ LocalOK
  BY DEF TypeOK
<1>0. row[k] \in Store!Rows /\ RowMatches(row[k]) /\ RowOK(row[k])
  BY DEF StoreOK, EvidenceInvariant
<1> USE DEF Store!Committed
<1>1. CASE Untouched(k)
  BY <1>0, <1>1 DEF Untouched, RowMatches
<1>2. ASSUME NEW c \in Clients, Opens(c, k) PROVE RowMatches(row'[k])
  <2>1. c \in Workers /\ pc[c] = "insert" /\ Agrees(pc[c], job[c]) /\ row[k].status = "absent"
    BY <1>2 DEF Opens, EvidenceInvariant, Workers, Store!Absent
  <2>2. job[c].ctx.request = job[c].hash
    BY <1>2, <2>1 DEF Agrees, Opens
  <2> QED BY <1>2, <2>2 DEF Opens, RowMatches, Store!Inserted, Store!Absent
<1>3. ASSUME NEW c \in Clients, TakesOver(c, k) PROVE RowMatches(row'[k])
  <2>1. /\ c \in Workers /\ pc[c] = "claim" /\ Agrees(pc[c], job[c]) /\ job[c].key = k
        /\ row[k].status = "processing" /\ row[k].hash = job[c].hash
    BY <1>3 DEF TakesOver, EvidenceInvariant, Workers, Store!Claimable
  <2>2. row[k].ctx = None => job[c].ctx.request = job[c].hash
    BY <2>1 DEF Agrees
  <2>3. /\ row'[k].status = "processing" /\ row'[k].hash = row[k].hash
        /\ row'[k].ctx = IF row[k].ctx = None THEN job[c].ctx ELSE row[k].ctx
    BY <1>0, <1>3, <2>1 DEF TakesOver, Store!Claimed, Store!Rows
  <2> QED BY <1>0, <2>1, <2>2, <2>3 DEF RowMatches
<1>4. ASSUME row[k].status # "absent", NEW s \in Store!Statuses \ {"absent"}, NEW p,
             row'[k].status = s, row'[k].ctx = None, row'[k].hash = row[k].hash,
             s \in Store!Committed => row'[k].resp.ctx.request = row[k].hash
      PROVE  RowMatches(row'[k])
  BY <1>4 DEF RowMatches
<1>5. ASSUME NEW w \in Workers, GivesUp(w, k) PROVE RowMatches(row'[k])
  BY <1>0, <1>5
     DEF GivesUp, Store!OwnedBy, Store!Transitioned, Store!Rows, RowMatches
<1>6. ASSUME NEW w \in Workers, Delivers(w, k) PROVE RowMatches(row'[k])
  <2>1. PICK s \in {"event_published", "succeeded"}, p \in Responses :
          row'[k] = Store!Updated(row[k], s, p)
    BY <1>6 DEF Delivers
  <2>2. row'[k].ctx = None /\ row'[k].hash = row[k].hash /\ row'[k].status = s
    BY <1>0, <2>1 DEF Store!Updated, Store!Transitioned, Store!Rows
  <2>3. row'[k].resp = row[k].resp
    BY <1>6, KeptStep DEF Delivers, Kept, RowKept
  <2> QED BY <1>0, <1>6, <2>2, <2>3 DEF RowMatches, Delivers
<1>7. CASE Closes(k)
  BY <1>0, <1>7 DEF Closes, Store!Updated, Store!Transitioned, Store!Rows, RowMatches
<1>8. ASSUME NEW w \in Workers, Draws(w) PROVE RowMatches(row'[k])
  <2> DEFINE d == job[w].key
             new == Store!Updated(row[d], "event_pending", job[w].resp)
  <2>1. /\ pc[w] = "commit" /\ d \in Keys /\ Store!OwnedBy(row[d], job[w].hash, w)
        /\ row' = [row EXCEPT ![d] = new] /\ row[d] \in Store!Rows /\ RowMatches(row[d])
    BY <1>8, Known DEF Draws, EvidenceInvariant
  <2>2. row'[d] = new /\ \A l \in Keys \ {d} : Untouched(l)
    <3> HIDE DEF d, new
    <3> QED BY <2>1, OthersUntouched
  <2>3. CASE k # d
    BY <1>0, <2>2, <2>3 DEF Untouched, RowMatches
  <2>4. CASE k = d
    <3>1. Agrees("commit", job[w]) /\ job[w].ctx \in Contexts
      BY <2>1, Prepared DEF EvidenceInvariant, WithContext, Executing
    <3>2. /\ row[d].status = "processing" /\ row[d].ctx = job[w].ctx
          /\ job[w].resp.ctx = job[w].ctx
      BY <2>1, <3>1 DEF Agrees, Executing, Store!OwnedBy
    <3>3. job[w].resp.ctx.request = row[d].hash
      BY <2>1, <3>1, <3>2, ServiceAssumption DEF RowMatches
    <3>4. /\ new.ctx = None /\ new.hash = row[d].hash
          /\ new.resp = job[w].resp /\ new.status = "event_pending"
      BY <2>1 DEF Store!Updated, Store!Transitioned, Store!Rows
    <3> QED BY <2>2, <2>4, <3>3, <3>4 DEF RowMatches
  <2> QED BY <2>3, <2>4
<1> QED BY <1>1, <1>2, <1>3, <1>5, <1>6, <1>7, <1>8, DbStep DEF Ordinary

\* No operation becomes committed but by the commit transaction.
LEMMA CommittedStep ==
  ASSUME TypeOK, PaymentInvariant, NEW k \in Keys, Ordinary(k)
  PROVE  row'[k].status \in Store!Committed => row[k].status \in Store!Committed
<1>0. row[k] \in Store!Rows
  BY DEF TypeOK, StoreOK
<1>1. ASSUME NEW c \in Clients, Opens(c, k) PROVE row'[k].status = "processing"
  BY <1>1 DEF Opens, Store!Inserted, Store!Absent
<1>2. ASSUME NEW c \in Clients, TakesOver(c, k) PROVE row'[k].status = row[k].status
  BY <1>0, <1>2, RowStatus DEF TakesOver
<1>3. ASSUME NEW w \in Workers, GivesUp(w, k) PROVE row'[k].status = "failed"
  BY <1>0, <1>3, RowStatus DEF GivesUp
<1>4. CASE Closes(k)
  BY <1>0, <1>4, RowStatus DEF Closes, Store!Committed
<1> QED
  BY <1>1, <1>2, <1>3, <1>4 DEF Ordinary, Untouched, Delivers, Store!Committed

\* What a worker agrees on with its row outlives the steps of others.
LEMMA AgreesKept ==
  ASSUME Kept, PityKept, applied \subseteq applied',
         pity \in [Groups -> PityStates], pity' \in [Groups -> PityStates],
         NEW l, NEW j, j.key \in Keys,
         l \in WithContext => j.ctx \in Contexts,
         l = "commit" => j.resp \in Responses,
         l \in Delivering => row[j.key].status \in Store!Committed,
         Agrees(l, j)
  PROVE  Agrees(l, j)'
<1> DEFINE k == j.key
<1>1. ASSUME l \in {"insert", "claim"}
      PROVE  \/ j.ctx.request = j.hash
             \/ /\ row'[k].status # "absent"
                /\ row'[k].status = "processing" => row'[k].ctx # None
  BY <1>1 DEF Agrees, Kept, RowKept
<1>2. ASSUME l \in Executing
      PROVE  /\ row'[k].status # "absent" /\ row'[k].hash = j.hash
             /\ row'[k].status = "processing" => row'[k].ctx = j.ctx
  <2>1. j.ctx # None
    BY <1>2, ServiceAssumption DEF WithContext
  <2> QED BY <1>2, <2>1 DEF Agrees, Kept, RowKept
<1>3. ASSUME l = "commit"
      PROVE  LET now == pity'[GroupFor(j.ctx)]
             IN /\ j.resp.ctx = j.ctx /\ ~j.resp.legacy
                /\ j.resp.prev.version <= now.version
                /\ j.resp.prev.version = now.version => j.resp.prev = now
  <2> DEFINE g == GroupFor(j.ctx)
             p == j.resp.prev
  <2>1. g \in Groups
    BY <1>3, ContextType DEF WithContext, Executing
  <2>2. j.resp.ctx = j.ctx /\ ~j.resp.legacy /\ p.version <= pity[g].version
        /\ (p.version = pity[g].version => p = pity[g])
    BY <1>3 DEF Agrees
  <2>3. p \in PityStates
    BY <1>3 DEF Responses
  <2> HIDE DEF g, p
  <2>4. p.version \in Nat /\ pity[g].version \in Nat /\ pity'[g].version \in Nat
    BY <2>1, <2>3 DEF PityStates
  <2>5. pity'[g].version >= pity[g].version
        /\ (pity'[g].version = pity[g].version => pity'[g] = pity[g])
    BY <2>1 DEF PityKept
  <2>6. p.version <= pity'[g].version /\ (p.version = pity'[g].version => p = pity'[g])
    BY <2>2, <2>4, <2>5
  <2> QED BY <2>2, <2>6 DEF g, p
<1>4. ASSUME l \in Delivering
      PROVE  row'[k].resp = j.resp /\ row'[k].hash = j.hash
  BY <1>4 DEF Agrees, Kept, RowKept, Store!Committed
<1>5. ASSUME l = "confirm"
      PROVE  \E e \in applied' : e.key = k
  BY <1>5 DEF Agrees
<1> QED BY <1>1, <1>2, <1>3, <1>4, <1>5 DEF Agrees

\* Steps at which a worker agrees with anything.
Careless(l) == l \notin {"insert", "claim"} \cup Executing \cup Delivering

\* A worker that a step leaves alone.
LEMMA StaysAgreed ==
  ASSUME TypeOK, TypeOK', PaymentInvariant, EvidenceInvariant,
         Kept, PityKept, applied \subseteq applied',
         NEW u \in Workers, pc'[u] = pc[u], job'[u] = job[u]
  PROVE  Agrees(pc[u], job[u])'
<1> SUFFICES ASSUME NEW l, NEW j, l = pc[u], j = job[u]
             PROVE  Agrees(pc[u], job[u])'
  OBVIOUS
<1>1. CASE l = "idle"
  BY <1>1 DEF Agrees, Executing, Delivering
<1>2. CASE l # "idle"
  <2>1. LocalOK /\ pity \in [Groups -> PityStates] /\ pity' \in [Groups -> PityStates]
    BY DEF TypeOK, StoreOK
  <2>2. /\ j.key \in Keys /\ Agrees(l, j)
        /\ l \in Delivering => row[j.key].status \in Store!Committed
    BY <1>2, Known DEF EvidenceInvariant, Grounded
  <2>3. /\ l \in WithContext => j.ctx \in Contexts
        /\ l = "commit" => j.resp \in Responses
    BY <1>2, <2>1, Prepared DEF WithResponse
  <2>4. Agrees(l, j)'
    BY <2>1, <2>2, <2>3, AgreesKept
  <2> QED BY <2>4 DEF Agrees
<1> QED BY <1>1, <1>2

\* After a step of worker w, every worker agrees with its row if w does.
LEMMA OneAgrees ==
  ASSUME TypeOK, TypeOK', PaymentInvariant, EvidenceInvariant,
         Kept, PityKept, applied \subseteq applied',
         NEW w \in Workers, NEW l, NEW j,
         pc' = [pc EXCEPT ![w] = l], job' = [job EXCEPT ![w] = j],
         Careless(l) \/ Agrees(l, j)'
  PROVE  \A u \in Workers : Agrees(pc[u], job[u])'
<1> SUFFICES ASSUME NEW u \in Workers PROVE Agrees(pc[u], job[u])'
  OBVIOUS
<1>1. CASE u = w
  <2>1. pc'[u] = l /\ job'[u] = j
    BY <1>1 DEF TypeOK, LocalOK
  <2> QED BY <2>1 DEF Agrees, Careless, Executing, Delivering
<1>2. CASE u # w
  <2>1. pc'[u] = pc[u] /\ job'[u] = job[u]
    BY <1>2 DEF TypeOK, LocalOK
  <2> QED BY <2>1, StaysAgreed
<1> QED BY <1>1, <1>2

\* What a step leaves behind for the lemmas above.
Settled == TypeOK' /\ Kept /\ PityKept /\ applied \subseteq applied'

\* Every step keeps what the other workers rely on.
LEMMA SettledStep ==
  ASSUME TypeOK, PaymentInvariant, [Next]_vars
  PROVE  Settled
<1>1. ASSUME NEW c \in Clients, ClientStep(c) PROVE applied \subseteq applied'
  BY <1>1 DEF ClientStep, Request, Poll, Lookup, Insert, Claim, Select, bus
<1>2. ASSUME NEW w \in Workers, Execute(w) PROVE applied \subseteq applied'
  BY <1>2
     DEF Execute, SpendOk, SpendRejected, SpendUnknown, MarkFailed, ReadPity, DrawFails, Commit,
         Reconcile, Publish, PublishFails, Save, Refund, RefundFails, Close, StoreError,
         Crash, bus
<1>3. ASSUME NEW v \in Recoverers, RecoveryStep(v) PROVE applied \subseteq applied'
  BY <1>3
     DEF RecoveryStep, Scan, ScanError, Reclaim, LockRow, Receipt, ReceiptFails,
         Confirm, Release, bus
<1>4. ASSUME Environment PROVE applied \subseteq applied'
  BY <1>4 DEF Environment, ExpireLease, ExpireLock, LateSpend, TopUp, Apply, bus
<1>5. ASSUME UNCHANGED vars PROVE applied \subseteq applied'
  BY <1>5 DEF vars
<1>6. applied \subseteq applied'
  BY <1>1, <1>2, <1>3, <1>4, <1>5 DEF Next
<1> QED BY <1>6, TypeStep, KeptStep DEF Settled

\* A worker that goes on to a step that relies on no more than the one before.
LEMMA FollowsAgreed ==
  ASSUME TypeOK, PaymentInvariant, EvidenceInvariant, Settled,
         NEW w \in Workers, NEW j, j = job[w], NEW l,
         \/ pc[w] = "insert" /\ l = "claim"
         \/ pc[w] = "spend" /\ l \in {"read", "fail"}
         \/ pc[w] = "publish" /\ l = "save"
         \/ pc[w] = "receipt" /\ l = "republish"
         \/ pc[w] = "receipt" /\ l = "confirm" /\ \E e \in applied : e.key = j.key
  PROVE  Agrees(l, j)'
<1>1. LocalOK /\ pity \in [Groups -> PityStates] /\ pity' \in [Groups -> PityStates]
  BY DEF TypeOK, StoreOK, Settled
<1>2. /\ j.key \in Keys /\ Agrees(pc[w], j)
      /\ pc[w] \in Delivering => row[j.key].status \in Store!Committed
  BY Known DEF EvidenceInvariant, Grounded
<1>3. l \in WithContext => j.ctx \in Contexts
  BY <1>1, Prepared DEF WithContext, Executing
<1>4. Agrees(l, j) /\ (l \in Delivering => row[j.key].status \in Store!Committed)
  BY <1>2 DEF Agrees, Executing, Delivering
<1> QED BY <1>1, <1>2, <1>3, <1>4, AgreesKept DEF Settled

\* The moves after which a worker has nothing new to agree on.
LEMMA MoveAgreed ==
  ASSUME TypeOK, PaymentInvariant, EvidenceInvariant, Settled, NEW w \in Workers,
         \/ UNCHANGED <<pc, job>>
         \/ Finish(w) \/ Leave(w)
         \/ \E l : Goto(w, l) /\ Careless(l)
         \/ pc[w] = "insert" /\ Goto(w, "claim")
         \/ pc[w] = "spend" /\ (Goto(w, "read") \/ Goto(w, "fail"))
         \/ pc[w] = "publish" /\ Goto(w, "save")
         \/ pc[w] = "receipt" /\ Goto(w, "republish")
         \/ /\ pc[w] = "receipt" /\ Goto(w, "confirm")
            /\ \E e \in applied : e.key = job[w].key
  PROVE  \A u \in Workers : Agrees(pc[u], job[u])'
<1> TypeOK' /\ Kept /\ PityKept /\ applied \subseteq applied'
  BY DEF Settled
<1>1. CASE UNCHANGED <<pc, job>>
  BY <1>1, StaysAgreed
<1>2. Careless("idle") /\ Careless("release")
  BY DEF Careless, Executing, Delivering
<1>3. CASE Finish(w)
  BY <1>2, <1>3, OneAgrees DEF Finish
<1>4. ASSUME NEW l, Goto(w, l), NEW j, j = job[w], Careless(l) \/ Agrees(l, j)'
      PROVE  \A u \in Workers : Agrees(pc[u], job[u])'
  <2>1. pc' = [pc EXCEPT ![w] = l] /\ job' = [job EXCEPT ![w] = j]
    BY <1>4 DEF Goto, TypeOK, LocalOK
  <2> QED BY <1>4, <2>1, OneAgrees
<1>5. ASSUME NEW l, Goto(w, l), Careless(l)
      PROVE  \A u \in Workers : Agrees(pc[u], job[u])'
  BY <1>4, <1>5
<1>6. ASSUME NEW l, Goto(w, l), NEW j, j = job[w],
             \/ pc[w] = "insert" /\ l = "claim"
             \/ pc[w] = "spend" /\ l \in {"read", "fail"}
             \/ pc[w] = "publish" /\ l = "save"
             \/ pc[w] = "receipt" /\ l = "republish"
             \/ pc[w] = "receipt" /\ l = "confirm" /\ \E e \in applied : e.key = j.key
      PROVE  \A u \in Workers : Agrees(pc[u], job[u])'
  <2>1. Agrees(l, j)'
    BY <1>6, FollowsAgreed
  <2> QED BY <1>4, <1>6, <2>1
<1> QED BY <1>1, <1>2, <1>3, <1>5, <1>6 DEF Leave

\* A handler that resumes a delivery carries the row's draw.
LEMMA ExistingAgreed ==
  ASSUME TypeOK, PaymentInvariant, EvidenceInvariant, Settled, NEW w \in Workers,
         pc[w] # "idle", UNCHANGED db, Existing(w, row[job[w].key])
  PROVE  \A u \in Workers : Agrees(pc[u], job[u])'
<1> DEFINE r == row[job[w].key]
<1>1. job[w] \in Jobs
  BY JobRow DEF TypeOK
<1>2. CASE Finish(w)
  BY <1>2, MoveAgreed
<1>3. ASSUME NEW l \in {"publish", "refund"}, SameRequest(w, r), Resume(w, l, r)
      PROVE  \A u \in Workers : Agrees(pc[u], job[u])'
  <2>0. PICK j : j = [job[w] EXCEPT !.resp = r.resp]
    OBVIOUS
  <2>1. pc' = [pc EXCEPT ![w] = l] /\ job' = [job EXCEPT ![w] = j]
    BY <1>3, <2>0 DEF Resume
  <2>2. j.key = job[w].key /\ j.hash = r.hash /\ j.resp = r.resp
    BY <1>1, <1>3, <2>0 DEF Jobs, SameRequest
  <2>3. row'[j.key] = r
    BY <2>2 DEF db
  <2>4. Agrees(l, j)'
    BY <2>2, <2>3 DEF Agrees, Executing
  <2> QED BY <2>1, <2>4, OneAgrees DEF Settled
<1> QED BY <1>2, <1>3 DEF Existing, Answer

\* Whatever a worker does next, it agrees with its row.
LEMMA AgreesStep ==
  ASSUME TypeOK, PaymentInvariant, EvidenceInvariant, [Next]_vars
  PROVE  \A u \in Workers : Agrees(pc[u], job[u])'
<1> DEFINE Goal == \A u \in Workers : Agrees(pc[u], job[u])'
<1> Settled /\ StoreOK /\ LocalOK
  BY SettledStep DEF TypeOK
<1>0. /\ TypeOK' /\ Kept /\ PityKept /\ applied \subseteq applied'
      /\ \A l \in {"lookup", "select", "reconcile", "release", "idle", "refund", "close"} :
           Careless(l)
  BY DEF Settled, Careless, Executing, Delivering
<1>1. ASSUME NEW c \in Clients, ClientStep(c) PROVE Goal
  <2> c \in Workers
    BY DEF Workers
  <2>1. ASSUME NEW k \in Keys, NEW h \in Hashes, Request(c, k, h) PROVE Goal
    <3>1. PICK r \in Releases :
            /\ pc' = [pc EXCEPT ![c] = IF Offered(r, h) THEN "insert" ELSE "lookup"]
            /\ job' = [job EXCEPT ![c] =
                         [NoJob EXCEPT !.key = k, !.hash = h,
                                       !.ctx = IF Offered(r, h) THEN Context(r, h) ELSE None]]
      BY <2>1 DEF Request
    <3> DEFINE l == IF Offered(r, h) THEN "insert" ELSE "lookup"
               j == [NoJob EXCEPT !.key = k, !.hash = h,
                                  !.ctx = IF Offered(r, h) THEN Context(r, h) ELSE None]
    <3>2. CASE Offered(r, h)
      <4>1. j.hash = h /\ j.ctx.request = h
        BY <3>2 DEF NoJob, Context
      <4> HIDE DEF j
      <4>2. Agrees("insert", j)'
        BY <4>1 DEF Agrees, Executing, Delivering
      <4> QED BY <1>0, <3>1, <3>2, <4>2, OneAgrees DEF j
    <3>3. CASE ~Offered(r, h)
      BY <1>0, <3>1, <3>3, OneAgrees
    <3> QED BY <3>2, <3>3
  <2>2. ASSUME NEW k \in Keys, Poll(c, k) PROVE Goal
    BY <2>2, MoveAgreed DEF Poll, local
  <2>3. CASE Lookup(c)
    <3> DEFINE r == row[job[c].key]
    <3>0. PICK j : j = [job[c] EXCEPT !.ctx = r.ctx]
      OBVIOUS
    <3>1. /\ pc[c] = "lookup" /\ UNCHANGED db /\ job[c] \in Jobs
          /\ r \in Store!Rows /\ job[c].key \in Keys
      BY <2>3, JobRow DEF Lookup
    <3>2. CASE Finish(c)
      BY <3>2, MoveAgreed
    <3>3. CASE Existing(c, r)
      BY <3>1, <3>3, ExistingAgreed
    <3>4. CASE r.ctx # None /\ pc' = [pc EXCEPT ![c] = "insert"]
               /\ job' = [job EXCEPT ![c] = j]
      <4>1. j.key = job[c].key /\ r.status # "absent"
        BY <3>0, <3>1, <3>4 DEF Jobs, EvidenceInvariant, RowMatches
      <4>2. row'[j.key] = r
        BY <3>1, <4>1 DEF db
      <4>3. Agrees("insert", j)'
        BY <3>4, <4>1, <4>2 DEF Agrees, Executing, Delivering
      <4> QED BY <1>0, <3>4, <4>3, OneAgrees
    <3> QED BY <2>3, <3>0, <3>2, <3>3, <3>4 DEF Lookup
  <2>4. ASSUME NEW acked \in Acks, Insert(c, acked) PROVE Goal
    <3> DEFINE k == job[c].key
               new == Store!Inserted(job[c].hash, c, job[c].ctx)
    <3>1. pc[c] = "insert" /\ k \in Keys /\ job[c].hash \in Hashes
      BY <2>4, JobRow DEF Insert
    <3>2. CASE Finish(c) \/ Goto(c, "claim")
      BY <3>1, <3>2, MoveAgreed
    <3>3. CASE row' = [row EXCEPT ![k] = new] /\ Goto(c, "spend")
      <4>1. new.status = "processing" /\ new.hash = job[c].hash /\ new.ctx = job[c].ctx
        BY DEF Store!Inserted, Store!Absent
      <4>2. row'[k] = new
        BY <3>1, <3>3 DEF StoreOK
      <4>3. ASSUME NEW j, j = job[c] PROVE Agrees("spend", j)'
        BY <4>1, <4>2, <4>3 DEF Agrees, Delivering
      <4>4. pc' = [pc EXCEPT ![c] = "spend"] /\ job' = [job EXCEPT ![c] = job[c]]
        BY <3>3 DEF Goto, LocalOK
      <4> QED BY <1>0, <4>3, <4>4, OneAgrees
    <3> QED BY <2>4, <3>2, <3>3 DEF Insert
  <2>5. ASSUME NEW acked \in Acks, Claim(c, acked) PROVE Goal
    <3> DEFINE k == job[c].key
               new == Store!Claimed(row[k], c, job[c].ctx)
    <3>0. PICK j : j = [job[c] EXCEPT !.ctx = new.ctx]
      OBVIOUS
    <3>1. pc[c] = "claim" /\ k \in Keys /\ job[c] \in Jobs /\ row[k] \in Store!Rows
      BY <2>5, JobRow DEF Claim
    <3>2. CASE Finish(c) \/ Goto(c, "select")
      BY <1>0, <3>2, MoveAgreed
    <3>3. CASE /\ Store!Claimable(row[k], job[c].hash) /\ row' = [row EXCEPT ![k] = new]
               /\ pc' = [pc EXCEPT ![c] = "spend"] /\ job' = [job EXCEPT ![c] = j]
      <4>1. new.status = "processing" /\ new.hash = job[c].hash
        BY <3>1, <3>3 DEF Store!Claimed, Store!Claimable, Store!Rows
      <4>2. row'[k] = new
        BY <3>1, <3>3 DEF StoreOK
      <4>3. j.key = k /\ j.hash = job[c].hash /\ j.ctx = new.ctx
        BY <3>0, <3>1 DEF Jobs
      <4> HIDE DEF new
      <4>4. Agrees("spend", j)'
        BY <4>1, <4>2, <4>3 DEF Agrees, Delivering
      <4> QED BY <1>0, <3>3, <4>4, OneAgrees
    <3> QED BY <2>5, <3>0, <3>2, <3>3 DEF Claim
  <2>6. CASE Select(c)
    BY <2>6, ExistingAgreed DEF Select
  <2> QED BY <1>1, <2>1, <2>2, <2>3, <2>4, <2>5, <2>6 DEF ClientStep
<1>2. ASSUME NEW w \in Workers, Execute(w) PROVE Goal
  <2>1. ASSUME Finish(w) \/ Leave(w)
               \/ \E l \in {"reconcile", "release", "close"} : Goto(w, l)
        PROVE  Goal
    BY <1>0, <2>1, MoveAgreed
  <2>2. ASSUME Conclude(w) PROVE Goal
    BY <2>1, <2>2 DEF Conclude, Answer
  <2>3. CASE SpendOk(w) \/ SpendRejected(w)
    BY <2>3, MoveAgreed DEF SpendOk, SpendRejected
  <2>4. CASE SpendUnknown(w) \/ MarkFailed(w) \/ DrawFails(w)
    BY <2>1, <2>4 DEF SpendUnknown, MarkFailed, DrawFails
  <2>5. CASE ReadPity(w)
    <3> DEFINE g == GroupFor(job[w].ctx)
               k == job[w].key
    <3>0. PICK j : j = [job[w] EXCEPT !.resp = Draw(w)]
      OBVIOUS
    <3>1. /\ pc[w] = "read" /\ UNCHANGED db
          /\ pc' = [pc EXCEPT ![w] = "commit"] /\ job' = [job EXCEPT ![w] = j]
      BY <2>5, <3>0 DEF ReadPity
    <3>2. job[w] \in Jobs /\ job[w].ctx \in Contexts /\ Agrees("read", job[w])
      BY <3>1, Prepared DEF WithContext, Executing, EvidenceInvariant
    <3>3. /\ j.key = k /\ j.hash = job[w].hash /\ j.ctx = job[w].ctx
          /\ j.resp = Draw(w)
      BY <3>0, <3>2 DEF Jobs
    <3>4. Draw(w).ctx = job[w].ctx /\ Draw(w).prev = pity[g] /\ ~Draw(w).legacy
      BY DEF Draw
    <3>5. pity[g].version \in Nat /\ pity' = pity /\ row' = row
      BY <3>1, <3>2, ContextType DEF StoreOK, PityStates, db
    <3>6. /\ row[k].status # "absent" /\ row[k].hash = job[w].hash
          /\ row[k].status = "processing" => row[k].ctx = job[w].ctx
      BY <3>2 DEF Agrees, Executing
    <3> HIDE DEF k, g
    <3>7. Agrees("commit", j)'
      <4>1. pity'[GroupFor(j.ctx)] = pity[g]
        BY <3>3, <3>5 DEF g
      <4> QED BY <3>3, <3>4, <3>5, <3>6, <4>1 DEF Agrees, Delivering
    <3> QED BY <1>0, <3>1, <3>7, OneAgrees
  <2>6. ASSUME NEW acked \in Acks, Commit(w, acked) PROVE Goal
    <3> DEFINE k == job[w].key
               new == Store!Updated(row[k], "event_pending", job[w].resp)
    <3>1. /\ pc[w] = "commit" /\ job[w] \in Jobs /\ k \in Keys /\ row[k] \in Store!Rows
          /\ Agrees("commit", job[w])
      BY <2>6, JobRow DEF Commit, EvidenceInvariant
    <3>2. CASE Conflict(w) /\ UNCHANGED db
      <4>0. PICK j : j = [job[w] EXCEPT !.resp = None]
        OBVIOUS
      <4>1. CASE pc' = [pc EXCEPT ![w] = "read"] /\ job' = [job EXCEPT ![w] = j]
        <5>1. j.key = k /\ j.hash = job[w].hash /\ j.ctx = job[w].ctx
          BY <3>1, <4>0 DEF Jobs
        <5>2. row' = row
          BY <3>2 DEF db
        <5>3. Agrees("read", j)'
          BY <3>1, <5>1, <5>2 DEF Agrees, Executing, Delivering
        <5> QED BY <1>0, <4>1, <5>3, OneAgrees
      <4> QED BY <2>1, <3>2, <4>0, <4>1 DEF Conflict
    <3>3. CASE Store!OwnedBy(row[k], job[w].hash, w) /\ row' = [row EXCEPT ![k] = new]
               /\ Goto(w, "publish")
      <4>1. new.resp = job[w].resp /\ new.hash = job[w].hash
        BY <3>1, <3>3 DEF Store!OwnedBy, Store!Updated, Store!Transitioned, Store!Rows
      <4>2. row'[k] = new
        BY <3>1, <3>3 DEF StoreOK
      <4> HIDE DEF new
      <4>3. ASSUME NEW j, j = job[w] PROVE Agrees("publish", j)'
        BY <4>1, <4>2, <4>3 DEF Agrees, Executing
      <4>4. pc' = [pc EXCEPT ![w] = "publish"] /\ job' = [job EXCEPT ![w] = job[w]]
        BY <3>3 DEF Goto, LocalOK
      <4> QED BY <1>0, <4>3, <4>4, OneAgrees
    <3> QED BY <2>1, <2>6, <3>2, <3>3 DEF Commit
  <2>7. CASE Reconcile(w)
    BY <2>7, ExistingAgreed DEF Reconcile
  <2>8. CASE Publish(w)
    BY <2>1, <2>8, MoveAgreed DEF Publish
  <2>9. CASE PublishFails(w) \/ RefundFails(w) \/ Close(w) \/ Refund(w)
    BY <2>1, <2>9 DEF PublishFails, RefundFails, Close, Refund
  <2>10. CASE Save(w)
    BY <2>2, <2>10 DEF Save
  <2>11. CASE StoreError(w)
    BY <2>1, <2>2, <2>11 DEF StoreError
  <2>12. CASE Crash(w)
    <3>1. pc' = [pc EXCEPT ![w] = "idle"] /\ job' = [job EXCEPT ![w] = NoJob]
      BY <2>12 DEF Crash
    <3> QED BY <1>0, <3>1, OneAgrees
  <2> QED
    BY <1>2, <2>3, <2>4, <2>5, <2>6, <2>7, <2>8, <2>9, <2>10, <2>11, <2>12 DEF Execute
<1>3. ASSUME NEW v \in Recoverers, RecoveryStep(v) PROVE Goal
  <2> v \in Workers
    BY DEF Workers
  <2>1. ASSUME UNCHANGED <<pc, job>> \/ Finish(v) \/ Goto(v, "release") PROVE Goal
    BY <1>0, <2>1, MoveAgreed
  <2>2. ASSUME NEW x \in batch[v], NEW acked \in Acks, Reclaim(v, x, acked) PROVE Goal
    <3> DEFINE k == x.job.key
               new == Store!Reclaimed(row[k], v)
    <3>0. PICK j : j = Record(k).job
      OBVIOUS
    <3>1. k \in Keys /\ row[k] \in Store!Rows
      BY DEF LocalOK, Records, Jobs, StoreOK
    <3>2. CASE /\ row' = [row EXCEPT ![k] = new] /\ Store!Expired(row[k])
               /\ pc' = [pc EXCEPT ![v] = "spend"] /\ job' = [job EXCEPT ![v] = j]
      <4>1. /\ new.status = "processing" /\ new.hash = row[k].hash /\ new.ctx = row[k].ctx
            /\ j.key = k /\ j.hash = row[k].hash /\ j.ctx = row[k].ctx
        BY <3>0, <3>1, <3>2 DEF Store!Reclaimed, Store!Expired, Store!Rows, Record
      <4>2. row'[k] = new
        BY <3>1, <3>2 DEF StoreOK
      <4> HIDE DEF new
      <4>3. Agrees("spend", j)'
        BY <4>1, <4>2 DEF Agrees, Delivering
      <4> QED BY <1>0, <3>2, <4>3, OneAgrees
    <3> QED BY <2>1, <2>2, <3>0, <3>2 DEF Reclaim
  <2>3. ASSUME NEW x \in batch[v], NEW acked \in Acks, LockRow(v, x, acked) PROVE Goal
    <3> DEFINE l == FirstStep(x.status)
               j == x.job
    <3>1. j.key \in Keys
      BY DEF LocalOK, Records, Jobs
    <3>2. CASE /\ Store!Lockable(row[j.key], x.status)
               /\ pc' = [pc EXCEPT ![v] = l] /\ job' = [job EXCEPT ![v] = j]
      <4>1. CASE x.status = "refund_pending"
        BY <1>0, <3>2, <4>1, OneAgrees DEF FirstStep
      <4>2. CASE x.status \in {"event_pending", "event_published"}
        <5>1. l \in {"publish", "receipt"}
          BY <4>2 DEF FirstStep
        <5>2. /\ row[j.key].status \in Store!Committed
              /\ j.resp = row[j.key].resp /\ j.hash = row[j.key].hash
          BY <4>2 DEF EvidenceInvariant, RecordsCurrent, Store!Committed
        <5>3. row'[j.key].resp = j.resp /\ row'[j.key].hash = j.hash
          BY <1>0, <3>1, <5>2 DEF Kept, RowKept, Store!Committed
        <5> HIDE DEF l, j
        <5>4. Agrees(l, j)'
          BY <5>1, <5>3 DEF Agrees, Executing
        <5> QED BY <1>0, <3>2, <5>4, OneAgrees
      <4> QED BY <3>2, <4>1, <4>2 DEF Store!Lockable, Store!Recoverable
    <3> QED BY <2>1, <2>3, <3>2 DEF LockRow
  <2>4. CASE Receipt(v)
    BY <2>4, MoveAgreed DEF Receipt
  <2> QED
    BY <1>3, <2>1, <2>2, <2>3, <2>4
       DEF RecoveryStep, Scan, ScanError, ReceiptFails, Confirm, Release
<1>4. ASSUME UNCHANGED <<pc, job>> PROVE Goal
  BY <1>0, <1>4, StaysAgreed
<1>5. ASSUME Environment PROVE Goal
  BY <1>4, <1>5 DEF Environment, ExpireLease, ExpireLock, LateSpend, Apply, TopUp, local
<1>6. ASSUME UNCHANGED vars PROVE Goal
  BY <1>4, <1>6 DEF vars
<1> QED BY <1>1, <1>2, <1>3, <1>5, <1>6 DEF Next

\* A committed row that a scan has seen is the row it still is.
LEMMA CurrentStep ==
  ASSUME TypeOK, PaymentInvariant, EvidenceInvariant, [Next]_vars
  PROVE  RecordsCurrent'
<1> Kept /\ StoreOK /\ LocalOK
  BY KeptStep DEF TypeOK
<1>1. ASSUME \A w \in Workers : \A x \in batch'[w] :
               x \in batch[w] \/ \E k \in Keys : x = Record(k) /\ UNCHANGED row
      PROVE  RecordsCurrent'
  <2> SUFFICES ASSUME NEW w \in Workers, NEW x \in batch'[w], x.status \in Store!Committed
               PROVE  /\ row'[x.job.key].status \in Store!Committed
                      /\ x.job.resp = row'[x.job.key].resp
                      /\ x.job.hash = row'[x.job.key].hash
    BY DEF RecordsCurrent
  <2>1. CASE x \in batch[w]
    <3>1. x.job.key \in Keys
      BY <2>1 DEF LocalOK, Records, Jobs
    <3>2. /\ row[x.job.key].status \in Store!Committed
          /\ x.job.resp = row[x.job.key].resp /\ x.job.hash = row[x.job.key].hash
      BY <2>1 DEF EvidenceInvariant, RecordsCurrent
    <3> QED BY <3>1, <3>2 DEF Kept, RowKept, Store!Committed
  <2>2. ASSUME NEW k \in Keys, x = Record(k), UNCHANGED row
        PROVE  /\ row'[x.job.key].status \in Store!Committed
               /\ x.job.resp = row'[x.job.key].resp
               /\ x.job.hash = row'[x.job.key].hash
    BY <2>2 DEF Record
  <2> QED BY <1>1, <2>1, <2>2
<1>2. ASSUME NEW w \in Workers, NEW b \in SUBSET batch[w], batch' = [batch EXCEPT ![w] = b]
      PROVE  RecordsCurrent'
  BY <1>1, <1>2 DEF LocalOK
<1>3. ASSUME UNCHANGED batch PROVE RecordsCurrent'
  BY <1>1, <1>3
<1>4. ASSUME NEW c \in Clients, ClientStep(c) PROVE RecordsCurrent'
  BY <1>3, <1>4
     DEF ClientStep, Request, Poll, Lookup, Insert, Claim, Select, Existing, Answer,
         Resume, Goto, Finish, local
<1>5. ASSUME NEW w \in Workers, Execute(w) PROVE RecordsCurrent'
  <2>1. CASE Crash(w)
    BY <1>2, <2>1 DEF Crash
  <2>2. ASSUME Finish(w) \/ Leave(w) \/ Conclude(w) \/ \E l : Goto(w, l) PROVE RecordsCurrent'
    BY <1>3, <2>2 DEF Finish, Leave, Goto, Conclude, Answer
  <2>3. CASE StoreError(w)
    BY <2>2, <2>3 DEF StoreError
  <2>4. CASE SpendOk(w) \/ SpendRejected(w) \/ SpendUnknown(w) \/ MarkFailed(w)
    BY <2>2, <2>4 DEF SpendOk, SpendRejected, SpendUnknown, MarkFailed
  <2>5. CASE ReadPity(w) \/ DrawFails(w) \/ Reconcile(w)
    BY <1>3, <2>5 DEF ReadPity, DrawFails, Reconcile, Existing, Answer, Resume, Finish
  <2>6. ASSUME NEW acked \in Acks, Commit(w, acked) PROVE RecordsCurrent'
    BY <1>3, <2>6 DEF Commit, Conflict, Goto, Finish
  <2>7. CASE Publish(w) \/ PublishFails(w) \/ Save(w)
    BY <2>2, <2>7 DEF Publish, PublishFails, Save
  <2>8. CASE Refund(w) \/ RefundFails(w) \/ Close(w)
    BY <2>2, <2>8 DEF Refund, RefundFails, Close
  <2> QED BY <1>5, <2>1, <2>3, <2>4, <2>5, <2>6, <2>7, <2>8 DEF Execute
<1>6. ASSUME NEW v \in Recoverers, RecoveryStep(v) PROVE RecordsCurrent'
  <2> v \in Workers
    BY DEF Workers
  <2>1. CASE Scan(v)
    <3>1. UNCHANGED row /\ batch' = [batch EXCEPT ![v] =
            {Record(k) : k \in {l \in Keys : Due(NextPhase(phase[v]), row[l])}}]
      BY <2>1 DEF Scan, db
    <3> QED BY <1>1, <3>1 DEF LocalOK
  <2>2. CASE ScanError(v)
    BY <1>2, <1>3, <2>2 DEF ScanError
  <2>3. ASSUME NEW x \in batch[v], NEW acked \in Acks,
               Reclaim(v, x, acked) \/ LockRow(v, x, acked)
        PROVE  RecordsCurrent'
    BY <1>2, <2>3 DEF Reclaim, LockRow
  <2>4. CASE Receipt(v) \/ ReceiptFails(v) \/ Confirm(v) \/ Release(v)
    BY <1>3, <2>4 DEF Receipt, ReceiptFails, Confirm, Release, Goto, Finish
  <2> QED BY <1>6, <2>1, <2>2, <2>3, <2>4 DEF RecoveryStep
<1>7. ASSUME Environment PROVE RecordsCurrent'
  BY <1>3, <1>7 DEF Environment, ExpireLease, ExpireLock, LateSpend, Apply, TopUp, local
<1>8. ASSUME UNCHANGED vars PROVE RecordsCurrent'
  BY <1>3, <1>8 DEF vars
<1> QED BY <1>4, <1>5, <1>6, <1>7, <1>8 DEF Next

\* Every event in the topic or applied carries the draw of its row.
LEMMA EventsStep ==
  ASSUME TypeOK, PaymentInvariant, EvidenceInvariant, [Next]_vars
  PROVE  OneResultPerEvent'
<1> Kept /\ ServicesOK /\ LocalOK /\ StoreOK
  BY KeptStep DEF TypeOK
<1> DEFINE Good(e) == /\ e.key \in Keys /\ row[e.key].status \in Store!Committed
                      /\ row[e.key].resp = e.resp
<1>1. ASSUME \A e \in topic' \cup applied' : e \in topic \cup applied \/ Good(e)
      PROVE  OneResultPerEvent'
  <2> SUFFICES ASSUME NEW e \in topic' \cup applied'
               PROVE  row'[e.key].status \in Store!Committed /\ row'[e.key].resp = e.resp
    BY DEF OneResultPerEvent
  <2>1. Good(e)
    BY <1>1 DEF EvidenceInvariant, OneResultPerEvent, ServicesOK, Events
  <2> QED BY <2>1 DEF Kept, RowKept
<1>2. ASSUME UNCHANGED bus PROVE OneResultPerEvent'
  BY <1>1, <1>2 DEF bus
<1>3. ASSUME NEW c \in Clients, ClientStep(c) PROVE OneResultPerEvent'
  BY <1>2, <1>3 DEF ClientStep, Request, Poll, Lookup, Insert, Claim, Select
<1>4. ASSUME NEW w \in Workers, Execute(w) PROVE OneResultPerEvent'
  <2>1. CASE Publish(w) \/ PublishFails(w)
    <3>1. /\ pc[w] \in {"publish", "republish"} /\ pc[w] # "idle"
          /\ topic' \subseteq topic \cup {Event(w)} /\ applied' = applied
      BY <2>1 DEF Publish, PublishFails
    <3>2. /\ job[w].key \in Keys /\ Grounded(pc[w], job[w].key)
          /\ Agrees(pc[w], job[w])
      BY <3>1, Known DEF EvidenceInvariant
    <3>3. Good(Event(w))
      BY <3>1, <3>2 DEF Event, Grounded, Agrees, Delivering
    <3> QED BY <1>1, <3>1, <3>3
  <2> QED
    BY <1>2, <1>4, <2>1
       DEF Execute, SpendOk, SpendRejected, SpendUnknown, MarkFailed, ReadPity, DrawFails, Commit,
           Reconcile, Save, Refund, RefundFails, Close, StoreError, Crash
<1>5. ASSUME NEW v \in Recoverers, RecoveryStep(v) PROVE OneResultPerEvent'
  BY <1>2, <1>5
     DEF RecoveryStep, Scan, ScanError, Reclaim, LockRow, Receipt, ReceiptFails,
         Confirm, Release
<1>6. ASSUME NEW e \in topic, Apply(e) PROVE OneResultPerEvent'
  BY <1>1, <1>6 DEF Apply
<1>7. ASSUME Environment PROVE OneResultPerEvent'
  BY <1>2, <1>6, <1>7 DEF Environment, ExpireLease, ExpireLock, LateSpend, TopUp
<1>8. ASSUME UNCHANGED vars PROVE OneResultPerEvent'
  BY <1>2, <1>8 DEF vars, bus
<1> QED BY <1>3, <1>4, <1>5, <1>7, <1>8 DEF Next

\* Every draw shown to a client is its row's, and was made for its request.
LEMMA AnswersStep ==
  ASSUME TypeOK, PaymentInvariant, EvidenceInvariant, [Next]_vars
  PROVE  AnswersAreDurable'
<1> Kept /\ ServicesOK /\ LocalOK /\ StoreOK
  BY KeptStep DEF TypeOK
<1> DEFINE Good(a) == /\ a.key \in Keys /\ row[a.key].status \in Store!Committed
                      /\ row[a.key].resp = a.resp /\ row[a.key].hash = a.hash
<1>1. ASSUME \A a \in answered' : a \in answered \/ Good(a)
      PROVE  AnswersAreDurable'
  <2> SUFFICES ASSUME NEW a \in answered'
               PROVE  /\ row'[a.key].status \in Store!Committed
                      /\ row'[a.key].resp = a.resp
                      /\ a.resp.ctx.request = a.hash
    BY DEF AnswersAreDurable
  <2>1. CASE Good(a)
    <3>1. a.resp.ctx.request = a.hash
      BY <2>1 DEF EvidenceInvariant, RowMatches
    <3> QED BY <2>1, <3>1 DEF Kept, RowKept
  <2>2. CASE a \in answered
    <3>1. /\ a.key \in Keys /\ row[a.key].status \in Store!Committed
          /\ row[a.key].resp = a.resp /\ a.resp.ctx.request = a.hash
      BY <2>2 DEF EvidenceInvariant, AnswersAreDurable, ServicesOK, Answers
    <3> QED BY <3>1 DEF Kept, RowKept
  <2> QED BY <1>1, <2>1, <2>2
<1>2. ASSUME UNCHANGED answered PROVE AnswersAreDurable'
  BY <1>1, <1>2
<1>3. ASSUME NEW w \in Workers, pc[w] # "idle", Existing(w, row[job[w].key])
      PROVE  AnswersAreDurable'
  <2> DEFINE r == row[job[w].key]
  <2>1. ASSUME SameRequest(w, r), r.status \in {"event_published", "succeeded"},
               Answer(w, r.resp)
        PROVE  AnswersAreDurable'
    <3> DEFINE a == [key |-> job[w].key, hash |-> job[w].hash, resp |-> r.resp]
    <3>1. answered' \subseteq answered \cup {a}
      BY <2>1 DEF Answer
    <3>2. Good(a)
      BY <1>3, <2>1, JobRow DEF SameRequest, Store!Committed
    <3> QED BY <1>1, <3>1, <3>2
  <2> QED BY <1>2, <1>3, <2>1 DEF Existing, Resume
<1>4. ASSUME NEW w \in Workers, pc[w] = "save", Conclude(w)
      PROVE  AnswersAreDurable'
  <2> DEFINE a == [key |-> job[w].key, hash |-> job[w].hash, resp |-> job[w].resp]
  <2>1. answered' \subseteq answered \cup {a}
    BY <1>4 DEF Conclude, Answer
  <2>2. Good(a)
    BY <1>4, Known DEF EvidenceInvariant, Agrees, Grounded, Delivering
  <2> QED BY <1>1, <2>1, <2>2
<1>5. ASSUME NEW c \in Clients, ClientStep(c) PROVE AnswersAreDurable'
  <2> c \in Workers
    BY DEF Workers
  <2>1. ASSUME NEW k \in Keys, Poll(c, k) PROVE AnswersAreDurable'
    BY <1>1, <2>1 DEF Poll
  <2> QED
    BY <1>2, <1>3, <1>5, <2>1 DEF ClientStep, Request, Lookup, Insert, Claim, Select
<1>6. ASSUME NEW w \in Workers, Execute(w) PROVE AnswersAreDurable'
  BY <1>2, <1>3, <1>4, <1>6
     DEF Execute, SpendOk, SpendRejected, SpendUnknown, MarkFailed, ReadPity, DrawFails, Commit,
         Reconcile, Publish, PublishFails, Save, Refund, RefundFails, Close,
         StoreError, Crash
<1>7. ASSUME NEW v \in Recoverers, RecoveryStep(v) PROVE AnswersAreDurable'
  BY <1>2, <1>7
     DEF RecoveryStep, Scan, ScanError, Reclaim, LockRow, Receipt, ReceiptFails,
         Confirm, Release
<1>8. ASSUME Environment PROVE AnswersAreDurable'
  BY <1>2, <1>8
     DEF Environment, ExpireLease, ExpireLock, LateSpend, TopUp, Apply
<1>9. ASSUME UNCHANGED vars PROVE AnswersAreDurable'
  BY <1>2, <1>9 DEF vars
<1> QED BY <1>5, <1>6, <1>7, <1>8, <1>9 DEF Next

\* Only a receipt makes an operation succeeded.
LEMMA SucceededStep ==
  ASSUME TypeOK, PaymentInvariant, EvidenceInvariant, [Next]_vars
  PROVE  SucceededIsApplied'
<1> StoreOK /\ LocalOK /\ Kept /\ applied \subseteq applied'
  BY SettledStep DEF TypeOK, Settled
<1> SUFFICES ASSUME NEW k \in Keys, row'[k].status = "succeeded"
             PROVE  \E e \in applied' : e.key = k /\ e.resp = row'[k].resp
  BY DEF SucceededIsApplied
<1>0. row[k] \in Store!Rows
  BY DEF StoreOK
<1>1. CASE row[k].status = "succeeded"
  <2>1. row'[k].resp = row[k].resp
    BY <1>1 DEF Kept, RowKept, Store!Committed
  <2> QED BY <1>1, <2>1 DEF EvidenceInvariant, SucceededIsApplied
<1>2. ASSUME row[k].status # "succeeded", NEW w \in Workers, Delivers(w, k)
      PROVE  \E e \in applied' : e.key = k /\ e.resp = row'[k].resp
  <2>1. PICK s \in {"event_published", "succeeded"}, p \in Responses :
          /\ s = "succeeded" => pc[w] = "confirm"
          /\ row'[k] = Store!Updated(row[k], s, p)
    BY <1>2 DEF Delivers
  <2>2. row'[k].status = s
    BY <1>0, <2>1, RowStatus
  <2>3. PICK e \in applied : e.key = k
    BY <1>2, <2>1, <2>2 DEF Delivers, EvidenceInvariant, Agrees
  <2>4. row[k].resp = e.resp
    BY <2>3 DEF EvidenceInvariant, OneResultPerEvent
  <2>5. row'[k].resp = row[k].resp
    BY <1>2 DEF Delivers, Kept, RowKept
  <2> QED BY <2>3, <2>4, <2>5
<1>3. ASSUME row[k].status # "succeeded", Ordinary(k)
      PROVE  \E w \in Workers : Delivers(w, k)
  <2>1. ASSUME NEW c \in Clients, Opens(c, k) PROVE FALSE
    BY <2>1 DEF Opens, Store!Inserted, Store!Absent
  <2>2. ASSUME NEW c \in Clients, TakesOver(c, k) PROVE FALSE
    BY <1>0, <1>3, <2>2, RowStatus DEF TakesOver
  <2>3. ASSUME NEW w \in Workers, GivesUp(w, k) PROVE FALSE
    BY <1>0, <2>3, RowStatus DEF GivesUp
  <2>4. ~Closes(k)
    BY <1>0, RowStatus DEF Closes
  <2> QED BY <1>3, <2>1, <2>2, <2>3, <2>4 DEF Ordinary, Untouched
<1>4. ASSUME row[k].status # "succeeded", NEW w \in Workers, Draws(w) PROVE FALSE
  <2> DEFINE d == job[w].key
             new == Store!Updated(row[d], "event_pending", job[w].resp)
  <2>1. d \in Keys /\ row[d] \in Store!Rows /\ row' = [row EXCEPT ![d] = new]
    BY <1>4, Known DEF Draws
  <2>2. new.status = "event_pending"
    BY <2>1, RowStatus
  <2>3. row'[d] = new /\ \A l \in Keys \ {d} : Untouched(l)
    <3> HIDE DEF d, new
    <3> QED BY <2>1, OthersUntouched
  <2> QED BY <1>4, <2>2, <2>3 DEF Untouched
<1> QED BY <1>1, <1>2, <1>3, <1>4, DbStep

\* A pity that a group has reached stays reached.
LEMMA ReachedKept ==
  ASSUME Kept, NEW g, NEW p, Reached(p, g)
  PROVE  Reached(p, g)'
BY DEF Kept, RowKept, Reached, Drawn

\* The draws of a group stay a chain when it gains none or one that starts from
\* the current snapshot.
LEMMA ChainStep ==
  ASSUME TypeOK, PaymentInvariant, EvidenceInvariant, [Next]_vars
  PROVE  PityChain'
<1> StoreOK /\ LocalOK /\ Kept /\ PityKept
  BY KeptStep DEF TypeOK
<1>0. /\ \A k \in Keys : row[k].status \in Store!Committed =>
           /\ row'[k].status \in Store!Committed /\ row'[k].resp = row[k].resp
           /\ row[k].resp \in Responses
      /\ PityChain
  BY DEF Kept, RowKept, EvidenceInvariant, StoreOK, RowOK
<1>1. ASSUME NEW g \in Groups,
             \A k \in Keys : k \in Drawn(g)' => k \in Drawn(g), pity'[g] = pity[g]
      PROVE  /\ Reached(pity[g], g)'
             /\ \A k \in Drawn(g)' : /\ Reached(row[k].resp.prev, g)'
                                     /\ row'[k].resp.prev.version < pity'[g].version
             /\ \A k, l \in Drawn(g)' :
                  row'[k].resp.prev.version = row'[l].resp.prev.version => k = l
  <2>1. Reached(pity[g], g)'
    <3>1. PICK p : p = pity[g]
      OBVIOUS
    <3>2. Reached(p, g)'
      BY <1>0, <3>1, ReachedKept DEF PityChain
    <3> QED BY <1>1, <3>1, <3>2 DEF Reached
  <2>2. ASSUME NEW k \in Drawn(g)'
        PROVE  k \in Drawn(g) /\ row'[k].resp = row[k].resp
    BY <1>0, <1>1, <2>2 DEF Drawn
  <2>3. ASSUME NEW k \in Drawn(g)' PROVE Reached(row[k].resp.prev, g)'
    <3>1. PICK p : p = row[k].resp.prev
      OBVIOUS
    <3>2. Reached(p, g)'
      BY <1>0, <2>2, <3>1, ReachedKept DEF PityChain
    <3> QED BY <2>2, <3>1, <3>2 DEF Reached
  <2>4. \A k \in Drawn(g)' : row'[k].resp.prev.version < pity'[g].version
    BY <1>0, <1>1, <2>2 DEF PityChain
  <2>5. \A k, l \in Drawn(g)' :
          row'[k].resp.prev.version = row'[l].resp.prev.version => k = l
    BY <1>0, <2>2 DEF PityChain
  <2> QED BY <2>1, <2>3, <2>4, <2>5
<1>2. ASSUME UNCHANGED pity, \A k \in Keys : Ordinary(k) PROVE PityChain'
  <2>1. ASSUME NEW g \in Groups PROVE \A k \in Keys : k \in Drawn(g)' => k \in Drawn(g)
    BY <1>0, <1>2, CommittedStep DEF Drawn
  <2> QED BY <1>1, <1>2, <2>1 DEF PityChain
<1>3. ASSUME NEW w \in Workers, Draws(w) PROVE PityChain'
  <2> DEFINE d == job[w].key
             p == job[w].resp
             new == Store!Updated(row[d], "event_pending", p)
  <2>0. PICK h : h = GroupFor(p.ctx)
    OBVIOUS
  <2>1. /\ pc[w] = "commit" /\ d \in Keys /\ row[d] \in Store!Rows
        /\ row[d].status = "processing" /\ row' = [row EXCEPT ![d] = new]
        /\ pity' = [pity EXCEPT ![h] = [version |-> @.version + 1, by |-> d]]
        /\ p \in Responses /\ Agrees("commit", job[w]) /\ ~Outdated(p)
    BY <1>3, <2>0, Known, Prepared
       DEF Draws, Store!OwnedBy, EvidenceInvariant, WithResponse
  <2>2. h \in Groups /\ p.prev = pity[h]
    BY <2>0, <2>1, ContextType DEF Agrees, Outdated, Responses
  <2>3. new.status = "event_pending" /\ new.resp = p
    BY <2>1 DEF Store!Updated, Store!Transitioned, Store!Rows
  <2>4. row'[d] = new /\ \A l \in Keys \ {d} : Untouched(l)
    <3> HIDE DEF d, new, p
    <3> QED BY <2>1, OthersUntouched
  <2>5. /\ pity'[h] = [version |-> pity[h].version + 1, by |-> d]
        /\ \A g \in Groups \ {h} : pity'[g] = pity[g]
        /\ pity[h].version \in Nat
    <3> HIDE DEF d, new, p
    <3> QED BY <2>1, <2>2 DEF StoreOK, PityStates
  <2> HIDE DEF new, p
  <2>6. d \in Drawn(h)' /\ row'[d].resp = p
    BY <2>0, <2>1, <2>3, <2>4 DEF Drawn, Store!Committed
  <2>7. \A g \in Groups, k \in Keys : k \in Drawn(g)' =>
          k \in Drawn(g) \/ (k = d /\ g = h)
    BY <2>0, <2>3, <2>4 DEF Drawn, Untouched
  <2>8. ASSUME NEW g \in Groups \ {h}
        PROVE  \A k \in Keys : k \in Drawn(g)' => k \in Drawn(g)
    BY <2>7
  <2> DEFINE Chain(g) ==
        /\ Reached(pity[g], g)
        /\ \A k \in Drawn(g) : /\ Reached(row[k].resp.prev, g)
                               /\ row[k].resp.prev.version < pity[g].version
        /\ \A k, l \in Drawn(g) :
             row[k].resp.prev.version = row[l].resp.prev.version => k = l
  <2>9. ASSUME NEW g \in Groups, g = h PROVE Chain(g)'
    <3>1. Reached(pity[g], g)'
      BY <2>2, <2>5, <2>6, <2>9 DEF Reached
    <3>2. ASSUME NEW k \in Drawn(g)'
          PROVE  /\ Reached(row[k].resp.prev, g)'
                 /\ row'[k].resp.prev.version <= pity[g].version
                 /\ k # d => k \in Drawn(g) /\ row'[k].resp = row[k].resp
                             /\ row[k].resp.prev.version < pity[g].version
      <4>1. k \in Keys
        BY DEF Drawn
      <4>2. CASE k = d
        <5>1. PICK q : q = pity[g]
          OBVIOUS
        <5>2. Reached(q, g)'
          BY <1>0, <5>1, ReachedKept DEF PityChain
        <5>3. row'[k].resp.prev = q
          BY <2>2, <2>6, <2>9, <4>2, <5>1
        <5> QED BY <2>5, <2>9, <4>2, <5>1, <5>2, <5>3 DEF Reached
      <4>3. CASE k # d
        <5>1. k \in Drawn(g) /\ row'[k].resp = row[k].resp
          BY <1>0, <2>7, <4>1, <4>3 DEF Drawn
        <5>2. PICK q : q = row[k].resp.prev
          OBVIOUS
        <5>3. Reached(q, g)' /\ q.version < pity[g].version
          BY <1>0, <5>1, <5>2, ReachedKept DEF PityChain
        <5>4. q.version \in Nat
          BY <1>0, <5>1, <5>2 DEF Drawn, Responses, PityStates
        <5> QED BY <2>5, <2>9, <5>1, <5>2, <5>3, <5>4 DEF Reached
      <4> QED BY <4>2, <4>3
    <3>3. \A k \in Drawn(g)' : row'[k].resp.prev.version \in Nat
      BY <1>0, <2>1, <2>6, <2>7 DEF Drawn, Responses, PityStates
    <3>4. \A k \in Drawn(g)' : row'[k].resp.prev.version < pity'[g].version
      BY <2>5, <2>9, <3>2, <3>3
    <3>5. ASSUME NEW k \in Drawn(g)', NEW l \in Drawn(g)',
                 row'[k].resp.prev.version = row'[l].resp.prev.version
          PROVE  k = l
      <4>1. row'[d].resp.prev.version = pity[g].version
        BY <2>2, <2>6, <2>9
      <4>2. CASE k = d \/ l = d
        BY <2>5, <2>9, <3>2, <3>3, <3>5, <4>1, <4>2
      <4>3. CASE k # d /\ l # d
        BY <1>0, <3>2, <3>5, <4>3 DEF PityChain
      <4> QED BY <4>2, <4>3
    <3> QED BY <3>1, <3>2, <3>4, <3>5
  <2>10. ASSUME NEW g \in Groups, g # h PROVE Chain(g)'
    BY <1>1, <2>5, <2>8, <2>10
  <2>11. \A g \in Groups : Chain(g)'
    BY <2>9, <2>10
  <2> QED BY <2>11 DEF PityChain
<1> QED BY <1>2, <1>3, DbStep

\* What an older engine may have left satisfies the invariant.
LEMMA EvidenceInit == Init => EvidenceInvariant
<1> SUFFICES ASSUME Init PROVE EvidenceInvariant
  OBVIOUS
<1>1. TypeOK /\ StoreOK
  BY InitType DEF TypeOK
<1>2. /\ \A k \in Keys : RowMatches(row[k]) /\ row[k].status # "succeeded"
      /\ \A k \in Keys : row[k].status \in Store!Committed => row[k].resp.prev = NoPity
      /\ \A k, l \in Keys :
           /\ row[k].status \in Store!Committed /\ row[l].status \in Store!Committed
           /\ GroupFor(row[k].resp.ctx) = GroupFor(row[l].resp.ctx)
           => k = l
  BY InitRowsAssumption DEF Init
<1>3. \A w \in Workers : Agrees(pc[w], job[w])
  BY DEF Init, Agrees, Executing, Delivering
<1>4. RecordsCurrent /\ OneResultPerEvent /\ AnswersAreDurable /\ SucceededIsApplied
  BY <1>2 DEF Init, RecordsCurrent, OneResultPerEvent, AnswersAreDurable, SucceededIsApplied
<1>5. ASSUME NEW g \in Groups
      PROVE  /\ Reached(pity[g], g)
             /\ \A k \in Drawn(g) : /\ Reached(row[k].resp.prev, g)
                                    /\ row[k].resp.prev.version < pity[g].version
             /\ \A k, l \in Drawn(g) :
                  row[k].resp.prev.version = row[l].resp.prev.version => k = l
  <2>1. StartDrawn(g) = Drawn(g)
    BY DEF StartDrawn, Drawn
  <2>2. \A k, l \in Drawn(g) : k = l
    BY <1>2 DEF Drawn
  <2>3. \A k \in Drawn(g) : row[k].resp.prev = NoPity
    BY <1>2 DEF Drawn
  <2>4. CASE Drawn(g) = {}
    BY <2>1, <2>4 DEF Init, Reached, NoPity
  <2>5. CASE Drawn(g) # {}
    <3>1. PICK k \in Drawn(g) : pity[g] = [version |-> 1, by |-> k]
      BY <2>1, <2>5 DEF Init
    <3>2. Reached(pity[g], g)
      BY <2>3, <3>1 DEF Reached, NoPity
    <3>3. \A l \in Drawn(g) : Reached(row[l].resp.prev, g)
      BY <2>3 DEF Reached, NoPity
    <3> QED BY <2>2, <2>3, <3>1, <3>2, <3>3 DEF NoPity
  <2> QED BY <2>4, <2>5
<1> QED BY <1>2, <1>3, <1>4, <1>5 DEF EvidenceInvariant, PityChain

----------------------------------------------------------------------------
(* The theorems *)

\* From the first claim to the last republication an operation has one context
\* and at most one draw, and the draws of a pity group form one chain.
THEOREM EvidenceCorrect == Spec => []EvidenceInvariant
<1>1. TypeOK /\ PaymentInvariant /\ EvidenceInvariant /\ [Next]_vars => EvidenceInvariant'
  <2> SUFFICES ASSUME TypeOK, PaymentInvariant, EvidenceInvariant, [Next]_vars
               PROVE  EvidenceInvariant'
    OBVIOUS
  <2>1. \A k \in Keys : RowMatches(row'[k])
    BY RowsMatchStep
  <2>2. (\A k \in Keys : RowMatches(row[k]))'
    BY <2>1 DEF RowMatches
  <2> QED
    BY <2>2, AgreesStep, CurrentStep, EventsStep, AnswersStep, SucceededStep, ChainStep
       DEF EvidenceInvariant
<1> QED BY <1>1, EvidenceInit, TypeCorrect, PaymentCorrect, PTL DEF Spec

\* No draw of a pity group is lost or counted twice.
THEOREM PityIsAChain == Spec => []PityChain
<1>1. EvidenceInvariant => PityChain
  BY DEF EvidenceInvariant
<1> QED BY <1>1, EvidenceCorrect, PTL

\* Whoever reads the topic sees the one result that the row holds.
THEOREM OneResult == Spec => []OneResultPerEvent
<1>1. EvidenceInvariant => OneResultPerEvent
  BY DEF EvidenceInvariant
<1> QED BY <1>1, EvidenceCorrect, PTL

\* "succeeded" means that Backpack has applied this very result.
THEOREM SucceededMeansApplied == Spec => []SucceededIsApplied
<1>1. EvidenceInvariant => SucceededIsApplied
  BY DEF EvidenceInvariant
<1> QED BY <1>1, EvidenceCorrect, PTL

\* What a client was shown stays on record and answers what it asked.
THEOREM AnswersLast == Spec => []AnswersAreDurable
<1>1. EvidenceInvariant => AnswersAreDurable
  BY DEF EvidenceInvariant
<1> QED BY <1>1, EvidenceCorrect, PTL

\* A retry or a recovery draws from the context of the first claim, whatever the
\* catalog says by then.
THEOREM ContextIsFrozen == Spec => ContextFrozen
<1> DEFINE Frozen == \A k \in Keys : row[k].ctx # None =>
                       /\ row'[k].ctx \in {row[k].ctx, None}
                       /\ row'[k].status \in Store!Committed => row'[k].resp.ctx = row[k].ctx
<1>1. TypeOK /\ PaymentInvariant /\ EvidenceInvariant /\ [Next]_vars => Frozen
  <2> SUFFICES ASSUME TypeOK, PaymentInvariant, EvidenceInvariant, [Next]_vars,
                      NEW k \in Keys, row[k].ctx # None
               PROVE  /\ row'[k].ctx \in {row[k].ctx, None}
                      /\ row'[k].status \in Store!Committed => row'[k].resp.ctx = row[k].ctx
    OBVIOUS
  <2>1. row[k] \in Store!Rows /\ row[k].status \notin Store!Committed \cup {"absent"}
    BY DEF TypeOK, StoreOK, EvidenceInvariant, RowMatches
  <2>2. ASSUME Ordinary(k)
        PROVE  row'[k].ctx \in {row[k].ctx, None} /\ row'[k].status \notin Store!Committed
    <3>1. CASE Untouched(k)
      BY <2>1, <3>1 DEF Untouched
    <3>2. \A c \in Clients : ~Opens(c, k)
      BY <2>1 DEF Opens, Store!Absent
    <3>3. ASSUME NEW c \in Clients, TakesOver(c, k)
          PROVE  row'[k].ctx = row[k].ctx /\ row'[k].status = "processing"
      <4>1. row[k].status = "processing" /\ row'[k] = Store!Claimed(row[k], c, job[c].ctx)
        BY <3>3 DEF TakesOver, Store!Claimable
      <4> QED BY <2>1, <4>1 DEF Store!Claimed, Store!Rows
    <3>4. CASE Closes(k) \/ \E w \in Workers : GivesUp(w, k) \/ Delivers(w, k)
      BY <2>1, <3>4
         DEF Closes, GivesUp, Delivers, Store!Updated, Store!Transitioned, Store!Rows,
             Store!Committed
    <3> QED BY <2>2, <3>1, <3>2, <3>3, <3>4 DEF Ordinary, Store!Committed
  <2>3. ASSUME NEW w \in Workers, Draws(w), job[w].key = k
        PROVE  row'[k].ctx = None /\ row'[k].resp.ctx = row[k].ctx
    <3>1. job[w].resp.ctx = job[w].ctx /\ row[k].ctx = job[w].ctx
      BY <2>3 DEF Draws, Store!OwnedBy, EvidenceInvariant, Agrees, Executing
    <3>2. row'[k] = Store!Updated(row[k], "event_pending", job[w].resp)
      BY <2>3 DEF Draws, TypeOK, StoreOK
    <3> QED BY <2>1, <3>1, <3>2 DEF Store!Updated, Store!Transitioned, Store!Rows
  <2>4. ASSUME NEW w \in Workers, Draws(w), job[w].key # k
        PROVE  row'[k] = row[k]
    BY <2>4 DEF Draws, TypeOK, StoreOK
  <2> QED BY <2>1, <2>2, <2>3, <2>4, DbStep
<1> QED BY <1>1, TypeCorrect, PaymentCorrect, EvidenceCorrect, PTL DEF Spec, ContextFrozen
----------------------------------------------------------------------------
(* Recovery can finish what it could finish before *)

\* Rows that recovery can finish, by status.
LEMMA FinishingRows ==
  ASSUME NEW r \in Store!Rows, RowOK(r)
  PROVE  CanFinish(r) <=>
           /\ r.status \in {"processing", "refund_pending"} => r.ctx # None
           /\ r.status \in {"event_pending", "event_published"} => ~r.resp.legacy
<1>1. /\ Abandoned(r).status = r.status /\ Abandoned(r).ctx = r.ctx
      /\ ~Abandoned(r).leased
  BY DEF Abandoned, Store!Rows
<1>2. /\ r.status = "processing" => ((\E p \in Phases : Due(p, Abandoned(r))) <=> r.ctx # None)
      /\ r.status = "refund_pending" =>
           ((\E p \in Phases : Due(p, Abandoned(r))) <=> r.ctx # None)
      /\ r.status \in {"event_pending", "event_published"} =>
           \E p \in Phases : Due(p, Abandoned(r))
  BY <1>1 DEF Due, Phases, Store!Expired, Store!DeliveryPending, Store!RefundPending
<1>3. ASSUME r.status \in {"event_pending", "event_published"}
      PROVE  Store!TriggerAllows(r, Store!Updated(r, "succeeded", Serialised(r.resp)))
               <=> ~r.resp.legacy
  <2>1. PICK p : p = Serialised(r.resp)
    OBVIOUS
  <2>2. r.resp \in Responses
    BY <1>3 DEF RowOK, Store!Committed
  <2>3. p = r.resp <=> ~r.resp.legacy
    BY <2>1, <2>2 DEF Serialised, Responses
  <2>4. PICK new : new = Store!Updated(r, "succeeded", p)
    OBVIOUS
  <2>5. new.status = "succeeded" /\ new.hash = r.hash /\ new.resp = p
    BY <2>4 DEF Store!Updated, Store!Transitioned, Store!Rows
  <2>6. Store!TriggerAllows(r, new) <=> p = r.resp
    BY <1>3, <2>5 DEF Store!TriggerAllows, Store!Committed
  <2> QED BY <2>1, <2>3, <2>4, <2>6
<1>4. r.status \in Store!Statuses
  BY DEF Store!Rows
<1> QED BY <1>2, <1>3, <1>4 DEF CanFinish, Store!Statuses, Store!Committed

\* No step takes away what recovery needs to finish an operation: the context of
\* an open one, a draw in the format in which it will be saved again.
LEMMA FinishStep ==
  ASSUME TypeOK, TypeOK', PaymentInvariant, EvidenceInvariant, [Next]_vars,
         NEW k \in Keys, CanFinish(row[k])
  PROVE  CanFinish(row'[k])
<1> StoreOK /\ LocalOK
  BY DEF TypeOK
<1>0. /\ row[k] \in Store!Rows /\ RowOK(row[k]) /\ row'[k] \in Store!Rows /\ RowOK(row'[k])
      /\ row[k].status \in {"processing", "refund_pending"} => row[k].ctx # None
      /\ row[k].status \in {"event_pending", "event_published"} => ~row[k].resp.legacy
  <2>1. row[k] \in Store!Rows /\ RowOK(row[k]) /\ row'[k] \in Store!Rows /\ RowOK(row'[k])
    BY DEF TypeOK, StoreOK, RowOK
  <2> QED BY <2>1, FinishingRows
<1> SUFFICES /\ row'[k].status \in {"processing", "refund_pending"} => row'[k].ctx # None
             /\ row'[k].status \in {"event_pending", "event_published"} => ~row'[k].resp.legacy
  BY <1>0, FinishingRows
<1>1. CASE Untouched(k)
  BY <1>0, <1>1 DEF Untouched
<1>2. ASSUME NEW c \in Clients, Opens(c, k)
      PROVE  row'[k].status = "processing" /\ row'[k].ctx # None
  <2>1. job[c].ctx \in Contexts
    BY <1>2, Prepared DEF Opens, Workers, WithContext
  <2> QED BY <1>2, <2>1, ServiceAssumption DEF Opens, Store!Inserted, Store!Absent
<1>3. ASSUME NEW c \in Clients, TakesOver(c, k)
      PROVE  row'[k].status = "processing" /\ row'[k].ctx # None
  BY <1>0, <1>3 DEF TakesOver, Store!Claimable, Store!Claimed, Store!Rows
<1>4. ASSUME NEW w \in Workers, GivesUp(w, k) PROVE row'[k].status = "failed"
  BY <1>0, <1>4, RowStatus DEF GivesUp
<1>5. CASE Closes(k)
  <2>1. row'[k].status = "failed"
    BY <1>0, <1>5, RowStatus DEF Closes
  <2> QED BY <2>1
<1>6. ASSUME NEW w \in Workers, Delivers(w, k)
      PROVE  /\ row'[k].status \in {"event_published", "succeeded"}
             /\ row'[k].status = "event_published" => ~row'[k].resp.legacy
  <2>1. row'[k].status \in {"event_published", "succeeded"} /\ row[k].status # "succeeded"
    BY <1>0, <1>6, RowStatus DEF Delivers, Store!TriggerAllows
  <2>2. row'[k].resp = row[k].resp
    BY <1>6, KeptStep DEF Delivers, Kept, RowKept
  <2> QED BY <1>0, <1>6, <2>1, <2>2 DEF Delivers, Store!Committed
<1>7. ASSUME NEW w \in Workers, Draws(w)
      PROVE  \/ Untouched(k)
             \/ row'[k].status = "event_pending" /\ ~row'[k].resp.legacy
  <2>1. PICK d, p, new : /\ d = job[w].key /\ p = job[w].resp
                         /\ new = Store!Updated(row[d], "event_pending", p)
    OBVIOUS
  <2>2. /\ pc[w] = "commit" /\ d \in Keys /\ row[d] \in Store!Rows
        /\ row' = [row EXCEPT ![d] = new]
    BY <1>7, <2>1, Known DEF Draws
  <2>3. ~p.legacy
    BY <2>1, <2>2 DEF EvidenceInvariant, Agrees
  <2>4. new.status = "event_pending" /\ new.resp = p
    BY <2>1, <2>2 DEF Store!Updated, Store!Transitioned, Store!Rows
  <2>5. row'[d] = new /\ \A l \in Keys \ {d} : Untouched(l)
    BY <2>2, OthersUntouched
  <2>6. CASE k = d
    <3>1. row'[k] = new
      BY <2>5, <2>6
    <3> QED BY <2>3, <2>4, <3>1
  <2>7. CASE k # d
    BY <2>5, <2>7
  <2> QED BY <2>6, <2>7
<1>8. ASSUME Ordinary(k)
      PROVE  /\ row'[k].status \in {"processing", "refund_pending"} => row'[k].ctx # None
             /\ row'[k].status \in {"event_pending", "event_published"} => ~row'[k].resp.legacy
  BY <1>1, <1>2, <1>3, <1>4, <1>5, <1>6, <1>8 DEF Ordinary
<1> QED BY <1>1, <1>7, <1>8, DbStep

\* No step of any worker strands an operation, whatever was there at the start.
THEOREM NothingStrands == Spec => NothingIsStranded
<1>1. TypeOK /\ TypeOK' /\ PaymentInvariant /\ EvidenceInvariant /\ [Next]_vars =>
        [\A k \in Keys : CanFinish(row[k]) => CanFinish(row'[k])]_vars
  BY FinishStep
<1> QED BY <1>1, TypeCorrect, PaymentCorrect, EvidenceCorrect, PTL DEF Spec, NothingIsStranded

\* Rows that today's engine writes: an open one has its context, a draw all keys.
Modern == \A table \in InitRows : \A k \in Keys : CanFinish(table[k])

\* Started on rows recovery can finish, the service never has another: every
\* operation on record is settled or will be found by a scan.
THEOREM RecoveryIsPossible ==
  ASSUME Modern
  PROVE  Spec => [](\A k \in Keys : CanFinish(row[k]))
<1>1. Init => \A k \in Keys : CanFinish(row[k])
  BY DEF Init, Modern
<1>2. /\ TypeOK /\ TypeOK' /\ PaymentInvariant /\ EvidenceInvariant /\ [Next]_vars
      /\ (\A k \in Keys : CanFinish(row[k]))
      => (\A k \in Keys : CanFinish(row[k]))'
  BY FinishStep DEF CanFinish, Abandoned
<1> QED BY <1>1, <1>2, TypeCorrect, PaymentCorrect, EvidenceCorrect, PTL DEF Spec
=============================================================================
