--------------------------- MODULE PullLogProofs ---------------------------
(* The records of the pulls keep to DrawLog, for every value of the constants *)
(* and under every fault: a step of PullService is a step of DrawLog or none  *)
(* at all.  First, what a step can do that a client, the wallet or Backpack   *)
(* could tell.                                                                *)
EXTENDS PullEvidenceProofs, SequenceTheorems

----------------------------------------------------------------------------
(* The effects of a step *)

MoreAnswers == answered' = answered \/ \E a : answered' = answered \cup {a}

Silent == MoreAnswers /\ UNCHANGED <<db, debits, credits, applied>>

OnlyRow == UNCHANGED <<pity, debits, credits, applied, answered>>

\* Leases and locks.
Touching(k) == \E r : /\ row' = [row EXCEPT ![k] = r] /\ OnlyRow
                      /\ r.status = row[k].status /\ r.ctx = row[k].ctx /\ r.resp = row[k].resp

Opening(c) ==
  /\ pc[c] = "insert" /\ row[job[c].key] = Store!Absent /\ OnlyRow
  /\ row' = [row EXCEPT ![job[c].key] = Store!Inserted(job[c].hash, c, job[c].ctx)]

Claiming(c) ==
  /\ pc[c] = "claim" /\ Store!Claimable(row[job[c].key], job[c].hash) /\ OnlyRow
  /\ row' = [row EXCEPT ![job[c].key] = Store!Claimed(row[job[c].key], c, job[c].ctx)]

Paying(d) ==
  /\ d \in late \/ \E w \in Workers : pc[w] = "spend" /\ d = Debit(w)
  /\ debits' \in {debits, debits \cup {d}}
  /\ UNCHANGED <<db, credits, applied, answered>>

Failing(w) ==
  /\ pc[w] = "fail" /\ Store!OwnedBy(row[job[w].key], job[w].hash, w) /\ OnlyRow
  /\ row' = [row EXCEPT ![job[w].key] = Store!Transitioned(row[job[w].key], "failed", None)]

Drawing(w) == Draws(w) /\ UNCHANGED <<debits, credits>>

Reporting(w) ==
  /\ pc[w] \in {"save", "confirm"} /\ MoreAnswers
  /\ \E s \in {"event_published", "succeeded"}, p \in Responses :
       /\ s = "succeeded" => pc[w] = "confirm" /\ UNCHANGED answered
       /\ Written(job[w].key, Store!Updated(row[job[w].key], s, p))
  /\ UNCHANGED <<pity, debits, credits, applied>>

Crediting(w) ==
  /\ pc[w] = "refund"
  /\ credits' \in {credits, credits \cup {[op |-> job[w].key, key |-> RefundKey(w)]}}
  /\ UNCHANGED <<db, debits, applied, answered>>

Closing(w) ==
  /\ pc[w] = "close" /\ OnlyRow
  /\ Written(job[w].key, Store!Updated(row[job[w].key], "failed", None))

Rewarding(e) == e \in topic /\ Apply(e)

Effect == \/ Silent
          \/ \E k \in Keys : Touching(k)
          \/ \E c \in Clients : Opening(c) \/ Claiming(c)
          \/ \E d \in Entries : Paying(d)
          \/ \E w \in Workers : Failing(w) \/ Drawing(w) \/ Reporting(w) \/ Crediting(w) \/ Closing(w)
          \/ \E e \in topic : Rewarding(e)

\* What a handler that finds its operation on record shows is at most its draw.
LEMMA ExistingShows ==
  ASSUME NEW w \in Workers, NEW r, Existing(w, r)
  PROVE  MoreAnswers
BY DEF Existing, Answer, Resume, MoreAnswers

\* A handler's own steps.
LEMMA ClientEffect ==
  ASSUME NEW c \in Clients, ClientStep(c)
  PROVE  Effect
<1> c \in Workers
  BY DEF Workers
<1>1. ASSUME NEW k \in Keys, NEW h \in Hashes, Request(c, k, h) PROVE Silent
  BY <1>1 DEF Request, Silent, MoreAnswers, asset, bus
<1>2. ASSUME NEW k \in Keys, Poll(c, k) PROVE Silent
  BY <1>2 DEF Poll, Silent, MoreAnswers, asset, bus
<1>3. CASE Lookup(c)
  <2>1. MoreAnswers
    BY <1>3, ExistingShows DEF Lookup, MoreAnswers
  <2> QED BY <1>3, <2>1 DEF Lookup, Silent, asset, bus, Effect
<1>4. ASSUME NEW acked \in Acks, Insert(c, acked) PROVE Silent \/ Opening(c)
  BY <1>4 DEF Insert, Silent, Opening, OnlyRow, MoreAnswers, db, asset, bus
<1>5. ASSUME NEW acked \in Acks, Claim(c, acked) PROVE Silent \/ Claiming(c)
  BY <1>5 DEF Claim, Silent, Claiming, OnlyRow, MoreAnswers, db, asset, bus
<1>6. CASE Select(c)
  <2>1. MoreAnswers
    BY <1>6, ExistingShows DEF Select
  <2> QED BY <1>6, <2>1 DEF Select, Silent, asset, bus, Effect
<1> QED BY <1>1, <1>2, <1>3, <1>4, <1>5, <1>6 DEF ClientStep, Effect

\* The execution of an operation, by a handler or a recovery worker.
LEMMA ExecuteEffect ==
  ASSUME TypeOK, NEW w \in Workers, Execute(w)
  PROVE  Effect
<1> StoreOK /\ LocalOK
  BY DEF TypeOK
<1>1. CASE SpendOk(w) \/ SpendUnknown(w)
  <2>1. PICK d : d = Debit(w)
    OBVIOUS
  <2>2. pc[w] = "spend" /\ UNCHANGED <<db, credits, bus, answered>>
    BY <1>1 DEF SpendOk, SpendUnknown
  <2>3. debits' \in {debits, debits \cup {d}}
    BY <1>1, <2>1 DEF SpendOk, SpendUnknown, Unanswered, Charge
  <2>4. d \in Entries
    BY <2>1, <2>2, JobRow DEF Debit, SpendKey, Entries
  <2> QED BY <2>1, <2>2, <2>3, <2>4 DEF Paying, Effect, bus
<1>2. CASE SpendRejected(w) \/ ReadPity(w) \/ DrawFails(w) \/ Crash(w)
  BY <1>2 DEF SpendRejected, ReadPity, DrawFails, Crash, Effect, Silent, MoreAnswers, asset, bus
<1>3. CASE MarkFailed(w)
  <2>1. CASE Store!OwnedBy(row[job[w].key], job[w].hash, w)
    <3>1. row' = [row EXCEPT ![job[w].key] = Store!Transitioned(row[job[w].key], "failed", None)]
      BY <1>3, <2>1 DEF MarkFailed
    <3> QED BY <1>3, <2>1, <3>1 DEF MarkFailed, Failing, OnlyRow, Effect, asset, bus
  <2>2. CASE ~Store!OwnedBy(row[job[w].key], job[w].hash, w)
    BY <1>3, <2>2 DEF MarkFailed, Effect, Silent, MoreAnswers, db, asset, bus
  <2> QED BY <2>1, <2>2
<1>4. ASSUME NEW acked \in Acks, Commit(w, acked) PROVE Effect
  <2>1. UNCHANGED db \/ Draws(w)
    BY <1>4 DEF Commit, Draws, bus
  <2> QED BY <1>4, <2>1 DEF Commit, Drawing, Effect, Silent, MoreAnswers, asset, bus
<1>5. CASE Reconcile(w)
  <2>1. MoreAnswers
    BY <1>5, ExistingShows DEF Reconcile
  <2> QED BY <1>5, <2>1 DEF Reconcile, Silent, asset, bus, Effect
<1>6. CASE Publish(w) \/ PublishFails(w)
  BY <1>6 DEF Publish, PublishFails, Effect, Silent, MoreAnswers, asset
<1>7. CASE Save(w)
  <2>1. MoreAnswers
    BY <1>7 DEF Save, Conclude, Answer, MoreAnswers
  <2>2. PICK p : p = Serialised(job[w].resp)
    OBVIOUS
  <2>3. p \in Responses
    BY <1>7, <2>2, Prepared DEF Save, WithResponse, Serialised, Responses
  <2>4. Written(job[w].key, Store!Updated(row[job[w].key], "event_published", p))
    BY <1>7, <2>2 DEF Save
  <2> QED BY <1>7, <2>1, <2>3, <2>4 DEF Save, Reporting, Effect, asset, bus
<1>8. CASE Refund(w) \/ RefundFails(w)
  BY <1>8 DEF Refund, RefundFails, Crediting, Effect, bus
<1>9. CASE Close(w)
  BY <1>9 DEF Close, Closing, OnlyRow, Effect, asset, bus
<1>10. CASE StoreError(w)
  <2>1. MoreAnswers
    BY <1>10 DEF StoreError, Conclude, Answer, MoreAnswers
  <2> QED BY <1>10, <2>1 DEF StoreError, Silent, asset, bus, Effect
<1> QED BY <1>1, <1>2, <1>3, <1>4, <1>5, <1>6, <1>7, <1>8, <1>9, <1>10 DEF Execute

\* The recovery worker's own steps.
LEMMA RecoveryEffect ==
  ASSUME TypeOK, NEW v \in Recoverers, RecoveryStep(v)
  PROVE  Effect
<1> v \in Workers
  BY DEF Workers
<1> StoreOK /\ LocalOK
  BY DEF TypeOK
<1>1. CASE Scan(v) \/ ScanError(v) \/ Receipt(v) \/ ReceiptFails(v)
  BY <1>1 DEF Scan, ScanError, Receipt, ReceiptFails, Effect, Silent, MoreAnswers, asset, bus
<1>2. ASSUME NEW x \in batch[v], NEW acked \in Acks, Reclaim(v, x, acked) \/ LockRow(v, x, acked)
      PROVE  Effect
  <2>1. PICK k : k = x.job.key
    OBVIOUS
  <2>2. k \in Keys /\ row[k] \in Store!Rows
    BY <2>1 DEF LocalOK, StoreOK, Records, Jobs
  <2>3. UNCHANGED <<pity, asset, bus, answered>>
    BY <1>2 DEF Reclaim, LockRow
  <2>4. \/ UNCHANGED row
        \/ \E r \in {Store!Reclaimed(row[k], v), Store!Locked(row[k])} :
             row' = [row EXCEPT ![k] = r]
    BY <1>2, <2>1, <2>2 DEF Reclaim, LockRow, StoreOK
  <2>5. CASE UNCHANGED row
    BY <2>3, <2>5 DEF Effect, Silent, MoreAnswers, db, asset, bus
  <2>6. ASSUME NEW r \in {Store!Reclaimed(row[k], v), Store!Locked(row[k])},
               row' = [row EXCEPT ![k] = r]
        PROVE  Effect
    <3>1. r.status = row[k].status /\ r.ctx = row[k].ctx /\ r.resp = row[k].resp
      BY <2>2, UntouchedRows
    <3> QED BY <2>2, <2>3, <2>6, <3>1 DEF Effect, Touching, OnlyRow, asset, bus
  <2> QED BY <2>4, <2>5, <2>6
<1>3. CASE Confirm(v)
  <2>1. PICK p : p = Serialised(job[v].resp)
    OBVIOUS
  <2>2. p \in Responses
    BY <1>3, <2>1, Prepared DEF Confirm, WithResponse, Serialised, Responses
  <2>3. Written(job[v].key, Store!Updated(row[job[v].key], "succeeded", p))
    BY <1>3, <2>1 DEF Confirm
  <2> QED BY <1>3, <2>2, <2>3 DEF Confirm, Reporting, MoreAnswers, Effect, asset, bus
<1>4. CASE Release(v)
  <2>1. PICK k, r : k = job[v].key /\ r = Store!Released(row[k])
    OBVIOUS
  <2>2. k \in Keys /\ row[k] \in Store!Rows
    BY <1>4, <2>1, JobRow DEF Release
  <2>3. r.status = row[k].status /\ r.ctx = row[k].ctx /\ r.resp = row[k].resp
    BY <2>1, <2>2, UntouchedRows
  <2>4. row' = [row EXCEPT ![k] = r]
    BY <1>4, <2>1, <2>2 DEF Release, StoreOK
  <2> QED BY <1>4, <2>2, <2>3, <2>4 DEF Release, Effect, Touching, OnlyRow, asset, bus
<1> QED BY <1>1, <1>2, <1>3, <1>4 DEF RecoveryStep

\* Every step has one of these effects.
LEMMA EffectStep ==
  ASSUME TypeOK, [Next]_vars
  PROVE  Effect
<1> StoreOK /\ ServicesOK
  BY DEF TypeOK
<1>1. ASSUME NEW k \in Keys, ExpireLease(k) \/ ExpireLock(k) PROVE Effect
  <2>0. row[k] \in Store!Rows
    BY DEF StoreOK
  <2>1. ASSUME NEW r \in {[row[k] EXCEPT !.leased = FALSE], [row[k] EXCEPT !.locked = FALSE]},
               row' = [row EXCEPT ![k] = r]
        PROVE  Effect
    <3>1. r.status = row[k].status /\ r.ctx = row[k].ctx /\ r.resp = row[k].resp
      BY <2>0, UntouchedRows
    <3> QED
      BY <1>1, <2>1, <3>1 DEF ExpireLease, ExpireLock, Effect, Touching, OnlyRow, asset, bus
  <2>2. \/ row' = [row EXCEPT ![k] = [row[k] EXCEPT !.leased = FALSE]]
        \/ row' = [row EXCEPT ![k] = [row[k] EXCEPT !.locked = FALSE]]
    BY <1>1 DEF ExpireLease, ExpireLock, StoreOK
  <2> QED BY <2>1, <2>2
<1>2. ASSUME NEW d \in late, LateSpend(d) PROVE Effect
  <2>1. d \in Entries
    BY DEF ServicesOK
  <2>2. debits' \in {debits, debits \cup {d}}
    BY <1>2 DEF LateSpend, Charge
  <2> QED BY <1>2, <2>1, <2>2 DEF LateSpend, Paying, Effect, bus
<1>3. ASSUME NEW e \in topic, Apply(e) PROVE Effect
  BY <1>3 DEF Effect, Rewarding
<1>4. CASE TopUp \/ UNCHANGED vars
  BY <1>4 DEF TopUp, vars, Effect, Silent, MoreAnswers, db, bus
<1> QED BY <1>1, <1>2, <1>3, <1>4, ClientEffect, ExecuteEffect, RecoveryEffect
        DEF Next, Environment
----------------------------------------------------------------------------
(* The tapes of the pity groups *)

Tapes    == [g \in Groups |-> TapeOf(g)]
Shown    == {a.key : a \in answered}
Rewarded == {e.key : e \in applied}

\* Operations whose draw started from the (n - 1)-th version of group g.
At(g, n) == {k \in Drawn(g) : row[k].resp.prev.version = n - 1}

Pick(S) == IF S = {} THEN None ELSE CHOOSE k \in S : TRUE

\* Tapes are read off the committed rows and the pity versions.
LEMMA TapeViews ==
  /\ Tapes = [g \in Groups |-> [n \in 1..pity[g].version |-> Pick(At(g, n))]]
  /\ Tapes' = [g \in Groups |-> [n \in 1..pity'[g].version |-> Pick(At(g, n)')]]
<1>1. /\ \A g \in Groups : TapeOf(g) = [n \in 1..pity[g].version |-> Pick(At(g, n))]
      /\ \A g \in Groups : TapeOf(g)' = [n \in 1..pity'[g].version |-> Pick(At(g, n)')]
  BY DEF TapeOf, At, Pick
<1> QED BY <1>1 DEF Tapes

\* Row r carries the draw that row q carries, or neither carries one.
SameDraw(r, q) == /\ r.status \in Store!Committed <=> q.status \in Store!Committed
                  /\ q.status \in Store!Committed => r.resp = q.resp

\* The tapes stay when the pity does and no row gets, loses or changes its draw.
LEMMA TapesKept ==
  ASSUME UNCHANGED pity, \A k \in Keys : SameDraw(row'[k], row[k])
  PROVE  UNCHANGED Tapes
<1>1. \A g, n : At(g, n)' = At(g, n)
  BY DEF At, Drawn, SameDraw
<1> QED BY <1>1, TapeViews

Extended(f, v, e) == [n \in 1..(v + 1) |-> IF n = v + 1 THEN e ELSE f[n]]

\* A list with one more entry.
LEMMA AppendIs ==
  ASSUME NEW v \in Nat, NEW S, NEW f \in [1..v -> S], NEW e \in S
  PROVE  Append(f, e) = Extended(f, v, e)
<1>1. f \in Seq(S) /\ Len(f) = v
  OBVIOUS
<1>2. /\ Append(f, e) \in Seq(S) /\ Len(Append(f, e)) = v + 1
      /\ \A n \in 1..v : Append(f, e)[n] = f[n]
      /\ Append(f, e)[v + 1] = e
  BY <1>1, AppendProperties
<1>3. Append(f, e) \in [1..(v + 1) -> S]
  BY <1>2, LenProperties
<1>4. ASSUME NEW n \in 1..(v + 1)
      PROVE  Append(f, e)[n] = IF n = v + 1 THEN e ELSE f[n]
  <2>1. CASE n \in 1..v
    BY <1>2, <2>1
  <2>2. CASE n = v + 1
    BY <1>2, <2>2
  <2> QED BY <2>1, <2>2
<1> QED BY <1>3, <1>4 DEF Extended

\* What a commit finds and writes.
LEMMA DrawnRow ==
  ASSUME TypeOK, PaymentInvariant, EvidenceInvariant, NEW w \in Workers, Draws(w),
         NEW d, d = job[w].key, NEW p, p = job[w].resp, NEW h, h = GroupFor(p.ctx),
         NEW r, r = Store!Updated(row[d], "event_pending", p)
  PROVE  /\ d \in Keys /\ row[d] \in Store!Rows /\ row[d].status = "processing"
         /\ Charged(d) /\ p \in Responses /\ h \in Groups
         /\ row[d].ctx = p.ctx /\ p.ctx \in Contexts
         /\ p.prev.version = pity[h].version /\ pity[h].version \in Nat
         /\ row' = [row EXCEPT ![d] = r]
         /\ pity' = [pity EXCEPT ![h] = [version |-> @.version + 1, by |-> d]]
         /\ r.status = "event_pending" /\ r.ctx = None /\ r.resp = p
<1> StoreOK /\ LocalOK
  BY DEF TypeOK
<1>1. /\ pc[w] = "commit" /\ d \in Keys /\ row[d] \in Store!Rows /\ row[d].status = "processing"
      /\ p \in Responses /\ job[w].ctx \in Contexts /\ Charged(d)
      /\ Agrees("commit", job[w]) /\ ~Outdated(p)
  BY Known, Prepared
     DEF Draws, Grounded, EvidenceInvariant, Store!OwnedBy, WithContext, WithResponse, Executing
<1>2. /\ row' = [row EXCEPT ![d] = r]
      /\ pity' = [pity EXCEPT ![h] = [version |-> @.version + 1, by |-> d]]
  BY DEF Draws
<1>3. job[w].ctx = p.ctx /\ row[d].ctx = p.ctx
  BY <1>1 DEF Agrees, Executing
<1>4. h \in Groups /\ p.prev.version = pity[h].version /\ pity[h].version \in Nat
  BY <1>1, <1>3, ContextType DEF Outdated, StoreOK, PityStates
<1>5. r.status = "event_pending" /\ r.ctx = None /\ r.resp = p
  BY <1>1 DEF Store!Updated, Store!Transitioned, Store!Rows
<1> QED BY <1>1, <1>2, <1>3, <1>4, <1>5

\* The commit appends the operation to the tape of its group.
LEMMA TapeGrows ==
  ASSUME TypeOK, PaymentInvariant, EvidenceInvariant, NEW w \in Workers, Draws(w),
         NEW d, d = job[w].key, NEW p, p = job[w].resp, NEW h, h = GroupFor(p.ctx)
  PROVE  Tapes' = [Tapes EXCEPT ![h] = Append(@, d)]
<1> StoreOK /\ LocalOK
  BY DEF TypeOK
<1>0. PICK v, r : /\ v = pity[h].version
                  /\ r = Store!Updated(row[d], "event_pending", p)
  OBVIOUS
<1>1. /\ d \in Keys /\ row[d].status = "processing" /\ h \in Groups
      /\ p.prev.version = v /\ v \in Nat
      /\ row' = [row EXCEPT ![d] = r]
      /\ pity' = [pity EXCEPT ![h] = [version |-> @.version + 1, by |-> d]]
      /\ r.status = "event_pending" /\ r.resp = p
  BY <1>0, DrawnRow
<1>2. /\ \A k \in Keys : row'[k] = IF k = d THEN r ELSE row[k]
      /\ \A g \in Groups : pity'[g].version = IF g = h THEN v + 1 ELSE pity[g].version
  BY <1>0, <1>1 DEF StoreOK, PityStates
<1>3. ASSUME NEW g, g # h PROVE Drawn(g)' = Drawn(g)
  BY <1>1, <1>2, <1>3 DEF Drawn, Store!Committed
<1>4. Drawn(h)' = Drawn(h) \cup {d} /\ d \notin Drawn(h)
  BY <1>1, <1>2 DEF Drawn, Store!Committed
<1>5. ASSUME NEW g \in Groups, NEW n \in Int, g # h \/ n # v + 1 PROVE At(g, n)' = At(g, n)
  <2>1. CASE g # h
    <3>1. \A k \in Drawn(g) : k # d /\ k \in Keys
      BY <1>1 DEF Drawn, Store!Committed
    <3> QED BY <1>2, <1>3, <2>1, <3>1 DEF At
  <2>2. CASE g = h /\ n # v + 1
    <3>1. \A k \in Drawn(h) : k # d /\ k \in Keys
      BY <1>4 DEF Drawn
    <3>2. row'[d].resp.prev.version # n - 1
      BY <1>1, <1>2, <2>2
    <3> QED BY <1>2, <1>4, <2>2, <3>1, <3>2 DEF At
  <2> QED BY <1>5, <2>1, <2>2
<1>6. At(h, v + 1)' = {d}
  <2>1. ASSUME NEW k \in Drawn(h)
        PROVE  k \in Keys \ {d} /\ row[k].resp.prev.version # v
    <3>1. k \in Keys \ {d} /\ row[k].resp.prev.version \in Nat
      BY <1>4 DEF Drawn, StoreOK, RowOK, Responses, PityStates
    <3>2. row[k].resp.prev.version < v
      BY <1>0, <1>1 DEF EvidenceInvariant, PityChain
    <3> QED BY <1>1, <3>1, <3>2
  <2>2. PICK n : n = v + 1
    OBVIOUS
  <2>3. row'[d].resp.prev.version = v
    BY <1>1, <1>2
  <2>4. \A k : k \in At(h, n)' <=> k \in Drawn(h)' /\ row'[k].resp.prev.version = v
    <3>1. n - 1 = v
      BY <1>1, <2>2
    <3> QED BY <3>1 DEF At
  <2>5. \A k \in Drawn(h) : row'[k].resp.prev.version # v
    BY <1>2, <2>1
  <2>6. \A k : k \in At(h, n)' <=> k = d
    BY <1>4, <2>3, <2>4, <2>5
  <2> QED BY <2>2, <2>6 DEF At
<1>7. PICK f : f = [n \in 1..v |-> Pick(At(h, n))]
  OBVIOUS
<1>8. Tapes[h] = f
  BY <1>0, <1>1, <1>7, TapeViews
<1>9. \A n : Pick(At(h, n)) \in Keys \cup {None}
  BY DEF Pick, At, Drawn
<1>10. v \in Nat /\ d \in Keys \cup {None} /\ f \in [1..v -> Keys \cup {None}]
  BY <1>1, <1>7, <1>9
<1>11. Append(f, d) = Extended(f, v, d)
  BY <1>10, AppendIs, Zenon
<1>12. Pick({d}) = d
  BY DEF Pick
<1>13. ASSUME NEW n \in 1..(v + 1)
       PROVE  Pick(At(h, n)') = IF n = v + 1 THEN d ELSE f[n]
  <2>1. CASE n = v + 1
    BY <1>6, <1>12, <2>1
  <2>2. CASE n # v + 1
    BY <1>1, <1>5, <1>7, <2>2
  <2> QED BY <2>1, <2>2
<1>14. [n \in 1..(v + 1) |-> Pick(At(h, n)')] = Append(f, d)
  BY <1>11, <1>13 DEF Extended
<1>15. ASSUME NEW g \in Groups, g # h
       PROVE  /\ pity'[g].version = pity[g].version
              /\ \A n \in 1..pity[g].version : At(g, n)' = At(g, n)
  BY <1>2, <1>5, <1>15
<1>16. Tapes' = [g \in Groups |-> IF g = h THEN Append(f, d) ELSE Tapes[g]]
  <2>1. ASSUME NEW g \in Groups
        PROVE  [n \in 1..pity'[g].version |-> Pick(At(g, n)')]
                 = IF g = h THEN Append(f, d) ELSE Tapes[g]
    <3>1. CASE g = h
      BY <1>2, <1>14, <3>1
    <3>2. CASE g # h
      BY <1>15, <3>2, TapeViews
    <3> QED BY <3>1, <3>2
  <2> QED BY <2>1, TapeViews
<1> QED BY <1>1, <1>8, <1>16 DEF Tapes
----------------------------------------------------------------------------
(* The variables of DrawLog *)

LogInv == TypeOK /\ PaymentInvariant /\ EvidenceInvariant

Frozen      == [k \in Keys |-> FrozenOf(k)]
Dropped     == {k \in Keys : row[k].status = "failed"}
ChargedOps  == {k \in Keys : Charged(k)}
RefundedOps == {k \in Keys : Refunded(k)}
SettledOps  == {k \in Keys : row[k].status = "succeeded"}
LogGroup    == [c \in Contexts |-> GroupFor(c)]

OnLog(k) == \E g \in Groups : \E n \in DOMAIN Tapes[g] : Tapes[g][n] = k

\* The actions of DrawLog, read in these.
LEMMA LogActions ==
  ASSUME NEW k \in Keys
  PROVE  /\ /\ Frozen[k] = None /\ k \notin Dropped
            /\ \E c \in Contexts : Frozen' = [Frozen EXCEPT ![k] = c]
            /\ UNCHANGED <<Dropped, ChargedOps, RefundedOps, Tapes, Shown, Rewarded, SettledOps>>
            => Log!Freeze(k)
         /\ /\ ~OnLog(k) /\ Dropped' = Dropped \cup {k}
            /\ Frozen' = [Frozen EXCEPT ![k] = None]
            /\ UNCHANGED <<ChargedOps, RefundedOps, Tapes, Shown, Rewarded, SettledOps>>
            => Log!Drop(k)
         /\ /\ ChargedOps' = ChargedOps \cup {k}
            /\ UNCHANGED <<Frozen, Dropped, RefundedOps, Tapes, Shown, Rewarded, SettledOps>>
            => Log!Charge(k)
         /\ /\ ~OnLog(k) /\ RefundedOps' = RefundedOps \cup {k}
            /\ UNCHANGED <<Frozen, Dropped, ChargedOps, Tapes, Shown, Rewarded, SettledOps>>
            => Log!Refund(k)
         /\ /\ Frozen[k] # None /\ k \in ChargedOps \ RefundedOps /\ ~OnLog(k)
            /\ Tapes' = [Tapes EXCEPT ![LogGroup[Frozen[k]]] = Append(@, k)]
            /\ UNCHANGED <<Frozen, Dropped, ChargedOps, RefundedOps, Shown, Rewarded, SettledOps>>
            => Log!Draw(k)
         /\ /\ OnLog(k) /\ Shown' = Shown \cup {k}
            /\ UNCHANGED <<Frozen, Dropped, ChargedOps, RefundedOps, Tapes, Rewarded, SettledOps>>
            => Log!Show(k)
         /\ /\ k \notin Rewarded /\ OnLog(k) /\ Rewarded' = Rewarded \cup {k}
            /\ UNCHANGED <<Frozen, Dropped, ChargedOps, RefundedOps, Tapes, Shown, SettledOps>>
            => Log!Reward(k)
         /\ /\ k \in Rewarded \ SettledOps /\ SettledOps' = SettledOps \cup {k}
            /\ UNCHANGED <<Frozen, Dropped, ChargedOps, RefundedOps, Tapes, Shown, Rewarded>>
            => Log!Settle(k)
<1>1. OnLog(k) <=> Log!Drawn(k)
  BY DEF OnLog, Log!Drawn, Log!Range, Tapes
<1> QED
  BY <1>1 DEF Log!Freeze, Log!Drop, Log!Charge, Log!Refund, Log!Draw, Log!Show, Log!Reward,
              Log!Settle, Log!money, Log!delivery, Frozen, Dropped, ChargedOps, RefundedOps,
              SettledOps, LogGroup, Tapes, Shown, Rewarded

\* A step of the service that does one of these, or nothing to them, is allowed.
LEMMA LogStep ==
  ASSUME \/ \E k \in Keys : \/ Log!Freeze(k) \/ Log!Drop(k) \/ Log!Charge(k) \/ Log!Refund(k)
                            \/ Log!Draw(k) \/ Log!Show(k) \/ Log!Reward(k) \/ Log!Settle(k)
         \/ UNCHANGED <<Frozen, Dropped, ChargedOps, RefundedOps, Tapes, Shown, Rewarded, SettledOps>>
  PROVE  [Log!Next]_(Log!vars)
BY DEF Log!Next, Log!vars, Frozen, Dropped, ChargedOps, RefundedOps, Tapes, Shown, Rewarded,
       SettledOps

\* The logs hold the operations that are committed, and no others.
LEMMA LogIsCommitted ==
  ASSUME LogInv, NEW k \in Keys
  PROVE  OnLog(k) <=> row[k].status \in Store!Committed
<1> StoreOK /\ PityChain
  BY DEF LogInv, TypeOK, EvidenceInvariant
<1>1. ASSUME OnLog(k) PROVE row[k].status \in Store!Committed
  <2>0. PICK g \in Groups : \E n \in DOMAIN Tapes[g] : Tapes[g][n] = k
    BY <1>1 DEF OnLog
  <2>1. PICK n \in DOMAIN Tapes[g] : Tapes[g][n] = k
    BY <2>0
  <2>2. Pick(At(g, n)) = k
    BY <2>1, TapeViews
  <2>3. k # None
    BY ServiceAssumption
  <2>4. At(g, n) # {}
    BY <2>2, <2>3 DEF Pick
  <2>5. k \in At(g, n)
    BY <2>2, <2>4 DEF Pick
  <2> QED BY <2>5 DEF At, Drawn
<1>2. ASSUME row[k].status \in Store!Committed PROVE OnLog(k)
  <2>1. PICK g, v : g = GroupFor(row[k].resp.ctx) /\ v = row[k].resp.prev.version
    OBVIOUS
  <2>2. g \in Groups /\ v \in Nat /\ k \in Drawn(g)
    BY <1>2, <2>1, ContextType DEF StoreOK, RowOK, Responses, PityStates, Drawn
  <2>3. v < pity[g].version /\ pity[g].version \in Nat
    BY <2>1, <2>2 DEF PityChain, StoreOK, PityStates
  <2>4. PICK n : n = v + 1
    OBVIOUS
  <2>5. n \in 1..pity[g].version /\ n - 1 = v
    BY <2>2, <2>3, <2>4
  <2>6. k \in At(g, n)
    BY <2>1, <2>2, <2>5 DEF At
  <2>7. \A l \in At(g, n) : l = k
    BY <2>1, <2>2, <2>5 DEF At, PityChain
  <2>8. Pick(At(g, n)) = k
    BY <2>6, <2>7 DEF Pick
  <2>9. Tapes[g][n] = k /\ n \in DOMAIN Tapes[g]
    BY <2>2, <2>5, <2>8, TapeViews
  <2> QED BY <2>2, <2>9 DEF OnLog
<1> QED BY <1>1, <1>2

FrozenRow(r) == CASE r.status = "failed" -> None
                  [] r.status \in Store!Committed -> r.resp.ctx
                  [] OTHER -> r.ctx

\* One row is written.
LEMMA LogView ==
  ASSUME StoreOK, NEW k \in Keys, NEW r, row' = [row EXCEPT ![k] = r]
  PROVE  /\ Frozen' = [Frozen EXCEPT ![k] = FrozenRow(r)] /\ Frozen[k] = FrozenRow(row[k])
         /\ Dropped' = IF r.status = "failed" THEN Dropped \cup {k} ELSE Dropped \ {k}
         /\ SettledOps' = IF r.status = "succeeded" THEN SettledOps \cup {k} ELSE SettledOps \ {k}
         /\ UNCHANGED pity /\ SameDraw(r, row[k]) => UNCHANGED Tapes
<1>1. \A l \in Keys : row'[l] = IF l = k THEN r ELSE row[l]
  BY DEF StoreOK
<1>2. /\ Frozen = [l \in Keys |-> FrozenRow(row[l])]
      /\ Frozen' = [l \in Keys |-> FrozenRow(row'[l])]
  BY DEF Frozen, FrozenOf, FrozenRow
<1>3. Frozen' = [l \in Keys |-> FrozenRow(IF l = k THEN r ELSE row[l])]
  BY <1>1, <1>2
<1>4. Dropped' = IF r.status = "failed" THEN Dropped \cup {k} ELSE Dropped \ {k}
  BY <1>1 DEF Dropped
<1>5. SettledOps' = IF r.status = "succeeded" THEN SettledOps \cup {k} ELSE SettledOps \ {k}
  BY <1>1 DEF SettledOps
<1>6. ASSUME UNCHANGED pity, SameDraw(r, row[k]) PROVE UNCHANGED Tapes
  <2>1. \A l \in Keys : SameDraw(row'[l], row[l])
    BY <1>1, <1>6 DEF SameDraw
  <2> QED BY <1>6, <2>1, TapesKept
<1> QED BY <1>2, <1>3, <1>4, <1>5, <1>6

\* One row is written and the log does not see it.
LEMMA LogQuiet ==
  ASSUME StoreOK, UNCHANGED pity, NEW k \in Keys, NEW r, row' = [row EXCEPT ![k] = r],
         r.status = "failed" <=> row[k].status = "failed",
         r.status = "succeeded" <=> row[k].status = "succeeded",
         FrozenRow(r) = FrozenRow(row[k]), SameDraw(r, row[k])
  PROVE  UNCHANGED <<Frozen, Dropped, SettledOps, Tapes>>
<1>1. /\ Frozen' = [Frozen EXCEPT ![k] = FrozenRow(r)] /\ Frozen[k] = FrozenRow(row[k])
      /\ Dropped' = IF r.status = "failed" THEN Dropped \cup {k} ELSE Dropped \ {k}
      /\ SettledOps' = IF r.status = "succeeded" THEN SettledOps \cup {k} ELSE SettledOps \ {k}
      /\ UNCHANGED pity /\ SameDraw(r, row[k]) => UNCHANGED Tapes
  BY LogView, Zenon
<1>2. Frozen' = [Frozen EXCEPT ![k] = Frozen[k]]
  BY <1>1, Zenon
<1>3. [Frozen EXCEPT ![k] = Frozen[k]] = Frozen
  BY DEF Frozen
<1>4. UNCHANGED Frozen
  BY <1>2, <1>3
<1>5. Dropped' = Dropped
  BY <1>1 DEF Dropped
<1>6. SettledOps' = SettledOps
  BY <1>1 DEF SettledOps
<1> QED BY <1>1, <1>4, <1>5, <1>6

\* What the log sees of the tables and services a step leaves alone.
LEMMA LogKeptViews ==
  /\ UNCHANGED db => UNCHANGED <<Frozen, Dropped, SettledOps, Tapes>>
  /\ UNCHANGED debits => UNCHANGED ChargedOps
  /\ UNCHANGED credits => UNCHANGED RefundedOps
  /\ UNCHANGED answered => UNCHANGED Shown
  /\ UNCHANGED applied => UNCHANGED Rewarded
<1>1. ASSUME UNCHANGED db PROVE UNCHANGED <<Frozen, Dropped, SettledOps>>
  BY <1>1 DEF db, Frozen, FrozenOf, Dropped, SettledOps
<1>2. ASSUME UNCHANGED db PROVE UNCHANGED Tapes
  BY <1>2, TapesKept DEF db, SameDraw
<1>3. UNCHANGED debits => UNCHANGED ChargedOps
  BY DEF ChargedOps, Charged
<1>4. UNCHANGED credits => UNCHANGED RefundedOps
  BY DEF RefundedOps, Refunded
<1> QED BY <1>1, <1>2, <1>3, <1>4 DEF Shown, Rewarded
----------------------------------------------------------------------------
(* What each effect is in the log *)

\* At most a draw is shown to somebody: one that is on the log.
LEMMA LogShow ==
  ASSUME LogInv, LogInv', MoreAnswers,
         \A k \in Keys : row'[k].status \in Store!Committed => row[k].status \in Store!Committed,
         UNCHANGED <<Frozen, Dropped, ChargedOps, RefundedOps, Tapes, Rewarded, SettledOps>>
  PROVE  [Log!Next]_(Log!vars)
<1>1. CASE UNCHANGED answered
  BY <1>1, LogKeptViews, LogStep
<1>2. ASSUME NEW a, answered' = answered \cup {a} PROVE [Log!Next]_(Log!vars)
  <2>1. PICK k : k = a.key
    OBVIOUS
  <2>2. a \in answered' /\ answered' \subseteq Answers
    BY <1>2 DEF LogInv, TypeOK, ServicesOK
  <2>3. k \in Keys /\ row'[k].status \in Store!Committed
    BY <2>1, <2>2 DEF Answers, LogInv, EvidenceInvariant, AnswersAreDurable
  <2>4. OnLog(k)
    BY <2>3, LogIsCommitted
  <2>5. Shown' = Shown \cup {k}
    BY <1>2, <2>1 DEF Shown
  <2>6. Log!Show(k)
    BY <2>3, <2>4, <2>5, LogActions
  <2> QED BY <2>3, <2>6, LogStep
<1> QED BY <1>1, <1>2 DEF MoreAnswers

\* A row is rewritten in a way the log does not see.
LEMMA LogRewrites ==
  ASSUME LogInv, LogInv', MoreAnswers, UNCHANGED <<pity, debits, credits, applied>>,
         NEW k \in Keys, NEW r, row' = [row EXCEPT ![k] = r],
         r.status = "failed" <=> row[k].status = "failed",
         r.status = "succeeded" <=> row[k].status = "succeeded",
         FrozenRow(r) = FrozenRow(row[k]), SameDraw(r, row[k])
  PROVE  [Log!Next]_(Log!vars)
<1>1. StoreOK
  BY DEF LogInv, TypeOK
<1>2. \A l \in Keys : row'[l] = IF l = k THEN r ELSE row[l]
  BY <1>1 DEF StoreOK
<1>3. \A l \in Keys : row'[l].status \in Store!Committed => row[l].status \in Store!Committed
  BY <1>2 DEF SameDraw
<1>4. UNCHANGED <<Frozen, Dropped, SettledOps, Tapes>>
  BY <1>1, LogQuiet
<1>5. UNCHANGED <<ChargedOps, RefundedOps, Rewarded>>
  BY LogKeptViews
<1> QED BY <1>3, <1>4, <1>5, LogShow

\* The tables stay as they are.
LEMMA LogSilent ==
  ASSUME LogInv, LogInv', Silent
  PROVE  [Log!Next]_(Log!vars)
BY LogShow, LogKeptViews DEF Silent, db

\* The first claim freezes the context.
LEMMA LogOpen ==
  ASSUME LogInv, LogInv', NEW c \in Clients, Opening(c)
  PROVE  [Log!Next]_(Log!vars)
<1>1. PICK k, x, r : k = job[c].key /\ x = job[c].ctx /\ r = Store!Inserted(job[c].hash, c, x)
  OBVIOUS
<1>2. k \in Keys /\ x \in Contexts
  BY <1>1, Prepared DEF Opening, LogInv, TypeOK, Workers, WithContext
<1>3. /\ r.status = "processing" /\ r.ctx = x
      /\ row[k].status = "absent" /\ row[k].ctx = None
      /\ row' = [row EXCEPT ![k] = r] /\ OnlyRow
  BY <1>1 DEF Opening, Store!Inserted, Store!Absent
<1>4. FrozenRow(r) = x /\ FrozenRow(row[k]) = None /\ SameDraw(r, row[k])
  BY <1>3 DEF FrozenRow, SameDraw, Store!Committed
<1>5. /\ Frozen[k] = None /\ Frozen' = [Frozen EXCEPT ![k] = x]
      /\ Dropped' = Dropped \ {k} /\ SettledOps' = SettledOps \ {k} /\ UNCHANGED Tapes
  <2>1. StoreOK /\ UNCHANGED pity
    BY <1>3 DEF LogInv, TypeOK, OnlyRow
  <2>2. /\ Frozen' = [Frozen EXCEPT ![k] = FrozenRow(r)] /\ Frozen[k] = FrozenRow(row[k])
        /\ Dropped' = IF r.status = "failed" THEN Dropped \cup {k} ELSE Dropped \ {k}
        /\ SettledOps' = IF r.status = "succeeded" THEN SettledOps \cup {k} ELSE SettledOps \ {k}
        /\ UNCHANGED pity /\ SameDraw(r, row[k]) => UNCHANGED Tapes
    BY <1>2, <1>3, <2>1, LogView, Zenon
  <2> QED BY <1>3, <1>4, <2>1, <2>2
<1>6. k \notin Dropped /\ k \notin SettledOps
  BY <1>3 DEF Dropped, SettledOps
<1>7. UNCHANGED <<Dropped, SettledOps, ChargedOps, RefundedOps, Shown, Rewarded>>
  BY <1>3, <1>5, <1>6, LogKeptViews DEF OnlyRow
<1>8. Log!Freeze(k)
  BY <1>2, <1>5, <1>6, <1>7, LogActions
<1> QED BY <1>2, <1>8, LogStep

\* A later claim brings a context for a row that has none, or leaves it alone.
LEMMA LogClaim ==
  ASSUME LogInv, LogInv', NEW c \in Clients, Claiming(c)
  PROVE  [Log!Next]_(Log!vars)
<1>1. PICK k, x, r : k = job[c].key /\ x = job[c].ctx /\ r = Store!Claimed(row[k], c, x)
  OBVIOUS
<1>2. k \in Keys /\ x \in Contexts /\ StoreOK /\ row[k] \in Store!Rows
  BY <1>1, Prepared DEF Claiming, LogInv, TypeOK, StoreOK, Workers, WithContext
<1>3. /\ row[k].status = "processing" /\ r.status = "processing"
      /\ r.ctx = IF row[k].ctx = None THEN x ELSE row[k].ctx
      /\ row' = [row EXCEPT ![k] = r] /\ OnlyRow /\ UNCHANGED pity
  BY <1>1, <1>2 DEF Claiming, OnlyRow, Store!Claimable, Store!Claimed, Store!Rows
<1>4. FrozenRow(r) = r.ctx /\ FrozenRow(row[k]) = row[k].ctx /\ SameDraw(r, row[k])
  BY <1>3 DEF FrozenRow, SameDraw, Store!Committed
<1>5. CASE row[k].ctx # None
  <2>1. /\ r.status = "failed" <=> row[k].status = "failed"
        /\ r.status = "succeeded" <=> row[k].status = "succeeded"
        /\ FrozenRow(r) = FrozenRow(row[k])
    BY <1>3, <1>4, <1>5
  <2>2. MoreAnswers /\ UNCHANGED <<pity, debits, credits, applied>>
    BY <1>3 DEF OnlyRow, MoreAnswers
  <2> QED BY <1>2, <1>3, <1>4, <2>1, <2>2, LogRewrites, Zenon
<1>6. CASE row[k].ctx = None
  <2>1. /\ Frozen[k] = None /\ Frozen' = [Frozen EXCEPT ![k] = x]
        /\ Dropped' = Dropped \ {k} /\ SettledOps' = SettledOps \ {k} /\ UNCHANGED Tapes
    <3>1. /\ Frozen' = [Frozen EXCEPT ![k] = FrozenRow(r)] /\ Frozen[k] = FrozenRow(row[k])
          /\ Dropped' = IF r.status = "failed" THEN Dropped \cup {k} ELSE Dropped \ {k}
          /\ SettledOps' = IF r.status = "succeeded" THEN SettledOps \cup {k} ELSE SettledOps \ {k}
          /\ UNCHANGED pity /\ SameDraw(r, row[k]) => UNCHANGED Tapes
      BY <1>2, <1>3, LogView, Zenon
    <3> QED BY <1>3, <1>4, <1>6, <3>1
  <2>2. k \notin Dropped /\ k \notin SettledOps
    BY <1>3 DEF Dropped, SettledOps
  <2>3. UNCHANGED <<Dropped, SettledOps, ChargedOps, RefundedOps, Shown, Rewarded>>
    BY <1>3, <2>1, <2>2, LogKeptViews DEF OnlyRow
  <2>4. Log!Freeze(k)
    BY <1>2, <2>1, <2>2, <2>3, LogActions
  <2> QED BY <1>2, <2>4, LogStep
<1> QED BY <1>5, <1>6

\* The wallet is charged, now or late, for an operation at whatever stage.
LEMMA LogPay ==
  ASSUME LogInv, LogInv', NEW d \in Entries, Paying(d)
  PROVE  [Log!Next]_(Log!vars)
<1>1. UNCHANGED <<Frozen, Dropped, SettledOps, Tapes, RefundedOps, Shown, Rewarded>>
  BY LogKeptViews DEF Paying
<1>2. CASE UNCHANGED debits
  BY <1>1, <1>2, LogKeptViews, LogStep
<1>3. CASE debits' = debits \cup {d}
  <2>1. d.op \in Keys
    BY DEF Entries
  <2>2. ChargedOps' = ChargedOps \cup {d.op}
    BY <1>3, <2>1 DEF ChargedOps, Charged
  <2>3. Log!Charge(d.op)
    BY <1>1, <2>1, <2>2, LogActions
  <2> QED BY <2>1, <2>3, LogStep
<1> QED BY <1>2, <1>3 DEF Paying

\* Money is given back for an operation that will not be drawn.
LEMMA LogCredit ==
  ASSUME LogInv, LogInv', NEW w \in Workers, Crediting(w)
  PROVE  [Log!Next]_(Log!vars)
<1>1. PICK k, d : k = job[w].key /\ d = [op |-> k, key |-> RefundKey(w)]
  OBVIOUS
<1>2. k \in Keys /\ row[k].status \in Returned
  BY <1>1, Known DEF Crediting, LogInv, Grounded, Refunding
<1>3. ~OnLog(k)
  BY <1>2, LogIsCommitted DEF Returned, Store!Committed
<1>4. UNCHANGED <<Frozen, Dropped, SettledOps, Tapes, ChargedOps, Shown, Rewarded>>
  BY LogKeptViews DEF Crediting
<1>5. CASE UNCHANGED credits
  BY <1>4, <1>5, LogKeptViews, LogStep
<1>6. CASE credits' = credits \cup {d}
  <2>1. RefundedOps' = RefundedOps \cup {k}
    BY <1>1, <1>2, <1>6 DEF RefundedOps, Refunded
  <2>2. Log!Refund(k)
    BY <1>2, <1>3, <1>4, <2>1, LogActions
  <2> QED BY <1>2, <2>2, LogStep
<1> QED BY <1>1, <1>5, <1>6 DEF Crediting

\* A row that carries no draw is written as failed.
LEMMA LogDrop ==
  ASSUME LogInv, OnlyRow, NEW k \in Keys, row[k].status \notin Store!Committed,
         NEW r, row' = [row EXCEPT ![k] = r], r.status = "failed"
  PROVE  [Log!Next]_(Log!vars)
<1>1. FrozenRow(r) = None /\ SameDraw(r, row[k])
  BY DEF FrozenRow, SameDraw, Store!Committed
<1>2. /\ Frozen' = [Frozen EXCEPT ![k] = None]
      /\ Dropped' = Dropped \cup {k} /\ SettledOps' = SettledOps \ {k} /\ UNCHANGED Tapes
  <2>1. StoreOK /\ UNCHANGED pity
    BY DEF LogInv, TypeOK, OnlyRow
  <2> QED BY <1>1, <2>1, LogView
<1>3. k \notin SettledOps
  BY DEF SettledOps, Store!Committed
<1>4. UNCHANGED <<SettledOps, ChargedOps, RefundedOps, Shown, Rewarded>>
  BY <1>2, <1>3, LogKeptViews DEF OnlyRow
<1>5. ~OnLog(k)
  BY LogIsCommitted
<1>6. Log!Drop(k)
  BY <1>2, <1>4, <1>5, LogActions
<1> QED BY <1>6, LogStep

\* An operation is given up before its draw.
LEMMA LogFail ==
  ASSUME LogInv, NEW w \in Workers, Failing(w)
  PROVE  [Log!Next]_(Log!vars)
<1>1. PICK k, r : k = job[w].key /\ r = Store!Transitioned(row[k], "failed", None)
  OBVIOUS
<1>2. k \in Keys /\ row[k] \in Store!Rows /\ row[k].status = "processing"
  BY <1>1, JobRow DEF Failing, LogInv, TypeOK, StoreOK, Store!OwnedBy
<1>3. r.status = "failed" /\ row' = [row EXCEPT ![k] = r]
  BY <1>1, <1>2, RowStatus DEF Failing
<1> QED BY <1>2, <1>3, LogDrop DEF Failing, Store!Committed

\* A refund is closed.
LEMMA LogClose ==
  ASSUME LogInv, LogInv', NEW w \in Workers, Closing(w)
  PROVE  [Log!Next]_(Log!vars)
<1>1. PICK k, r : k = job[w].key /\ r = Store!Updated(row[k], "failed", None)
  OBVIOUS
<1>2. k \in Keys /\ row[k] \in Store!Rows /\ row[k].status \in Returned
  BY <1>1, Known DEF Closing, LogInv, Grounded, Refunding
<1>3. r.status = "failed"
  BY <1>1, <1>2, RowStatus
<1>4. CASE UNCHANGED row
  BY <1>4, LogSilent DEF Closing, OnlyRow, Silent, MoreAnswers, db
<1>5. CASE row' = [row EXCEPT ![k] = r]
  BY <1>2, <1>3, <1>5, LogDrop DEF Closing, Returned, Store!Committed
<1> QED BY <1>1, <1>4, <1>5 DEF Closing, Written

\* Leases and locks are not on record.
LEMMA LogTouch ==
  ASSUME LogInv, LogInv', NEW k \in Keys, Touching(k)
  PROVE  [Log!Next]_(Log!vars)
<1>1. PICK r : /\ row' = [row EXCEPT ![k] = r] /\ OnlyRow
               /\ r.status = row[k].status /\ r.ctx = row[k].ctx /\ r.resp = row[k].resp
  BY DEF Touching
<1>2. FrozenRow(r) = FrozenRow(row[k]) /\ SameDraw(r, row[k])
  BY <1>1 DEF FrozenRow, SameDraw
<1>3. MoreAnswers /\ UNCHANGED <<pity, debits, credits, applied>>
  BY <1>1 DEF OnlyRow, MoreAnswers
<1>4. /\ r.status = "failed" <=> row[k].status = "failed"
      /\ r.status = "succeeded" <=> row[k].status = "succeeded"
  BY <1>1
<1> QED BY <1>1, <1>2, <1>3, <1>4, LogRewrites, Zenon

\* The commit is the draw: charged, not refunded, with the frozen context.
LEMMA LogDraw ==
  ASSUME LogInv, LogInv', NEW w \in Workers, Drawing(w)
  PROVE  [Log!Next]_(Log!vars)
<1> TypeOK /\ PaymentInvariant /\ EvidenceInvariant /\ StoreOK /\ Draws(w)
  BY DEF LogInv, TypeOK, Drawing
<1>0. PICK d, p : d = job[w].key /\ p = job[w].resp
  OBVIOUS
<1>1. PICK h, r : h = GroupFor(p.ctx) /\ r = Store!Updated(row[d], "event_pending", p)
  OBVIOUS
<1>2. /\ d \in Keys /\ row[d].status = "processing" /\ Charged(d)
      /\ row[d].ctx = p.ctx /\ p.ctx \in Contexts
      /\ row' = [row EXCEPT ![d] = r]
      /\ r.status = "event_pending" /\ r.resp = p
  BY <1>0, <1>1, DrawnRow
<1>3. Tapes' = [Tapes EXCEPT ![h] = Append(@, d)]
  BY <1>0, <1>1, TapeGrows
<1>4. FrozenRow(r) = p.ctx /\ FrozenRow(row[d]) = p.ctx
  BY <1>2 DEF FrozenRow, Store!Committed
<1>5. /\ Frozen' = [Frozen EXCEPT ![d] = FrozenRow(r)] /\ Frozen[d] = FrozenRow(row[d])
      /\ Dropped' = IF r.status = "failed" THEN Dropped \cup {d} ELSE Dropped \ {d}
      /\ SettledOps' = IF r.status = "succeeded" THEN SettledOps \cup {d} ELSE SettledOps \ {d}
  BY <1>2, LogView, Zenon
<1>6. d \notin Dropped /\ d \notin SettledOps
  BY <1>2 DEF Dropped, SettledOps
<1>7. Frozen[d] = p.ctx /\ UNCHANGED <<Frozen, Dropped, SettledOps>>
  <2>1. Frozen' = [Frozen EXCEPT ![d] = Frozen[d]]
    BY <1>4, <1>5
  <2>2. [Frozen EXCEPT ![d] = Frozen[d]] = Frozen
    BY DEF Frozen
  <2> QED BY <1>2, <1>4, <1>5, <1>6, <2>1, <2>2
<1>8. UNCHANGED <<ChargedOps, RefundedOps, Shown, Rewarded>>
  BY LogKeptViews DEF Drawing, Draws
<1>9. d \in ChargedOps \ RefundedOps
  BY <1>2 DEF ChargedOps, RefundedOps, PaymentInvariant, RefundedIsReturned, Returned
<1>10. ~OnLog(d)
  BY <1>2, LogIsCommitted DEF Store!Committed
<1>11. LogGroup[Frozen[d]] = h /\ Frozen[d] # None
  BY <1>1, <1>2, <1>7, ServiceAssumption DEF LogGroup
<1>12. Log!Draw(d)
  BY <1>2, <1>3, <1>7, <1>8, <1>9, <1>10, <1>11, LogActions
<1> QED BY <1>2, <1>12, LogStep

\* Delivery is reported of a draw that is on the log, as done only when rewarded.
LEMMA LogReport ==
  ASSUME LogInv, LogInv', NEW w \in Workers, Reporting(w)
  PROVE  [Log!Next]_(Log!vars)
<1> TypeOK /\ PaymentInvariant /\ EvidenceInvariant /\ StoreOK
  BY DEF LogInv, TypeOK
<1>1. PICK k : k = job[w].key
  OBVIOUS
<1>2. /\ k \in Keys /\ row[k] \in Store!Rows /\ row[k].status \in Store!Committed
      /\ pc[w] = "confirm" => \E e \in applied : e.key = k
  BY <1>1, Known DEF Reporting, Grounded, Delivering, EvidenceInvariant, Agrees
<1>3. PICK s \in {"event_published", "succeeded"}, p \in Responses :
        /\ s = "succeeded" => pc[w] = "confirm" /\ UNCHANGED answered
        /\ Written(k, Store!Updated(row[k], s, p))
  BY <1>1 DEF Reporting
<1>4. PICK r : r = Store!Updated(row[k], s, p)
  OBVIOUS
<1>5. CASE UNCHANGED row
  BY <1>5, LogSilent DEF Reporting, Silent, db
<1>6. CASE row' = [row EXCEPT ![k] = r] /\ Store!TriggerAllows(row[k], r)
  <2>1. r.status = s /\ r.resp = row[k].resp /\ row[k].status # "succeeded"
    BY <1>2, <1>4, <1>6, RowStatus DEF Store!TriggerAllows
  <2>2. FrozenRow(r) = FrozenRow(row[k]) /\ SameDraw(r, row[k])
    BY <1>2, <2>1 DEF FrozenRow, SameDraw, Store!Committed
  <2>3. CASE s = "event_published"
    <3>1. /\ r.status = "failed" <=> row[k].status = "failed"
          /\ r.status = "succeeded" <=> row[k].status = "succeeded"
      BY <1>2, <2>1, <2>3 DEF Store!Committed
    <3>2. MoreAnswers /\ UNCHANGED <<pity, debits, credits, applied>>
      BY DEF Reporting
    <3> QED BY <1>2, <1>6, <2>2, <3>1, <3>2, LogRewrites, Zenon
  <2>4. CASE s = "succeeded"
    <3>1. /\ Frozen' = [Frozen EXCEPT ![k] = FrozenRow(r)] /\ Frozen[k] = FrozenRow(row[k])
          /\ Dropped' = IF r.status = "failed" THEN Dropped \cup {k} ELSE Dropped \ {k}
          /\ SettledOps' = IF r.status = "succeeded" THEN SettledOps \cup {k} ELSE SettledOps \ {k}
          /\ UNCHANGED pity /\ SameDraw(r, row[k]) => UNCHANGED Tapes
      BY <1>2, <1>6, LogView, Zenon
    <3>2. [Frozen EXCEPT ![k] = Frozen[k]] = Frozen
      BY DEF Frozen
    <3>3. k \notin Dropped /\ k \notin SettledOps
      BY <1>2, <2>1 DEF Dropped, SettledOps, Store!Committed
    <3>4. /\ UNCHANGED <<Frozen, Dropped, Tapes>>
          /\ SettledOps' = SettledOps \cup {k}
      BY <2>1, <2>2, <2>4, <3>1, <3>2, <3>3 DEF Reporting
    <3>5. UNCHANGED <<ChargedOps, RefundedOps, Shown, Rewarded>>
      BY <1>3, <2>4, LogKeptViews DEF Reporting
    <3>6. k \in Rewarded \ SettledOps
      BY <1>2, <1>3, <2>4, <3>3 DEF Rewarded
    <3>7. Log!Settle(k)
      BY <1>2, <3>4, <3>5, <3>6, LogActions
    <3> QED BY <1>2, <3>7, LogStep
  <2> QED BY <2>3, <2>4
<1> QED BY <1>3, <1>4, <1>5, <1>6 DEF Written

\* Backpack rewards a draw that is on the log, and only once.
LEMMA LogReward ==
  ASSUME LogInv, LogInv', NEW e \in topic, Rewarding(e)
  PROVE  [Log!Next]_(Log!vars)
<1>1. PICK k : k = e.key
  OBVIOUS
<1>2. k \in Keys /\ row[k].status \in Store!Committed
  BY <1>1 DEF LogInv, TypeOK, ServicesOK, Events, EvidenceInvariant, OneResultPerEvent
<1>3. OnLog(k)
  BY <1>2, LogIsCommitted
<1>4. /\ applied' = applied \cup {e} /\ ~\E a \in applied : a.key = k
      /\ UNCHANGED <<db, asset, answered>>
  BY <1>1 DEF Rewarding, Apply
<1>5. k \notin Rewarded /\ Rewarded' = Rewarded \cup {k}
  BY <1>1, <1>4 DEF Rewarded
<1>6. UNCHANGED <<Frozen, Dropped, SettledOps, Tapes, ChargedOps, RefundedOps, Shown>>
  BY <1>4, LogKeptViews DEF asset
<1>7. Log!Reward(k)
  BY <1>2, <1>3, <1>5, <1>6, LogActions
<1> QED BY <1>2, <1>7, LogStep

\* Every effect is a step of the log, or none.
LEMMA LogEffect ==
  ASSUME LogInv, LogInv', [Next]_vars
  PROVE  [Log!Next]_(Log!vars)
<1>1. Effect
  BY EffectStep DEF LogInv
<1>2. ASSUME NEW c \in Clients, Opening(c) \/ Claiming(c) PROVE [Log!Next]_(Log!vars)
  BY <1>2, LogOpen, LogClaim
<1>3. ASSUME NEW w \in Workers,
             Failing(w) \/ Drawing(w) \/ Reporting(w) \/ Crediting(w) \/ Closing(w)
      PROVE  [Log!Next]_(Log!vars)
  BY <1>3, LogFail, LogDraw, LogReport, LogCredit, LogClose
<1> QED BY <1>1, <1>2, <1>3, LogSilent, LogTouch, LogPay, LogReward DEF Effect

----------------------------------------------------------------------------
(* The start, and the theorem *)

\* What an older engine left is a log of at most one draw in each group.
LEMMA LogInitial ==
  ASSUME Init, LogInv
  PROVE  Log!Init
<1> StoreOK
  BY DEF LogInv, TypeOK
<1>1. /\ \A k \in Keys : row[k].status # "succeeded"
      /\ \A k \in Keys : row[k].status \in Store!Committed => row[k].resp.prev = NoPity
  BY InitRowsAssumption DEF Init
<1>2. credits = {} /\ applied = {} /\ answered = {}
  BY DEF Init
<1>3. ASSUME NEW k \in Keys
      PROVE  /\ FrozenOf(k) \in Contexts \cup {None}
             /\ k \in Dropped => FrozenOf(k) = None
             /\ row[k].status \in Store!Committed =>
                  FrozenOf(k) = row[k].resp.ctx /\ row[k].resp.ctx \in Contexts
  BY DEF StoreOK, RowOK, Store!Rows, Responses, FrozenOf, Dropped, Store!Committed
<1>4. /\ Frozen \in [Keys -> Contexts \cup {None}]
      /\ \A k \in Dropped : Frozen[k] = None
  BY <1>3 DEF Frozen, Dropped
<1>5. ASSUME NEW g \in Groups
      PROVE  /\ \A n \in DOMAIN Tapes[g] : n = 1 /\ Tapes[g][n] \in Drawn(g)
  <2>1. StartDrawn(g) = Drawn(g)
    BY DEF StartDrawn, Drawn
  <2>2. CASE Drawn(g) = {}
    <3>1. pity[g].version = 0
      BY <2>1, <2>2 DEF Init, NoPity
    <3> QED BY <3>1, TapeViews
  <2>3. CASE Drawn(g) # {}
    <3>1. pity[g].version = 1
      BY <2>1, <2>3 DEF Init
    <3>2. \A k \in Drawn(g) : row[k].resp.prev.version = 0
      BY <1>1 DEF Drawn, NoPity
    <3>3. At(g, 1) = Drawn(g)
      BY <3>2 DEF At
    <3>4. Pick(At(g, 1)) \in Drawn(g)
      BY <2>3, <3>3 DEF Pick
    <3>5. Tapes[g] = [n \in 1..1 |-> Pick(At(g, n))]
      BY <3>1, TapeViews
    <3> QED BY <3>4, <3>5
  <2> QED BY <2>2, <2>3
<1>6. ASSUME NEW g \in Groups, NEW k \in Drawn(g)
      PROVE  /\ k \in ChargedOps \ (RefundedOps \cup Dropped)
             /\ Frozen[k] # None /\ LogGroup[Frozen[k]] = g
  <2>1. k \in Keys /\ row[k].status \in Store!Committed /\ GroupFor(row[k].resp.ctx) = g
    BY DEF Drawn
  <2>2. Charged(k)
    <3>1. [op |-> k, key |-> k] \in debits
      BY <2>1 DEF Init
    <3> QED BY <3>1 DEF Charged
  <2>3. ~Refunded(k) /\ k \notin Dropped
    BY <1>2, <2>1 DEF Refunded, Dropped, Store!Committed
  <2>4. Frozen[k] = row[k].resp.ctx /\ row[k].resp.ctx \in Contexts
    BY <1>3, <2>1 DEF Frozen
  <2> QED BY <2>1, <2>2, <2>3, <2>4, ServiceAssumption DEF ChargedOps, RefundedOps, LogGroup
<1>7. \A g \in Groups : \A k \in Log!Range(Tapes[g]) :
        /\ k \in ChargedOps \ (RefundedOps \cup Dropped)
        /\ Frozen[k] # None /\ LogGroup[Frozen[k]] = g
  BY <1>5, <1>6 DEF Log!Range
<1>8. \A g \in Groups : Log!IsInjective(Tapes[g])
  BY <1>5 DEF Log!IsInjective
<1>9. Shown = {} /\ Rewarded = {} /\ SettledOps = {}
  BY <1>1, <1>2 DEF Shown, Rewarded, SettledOps
<1> QED BY <1>4, <1>7, <1>8, <1>9
        DEF Log!Init, Frozen, Dropped, ChargedOps, RefundedOps, SettledOps, LogGroup, Tapes,
            Shown, Rewarded

\* Refinement, under every fault and from whatever an older engine left: an
\* operation is drawn at most once, charged, from the context frozen with it, and
\* no retry, takeover, late charge or refund ever takes the draw back.
THEOREM LogIsKept == Spec => LogKept
<1>1. TypeOK /\ PaymentInvariant /\ EvidenceInvariant => LogInv
  BY DEF LogInv
<1>2. Init /\ LogInv => Log!Init
  BY LogInitial
<1>3. LogInv /\ LogInv' /\ [Next]_vars => [Log!Next]_(Log!vars)
  BY LogEffect
<1> QED BY <1>1, <1>2, <1>3, TypeCorrect, PaymentCorrect, EvidenceCorrect, PTL
        DEF LogKept, Spec, Log!Spec
=============================================================================
