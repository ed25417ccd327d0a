---------------------------- MODULE PullService ----------------------------
(***************************************************************************)
(* The pull operations of one user: request handlers and recovery workers  *)
(* (main.py) sharing PostgreSQL (PullStore), and the three services they   *)
(* call: the asset service that spends and credits, the Kafka topic, and   *)
(* Backpack, which applies rewards.                                        *)
(*                                                                         *)
(* Each database statement or transaction and each call of a service is    *)
(* one step; handlers interleave between steps, may lose any answer, and   *)
(* may be killed at any point.                                             *)
(*                                                                         *)
(* Abstractions.  The user is fixed, so an operation is its idempotency    *)
(* key, from which event id, spend key and refund key are derived by       *)
(* uuid5.  A pity value is the operation that produced it: the draw is a   *)
(* function of context and previous pity.  The LIMIT of the scans and the  *)
(* sleeps are left out.                                                    *)
(***************************************************************************)
EXTENDS Integers, FiniteSets

CONSTANTS
  Keys,         \* idempotency keys, one per operation
  Hashes,       \* request hashes
  Releases,     \* catalog releases a request may be answered from
  GroupOf,      \* GroupOf[<<release, hash>>]: pity group, or None if not on offer
  Groups,       \* pity groups
  Barren,       \* contexts whose draws may find a pool of items empty
  Clients,      \* handlers of POST /v1/me/pulls
  Recoverers,   \* recovery workers, one in each pod
  None,
  MaxAttempts,  \* PITY_COMMIT_MAX_ATTEMPTS
  MaxFunds,     \* bound: pulls the wallet can pay for
  InitRows,     \* tables the service may be started on
  Faults        \* faults that may happen, a subset of FaultKinds

\* store: a statement fails or its answer is lost; asset, kafka, backpack: a
\* call fails or its answer is lost; late: a spend outlives its caller;
\* refuse: the asset service answers 4xx for another reason than the balance;
\* overrun: a lease or lock expires under a live holder; crash: a handler dies.
FaultKinds == {"store", "asset", "kafka", "backpack", "late", "refuse",
               "overrun", "crash"}

Workers == Clients \cup Recoverers

Offered(r, h) == GroupOf[<<r, h>>] # None

\* PullRecoveryContext: the banner configuration of the release, frozen with
\* the request's banner, count and seed.
Context(r, h) == [release |-> r, request |-> h]

Contexts == {Context(p[1], p[2]) : p \in {q \in Releases \X Hashes : Offered(q[1], q[2])}}

GroupFor(c) == GroupOf[<<c.release, c.request>>]

PityStates == [version : Nat, by : Keys \cup {None}]

NoPity == [version |-> 0, by |-> None]

\* PullResponse and PullCompletedEvent.  A legacy response was serialised by an
\* engine without the keys audit, accepted_at and pity_group_id.
Responses == [ctx : Contexts, prev : PityStates, legacy : BOOLEAN]

Store == INSTANCE PullStore

Jobs == [key : Keys, hash : Hashes,
         ctx : Contexts \cup {None}, resp : Responses \cup {None}]

NoJob == [key |-> None, hash |-> None, ctx |-> None, resp |-> None]

VARIABLES
  row,       \* gacha_runtime.pull_operations
  pity,      \* gacha_runtime.pity_snapshots
  funds,     \* asset service: pulls the wallet can still pay for
  debits,    \* asset service: entries spent, [op, key]
  credits,   \* asset service: entries credited
  late,      \* spend requests on their way whose caller has given up
  topic,     \* events in the Kafka topic
  applied,   \* events Backpack has applied
  answered,  \* history: every draw a client was shown
  pc,        \* the step each worker is about to take
  job,       \* its local variables: operation, request hash, context, response
  tries,     \* commit attempts of the current job
  batch,     \* records a recovery worker has scanned and not yet visited
  phase      \* which of the three recovery loops it is in

db     == <<row, pity>>
asset  == <<funds, debits, credits, late>>
bus    == <<topic, applied>>
local  == <<pc, job, tries, batch, phase>>
vars   == <<row, pity, funds, debits, credits, late, topic, applied, answered,
            pc, job, tries, batch, phase>>

Phases == {"processing", "delivery", "refund"}

Steps == {"idle", "lookup", "insert", "claim", "select", "spend", "read", "commit",
          "reconcile", "fail", "publish", "save", "refund", "close",
          "receipt", "republish", "confirm", "release"}

\* Steps between a claim and the end of the row's "processing" status.
Executing == {"spend", "read", "commit", "fail"}

\* What the columns of a row must hold for its status.
RowOK(r) == /\ r.status # "absent" => r.hash \in Hashes
            /\ r.status \in Store!Committed => r.resp \in Responses

ASSUME ServiceAssumption ==
  /\ MaxAttempts \in Nat \ {0}
  /\ MaxFunds \in Nat
  /\ Faults \subseteq FaultKinds
  /\ GroupOf \in [Releases \X Hashes -> Groups \cup {None}]
  /\ Barren \subseteq Contexts
  /\ None \notin Keys \cup Hashes \cup Workers \cup Contexts \cup Responses \cup Groups
  /\ Clients \cap Recoverers = {}
  /\ InitRows \subseteq [Keys -> Store!Rows]
  /\ \A table \in InitRows : \A k \in Keys : RowOK(table[k])

\* The context and the draw in a row are for the request the row was opened with,
\* and a row that has its draw has dropped the context.
RowMatches(r) ==
  /\ r.status = "absent" => r.ctx = None
  /\ r.ctx # None => r.ctx.request = r.hash
  /\ r.status \in Store!Committed => r.ctx = None /\ r.resp.ctx.request = r.hash

\* What an older engine may leave: at most one undelivered draw in each group,
\* the group's first.
ASSUME InitRowsAssumption ==
  \A table \in InitRows :
    LET drawn == {k \in Keys : table[k].status \in Store!Committed}
    IN /\ \A k \in Keys : RowMatches(table[k]) /\ table[k].status # "succeeded"
       /\ \A k \in drawn : table[k].resp.prev = NoPity
       /\ \A k, l \in drawn :
            GroupFor(table[k].resp.ctx) = GroupFor(table[l].resp.ctx) => k = l

----------------------------------------------------------------------------
(* Local control *)

Goto(w, l) == /\ pc' = [pc EXCEPT ![w] = l]
              /\ UNCHANGED <<job, tries, batch, phase>>

\* The handler returns, or the loop body of a recovery worker ends.
Finish(w) == /\ pc' = [pc EXCEPT ![w] = "idle"]
             /\ job' = [job EXCEPT ![w] = NoJob]
             /\ tries' = [tries EXCEPT ![w] = 0]
             /\ UNCHANGED <<batch, phase>>

\* Delivery and refund recovery work under the row's recovery lock and
\* release it in a finally clause.
HoldsLock(w) == w \in Recoverers /\ phase[w] # "processing"

Leave(w) == IF HoldsLock(w) THEN Goto(w, "release") ELSE Finish(w)

\* 200 with the draw p; a recovery worker has nobody to answer.
Answer(w, p) ==
  /\ Finish(w)
  /\ answered' = IF w \in Clients
                 THEN answered \cup {[key |-> job[w].key, hash |-> job[w].hash, resp |-> p]}
                 ELSE answered

Conclude(w) == IF HoldsLock(w) THEN Goto(w, "release") /\ UNCHANGED answered
                               ELSE Answer(w, job[w].resp)

\* Outcomes of a statement that took effect: answered, or answer lost.
Acks == IF "store" \in Faults THEN BOOLEAN ELSE {TRUE}

----------------------------------------------------------------------------
(* POST /v1/me/pulls up to the claim *)

\* The request is validated and resolved against the catalog release r that the
\* pod has cached; two pods may hold different releases.
Request(c, k, h) ==
  /\ pc[c] = "idle"
  /\ \E r \in Releases :
       /\ pc' = [pc EXCEPT ![c] = IF Offered(r, h) THEN "insert" ELSE "lookup"]
       /\ job' = [job EXCEPT ![c] =
                    [NoJob EXCEPT !.key = k, !.hash = h,
                                  !.ctx = IF Offered(r, h) THEN Context(r, h) ELSE None]]
  /\ UNCHANGED <<db, asset, bus, answered, tries, batch, phase>>

\* Slip: an idempotency key is taken to identify the request.
AnyRequest(w, r) == TRUE

SameRequest(w, r) == r.hash = job[w].hash

\* Slip: go on with the response at hand, which a handler may not have.
ResumeOwn(w, l, r) == Goto(w, l) /\ UNCHANGED answered

\* Go on with the row's own response.
Resume(w, l, r) == /\ pc' = [pc EXCEPT ![w] = l]
                   /\ job' = [job EXCEPT ![w].resp = r.resp]
                   /\ UNCHANGED <<tries, batch, phase, answered>>

\* What a handler does with a row it may not, or need not, execute.
Existing(w, r) ==
  LET drawn == SameRequest(w, r) /\ r.resp # None
      refunding == SameRequest(w, r) /\ r.status = "refund_pending"
  IN \/ drawn /\ r.status \in {"event_published", "succeeded"} /\ Answer(w, r.resp)
     \/ drawn /\ r.status = "event_pending" /\ Resume(w, "publish", r)
     \/ refunding /\ Resume(w, "refund", r)
     \/ /\ ~(drawn /\ r.status \in Store!Committed) /\ ~refunding
        /\ Finish(w) /\ UNCHANGED answered

\* The banner is not on offer: only an operation that exists can go on, with
\* the context frozen in its row if it has one.
Lookup(c) ==
  /\ pc[c] = "lookup"
  /\ LET r == row[job[c].key] IN
       \/ r = Store!Absent /\ Finish(c) /\ UNCHANGED answered
       \/ r # Store!Absent /\ r.ctx = None /\ Existing(c, r)
       \/ /\ r # Store!Absent /\ r.ctx # None
          /\ pc' = [pc EXCEPT ![c] = "insert"]
          /\ job' = [job EXCEPT ![c].ctx = r.ctx]
          /\ UNCHANGED <<tries, batch, phase, answered>>
  /\ UNCHANGED <<db, asset, bus>>

\* begin_pull_operation, three statements: insert,
Insert(c, acked) ==
  /\ pc[c] = "insert"
  /\ LET k == job[c].key IN
       IF row[k] = Store!Absent
       THEN /\ row' = [row EXCEPT ![k] = Store!Inserted(job[c].hash, c, job[c].ctx)]
            /\ IF acked THEN Goto(c, "spend") ELSE Finish(c)
       ELSE Goto(c, "claim") /\ UNCHANGED row
  /\ UNCHANGED <<pity, asset, bus, answered>>

\* or claim,
Claim(c, acked) ==
  /\ pc[c] = "claim"
  /\ LET k == job[c].key
         claimed == Store!Claimed(row[k], c, job[c].ctx)
     IN IF Store!Claimable(row[k], job[c].hash)
        THEN /\ row' = [row EXCEPT ![k] = claimed]
             /\ IF acked
                THEN /\ pc' = [pc EXCEPT ![c] = "spend"]
                     /\ job' = [job EXCEPT ![c].ctx = claimed.ctx]
                     /\ UNCHANGED <<tries, batch, phase>>
                ELSE Finish(c)
        ELSE Goto(c, "select") /\ UNCHANGED row
  /\ UNCHANGED <<pity, asset, bus, answered>>

\* or read what is there.
Select(c) ==
  /\ pc[c] = "select"
  /\ Existing(c, row[job[c].key])
  /\ UNCHANGED <<db, asset, bus>>

\* The three reading endpoints: an operation by its key, the list, the replay.
\* Each shows what the row says, and a draw only of a committed row.
Poll(c, k) ==
  /\ pc[c] = "idle" /\ row[k].status \in Store!Committed
  /\ answered' = answered \cup {[key |-> k, hash |-> row[k].hash, resp |-> row[k].resp]}
  /\ UNCHANGED <<db, asset, bus, local>>

----------------------------------------------------------------------------
(* execute_claimed_pull: a handler and a recovery worker run the same code *)

\* Slip: the key is made for each claim, not for each operation.
SpendKeyOfClaim(w) == <<job[w].key, w>>

SpendKey(w) == job[w].key

Debit(w) == [op |-> job[w].key, key |-> SpendKey(w)]

\* The asset service spends once for each idempotency key.
CanSpend(d) == d \in debits \/ funds > 0

Charge(d) == /\ debits' = debits \cup {d}
             /\ funds' = IF d \in debits THEN funds ELSE funds - 1

SpendOk(w) ==
  /\ pc[w] = "spend"
  /\ CanSpend(Debit(w)) /\ Charge(Debit(w))
  /\ Goto(w, "read")
  /\ UNCHANGED <<db, credits, late, bus, answered>>

\* 4xx: taken for a final answer.
SpendRejected(w) ==
  /\ pc[w] = "spend"
  /\ ~CanSpend(Debit(w)) \/ "refuse" \in Faults
  /\ Goto(w, "fail")
  /\ UNCHANGED <<db, asset, bus, answered>>

\* What has become of a spend request that was not answered.
Unanswered(d) ==
  \/ CanSpend(d) /\ Charge(d) /\ UNCHANGED late
  \/ UNCHANGED <<debits, funds, late>>
  \/ "late" \in Faults /\ late' = late \cup {d} /\ UNCHANGED <<debits, funds>>

\* Slips: no answer is taken for a success, or for a refusal.
SpendUnknownIsPaid(w) ==
  /\ pc[w] = "spend" /\ "asset" \in Faults
  /\ Unanswered(Debit(w)) /\ Goto(w, "read")
  /\ UNCHANGED <<db, credits, bus, answered>>

SpendUnknownIsRefused(w) ==
  /\ pc[w] = "spend" /\ "asset" \in Faults
  /\ Unanswered(Debit(w)) /\ Goto(w, "fail")
  /\ UNCHANGED <<db, credits, bus, answered>>

\* 5xx, timeout, broken connection: the row stays in processing.
SpendUnknown(w) ==
  /\ pc[w] = "spend" /\ "asset" \in Faults
  /\ Unanswered(Debit(w)) /\ Finish(w)
  /\ UNCHANGED <<db, credits, bus, answered>>

MarkFailed(w) ==
  /\ pc[w] = "fail"
  /\ LET k == job[w].key IN
       row' = IF Store!OwnedBy(row[k], job[w].hash, w)
              THEN [row EXCEPT ![k] = Store!Transitioned(@, "failed", None)]
              ELSE row
  /\ Finish(w)
  /\ UNCHANGED <<pity, asset, bus, answered>>

\* get_snapshot and perform_pulls: the candidate draw.
Draw(w) == [ctx |-> job[w].ctx, prev |-> pity[GroupFor(job[w].ctx)], legacy |-> FALSE]

ReadPity(w) ==
  /\ pc[w] = "read"
  /\ pc' = [pc EXCEPT ![w] = "commit"]
  /\ job' = [job EXCEPT ![w].resp = Draw(w)]
  /\ UNCHANGED <<db, asset, bus, answered, tries, batch, phase>>

\* perform_pulls raises a ValueError: the row stays in processing.  Seed and
\* configuration are frozen, so the next attempt may well end the same way.
DrawFails(w) ==
  /\ pc[w] = "read" /\ job[w].ctx \in Barren
  /\ Finish(w)
  /\ UNCHANGED <<db, asset, bus, answered>>

\* Version conflict: draw again from the new pity, or leave it to recovery.
Conflict(w) ==
  IF tries[w] + 1 < MaxAttempts
  THEN /\ pc' = [pc EXCEPT ![w] = "read"]
       /\ tries' = [tries EXCEPT ![w] = @ + 1]
       /\ job' = [job EXCEPT ![w].resp = None]
       /\ UNCHANGED <<batch, phase>>
  ELSE Finish(w)

\* Slip: UPDATE_PITY_SQL without the version in its WHERE clause.
NeverOutdated(p) == FALSE

\* UPDATE_PITY_SQL finds no row: another draw was committed since the read.
Outdated(p) == pity[GroupFor(p.ctx)].version # p.prev.version

\* compare_and_set_with_pull_operation: one transaction that checks the fence,
\* advances the pity version and stores the draw.
Commit(w, acked) ==
  /\ pc[w] = "commit"
  /\ LET k == job[w].key
         p == job[w].resp
         owner == Store!OwnedBy(row[k], job[w].hash, w)
     IN \/ ~owner /\ Finish(w) /\ UNCHANGED db
        \/ owner /\ Outdated(p) /\ Conflict(w) /\ UNCHANGED db
        \/ /\ owner /\ ~Outdated(p)
           /\ pity' = [pity EXCEPT ![GroupFor(p.ctx)] =
                         [version |-> @.version + 1, by |-> k]]
           /\ row' = [row EXCEPT ![k] = Store!Updated(@, "event_pending", p)]
           /\ Goto(w, IF acked THEN "publish" ELSE "reconcile")
  /\ UNCHANGED <<asset, bus, answered>>

\* The outcome of the commit is unknown: look at the row.
Reconcile(w) ==
  /\ pc[w] = "reconcile"
  /\ Existing(w, row[job[w].key])
  /\ UNCHANGED <<db, asset, bus>>

----------------------------------------------------------------------------
(* Delivery and refund *)

Event(w) == [key |-> job[w].key, resp |-> job[w].resp]

\* publish_pull_completed_with_retry, and the republication of an event that
\* Backpack does not know yet.
Publish(w) ==
  /\ pc[w] \in {"publish", "republish"}
  /\ topic' = topic \cup {Event(w)}
  /\ Goto(w, IF pc[w] = "publish" THEN "save" ELSE "release")
  /\ UNCHANGED <<db, asset, applied, answered>>

\* Every attempt fails, though one may have reached the broker.
PublishFails(w) ==
  /\ pc[w] \in {"publish", "republish"} /\ "kafka" \in Faults
  /\ topic' \in {topic, topic \cup {Event(w)}}
  /\ Leave(w)
  /\ UNCHANGED <<db, asset, applied, answered>>

\* An update of the row, if it exists and the trigger on the table lets it
\* through; the handlers log and swallow the exceptions.
Written(k, new) ==
  row' = IF row[k].status # "absent" /\ Store!TriggerAllows(row[k], new)
         THEN [row EXCEPT ![k] = new] ELSE row

\* The response is serialised again from its model, with today's keys.
Serialised(p) == [p EXCEPT !.legacy = FALSE]

Save(w) ==
  /\ pc[w] = "save"
  /\ LET k == job[w].key IN
       Written(k, Store!Updated(row[k], "event_published", Serialised(job[w].resp)))
  /\ Conclude(w)
  /\ UNCHANGED <<pity, asset, bus>>

\* Slip: as for SpendKeyOfClaim.
RefundKeyOfClaim(w) == <<job[w].key, w>>

RefundKey(w) == job[w].key

Refund(w) ==
  /\ pc[w] = "refund"
  /\ credits' = credits \cup {[op |-> job[w].key, key |-> RefundKey(w)]}
  /\ Goto(w, "close")
  /\ UNCHANGED <<db, funds, debits, late, bus, answered>>

\* Slip: a refund that was not acknowledged is closed.
RefundFailsSilently(w) ==
  /\ pc[w] = "refund" /\ "asset" \in Faults
  /\ credits' \in {credits, credits \cup {[op |-> job[w].key, key |-> RefundKey(w)]}}
  /\ Goto(w, "close")
  /\ UNCHANGED <<db, funds, debits, late, bus, answered>>

RefundFails(w) ==
  /\ pc[w] = "refund" /\ "asset" \in Faults
  /\ credits' \in {credits, credits \cup {[op |-> job[w].key, key |-> RefundKey(w)]}}
  /\ Leave(w)
  /\ UNCHANGED <<db, funds, debits, late, bus, answered>>

Close(w) ==
  /\ pc[w] = "close"
  /\ LET k == job[w].key IN Written(k, Store!Updated(row[k], "failed", None))
  /\ Leave(w)
  /\ UNCHANGED <<pity, asset, bus, answered>>

----------------------------------------------------------------------------
(* run_pull_recovery_worker *)

NextPhase(p) == CASE p = "processing" -> "delivery"
                  [] p = "delivery"   -> "refund"
                  [] OTHER            -> "processing"

Due(p, r) == \/ p = "processing" /\ Store!Expired(r)
             \/ p = "delivery" /\ Store!DeliveryPending(r)
             \/ p = "refund" /\ Store!RefundPending(r)

Record(k) == [status |-> row[k].status,
              job |-> [key |-> k, hash |-> row[k].hash,
                       ctx |-> row[k].ctx, resp |-> row[k].resp]]

\* One query each time the previous batch is done; the records grow stale
\* while they are worked through.
Scan(v) ==
  /\ pc[v] = "idle" /\ batch[v] = {}
  /\ phase' = [phase EXCEPT ![v] = NextPhase(@)]
  /\ batch' = [batch EXCEPT ![v] =
                 {Record(k) : k \in {l \in Keys : Due(NextPhase(phase[v]), row[l])}}]
  /\ UNCHANGED <<db, asset, bus, answered, pc, job, tries>>

\* claim_expired_processing_pull_operation: the claimed row, not the scanned
\* one, is executed.
Reclaim(v, x, acked) ==
  /\ pc[v] = "idle" /\ phase[v] = "processing" /\ x \in batch[v]
  /\ batch' = [batch EXCEPT ![v] = @ \ {x}]
  /\ LET k == x.job.key IN
       IF Store!Expired(row[k])
       THEN /\ row' = [row EXCEPT ![k] = Store!Reclaimed(@, v)]
            /\ IF acked
               THEN /\ pc' = [pc EXCEPT ![v] = "spend"]
                    /\ job' = [job EXCEPT ![v] = Record(k).job]
               ELSE UNCHANGED <<pc, job>>
       ELSE UNCHANGED <<row, pc, job>>
  /\ UNCHANGED <<pity, asset, bus, answered, tries, phase>>

\* Where the recovery of a locked row starts.
FirstStep(s) == CASE s = "event_pending"   -> "publish"
                  [] s = "event_published" -> "receipt"
                  [] OTHER                 -> "refund"

\* claim_pull_operation_recovery: afterwards the scanned record is worked on.
LockRow(v, x, acked) ==
  /\ pc[v] = "idle" /\ phase[v] # "processing" /\ x \in batch[v]
  /\ batch' = [batch EXCEPT ![v] = @ \ {x}]
  /\ LET k == x.job.key IN
       IF Store!Lockable(row[k], x.status)
       THEN /\ row' = [row EXCEPT ![k] = Store!Locked(@)]
            /\ IF acked
               THEN /\ pc' = [pc EXCEPT ![v] = FirstStep(x.status)]
                    /\ job' = [job EXCEPT ![v] = x.job]
               ELSE UNCHANGED <<pc, job>>
       ELSE UNCHANGED <<row, pc, job>>
  /\ UNCHANGED <<pity, asset, bus, answered, tries, phase>>

\* Slip: the event in the topic is taken for the receipt.
ReceiptFromKafka(v) ==
  /\ pc[v] = "receipt"
  /\ Goto(v, IF \E e \in topic : e.key = job[v].key THEN "confirm" ELSE "republish")
  /\ UNCHANGED <<db, asset, bus, answered>>

\* has_pull_event: Backpack's receipt for the event id.
Receipt(v) ==
  /\ pc[v] = "receipt"
  /\ Goto(v, IF \E e \in applied : e.key = job[v].key THEN "confirm" ELSE "republish")
  /\ UNCHANGED <<db, asset, bus, answered>>

ReceiptFails(v) ==
  /\ pc[v] = "receipt" /\ "backpack" \in Faults
  /\ Goto(v, "release")
  /\ UNCHANGED <<db, asset, bus, answered>>

Confirm(v) ==
  /\ pc[v] = "confirm"
  /\ LET k == job[v].key IN
       Written(k, Store!Updated(row[k], "succeeded", Serialised(job[v].resp)))
  /\ Goto(v, "release")
  /\ UNCHANGED <<pity, asset, bus, answered>>

Release(v) ==
  /\ pc[v] = "release"
  /\ row' = [row EXCEPT ![job[v].key] = Store!Released(@)]
  /\ Finish(v)
  /\ UNCHANGED <<pity, asset, bus, answered>>

----------------------------------------------------------------------------
(* Faults and the environment *)

\* Slip: the event is published although the commit failed.
StoreErrorPublishes(w) ==
  /\ "store" \in Faults
  /\ pc[w] = "commit" /\ Goto(w, "publish")
  /\ UNCHANGED <<db, asset, bus, answered>>

\* A statement fails without effect: where each handler goes on.
StoreError(w) ==
  /\ "store" \in Faults
  /\ \/ /\ pc[w] \in {"lookup", "insert", "claim", "select", "reconcile", "fail", "release"}
        /\ Finish(w) /\ UNCHANGED answered
     \/ /\ pc[w] \in {"read", "commit"}
        /\ Goto(w, "reconcile") /\ UNCHANGED answered
     \/ pc[w] = "save" /\ Conclude(w)
     \/ pc[w] \in {"close", "confirm"} /\ Leave(w) /\ UNCHANGED answered
  /\ UNCHANGED <<db, asset, bus>>

\* A scan that fails, or a claim that fails: the worker goes on without it.
ScanError(v) ==
  /\ "store" \in Faults /\ pc[v] = "idle"
  /\ \/ /\ batch[v] = {}
        /\ phase' = [phase EXCEPT ![v] = NextPhase(@)]
        /\ UNCHANGED batch
     \/ /\ \E x \in batch[v] : batch' = [batch EXCEPT ![v] = @ \ {x}]
        /\ UNCHANGED phase
  /\ UNCHANGED <<db, asset, bus, answered, pc, job, tries>>

\* The connection is dropped, the task is cancelled or the pod is killed.
Crash(w) ==
  /\ "crash" \in Faults
  /\ pc[w] # "idle" \/ batch[w] # {}
  /\ pc' = [pc EXCEPT ![w] = "idle"]
  /\ job' = [job EXCEPT ![w] = NoJob]
  /\ tries' = [tries EXCEPT ![w] = 0]
  /\ batch' = [batch EXCEPT ![w] = {}]
  /\ phase' = [phase EXCEPT ![w] = "refund"]
  /\ UNCHANGED <<db, asset, bus, answered>>

\* processing_lease_until passes.
ExpireLease(k) ==
  /\ row[k].leased
  /\ "overrun" \in Faults
       \/ ~\E w \in Workers : job[w].key = k /\ row[k].token = w /\ pc[w] \in Executing
  /\ row' = [row EXCEPT ![k].leased = FALSE]
  /\ UNCHANGED <<pity, asset, bus, answered, local>>

\* recovery_locked_until passes.
ExpireLock(k) ==
  /\ row[k].locked
  /\ "overrun" \in Faults
       \/ ~\E v \in Recoverers : job[v].key = k /\ HoldsLock(v)
  /\ row' = [row EXCEPT ![k].locked = FALSE]
  /\ UNCHANGED <<pity, asset, bus, answered, local>>

\* A spend request that outlived its caller is executed.
LateSpend(d) ==
  /\ d \in late
  /\ late' = late \ {d}
  /\ IF CanSpend(d) THEN Charge(d) ELSE UNCHANGED <<debits, funds>>
  /\ UNCHANGED <<db, credits, bus, answered, local>>

TopUp ==
  /\ funds < MaxFunds
  /\ funds' = funds + 1
  /\ UNCHANGED <<db, debits, credits, late, bus, answered, local>>

\* Backpack consumes an event and applies it unless it knows the event id.
Apply(e) ==
  /\ e \in topic
  /\ ~\E a \in applied : a.key = e.key
  /\ applied' = applied \cup {e}
  /\ UNCHANGED <<db, asset, topic, answered, local>>

----------------------------------------------------------------------------
\* Rows found at the start were written by an older engine: what they say was
\* charged is charged, and a draw in them has advanced its pity group.
StartDrawn(g) == {k \in Keys : row[k].status \in Store!Committed /\ GroupFor(row[k].resp.ctx) = g}

Init ==
  /\ row \in InitRows
  /\ pity = [g \in Groups |-> IF StartDrawn(g) = {} THEN NoPity
                              ELSE [version |-> 1, by |-> CHOOSE k \in StartDrawn(g) : TRUE]]
  /\ funds \in 0..MaxFunds
  /\ debits = {[op |-> k, key |-> k] : k \in
                 {l \in Keys : row[l].status \in Store!Committed \cup {"refund_pending"}}}
  /\ credits = {} /\ late = {} /\ topic = {} /\ applied = {} /\ answered = {}
  /\ pc = [w \in Workers |-> "idle"]
  /\ job = [w \in Workers |-> NoJob]
  /\ tries = [w \in Workers |-> 0]
  /\ batch = [w \in Workers |-> {}]
  /\ phase = [w \in Workers |-> "refund"]

ClientStep(c) ==
  \/ \E k \in Keys, h \in Hashes : Request(c, k, h)
  \/ \E k \in Keys : Poll(c, k)
  \/ Lookup(c)
  \/ \E acked \in Acks : Insert(c, acked) \/ Claim(c, acked)
  \/ Select(c)

Execute(w) ==
  \/ SpendOk(w) \/ SpendRejected(w) \/ SpendUnknown(w) \/ MarkFailed(w)
  \/ ReadPity(w) \/ DrawFails(w) \/ (\E acked \in Acks : Commit(w, acked)) \/ Reconcile(w)
  \/ Publish(w) \/ PublishFails(w) \/ Save(w)
  \/ Refund(w) \/ RefundFails(w) \/ Close(w)
  \/ StoreError(w) \/ Crash(w)

RecoveryStep(v) ==
  \/ Scan(v) \/ ScanError(v)
  \/ \E x \in batch[v], acked \in Acks : Reclaim(v, x, acked) \/ LockRow(v, x, acked)
  \/ Receipt(v) \/ ReceiptFails(v) \/ Confirm(v) \/ Release(v)

Environment ==
  \/ \E k \in Keys : ExpireLease(k) \/ ExpireLock(k)
  \/ \E d \in late : LateSpend(d)
  \/ \E e \in topic : Apply(e)
  \/ TopUp

Next ==
  \/ \E c \in Clients : ClientStep(c)
  \/ \E w \in Workers : Execute(w)
  \/ \E v \in Recoverers : RecoveryStep(v)
  \/ Environment

Spec == Init /\ [][Next]_vars

----------------------------------------------------------------------------
(* Properties *)

Charged(k)  == \E d \in debits : d.op = k
Refunded(k) == \E d \in credits : d.op = k

StoreOK == /\ row \in [Keys -> Store!Rows]
           /\ \A k \in Keys : RowOK(row[k])
           /\ pity \in [Groups -> PityStates]

Entries == [op : Keys, key : Keys]
Events  == [key : Keys, resp : Responses]
Answers == [key : Keys, hash : Hashes, resp : Responses]

ServicesOK == /\ funds \in 0..MaxFunds
              /\ debits \subseteq Entries /\ credits \subseteq Entries /\ late \subseteq Entries
              /\ topic \subseteq Events /\ applied \subseteq Events
              /\ answered \subseteq Answers

\* The local variables a step reads have been set when it is taken.
WithContext  == {"insert", "claim"} \cup Executing
WithResponse == {"commit", "publish", "save", "receipt", "republish", "confirm"}

JobOK(w) ==
  IF pc[w] = "idle" THEN job[w] = NoJob
  ELSE /\ job[w] \in Jobs
       /\ pc[w] \in WithContext => job[w].ctx \in Contexts
       /\ pc[w] \in WithResponse => job[w].resp \in Responses

Records == [status : {"processing", "event_pending", "event_published", "refund_pending"},
            job : Jobs]

RecordOK(x) == x.status \in {"event_pending", "event_published"} => x.job.resp \in Responses

LocalOK == /\ pc \in [Workers -> Steps]
           /\ job \in [Workers -> Jobs \cup {NoJob}]
           /\ tries \in [Workers -> 0..MaxAttempts - 1]
           /\ batch \in [Workers -> SUBSET Records]
           /\ phase \in [Workers -> Phases]
           /\ \A w \in Workers : JobOK(w)
           /\ \A w \in Workers : \A x \in batch[w] : RecordOK(x)

\* Type invariant: every table, service and local variable keeps its shape, and
\* no step runs with a local variable its handler has not set.
TypeOK == StoreOK /\ ServicesOK /\ LocalOK

\* Money.  However often an operation is retried, taken over or run twice at
\* once, the asset service holds at most one debit and one credit for it: the
\* spend and refund keys derive from the event id alone (main.py:2012-2017).
OneEntryPerOperation ==
  \A entries \in {debits, credits} : \A d, e \in entries : d.op = e.op => d = e

\* A draw that was committed has been paid for and never given back, whatever
\* happened to the worker that charged it.
CommittedIsPaid ==
  \A k \in Keys : row[k].status \in Store!Committed => Charged(k) /\ ~Refunded(k)

Delivering == {"publish", "save", "receipt", "republish", "confirm"}
Refunding  == {"refund", "close"}
Returned   == {"refund_pending", "failed"}

\* What a worker at step l knows about operation k.
Grounded(l, k) == /\ l \in {"read", "commit"} => Charged(k)
                  /\ l \in Delivering => row[k].status \in Store!Committed
                  /\ l \in Refunding => row[k].status \in Returned

RefundedIsReturned == \A k \in Keys : Refunded(k) => row[k].status \in Returned

JobsGrounded == \A w \in Workers : Grounded(pc[w], job[w].key)

RecordsGrounded ==
  \A w \in Workers : \A x \in batch[w] :
    x.status \in Store!Recoverable => Grounded(FirstStep(x.status), x.job.key)

KeysMatch == \A d \in debits \cup credits \cup late : d.key = d.op

\* Money, inductively.  A worker draws for a charged operation only, delivers
\* or confirms a committed one only and refunds one that can no longer be drawn
\* only, however old the record it works from; what was refunded stays undrawn.
PaymentInvariant == /\ CommittedIsPaid
                    /\ RefundedIsReturned
                    /\ JobsGrounded
                    /\ RecordsGrounded
                    /\ KeysMatch

\* "failed" is final for the client, who is told to use a new key: such an
\* operation keeps no charge.  It holds if the asset service refuses for lack
\* of balance only and executes no request its caller has given up on.
FailedIsUnpaid ==
  \A k \in Keys : row[k].status = "failed" /\ Charged(k) => Refunded(k)

\* What worker w relies on at step l of operation k.
Entitled(w, l, k) ==
  /\ l \in Executing => row[k].status = "processing" /\ row[k].token = w /\ row[k].leased
  /\ l = "fail" => ~Charged(k)
  /\ l = "close" => Refunded(k)

\* Refusal, inductively.  Whoever executes an operation holds its lease, so only
\* one worker does; it gives an operation up only if none before it, dead or taken
\* over, has charged it, and closes a refund only when it was credited.  It needs
\* what FailedIsUnpaid needs, and leases that outlive the work done under them.
RefusalInvariant == /\ late = {}
                    /\ \A w \in Workers : Entitled(w, pc[w], job[w].key)
                    /\ FailedIsUnpaid

Drawn(g) == {k \in Keys : row[k].status \in Store!Committed /\ GroupFor(row[k].resp.ctx) = g}

\* Pity p is the start of group g, or the result of a committed draw of it.
Reached(p, g) == IF p.version = 0 THEN p = NoPity
                 ELSE p.by \in Drawn(g) /\ row[p.by].resp.prev.version = p.version - 1

\* Pity.  The committed draws of a group, put in order of the version they
\* started from, form one chain from version 0 to the current snapshot: none is
\* lost, none is counted twice, and each starts from the result of the one
\* before it (compare_and_set_with_pull_operation).
PityChain ==
  \A g \in Groups :
    /\ Reached(pity[g], g)
    /\ \A k \in Drawn(g) : /\ Reached(row[k].resp.prev, g)
                           /\ row[k].resp.prev.version < pity[g].version
    /\ \A k, l \in Drawn(g) : row[k].resp.prev.version = row[l].resp.prev.version => k = l

\* Backpack and every reader of the topic see one result for an event id, the
\* one in the operation's row, although events are published again and again.
OneResultPerEvent ==
  \A e \in topic \cup applied :
    /\ row[e.key].status \in Store!Committed
    /\ row[e.key].resp = e.resp

\* README: "succeeded" says that Backpack has applied this very event, not that
\* Kafka has accepted it.
SucceededIsApplied ==
  \A k \in Keys : row[k].status = "succeeded" =>
    \E e \in applied : e.key = k /\ e.resp = row[k].resp

\* A draw shown to a client stays the draw of its operation for good, and it was
\* made for the request the client sent (same banner, count and seed), even if
\* two clients use one key for different requests.
AnswersAreDurable ==
  \A a \in answered :
    /\ row[a.key].status \in Store!Committed
    /\ row[a.key].resp = a.resp
    /\ a.resp.ctx.request = a.hash

\* What a worker at step l with locals j agrees on with the row it works on: the
\* context it claims or executes with, the request, the draw it delivers, and the
\* pity it draws from unless that is outdated; a new draw is in today's format.
Agrees(l, j) ==
  LET r == row[j.key]
  IN /\ l \in {"insert", "claim"} =>
          \/ j.ctx.request = j.hash
          \/ r.status # "absent" /\ (r.status = "processing" => r.ctx # None)
     /\ l \in Executing =>
          /\ r.status # "absent" /\ r.hash = j.hash
          /\ r.status = "processing" => r.ctx = j.ctx
     /\ l = "commit" =>
          LET now == pity[GroupFor(j.ctx)]
          IN /\ j.resp.ctx = j.ctx /\ ~j.resp.legacy
             /\ j.resp.prev.version <= now.version
             /\ j.resp.prev.version = now.version => j.resp.prev = now
     /\ l \in Delivering => r.resp = j.resp /\ r.hash = j.hash
     /\ l = "confirm" => \E e \in applied : e.key = j.key

\* A scanned draw is the row's, however long ago it was scanned.
RecordsCurrent ==
  \A w \in Workers : \A x \in batch[w] :
    x.status \in Store!Committed =>
      /\ row[x.job.key].status \in Store!Committed
      /\ x.job.resp = row[x.job.key].resp /\ x.job.hash = row[x.job.key].hash

\* Evidence, inductively.  From the first claim to the last republication, in
\* whatever worker, an operation has one context and at most one draw.
EvidenceInvariant ==
  /\ \A k \in Keys : RowMatches(row[k])
  /\ \A w \in Workers : Agrees(pc[w], job[w])
  /\ RecordsCurrent
  /\ OneResultPerEvent
  /\ AnswersAreDurable
  /\ SucceededIsApplied
  /\ PityChain

\* Action property.  The context frozen with the first claim is never replaced,
\* and a draw is made from it alone: a retry or a recovery under a newer catalog
\* release neither changes the odds nor moves the draw to another pity group.
ContextFrozen ==
  [][\A k \in Keys : row[k].ctx # None =>
       /\ row'[k].ctx \in {row[k].ctx, None}
       /\ row'[k].status \in Store!Committed => row'[k].resp.ctx = row[k].ctx]_vars

\* Action property.  Only the worker with the latest token moves a row out of
\* "processing": one whose lease was taken over can neither commit nor fail it.
StaleOwnerIsFenced ==
  [][\A k \in Keys : row[k].status = "processing" /\ row'[k].status # "processing" =>
       \E w \in Workers : row[k].token = w /\ job[w].key = k /\ pc'[w] # pc[w]]_vars

Rank(s) == CASE s = "event_pending" -> 1 [] s = "event_published" -> 2
             [] s = "succeeded" -> 3 [] OTHER -> 0

\* Action property.  A committed row never loses or changes its draw, and its
\* delivery never goes back a step, although handlers and recovery workers write
\* it from records they read long before.
EvidenceIsStable ==
  [][\A k \in Keys : row[k].status \in Store!Committed =>
       /\ row'[k].resp = row[k].resp
       /\ Rank(row'[k].status) >= Rank(row[k].status)]_vars

\* A row as recovery finds it once its lease and its lock have run out.
Abandoned(r) == [r EXCEPT !.leased = FALSE, !.locked = FALSE]

\* Recovery can work on the row without the client: a scan finds it, and the trigger
\* lets the update pass that reports it delivered.
CanFinish(r) ==
  \/ r.status \in {"absent", "succeeded", "failed"}
  \/ /\ \E p \in Phases : Due(p, Abandoned(r))
     /\ r.status \in Store!Committed =>
          Store!TriggerAllows(r, Store!Updated(r, "succeeded", Serialised(r.resp)))

\* Action property.  No step, under any fault, strands an operation: one that
\* recovery can finish, or that is only now opened, stays so.
NothingIsStranded ==
  [][\A k \in Keys : CanFinish(row[k]) => CanFinish(row'[k])]_vars

----------------------------------------------------------------------------
(* Liveness *)

\* A step of a recovery worker in which every statement and call is answered.
GoodStep(v) ==
  \/ Scan(v) \/ \E x \in batch[v] : Reclaim(v, x, TRUE) \/ LockRow(v, x, TRUE)
  \/ SpendOk(v) \/ SpendRejected(v) \/ MarkFailed(v)
  \/ ReadPity(v) \/ DrawFails(v) \/ Commit(v, TRUE) \/ Reconcile(v)
  \/ Publish(v) \/ Save(v) \/ Refund(v) \/ Close(v)
  \/ Receipt(v) \/ Confirm(v) \/ Release(v)

\* Handlers and the environment do what they like.
CalmNext ==
  \/ \E v \in Recoverers : GoodStep(v)
  \/ \E c \in Clients : ClientStep(c) \/ Execute(c)
  \/ Environment

\* Recovery workers do not fail for ever: from some point on what they ask is
\* answered.  Their loop never ends, leases and locks run out, and Backpack
\* consumes its topic.
Fairness ==
  /\ <>[][CalmNext]_vars
  /\ \A v \in Recoverers : WF_vars(GoodStep(v))
  /\ \A k \in Keys : /\ WF_vars(ExpireLease(k))
                     /\ WF_vars(ExpireLock(k))
                     /\ WF_vars(\E e \in topic : e.key = k /\ Apply(e))

FairSpec == Spec /\ Fairness

\* README: recovery does not depend on the client asking again.  Once clients
\* stay away, every operation on record ends as succeeded or failed, but for those
\* frozen with a configuration that may have no item to draw.
EventuallySettled ==
  (<>[](\A c \in Clients : pc[c] = "idle")) =>
    \A k \in Keys : row[k].status # "absent" ~>
                      row[k].status \in {"succeeded", "failed"} \/ row[k].ctx \in Barren

----------------------------------------------------------------------------
(* Refinement: the tables and services, read as the promise they keep. *)

StageOf(k) == CASE row[k].status = "absent" -> "new"
                [] row[k].status \in {"processing", "refund_pending"} -> "open"
                [] row[k].status \in {"event_pending", "event_published"} -> "drawn"
                [] row[k].status = "succeeded" -> "settled"
                [] row[k].status = "failed" -> "refused"

GroupOfRow(k) == CASE row[k].ctx # None  -> GroupFor(row[k].ctx)
                   [] row[k].resp # None -> GroupFor(row[k].resp.ctx)
                   [] OTHER -> None

\* The n-th draw of a group is the one that started from version n - 1.
TapeOf(g) ==
  [n \in 1..pity[g].version |->
     LET at == {k \in Drawn(g) : row[k].resp.prev.version = n - 1}
     IN IF at = {} THEN None ELSE CHOOSE k \in at : TRUE]

Promise == INSTANCE PullPromise WITH
  stage    <- [k \in Keys |-> StageOf(k)],
  group    <- [k \in Keys |-> GroupOfRow(k)],
  paid     <- {k \in Keys : Charged(k) /\ ~Refunded(k)},
  tape     <- [g \in Groups |-> TapeOf(g)],
  shown    <- {a.key : a \in answered},
  rewarded <- {e.key : e \in applied}

\* Refinement.  Whatever is retried, taken over, lost or repeated, an operation
\* is charged once and before its draw, draws once, in the group it was opened
\* for, is shown and rewarded only after that, and is refused only uncharged.
PromiseKept == Promise!Spec

\* The context an operation will be, or was, drawn with.
FrozenOf(k) == CASE row[k].status = "failed" -> None
                 [] row[k].status \in Store!Committed -> row[k].resp.ctx
                 [] OTHER -> row[k].ctx

Log == INSTANCE DrawLog WITH
  GroupOf  <- [c \in Contexts |-> GroupFor(c)],
  frozen   <- [k \in Keys |-> FrozenOf(k)],
  dropped  <- {k \in Keys : row[k].status = "failed"},
  charged  <- {k \in Keys : Charged(k)},
  refunded <- {k \in Keys : Refunded(k)},
  log      <- [g \in Groups |-> TapeOf(g)],
  shown    <- {a.key : a \in answered},
  rewarded <- {e.key : e \in applied},
  settled  <- {k \in Keys : row[k].status = "succeeded"}

\* Refinement.  Under every fault, late charges, lost refunds and overtaken
\* workers included, and whatever an older engine left: an operation is drawn at
\* most once, charged, from the context frozen with it, at the end of the log of
\* its pity group; from then on nothing takes it back, the charge included.
LogKept == Log!Spec
=============================================================================
