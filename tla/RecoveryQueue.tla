--------------------------- MODULE RecoveryQueue ---------------------------
(***************************************************************************)
(* The order in which recovery gets round to the rows: each scan takes the *)
(* first LIMIT rows of its queue (postgres_state.py:814-874), so a row     *)
(* whose recovery can never succeed must not keep the others waiting.  A   *)
(* row the worker's build cannot parse does: it ends the cycle.            *)
(*                                                                         *)
(* A row waits in the queue of its status: "processing" in the order of    *)
(* processing_lease_until, "delivery" and "refund" in that of updated_at.  *)
(*                                                                         *)
(* Abstractions.  What recovery does with a row, and what goes wrong with  *)
(* it, is PullService's; here it advances the row or it fails.  Lease and  *)
(* recovery lock are one flag, as no row has both at a time.               *)
(***************************************************************************)
EXTENDS Integers, SequencesExt

CONSTANTS
  Rows,
  Hopeless,    \* rows whose recovery always fails
  Arrivals,    \* bound: rows that handlers leave behind meanwhile
  Recoverers,
  Unreadable,  \* Unreadable[v]: rows whose columns the build of v does not validate
  Limit,       \* pending_event_recovery_batch_size
  InitQueues,  \* rows waiting at the start, a sequence for each queue
  None

Queues == {"processing", "delivery", "refund"}

VARIABLES
  queue,     \* queue[q]: the rows of status q, in the order of the scan
  locked,    \* rows under a lease or a recovery lock
  phase,     \* the loop a worker is in
  batch,     \* the rows it has scanned and not yet come to
  current    \* the row it has claimed

vars == <<queue, locked, phase, batch, current>>

ASSUME QueueAssumption ==
  /\ Limit \in Nat \ {0}
  /\ Hopeless \cup Arrivals \subseteq Rows
  /\ Unreadable \in [Recoverers -> SUBSET Rows]
  /\ \A init \in InitQueues : init \in [Queues -> Seq(Rows)]

In(k, q) == k \in ToSet(queue[q])

Waiting(k) == \E q \in Queues : In(k, q)

Without(k, q) == [queue EXCEPT ![q] = Remove(@, k)]

\* Slip: a statement that does not set updated_at leaves the row in its place.
Untouched(k, q) == queue

\* updated_at, or the lease, is set from now(): the row goes to the end.
Touched(k, q) == [Without(k, q) EXCEPT ![q] = Append(@, k)]

\* The WHERE clauses: rows under a lease are not selected, rows under a recovery
\* lock are, and take up room in the batch.
Selected(q) ==
  SelectSeq(queue[q], LAMBDA x : q = "processing" => x \notin locked)

First(n, s) == SubSeq(s, 1, IF Len(s) < n THEN Len(s) ELSE n)

NextPhase(p) == CASE p = "processing" -> "delivery"
                  [] p = "delivery"   -> "refund"
                  [] OTHER            -> "processing"

----------------------------------------------------------------------------
\* iter_*_pull_operations(limit).  The rows are parsed outside of its try: the
\* error ends the cycle, and the next one starts from the first loop.
Scan(v) ==
  /\ current[v] = None /\ batch[v] = <<>>
  /\ LET next == NextPhase(phase[v])
         rows == First(Limit, Selected(next))
     IN IF ToSet(rows) \cap Unreadable[v] = {}
        THEN /\ phase' = [phase EXCEPT ![v] = next]
             /\ batch' = [batch EXCEPT ![v] = rows]
        ELSE /\ phase' = [phase EXCEPT ![v] = "refund"]
             /\ UNCHANGED batch
  /\ UNCHANGED <<queue, locked, current>>

\* The claim of the next row of the batch, which may have been taken meanwhile.
Claim(v) ==
  /\ current[v] = None /\ batch[v] # <<>>
  /\ batch' = [batch EXCEPT ![v] = Tail(@)]
  /\ LET k == Head(batch[v]) IN
       IF In(k, phase[v]) /\ k \notin locked
       THEN /\ locked' = locked \cup {k}
            /\ queue' = Touched(k, phase[v])
            /\ current' = [current EXCEPT ![v] = k]
       ELSE UNCHANGED <<queue, locked, current>>
  /\ UNCHANGED phase

\* The row goes on to its next status: drawn and left to be delivered, delivered
\* or, if it was published before, confirmed; refunded.
Advance(v) ==
  /\ current[v] \notin Hopeless \cup {None}
  /\ LET k == current[v]
         rest == Without(k, phase[v])
     IN /\ queue' \in {rest} \cup IF phase[v] = "processing"
                                  THEN {[rest EXCEPT !["delivery"] = Append(@, k)]} ELSE {}
        /\ locked' = locked \ {k}
  /\ current' = [current EXCEPT ![v] = None]
  /\ UNCHANGED <<phase, batch>>

\* The attempt fails.  A recovery lock is released in a finally clause; a lease
\* has to run out.
Fail(v) ==
  /\ current[v] # None
  /\ IF phase[v] = "processing"
     THEN UNCHANGED <<queue, locked>>
     ELSE /\ locked' = locked \ {current[v]}
          /\ queue' = Touched(current[v], phase[v])
  /\ current' = [current EXCEPT ![v] = None]
  /\ UNCHANGED <<phase, batch>>

\* The worker dies, and its pod is replaced.
Crash(v) ==
  /\ current[v] # None \/ batch[v] # <<>>
  /\ current' = [current EXCEPT ![v] = None]
  /\ batch' = [batch EXCEPT ![v] = <<>>]
  /\ phase' = [phase EXCEPT ![v] = "refund"]
  /\ UNCHANGED <<queue, locked>>

\* The lease or lock that nobody works under any more runs out.
Expire(k) ==
  /\ k \in locked /\ \A v \in Recoverers : current[v] # k
  /\ locked' = locked \ {k}
  /\ UNCHANGED <<queue, phase, batch, current>>

\* A handler leaves a new operation behind, charged or drawn; it is the latest.
Arrive(k, q) ==
  /\ k \in Arrivals /\ ~Waiting(k) /\ q # "refund"
  /\ queue' = [queue EXCEPT ![q] = Append(@, k)]
  /\ UNCHANGED <<locked, phase, batch, current>>

----------------------------------------------------------------------------
Init ==
  /\ queue \in InitQueues
  /\ locked = {}
  /\ phase = [v \in Recoverers |-> "refund"]
  /\ batch = [v \in Recoverers |-> <<>>]
  /\ current = [v \in Recoverers |-> None]

Work(v) == Scan(v) \/ Claim(v) \/ Advance(v) \/ Fail(v)

Next ==
  \/ \E v \in Recoverers : Work(v) \/ Crash(v)
  \/ \E k \in Rows : Expire(k) \/ \E q \in Queues : Arrive(k, q)

Spec == Init /\ [][Next]_vars

\* The loops never end, workers do not die for ever, locks run out, and a row
\* that is not hopeless is not failed every time it is tried.
Fairness ==
  /\ <>[][\A v \in Recoverers : ~Crash(v)]_vars
  /\ \A v \in Recoverers : WF_vars(Work(v))
  /\ \A k \in Rows : /\ WF_vars(Expire(k))
                     /\ SF_vars(\E v \in Recoverers : current[v] = k /\ Advance(v))

FairSpec == Spec /\ Fairness

----------------------------------------------------------------------------
(* Properties *)

QueueTypeOK ==
  /\ queue \in [Queues -> Seq(Rows)]
  /\ locked \subseteq Rows
  /\ phase \in [Recoverers -> Queues]
  /\ batch \in [Recoverers -> Seq(Rows)]
  /\ current \in [Recoverers -> Rows \cup {None}]

\* The queues a cycle has been through when it has scanned q.
UpTo(q) == CASE q = "processing" -> {"processing"}
             [] q = "delivery"   -> {"processing", "delivery"}
             [] OTHER            -> Queues

\* Nothing on the way to row k ends the cycle of worker v.
Reaches(v, k) == \E q \in Queues :
                   /\ In(k, q)
                   /\ \A p \in UpTo(q) : ToSet(queue[p]) \cap Unreadable[v] = {}

\* However many rows can never be recovered, and although a scan sees only the
\* first few rows and new operations keep coming, every other row leaves the
\* queues in the end, as long as one worker can read what is waiting in its queue
\* and in the queues before it: no matter what the builds of the others make of
\* these rows, and no matter what is waiting in the queues behind.
NoStarvation ==
  \A k \in Rows \ Hopeless :
    Waiting(k) ~> ~Waiting(k) \/ ~\E v \in Recoverers : Reaches(v, k)
=============================================================================
