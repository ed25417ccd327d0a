----------------------------- MODULE PullStore -----------------------------
(***************************************************************************)
(* One row of gacha_runtime.pull_operations and what each SQL statement of *)
(* postgres_state.py does to it.  A statement is atomic (one autocommit    *)
(* statement, or one row-locked transaction); the order in which handlers  *)
(* issue statements is the business of PullService.                        *)
(*                                                                         *)
(* Abstractions.  A lease or a recovery lock is a Boolean, TRUE while its  *)
(* timestamp is in the future: NULL and a past timestamp are the same in   *)
(* every WHERE clause.  A processing token is the name of the worker whose *)
(* claim wrote it (tokens are fresh and a worker runs one claim at a       *)
(* time).  "resp" stands for the columns response and event, which are     *)
(* always written together; error_code and the timestamps are left out.    *)
(***************************************************************************)
EXTENDS FiniteSets

CONSTANTS Hashes,       \* request hashes: banner, count and seed of a request
          Contexts,     \* frozen recovery contexts
          Responses,    \* pull responses with their events
          Workers,      \* whoever can own a processing claim
          None          \* SQL null

Statuses == {"absent", "processing", "event_pending", "event_published",
             "succeeded", "refund_pending", "failed"}

\* Statuses whose row carries the evidence of a draw.
Committed == {"event_pending", "event_published", "succeeded"}

Rows == [status : Statuses,
         hash   : Hashes \cup {None},
         token  : Workers \cup {None},
         leased : BOOLEAN,
         ctx    : Contexts \cup {None},
         resp   : Responses \cup {None},
         locked : BOOLEAN]

\* No row: "absent" is not a value of the status column.
Absent == [status |-> "absent", hash |-> None, token |-> None, leased |-> FALSE,
           ctx |-> None, resp |-> None, locked |-> FALSE]

\* INSERT_PULL_OPERATION_SQL; the unique key on (user, key hash) is r = Absent.
Inserted(h, w, c) == [Absent EXCEPT !.status = "processing", !.hash = h,
                                    !.token = w, !.leased = TRUE, !.ctx = c]

\* CLAIM_PROCESSING_OPERATION_SQL: WHERE clause and SET list.
Claimable(r, h) == r.status = "processing" /\ ~r.leased /\ r.hash = h

\* Slip: the claim brings its own context along.
ClaimedAnew(r, w, c) == [r EXCEPT !.token = w, !.leased = TRUE, !.ctx = c]

Claimed(r, w, c) == [r EXCEPT !.token = w, !.leased = TRUE,
                              !.ctx = IF @ = None THEN c ELSE @]

\* Slip: the lease is not compared with the clock.
ExpiredOrNot(r) == r.status = "processing" /\ r.ctx # None

\* SELECT_ and CLAIM_EXPIRED_PROCESSING_OPERATION_SQL share this condition.
Expired(r) == r.status = "processing" /\ ~r.leased /\ r.ctx # None

\* Slip: like the other updates, the claim passes no context.
ReclaimedBare(r, w) == [r EXCEPT !.token = w, !.leased = TRUE, !.ctx = None]

Reclaimed(r, w) == [r EXCEPT !.token = w, !.leased = TRUE]

\* Slip: the token is not compared.
OwnedByAnyone(r, h, w) == r.status = "processing" /\ r.hash = h

\* The fence of the commit transaction and of TRANSITION_PROCESSING: only the
\* worker that made the latest claim may move the row out of "processing".
OwnedBy(r, h, w) == r.status = "processing" /\ r.hash = h /\ r.token = w

\* TRANSITION_PROCESSING_OPERATION_SQL leaves the recovery lock as it is.
Transitioned(r, s, p) == [r EXCEPT !.status = s, !.resp = p, !.ctx = None,
                                   !.token = None, !.leased = FALSE]

\* UPDATE_PULL_OPERATION_SQL and SAVE_PULL_OPERATION_SQL: every caller passes
\* no recovery context, so the column becomes null.
Updated(r, s, p) == [Transitioned(r, s, p) EXCEPT !.locked = FALSE]

\* Slip: a succeeded row is guarded like one whose delivery goes on.
TriggerForgetsSucceeded(old, new) ==
  old.status \in Committed =>
    /\ new.status \in {old.status, "event_published", "succeeded"}
    /\ new.hash = old.hash
    /\ new.resp = old.resp

\* protect_pull_audit_evidence: the updates the trigger lets through.
TriggerAllows(old, new) ==
  /\ old.status # "succeeded"
  /\ old.status \in Committed =>
       /\ new.status \in {old.status, "event_published", "succeeded"}
       /\ new.hash = old.hash
       /\ new.resp = old.resp

\* Slip: what Kafka has acknowledged is taken for delivered.
PublicationPending(r) == r.status = "event_pending"

\* The scans of the delivery and the refund phase.
DeliveryPending(r) == r.status \in {"event_pending", "event_published"}

RefundPending(r) == r.status = "refund_pending" /\ r.ctx # None

\* CLAIM_PENDING_OPERATION_SQL with the status s that the scan has read.
Recoverable == {"event_pending", "event_published", "refund_pending"}

Lockable(r, s) == r.status = s /\ s \in Recoverable /\ ~r.locked

Locked(r) == [r EXCEPT !.locked = TRUE]

\* RELEASE_PENDING_OPERATION_SQL: whoever holds the lock, it is cleared.
Released(r) ==
  IF r.status \in Recoverable THEN [r EXCEPT !.locked = FALSE] ELSE r
=============================================================================
