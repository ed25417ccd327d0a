------------------------------ MODULE PullAudit ------------------------------
(***************************************************************************)
(* What is recorded about a pull and what an audit makes of it: a request  *)
(* is resolved against the catalog its pod has cached, the result and its  *)
(* audit metadata are frozen in the operation, the pull is drawn later,    *)
(* perhaps by another pod, and audited later still against the release it  *)
(* names (main.py, pull_audit.py).  CatalogCache is the catalog underneath.*)
(*                                                                         *)
(* Abstractions.  One operation; leases, payment and delivery are          *)
(* PullService's.  A banner configuration is its release and version: the  *)
(* hashes are equal when these are.  A draw is a function of configuration *)
(* and random generator; seed and pity are part of the response.           *)
(***************************************************************************)
EXTENDS CatalogCache

CONSTANTS
  Skew,        \* MAX_ACCEPTED_AT_FUTURE_SKEW_SECONDS
  Builds,      \* engine builds a pod may run
  RngOf,       \* RNG_ALGORITHM_VERSION of a build
  InitOps      \* operations found at the start

Configs == [release : Releases, version : Versions]

Audits == [config : Configs, rng : {RngOf[b] : b \in Builds}, build : Builds]

\* Contexts frozen by older engines have no audit metadata and no accepted_at.
AuditContexts == [config : Configs, accepted : Nat \cup {None}, audit : Audits \cup {None}]

DrawnPulls == [accepted : Nat \cup {None}, audit : Audits \cup {None},
               outcome : Configs \X {RngOf[b] : b \in Builds}, by : Builds]

Operations == [ctx : AuditContexts \cup {None}, resp : DrawnPulls \cup {None}]

NoOperation == [ctx |-> None, resp |-> None]

Verdicts == {"verified", "unverifiable", "unavailable", "mismatch"}

ASSUME AuditAssumption ==
  /\ Skew \in Nat
  /\ None \notin AuditContexts \cup DrawnPulls \cup Audits \cup Nat \cup Verdicts
  /\ InitOps \subseteq [ctx : {c \in AuditContexts : c.audit = None} \cup {None}, resp : {None}]

VARIABLES
  build,    \* build[p], what pod p runs
  op,       \* the operation's row: recovery_context, response
  verdict   \* the status the latest audit returned, or None

auditVars == <<now, head, until, cache, step, begun, got, build, op, verdict>>

----------------------------------------------------------------------------
\* banner_config_at: the version in force, if there is exactly one.
Resolved(r, t) == {v \in Versions : \E s \in Schedule[r] : Effective(r, t) = {s} /\ s.version = v}

ConfigAt(r, t) == {[release |-> r, version |-> v] : v \in Resolved(r, t)}

\* build_pull_audit_metadata
Metadata(c, b) == [config |-> c, rng |-> RngOf[b], build |-> b]

\* PullRecoveryContext.from_banner_config
Frozen(c, t, b) == [config |-> c, accepted |-> t, audit |-> Metadata(c, b)]

\* Insert, or claim with coalesce(recovery_context, ...); a drawn operation is
\* not claimed.
FreezeOnce(o, x) == IF o = NoOperation THEN [o EXCEPT !.ctx = x] ELSE o

\* create_pull once it has the catalog.  The gateway says when the request was
\* accepted: at any time before, or a little ahead of this pod's clock.
Accept(h, t) ==
  /\ step[h] = "ready" /\ t <= now + Skew
  /\ \/ \E c \in ConfigAt(got[h], t) : op' = FreezeOnce(op, Frozen(c, t, build[PodOf[h]]))
     \/ ConfigAt(got[h], t) = {} /\ UNCHANGED op     \* 404, or ValueError
  /\ Quit(h)
  /\ UNCHANGED <<env, cache, build, verdict>>

\* perform_pulls
Outcome(c, rng) == <<c, rng>>

\* The commit of generate_and_commit_pull_with_retry, in any pod: the draw is
\* made from the frozen configuration by the generator this pod has.
DrawPull(p) ==
  /\ op.ctx # None
  /\ op' = [ctx |-> None,
            resp |-> [accepted |-> op.ctx.accepted, audit |-> op.ctx.audit,
                      outcome |-> Outcome(op.ctx.config, RngOf[build[p]]),
                      by |-> build[p]]]
  /\ UNCHANGED <<cacheVars, build, verdict>>

----------------------------------------------------------------------------
\* verify_pull_response: response d against a snapshot of release r by build b.
Replay(d, r, b) ==
  LET configs == ConfigAt(r, d.accepted)
      same == \E c \in configs : c = d.audit.config /\ Outcome(c, RngOf[b]) = d.outcome
  IN CASE d.audit = None                                    -> "unverifiable"
       [] d.audit # None /\ configs = {}                    -> "mismatch"
       [] d.audit # None /\ configs # {}
            /\ d.audit.rng # RngOf[b]                       -> "unverifiable"
       [] d.audit # None /\ configs # {}
            /\ d.audit.rng = RngOf[b] /\ same               -> "verified"
       [] OTHER                                             -> "mismatch"

\* Slip: the catalog of today, as for a response without metadata.
CurrentRelease(d) == head

\* The release the metadata names.
AuditedRelease(d) == IF d.audit = None THEN head ELSE d.audit.config.release

\* audit_pull: the pod's snapshot, expired or not, if it is of that release, and
\* a load otherwise, which may fail.  Without metadata the catalog is asked for as
\* by any other request (Get and the steps after it), and does not matter.
Audit(p) ==
  /\ op.resp # None
  /\ LET r == AuditedRelease(op.resp) IN
       \/ /\ cache[p].release = r \/ ~Unusable(r, now)
          /\ verdict' = Replay(op.resp, r, build[p])
       \/ /\ cache[p].release # r
          /\ verdict' = "unavailable"
  /\ UNCHANGED <<cacheVars, build, op>>

Deploy(p, b) ==
  /\ RestartPod(p)
  /\ build' = [build EXCEPT ![p] = b]
  /\ UNCHANGED <<op, verdict>>

----------------------------------------------------------------------------
Init ==
  /\ CacheInit
  /\ build \in [Pods -> Builds]
  /\ op \in InitOps \cup {NoOperation}
  /\ verdict = None

Catalog ==
  /\ CacheEnvironment \/ \E h \in Handlers : Provide(h) \/ Finish(h)
  /\ UNCHANGED <<build, op, verdict>>

Next ==
  \/ Catalog
  \/ \E h \in Handlers, t \in Times : Accept(h, t)
  \/ \E p \in Pods : DrawPull(p) \/ Audit(p)
  \/ \E p \in Pods, b \in Builds : Deploy(p, b)

Spec == Init /\ [][Next]_auditVars

----------------------------------------------------------------------------
(* Properties *)

AuditTypeOK ==
  /\ build \in [Pods -> Builds]
  /\ op \in Operations
  /\ verdict \in Verdicts \cup {None}

\* An honest draw is never reported as a mismatch, although by the time of the
\* audit the version has run out, the head has moved on and every pod has been
\* replaced.  The one exception is a draw by a build with another generator than
\* the build that accepted the request.
MismatchMeansRedeployed ==
  verdict = "mismatch" =>
    op.resp # None /\ op.resp.audit # None /\ RngOf[op.resp.by] # op.resp.audit.rng

\* README: the audit metadata binds a draw to the build that made it.
BuildOnRecord ==
  op.resp # None /\ op.resp.audit # None => op.resp.audit.build = op.resp.by
=============================================================================
