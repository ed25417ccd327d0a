-------------------------- MODULE PullAuditProofs --------------------------
(* How stale a catalog a request may work with, and what an audit may say of *)
(* an honest draw, for every catalog, clock, number of pods and of requests. *)
EXTENDS PullAudit, TLAPS

----------------------------------------------------------------------------
(* The cache *)

\* A snapshot expires one time to live after its release was last the head; one
\* that has been read but not stored was the head when or after it was asked for.
SeenInTime ==
  /\ until[head] = now
  /\ \A r \in Releases : until[r] <= now
  /\ \A h \in Handlers : begun[h] <= now
  /\ \A p \in Pods : cache[p].release # None => cache[p].expires <= until[cache[p].release] + TTL
  /\ \A h \in Handlers : step[h] = "store" => begun[h] <= until[got[h]]

CacheInvariant == CacheTypeOK /\ SeenInTime /\ StalenessBounded

\* Pods start with an empty cache.
LEMMA CacheStarts == CacheInit => CacheInvariant
BY CacheAssumption
   DEF CacheInit, CacheInvariant, CacheTypeOK, SeenInTime, StalenessBounded, Cold, Times

\* The time at which a release was last the head only moves forward.
LEMMA EnvironmentKeepsCache ==
  ASSUME CacheInvariant, CacheEnvironment
  PROVE  CacheInvariant'
<1>1. ASSUME NEW r \in Releases, MoveHead(r) PROVE CacheInvariant'
  <2>1. /\ now' = now /\ head' = r
        /\ until' = [until EXCEPT ![head] = now, ![r] = now]
        /\ UNCHANGED <<cache, step, begun, got>>
    BY <1>1 DEF MoveHead, handlers
  <2>2. CacheTypeOK'
    BY <2>1 DEF CacheInvariant, CacheTypeOK
  <2>3. \A s \in Releases : until[s] <= until'[s] /\ until'[s] <= now /\ until'[r] = now
    BY <2>1 DEF CacheInvariant, CacheTypeOK, SeenInTime, Times
  <2>4. SeenInTime' /\ StalenessBounded'
    BY <2>1, <2>2, <2>3, CacheAssumption
       DEF CacheInvariant, CacheTypeOK, SeenInTime, StalenessBounded, Times
  <2> QED BY <2>2, <2>4 DEF CacheInvariant
<1>2. ASSUME Tick PROVE CacheInvariant'
  <2>1. /\ now < Horizon /\ now' = now + 1 /\ head' = head
        /\ until' = [until EXCEPT ![head] = now + 1]
        /\ UNCHANGED <<cache, step, begun, got>>
    BY <1>2 DEF Tick, handlers
  <2>2. CacheTypeOK'
    BY <2>1, CacheAssumption DEF CacheInvariant, CacheTypeOK, Times
  <2>3. \A s \in Releases : until[s] <= until'[s] /\ until'[s] <= now' /\ until'[head] = now'
    BY <2>1 DEF CacheInvariant, CacheTypeOK, SeenInTime, Times
  <2>4. SeenInTime' /\ StalenessBounded'
    BY <2>1, <2>2, <2>3, CacheAssumption
       DEF CacheInvariant, CacheTypeOK, SeenInTime, StalenessBounded, Times
  <2> QED BY <2>2, <2>4 DEF CacheInvariant
<1> QED BY <1>1, <1>2 DEF CacheEnvironment

\* Loads interleave and may store out of order; none stores more than it has seen.
LEMMA ProviderKeepsCache ==
  ASSUME CacheInvariant, NEW h \in Handlers, Provide(h) \/ Finish(h)
  PROVE  CacheInvariant'
<1> USE CacheAssumption
    DEF CacheInvariant, CacheTypeOK, SeenInTime, StalenessBounded, Times, env, Return
<1>1. PodOf[h] \in Pods
  OBVIOUS
<1>2. ASSUME Get(h) PROVE CacheInvariant'
  <2>1. CASE UNCHANGED got
    BY <1>1, <1>2, <2>1 DEF Get
  <2>2. CASE /\ cache[PodOf[h]].release # None /\ now < cache[PodOf[h]].expires
             /\ got' = [got EXCEPT ![h] = cache[PodOf[h]].release]
             /\ step' = [step EXCEPT ![h] = "ready"]
    <3>1. cache[PodOf[h]].release \in Releases
      BY <1>1, <2>2
    <3>2. now < until[cache[PodOf[h]].release] + TTL
      BY <1>1, <2>2, <3>1
    <3>3. begun' = [begun EXCEPT ![h] = now] /\ UNCHANGED <<now, head, until, cache>>
      BY <1>2 DEF Get
    <3> QED BY <2>2, <3>1, <3>2, <3>3
  <2> QED BY <1>2, <2>1, <2>2 DEF Get
<1>3. ASSUME Fetch(h) PROVE CacheInvariant'
  BY <1>3 DEF Fetch
<1>4. ASSUME StoreSnapshot(h) PROVE CacheInvariant'
  <2> DEFINE c == [release |-> got[h], expires |-> begun[h] + TTL]
  <2>1. /\ step[h] = "store" /\ cache' = [cache EXCEPT ![PodOf[h]] = c]
        /\ step' = [step EXCEPT ![h] = "ready"]
        /\ UNCHANGED <<now, head, until, begun, got>>
    BY <1>4 DEF StoreSnapshot, Expiry
  <2>2. /\ c \in [release : Releases \cup {None}, expires : Nat] /\ c.release = got[h]
        /\ got[h] \in Releases /\ c.expires <= until[got[h]] + TTL
        /\ begun[h] <= until[got[h]]
    BY <2>1
  <2> HIDE DEF c
  <2>3. \A p \in Pods : cache'[p] = IF p = PodOf[h] THEN c ELSE cache[p]
    BY <1>1, <2>1
  <2> QED BY <1>1, <2>1, <2>2, <2>3
<1>5. ASSUME FetchFails(h) \/ Refuse(h) \/ Finish(h) PROVE CacheInvariant'
  <2>1. /\ step' = [step EXCEPT ![h] = "idle"] /\ begun' = [begun EXCEPT ![h] = 0]
        /\ got' = [got EXCEPT ![h] = None] /\ UNCHANGED <<now, head, until, cache>>
    BY <1>5 DEF FetchFails, Refuse, Finish, Quit
  <2>2. CacheTypeOK'
    BY <2>1
  <2>3. SeenInTime'
    BY <2>1
  <2>4. StalenessBounded'
    BY <2>1
  <2> QED BY <2>2, <2>3, <2>4
<1> QED BY <1>2, <1>3, <1>4, <1>5 DEF Provide

\* A pod that restarts has an empty cache again.
LEMMA RestartKeepsCache ==
  ASSUME CacheInvariant, NEW p \in Pods, RestartPod(p)
  PROVE  CacheInvariant'
BY CacheAssumption
   DEF CacheInvariant, CacheTypeOK, SeenInTime, StalenessBounded, Times, RestartPod, Cold, env

\* Every step keeps what is known of the caches.
LEMMA CacheStep ==
  ASSUME CacheInvariant, [Next]_auditVars
  PROVE  CacheInvariant'
<1>1. ASSUME UNCHANGED cacheVars PROVE CacheInvariant'
  BY <1>1 DEF cacheVars, CacheInvariant, CacheTypeOK, SeenInTime, StalenessBounded
<1>2. ASSUME NEW h \in Handlers, NEW t \in Times, Accept(h, t) PROVE Finish(h)
  BY <1>2 DEF Accept, Finish
<1>3. ASSUME Catalog PROVE CacheInvariant'
  BY <1>3, EnvironmentKeepsCache, ProviderKeepsCache DEF Catalog
<1>4. ASSUME NEW p \in Pods, DrawPull(p) \/ Audit(p) PROVE CacheInvariant'
  BY <1>1, <1>4 DEF DrawPull, Audit
<1>5. ASSUME NEW p \in Pods, NEW b \in Builds, Deploy(p, b) PROVE CacheInvariant'
  BY <1>5, RestartKeepsCache DEF Deploy
<1>6. ASSUME UNCHANGED auditVars PROVE CacheInvariant'
  BY <1>1, <1>6 DEF auditVars, cacheVars
<1> QED BY <1>2, <1>3, <1>4, <1>5, <1>6, ProviderKeepsCache DEF Next

\* catalog_repository.py:48: no request works with a release that had been replaced
\* a time to live before it asked.
THEOREM StalenessIsBounded == Spec => []StalenessBounded
<1>1. Init => CacheInvariant
  BY CacheStarts DEF Init
<1>2. CacheInvariant => StalenessBounded
  BY DEF CacheInvariant
<1> QED BY <1>1, <1>2, CacheStep, PTL DEF Spec

----------------------------------------------------------------------------
(* The audit *)

\* The configuration on record is the one its release had in force when the request
\* was accepted, and the draw was made from it; an operation is drawn once.
Honest ==
  /\ op.ctx # None => op.resp = None
  /\ op.ctx # None /\ op.ctx.audit # None =>
       /\ op.ctx.audit.config = op.ctx.config
       /\ op.ctx.config \in ConfigAt(op.ctx.config.release, op.ctx.accepted)
  /\ op.resp # None /\ op.resp.audit # None =>
       /\ op.resp.audit.config \in ConfigAt(op.resp.audit.config.release, op.resp.accepted)
       /\ op.resp.outcome = Outcome(op.resp.audit.config, RngOf[op.resp.by])

AuditInvariant == CacheInvariant /\ AuditTypeOK /\ Honest /\ MismatchMeansRedeployed

\* PullRecoveryContext.from_banner_config: what a pod freezes is well-formed and
\* names the version it was resolved to.
LEMMA FrozenIsHonest ==
  ASSUME NEW r \in Releases, NEW t \in Times, NEW b \in Builds, NEW c \in ConfigAt(r, t)
  PROVE  /\ Frozen(c, t, b) \in AuditContexts
         /\ Frozen(c, t, b).config = c /\ Frozen(c, t, b).accepted = t
         /\ Frozen(c, t, b).audit.config = c
         /\ c.release = r
BY DEF ConfigAt, Resolved, Frozen, Metadata, AuditContexts, Audits, Configs, Times

\* pull_audit.py:116: replayed against the release on record, an honest draw differs
\* only if it was made by another generator than the one on record.
LEMMA HonestReplay ==
  ASSUME AuditInvariant, op.resp # None, NEW b \in Builds,
         Replay(op.resp, AuditedRelease(op.resp), b) = "mismatch"
  PROVE  op.resp.audit # None /\ RngOf[op.resp.by] # op.resp.audit.rng
<1> DEFINE d == op.resp
           r == AuditedRelease(d)
<1>1. d.audit # None
  BY DEF Replay
<1>2. r = d.audit.config.release
  BY <1>1 DEF AuditedRelease
<1>3. d.audit.config \in ConfigAt(r, d.accepted)
      /\ d.outcome = Outcome(d.audit.config, RngOf[d.by])
  BY <1>1, <1>2 DEF AuditInvariant, Honest
<1> HIDE DEF d, r
<1>4. ASSUME d.audit.rng = RngOf[b], RngOf[d.by] = d.audit.rng
      PROVE  Replay(d, r, b) = "verified"
  BY <1>1, <1>3, <1>4 DEF Replay
<1>5. d.audit.rng = RngOf[b]
  BY <1>1, <1>3 DEF Replay, d, r
<1> QED BY <1>1, <1>4, <1>5 DEF d, r

\* What is frozen at acceptance is what the release on record says.
LEMMA AcceptIsHonest ==
  ASSUME AuditInvariant, NEW h \in Handlers, NEW t \in Times, Accept(h, t)
  PROVE  AuditTypeOK' /\ Honest' /\ MismatchMeansRedeployed'
<1>1. step[h] = "ready" /\ got[h] \in Releases /\ PodOf[h] \in Pods
  BY CacheAssumption DEF Accept, AuditInvariant, CacheInvariant, CacheTypeOK
<1>2. build[PodOf[h]] \in Builds
  BY <1>1 DEF AuditInvariant, AuditTypeOK
<1>3. CASE UNCHANGED op
  BY <1>3 DEF Accept, AuditInvariant, AuditTypeOK, Honest, MismatchMeansRedeployed
<1>4. ASSUME NEW c \in ConfigAt(got[h], t), op = NoOperation,
             op' = [op EXCEPT !.ctx = Frozen(c, t, build[PodOf[h]])]
      PROVE  AuditTypeOK' /\ Honest' /\ MismatchMeansRedeployed'
  <2> DEFINE x == Frozen(c, t, build[PodOf[h]])
  <2>1. /\ x \in AuditContexts /\ x.config = c /\ x.accepted = t
        /\ x.audit.config = c /\ c.release = got[h]
    BY <1>1, <1>2, FrozenIsHonest
  <2> HIDE DEF x
  <2>2. op' = [ctx |-> x, resp |-> None]
    BY <1>4 DEF NoOperation, x
  <2>3. build' = build /\ verdict' = verdict
    BY DEF Accept
  <2>4. AuditTypeOK'
    BY <2>1, <2>2, <2>3 DEF AuditInvariant, AuditTypeOK, Operations
  <2>5. Honest'
    BY <2>1, <2>2 DEF Honest
  <2>6. MismatchMeansRedeployed'
    BY <1>4, <2>3 DEF AuditInvariant, MismatchMeansRedeployed, NoOperation
  <2> QED BY <2>4, <2>5, <2>6
<1> QED BY <1>3, <1>4 DEF Accept, FreezeOnce

\* A draw is made from what is frozen, by the build of its pod.
LEMMA DrawIsHonest ==
  ASSUME AuditInvariant, NEW p \in Pods, DrawPull(p)
  PROVE  AuditTypeOK' /\ Honest' /\ MismatchMeansRedeployed'
<1> DEFINE x == op.ctx
           d == [accepted |-> x.accepted, audit |-> x.audit,
                 outcome |-> Outcome(x.config, RngOf[build[p]]), by |-> build[p]]
<1>1. /\ x \in AuditContexts /\ op.resp = None /\ build[p] \in Builds
      /\ x.audit # None => /\ x.audit.config = x.config
                           /\ x.config \in ConfigAt(x.config.release, x.accepted)
  BY DEF DrawPull, AuditInvariant, AuditTypeOK, Operations, Honest
<1>2. op' = [ctx |-> None, resp |-> d] /\ UNCHANGED <<build, verdict>>
  BY DEF DrawPull
<1>3. d \in DrawnPulls
  BY <1>1 DEF AuditContexts, DrawnPulls, Outcome
<1>4. AuditTypeOK'
  <2> HIDE DEF d
  <2> QED BY <1>2, <1>3 DEF AuditInvariant, AuditTypeOK, Operations
<1>5. Honest'
  BY <1>1, <1>2 DEF Honest
<1>6. MismatchMeansRedeployed'
  BY <1>1, <1>2 DEF AuditInvariant, MismatchMeansRedeployed
<1> QED BY <1>4, <1>5, <1>6

\* Every step keeps what is on record, and what audits conclude from it.
LEMMA AuditStep ==
  ASSUME AuditInvariant, [Next]_auditVars
  PROVE  AuditInvariant'
<1> SUFFICES AuditTypeOK' /\ Honest' /\ MismatchMeansRedeployed'
  BY CacheStep DEF AuditInvariant
<1> USE DEF AuditTypeOK, Honest, MismatchMeansRedeployed
<1>1. ASSUME UNCHANGED <<build, op, verdict>>
      PROVE  AuditTypeOK' /\ Honest' /\ MismatchMeansRedeployed'
  BY <1>1 DEF AuditInvariant
<1>2. ASSUME NEW p \in Pods, Audit(p)
      PROVE  AuditTypeOK' /\ Honest' /\ MismatchMeansRedeployed'
  <2>1. build[p] \in Builds /\ op.resp # None /\ UNCHANGED <<build, op>>
    BY <1>2 DEF Audit, AuditInvariant
  <2>2. verdict' \in Verdicts
    <3>1. \A d, r, b : Replay(d, r, b) \in {"verified", "unverifiable", "mismatch"}
      BY DEF Replay
    <3> QED BY <1>2, <3>1 DEF Audit, Verdicts
  <2>3. verdict' = "mismatch" =>
          verdict' = Replay(op.resp, AuditedRelease(op.resp), build[p])
    BY <1>2 DEF Audit
  <2> QED BY <2>1, <2>2, <2>3, HonestReplay DEF AuditInvariant
<1>3. ASSUME NEW p \in Pods, NEW b \in Builds, Deploy(p, b)
      PROVE  AuditTypeOK' /\ Honest' /\ MismatchMeansRedeployed'
  BY <1>3 DEF Deploy, AuditInvariant
<1> QED
  BY <1>1, <1>2, <1>3, AcceptIsHonest, DrawIsHonest DEF Next, Catalog, auditVars

\* main.py:465: an audit that reports a mismatch has found a draw by another random
\* generator than the one on record, never one that was merely overtaken by time,
\* by later releases or by new pods.
THEOREM MismatchIsRedeployment == Spec => []MismatchMeansRedeployed
<1>1. Init => AuditInvariant
  <2> SUFFICES ASSUME Init PROVE AuditInvariant
    OBVIOUS
  <2>1. op \in Operations /\ op.resp = None /\ (op.ctx # None => op.ctx.audit = None)
    BY AuditAssumption DEF Init, NoOperation, Operations
  <2> QED
    BY <2>1, CacheStarts, AuditAssumption
       DEF Init, AuditInvariant, AuditTypeOK, Honest, MismatchMeansRedeployed, Verdicts
<1>2. AuditInvariant => MismatchMeansRedeployed
  BY DEF AuditInvariant
<1> QED BY <1>1, <1>2, AuditStep, PTL DEF Spec
=============================================================================
