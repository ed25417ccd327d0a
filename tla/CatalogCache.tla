---------------------------- MODULE CatalogCache ----------------------------
(***************************************************************************)
(* The catalog as the pods see it: CachedCatalogProvider over the release  *)
(* that the environment's head points to (catalog_repository.py), and the  *)
(* versions of a banner that a release schedules (catalog_config.py).      *)
(*                                                                         *)
(* A load is three steps, because the provider waits for the database in   *)
(* between: the time of expiry is taken before the query, the snapshot is  *)
(* stored after it, and other requests of the pod run in the meantime.     *)
(*                                                                         *)
(* Abstractions.  One banner; a release is immutable and is its schedule.  *)
(* Releases the loader refuses for their contents are the set Broken.  An  *)
(* environment without a head is a release without versions.  Clocks of    *)
(* pods agree; time is counted in ticks up to Horizon.                     *)
(***************************************************************************)
EXTENDS Integers, FiniteSets

CONSTANTS
  Pods,
  Handlers,    \* requests being served
  PodOf,       \* the pod that serves a handler
  Releases,
  Schedule,    \* Schedule[r]: versions of the banner, [version, from, to]
  Versions,
  Broken,      \* releases refused by the loader
  TTL,         \* gacha_config_cache_ttl_seconds
  Horizon,     \* bound: the last tick
  None

Times == 0..Horizon

ASSUME CacheAssumption ==
  /\ TTL \in Nat /\ Horizon \in Nat
  /\ PodOf \in [Handlers -> Pods]
  /\ None \notin Releases
  /\ Broken \subseteq Releases
  /\ Schedule \in [Releases -> SUBSET [version : Versions, from : Nat, to : Nat]]

VARIABLES
  now,      \* the time
  head,     \* gacha.environment_release_heads
  until,    \* history: until[r], when r was last seen to be the head
  cache,    \* cache[p]: the pod's snapshot and when it expires
  step,     \* what a handler does next
  begun,    \* the time its get_snapshot took, from the clock
  got       \* the snapshot it has been given, or has read

env       == <<now, head, until>>
handlers  == <<step, begun, got>>
cacheVars == <<now, head, until, cache, step, begun, got>>

\* is_effective_at
Effective(r, t) == {s \in Schedule[r] : s.from <= t /\ t < s.to}

Overlapping(r, t) == \E s1, s2 \in Effective(r, t) : s1 # s2

\* _build_snapshot_from_release raises: invalid contents, or versions that
\* overlap at the time of loading.  All versions are kept, whenever in force.
Unusable(r, t) == r \in Broken \/ Overlapping(r, t)

Cold == [release |-> None, expires |-> 0]

\* Handler h goes on at step s; a handler that is done forgets its locals.
Return(h, s) == step' = [step EXCEPT ![h] = s]

Quit(h) == /\ Return(h, "idle")
           /\ begun' = [begun EXCEPT ![h] = 0]
           /\ got' = [got EXCEPT ![h] = None]

----------------------------------------------------------------------------
\* get_snapshot up to the query: a fresh snapshot is returned at once.
Get(h) ==
  /\ step[h] = "idle"
  /\ begun' = [begun EXCEPT ![h] = now]
  /\ LET c == cache[PodOf[h]] IN
       \/ /\ c.release # None /\ now < c.expires
          /\ Return(h, "ready") /\ got' = [got EXCEPT ![h] = c.release]
       \/ /\ c.release = None \/ now >= c.expires
          /\ Return(h, "load") /\ UNCHANGED got
  /\ UNCHANGED <<env, cache>>

\* CURRENT_RELEASE_SQL
Fetch(h) ==
  /\ step[h] = "load"
  /\ Return(h, "store") /\ got' = [got EXCEPT ![h] = head]
  /\ UNCHANGED <<env, cache, begun>>

\* The query fails: CatalogLoadError, 503.
FetchFails(h) ==
  /\ step[h] = "load"
  /\ Quit(h)
  /\ UNCHANGED <<env, cache>>

\* Slip: the time to live counts from the end of the load.
ExpiryFromNow(h) == now + TTL

Expiry(h) == begun[h] + TTL

\* The row is turned into a snapshot, which replaces the pod's, whatever other
\* loads have stored since this one began.
StoreSnapshot(h) ==
  /\ step[h] = "store" /\ ~Unusable(got[h], now)
  /\ cache' = [cache EXCEPT ![PodOf[h]] = [release |-> got[h], expires |-> Expiry(h)]]
  /\ Return(h, "ready")
  /\ UNCHANGED <<env, begun, got>>

\* CatalogLoadError, 503; the pod keeps what it had.
Refuse(h) ==
  /\ step[h] = "store" /\ Unusable(got[h], now)
  /\ Quit(h)
  /\ UNCHANGED <<env, cache>>

\* The request is done with its snapshot, or dies.
Finish(h) ==
  /\ step[h] # "idle"
  /\ Quit(h)
  /\ UNCHANGED <<env, cache>>

----------------------------------------------------------------------------
\* The administration publishes a release, or goes back to one.
MoveHead(r) ==
  /\ r # head
  /\ head' = r
  /\ until' = [until EXCEPT ![head] = now, ![r] = now]
  /\ UNCHANGED <<now, cache, handlers>>

Tick ==
  /\ now < Horizon
  /\ now' = now + 1
  /\ until' = [until EXCEPT ![head] = now + 1]
  /\ UNCHANGED <<head, cache, handlers>>

\* A pod is replaced: its requests and its cache are gone.
RestartPod(p) ==
  /\ cache' = [cache EXCEPT ![p] = Cold]
  /\ step' = [h \in Handlers |-> IF PodOf[h] = p THEN "idle" ELSE step[h]]
  /\ begun' = [h \in Handlers |-> IF PodOf[h] = p THEN 0 ELSE begun[h]]
  /\ got' = [h \in Handlers |-> IF PodOf[h] = p THEN None ELSE got[h]]
  /\ UNCHANGED env

CacheInit ==
  /\ now = 0
  /\ head \in Releases
  /\ until = [r \in Releases |-> IF r = head THEN 0 ELSE -1]
  /\ cache = [p \in Pods |-> Cold]
  /\ step = [h \in Handlers |-> "idle"]
  /\ begun = [h \in Handlers |-> 0]
  /\ got = [h \in Handlers |-> None]

Provide(h) == Get(h) \/ Fetch(h) \/ FetchFails(h) \/ StoreSnapshot(h) \/ Refuse(h)

CacheEnvironment == (\E r \in Releases : MoveHead(r)) \/ Tick

CacheNext ==
  \/ \E h \in Handlers : Provide(h) \/ Finish(h)
  \/ \E p \in Pods : RestartPod(p)
  \/ CacheEnvironment

CacheSpec == CacheInit /\ [][CacheNext]_cacheVars

----------------------------------------------------------------------------
(* Properties *)

CacheTypeOK ==
  /\ now \in Times /\ head \in Releases
  /\ until \in [Releases -> Times \cup {-1}]
  /\ cache \in [Pods -> [release : Releases \cup {None}, expires : Nat]]
  /\ step \in [Handlers -> {"idle", "load", "store", "ready"}]
  /\ begun \in [Handlers -> Times]
  /\ got \in [Handlers -> Releases \cup {None}]
  /\ \A h \in Handlers : step[h] \in {"store", "ready"} => got[h] \in Releases

\* A request never works with a release that had been replaced a whole time to
\* live before the request asked, however slow loads are, in whatever order they
\* finish, and although a slow one overwrites the snapshot of a later one.
StalenessBounded ==
  \A h \in Handlers : step[h] = "ready" =>
    begun[h] <= until[got[h]] \/ begun[h] < until[got[h]] + TTL
=============================================================================
