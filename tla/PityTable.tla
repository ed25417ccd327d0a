----------------------------- MODULE PityTable -----------------------------
(***************************************************************************)
(* The pity of one user on its way through the generations of storage: out *)
(* of Redis (scripts/migrate_redis_state.py), from rows keyed by banner to *)
(* rows keyed by pity group (migrations 000004 to 000006), and under the   *)
(* statements of this engine (postgres_state.py:653-683); and the import   *)
(* of operations that goes with it.                                        *)
(*                                                                         *)
(* The older engines are not in the repository: what they did is taken     *)
(* from the tables they left and from the column defaults and the trigger  *)
(* made for them.  The order of events is the README's: traffic is paused, *)
(* the tables are made, the tool runs until it has seen every key, traffic *)
(* is resumed; afterwards the tool may be run again at any time, and the   *)
(* pity of a group may be moved to another group.                          *)
(*                                                                         *)
(* Abstractions.  The counters of a snapshot are the number of draws they  *)
(* come from, which is its version; races for a version are PullService's. *)
(***************************************************************************)
EXTENDS Integers, FiniteSets

CONSTANTS
  Banners,
  Groups,      \* pity groups: every banner is one, by default its own
  Ops,         \* idempotency keys
  None,
  MaxDraws     \* bound: draws in a group

\* The migrations run so far: 000001, 000004, 000005, 000006.
Schemas == {"none", "table", "expand", "backfill", "enforce"}

Snapshots == [group : Groups \cup {None}, version : Nat]

OpStatuses == {"processing", "succeeded"}

ASSUME TableAssumption ==
  /\ Banners \subseteq Groups
  /\ Ops \cap Groups = {}
  /\ MaxDraws \in Nat
  /\ None \notin Groups \cup Snapshots \cup OpStatuses

VARIABLES
  schema,     \* the latest migration
  engines,    \* engines that serve pulls: of Redis, of banner rows, of group rows
  redis,      \* redis[b]: version of the snapshot under the key of banner b
  redisOps,   \* Redis: status of an operation
  table,      \* gacha_runtime.pity_snapshots; table[x] is the row with banner_id x
  ops,        \* gacha_runtime.pull_operations
  imported,   \* keys the tool has imported since traffic was paused
  draws,      \* history: draws ever committed in a group
  moved       \* history: groups whose row was given to another group

vars == <<schema, engines, redis, redisOps, table, ops, imported, draws, moved>>

RowsOf(g) == {x \in Groups : table[x] # None /\ table[x].group = g}

\* Slip: no trigger on the table.
GroupLeftOut(b) == None

\* fill_pity_group_id: an insert that names no group gets the banner's.
GroupFilled(b) == IF schema \in {"none", "table"} THEN None ELSE b

\* pity_snapshots_pity_group_id_length, not valid: from 000004 on no statement
\* writes a row without a group, not even one that has been there before.
Writable(r) == schema \in {"none", "table"} \/ r.group # None

----------------------------------------------------------------------------
(* Engines *)

Draw(g) == /\ draws[g] < MaxDraws
           /\ draws' = [draws EXCEPT ![g] = @ + 1]

\* The engine on Redis.
RedisDraw(b) ==
  /\ "redis" \in engines /\ Draw(b)
  /\ redis' = [redis EXCEPT ![b] = @ + 1]
  /\ UNCHANGED <<schema, engines, redisOps, table, ops, imported, moved>>

RedisOperation(k, s) ==
  /\ "redis" \in engines
  /\ redisOps[k] # "succeeded"
  /\ redisOps' = [redisOps EXCEPT ![k] = s]
  /\ UNCHANGED <<schema, engines, redis, table, ops, imported, draws, moved>>

\* The engine that knew banners only.  The trigger fills in the group of an
\* insert; an update of the counters does not fire it.
AfterDraw(b) ==
  IF table[b] = None THEN [group |-> GroupFilled(b), version |-> 1]
  ELSE [group |-> table[b].group, version |-> table[b].version + 1]

BannerDraw(b) ==
  /\ "banner" \in engines /\ Writable(AfterDraw(b)) /\ Draw(b)
  /\ table' = [table EXCEPT ![b] = AfterDraw(b)]
  /\ UNCHANGED <<schema, engines, redis, redisOps, ops, imported, moved>>

\* get_snapshot
GroupVersion(g) == IF RowsOf(g) = {} THEN 0
                   ELSE table[CHOOSE x \in RowsOf(g) : TRUE].version

\* INSERT_INITIAL_PITY_SQL, on conflict of the group only: the banner_id of the
\* new row is the group's name, and the primary key may be taken.
Insertable(g) == RowsOf(g) # {} \/ table[g] = None

\* compare_and_set: initial row, then UPDATE_PITY_SQL.
GroupDraw(g) ==
  /\ "group" \in engines /\ Insertable(g) /\ Draw(g)
  /\ table' = IF RowsOf(g) = {}
              THEN [table EXCEPT ![g] = [group |-> g, version |-> 1]]
              ELSE [x \in Groups |-> IF x \in RowsOf(g)
                                     THEN [table[x] EXCEPT !.version = @ + 1]
                                     ELSE table[x]]
  /\ UNCHANGED <<schema, engines, redis, redisOps, ops, imported, moved>>

\* An operation on record is taken up again and done, or a new one is begun.
EngineOperation(k, s) ==
  /\ engines \cap {"banner", "group"} # {}
  /\ ops[k] # "succeeded"
  /\ ops' = [ops EXCEPT ![k] = s]
  /\ UNCHANGED <<schema, engines, redis, redisOps, table, imported, draws, moved>>

----------------------------------------------------------------------------
(* Migrations *)

Migrate(from, to) == schema = from /\ schema' = to

CreateTable == Migrate("none", "table") /\ UNCHANGED table

Expand == Migrate("table", "expand") /\ UNCHANGED table

\* Slip: the group the banner has been moved to.
MovedGroup(x) == IF x \in Banners THEN CHOOSE g \in Groups : g \notin Banners ELSE x

BackfillGroup(x) == x

Backfill ==
  /\ Migrate("expand", "backfill")
  /\ table' = [x \in Groups |-> IF table[x] # None /\ table[x].group = None
                                THEN [table[x] EXCEPT !.group = BackfillGroup(x)]
                                ELSE table[x]]

\* validate constraint, create unique index: fail if the rows do not comply.
Compliant == /\ \A x \in Groups : table[x] # None => table[x].group # None
             /\ \A g \in Groups : \A x, y \in RowsOf(g) : x = y

Enforce == Migrate("backfill", "enforce") /\ Compliant /\ UNCHANGED table

\* The down scripts, run before this engine serves: 000006 and 000005 leave the
\* rows alone, 000004 drops the column.
Revert ==
  /\ "group" \notin engines
  /\ \/ Migrate("enforce", "backfill") /\ UNCHANGED table
     \/ Migrate("backfill", "expand") /\ UNCHANGED table
     \/ /\ Migrate("expand", "table")
        /\ table' = [x \in Groups |-> IF table[x] = None THEN None
                                      ELSE [table[x] EXCEPT !.group = None]]

Migration ==
  /\ CreateTable \/ Expand \/ Backfill \/ Enforce \/ Revert
  /\ UNCHANGED <<engines, redis, redisOps, ops, imported, draws, moved>>

----------------------------------------------------------------------------
(* migrate_redis_state.py *)

\* Slip: a snapshot is overwritten whatever its version.
AlwaysNewer(b) == TRUE

Newer(b) == table[b].version < redis[b]

\* IMPORT_PITY_SQL
AfterImport(b) ==
  CASE table[b] = None -> [group |-> GroupFilled(b), version |-> redis[b]]
    [] table[b] # None /\ Newer(b) -> [table[b] EXCEPT !.version = redis[b]]
    [] OTHER -> table[b]

ImportPity(b) ==
  /\ redis[b] > 0
  /\ AfterImport(b) # table[b] => Writable(AfterImport(b))
  /\ table' = [table EXCEPT ![b] = AfterImport(b)]
  /\ imported' = imported \cup {b}
  /\ UNCHANGED ops

\* Slip: on conflict do update.
ImportedAnyway(k) == redisOps[k]

\* IMPORT_OPERATION_SQL, on conflict do nothing.
ImportedStatus(k) == IF ops[k] = None THEN redisOps[k] ELSE ops[k]

ImportOperation(k) ==
  /\ redisOps[k] # None
  /\ ops' = [ops EXCEPT ![k] = ImportedStatus(k)]
  /\ imported' = imported \cup {k}
  /\ UNCHANGED table

\* Keys come in any order, perhaps twice; the tool may die between two keys and
\* be started again.
Import ==
  /\ schema # "none" /\ "redis" \notin engines
  /\ (\E b \in Banners : ImportPity(b)) \/ (\E k \in Ops : ImportOperation(k))
  /\ UNCHANGED <<schema, engines, redis, redisOps, draws, moved>>

\* README: another pity group for a banner in use is a data migration.  The row
\* keeps its banner_id; the unique index refuses a group that has one already.
Move(x, g) ==
  /\ engines = {"group"} /\ RowsOf(x) # {} /\ RowsOf(g) = {}
  /\ table' = [y \in Groups |-> IF y \in RowsOf(x) THEN [table[y] EXCEPT !.group = g]
                               ELSE table[y]]
  /\ draws' = [draws EXCEPT ![g] = draws[x], ![x] = 0]
  /\ moved' = moved \cup {x}
  /\ UNCHANGED <<schema, engines, redis, redisOps, ops, imported>>

\* README, steps 1 and 4.
Pause ==
  /\ engines = {"redis"} /\ engines' = {}
  /\ UNCHANGED <<schema, redis, redisOps, table, ops, imported, draws, moved>>

AllImported == /\ \A b \in Banners : redis[b] > 0 => b \in imported
               /\ \A k \in Ops : redisOps[k] # None => k \in imported

\* This engine needs the unique index; pods are replaced one by one, and a
\* deployment may be rolled back, but not to banner rows after a Move.
DeployEngines(e) ==
  /\ schema # "none" /\ "redis" \notin engines /\ AllImported
  /\ e \subseteq {"banner", "group"} /\ e # {}
  /\ "group" \in e => schema = "enforce"
  /\ "banner" \in e => moved = {}
  /\ engines' = e
  /\ UNCHANGED <<schema, redis, redisOps, table, ops, imported, draws, moved>>

----------------------------------------------------------------------------
Init ==
  /\ schema = "none"
  /\ engines = {"redis"}
  /\ redis = [b \in Banners |-> 0]
  /\ redisOps = [k \in Ops |-> None]
  /\ table = [x \in Groups |-> None]
  /\ ops = [k \in Ops |-> None]
  /\ imported = {}
  /\ draws = [g \in Groups |-> 0]
  /\ moved = {}

Next ==
  \/ \E b \in Banners : RedisDraw(b) \/ BannerDraw(b)
  \/ \E g \in Groups : GroupDraw(g)
  \/ \E k \in Ops, s \in OpStatuses : RedisOperation(k, s) \/ EngineOperation(k, s)
  \/ Migration \/ Import \/ Pause
  \/ \E e \in SUBSET {"banner", "group"} : DeployEngines(e)
  \/ \E x, g \in Groups : Move(x, g)

Spec == Init /\ [][Next]_vars

----------------------------------------------------------------------------
(* Properties *)

TypeOK ==
  /\ schema \in Schemas
  /\ engines \subseteq {"redis", "banner", "group"}
  /\ redis \in [Banners -> Nat]
  /\ redisOps \in [Ops -> OpStatuses \cup {None}]
  /\ table \in [Groups -> Snapshots \cup {None}]
  /\ ops \in [Ops -> OpStatuses \cup {None}]
  /\ imported \subseteq Banners \cup Ops
  /\ draws \in [Groups -> Nat]
  /\ moved \subseteq Groups

BannerVersion(b) == IF table[b] = None THEN 0 ELSE table[b].version

\* README: an upgrade does not reset pity.  Every engine that serves sees, in a
\* group, all draws ever made in it, by whichever engine, in whichever store and
\* under whichever group name.
PityCarriedOver ==
  /\ "group" \in engines => \A g \in Groups : GroupVersion(g) = draws[g]
  /\ "banner" \in engines => \A b \in Banners : BannerVersion(b) = draws[b]

\* 000006 never finds a row that fails it, although engines write between the
\* migrations.
EnforceSucceeds == schema = "backfill" => Compliant

\* Whatever migration it meets, an engine that knows banners only is refused a
\* draw in one case: between 000004 and 000005, for a row from before 000004.  This
\* engine is refused one, for a primary key that is taken, only in a group whose
\* pity was moved away.
DrawsAccepted ==
  /\ "banner" \in engines => \A b \in Banners :
       Writable(AfterDraw(b)) \/ (schema = "expand" /\ table[b] # None)
  /\ "group" \in engines => \A g \in Groups : Insertable(g) \/ g \in moved

\* README: the tool can be run again.  Once pulls are served from PostgreSQL, an
\* import changes no snapshot and no operation.
SafeRerun == [][engines # {} /\ Import => UNCHANGED <<table, ops>>]_vars
=============================================================================
