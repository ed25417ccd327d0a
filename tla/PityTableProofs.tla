-------------------------- MODULE PityTableProofs --------------------------
(* No draw is lost on the way through the stores, for any number of banners, *)
(* groups and operations and any order of draws, imports and deployments.    *)
EXTENDS PityTable, TLAPS

\* Nothing is in PostgreSQL before traffic is paused.
Untouched ==
  "redis" \in engines => /\ engines = {"redis"} /\ imported = {}
                         /\ \A x \in Groups : table[x] = None
                         /\ \A k \in Ops : ops[k] = None

\* A group's draws are in the row that bears its name, or still in Redis.
RowAccounts(x) ==
  /\ table[x] # None => /\ table[x].version = draws[x]
                        /\ table[x].group \in {None, x}
                        /\ schema \in {"backfill", "enforce"} => table[x].group = x
  /\ table[x] = None => draws[x] = IF x \in Banners THEN redis[x] ELSE 0
  /\ x \in Banners => redis[x] <= draws[x]
  /\ x \in imported => table[x] # None

\* What serves pulls was deployed on a complete import.
Deployed ==
  /\ \A k \in Ops : k \in imported => ops[k] # None
  /\ engines \cap {"banner", "group"} # {} => AllImported
  /\ "group" \in engines => schema = "enforce"

\* What was imported is in the row of its banner, or has been overtaken there.
RedisBehind == \A b \in Banners : b \in imported => /\ table[b] # None
                                                   /\ redis[b] <= table[b].version

\* From the first move on a group's draws are in the row that names it as its group,
\* whatever its banner_id.
MovedAccounts ==
  /\ engines = {"group"} /\ schema = "enforce"
  /\ \A x \in Groups : table[x] # None => /\ table[x].group \in Groups
                                         /\ table[x].version = draws[table[x].group]
  /\ \A x, y \in Groups : table[x] # None /\ table[y] # None
                          /\ table[x].group = table[y].group => x = y
  /\ \A g \in Groups : RowsOf(g) = {} => draws[g] = 0 /\ (table[g] # None => g \in moved)
  /\ RedisBehind

Kept == TypeOK /\ Untouched /\ Deployed

Unmoved == Kept /\ moved = {} /\ \A x \in Groups : RowAccounts(x)

TableInvariant == Unmoved \/ (Kept /\ MovedAccounts /\ moved # {})

----------------------------------------------------------------------------
\* The rows of a group are the one that bears its name, if any.
LEMMA OwnRow ==
  ASSUME Unmoved, NEW g \in Groups
  PROVE  /\ RowsOf(g) \subseteq {g}
         /\ schema \in {"backfill", "enforce"} /\ table[g] # None => RowsOf(g) = {g}
BY TableAssumption DEF Unmoved, Kept, RowAccounts, RowsOf

\* postgres_state.py:653: this engine finds every draw of a group under its name.
LEMMA GroupFound ==
  ASSUME Unmoved, "group" \in engines, NEW g \in Groups
  PROVE  GroupVersion(g) = draws[g] /\ Insertable(g)
<1>1. schema = "enforce" /\ AllImported
  BY DEF Unmoved, Kept, Deployed
<1>2. CASE table[g] = None
  <2>1. RowsOf(g) = {}
    BY <1>2, OwnRow DEF RowsOf
  <2>2. draws[g] = 0
    BY <1>1, <1>2 DEF Unmoved, Kept, TypeOK, RowAccounts, AllImported
  <2> QED BY <1>2, <2>1, <2>2 DEF GroupVersion, Insertable
<1>3. CASE table[g] # None
  <2>1. RowsOf(g) = {g}
    BY <1>1, <1>3, OwnRow
  <2> QED BY <1>3, <2>1 DEF Unmoved, Kept, RowAccounts, GroupVersion, Insertable
<1> QED BY <1>2, <1>3

\* Once pulls are served from PostgreSQL the import has nothing left to change.
LEMMA ImportIsIdle ==
  ASSUME Kept, RedisBehind, engines # {}, Import
  PROVE  UNCHANGED <<table, ops>>
<1>1. AllImported
  BY DEF Kept, TypeOK, Deployed, Import
<1>2. ASSUME NEW b \in Banners, ImportPity(b) PROVE UNCHANGED <<table, ops>>
  <2>1. table[b] # None /\ b \in Groups /\ redis[b] <= table[b].version
    BY <1>1, <1>2, TableAssumption DEF AllImported, ImportPity, RedisBehind
  <2>2. ~Newer(b)
    BY <2>1 DEF Newer, Kept, TypeOK, Snapshots
  <2> QED BY <1>2, <2>1, <2>2 DEF ImportPity, AfterImport, Kept, TypeOK
<1>3. ASSUME NEW k \in Ops, ImportOperation(k) PROVE UNCHANGED <<table, ops>>
  <2>1. ops[k] # None
    BY <1>1, <1>3 DEF AllImported, ImportOperation, Kept, Deployed
  <2> QED BY <1>3, <2>1 DEF ImportOperation, ImportedStatus, Kept, TypeOK
<1> QED BY <1>2, <1>3 DEF Import

\* While no group has been moved the rows also stand as they do afterwards.
LEMMA UnmovedAccounts ==
  ASSUME Unmoved
  PROVE  RedisBehind /\ (engines = {"group"} => MovedAccounts)
<1>1. RedisBehind
  BY TableAssumption DEF RedisBehind, Unmoved, Kept, TypeOK, RowAccounts
<1>2. ASSUME engines = {"group"} PROVE MovedAccounts
  <2>1. schema = "enforce"
    BY <1>2 DEF Unmoved, Kept, Deployed
  <2>2. \A x \in Groups : table[x] # None => /\ table[x].group = x
                                           /\ table[x].version = draws[x]
    BY <2>1 DEF Unmoved, RowAccounts
  <2>3. ASSUME NEW g \in Groups, RowsOf(g) = {} PROVE draws[g] = 0 /\ table[g] = None
    <3>1. table[g] = None
      BY <2>1, <2>3, OwnRow
    <3>2. GroupVersion(g) = draws[g]
      BY <1>2, GroupFound
    <3> QED BY <2>3, <3>1, <3>2 DEF GroupVersion
  <2> QED BY <1>1, <1>2, <2>1, <2>2, <2>3 DEF MovedAccounts
<1> QED BY <1>1, <1>2

\* Draws and operations of engines of every generation.
LEMMA EngineKeepsTable ==
  ASSUME Unmoved,
         \/ \E b \in Banners : RedisDraw(b) \/ BannerDraw(b)
         \/ \E g \in Groups : GroupDraw(g)
         \/ \E k \in Ops, s \in OpStatuses : RedisOperation(k, s) \/ EngineOperation(k, s)
  PROVE  Unmoved'
<1> USE TableAssumption DEF Unmoved, Kept, TypeOK, Untouched, Deployed, AllImported
<1>1. ASSUME NEW b \in Banners, RedisDraw(b) PROVE Unmoved'
  BY <1>1 DEF RedisDraw, Draw, RowAccounts
<1>2. ASSUME NEW b \in Banners, BannerDraw(b) PROVE Unmoved'
  <2> DEFINE new == AfterDraw(b)
  <2>1. /\ "banner" \in engines /\ b \in Groups /\ RowAccounts(b)
        /\ table' = [table EXCEPT ![b] = new] /\ draws' = [draws EXCEPT ![b] = @ + 1]
        /\ UNCHANGED <<schema, engines, redis, redisOps, ops, imported, moved>>
    BY <1>2 DEF BannerDraw, Draw
  <2>2. table[b] = None => draws[b] = 0
    BY <2>1 DEF RowAccounts
  <2>3. /\ new \in Snapshots /\ new.version = draws[b] + 1 /\ new.group \in {None, b}
        /\ schema \in {"backfill", "enforce"} => new.group = b
    BY <2>1, <2>2 DEF RowAccounts, AfterDraw, GroupFilled, Snapshots
  <2> HIDE DEF new
  <2>4. TypeOK' /\ Untouched' /\ Deployed'
    BY <2>1, <2>3
  <2>5. \A x \in Groups : RowAccounts(x)'
    BY <2>1, <2>3 DEF RowAccounts
  <2> QED BY <2>1, <2>4, <2>5
<1>3. ASSUME NEW g \in Groups, GroupDraw(g) PROVE Unmoved'
  <2> DEFINE new == IF table[g] = None THEN [group |-> g, version |-> 1]
                                       ELSE [table[g] EXCEPT !.version = @ + 1]
  <2>1. /\ "group" \in engines /\ RowAccounts(g) /\ schema = "enforce"
        /\ draws' = [draws EXCEPT ![g] = @ + 1]
        /\ UNCHANGED <<schema, engines, redis, redisOps, ops, imported, moved>>
    BY <1>3 DEF GroupDraw, Draw
  <2>2. table' = [table EXCEPT ![g] = new]
    <3>1. CASE table[g] = None
      <4>1. RowsOf(g) = {}
        BY <3>1, OwnRow DEF RowsOf
      <4> QED BY <1>3, <3>1, <4>1 DEF GroupDraw
    <3>2. CASE table[g] # None
      <4>1. RowsOf(g) = {g}
        BY <2>1, <3>2, OwnRow
      <4> QED BY <1>3, <3>2, <4>1 DEF GroupDraw
    <3> QED BY <3>1, <3>2
  <2>3. table[g] = None => draws[g] = 0
    BY <2>1 DEF RowAccounts
  <2>4. new \in Snapshots /\ new.version = draws[g] + 1 /\ new.group = g
    BY <2>1, <2>3 DEF RowAccounts, Snapshots
  <2> HIDE DEF new
  <2>5. TypeOK' /\ Untouched' /\ Deployed'
    BY <2>1, <2>2, <2>4
  <2>6. \A x \in Groups : RowAccounts(x)'
    BY <2>1, <2>2, <2>4 DEF RowAccounts
  <2> QED BY <2>1, <2>5, <2>6
<1>4. ASSUME NEW k \in Ops, NEW s \in OpStatuses, RedisOperation(k, s) PROVE Unmoved'
  BY <1>4 DEF RedisOperation, RowAccounts
<1>5. ASSUME NEW k \in Ops, NEW s \in OpStatuses, EngineOperation(k, s) PROVE Unmoved'
  BY <1>5 DEF EngineOperation, RowAccounts
<1> QED BY <1>1, <1>2, <1>3, <1>4, <1>5

\* The migrations, applied or reverted.
LEMMA MigrationKeepsTable ==
  ASSUME Unmoved, Migration
  PROVE  Unmoved'
<1> USE TableAssumption DEF Unmoved, Kept, TypeOK, Untouched, Deployed, AllImported, Migrate
<1>1. CASE CreateTable \/ Expand
  BY <1>1 DEF Migration, CreateTable, Expand, Schemas, RowAccounts
<1>2. CASE Backfill
  <2>1. \A x \in Groups :
          table'[x] = IF table[x] # None /\ table[x].group = None
                      THEN [table[x] EXCEPT !.group = x] ELSE table[x]
    BY <1>2 DEF Backfill, BackfillGroup
  <2>2. \A x \in Groups :
          IF table[x] = None THEN table'[x] = None
          ELSE /\ table'[x] \in Snapshots /\ table'[x].group = x
               /\ table'[x].version = table[x].version
    <3> SUFFICES ASSUME NEW x \in Groups, table[x] # None
                 PROVE  /\ table'[x] \in Snapshots /\ table'[x].group = x
                        /\ table'[x].version = table[x].version
      BY <2>1
    <3>1. table[x] \in Snapshots /\ table[x].group \in {None, x} /\ x # None
      BY DEF RowAccounts
    <3>2. CASE table[x].group = None
      <4>1. table'[x] = [table[x] EXCEPT !.group = x]
        BY <2>1, <3>2
      <4> QED BY <3>1, <4>1 DEF Snapshots
    <3>3. CASE table[x].group = x
      BY <2>1, <3>1, <3>3
    <3> QED BY <3>1, <3>2, <3>3
  <2>3. /\ schema = "expand" /\ schema' = "backfill"
        /\ table' = [x \in Groups |-> table'[x]]
        /\ UNCHANGED <<engines, redis, redisOps, ops, imported, draws, moved>>
    BY <1>2 DEF Migration, Backfill
  <2>4. TypeOK' /\ Untouched' /\ Deployed'
    BY <2>2, <2>3 DEF Schemas
  <2>5. \A x \in Groups : RowAccounts(x)'
    BY <2>2, <2>3 DEF RowAccounts
  <2> QED BY <2>3, <2>4, <2>5
<1>3. CASE Enforce
  BY <1>3 DEF Migration, Enforce, Schemas, RowAccounts
<1>4. CASE Revert
  <2> DEFINE bare == [x \in Groups |-> IF table[x] = None THEN None
                                       ELSE [table[x] EXCEPT !.group = None]]
  <2>1. /\ table' = table \/ (table' = bare /\ schema' = "table")
        /\ schema' \in {"table", "expand", "backfill"}
        /\ schema \in {"expand", "backfill", "enforce"} /\ "group" \notin engines
        /\ schema' = "backfill" => schema = "enforce" /\ table' = table
        /\ UNCHANGED <<engines, redis, redisOps, ops, imported, draws, moved>>
    BY <1>4 DEF Migration, Revert
  <2>2. CASE table' = table
    BY <2>1, <2>2 DEF Schemas, RowAccounts
  <2>3. CASE table' = bare /\ schema' = "table"
    <3>1. \A x \in Groups :
            IF table[x] = None THEN table'[x] = None
            ELSE /\ table'[x] \in Snapshots /\ table'[x].group = None
                 /\ table'[x].version = table[x].version
      BY <2>3, TableAssumption DEF Snapshots
    <3>2. table' = [x \in Groups |-> table'[x]]
      BY <2>3
    <3> HIDE DEF bare
    <3>3. TypeOK' /\ Untouched' /\ Deployed'
      BY <2>1, <2>3, <3>1, <3>2 DEF Schemas
    <3>4. \A x \in Groups : RowAccounts(x)'
      BY <2>1, <2>3, <3>1 DEF RowAccounts
    <3> QED BY <2>1, <3>3, <3>4
  <2> QED BY <2>1, <2>2, <2>3
<1> QED BY <1>1, <1>2, <1>3, <1>4 DEF Migration

\* The import tool, whenever it is run.
LEMMA ImportKeepsTable ==
  ASSUME Unmoved, Import
  PROVE  Unmoved'
<1> USE TableAssumption DEF Unmoved, Kept, TypeOK, Untouched, Deployed, AllImported
<1>1. ASSUME NEW b \in Banners, ImportPity(b) PROVE Unmoved'
  <2> DEFINE new == AfterImport(b)
  <2>1. /\ b \in Groups /\ RowAccounts(b) /\ "redis" \notin engines
        /\ table' = [table EXCEPT ![b] = new] /\ imported' = imported \cup {b}
        /\ UNCHANGED <<schema, engines, redis, redisOps, ops, draws, moved>>
    BY <1>1 DEF Import, ImportPity
  <2>2. table[b] # None => ~Newer(b)
    BY <2>1 DEF Newer, RowAccounts
  <2>3. /\ new \in Snapshots /\ new.version = draws[b] /\ new.group \in {None, b}
        /\ schema \in {"backfill", "enforce"} => new.group = b
    BY <2>1, <2>2 DEF RowAccounts, AfterImport, GroupFilled, Snapshots
  <2> HIDE DEF new
  <2>4. TypeOK' /\ Untouched' /\ Deployed'
    BY <2>1, <2>3
  <2>5. \A x \in Groups : RowAccounts(x)'
    BY <2>1, <2>3 DEF RowAccounts
  <2> QED BY <2>1, <2>4, <2>5
<1>2. ASSUME NEW k \in Ops, ImportOperation(k) PROVE Unmoved'
  <2>1. ImportedStatus(k) \in OpStatuses
    BY <1>2 DEF ImportOperation, ImportedStatus
  <2>2. /\ "redis" \notin engines /\ ops' = [ops EXCEPT ![k] = ImportedStatus(k)]
        /\ imported' = imported \cup {k}
        /\ UNCHANGED <<schema, engines, redis, redisOps, table, draws, moved>>
    BY <1>2 DEF Import, ImportOperation
  <2> QED BY <2>1, <2>2 DEF RowAccounts
<1> QED BY <1>1, <1>2 DEF Import

\* Every other step, while no group has been moved.
LEMMA UnmovedStep ==
  ASSUME Unmoved, [Next]_vars, ~\E x, g \in Groups : Move(x, g)
  PROVE  Unmoved'
<1> USE TableAssumption DEF Unmoved, Kept, TypeOK, Untouched, Deployed, AllImported
<1>1. CASE Pause
  BY <1>1 DEF Pause, RowAccounts
<1>2. ASSUME NEW e \in SUBSET {"banner", "group"}, DeployEngines(e) PROVE Unmoved'
  BY <1>2 DEF DeployEngines, RowAccounts
<1>3. CASE UNCHANGED vars
  BY <1>3 DEF vars, RowAccounts
<1> QED
  BY <1>1, <1>2, <1>3, EngineKeepsTable, MigrationKeepsTable, ImportKeepsTable DEF Next

\* postgres_state.py:653: no two rows answer for one group.
LEMMA OneRow ==
  ASSUME Kept, MovedAccounts, NEW g \in Groups
  PROVE  \/ RowsOf(g) = {} /\ draws[g] = 0 /\ (table[g] # None => g \in moved)
         \/ \E x \in Groups : /\ RowsOf(g) = {x} /\ table[x] \in Snapshots
                              /\ table[x].group = g /\ table[x].version = draws[g]
<1>1. CASE RowsOf(g) = {}
  BY <1>1 DEF MovedAccounts
<1>2. ASSUME NEW x \in RowsOf(g)
      PROVE  /\ x \in Groups /\ RowsOf(g) = {x} /\ table[x] \in Snapshots
             /\ table[x].group = g /\ table[x].version = draws[g]
  <2>1. x \in Groups /\ table[x] # None /\ table[x].group = g
    BY DEF RowsOf
  <2>2. ASSUME NEW y \in RowsOf(g) PROVE y = x
    BY <2>1, <2>2 DEF RowsOf, MovedAccounts
  <2> QED BY <2>1, <2>2 DEF Kept, TypeOK, MovedAccounts
<1> QED BY <1>1, <1>2

\* The row with banner_id x, there before or not, becomes r, the row of group g.
Rewritten(x, g, r) ==
  /\ r \in Snapshots /\ r.group = g /\ r.version = draws'[g]
  /\ table[x] # None => table[x].version <= r.version
  /\ table' = [table EXCEPT ![x] = r]
  /\ draws' \in [Groups -> Nat] /\ moved \subseteq moved' /\ moved' \subseteq Groups
  /\ UNCHANGED <<schema, engines, redis, redisOps, ops, imported>>
  /\ \A y \in Groups : y # x /\ table[y] # None =>
       table[y].group # g /\ draws'[table[y].group] = draws[table[y].group]
  /\ \A l \in Groups : RowsOf(l) \subseteq {x} /\ l # g =>
       draws'[l] = 0 /\ (table'[l] # None => l \in moved')

\* It is then the only row of g, and the others stay as they are.
LEMMA RowWritten ==
  ASSUME Kept, MovedAccounts, NEW x \in Groups, NEW g \in Groups, NEW r, Rewritten(x, g, r)
  PROVE  Kept' /\ MovedAccounts'
<1> USE DEF Rewritten
<1>1. \A y \in Groups : table'[y] = IF y = x THEN r ELSE table[y]
  BY DEF Kept, TypeOK
<1>2. r # None
  BY TableAssumption
<1>3. Kept'
  BY <1>1, <1>2, TableAssumption
     DEF Kept, TypeOK, Untouched, Deployed, AllImported, MovedAccounts
<1>4. RedisBehind'
  <2> SUFFICES ASSUME NEW b \in Banners, b \in imported
               PROVE  table'[b] # None /\ redis[b] <= table'[b].version
    BY DEF RedisBehind
  <2>1. b \in Groups /\ table[b] # None /\ redis[b] <= table[b].version
    BY TableAssumption DEF MovedAccounts, RedisBehind
  <2>2. redis[b] \in Nat /\ table[b].version \in Nat /\ r.version \in Nat
    BY <2>1 DEF Kept, TypeOK, Snapshots
  <2> QED BY <1>1, <1>2, <2>1, <2>2
<1>5. ASSUME NEW l \in Groups, RowsOf(l)' = {}
      PROVE  draws'[l] = 0 /\ (table'[l] # None => l \in moved')
  <2>1. l # g
    BY <1>1, <1>2, <1>5 DEF RowsOf
  <2>2. RowsOf(l) \subseteq {x}
    BY <1>1, <1>5 DEF RowsOf
  <2> QED BY <2>1, <2>2
<1>6. \A y \in Groups : table'[y] # None => /\ table'[y].group \in Groups
                                          /\ table'[y].version = draws'[table'[y].group]
  BY <1>1 DEF MovedAccounts
<1>7. \A y, z \in Groups : table'[y] # None /\ table'[z] # None
                           /\ table'[y].group = table'[z].group => y = z
  BY <1>1 DEF MovedAccounts
<1>8. engines' = {"group"} /\ schema' = "enforce"
  BY DEF MovedAccounts
<1> QED BY <1>3, <1>4, <1>5, <1>6, <1>7, <1>8 DEF MovedAccounts

\* README.md:157: the pity of a group, moved to a group that has none.
LEMMA MoveKeepsTable ==
  ASSUME Kept, MovedAccounts, NEW a \in Groups, NEW g \in Groups, Move(a, g)
  PROVE  Kept' /\ MovedAccounts'
<1>1. PICK x \in Groups : /\ RowsOf(a) = {x} /\ table[x] \in Snapshots
                          /\ table[x].group = a /\ table[x].version = draws[a]
  BY OneRow DEF Move
<1>2. PICK r : r = [table[x] EXCEPT !.group = g]
  OBVIOUS
<1>3. r \in Snapshots /\ r.group = g /\ r.version = draws[a]
  BY <1>1, <1>2 DEF Snapshots
<1>4. table' = [table EXCEPT ![x] = r]
  BY <1>1, <1>2 DEF Move, Kept, TypeOK
<1>5. /\ draws' = [draws EXCEPT ![g] = draws[a], ![a] = 0] /\ a # g /\ RowsOf(g) = {}
      /\ moved' = moved \cup {a}
      /\ UNCHANGED <<schema, engines, redis, redisOps, ops, imported>>
  BY DEF Move
<1>6. \A l \in Groups : draws'[l] = IF l = a THEN 0 ELSE IF l = g THEN draws[a] ELSE draws[l]
  BY <1>5 DEF Kept, TypeOK
<1>7. draws' \in [Groups -> Nat]
  BY <1>5 DEF Kept, TypeOK
<1>8. ASSUME NEW y \in Groups, y # x, table[y] # None
      PROVE  table[y].group # g /\ draws'[table[y].group] = draws[table[y].group]
  <2>1. table[y].group \in Groups /\ table[y].group # g
    BY <1>5, <1>8 DEF RowsOf, MovedAccounts
  <2>2. table[y].group # a
    BY <1>1, <1>8 DEF RowsOf
  <2> QED BY <1>6, <2>1, <2>2
<1>9. ASSUME NEW l \in Groups, RowsOf(l) \subseteq {x}, l # g
      PROVE  draws'[l] = 0 /\ (table'[l] # None => l \in moved')
  <2>1. CASE l = a
    BY <1>5, <1>6, <2>1
  <2>2. CASE l # a
    <3>1. RowsOf(l) = {}
      BY <1>1, <1>9, <2>2 DEF RowsOf
    <3>2. draws[l] = 0 /\ (table[l] # None => l \in moved)
      BY <3>1 DEF MovedAccounts
    <3>3. table'[l] # None => table[l] # None
      BY <1>1, <1>4, TableAssumption DEF Kept, TypeOK
    <3> QED BY <1>5, <1>6, <1>9, <2>2, <3>2, <3>3
  <2> QED BY <2>1, <2>2
<1>10. /\ r.version = draws'[g] /\ table[x].version <= r.version
       /\ moved \subseteq moved' /\ moved' \subseteq Groups
  BY <1>1, <1>3, <1>5, <1>6 DEF Kept, TypeOK
<1>11. /\ \A y \in Groups : y # x /\ table[y] # None =>
             table[y].group # g /\ draws'[table[y].group] = draws[table[y].group]
       /\ \A l \in Groups : RowsOf(l) \subseteq {x} /\ l # g =>
             draws'[l] = 0 /\ (table'[l] # None => l \in moved')
  BY <1>8, <1>9
<1>12. Rewritten(x, g, r)
  BY <1>3, <1>4, <1>5, <1>7, <1>10, <1>11 DEF Rewritten
<1> QED BY <1>12, RowWritten

\* postgres_state.py:653: a draw, in the row of its group or in a new one.
LEMMA DrawKeepsTable ==
  ASSUME Kept, MovedAccounts, NEW g \in Groups, GroupDraw(g)
  PROVE  Kept' /\ MovedAccounts'
<1>1. /\ Insertable(g) /\ draws' = [draws EXCEPT ![g] = @ + 1]
      /\ UNCHANGED <<schema, engines, redis, redisOps, ops, imported, moved>>
  BY DEF GroupDraw, Draw
<1>2. /\ draws' \in [Groups -> Nat] /\ draws'[g] = draws[g] + 1 /\ draws[g] \in Nat
      /\ \A l \in Groups : l # g => draws'[l] = draws[l]
  BY <1>1 DEF Kept, TypeOK
<1>3. ASSUME NEW x \in Groups, NEW r \in Snapshots, r.group = g, r.version = draws[g] + 1,
             table' = [table EXCEPT ![x] = r], RowsOf(g) \subseteq {x},
             table[x] # None => table[x].version <= r.version,
             \A l \in Groups : l # g => x \notin RowsOf(l), x = g \/ table[x] # None
      PROVE  Kept' /\ MovedAccounts'
  <2>1. ASSUME NEW y \in Groups, y # x, table[y] # None
        PROVE  table[y].group # g /\ draws'[table[y].group] = draws[table[y].group]
    BY <1>2, <1>3, <2>1 DEF RowsOf, MovedAccounts
  <2>2. ASSUME NEW l \in Groups, RowsOf(l) \subseteq {x}, l # g
        PROVE  draws'[l] = 0 /\ (table'[l] # None => l \in moved')
    <3>1. RowsOf(l) = {}
      BY <1>3, <2>2
    <3>2. draws[l] = 0 /\ (table[l] # None => l \in moved)
      BY <3>1 DEF MovedAccounts
    <3>3. table'[l] # None => table[l] # None
      BY <1>3, <2>2 DEF Kept, TypeOK
    <3> QED BY <1>1, <1>2, <2>2, <3>2, <3>3
  <2>3. r.version = draws'[g] /\ moved \subseteq moved'
        /\ moved' \subseteq Groups
    BY <1>1, <1>2, <1>3 DEF Kept, TypeOK
  <2>4. /\ \A y \in Groups : y # x /\ table[y] # None =>
              table[y].group # g /\ draws'[table[y].group] = draws[table[y].group]
        /\ \A l \in Groups : RowsOf(l) \subseteq {x} /\ l # g =>
              draws'[l] = 0 /\ (table'[l] # None => l \in moved')
    BY <2>1, <2>2
  <2>5. Rewritten(x, g, r)
    BY <1>1, <1>2, <1>3, <2>3, <2>4 DEF Rewritten
  <2> QED BY <1>3, <2>5, RowWritten
<1>4. CASE RowsOf(g) = {}
  <2>1. PICK r : r = [group |-> g, version |-> 1]
    OBVIOUS
  <2>2. draws[g] = 0 /\ table[g] = None
    BY <1>1, <1>4 DEF Insertable, MovedAccounts
  <2>3. r \in Snapshots /\ r.group = g /\ r.version = draws[g] + 1
    BY <2>1, <2>2 DEF Snapshots
  <2>4. table' = [table EXCEPT ![g] = r]
    BY <1>4, <2>1 DEF GroupDraw
  <2>5. \A l \in Groups : g \notin RowsOf(l)
    BY <2>2 DEF RowsOf
  <2> QED BY <1>3, <1>4, <2>2, <2>3, <2>4, <2>5
<1>5. CASE RowsOf(g) # {}
  <2>1. PICK x \in Groups : /\ RowsOf(g) = {x} /\ table[x] \in Snapshots
                            /\ table[x].group = g /\ table[x].version = draws[g]
    BY <1>5, OneRow
  <2>2. PICK r : r = [table[x] EXCEPT !.version = @ + 1]
    OBVIOUS
  <2>3. r \in Snapshots /\ r.group = g /\ r.version = draws[g] + 1
    BY <1>2, <2>1, <2>2 DEF Snapshots
  <2>4. table' = [table EXCEPT ![x] = r]
    BY <1>5, <2>1, <2>2 DEF GroupDraw, Kept, TypeOK
  <2>5. table[x] # None /\ \A l \in Groups : l # g => x \notin RowsOf(l)
    BY <2>1 DEF RowsOf
  <2>6. table[x].version <= r.version
    BY <1>2, <2>1, <2>3
  <2> QED BY <1>3, <2>1, <2>3, <2>4, <2>5, <2>6
<1> QED BY <1>4, <1>5

\* From the first move on the migrations and the engines of before are history.
LEMMA MovedStep ==
  ASSUME Kept, MovedAccounts, moved # {}, [Next]_vars
  PROVE  Kept' /\ MovedAccounts'
<1> DEFINE Same == UNCHANGED <<schema, engines, redis, redisOps, table, draws, moved>>
<1>1. ASSUME Same, UNCHANGED <<ops, imported>> PROVE Kept' /\ MovedAccounts'
  BY <1>1 DEF Kept, TypeOK, Untouched, Deployed, AllImported, MovedAccounts, RedisBehind, RowsOf
<1>2. engines = {"group"} /\ schema = "enforce" /\ RedisBehind
  BY DEF MovedAccounts
<1>3. ASSUME NEW k \in Ops, NEW s \in OpStatuses, EngineOperation(k, s)
      PROVE  Kept' /\ MovedAccounts'
  <2>1. Same /\ UNCHANGED imported /\ ops' = [ops EXCEPT ![k] = s]
    BY <1>3 DEF EngineOperation
  <2>2. Kept'
    BY <2>1, TableAssumption DEF Kept, TypeOK, Untouched, Deployed, AllImported, MovedAccounts
  <2> QED BY <2>1, <2>2 DEF MovedAccounts, RedisBehind, RowsOf
<1>4. CASE Import
  <2>1. UNCHANGED <<table, ops>>
    BY <1>2, <1>4, ImportIsIdle
  <2>2. AllImported
    BY <1>2 DEF Kept, Deployed
  <2>3. imported' = imported
    BY <1>4, <2>2 DEF Import, ImportPity, ImportOperation, AllImported
  <2> QED BY <1>1, <1>4, <2>1, <2>3 DEF Import
<1>5. ASSUME NEW e \in SUBSET {"banner", "group"}, DeployEngines(e)
      PROVE  Kept' /\ MovedAccounts'
  <2>1. UNCHANGED <<schema, redis, redisOps, table, ops, imported, draws, moved>>
        /\ engines' = e
    BY <1>5 DEF DeployEngines
  <2>2. e = {"group"}
    BY <1>5 DEF DeployEngines
  <2> QED BY <1>1, <1>2, <2>1, <2>2
<1>6. ~Migration /\ ~Pause
  BY <1>2 DEF Migration, CreateTable, Expand, Backfill, Enforce, Revert, Migrate, Pause
<1>7. ASSUME NEW b \in Banners PROVE ~RedisDraw(b) /\ ~BannerDraw(b)
  BY <1>2 DEF RedisDraw, BannerDraw
<1>8. ASSUME NEW k \in Ops, NEW s \in OpStatuses PROVE ~RedisOperation(k, s)
  BY <1>2 DEF RedisOperation
<1>9. CASE UNCHANGED vars
  BY <1>1, <1>9 DEF vars
<1> QED
  BY <1>3, <1>4, <1>5, <1>6, <1>7, <1>8, <1>9, MoveKeepsTable, DrawKeepsTable DEF Next

----------------------------------------------------------------------------
\* Every step keeps the account of the draws.
LEMMA TableStep ==
  ASSUME TableInvariant, [Next]_vars
  PROVE  TableInvariant'
<1>1. ASSUME Unmoved, NEW x \in Groups, NEW g \in Groups, Move(x, g) PROVE TableInvariant'
  <2>1. Kept /\ MovedAccounts /\ moved' # {}
    BY <1>1, UnmovedAccounts DEF Move, Unmoved
  <2> QED BY <1>1, <2>1, MoveKeepsTable DEF TableInvariant
<1>2. CASE Unmoved /\ ~\E x, g \in Groups : Move(x, g)
  BY <1>2, UnmovedStep DEF TableInvariant
<1>3. CASE Kept /\ MovedAccounts /\ moved # {}
  <2>1. moved' # {}
    BY <1>3 DEF Next, RedisDraw, BannerDraw, GroupDraw, RedisOperation, EngineOperation,
         Migration, Import, Pause, DeployEngines, Move, vars
  <2> QED BY <1>3, <2>1, MovedStep DEF TableInvariant
<1> QED BY <1>1, <1>2, <1>3 DEF TableInvariant

\* postgres_state.py:653: in either case this engine finds the draws of a group.
LEMMA DrawsFound ==
  ASSUME TableInvariant, "group" \in engines, NEW g \in Groups
  PROVE  GroupVersion(g) = draws[g] /\ (Insertable(g) \/ g \in moved)
<1>1. CASE Unmoved
  BY <1>1, GroupFound
<1>2. CASE Kept /\ MovedAccounts
  BY <1>2, OneRow DEF GroupVersion, Insertable
<1> QED BY <1>1, <1>2 DEF TableInvariant

\* What else the properties need of either case.
LEMMA TableFacts ==
  ASSUME TableInvariant
  PROVE  /\ Kept /\ RedisBehind
         /\ "banner" \in engines \/ schema # "enforce" => Unmoved
<1>1. CASE Unmoved
  BY <1>1, UnmovedAccounts DEF Unmoved
<1>2. CASE Kept /\ MovedAccounts
  BY <1>2 DEF MovedAccounts
<1> QED BY <1>1, <1>2 DEF TableInvariant

----------------------------------------------------------------------------
\* Nothing is lost, doubled or hidden between the stores.
THEOREM TableInductive == Spec => []TableInvariant
<1>1. Init => Unmoved
  BY TableAssumption
     DEF Init, Unmoved, Kept, TypeOK, Untouched, Deployed, AllImported, RowAccounts, Schemas
<1>2. Init => TableInvariant
  BY <1>1 DEF TableInvariant
<1> QED BY <1>2, TableStep, PTL DEF Spec

\* README.md:157: every engine that serves sees all draws of a group.
THEOREM PityIsCarriedOver == Spec => []PityCarriedOver
<1>1. TableInvariant => PityCarriedOver
  <2> SUFFICES ASSUME TableInvariant PROVE PityCarriedOver
    OBVIOUS
  <2>1. ASSUME "banner" \in engines, NEW b \in Banners PROVE BannerVersion(b) = draws[b]
    BY <2>1, TableFacts, TableAssumption
       DEF BannerVersion, Unmoved, Kept, TypeOK, Deployed, AllImported, RowAccounts
  <2>2. ASSUME "group" \in engines, NEW g \in Groups PROVE GroupVersion(g) = draws[g]
    BY <2>2, DrawsFound
  <2> QED BY <2>1, <2>2 DEF PityCarriedOver
<1> QED BY <1>1, TableInductive, PTL

\* migrations 000004 to 000006: the last one never fails on a row of its predecessors.
THEOREM EnforcementSucceeds == Spec => []EnforceSucceeds
<1>1. TableInvariant => EnforceSucceeds
  <2> SUFFICES ASSUME TableInvariant, schema = "backfill" PROVE Compliant
    BY DEF EnforceSucceeds
  <2>1. Unmoved
    BY TableFacts
  <2>2. \A x \in Groups : table[x] # None => table[x].group # None
    BY <2>1, TableAssumption DEF Unmoved, RowAccounts
  <2>3. \A g \in Groups : \A x, y \in RowsOf(g) : x = y
    BY <2>1, OwnRow
  <2> QED BY <2>2, <2>3 DEF Compliant
<1> QED BY <1>1, TableInductive, PTL

\* migrations 000004 and 000005, postgres_state.py:659: which draws are refused.
THEOREM DrawsAreAccepted == Spec => []DrawsAccepted
<1>1. TableInvariant => DrawsAccepted
  <2> SUFFICES ASSUME TableInvariant PROVE DrawsAccepted
    OBVIOUS
  <2>1. ASSUME "banner" \in engines, NEW b \in Banners
        PROVE  Writable(AfterDraw(b)) \/ (schema = "expand" /\ table[b] # None)
    BY <2>1, TableFacts, TableAssumption
       DEF Unmoved, Kept, TypeOK, RowAccounts, Writable, AfterDraw, GroupFilled, Schemas
  <2>2. ASSUME "group" \in engines, NEW g \in Groups PROVE Insertable(g) \/ g \in moved
    BY <2>2, DrawsFound
  <2> QED BY <2>1, <2>2 DEF DrawsAccepted
<1> QED BY <1>1, TableInductive, PTL

\* README.md:116: running the tool again changes nothing.
THEOREM RerunIsSafe == Spec => SafeRerun
<1>1. TableInvariant /\ [Next]_vars => [engines # {} /\ Import => UNCHANGED <<table, ops>>]_vars
  BY TableFacts, ImportIsIdle
<1> QED BY <1>1, TableInductive, PTL DEF Spec, SafeRerun
=============================================================================
