---------------------------- MODULE GachaEngine ----------------------------
(***************************************************************************)
(* perform_pulls (engine.py) over the pity of one user in one pity group,  *)
(* which several banners may share.  A batch starts from the committed     *)
(* snapshot, is drawn item by item, and is committed or dropped whole: the *)
(* concurrency behind that is the business of PullService.                 *)
(*                                                                         *)
(* The random numbers are abstracted to what they can decide: a roll       *)
(* against a rate may hit if the rate is positive and may miss if it is    *)
(* below One.  Rates are integers, parts of One, as in the *_ppm fields;   *)
(* the rounding of the floats computed from them is left out.              *)
(***************************************************************************)
EXTENDS Integers

CONSTANTS
  Banners,   \* banners of the group
  Config,    \* Config[b]: its BannerConfig
  Items,     \* all_items of the catalog
  RarityOf,  \* rarity of each item
  One,       \* the certain rate, 1 000 000 ppm
  Counts,    \* pulls in a batch
  Longest,   \* Longest[r]: no banner has a longer hard pity for rarity r
  MaxFour,   \* bound: no batch starts with since_four above it
  None

Rarities == {3, 4, 5}

\* FeaturedRule; keyed: guarantee_state_key is guaranteed_featured_five.
FeaturedRules == [rate : Int, sets : BOOLEAN, keyed : BOOLEAN]

\* PityRule and RarityRate of a rarity.
PityRules == [hard : Int, soft : Int \cup {None}, inc : Int, base : Int]

BannerConfigs == [pool     : SUBSET Items,
                  featured : [Rarities -> SUBSET Items],
                  rule     : [Rarities -> FeaturedRules \cup {None}],
                  pity     : [{4, 5} -> PityRules],
                  resets   : BOOLEAN]

PityState == [five : Nat, four : Nat, guaranteed : BOOLEAN]

create_initial_pity == [five |-> 0, four |-> 0, guaranteed |-> FALSE]

\* What the records of all committed pulls say: pulls since the last five-star,
\* three-stars in a row, and five-stars in a row that missed their banner's item.
Tallies == [dry : Nat, threes : Nat, misses : Nat]

Fresh == [dry |-> 0, threes |-> 0, misses |-> 0]

VARIABLES
  pity,     \* committed snapshot
  banner,   \* banner of the batch being drawn, None between batches
  left,     \* pulls it has still to make
  current,  \* its current_pity
  drawn,    \* item drawn last, None before the first
  told,     \* history: tally of the committed records
  seen      \* history: the same with the records of the batch

vars == <<pity, banner, left, current, drawn, told, seen>>

\* A miss counts only on a banner that promises its item for the next time.
Promises(b) == Config[b].rule[5] # None /\ Config[b].rule[5].sets

ASSUME EngineAssumption ==
  /\ None \notin Banners \cup Items \cup Int \cup FeaturedRules
  /\ RarityOf \in [Items -> Rarities]
  /\ One \in Nat \ {0}
  /\ Counts \subseteq Nat \ {0}
  /\ Longest \in [{4, 5} -> Nat \ {0}]
  /\ MaxFour \in Nat
  /\ Config \in [Banners -> BannerConfigs]
  /\ \A b \in Banners :
       /\ \A r \in {4, 5} : Config[b].pity[r].hard <= Longest[r]
       /\ \A r \in Rarities : \A i \in Config[b].featured[r] : RarityOf[i] = r

----------------------------------------------------------------------------
(* Rolls *)

\* get_rarity_rate
Rate(b, r, at) ==
  LET rule == Config[b].pity[r]
      soft == rule.base + (at - rule.soft + 1) * rule.inc
  IN IF rule.soft = None THEN rule.base
     ELSE IF at < rule.soft THEN rule.base
     ELSE IF soft > One THEN One ELSE soft

At(p, r) == 1 + IF r = 5 THEN p.five ELSE p.four

\* Slip: hard pity one pull late.
DueLate(b, r, p) == At(p, r) > Config[b].pity[r].hard

Due(b, r, p) == At(p, r) >= Config[b].pity[r].hard

MayHit(b, r, p)  == Due(b, r, p) \/ Rate(b, r, At(p, r)) > 0
MayMiss(b, r, p) == ~Due(b, r, p) /\ Rate(b, r, At(p, r)) < One

\* roll_rarity: the five-star roll and its hard pity come first.
roll_rarity(b, p) ==
  {r \in Rarities : /\ r < 5 => MayMiss(b, 5, p)
                    /\ r < 4 => MayMiss(b, 4, p)
                    /\ r > 3 => MayHit(b, r, p)}

\* Slip: no items but the banner's own.
OwnPoolOnly(b, r, excluded) == {i \in Config[b].pool : RarityOf[i] = r} \ excluded

\* pool_for_rarity: the banner's own items, or else the whole catalog's.
pool_for_rarity(b, r, excluded) ==
  LET of(pool) == {i \in pool : RarityOf[i] = r} \ excluded
  IN IF of(Config[b].pool) # {} THEN of(Config[b].pool) ELSE of(Items)

\* Slip: the guarantee is not looked up.
NoGuarantee(b, r, p) == FALSE

has_featured_guarantee(b, r, p) == Config[b].rule[r].keyed /\ p.guaranteed

\* roll_item: the pools an item of rarity r may be picked from.
roll_item(b, r, p) ==
  LET rule == Config[b].rule[r]
      featured == Config[b].featured[r]
      sure == has_featured_guarantee(b, r, p)
  IN IF featured = {} \/ rule = None THEN {pool_for_rarity(b, r, {})}
     ELSE {pool \in {featured, pool_for_rarity(b, r, IF rule.sets THEN featured ELSE {})} :
             \/ pool = featured /\ (sure \/ rule.rate > 0)
             \/ /\ pool = pool_for_rarity(b, r, IF rule.sets THEN featured ELSE {})
                /\ ~sure /\ rule.rate < One}

is_featured_item(b, i) == i \in Config[b].featured[RarityOf[i]]

\* Slip: a five-star leaves the guarantee as it was.
GuaranteeStays(b, p, i) == p.guaranteed

next_featured_guarantee(b, p, i) == Promises(b) /\ ~is_featured_item(b, i)

\* The counters after a pull.
NextPity(b, p, r, i) ==
  CASE r = 5 -> [five |-> 0, four |-> IF Config[b].resets THEN 0 ELSE p.four + 1,
                 guaranteed |-> next_featured_guarantee(b, p, i)]
    [] r = 4 -> [p EXCEPT !.five = @ + 1, !.four = 0]
    [] r = 3 -> [p EXCEPT !.five = @ + 1, !.four = @ + 1]

----------------------------------------------------------------------------
(* A batch *)

\* The tally of a player who reads the record of item i from banner b.
Tally(t, b, i) ==
  [dry    |-> IF RarityOf[i] = 5 THEN 0 ELSE t.dry + 1,
   threes |-> IF RarityOf[i] = 3 THEN t.threes + 1 ELSE 0,
   misses |-> IF RarityOf[i] # 5 THEN t.misses
              ELSE IF Promises(b) /\ ~is_featured_item(b, i) THEN t.misses + 1 ELSE 0]

Begin(b, n) ==
  /\ banner = None /\ pity.four <= MaxFour
  /\ banner' = b /\ left' = n /\ current' = pity /\ drawn' = None /\ seen' = told
  /\ UNCHANGED <<pity, told>>

\* Slip: the loop runs once more than it was asked to.
OnceMore == banner # None /\ left >= 0

InLoop == banner # None /\ left > 0

Pull ==
  /\ InLoop
  /\ \E r \in roll_rarity(banner, current) :
       \E pool \in roll_item(banner, r, current) : \E i \in pool :
         /\ current' = NextPity(banner, current, r, i)
         /\ drawn' = i
         /\ seen' = Tally(seen, banner, i)
  /\ left' = left - 1
  /\ UNCHANGED <<pity, banner, told>>

EndBatch == /\ banner' = None /\ left' = 0 /\ drawn' = None
            /\ current' = create_initial_pity /\ seen' = Fresh

\* "cannot pick from an empty gacha pool"
PickFails ==
  /\ InLoop
  /\ \E r \in roll_rarity(banner, current) : {} \in roll_item(banner, r, current)
  /\ EndBatch /\ UNCHANGED <<pity, told>>

\* Slip: the next batch does not start from where this one ended.
CommitKeepsPity ==
  /\ banner # None /\ left = 0
  /\ told' = seen /\ EndBatch /\ UNCHANGED pity

Commit ==
  /\ banner # None /\ left = 0
  /\ pity' = current /\ told' = seen
  /\ EndBatch

\* The version has moved on, the fence has closed or the commit failed.
Drop ==
  /\ banner # None /\ left = 0
  /\ EndBatch /\ UNCHANGED <<pity, told>>

Init == /\ pity = create_initial_pity /\ told = Fresh
        /\ banner = None /\ left = 0 /\ drawn = None
        /\ current = create_initial_pity /\ seen = Fresh

Next == \/ \E b \in Banners, n \in Counts : Begin(b, n)
        \/ Pull \/ PickFails \/ Commit \/ Drop

Spec == Init /\ [][Next]_vars

----------------------------------------------------------------------------
(* Evidence *)

\* Slip: the catalog's items of a rarity the pool lacks are not listed.
PoolItems(b) == Config[b].pool

\* The items banner_config_evidence lists as able to come out of a pull.
effective_items(b) ==
  Config[b].pool \cup
    {i \in Items : ~\E j \in Config[b].pool : RarityOf[j] = RarityOf[i]}

----------------------------------------------------------------------------
(* Properties *)

\* Type invariant: counters never go below zero, and what a batch has drawn is an
\* item of the catalog.
TypeOK == /\ pity \in PityState /\ current \in PityState
          /\ told \in Tallies /\ seen \in Tallies
          /\ banner \in Banners \cup {None} /\ left \in Nat
          /\ drawn \in Items \cup {None}

\* However batches of any size are mixed over the banners of the group, and
\* however many were dropped in between, the records of a user never show as many
\* pulls in a row without a five-star as the longest hard pity of the group.
FiveWithinHardPity == told.dry < Longest[5] /\ seen.dry < Longest[5]

\* The same for three-stars in a row, although a five-star that does not reset the
\* lower rarity, or that pre-empts a due four-star, moves the counter too.
FourWithinHardPity == told.threes < Longest[4] /\ seen.threes < Longest[4]

\* catalog.py:113: a five-star that was not the featured one is followed by one
\* that is; two misses in a row never happen, across batches and banners.
GuaranteeHonoured == told.misses <= 1 /\ seen.misses <= 1

\* Counters p stand for records t: exactly the pulls without a five-star, and at
\* least the three-stars in a row.
Counted(p, t) == p.five = t.dry /\ t.threes <= p.four

\* Records t hold at most one promise that is still open, and p remembers it.
Promised(p, t) == t.misses <= 1 /\ (t.misses = 1 => p.guaranteed)

\* The counters carry what the records say, before a batch and within it.
CountersAgree == /\ Counted(pity, told) /\ Counted(current, seen)
                 /\ Promised(pity, told) /\ Promised(current, seen)

\* A banner that promises its item has one, and a key to remember the promise by:
\* no check of the catalog demands it, and only the guarantee depends on it.
PromisesKeyed ==
  \A b \in Banners : Promises(b) => /\ Config[b].rule[5].keyed
                                    /\ Config[b].featured[5] # {}

\* pull_audit.py:20: the evidence that is hashed and kept with a draw lists every
\* item that could have come out of it.
EvidenceCovers == banner # None /\ drawn # None => drawn \in effective_items(banner)

\* A roll for rarity r may be lost, and then picks among the other items.
MayLose(b, r) == /\ Config[b].featured[r] # {} /\ Config[b].rule[r] # None
                 /\ Config[b].rule[r].sets /\ Config[b].rule[r].rate < One

\* The catalog has an item for every roll on banner b, in the banner's pool or not.
Stocked(b) == \A r \in Rarities :
                \E i \in Items : /\ RarityOf[i] = r
                                 /\ MayLose(b, r) => i \notin Config[b].featured[r]

\* Action property.  A batch, which is paid for by then, is given up half-way only
\* on a banner the catalog is not stocked for: neither what the banner's own pool
\* lacks, nor a pity or a guarantee brought along from another banner, does it.
BatchesComplete == [][InLoop /\ banner' = None => ~Stocked(banner)]_vars
=============================================================================
