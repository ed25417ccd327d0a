------------------------- MODULE GachaEngineProofs -------------------------
(* The promises of a pity group, for every catalog and every batch size. *)
EXTENDS GachaEngine, TLAPS

\* What a pull needs of the counters it starts from.
StateOK(p, t) == /\ p \in PityState /\ t \in Tallies
                 /\ Counted(p, t)
                 /\ t.dry < Longest[5] /\ t.threes < Longest[4]

BatchOK == StateOK(pity, told) /\ StateOK(current, seen)

LocalsOK == /\ banner \in Banners \cup {None} /\ left \in Nat
            /\ drawn \in Items \cup {None}

GachaInvariant == BatchOK /\ LocalsOK

PromiseInvariant == Promised(pity, told) /\ Promised(current, seen)

----------------------------------------------------------------------------
\* pool_for_rarity (catalog_config.py:73): what it returns is of the catalog, of
\* the rarity asked for and not among the excluded.
LEMMA PoolItemsFit ==
  ASSUME NEW b \in Banners, NEW r \in Rarities, NEW excluded,
         NEW i \in pool_for_rarity(b, r, excluded)
  PROVE  i \in Items /\ RarityOf[i] = r /\ i \notin excluded
<1>1. Config[b].pool \subseteq Items  BY EngineAssumption DEF BannerConfigs
<1> QED  BY <1>1 DEF pool_for_rarity

\* roll_item (engine.py:119): the item is of the catalog and of the rarity rolled.
LEMMA PickedItemFits ==
  ASSUME NEW b \in Banners, NEW r \in Rarities, NEW p \in PityState,
         NEW pool \in roll_item(b, r, p), NEW i \in pool
  PROVE  i \in Items /\ RarityOf[i] = r
<1>1. Config[b].featured[r] \subseteq Items  BY EngineAssumption DEF BannerConfigs
<1>2. CASE i \in Config[b].featured[r]  BY <1>1, <1>2, EngineAssumption
<1>3. CASE i \notin Config[b].featured[r]
  <2>1. PICK excluded : i \in pool_for_rarity(b, r, excluded)  BY <1>3 DEF roll_item
  <2> QED  BY <2>1, PoolItemsFit
<1> QED  BY <1>2, <1>3

\* engine.py:92: below its hard pity only; a four-star counter may run past it.
LEMMA MissIsEarly ==
  ASSUME NEW b \in Banners, NEW r \in {4, 5}, NEW p \in PityState, MayMiss(b, r, p)
  PROVE  At(p, r) < Longest[r]
<1>1. /\ Config[b].pity[r].hard \in Int /\ Config[b].pity[r].hard <= Longest[r]
  BY EngineAssumption DEF BannerConfigs, PityRules
<1>2. At(p, r) \in Int /\ Longest[r] \in Nat  BY EngineAssumption DEF At, PityState
<1>3. ~(At(p, r) >= Config[b].pity[r].hard)  BY DEF MayMiss, Due
<1> QED  BY <1>1, <1>2, <1>3

\* engine.py:142: with the guarantee set, a banner that promises its item keeps it.
LEMMA GuaranteePicksFeatured ==
  ASSUME PromisesKeyed, NEW b \in Banners, NEW p \in PityState, Promises(b), p.guaranteed,
         NEW pool \in roll_item(b, 5, p), NEW i \in pool
  PROVE  i \in Config[b].featured[5]
<1>1. Config[b].rule[5].keyed /\ Config[b].featured[5] # {} /\ Config[b].rule[5] # None
  BY DEF PromisesKeyed, Promises
<1>2. has_featured_guarantee(b, 5, p)  BY <1>1 DEF has_featured_guarantee
<1>3. pool = Config[b].featured[5]  BY <1>1, <1>2 DEF roll_item
<1> QED  BY <1>3

\* One pull keeps counters and records in step (engine.py:36-59).
LEMMA PullCounts ==
  ASSUME NEW b \in Banners, NEW p, NEW t, StateOK(p, t),
         NEW r \in roll_rarity(b, p), NEW pool \in roll_item(b, r, p), NEW i \in pool
  PROVE  StateOK(NextPity(b, p, r, i), Tally(t, b, i)) /\ i \in Items
<1> DEFINE q == NextPity(b, p, r, i)
           u == Tally(t, b, i)
<1>1. p \in PityState /\ t \in Tallies /\ Counted(p, t) /\ r \in Rarities
  BY DEF StateOK, roll_rarity
<1>2. i \in Items /\ RarityOf[i] = r  BY <1>1, PickedItemFits
<1>3. /\ p.five \in Nat /\ p.four \in Nat /\ p.guaranteed \in BOOLEAN
      /\ t.dry \in Nat /\ t.threes \in Nat /\ t.misses \in Nat
  BY <1>1 DEF PityState, Tallies
<1>4. Longest[5] \in Nat \ {0} /\ Longest[4] \in Nat \ {0}  BY EngineAssumption
<1>5. p.five = t.dry /\ t.threes <= p.four  BY <1>1 DEF Counted
<1>6. CASE r = 5
  <2>1. q = [five |-> 0, four |-> IF Config[b].resets THEN 0 ELSE p.four + 1,
             guaranteed |-> next_featured_guarantee(b, p, i)]
    BY <1>6 DEF NextPity
  <2>2. next_featured_guarantee(b, p, i) \in BOOLEAN
    BY EngineAssumption DEF next_featured_guarantee, Promises, BannerConfigs, FeaturedRules
  <2>3. q \in PityState  BY <2>1, <2>2, <1>3 DEF PityState
  <2>4. q.five = 0 /\ q.four \in Nat  BY <2>1, <2>3 DEF PityState
  <2>5. u.dry = 0 /\ u.threes = 0 /\ u \in Tallies
    BY <1>2, <1>3, <1>6 DEF Tally, Tallies
  <2> QED  BY <2>3, <2>4, <2>5, <1>2, <1>4 DEF StateOK, Counted
<1>7. CASE r # 5
  <2>1. t.dry + 1 < Longest[5]
    <3>1. MayMiss(b, 5, p)  BY <1>1, <1>7 DEF roll_rarity, Rarities
    <3> QED  BY <3>1, <1>1, <1>3, <1>5, MissIsEarly DEF At
  <2>2. u.dry = t.dry + 1
        /\ u.threes = IF r = 3 THEN t.threes + 1 ELSE 0
    BY <1>2, <1>7 DEF Tally
  <2>3. u \in Tallies  BY <2>2, <1>2, <1>3, <1>7 DEF Tally, Tallies
  <2>4. PICK m \in Nat, n \in Nat : /\ m = p.five + 1
                                   /\ n = IF r = 3 THEN p.four + 1 ELSE 0
    BY <1>3
  <2>5. q = [p EXCEPT !.five = m, !.four = n]
    BY <2>4, <1>1, <1>7 DEF NextPity, Rarities
  <2>6. q \in PityState /\ q.five = m /\ q.four = n
    <3> HIDE DEF q
    <3> QED  BY <2>5, <1>1 DEF PityState
  <2>7. r = 3 => p.four + 1 < Longest[4]
    <3> SUFFICES ASSUME r = 3 PROVE p.four + 1 < Longest[4]  OBVIOUS
    <3>1. MayMiss(b, 4, p)  BY DEF roll_rarity
    <3> QED  BY <3>1, <1>1, <1>3, <1>4, MissIsEarly DEF At
  <2>8. u.threes <= q.four /\ u.threes < Longest[4]
    BY <2>2, <2>4, <2>6, <2>7, <1>3, <1>4, <1>5
  <2>9. q.five = u.dry  BY <2>2, <2>4, <2>6, <1>5
  <2> QED  BY <2>1, <2>2, <2>3, <2>6, <2>8, <2>9, <1>2 DEF StateOK, Counted
<1> QED  BY <1>6, <1>7

\* engine.py:142-154: one pull honours the promise that is open, or opens one.
LEMMA PullKeepsPromise ==
  ASSUME PromisesKeyed, NEW b \in Banners, NEW p, NEW t, StateOK(p, t), Promised(p, t),
         NEW r \in roll_rarity(b, p), NEW pool \in roll_item(b, r, p), NEW i \in pool
  PROVE  Promised(NextPity(b, p, r, i), Tally(t, b, i))
<1> DEFINE q == NextPity(b, p, r, i)
           u == Tally(t, b, i)
<1>1. p \in PityState /\ r \in Rarities /\ t.misses \in Nat
  BY DEF StateOK, roll_rarity, Tallies
<1>2. i \in Items /\ RarityOf[i] = r  BY <1>1, PickedItemFits
<1>3. t.misses <= 1 /\ (t.misses = 1 => p.guaranteed)  BY DEF Promised
<1>4. CASE r = 5 /\ Promises(b) /\ ~is_featured_item(b, i)
  <2>1. ~p.guaranteed  BY <1>1, <1>2, <1>4, GuaranteePicksFeatured DEF is_featured_item
  <2>2. u.misses = 1  BY <2>1, <1>1, <1>2, <1>3, <1>4 DEF Tally
  <2>3. next_featured_guarantee(b, p, i) = TRUE  BY <1>4, Zenon DEF next_featured_guarantee
  <2>4. q.guaranteed  BY <2>3, <1>4 DEF NextPity
  <2> QED  BY <2>2, <2>4 DEF Promised
<1>5. CASE r = 5 /\ ~(Promises(b) /\ ~is_featured_item(b, i))
  <2>1. u.misses = 0  BY <1>2, <1>5 DEF Tally
  <2> QED  BY <2>1 DEF Promised
<1>6. CASE r # 5
  <2>1. u.misses = t.misses  BY <1>2, <1>6 DEF Tally
  <2>2. q.guaranteed <=> p.guaranteed
    <3>1. PICK m, n : q = [p EXCEPT !.five = m, !.four = n]
      BY <1>1, <1>6 DEF NextPity, Rarities
    <3> QED  BY <3>1, <1>1 DEF PityState
  <2> QED  BY <2>1, <2>2, <1>3 DEF Promised
<1> QED  BY <1>4, <1>5, <1>6

\* A user who has not pulled yet.
LEMMA FreshAgrees ==
  StateOK(create_initial_pity, Fresh) /\ Promised(create_initial_pity, Fresh)
BY EngineAssumption
   DEF StateOK, Counted, Promised, create_initial_pity, Fresh, PityState, Tallies

----------------------------------------------------------------------------
\* The strengthening: type and agreement of both pairs hold in every state.
THEOREM GachaInductive == Spec => []GachaInvariant
<1>1. Init => GachaInvariant
  BY FreshAgrees DEF Init, GachaInvariant, BatchOK, LocalsOK
<1>2. GachaInvariant /\ [Next]_vars => GachaInvariant'
  <2> SUFFICES ASSUME GachaInvariant, [Next]_vars PROVE GachaInvariant'
    OBVIOUS
  <2> USE DEF GachaInvariant, BatchOK, LocalsOK
  <2>1. ASSUME NEW b \in Banners, NEW n \in Counts, Begin(b, n) PROVE GachaInvariant'
    BY <2>1, EngineAssumption DEF Begin
  <2>2. CASE Pull
    <3>1. PICK r \in roll_rarity(banner, current) :
            \E pool \in roll_item(banner, r, current) : \E i \in pool :
              /\ current' = NextPity(banner, current, r, i)
              /\ drawn' = i
              /\ seen' = Tally(seen, banner, i)
      BY <2>2 DEF Pull
    <3>2. PICK pool \in roll_item(banner, r, current) : \E i \in pool :
              /\ current' = NextPity(banner, current, r, i)
              /\ drawn' = i
              /\ seen' = Tally(seen, banner, i)
      BY <3>1
    <3>3. PICK i \in pool : /\ current' = NextPity(banner, current, r, i)
                            /\ drawn' = i
                            /\ seen' = Tally(seen, banner, i)
      BY <3>2
    <3>4. banner \in Banners  BY <2>2 DEF Pull, InLoop
    <3>5. StateOK(current', seen') /\ i \in Items  BY <3>3, <3>4, PullCounts
    <3>6. left' \in Nat /\ UNCHANGED <<pity, banner, told>>  BY <2>2 DEF Pull, InLoop
    <3>7. StateOK(pity, told)'  BY <3>6 DEF StateOK, Counted
    <3> QED  BY <3>3, <3>5, <3>6, <3>7 DEF StateOK, Counted
  <2>3. CASE PickFails  BY <2>3, FreshAgrees DEF PickFails, EndBatch
  <2>4. CASE Commit  BY <2>4, FreshAgrees DEF Commit, EndBatch
  <2>5. CASE Drop  BY <2>5, FreshAgrees DEF Drop, EndBatch
  <2>6. CASE UNCHANGED vars  BY <2>6 DEF vars
  <2> QED  BY <2>1, <2>2, <2>3, <2>4, <2>5, <2>6 DEF Next
<1> QED  BY <1>1, <1>2, PTL DEF Spec

\* catalog_config.py:46: no user waits longer for a five-star than the longest hard
\* pity of the group, whatever banners, batches and failures lie in between.
THEOREM FiveIsDue == Spec => []FiveWithinHardPity
<1>1. GachaInvariant => FiveWithinHardPity
  BY DEF GachaInvariant, BatchOK, StateOK, FiveWithinHardPity
<1> QED  BY <1>1, GachaInductive, PTL

\* The same for a four-star or better, with or without resets_lower_rarity.
THEOREM FourIsDue == Spec => []FourWithinHardPity
<1>1. GachaInvariant => FourWithinHardPity
  BY DEF GachaInvariant, BatchOK, StateOK, FourWithinHardPity
<1> QED  BY <1>1, GachaInductive, PTL

\* Where every promise can be remembered, the open ones are, in every state.
THEOREM PromiseInductive == ASSUME PromisesKeyed PROVE Spec => []PromiseInvariant
<1>1. Init => PromiseInvariant  BY FreshAgrees DEF Init, PromiseInvariant
<1>2. GachaInvariant /\ PromiseInvariant /\ [Next]_vars => PromiseInvariant'
  <2> SUFFICES ASSUME GachaInvariant, PromiseInvariant, [Next]_vars PROVE PromiseInvariant'
    OBVIOUS
  <2> USE DEF PromiseInvariant
  <2>1. ASSUME NEW b \in Banners, NEW n \in Counts, Begin(b, n) PROVE PromiseInvariant'
    BY <2>1 DEF Begin
  <2>2. CASE Pull
    <3>1. PICK r \in roll_rarity(banner, current) :
            \E pool \in roll_item(banner, r, current) : \E i \in pool :
              /\ current' = NextPity(banner, current, r, i)
              /\ seen' = Tally(seen, banner, i)
      BY <2>2 DEF Pull
    <3>2. PICK pool \in roll_item(banner, r, current) : \E i \in pool :
              /\ current' = NextPity(banner, current, r, i)
              /\ seen' = Tally(seen, banner, i)
      BY <3>1
    <3>3. banner \in Banners /\ StateOK(current, seen)
      BY <2>2 DEF Pull, InLoop, GachaInvariant, LocalsOK, BatchOK
    <3>4. Promised(current', seen')  BY <3>2, <3>3, PullKeepsPromise
    <3>5. UNCHANGED <<pity, told>>  BY <2>2 DEF Pull
    <3> QED  BY <3>4, <3>5 DEF Promised
  <2>3. CASE PickFails  BY <2>3, FreshAgrees DEF PickFails, EndBatch
  <2>4. CASE Commit  BY <2>4, FreshAgrees DEF Commit, EndBatch
  <2>5. CASE Drop  BY <2>5, FreshAgrees DEF Drop, EndBatch
  <2>6. CASE UNCHANGED vars  BY <2>6 DEF vars
  <2> QED  BY <2>1, <2>2, <2>3, <2>4, <2>5, <2>6 DEF Next
<1> QED  BY <1>1, <1>2, GachaInductive, PTL DEF Spec

\* catalog.py:113: on catalogs whose promises are keyed no user misses the featured
\* five-star twice in a row.
THEOREM GuaranteeIsKept == ASSUME PromisesKeyed PROVE Spec => []GuaranteeHonoured
<1>1. PromiseInvariant => GuaranteeHonoured
  BY DEF PromiseInvariant, Promised, GuaranteeHonoured
<1> QED  BY <1>1, PromiseInductive, PTL

\* engine.py:43-59: on such catalogs the counters carry exactly what the records say.
THEOREM CountersAreTrue == ASSUME PromisesKeyed PROVE Spec => []CountersAgree
<1>1. GachaInvariant /\ PromiseInvariant => CountersAgree
  BY DEF GachaInvariant, BatchOK, StateOK, PromiseInvariant, CountersAgree
<1> QED  BY <1>1, GachaInductive, PromiseInductive, PTL

\* Counters never go below zero and every drawn item is of the catalog.
THEOREM EngineTypeCorrect == Spec => []TypeOK
<1>1. GachaInvariant => TypeOK
  BY DEF GachaInvariant, BatchOK, StateOK, LocalsOK, TypeOK
<1> QED  BY <1>1, GachaInductive, PTL

----------------------------------------------------------------------------
\* Featured items are listed, and a pool whose items of a rarity are all featured
\* holds all the catalog has of it: what the run EvidenceGap lacks.
PoolsCovered ==
  \A b \in Banners, r \in Rarities :
    /\ Config[b].featured[r] \subseteq effective_items(b)
    /\ (\E i \in Config[b].pool : RarityOf[i] = r) =>
         \/ \E i \in Config[b].pool : RarityOf[i] = r /\ i \notin Config[b].featured[r]
         \/ \A i \in Items : RarityOf[i] = r => i \in Config[b].pool

\* pull_audit.py:67: then whatever roll_item may pick from is listed.
LEMMA PicksListed ==
  ASSUME PoolsCovered, NEW b \in Banners, NEW r \in Rarities, NEW p \in PityState,
         NEW pool \in roll_item(b, r, p), NEW i \in pool
  PROVE  i \in effective_items(b)
<1>1. Config[b].pool \subseteq Items  BY EngineAssumption DEF BannerConfigs
<1>2. ASSUME NEW excluded \in {{}, Config[b].featured[r]},
             i \in pool_for_rarity(b, r, excluded)
      PROVE  i \in effective_items(b)
  <2>1. CASE \E j \in Config[b].pool : RarityOf[j] = r
    <3>1. CASE \E j \in Config[b].pool : RarityOf[j] = r /\ j \notin Config[b].featured[r]
      BY <1>2, <3>1 DEF pool_for_rarity, effective_items
    <3>2. CASE \A j \in Items : RarityOf[j] = r => j \in Config[b].pool
      <4>1. i \in Items /\ RarityOf[i] = r  BY <1>2, PoolItemsFit
      <4> QED  BY <3>2, <4>1 DEF effective_items
    <3> QED  BY <2>1, <3>1, <3>2 DEF PoolsCovered
  <2>2. CASE ~\E j \in Config[b].pool : RarityOf[j] = r
    <3>1. i \in Items /\ RarityOf[i] = r  BY <1>2, PoolItemsFit
    <3> QED  BY <2>2, <3>1 DEF effective_items
  <2> QED  BY <2>1, <2>2
<1> QED  BY <1>2 DEF roll_item, PoolsCovered

\* pull_audit.py:20: on such catalogs the evidence lists every item a pull may have
\* drawn, whatever pity and guarantee it was drawn with.
THEOREM EvidenceIsComplete == ASSUME PoolsCovered PROVE Spec => []EvidenceCovers
<1>1. Init => EvidenceCovers  BY DEF Init, EvidenceCovers
<1>2. GachaInvariant /\ EvidenceCovers /\ [Next]_vars => EvidenceCovers'
  <2> SUFFICES ASSUME GachaInvariant, EvidenceCovers, [Next]_vars PROVE EvidenceCovers'
    OBVIOUS
  <2>1. ASSUME NEW b \in Banners, NEW n \in Counts, Begin(b, n) PROVE EvidenceCovers'
    BY <2>1 DEF Begin, EvidenceCovers
  <2>2. CASE Pull
    <3>1. PICK r \in roll_rarity(banner, current) :
            \E pool \in roll_item(banner, r, current) : drawn' \in pool
      BY <2>2 DEF Pull
    <3>2. banner \in Banners /\ banner' = banner /\ r \in Rarities /\ current \in PityState
      BY <2>2, <3>1
         DEF Pull, InLoop, roll_rarity, GachaInvariant, LocalsOK, BatchOK, StateOK
    <3>3. drawn' \in effective_items(banner)  BY <3>1, <3>2, PicksListed
    <3> QED  BY <3>2, <3>3 DEF EvidenceCovers, effective_items
  <2>3. CASE PickFails \/ Commit \/ Drop
    BY <2>3 DEF PickFails, Commit, Drop, EndBatch, EvidenceCovers
  <2>4. CASE UNCHANGED vars  BY <2>4 DEF vars, EvidenceCovers, effective_items
  <2> QED  BY <2>1, <2>2, <2>3, <2>4 DEF Next
<1> QED  BY <1>1, <1>2, GachaInductive, PTL DEF Spec

----------------------------------------------------------------------------
\* engine.py:119, catalog_config.py:73: on a stocked banner there is an item to
\* pick from for every rarity, with or without the guarantee.
LEMMA PoolsFilled ==
  ASSUME NEW b \in Banners, Stocked(b), NEW r \in Rarities, NEW p
  PROVE  {} \notin roll_item(b, r, p)
<1>1. PICK i \in Items : /\ RarityOf[i] = r
                         /\ MayLose(b, r) => i \notin Config[b].featured[r]
  BY DEF Stocked
<1>2. ASSUME NEW excluded, i \notin excluded PROVE pool_for_rarity(b, r, excluded) # {}
  BY <1>1, <1>2 DEF pool_for_rarity
<1>3. CASE Config[b].featured[r] = {} \/ Config[b].rule[r] = None
  <2>1. roll_item(b, r, p) = {pool_for_rarity(b, r, {})}  BY <1>3 DEF roll_item
  <2> QED  BY <1>2, <2>1
<1>4. CASE Config[b].featured[r] # {} /\ Config[b].rule[r] # None
  <2> DEFINE others == IF Config[b].rule[r].sets THEN Config[b].featured[r] ELSE {}
  <2>1. ASSUME Config[b].rule[r].rate < One PROVE pool_for_rarity(b, r, others) # {}
    BY <1>1, <1>2, <1>4, <2>1 DEF MayLose
  <2>2. ASSUME NEW pool \in roll_item(b, r, p)
        PROVE  \/ pool = Config[b].featured[r]
               \/ pool = pool_for_rarity(b, r, others) /\ Config[b].rule[r].rate < One
    BY <1>4 DEF roll_item
  <2> QED  BY <1>4, <2>1, <2>2
<1> QED  BY <1>3, <1>4

\* engine.py:158: a batch that was paid for fails on no banner the catalog is
\* stocked for, whatever its user's pity and guarantee.
THEOREM StockedBatchesComplete == Spec => BatchesComplete
<1>1. GachaInvariant /\ [Next]_vars => [InLoop /\ banner' = None => ~Stocked(banner)]_vars
  <2> SUFFICES ASSUME GachaInvariant, [Next]_vars, InLoop, banner' = None, Stocked(banner)
               PROVE  FALSE
    BY DEF vars, InLoop
  <2>1. banner \in Banners /\ banner # None /\ left > 0 /\ left # 0
    BY DEF GachaInvariant, LocalsOK, InLoop
  <2>2. ~PickFails
    <3>1. \A r \in roll_rarity(banner, current) : r \in Rarities  BY DEF roll_rarity
    <3> QED  BY <2>1, <3>1, PoolsFilled DEF PickFails
  <2>3. ~Pull /\ ~Commit /\ ~Drop /\ ~UNCHANGED vars
    BY <2>1 DEF Pull, Commit, Drop, vars
  <2>4. ~\E b \in Banners, n \in Counts : Begin(b, n)  BY <2>1 DEF Begin
  <2> QED  BY <2>2, <2>3, <2>4 DEF Next
<1> QED  BY <1>1, GachaInductive, PTL DEF BatchesComplete, Spec
=============================================================================
