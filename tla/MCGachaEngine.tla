--------------------------- MODULE MCGachaEngine ---------------------------
(* Finite catalogs for GachaEngine; each .cfg picks one. *)
EXTENDS GachaEngine

CONSTANTS up5, off5, up4, off4, low3, limited, standard, double

Rarity == [i \in Items |-> CASE i \in {up5, off5} -> 5 [] i \in {up4, off4} -> 4 [] OTHER -> 3]

LongestPity == [r \in {4, 5} |-> IF r = 5 THEN 5 ELSE 3]

NoRules == [r \in Rarities |-> None]

Coin == [rate |-> 5, sets |-> TRUE, keyed |-> TRUE]

\* As limited-character-001: featured five- and four-stars, soft pity.
Limited == [pool     |-> Items,
            featured |-> [r \in Rarities |-> CASE r = 5 -> {up5} [] r = 4 -> {up4} [] OTHER -> {}],
            rule     |-> [NoRules EXCEPT ![5] = Coin, ![4] = [Coin EXCEPT !.sets = FALSE, !.keyed = FALSE]],
            pity     |-> [r \in {4, 5} |-> IF r = 5 THEN [hard |-> 5, soft |-> 3, inc |-> 6, base |-> 1]
                                            ELSE [hard |-> 3, soft |-> None, inc |-> 0, base |-> 2]],
            resets   |-> TRUE]

\* As standard-001, but with edge values: no three-star of its own, no reset, a
\* shorter hard pity, and a soft pity that ends in certainty.
Standard == [pool     |-> {off5, up4, off4},
             featured |-> [r \in Rarities |-> IF r = 4 THEN {up4} ELSE {}],
             rule     |-> [NoRules EXCEPT ![4] = [Coin EXCEPT !.keyed = FALSE]],
             pity     |-> [r \in {4, 5} |-> IF r = 5 THEN [hard |-> 4, soft |-> 2, inc |-> 5, base |-> 0]
                                             ELSE [hard |-> 2, soft |-> None, inc |-> 0, base |-> 0]],
             resets   |-> FALSE]

\* Every five-star of the catalog is featured, which no check of the catalog
\* rejects: a lost coin has nothing to pick from.
Double == [Limited EXCEPT !.featured[5] = {up5, off5}]

Shared == [b \in Banners |->
             CASE b = limited -> Limited [] b = standard -> Standard [] b = double -> Double]

\* The banner's pool holds no five-star but the featured one.
OnlyFeatured == [b \in Banners |-> [Limited EXCEPT !.pool = Items \ {off5}]]

\* What the guarantee needs holds of these catalogs.
ASSUME CatalogAssumption == PromisesKeyed
=============================================================================
