------------------------------ MODULE DrawLog ------------------------------
(***************************************************************************)
(* What the records of a user's pulls are worth, whatever the services     *)
(* around them do: the asset service may charge when nobody waits any      *)
(* more, refuse for any reason or give money back, and any worker may be   *)
(* overtaken.  The log of a pity group only grows.  An operation enters    *)
(* one log, once, charged and not refunded, and never again loses the      *)
(* charge; the log is that of the context frozen with the operation, which *)
(* is dropped only when the operation is given up, undrawn and for good.   *)
(* A draw is shown and rewarded only from the log, rewarded once, and      *)
(* settled when rewarded.                                                  *)
(***************************************************************************)
EXTENDS Sequences, Functions

CONSTANTS Keys, Contexts, Groups, None,
          GroupOf    \* the pity group of each context

VARIABLES frozen,    \* context of each operation, None before and when given up
          dropped,   \* operations given up
          charged,   \* operations the wallet was charged for
          refunded,  \* operations the wallet was credited for
          log,       \* per group, the operations drawn, in order
          shown,     \* operations whose draw somebody has seen
          rewarded,  \* operations whose items are in the backpack
          settled    \* operations reported as delivered

money    == <<charged, refunded>>
delivery == <<shown, rewarded, settled>>
vars == <<frozen, dropped, charged, refunded, log, shown, rewarded, settled>>

Drawn(k) == \E g \in Groups : k \in Range(log[g])

\* Older operations may be on record, their draws not yet delivered.
Init == /\ frozen \in [Keys -> Contexts \cup {None}]
        /\ \A k \in dropped : frozen[k] = None
        /\ \A g \in Groups : \A k \in Range(log[g]) :
             /\ k \in charged \ (refunded \cup dropped)
             /\ frozen[k] # None /\ GroupOf[frozen[k]] = g
        /\ \A g \in Groups : IsInjective(log[g])
        /\ shown = {} /\ rewarded = {} /\ settled = {}

Freeze(k) == /\ frozen[k] = None /\ k \notin dropped
             /\ \E c \in Contexts : frozen' = [frozen EXCEPT ![k] = c]
             /\ UNCHANGED <<dropped, money, log, delivery>>

Drop(k) == /\ ~Drawn(k)
           /\ dropped' = dropped \cup {k}
           /\ frozen' = [frozen EXCEPT ![k] = None]
           /\ UNCHANGED <<money, log, delivery>>

Charge(k) == /\ charged' = charged \cup {k}
             /\ UNCHANGED <<frozen, dropped, refunded, log, delivery>>

Refund(k) == /\ ~Drawn(k)
             /\ refunded' = refunded \cup {k}
             /\ UNCHANGED <<frozen, dropped, charged, log, delivery>>

Draw(k) == /\ frozen[k] # None
           /\ k \in charged \ refunded /\ ~Drawn(k)
           /\ log' = [log EXCEPT ![GroupOf[frozen[k]]] = Append(@, k)]
           /\ UNCHANGED <<frozen, dropped, money, delivery>>

Show(k) == /\ Drawn(k)
           /\ shown' = shown \cup {k}
           /\ UNCHANGED <<frozen, dropped, money, log, rewarded, settled>>

Reward(k) == /\ k \notin rewarded /\ Drawn(k)
             /\ rewarded' = rewarded \cup {k}
             /\ UNCHANGED <<frozen, dropped, money, log, shown, settled>>

Settle(k) == /\ k \in rewarded \ settled
             /\ settled' = settled \cup {k}
             /\ UNCHANGED <<frozen, dropped, money, log, shown, rewarded>>

Next == \E k \in Keys : \/ Charge(k) \/ Refund(k)
                        \/ Freeze(k) \/ Drop(k) \/ Draw(k)
                        \/ Show(k) \/ Reward(k) \/ Settle(k)

Spec == Init /\ [][Next]_vars
=============================================================================
