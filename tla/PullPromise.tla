---------------------------- MODULE PullPromise ----------------------------
(***************************************************************************)
(* What the service promises a user, without rows, leases, retries or      *)
(* messages.  An operation is opened for one pity group, paid for, and     *)
(* drawn by being appended to the tape of that group; a draw is shown only *)
(* when it is on the tape, rewarded once, and settled when rewarded.  An   *)
(* operation that is refused has not been paid for.                        *)
(***************************************************************************)
EXTENDS Sequences

CONSTANTS Keys, Groups, None

VARIABLES stage,     \* stage of each operation
          group,     \* pity group it draws from, None before and when refused
          paid,      \* operations charged
          tape,      \* per group, the operations drawn, in order
          shown,     \* operations whose draw a client has seen
          rewarded   \* operations whose items are in the backpack

vars == <<stage, group, paid, tape, shown, rewarded>>

Init == /\ stage = [k \in Keys |-> "new"]
        /\ group = [k \in Keys |-> None]
        /\ tape = [g \in Groups |-> <<>>]
        /\ paid = {} /\ shown = {} /\ rewarded = {}

Move(k, from, to) == stage[k] = from /\ stage' = [stage EXCEPT ![k] = to]

Open(k, g) == /\ Move(k, "new", "open")
              /\ group' = [group EXCEPT ![k] = g]
              /\ UNCHANGED <<paid, tape, shown, rewarded>>

Pay(k) == /\ stage[k] = "open"
          /\ paid' = paid \cup {k}
          /\ UNCHANGED <<stage, group, tape, shown, rewarded>>

Draw(k) == /\ Move(k, "open", "drawn") /\ k \in paid
           /\ tape' = [tape EXCEPT ![group[k]] = Append(@, k)]
           /\ UNCHANGED <<group, paid, shown, rewarded>>

Refuse(k) == /\ Move(k, "open", "refused") /\ k \notin paid
             /\ group' = [group EXCEPT ![k] = None]
             /\ UNCHANGED <<paid, tape, shown, rewarded>>

Show(k) == /\ stage[k] \in {"drawn", "settled"}
           /\ shown' = shown \cup {k}
           /\ UNCHANGED <<stage, group, paid, tape, rewarded>>

Reward(k) == /\ stage[k] = "drawn"
             /\ rewarded' = rewarded \cup {k}
             /\ UNCHANGED <<stage, group, paid, tape, shown>>

Settle(k) == /\ Move(k, "drawn", "settled") /\ k \in rewarded
             /\ UNCHANGED <<group, paid, tape, shown, rewarded>>

Next == \E k \in Keys : \/ \E g \in Groups : Open(k, g)
                        \/ Pay(k) \/ Draw(k) \/ Refuse(k)
                        \/ Show(k) \/ Reward(k) \/ Settle(k)

Spec == Init /\ [][Next]_vars
=============================================================================
