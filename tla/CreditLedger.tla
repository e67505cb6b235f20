---------------------------- MODULE CreditLedger ----------------------------
(***************************************************************************)
(* What spending credits promises: whoever pays gets what was paid for, in *)
(* one step, and nobody pays for what somebody has bought before.          *)
(***************************************************************************)
EXTENDS Integers, FiniteSets

CONSTANTS
    User, Item,
    Free,          \* items of each user that cost nothing
    Freebie,       \* the items the free allowance is about
    PriceOf,       \* PriceOf[i]: what item i costs
    Initial,       \* every user's balance at the start
    TopUpAmount,   \* what an order grants
    Adjustments    \* amounts an administrator may add, or take when negative

VARIABLES balance, boughtBy

vars == <<balance, boughtBy>>

Nobody == "nobody"

Bought == {i \in Item : boughtBy[i] # Nobody}

Init ==
    /\ balance = [u \in User |-> Initial]
    /\ boughtBy = [i \in Item |-> Nobody]

Give(u, i) ==
    /\ boughtBy[i] = Nobody
    /\ boughtBy' = [boughtBy EXCEPT ![i] = u]

Buy(u, i) ==
    /\ balance[u] >= PriceOf[i]
    /\ balance' = [balance EXCEPT ![u] = @ - PriceOf[i]]
    /\ Give(u, i)

GetFree(u, i) ==
    /\ i \in Freebie
    /\ Cardinality({j \in Freebie : boughtBy[j] = u}) < Free
    /\ Give(u, i)
    /\ UNCHANGED balance

TopUp(u) ==
    /\ balance' = [balance EXCEPT ![u] = @ + TopUpAmount]
    /\ UNCHANGED boughtBy

\* An amount is added in full; at most as much as asked for is taken.
Adjust(u) ==
    /\ \E n \in Adjustments :
          \/ n >= 0 /\ balance' = [balance EXCEPT ![u] = @ + n]
          \/ \E taken \in 0..-n :
                /\ taken <= balance[u]
                /\ balance' = [balance EXCEPT ![u] = @ - taken]
    /\ UNCHANGED boughtBy

Next == \E u \in User :
    \/ \E i \in Item : Buy(u, i) \/ GetFree(u, i)
    \/ TopUp(u)
    \/ Adjust(u)

Spec == Init /\ [][Next]_vars
=============================================================================
