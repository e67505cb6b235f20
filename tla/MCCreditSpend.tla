---------------------------- MODULE MCCreditSpend ----------------------------
(***************************************************************************)
(* Instances of CreditSpend for TLC, and the statements that comments of   *)
(* the code make and its behaviour refutes.                                *)
(***************************************************************************)
EXTENDS CreditSpend

\* Two members of a timeline: requests with even numbers are Alice's.
TwoMembers == [r \in Request |-> IF r % 2 = 0 THEN "alice" ELSE "bob"]
OneMember  == [r \in Request |-> "alice"]
SameTheme  == [r \in Unlock |-> 0]
SomeAmounts == {-1, 1}

\* themeUnlock.js:6-7 "anything else charges the acting user's own credit balance":
\* when every request has ended, somebody's balance has paid for what was unlocked.
UnlocksAreCharged ==
    (\A r \in Request : pc[r] = "done") =>
        \A i \in Wanted : boughtBy[i] # Nobody =>
            credits[boughtBy[i]] + Price <= granted[boughtBy[i]]
=============================================================================
