------------------------------ MODULE MCOrders ------------------------------
(***************************************************************************)
(* Instances of Orders for TLC, and the statements that comments of the    *)
(* code make and its behaviour refutes.                                    *)
(***************************************************************************)
EXTENDS Orders

\* models/Order.js:5-6 "every successful order corresponds to exactly one credit
\* top-up": an order never tops the balance up a second time.
OneTopUpPerOrder == \A o \in Order : topUps[o] <= 1
=============================================================================
