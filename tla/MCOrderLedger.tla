--------------------------- MODULE MCOrderLedger ---------------------------
(* Small instances of OrderLedger for TLC. *)
EXTENDS OrderLedger

CONSTANTS a1, a2, s1, s2

Order(a, s, side, q, i) ==
  [agent |-> a, symbol |-> s, side |-> side, qty |-> q, auto |-> FALSE, n |-> i]

\* a2 holds one s2; nobody holds s1.
MCStartHeld == [s \in {s1, s2} |-> IF s = s2 THEN 1 ELSE 0]
MCStartQty == [a \in {a1, a2} |-> [s \in {s1, s2} |-> IF a = a2 /\ s = s2 THEN 1 ELSE 0]]

\* a1 wants more s1 than its budget allows, and the s2 that a2 holds and may sell; it may
\* sell that s2 too, whether it has bought any or not.
MCOrders == {Order(a1, s1, "buy", 3, 1), Order(a1, s2, "buy", 1, 2),
             Order(a1, s2, "sell", 1, 3), Order(a2, s2, "sell", 1, 4)}

\* Both agents want s1.
RivalOrders == {Order(a1, s1, "buy", 1, 1), Order(a2, s1, "buy", 1, 2)}

\* One agent with two buys and a sell.
SoloOrders == {Order(a1, s1, "buy", 2, 1), Order(a1, s1, "buy", 1, 2),
               Order(a1, s2, "sell", 1, 3)}
SoloStartQty == [a \in {a1} |-> [s \in {s1, s2} |-> IF s = s2 THEN 1 ELSE 0]]
=============================================================================
