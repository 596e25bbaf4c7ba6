---------------------------- MODULE MCExitLedger ----------------------------
(* Small instances of ExitLedger for TLC. *)
EXTENDS ExitLedger

CONSTANTS a1, a2, s1, s2

Order(a, s, side, q, i) ==
  [agent |-> a, symbol |-> s, side |-> side, qty |-> q, auto |-> FALSE, n |-> i]
Exit(a, s, i) ==
  [agent |-> a, symbol |-> s, side |-> "sell", qty |-> 0, auto |-> TRUE, n |-> i]

\* One agent holding two s1; it may sell one, and its stop may be hit.
SoloOrders == {Order(a1, s1, "sell", 1, 1), Exit(a1, s1, 2)}
SoloStartHeld == [s \in {s1} |-> 2]
SoloStartQty == [a \in {a1} |-> [s \in {s1} |-> 2]]

\* ... or sell both, with exits enough for any way the fills may fall
LiveOrders == {Order(a1, s1, "sell", 2, 1), Exit(a1, s1, 2), Exit(a1, s1, 3)}

\* It sells one of the two while its stop is hit, with exits to spare.
RaceOrders == {Order(a1, s1, "sell", 1, 1), Exit(a1, s1, 2), Exit(a1, s1, 3)}
=============================================================================
