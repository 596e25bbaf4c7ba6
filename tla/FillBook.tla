------------------------------ MODULE FillBook ------------------------------
(***************************************************************************)
(* What the ledger promises about an order, without saying who carries it  *)
(* out: an order is open, then ends one way; only an order that ended in a *)
(* fill is written into an agent's balance, and it is written once.        *)
(*                                                                         *)
(* This is the contract of app.sync_orders' docstring ("is idempotent, and *)
(* only ever acts on a trade once because it moves the row out of          *)
(* 'accepted' as soon as it resolves"), extended to every writer of a fill.*)
(***************************************************************************)
EXTENDS Naturals

CONSTANT Orders

VARIABLES
  life,     \* status of the trades row; "none" before the row exists
  booked    \* how often the fill was written to the balance

Ends == {"rejected", "filled", "failed"}

Init ==
  /\ life = [o \in Orders |-> "none"]
  /\ booked = [o \in Orders |-> 0]

Begin(o) ==
  /\ life[o] = "none"
  /\ \E l \in {"accepted", "rejected", "filled"} : life' = [life EXCEPT ![o] = l]
  /\ UNCHANGED booked

End(o) ==
  /\ life[o] = "accepted"
  /\ \E l \in {"filled", "failed"} : life' = [life EXCEPT ![o] = l]
  /\ UNCHANGED booked

Book(o) ==
  /\ life[o] = "filled"
  /\ booked[o] = 0
  /\ booked' = [booked EXCEPT ![o] = 1]
  /\ UNCHANGED life

Next == \E o \in Orders : Begin(o) \/ End(o) \/ Book(o)

Spec == Init /\ [][Next]_<<life, booked>>
=============================================================================
