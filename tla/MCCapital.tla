----------------------------- MODULE MCCapital -----------------------------
(* Small instances of Capital for TLC. *)
EXTENDS Capital

CalmOnly == {{}}
CalmOrFaults ==
  {{}, {"overlap"}, {"crash", "db_error"}, {"crash", "account_unreadable"}, {"k8s_error"}}
=============================================================================
