--------------------------- MODULE MCTenantPages ----------------------------
(* A small instance of TenantPages for TLC: one tenant is there and ready,  *)
(* of the other there is none yet, or it is on its way.                     *)
EXTENDS TenantPages

CONSTANTS n1, n2

MCInit == Init /\ server[n1] # "Ready" /\ server[n2] = "Ready"

MCSpec == MCInit /\ [][Next]_vars /\ Fairness
=============================================================================
