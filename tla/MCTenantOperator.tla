-------------------------- MODULE MCTenantOperator --------------------------
(* Small instances of TenantOperator for TLC. *)
EXTENDS TenantOperator, TLC

\* Every tenant has its own namespace, kubespaces-tenant-<name>, here named
\* after it.
OwnNamespace == [t \in Tenants |-> t]

\* A second spec of two asks for no quota, so that an edit removes it; of three
\* specs the last asks for what the first asked for.
Resources ==
  [v \in 0..MaxSpec |-> IF v = 0 \/ (v = 2 /\ MaxSpec = 2) THEN "none"
                        ELSE IF v = 2 THEN "storage" ELSE "compute"]

AllOn    == {[net |-> TRUE, apps |-> TRUE]}
AppsOnly == {[net |-> FALSE, apps |-> TRUE]}

Symmetry == Permutations(Tenants)
=============================================================================
