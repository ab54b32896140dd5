--------------------------- MODULE TenantLifecycle ---------------------------
(***************************************************************************)
(* What the operator promises about Tenants, whatever it does in between:  *)
(* resources are held for a tenant only while its custom resource (CR) is  *)
(* there, and a CR goes only when nothing is held any more.                *)
(*                                                                         *)
(* TenantOperator implements this, with what it made for a tenant as the   *)
(* resources held; TenantAPI's view of the CRs does too.                   *)
(***************************************************************************)
EXTENDS Naturals

CONSTANT Tenants

VARIABLES
  life,  \* the CR of each tenant
  held   \* tenants that hold resources

vars == <<life, held>>

Init ==
  /\ life = [t \in Tenants |-> "absent"]
  /\ held = {}

Create(t) ==
  /\ life[t] = "absent"
  /\ life' = [life EXCEPT ![t] = "live"]
  /\ UNCHANGED held

\* A CR that holds resources stays until they are given back.
Delete(t) ==
  /\ life[t] = "live"
  /\ \/ life' = [life EXCEPT ![t] = "deleting"]
     \/ t \notin held /\ life' = [life EXCEPT ![t] = "absent"]
  /\ UNCHANGED held

\* Also a tenant whose deletion the operator has not seen yet.
Provision(t) ==
  /\ life[t] # "absent"
  /\ held' = held \cup {t}
  /\ UNCHANGED life

\* By teardown, by a failed installation, or with the namespace, which may be
\* that of several tenants.
GiveBack ==
  /\ held' \subseteq held
  /\ UNCHANGED life

Finish(t) ==
  /\ life[t] = "deleting"
  /\ t \notin held
  /\ life' = [life EXCEPT ![t] = "absent"]
  /\ UNCHANGED held

Next ==
  \/ \E t \in Tenants : Create(t) \/ Delete(t) \/ Provision(t) \/ Finish(t)
  \/ GiveBack

Spec == Init /\ [][Next]_vars
=============================================================================
