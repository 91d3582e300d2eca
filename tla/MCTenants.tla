----------------------------- MODULE MCTenants -----------------------------
(* Instances of Tenants for TLC: settings that declare both tenants, that  *)
(* rename one and drop the other, and that declare only the other.         *)
EXTENDS Tenants

CONSTANTS t1, t2, old, new

Settings == {[k \in Tenant |-> old],
             [k \in Tenant |-> IF k = t1 THEN new ELSE None],
             [k \in Tenant |-> IF k = t1 THEN None ELSE old]}
=============================================================================
