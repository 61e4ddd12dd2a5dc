---------------------------- MODULE MCSweepClock ----------------------------
(* One periodic subscription, or two in two tenants.                       *)
EXTENDS SweepClock, TLC

CONSTANTS s1, s2, t1, t2

OneTenant == s1 :> t1
TwoTenants == (s1 :> t1) @@ (s2 :> t2)
=============================================================================
