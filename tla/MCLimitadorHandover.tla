------------------------- MODULE MCLimitadorHandover -------------------------
(***************************************************************************)
(* Instances of LimitadorHandover for TLC.                                 *)
(***************************************************************************)
EXTENDS MCLimitadorReconciler, LimitadorHandover

HandoverSpecs == {Scaled(0), Customised}

\* A call that outlives its leader or its pass, with an edit, or with tampering and a crash;
\* and a resource that is deleted and created again.
HandoverFuels ==
    {[NoFuel EXCEPT !["edit"] = 1, !["late"] = 1],
     [NoFuel EXCEPT !["tamper"] = 1, !["late"] = 1, !["crash"] = 1],
     [NoFuel EXCEPT !["create"] = 1, !["delete"] = 1]}
=============================================================================
