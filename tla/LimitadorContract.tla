-------------------------- MODULE LimitadorContract --------------------------
(***************************************************************************)
(* What a user of a Limitador resource may rely on, without caches,        *)
(* events, passes or objects: the spec has a generation, the operator      *)
(* reports the generation it has observed and whether the resource is      *)
(* ready, and the objects are what the current spec asks for or not.       *)
(*                                                                         *)
(* The contract is about the life of one resource whose objects nobody     *)
(* else changes, served by calls that end with the pass that makes them.   *)
(* Generation 0 stands for no resource.                                    *)
(***************************************************************************)
EXTENDS Naturals

VARIABLES
    generation,     \* metadata.generation
    observed,       \* status.observedGeneration
    ready,          \* the Ready condition is True
    applied         \* every object is the one the current spec asks for

contractVars == <<generation, observed, ready, applied>>

Exists == generation > 0

Init == generation = 0 /\ observed = 0 /\ ~ready /\ ~applied

Create ==
    /\ ~Exists
    /\ generation' = 1
    /\ applied' \in BOOLEAN
    /\ UNCHANGED <<observed, ready>>

\* A new spec may or may not ask for what is there.
Edit ==
    /\ Exists
    /\ generation' = generation + 1
    /\ applied' \in BOOLEAN
    /\ UNCHANGED <<observed, ready>>

Delete ==
    /\ Exists
    /\ generation' = 0 /\ observed' = 0 /\ ~ready' /\ ~applied'

\* The operator works on the objects.  It may still work for an older spec and undo
\* what happened to be right, but not once it has reported the current one.
Apply ==
    /\ Exists
    /\ applied' \in BOOLEAN
    /\ observed = generation /\ applied => applied'
    /\ UNCHANGED <<generation, observed, ready>>

\* The operator reports.  Reports do not go back, and Ready for the current generation
\* is a promise.
Report ==
    /\ Exists
    /\ observed' \in observed..generation
    /\ ready' \in BOOLEAN
    /\ ready' /\ observed' = generation => applied
    /\ UNCHANGED <<generation, applied>>

Next == Create \/ Edit \/ Delete \/ Apply \/ Report

Spec == Init /\ [][Next]_contractVars
=============================================================================
