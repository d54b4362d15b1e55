-------------------------- MODULE LimitadorHandover --------------------------
(***************************************************************************)
(* The reconciler with calls that outlive their caller.  A request to the  *)
(* API server may be under way when the operator gives up on it: its       *)
(* process stops or loses the leader election of main.go, and a successor  *)
(* takes over; or the connection breaks and the pass goes on with an       *)
(* error.  The request then takes effect at any later time, on the objects *)
(* as they are then, or never.                                             *)
(***************************************************************************)
EXTENDS LimitadorReconciler

\* Nil stands for the kind of a call that has not landed.
ASSUME KindAssumption == Nil \notin Kinds

VARIABLE
    late            \* the call under way and the kind of the one that has landed, or Nil

handoverVars == <<vars, late>>

\* The kind each step of a pass writes to.
WrittenKind ==
    [service |-> "Service", pvc |-> "PersistentVolumeClaim", deployment |-> "Deployment",
     configmap |-> "ConfigMap", pdb |-> "PodDisruptionBudget", status |-> "Limitador"]

\* The step the worker is at makes a call.
Calls ==
    /\ pc \in DOMAIN WrittenKind
    /\ CASE pc = "pvc" -> PVC(lim.spec) = Nil \/ cache["PersistentVolumeClaim"] = Nil
         [] pc = "deployment" -> getDeploymentStorageOptions(lim.spec, secrets).err = "none"
         [] pc = "status" -> ~StatusIsSteady(lim, cache["Deployment"], specErr)
         [] OTHER -> TRUE

\* The request holds what it was built from: the snapshot of the resource, and the status.
Request ==
    [kind |-> WrittenKind[pc], lim |-> lim,
     status |-> IF pc = "status" THEN calculateStatus(lim, cache["Deployment"], specErr)
                ELSE Nil]

\* What a request leaves at the API server when it gets there.
Landed(k, l, status) ==
    CASE k = "Service" -> AppliedService(l)
      [] k = "PersistentVolumeClaim" ->
           IF PVC(l.spec) = Nil THEN (IF Live(k) THEN Removed(k) ELSE Nil)
           ELSE IF Live(k) THEN api[k] ELSE NewClaim(l)
      [] k = "Deployment" ->
           IF GetReplicas(l.spec) < 0 THEN api[k]
           ELSE AppliedDeployment(l, DesiredDeployment(l.spec))
      [] k = "ConfigMap" -> AppliedConfigMap(l)
      [] k = "PodDisruptionBudget" ->
           IF PodDisruptionBudget(l.spec) = Nil THEN Nil
           ELSE IF BudgetRejected(PodDisruptionBudget(l.spec)) THEN api[k]
           ELSE AppliedBudget(l, PodDisruptionBudget(l.spec))
      [] k = "Limitador" -> IF Live(k) THEN PatchedLimitador(status) ELSE Nil

HandoverInit == RestInit /\ late = [call |-> Nil, landed |-> Nil]

\* The process stops, or is no longer the leader, with a request under way.
HandOver ==
    /\ late = [call |-> Nil, landed |-> Nil]
    /\ Calls
    /\ Spend("late")
    /\ late' = [late EXCEPT !.call = Request]
    /\ Restart

\* The pass is told that a request failed that is still under way.
TimeOut ==
    /\ late = [call |-> Nil, landed |-> Nil]
    /\ Calls
    /\ Spend("late")
    /\ late' = [late EXCEPT !.call = Request]
    /\ IF pc = "status" THEN Finish("APIError") ELSE FailSpec("APIError") /\ UNCHANGED queue
    /\ UNCHANGED <<api, cache, watch, secrets, next>>

Land ==
    /\ late.call # Nil
    /\ late' = [call |-> Nil, landed |-> late.call.kind]
    /\ LET k == late.call.kind
       IN  /\ Store(k, Landed(k, late.call.lim, late.call.status))
           /\ IF k = "ConfigMap" /\ api' # api THEN Allocate("rv") ELSE UNCHANGED next
    /\ UNCHANGED <<cache, queue, secrets, fuel, workerVars>>

HandoverNext == (Next /\ UNCHANGED late) \/ HandOver \/ TimeOut \/ Land

HandoverSpec == HandoverInit /\ [][HandoverNext]_handoverVars

-----------------------------------------------------------------------------
\* Properties.

\* A quiescent operator has done its work and reported it, even after a call of an earlier
\* pass or of an earlier leader overwrote what it had done: the watches of the owned kinds
\* and of the resource bring it back.  Only a Service that was overwritten so is not
\* covered, because Services are not watched.
ConvergedDespiteLateCalls ==
    Quiescent /\ Reconcilable(api["Limitador"])
        => /\ \A k \in AppliedKinds :
                 (k = "Service" => late.landed # "Service") => Matches(k, api["Limitador"])
           /\ StatusIsSteady(api["Limitador"], api["Deployment"], "none")
=============================================================================
