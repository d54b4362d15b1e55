--------------------------- MODULE LimitadorStatus ---------------------------
(***************************************************************************)
(* What the operator reports in the status of a Limitador resource:        *)
(* controllers/limitador_status.go, LimitadorStatus.Equals and the         *)
(* condition helpers.                                                      *)
(*                                                                         *)
(* A status is [observedGeneration, ready, service]; ready is the "Ready"  *)
(* condition, Nil when the list of conditions is empty.  Time is reduced   *)
(* to what the code can tell: whether lastTransitionTime is the recorded   *)
(* one or a new one, so a clock reading is 1 - (the recorded reading).     *)
(***************************************************************************)
EXTENDS LimitadorObjects

\* The errors reconcileSpec may return, "none" if there is none.
SpecErrors == {"none", "APIError", "Rejected", "AlreadyExists", "PodGone",
               "NoConfigSecretRef", "SecretNotFound", "SecretWithoutURL"}

\* What checkLimitadorAvailable may find wanting.
Unavailabilities == {"NotFound", "StillInProgress", "AvailableConditionNotFound",
                     "AvailableConditionMessage", "UnavailableReplicas", "ReplicasNotReady"}

EmptyStatus == [observedGeneration |-> 0, ready |-> Nil, service |-> Nil]

\* Why the Deployment read from the cache is not available, or Nil.
checkLimitadorAvailable(dep) ==
    CASE dep = Nil -> "NotFound"
      [] dep # Nil /\ dep.status.observedGeneration # dep.generation -> "StillInProgress"
      [] dep # Nil /\ dep.status.observedGeneration = dep.generation ->
           CASE dep.status.available = Nil -> "AvailableConditionNotFound"
             [] dep.status.available = "False" -> "AvailableConditionMessage"
             [] OTHER ->
                  IF dep.status.unavailableReplicas # 0 THEN "UnavailableReplicas"
                  ELSE IF dep.status.readyReplicas # dep.status.replicas
                       THEN "ReplicasNotReady" ELSE Nil

ReadyCondition(status, reason, message) ==
    [status |-> status, reason |-> reason, message |-> message]

\* Mutant: the error of reconcileSpec is not reported.
readyConditionWithoutError(dep, specErr) ==
    LET reason == checkLimitadorAvailable(dep)
    IN  IF reason # Nil THEN ReadyCondition("False", "LimitadorNotAvailable", reason)
        ELSE ReadyCondition("True", "Ready", "LimitadorIsReady")

readyCondition(dep, specErr) ==
    IF specErr # "none" THEN ReadyCondition("False", "ReconcilliationError", specErr)
    ELSE LET reason == checkLimitadorAvailable(dep)
         IN  IF reason # Nil THEN ReadyCondition("False", "LimitadorNotAvailable", reason)
             ELSE ReadyCondition("True", "Ready", "LimitadorIsReady")

\* Mutant: the conditions start from an empty list every time.
DeepCopyNoConditions(cond) == Nil

DeepCopyConditions(cond) == cond

\* meta.SetStatusCondition: the transition time moves only when the status of
\* the condition changes.
SetStatusCondition(old, new, now) ==
    [cond |-> new,
     lastTransitionTime |-> IF old = Nil \/ old.cond.status # new.status
                            THEN now ELSE old.lastTransitionTime]

Now(lim) == IF lim.status.ready = Nil THEN 0 ELSE 1 - lim.status.ready.lastTransitionTime

\* Mutant: the error path leaves ObservedGeneration unset.
calculateStatusZeroOnError(lim, dep, specErr) ==
    [observedGeneration |-> IF specErr = "none" THEN lim.generation ELSE 0,
     ready |-> SetStatusCondition(DeepCopyConditions(lim.status.ready),
                                  readyCondition(dep, specErr), Now(lim)),
     service |-> Service(lim.spec)]

calculateStatus(lim, dep, specErr) ==
    [observedGeneration |-> lim.generation,
     ready |-> SetStatusCondition(DeepCopyConditions(lim.status.ready),
                                  readyCondition(dep, specErr), Now(lim)),
     service |-> Service(lim.spec)]

Equals(s, other) ==
    /\ s.observedGeneration = other.observedGeneration
    /\ s.ready = other.ready
    /\ s.service = other.service

\* Mutant: only the generation decides whether the status is written.
StatusIsSteadyByGeneration(lim, dep, specErr) ==
    lim.generation = lim.status.observedGeneration

\* Nothing to write: the status is up to date and was written for this spec.
StatusIsSteady(lim, dep, specErr) ==
    /\ Equals(lim.status, calculateStatus(lim, dep, specErr))
    /\ lim.generation = lim.status.observedGeneration
=============================================================================
