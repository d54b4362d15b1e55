------------------------- MODULE LimitadorReconciler -------------------------
(***************************************************************************)
(* The reconciler of Limitador resources: controllers/limitador_controller *)
(* .go, controllers/limitador_status.go and the write operations of        *)
(* pkg/reconcilers/base_reconciler.go, running against KubeCluster.        *)
(*                                                                         *)
(* The controller has one worker.  A pass of Reconcile is a sequence of    *)
(* steps, each with one write to the API server; the cluster moves between *)
(* the steps, and the operator may crash between any two of them.          *)
(***************************************************************************)
EXTENDS KubeCluster

VARIABLES
    pc,             \* the step the worker takes next
    lim,            \* limitadorObj, the resource as read from the cache; Nil when idle
    specErr,        \* the error of reconcileSpec, "none" if there is none
    specResult,     \* the result of reconcileSpec
    todo            \* the pods still to annotate: [names, rv]

workerVars == <<pc, lim, specErr, specResult, todo>>
vars == <<clusterVars, workerVars>>

Steps == {"idle", "service", "pvc", "deployment", "configmap", "pdb", "pods", "annotate",
          "status"}

NoPods == [names |-> {}, rv |-> Nil]

\* Mutant: the snapshot of the resource survives the pass.
IdleKeepingLimitador ==
    /\ pc' = "idle" /\ lim' = lim
    /\ specErr' = "none" /\ specResult' = "done" /\ todo' = NoPods

Idle ==
    /\ pc' = "idle" /\ lim' = Nil
    /\ specErr' = "none" /\ specResult' = "done" /\ todo' = NoPods

Init ==
    /\ ClusterInit
    /\ pc = "idle" /\ lim = Nil
    /\ specErr = "none" /\ specResult = "done" /\ todo = NoPods

-----------------------------------------------------------------------------
\* Flow of control of a pass.

GoTo(step) == pc' = step /\ UNCHANGED <<lim, specErr, specResult, todo>>

\* The first error ends reconcileSpec and goes to the status.
FailSpec(err) == pc' = "status" /\ specErr' = err /\ UNCHANGED <<lim, specResult, todo>>

\* A write of obj.  A call that fails may have taken effect all the same (the
\* answer is lost) or not.
Write(k, obj, step) ==
    \/ Store(k, obj) /\ GoTo(step) /\ UNCHANGED fuel
    \/ /\ Spend("fault")
       /\ FailSpec("APIError")
       /\ Store(k, obj) \/ UNCHANGED <<api, watch>>

\* Mutant: the reference is forgotten.
SetNoOwnerReference(l) == Nil

\* Every child carries a controller reference to the resource's uid.
SetOwnerReference(l) == l.uid

\* Delete, with NotFound taken for success.
DeleteResource(k, step) ==
    IF Live(k) THEN Write(k, Removed(k), step) ELSE Write(k, Nil, step)

-----------------------------------------------------------------------------
\* The steps of Reconcile.

\* Mutant: the deletion timestamp is not looked at.
ReconcilableWhileDeleting(l) == l # Nil

\* A resource that is gone or marked for deletion is left alone.
Reconcilable(l) == l # Nil /\ l.deleting = 0

IgnoreLimitador ==
    /\ pc = "idle" /\ "dirty" \in queue
    /\ ~Reconcilable(cache["Limitador"])
    /\ queue' = queue \ {"dirty"}
    /\ UNCHANGED <<api, cache, watch, secrets, next, fuel, workerVars>>

StartReconcile ==
    /\ pc = "idle" /\ "dirty" \in queue
    /\ Reconcilable(cache["Limitador"])
    /\ queue' = queue \ {"dirty"}
    /\ lim' = cache["Limitador"]
    /\ pc' = "service"
    /\ UNCHANGED <<api, cache, watch, secrets, next, fuel, specErr, specResult, todo>>

\* Server-side apply makes the fields the operator sets equal to the desired ones.
AppliedService(l) == [owner |-> SetOwnerReference(l), data |-> Service(l.spec)]

reconcileService ==
    /\ pc = "service"
    /\ Write("Service", AppliedService(lim), "pvc")
    /\ UNCHANGED <<cache, queue, secrets, next>>

NewClaim(l) == [owner |-> SetOwnerReference(l), data |-> PVC(l.spec), deleting |-> 0]

\* Mutant: a claim the spec no longer asks for is left in place.
reconcilePVCWithoutDelete ==
    /\ pc = "pvc"
    /\ LET desired == PVC(lim.spec)
       IN  IF desired = Nil \/ Live("PersistentVolumeClaim")
           THEN GoTo("deployment") /\ UNCHANGED <<api, watch, fuel>>
           ELSE Write("PersistentVolumeClaim", NewClaim(lim), "deployment")
    /\ UNCHANGED <<cache, queue, secrets, next>>

\* Mutant: claims are applied like the other objects.
reconcilePVCByApply ==
    /\ pc = "pvc"
    /\ LET desired == PVC(lim.spec)
       IN  IF desired = Nil THEN DeleteResource("PersistentVolumeClaim", "deployment")
           ELSE Write("PersistentVolumeClaim", NewClaim(lim), "deployment")
    /\ UNCHANGED <<cache, queue, secrets, next>>

\* Create-only: a claim found in the cache is left as it is.
reconcilePVC ==
    /\ pc = "pvc"
    /\ LET desired == PVC(lim.spec)
       IN  IF desired = Nil THEN DeleteResource("PersistentVolumeClaim", "deployment")
           ELSE IF cache["PersistentVolumeClaim"] # Nil
                THEN GoTo("deployment") /\ UNCHANGED <<api, watch, fuel>>
           ELSE IF Live("PersistentVolumeClaim")
                THEN FailSpec("AlreadyExists") /\ UNCHANGED <<api, watch, fuel>>
           ELSE Write("PersistentVolumeClaim", NewClaim(lim), "deployment")
    /\ UNCHANGED <<cache, queue, secrets, next>>

EmptyDeploymentStatus ==
    [observedGeneration |-> 0, available |-> Nil, unavailableReplicas |-> 0,
     readyReplicas |-> 0, replicas |-> 0]

\* Mutant: the cached Deployment is changed and written back whole.
AppliedDeploymentFromCache(l, data) ==
    LET d == api["Deployment"]
        seen == cache["Deployment"]
    IN  IF d = Nil
        THEN [owner |-> SetOwnerReference(l), generation |-> 1, data |-> data, sidecar |-> 0,
              status |-> EmptyDeploymentStatus]
        ELSE [owner |-> SetOwnerReference(l),
              generation |-> IF d.data = data THEN d.generation ELSE d.generation + 1,
              data |-> data, sidecar |-> IF seen = Nil THEN 0 ELSE seen.sidecar,
              status |-> d.status]

\* Server-side apply: the fields the operator sets are its own, the container of another
\* manager stays.
AppliedDeployment(l, data) ==
    LET d == api["Deployment"]
    IN  IF d = Nil
        THEN [owner |-> SetOwnerReference(l), generation |-> 1, data |-> data, sidecar |-> 0,
              status |-> EmptyDeploymentStatus]
        ELSE [owner |-> SetOwnerReference(l),
              generation |-> IF d.data = data THEN d.generation ELSE d.generation + 1,
              data |-> data, sidecar |-> d.sidecar, status |-> d.status]

\* The API server rejects a negative number of replicas.
reconcileDeployment ==
    /\ pc = "deployment"
    /\ LET storage == getDeploymentStorageOptions(lim.spec, secrets)
           desired == Deployment(lim.spec, storage)
       IN  IF storage.err # "none"
           THEN FailSpec(storage.err) /\ UNCHANGED <<api, watch, fuel>>
           ELSE IF desired.replicas < 0
           THEN FailSpec("Rejected") /\ UNCHANGED <<api, watch, fuel>>
           ELSE Write("Deployment", AppliedDeployment(lim, desired), "configmap")
    /\ UNCHANGED <<cache, queue, secrets, next>>

\* An apply that changes nothing keeps the resource version.
AppliedConfigMap(l) ==
    LET c == api["ConfigMap"]
        owner == SetOwnerReference(l)
        data == LimitsConfigMap(l.spec)
    IN  IF c # Nil /\ c.owner = owner /\ c.data = data THEN c
        ELSE [owner |-> owner, data |-> data, rv |-> next.rv]

reconcileLimitsConfigMap ==
    /\ pc = "configmap"
    /\ Write("ConfigMap", AppliedConfigMap(lim), "pdb")
    /\ IF api' # api THEN Allocate("rv") ELSE UNCHANGED next
    /\ UNCHANGED <<cache, queue, secrets>>

\* Server-side apply of one field of the budget: what the operator sets wins; what it does
\* not set goes, unless another manager owns it.
AppliedField(f, desired, b) ==
    IF desired[f] # Nil THEN desired[f]
    ELSE IF b # Nil /\ f \in b.theirs THEN b.data[f] ELSE Nil

AppliedBudget(l, desired) ==
    LET b == api["PodDisruptionBudget"]
    IN  [owner |-> SetOwnerReference(l),
         data |-> [maxUnavailable |-> AppliedField("maxUnavailable", desired, b),
                   minAvailable |-> AppliedField("minAvailable", desired, b)],
         theirs |-> IF b = Nil THEN {}
                    ELSE {f \in b.theirs : desired[f] = Nil \/ desired[f] = b.data[f]}]

\* The API server takes no budget with both fields.
BudgetRejected(desired) ==
    \A f \in BudgetFields : AppliedField(f, desired, api["PodDisruptionBudget"]) # Nil

\* Mutant: a PodDisruptionBudget the spec no longer asks for is left in place.
reconcilePdbWithoutDelete ==
    /\ pc = "pdb"
    /\ LET desired == PodDisruptionBudget(lim.spec)
       IN  IF desired = Nil THEN GoTo("pods") /\ UNCHANGED <<api, watch, fuel>>
           ELSE Write("PodDisruptionBudget", AppliedBudget(lim, desired), "pods")
    /\ UNCHANGED <<cache, queue, secrets, next>>

reconcilePdb ==
    /\ pc = "pdb"
    /\ LET desired == PodDisruptionBudget(lim.spec)
       IN  IF desired = Nil THEN DeleteResource("PodDisruptionBudget", "pods")
           ELSE IF BudgetRejected(desired)
           THEN FailSpec("Rejected") /\ UNCHANGED <<api, watch, fuel>>
           ELSE Write("PodDisruptionBudget", AppliedBudget(lim, desired), "pods")
    /\ UNCHANGED <<cache, queue, secrets, next>>

\* The pods and the ConfigMap are read from the cache.
PodsNotSettled(l, pods) ==
    \/ pods = {}
    \/ l.spec.replicas # Nil /\ Cardinality(pods) # GetReplicas(l.spec)

reconcilePodLimitsHashAnnotation ==
    /\ pc = "pods"
    /\ LET pods == cache["Pod"]
           cm == cache["ConfigMap"]
       IN  IF PodsNotSettled(lim, pods) \/ cm = Nil
           THEN /\ pc' = "status" /\ specResult' = "requeue"
                /\ UNCHANGED todo
           ELSE /\ pc' = "annotate"
                /\ todo' = [names |-> {p.name : p \in {q \in pods : q.rv # cm.rv}}, rv |-> cm.rv]
                /\ UNCHANGED specResult
    /\ UNCHANGED <<clusterVars, lim, specErr>>

StorePodAnnotation(name) ==
    \E p \in Pods :
        p.name = name /\ Store("Pod", (Pods \ {p}) \cup {[p EXCEPT !.rv = todo.rv]})

\* One patch per pod; a pod that is gone by now makes the patch fail.
ReconcilePodAnnotation(name) ==
    /\ pc = "annotate"
    /\ \/ /\ StorePodAnnotation(name)
          /\ todo' = [todo EXCEPT !.names = @ \ {name}]
          /\ UNCHANGED <<pc, lim, specErr, specResult, fuel>>
       \/ /\ \A p \in Pods : p.name # name
          /\ FailSpec("PodGone") /\ UNCHANGED <<api, watch, fuel>>
       \/ /\ Spend("fault")
          /\ FailSpec("APIError")
          /\ StorePodAnnotation(name) \/ UNCHANGED <<api, watch>>
    /\ UNCHANGED <<cache, queue, secrets, next>>

FinishAnnotations ==
    /\ pc = "annotate" /\ todo.names = {}
    /\ GoTo("status")
    /\ UNCHANGED clusterVars

\* ctrl.Result{Requeue: true} leaves RequeueAfter at zero, and RequeueAfter is
\* all that Reconcile looks at.
RequeueAfter(result) == 0

\* Mutant: an error is reported in the status and not returned.
FinishWithoutRetry(statusErr) == Idle /\ UNCHANGED queue

\* The end of Reconcile: an error puts the resource back with a backoff.
Finish(statusErr) ==
    /\ queue' = IF specErr # "none" \/ statusErr # "none" THEN queue \cup {"retry"}
                ELSE IF RequeueAfter(specResult) > 0 THEN queue \cup {"retry"}
                ELSE queue
    /\ Idle

\* Mutant: the generation is taken from the resource as it is when the status is written.
PatchedWithCurrentGeneration(status) ==
    [api["Limitador"] EXCEPT
        !.status = [status EXCEPT !.observedGeneration = api["Limitador"].generation]]

\* The patch names the resource and carries neither uid nor resource version.
PatchedLimitador(status) == [api["Limitador"] EXCEPT !.status = status]

reconcileStatus ==
    /\ pc = "status"
    /\ LET new == calculateStatus(lim, cache["Deployment"], specErr)
       IN  IF StatusIsSteady(lim, cache["Deployment"], specErr)
           THEN Finish("none") /\ UNCHANGED <<api, watch, fuel>>
           ELSE IF ~Live("Limitador")
           THEN Finish("NotFound") /\ UNCHANGED <<api, watch, fuel>>
           ELSE \/ Store("Limitador", PatchedLimitador(new)) /\ Finish("none") /\ UNCHANGED fuel
                \/ /\ Spend("fault")
                   /\ Finish("APIError")
                   /\ Store("Limitador", PatchedLimitador(new)) \/ UNCHANGED <<api, watch>>
    /\ UNCHANGED <<cache, secrets, next>>

\* A process that starts lists the objects afresh.
Restart ==
    /\ Idle
    /\ cache' = [k \in CachedKinds |-> api[k]]
    /\ watch' = [k \in CachedKinds |-> <<>>]
    /\ queue' = IF \E k \in EventKinds : Live(k) THEN {"dirty"} ELSE {}
    /\ UNCHANGED <<api, secrets, next>>

\* The process stops between two steps.
Crash == Spend("crash") /\ Restart

WorkerStep ==
    \/ IgnoreLimitador \/ StartReconcile
    \/ reconcileService \/ reconcilePVC \/ reconcileDeployment
    \/ reconcileLimitsConfigMap \/ reconcilePdb
    \/ reconcilePodLimitsHashAnnotation
    \/ \E name \in todo.names : ReconcilePodAnnotation(name)
    \/ FinishAnnotations
    \/ reconcileStatus

Next == (ClusterStep /\ UNCHANGED workerVars) \/ WorkerStep \/ Crash

Spec == Init /\ [][Next]_vars

\* The worker, each informer, the backoff timer, the Deployment controller and
\* the garbage collector keep going; nothing obliges users, faults or crashes.
Fairness ==
    /\ WF_vars(WorkerStep)
    /\ WF_vars(BackoffExpires /\ UNCHANGED workerVars)
    /\ \A k \in CachedKinds : WF_vars(Deliver(k) /\ UNCHANGED workerVars)
    /\ WF_vars(DeploymentControllerStep /\ UNCHANGED workerVars)
    /\ WF_vars(CollectorStep /\ UNCHANGED workerVars)

FairSpec == Spec /\ Fairness

-----------------------------------------------------------------------------
\* A cluster at rest: the operator has reconciled a spec and reported it, the pods are
\* ready, every event is delivered.  Runs about what happens later start here.

RestingDeployment(spec) ==
    [owner |-> 1, generation |-> 1, data |-> DesiredDeployment(spec), sidecar |-> 0,
     status |-> [observedGeneration |-> 1, available |-> "True", unavailableReplicas |-> 0,
                 readyReplicas |-> GetReplicas(spec), replicas |-> GetReplicas(spec)]]

RestingLimitador(spec) ==
    LET new == [uid |-> 1, generation |-> 1, deleting |-> 0, spec |-> spec,
                status |-> EmptyStatus]
    IN  [new EXCEPT !.status = calculateStatus(new, RestingDeployment(spec), "none")]

RestingPods(spec) ==
    [name : 1..GetReplicas(spec), template : {DesiredDeployment(spec).template}, sidecar : {0},
     ready : {1}, terminating : {0}, rv : {1}]

RestingObject(k, spec) ==
    CASE k = "Limitador" -> RestingLimitador(spec)
      [] k = "Service" -> [owner |-> 1, data |-> Service(spec)]
      [] k = "PersistentVolumeClaim" ->
           IF PVC(spec) = Nil THEN Nil ELSE [owner |-> 1, data |-> PVC(spec), deleting |-> 0]
      [] k = "Deployment" -> RestingDeployment(spec)
      [] k = "ConfigMap" -> [owner |-> 1, data |-> LimitsConfigMap(spec), rv |-> 1]
      [] k = "PodDisruptionBudget" ->
           IF spec.pdb = Nil THEN Nil ELSE [owner |-> 1, data |-> spec.pdb, theirs |-> {}]
      [] k = "Pod" -> RestingPods(spec)

AtRest(spec) ==
    /\ GetReplicas(spec) \in 0..MaxPods
    /\ api = [k \in Kinds |-> RestingObject(k, spec)]
    /\ cache = [k \in CachedKinds |-> RestingObject(k, spec)]
    /\ watch = [k \in CachedKinds |-> <<>>]
    /\ queue = {}
    /\ secrets = [s \in SecretNames |-> "URL"]
    /\ next = [uid |-> (1 % MaxId) + 1, pod |-> (GetReplicas(spec) % MaxId) + 1,
               rv |-> (1 % MaxId) + 1]
    /\ fuel \in Fuels
    /\ pc = "idle" /\ lim = Nil
    /\ specErr = "none" /\ specResult = "done" /\ todo = NoPods

RestInit == \E spec \in Specs : AtRest(spec)

RestSpec == RestInit /\ [][Next]_vars

-----------------------------------------------------------------------------
\* Properties.

Stored(k) ==
    CASE k = "Limitador" -> Limitadors \cup {Nil}
      [] k = "Service" -> Services \cup {Nil}
      [] k = "PersistentVolumeClaim" -> Claims \cup {Nil}
      [] k = "Deployment" -> Deployments \cup {Nil}
      [] k = "ConfigMap" -> ConfigMaps \cup {Nil}
      [] k = "PodDisruptionBudget" -> Budgets \cup {Nil}
      [] k = "Pod" -> {S \in SUBSET PodObjects : IsFiniteSet(S)}

ApiOK == api = [k \in Kinds |-> api[k]] /\ \A k \in Kinds : api[k] \in Stored(k)

CacheOK ==
    cache = [k \in CachedKinds |-> cache[k]] /\ \A k \in CachedKinds : cache[k] \in Stored(k)

Changes(k) == [obj : Stored(k), notify : SUBSET {"dirty"}]

WatchOK ==
    watch = [k \in CachedKinds |-> watch[k]] /\ \A k \in CachedKinds : watch[k] \in Seq(Changes(k))

WorkerOK ==
    /\ pc \in Steps
    /\ lim \in Limitadors \cup {Nil}
    /\ pc = "idle" <=> lim = Nil
    /\ specErr \in SpecErrors
    /\ pc # "status" => specErr = "none"
    /\ specResult \in {"done", "requeue"}
    /\ todo \in [names : SUBSET Uids, rv : Uids \cup {Nil}]

ClusterOK ==
    /\ ApiOK /\ CacheOK /\ WatchOK
    /\ queue \subseteq {"dirty", "retry"}
    /\ secrets \in [SecretNames -> SecretContents]
    /\ next \in [{"uid", "pod", "rv"} -> Uids]
    /\ fuel \in [Disturbances -> Nat]

\* Type invariant: the API server, the caches and the watches hold objects of the
\* kind they are asked for, and the locals of a pass are those of the step it is at.
TypeOK == ClusterOK /\ WorkerOK

\* Nothing will make the operator act: it is idle, the work queue is empty and
\* no event is under way.
Quiescent ==
    /\ pc = "idle" /\ queue = {}
    /\ \A k \in EventKinds : watch[k] = <<>>

Desired(k, spec) ==
    CASE k = "Service" -> Service(spec)
      [] k = "Deployment" -> DesiredDeployment(spec)
      [] k = "ConfigMap" -> LimitsConfigMap(spec)
      [] k = "PodDisruptionBudget" -> PodDisruptionBudget(spec)

\* The fields the operator sets have the values it wants; a budget may have a field of
\* another manager besides.
Agrees(k, data, desired) ==
    IF k = "PodDisruptionBudget"
    THEN \A f \in BudgetFields : desired[f] # Nil => data[f] = desired[f]
    ELSE data = desired

\* The child of kind k is what the resource cr asks for, and belongs to it.
Matches(k, cr) ==
    IF Desired(k, cr.spec) = Nil THEN ~Live(k)
    ELSE /\ Live(k) /\ api[k].owner = cr.uid
         /\ Agrees(k, api[k].data, Desired(k, cr.spec))

AppliedKinds == {"Service", "Deployment", "ConfigMap", "PodDisruptionBudget"}

Converged == \A k \in AppliedKinds : Matches(k, api["Limitador"])

\* A quiescent operator has done its work: whatever interleaving of edits, of
\* tampering, of failed calls, of crashes and of late events led here, every
\* object Reconcile applies is the one the current spec asks for, owned by the
\* current resource.  (Reconcile reads a cache that lags and is not told to
\* check again, so this rests on the watches and on the retries.)
ConvergedWhenQuiescent ==
    Quiescent /\ Reconcilable(api["Limitador"]) => Converged

\* A Deployment at rest has the number of replicas the resource asks for or, if an int32
\* does not hold that many, the most it holds: a count that is too large or negative does
\* not come out as some other number that the API server happens to take.
ReplicasAsAsked ==
    Quiescent /\ Reconcilable(api["Limitador"])
        => LET asked == OrDefault(api["Limitador"].spec.replicas, DefaultReplicas)
               n == api["Deployment"].data.replicas
           IN  /\ 0 <= n /\ n <= asked
               /\ n < asked => n = MaxInt32

\* When the operator is quiescent the status is what calculateStatus yields for
\* the Deployment as it is now: the Ready condition is not left over from an
\* earlier Deployment, from an earlier spec or from an error that is past.
StatusAccurateWhenQuiescent ==
    Quiescent /\ Reconcilable(api["Limitador"])
        => StatusIsSteady(api["Limitador"], api["Deployment"], "none")

\* The last change that waits on a watch is the object as it is now, an empty watch
\* means an up to date cache, and every event of a watched kind notifies.
Synced ==
    /\ \A k \in CachedKinds :
          IF watch[k] = <<>> THEN cache[k] = api[k] ELSE watch[k][Len(watch[k])].obj = api[k]
    /\ \A k \in EventKinds : \A i \in 1..Len(watch[k]) : watch[k][i].notify = {"dirty"}

\* Nothing has happened that would make the operator look again after this pass.
Undisturbed ==
    /\ "dirty" \notin queue
    /\ \A k \in EventKinds : watch[k] = <<>>

\* The kinds a pass has applied when it gets to a step.
AppliedBefore(step) ==
    CASE step \in {"idle", "service"} -> {}
      [] step \in {"pvc", "deployment"} -> {"Service"}
      [] step = "configmap" -> {"Service", "Deployment"}
      [] step = "pdb" -> {"Service", "Deployment", "ConfigMap"}
      [] OTHER -> AppliedKinds

\* A pass that nothing disturbs works on the resource as it is, not on an old
\* snapshot, and what it has applied so far stays in place: if no event is due the
\* pass need not be repeated.
UndisturbedPass ==
    pc # "idle" /\ Undisturbed
        => /\ lim = api["Limitador"]
           /\ specErr = "none" => \A k \in AppliedBefore(pc) : Matches(k, lim)

\* The inductive invariant of the convergence proof.  UndisturbedPass is what makes it
\* inductive: it carries what a pass has read and applied to the end of the pass.
ConvergenceInv ==
    /\ TypeOK /\ Synced
    /\ pc # "idle" => Reconcilable(lim)
    /\ UndisturbedPass
    /\ ConvergedWhenQuiescent /\ StatusAccurateWhenQuiescent

\* Ready=True for the current generation is not claimed before the spec of that
\* generation is applied: every object is the one it asks for.  (This is about
\* resources nobody deletes or tampers with, and calls that end with their pass.)
ReadyImpliesApplied ==
    LET cr == api["Limitador"]
    IN  /\ Reconcilable(cr)
        /\ cr.status.observedGeneration = cr.generation
        /\ cr.status.ready # Nil /\ cr.status.ready.cond.status = "True"
        => Converged

\* status.observedGeneration never goes back while the resource lives: a pass
\* that read an old snapshot does not overwrite the report of a later one.  (The
\* calls of a pass end with it.  A status patch that outlives its pass, such as the
\* late calls of LimitadorHandover, would take the report back.)
ObservedGenerationMonotone ==
    [][ /\ Live("Limitador") /\ api'["Limitador"] # Nil
        /\ api'["Limitador"].uid = api["Limitador"].uid
        => api'["Limitador"].status.observedGeneration
               >= api["Limitador"].status.observedGeneration ]_vars

\* The contract, on the resource and the objects the API server stores.
Contract == INSTANCE LimitadorContract WITH
    generation <- IF Live("Limitador") THEN api["Limitador"].generation ELSE 0,
    observed <- IF Live("Limitador") THEN api["Limitador"].status.observedGeneration ELSE 0,
    ready <- /\ Live("Limitador")
             /\ api["Limitador"].status.ready # Nil
             /\ api["Limitador"].status.ready.cond.status = "True",
    applied <- Live("Limitador") /\ Converged

\* The reconciler keeps the contract: it reports generations in order and none that the
\* resource has not had, claims Ready for a generation only with its objects in place, and
\* does not undo them afterwards, although its passes work on snapshots that may be old
\* and its calls may fail with or without effect.  (No call takes effect after its pass.)
RefinesContract == Contract!Spec

\* The current spec can be reconciled: its Redis secret is in order, its replica count is
\* one the API server takes, and no field another manager has put in the budget excludes
\* the one the spec sets.
CanConverge ==
    LET spec == api["Limitador"].spec
    IN  /\ Reconcilable(api["Limitador"])
        /\ getDeploymentStorageOptions(spec, secrets).err = "none"
        /\ GetReplicas(spec) >= 0
        /\ PodDisruptionBudget(spec) # Nil => ~BudgetRejected(PodDisruptionBudget(spec))

\* Once the disturbances stop, a resource whose spec can be reconciled converges
\* and its status is accurate, even after errors that raise no event (a Secret is
\* not watched, and a claim that is there and not in the cache yet cannot be created):
\* the retries get there.
EventuallyConverged ==
    <>[](CanConverge => Converged
                        /\ StatusIsSteady(api["Limitador"], api["Deployment"], "none"))

\* Once the disturbances stop the operator comes to rest: its own writes, which
\* come back to it as events, do not keep it reconciling forever.
EventuallyQuiescent ==
    <>[](CanConverge \/ ~Reconcilable(api["Limitador"]) => Quiescent)

\* A resource deleted in the foreground does go away: the operator does not put
\* back the children the garbage collector removes.
DeletionCompletes ==
    Live("Limitador") /\ api["Limitador"].deleting = 1 ~> ~Live("Limitador")

\* No child outlives the resource, not even one written by a pass that was still
\* running when the resource was deleted.
NoOrphans ==
    <>[](~Live("Limitador") => \A k \in ChildKinds : ~Live(k))

\* A claim is removed with the disk storage: a resource at rest that does not
\* use the disk has no claim, or one that waits for its last pod.
ClaimFollowsSpec ==
    Quiescent /\ Reconcilable(api["Limitador"]) /\ PVC(api["Limitador"].spec) = Nil
        => ~Live("PersistentVolumeClaim") \/ api["PersistentVolumeClaim"].deleting = 1

\* Claims are created and never updated, whatever the spec turns into.
ClaimIsImmutable ==
    [][ Live("PersistentVolumeClaim") /\ api'["PersistentVolumeClaim"] # Nil
        => api'["PersistentVolumeClaim"].data = api["PersistentVolumeClaim"].data ]_vars

\* Two processes of different versions do not hold the disk at the same time: the pods that
\* mount the claim, the ones on their way out included, have the same template.
DiskPodsAgree ==
    \A p, q \in Pods :
        UsesDisk(p.template) /\ UsesDisk(q.template)
            => p.template = q.template /\ p.sidecar = q.sidecar

\* The whole cluster is at rest: nothing is left to deliver, the Deployment has
\* the pods it wants, they are ready, and its status says so.
Settled ==
    /\ Quiescent
    /\ \A k \in CachedKinds : watch[k] = <<>>
    /\ Live("Deployment")
    /\ api["Deployment"].status = DeploymentStatus(api["Deployment"])
    /\ Pods = UpToDate /\ Pods = Ready
    /\ Cardinality(Pods) = api["Deployment"].data.replicas

\* When the whole cluster is at rest the resource reports Ready for its current
\* generation: no pass ended with a report of a rollout or an error that is over.
ReadyWhenSettled ==
    Settled /\ Reconcilable(api["Limitador"])
        => /\ api["Limitador"].status.observedGeneration = api["Limitador"].generation
           /\ api["Limitador"].status.ready.cond.status = "True"

\* When the whole cluster is at rest every pod carries the resource version of the
\* limits ConfigMap, the annotation that makes the kubelet refresh the mounted file.
LimitsSyncedWhenSettled ==
    Settled /\ Reconcilable(api["Limitador"])
        => \A p \in Pods : p.rv = api["ConfigMap"].rv

\* A container another manager added to the Deployment is there as long as the Deployment
\* is: no pass takes it out, whatever copy of the Deployment the operator has in its cache.
SidecarPreserved ==
    [][ Live("Deployment") /\ api'["Deployment"] # Nil
        => api'["Deployment"].sidecar >= api["Deployment"].sidecar ]_vars

\* "Allowing external controllers to manage additional fields without conflicts": the API
\* server refuses what the operator applies for what is in the spec only, not for a field
\* some other manager has set.
ForeignFieldsDoNotConflict == specErr = "Rejected" => GetReplicas(lim.spec) < 0

\* status.observedGeneration is the generation of a spec of this resource that was
\* observed: it is never ahead of the resource's generation.
ObservedGenerationNotAhead ==
    Live("Limitador")
        => api["Limitador"].status.observedGeneration <= api["Limitador"].generation

\* A resource with disk storage that is at rest has its volume: the claim exists
\* and is not on its way out.
ClaimKeptWhenQuiescent ==
    Quiescent /\ Reconcilable(api["Limitador"]) /\ PVC(api["Limitador"].spec) # Nil
        => /\ Live("PersistentVolumeClaim")
           /\ api["PersistentVolumeClaim"].deleting = 0
           /\ ~Collectable(api["PersistentVolumeClaim"])
=============================================================================
