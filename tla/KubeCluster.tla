----------------------------- MODULE KubeCluster -----------------------------
(***************************************************************************)
(* The Kubernetes cluster as the operator in src/ meets it.  The API       *)
(* server, the informers, the work queue, the Deployment controller, the   *)
(* garbage collector and the users are not code of the repository: they    *)
(* are modelled from how the operator uses them (external).                *)
(*                                                                         *)
(* There is one Limitador resource, so there is at most one object of      *)
(* each child kind, and the objects of kind Pod are one set.  api holds    *)
(* what the API server stores.  A write to a kind the operator caches is   *)
(* announced on that kind's watch; Deliver applies the announcements to    *)
(* the cache in order, kind by kind, at any later time.                    *)
(***************************************************************************)
EXTENDS LimitadorStatus, FiniteSets

CONSTANTS
    Specs,          \* the specs users write
    SecretNames,    \* the secrets a spec may refer to
    MaxPods,        \* bound on the pods that exist at one time
    MaxId,          \* identifiers (uids, pod names, resource versions) recycle after MaxId
    MaxLag,         \* snapshots that wait on a watch before they are merged
    Fuels           \* budgets: how often each disturbance of the cluster may happen

ChildKinds == {"Service", "PersistentVolumeClaim", "Deployment", "ConfigMap",
               "PodDisruptionBudget"}

Kinds == ChildKinds \cup {"Limitador", "Pod"}

\* The kinds the operator reads through its cache.  The Service is only ever
\* applied and Secrets are read from the API server.
CachedKinds == Kinds \ {"Service"}

\* Mutants: a watch that SetupWithManager forgets.
EventKindsWithoutDeployment == {"Limitador", "ConfigMap", "PodDisruptionBudget"}
EventKindsWithoutConfigMap == {"Limitador", "Deployment", "PodDisruptionBudget"}

\* For(Limitador), Owns(Deployment), Owns(ConfigMap), Owns(PodDisruptionBudget):
\* the kinds whose events put the resource on the work queue.
EventKinds == {"Limitador", "Deployment", "ConfigMap", "PodDisruptionBudget"}

Disturbances == {"create", "edit", "delete", "foreground", "secret", "tamper", "fault",
                 "crash", "late", "evict"}

SecretContents == {Nil, "noURL", "URL"}

\* The Deployment a spec asks for once its secret is in order.
DesiredDeployment(spec) ==
    Deployment(spec, getDeploymentStorageOptions(spec, [s \in SecretNames |-> "URL"]))

\* The sets the objects are from.
Uids == 1..MaxId
Conditions == [status : {"True", "False"},
               reason : {"ReconcilliationError", "LimitadorNotAvailable", "Ready"},
               message : SpecErrors \cup Unavailabilities \cup {"LimitadorIsReady"}]
ReadyConditions == [cond : Conditions, lastTransitionTime : {0, 1}]
ServiceData == {Service(s) : s \in Specs}
Statuses == [observedGeneration : Nat, ready : ReadyConditions \cup {Nil},
             service : ServiceData \cup {Nil}]
Limitadors == [uid : Uids, generation : Nat, deleting : {0, 1}, spec : Specs,
               status : Statuses]
Services == [owner : Uids, data : ServiceData]
Claims == [owner : Uids, data : {PVC(s) : s \in Specs} \ {Nil}, deleting : {0, 1}]
DeploymentStatuses == [observedGeneration : Nat, available : {"True", "False", Nil},
                       unavailableReplicas : Int, readyReplicas : Nat, replicas : Nat]
DeploymentData == {DesiredDeployment(s) : s \in Specs}
                  \cup {[DesiredDeployment(s) EXCEPT !.replicas = 0] : s \in Specs}
Deployments == [owner : Uids, generation : Nat, data : DeploymentData, sidecar : {0, 1},
                status : DeploymentStatuses]
ConfigMapData == {LimitsConfigMap(s) : s \in Specs} \cup {[limits |-> <<"edited">>]}
ConfigMaps == [owner : Uids, data : ConfigMapData, rv : Uids]
BudgetFields == {"maxUnavailable", "minAvailable"}
BudgetData == [maxUnavailable : Nat \cup {Nil}, minAvailable : Nat \cup {Nil}]
Budgets == [owner : Uids, data : BudgetData, theirs : SUBSET BudgetFields]
PodObjects == [name : Uids, template : {DesiredDeployment(s).template : s \in Specs},
               sidecar : {0, 1}, ready : {0, 1}, terminating : {0, 1}, rv : Uids \cup {Nil}]

ASSUME ClusterAssumption ==
    /\ MaxId \in Nat \ {0}
    /\ MaxPods \in 0..MaxId
    /\ MaxLag \in Nat \ {0}
    /\ Fuels \subseteq [Disturbances -> Nat]

ASSUME SpecAssumption ==
    \A s \in Specs :
        /\ Admissible(s)
        /\ s.replicas \in Int \cup {Nil}
        /\ s.pdb \in BudgetData \cup {Nil}
        /\ s.redis # Nil => s.redis.ref \in SecretNames \cup {Nil}
        /\ s.redisCached # Nil => s.redisCached.ref \in SecretNames \cup {Nil}

\* Nil is none of the values it stands for the absence of.
ASSUME NilAssumption ==
    /\ Nil \notin Limitadors /\ Nil \notin Services /\ Nil \notin Claims
    /\ Nil \notin Deployments /\ Nil \notin ConfigMaps /\ Nil \notin Budgets
    /\ Nil \notin ServiceData /\ Nil \notin DeploymentData /\ Nil \notin ConfigMapData
    /\ Nil \notin ReadyConditions /\ Nil \notin {"True", "False"}
    /\ Nil \notin Uids /\ Nil \notin Nat

VARIABLES
    api,            \* what the API server stores, by kind
    cache,          \* what the operator's informers hold, by kind
    watch,          \* announced and not yet delivered changes, by kind
    queue,          \* the work queue: "dirty" to be reconciled, "retry" after a backoff
    secrets,        \* contents of the Secrets
    next,           \* the next uid, pod name and ConfigMap resource version
    fuel            \* disturbances left

clusterVars == <<api, cache, watch, queue, secrets, next, fuel>>

Absent(k) == IF k = "Pod" THEN {} ELSE Nil

ClusterInit ==
    /\ api = [k \in Kinds |-> Absent(k)]
    /\ cache = [k \in CachedKinds |-> Absent(k)]
    /\ watch = [k \in CachedKinds |-> <<>>]
    /\ queue = {}
    /\ secrets \in [SecretNames -> SecretContents]
    /\ next = [uid |-> 1, pod |-> 1, rv |-> 1]
    /\ fuel \in Fuels

-----------------------------------------------------------------------------
\* Primitive effects.

Live(k) == api[k] # Nil

Owned(obj) == obj # Nil /\ obj.owner # Nil

\* The event handlers: the resource's own events, and those of children that
\* carry a controller reference before or after the change.
Enqueues(k, old, new) ==
    /\ k \in EventKinds
    /\ k = "Limitador" \/ Owned(old) \/ Owned(new)

\* A change is announced as a snapshot and whether its delivery notifies the
\* controller.  Beyond MaxLag the changes that wait are delivered in one go: the
\* cache skips a snapshot, the notification is kept.
Announce(w, obj, notify) ==
    IF Len(w) < MaxLag THEN Append(w, [obj |-> obj, notify |-> notify])
    ELSE [w EXCEPT ![Len(w)] = [obj |-> obj, notify |-> notify \cup w[Len(w)].notify]]

\* The API server stores obj as the object of kind k.
Store(k, obj) ==
    /\ api' = [api EXCEPT ![k] = obj]
    /\ watch' = IF k \in CachedKinds /\ obj # api[k]
                THEN [watch EXCEPT ![k] =
                        Announce(@, obj, IF Enqueues(k, api[k], obj) THEN {"dirty"} ELSE {})]
                ELSE watch

Spend(d) ==
    /\ fuel[d] > 0
    /\ fuel' = [fuel EXCEPT ![d] = @ - 1]

Allocate(id) == next' = [next EXCEPT ![id] = (@ % MaxId) + 1]

-----------------------------------------------------------------------------
\* Users.

CreateLimitador(spec) ==
    /\ ~Live("Limitador")
    /\ Spend("create")
    /\ Store("Limitador", [uid |-> next.uid, generation |-> 1, deleting |-> 0,
                           spec |-> spec, status |-> EmptyStatus])
    /\ Allocate("uid")
    /\ UNCHANGED <<cache, queue, secrets>>

UpdateLimitador(spec) ==
    /\ Live("Limitador")
    /\ api["Limitador"].spec # spec
    /\ Spend("edit")
    /\ Store("Limitador", [api["Limitador"] EXCEPT !.spec = spec, !.generation = @ + 1])
    /\ UNCHANGED <<cache, queue, secrets, next>>

\* Background deletion removes the resource and leaves its children to the
\* garbage collector.
DeleteLimitador ==
    /\ Live("Limitador")
    /\ Spend("delete")
    /\ Store("Limitador", Nil)
    /\ UNCHANGED <<cache, queue, secrets, next>>

\* Foreground deletion keeps the resource, marked, until its children are gone.
DeleteLimitadorForeground ==
    /\ Live("Limitador")
    /\ api["Limitador"].deleting = 0
    /\ Spend("foreground")
    /\ Store("Limitador", [api["Limitador"] EXCEPT !.deleting = 1, !.generation = @ + 1])
    /\ UNCHANGED <<cache, queue, secrets, next>>

SetSecret(s, content) ==
    /\ secrets[s] # content
    /\ Spend("secret")
    /\ secrets' = [secrets EXCEPT ![s] = content]
    /\ UNCHANGED <<api, cache, watch, queue, next>>

\* Someone else deletes a child, or changes what the operator put in it.
DeleteChild(k) ==
    /\ Live(k)
    /\ Spend("tamper")
    /\ Store(k, Nil)
    /\ UNCHANGED <<cache, queue, secrets, next>>

EditDeployment ==
    /\ Live("Deployment")
    /\ api["Deployment"].data.replicas # 0
    /\ Spend("tamper")
    /\ Store("Deployment", [api["Deployment"] EXCEPT !.data.replicas = 0,
                                                     !.generation = @ + 1])
    /\ UNCHANGED <<cache, queue, secrets, next>>

\* Another manager adds a container to the pod template, as an injector of sidecars does.
AddSidecar ==
    /\ Live("Deployment")
    /\ api["Deployment"].sidecar = 0
    /\ Spend("tamper")
    /\ Store("Deployment", [api["Deployment"] EXCEPT !.sidecar = 1, !.generation = @ + 1])
    /\ UNCHANGED <<cache, queue, secrets, next>>

EditConfigMap ==
    /\ Live("ConfigMap")
    /\ api["ConfigMap"].data # [limits |-> <<"edited">>]
    /\ Spend("tamper")
    /\ Store("ConfigMap", [api["ConfigMap"] EXCEPT !.data = [limits |-> <<"edited">>],
                                                  !.rv = next.rv])
    /\ Allocate("rv")
    /\ UNCHANGED <<cache, queue, secrets>>

\* What a budget may say instead of what the spec asks for.  The API server takes no
\* budget with both fields.
EditedBudgets == {[maxUnavailable |-> 0, minAvailable |-> Nil],
                  [maxUnavailable |-> Nil, minAvailable |-> 0]}

\* Another manager rewrites the budget and becomes the owner of the field it sets.
EditBudget(data) ==
    /\ Live("PodDisruptionBudget")
    /\ api["PodDisruptionBudget"].data # data
    /\ Spend("tamper")
    /\ Store("PodDisruptionBudget",
             [api["PodDisruptionBudget"] EXCEPT
                 !.data = data, !.theirs = {f \in BudgetFields : data[f] # Nil}])
    /\ UNCHANGED <<cache, queue, secrets, next>>

-----------------------------------------------------------------------------
\* The Deployment controller and the kubelet.

Pods == api["Pod"]

Active == {p \in Pods : p.terminating = 0}

Ready == {p \in Active : p.ready = 1}

SameTemplate(p, d) == p.template = d.data.template /\ p.sidecar = d.sidecar

UpToDate == {p \in Active : Live("Deployment") /\ SameTemplate(p, api["Deployment"])}

\* Recreate starts a pod of a new template only once every other pod is gone;
\* RollingUpdate surges by one pod.
CreatePod ==
    /\ Live("Deployment")
    /\ Cardinality(Pods) < MaxPods
    /\ LET d == api["Deployment"]
       IN  /\ Cardinality(UpToDate) < d.data.replicas
           /\ IF d.data.strategy = "Recreate"
              THEN \A p \in Pods : SameTemplate(p, d)
              ELSE Cardinality(Active) <= d.data.replicas
           /\ Store("Pod", Pods \cup {[name |-> next.pod, template |-> d.data.template,
                                       sidecar |-> d.sidecar, ready |-> 0, terminating |-> 0,
                                       rv |-> Nil]})
    /\ Allocate("pod")
    /\ UNCHANGED <<cache, queue, secrets, fuel>>

\* A pod that mounts the claim does not start before the claim is there.
PodReady(p) ==
    /\ p.ready = 0 /\ p.terminating = 0
    /\ UsesDisk(p.template) => Live("PersistentVolumeClaim")
    /\ Store("Pod", (Pods \ {p}) \cup {[p EXCEPT !.ready = 1]})
    /\ UNCHANGED <<cache, queue, secrets, next, fuel>>

\* Pods that are surplus, outdated or orphaned are stopped.
Unwanted(p) ==
    \/ ~Live("Deployment")
    \/ /\ Live("Deployment")
       /\ LET d == api["Deployment"]
          IN  IF SameTemplate(p, d)
              THEN Cardinality(UpToDate) > d.data.replicas
              ELSE d.data.strategy = "Recreate" \/ p.ready = 0
                   \/ Cardinality(Ready) > d.data.replicas

Terminate(p) == Store("Pod", (Pods \ {p}) \cup {[p EXCEPT !.terminating = 1]})

StopPod(p) ==
    /\ p.terminating = 0
    /\ Unwanted(p)
    /\ Terminate(p)
    /\ UNCHANGED <<cache, queue, secrets, next, fuel>>

\* A drain, an eviction or a user stops any pod.
EvictPod(p) ==
    /\ p.terminating = 0
    /\ Spend("evict")
    /\ Terminate(p)
    /\ UNCHANGED <<cache, queue, secrets, next>>

PodGone(p) ==
    /\ p.terminating = 1
    /\ Store("Pod", Pods \ {p})
    /\ UNCHANGED <<cache, queue, secrets, next, fuel>>

DeploymentStatus(d) ==
    LET total == Cardinality(Active)
        ready == Cardinality(Ready)
        wanted == IF total > d.data.replicas THEN total ELSE d.data.replicas
    IN  [observedGeneration |-> d.generation,
         available |-> IF ready >= d.data.replicas THEN "True" ELSE "False",
         unavailableReplicas |-> wanted - ready,
         readyReplicas |-> ready,
         replicas |-> total]

UpdateDeploymentStatus ==
    /\ Live("Deployment")
    /\ LET d == api["Deployment"]
       IN  /\ d.status # DeploymentStatus(d)
           /\ Store("Deployment", [d EXCEPT !.status = DeploymentStatus(d)])
    /\ UNCHANGED <<cache, queue, secrets, next, fuel>>

-----------------------------------------------------------------------------
\* Garbage collection and storage protection.

\* The resource that owns obj is gone, or is being deleted in the foreground.
Collectable(obj) ==
    /\ Owned(obj)
    /\ \/ ~Live("Limitador")
       \/ Live("Limitador") /\ (api["Limitador"].uid # obj.owner \/ api["Limitador"].deleting = 1)

\* A claim stays, marked, while a pod mounts it.
Removed(k) ==
    IF k = "PersistentVolumeClaim" THEN [api[k] EXCEPT !.deleting = 1] ELSE Nil

CollectChild(k) ==
    /\ Collectable(api[k])
    /\ api[k] # Removed(k)
    /\ Store(k, Removed(k))
    /\ UNCHANGED <<cache, queue, secrets, next, fuel>>

CollectLimitador ==
    /\ Live("Limitador")
    /\ api["Limitador"].deleting = 1
    /\ \A k \in ChildKinds : Owned(api[k]) => api[k].owner # api["Limitador"].uid
    /\ Store("Limitador", Nil)
    /\ UNCHANGED <<cache, queue, secrets, next, fuel>>

ReleaseClaim ==
    /\ Live("PersistentVolumeClaim")
    /\ api["PersistentVolumeClaim"].deleting = 1
    /\ \A p \in Pods : ~UsesDisk(p.template)
    /\ Store("PersistentVolumeClaim", Nil)
    /\ UNCHANGED <<cache, queue, secrets, next, fuel>>

-----------------------------------------------------------------------------
\* Informers and work queue of the operator's process.

Deliver(k) ==
    /\ watch[k] # <<>>
    /\ cache' = [cache EXCEPT ![k] = Head(watch[k]).obj]
    /\ watch' = [watch EXCEPT ![k] = Tail(@)]
    /\ queue' = queue \cup Head(watch[k]).notify
    /\ UNCHANGED <<api, secrets, next, fuel>>

BackoffExpires ==
    /\ "retry" \in queue
    /\ queue' = (queue \ {"retry"}) \cup {"dirty"}
    /\ UNCHANGED <<api, cache, watch, secrets, next, fuel>>

-----------------------------------------------------------------------------
UserStep ==
    \/ \E s \in Specs : CreateLimitador(s) \/ UpdateLimitador(s)
    \/ DeleteLimitador \/ DeleteLimitadorForeground
    \/ \E s \in SecretNames, c \in SecretContents : SetSecret(s, c)
    \/ \E k \in EventKinds \ {"Limitador"} : DeleteChild(k)
    \/ EditDeployment \/ AddSidecar \/ EditConfigMap
    \/ \E data \in EditedBudgets : EditBudget(data)

DeploymentControllerStep ==
    \/ CreatePod
    \/ \E p \in Pods : PodReady(p) \/ StopPod(p) \/ EvictPod(p) \/ PodGone(p)
    \/ UpdateDeploymentStatus

CollectorStep ==
    \/ \E k \in ChildKinds : CollectChild(k)
    \/ CollectLimitador
    \/ ReleaseClaim

InformerStep == BackoffExpires \/ \E k \in CachedKinds : Deliver(k)

ClusterStep == UserStep \/ DeploymentControllerStep \/ CollectorStep \/ InformerStep
=============================================================================
