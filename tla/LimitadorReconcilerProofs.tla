---------------------- MODULE LimitadorReconcilerProofs ----------------------
(***************************************************************************)
(* Proofs about LimitadorReconciler, for every set of specs, every number  *)
(* of pods, every lag of the caches and every number of disturbances.      *)
(*                                                                         *)
(* The argument, bottom up: a write to the API server is announced on the  *)
(* watch of its kind (StoreLemma), so no step of the cluster changes a     *)
(* watched object in silence (ClusterStepLemma); a step of Reconcile fails *)
(* into the status or leaves the object it applied matching the spec it    *)
(* read (the ...Step lemmas, by WriteLemma); so a pass during which no     *)
(* event comes in has read the current resource and has put everything in  *)
(* place when it gets to the status (UndisturbedPass), and it either       *)
(* leaves an accurate status alone or writes one and is woken up by it     *)
(* (StatusInv).                                                            *)
(***************************************************************************)
EXTENDS LimitadorReconciler, FiniteSetTheorems, TLAPS

-----------------------------------------------------------------------------
\* Kinds and watches.

\* Every kind that raises events is cached.
LEMMA EventKindsAreCached == EventKinds \subseteq CachedKinds /\ CachedKinds \subseteq Kinds
  BY DEF EventKinds, CachedKinds, Kinds, ChildKinds

\* What is stored under each kind.
LEMMA StoredKinds ==
  /\ Stored("Limitador") = Limitadors \cup {Nil}
  /\ Stored("Service") = Services \cup {Nil}
  /\ Stored("PersistentVolumeClaim") = Claims \cup {Nil}
  /\ Stored("Deployment") = Deployments \cup {Nil}
  /\ Stored("ConfigMap") = ConfigMaps \cup {Nil}
  /\ Stored("PodDisruptionBudget") = Budgets \cup {Nil}
  /\ Stored("Pod") = {S \in SUBSET PodObjects : IsFiniteSet(S)}
  BY DEF Stored

\* Every change of a watched kind reaches the work queue: children always carry a
\* controller reference.
LEMMA ChangesNotify ==
  ASSUME NEW k \in EventKinds, NEW old \in Stored(k), NEW obj \in Stored(k), obj # old
  PROVE  Enqueues(k, old, obj)
  BY NilAssumption DEF EventKinds, Stored, Enqueues, Owned, Deployments, ConfigMaps, Budgets

\* A watch after an announcement, merged or not, ends in the announced object.
LEMMA AnnounceLemma ==
  ASSUME NEW k, NEW w \in Seq(Changes(k)), NEW obj \in Stored(k), NEW n \in SUBSET {"dirty"}
  PROVE  \A v : v = Announce(w, obj, n) =>
             /\ v \in Seq(Changes(k))
             /\ v # <<>>
             /\ v[Len(v)].obj = obj
             /\ n = {"dirty"} /\ (\A i \in 1..Len(w) : w[i].notify = {"dirty"})
                  => \A i \in 1..Len(v) : v[i].notify = {"dirty"}
<1> TAKE v
<1> HAVE v = Announce(w, obj, n)
<1>1. MaxLag \in Nat \ {0}
  BY ClusterAssumption
<1>2. CASE Len(w) < MaxLag
  <2>1. v = Append(w, [obj |-> obj, notify |-> n])
    BY <1>2 DEF Announce
  <2>2. [obj |-> obj, notify |-> n] \in Changes(k)
    BY DEF Changes
  <2>3. /\ v \in Seq(Changes(k)) /\ Len(v) = Len(w) + 1
        /\ v[Len(v)] = [obj |-> obj, notify |-> n]
        /\ \A i \in 1..Len(w) : v[i] = w[i]
    BY <2>1, <2>2
  <2> QED
    BY <2>3
<1>3. CASE ~(Len(w) < MaxLag)
  <2>1. Len(w) \in Nat \ {0}
    BY <1>1, <1>3
  <2> DEFINE e == [obj |-> obj, notify |-> n \cup w[Len(w)].notify]
  <2>2. v = [w EXCEPT ![Len(w)] = e]
    BY <1>3 DEF Announce
  <2>3. w[Len(w)] \in Changes(k)
    BY <2>1
  <2>4. e \in Changes(k)
    BY <2>3 DEF Changes
  <2>5. /\ n = {"dirty"} /\ w[Len(w)].notify = {"dirty"} => e.notify = {"dirty"}
        /\ e.obj = obj
    OBVIOUS
  <2> HIDE DEF e
  <2>6. /\ v \in Seq(Changes(k)) /\ Len(v) = Len(w) /\ v[Len(w)] = e
        /\ \A i \in 1..Len(w) : i # Len(w) => v[i] = w[i]
    BY <2>1, <2>2, <2>4
  <2> QED
    BY <2>1, <2>5, <2>6
<1> QED
  BY <1>2, <1>3

\* What a write to the API server does to the store and to the watches.
LEMMA StoreLemma ==
  ASSUME ApiOK, WatchOK, Synced, NEW k \in Kinds, NEW obj \in Stored(k),
         Store(k, obj), UNCHANGED cache
  PROVE  /\ ApiOK' /\ WatchOK' /\ Synced'
         /\ api'[k] = obj
         /\ \A j \in Kinds : j # k => api'[j] = api[j]
         /\ \A j \in CachedKinds : j # k => watch'[j] = watch[j]
         /\ \A j \in EventKinds : api'[j] # api[j] => watch'[j] # <<>>
         /\ \A j \in CachedKinds : watch'[j] = <<>> => watch[j] = <<>>
<1>0. /\ api = [j \in Kinds |-> api[j]] /\ \A j \in Kinds : api[j] \in Stored(j)
      /\ watch = [j \in CachedKinds |-> watch[j]]
      /\ \A j \in CachedKinds : watch[j] \in Seq(Changes(j))
  BY DEF ApiOK, WatchOK
<1>1. api'[k] = obj /\ (\A j \in Kinds : j # k => api'[j] = api[j])
      /\ api' = [j \in Kinds |-> api'[j]]
  BY <1>0 DEF Store
<1>2. ApiOK'
  <2>1. \A j \in Kinds : api'[j] \in Stored(j)
    BY <1>0, <1>1
  <2> QED
    BY <2>1, <1>1 DEF ApiOK
<1>3. CASE ~(k \in CachedKinds /\ obj # api[k])
  <2>1. watch' = watch
    BY <1>3 DEF Store
  <2>2. \A j \in CachedKinds : api'[j] = api[j]
    BY <1>1, <1>3, EventKindsAreCached
  <2>3. WatchOK'
    BY <2>1 DEF WatchOK
  <2>4. Synced'
    BY <2>1, <2>2 DEF Synced
  <2> QED
    BY <1>1, <1>2, <2>1, <2>2, <2>3, <2>4, EventKindsAreCached
<1>4. CASE k \in CachedKinds /\ obj # api[k]
  <2> DEFINE n == IF Enqueues(k, api[k], obj) THEN {"dirty"} ELSE {}
  <2>1. watch' = [watch EXCEPT ![k] = Announce(watch[k], obj, n)]
    BY <1>4 DEF Store
  <2>2. n \in SUBSET {"dirty"}
    OBVIOUS
  <2>3. k \in EventKinds => n = {"dirty"}
    BY <1>0, <1>4, ChangesNotify
  <2> HIDE DEF n
  <2>4. PICK v : v = Announce(watch[k], obj, n)
    OBVIOUS
  <2>5. /\ v \in Seq(Changes(k)) /\ v # <<>> /\ v[Len(v)].obj = obj
        /\ n = {"dirty"} /\ (\A i \in 1..Len(watch[k]) : watch[k][i].notify = {"dirty"})
              => \A i \in 1..Len(v) : v[i].notify = {"dirty"}
    BY <1>0, <1>4, <2>2, <2>4, AnnounceLemma
  <2>6. /\ watch'[k] = v /\ (\A j \in CachedKinds : j # k => watch'[j] = watch[j])
        /\ watch' = [j \in CachedKinds |-> watch'[j]]
    BY <1>0, <1>4, <2>1, <2>4
  <2>7. WatchOK'
    <3>1. \A j \in CachedKinds : watch'[j] \in Seq(Changes(j))
      BY <1>0, <2>5, <2>6
    <3> QED
      BY <3>1, <2>6 DEF WatchOK
  <2>8. Synced'
    <3>1. \A j \in CachedKinds :
             IF watch'[j] = <<>> THEN cache[j] = api'[j]
             ELSE watch'[j][Len(watch'[j])].obj = api'[j]
      <4> TAKE j \in CachedKinds
      <4>1. CASE j = k
        BY <4>1, <1>1, <2>5, <2>6
      <4>2. CASE j # k
        BY <4>2, <1>1, <2>6, EventKindsAreCached DEF Synced
      <4> QED
        BY <4>1, <4>2
    <3>2. \A j \in EventKinds : \A i \in 1..Len(watch'[j]) : watch'[j][i].notify = {"dirty"}
      <4> TAKE j \in EventKinds
      <4>1. CASE j = k
        BY <4>1, <2>3, <2>5, <2>6 DEF Synced
      <4>2. CASE j # k
        BY <4>2, <2>6, EventKindsAreCached DEF Synced
      <4> QED
        BY <4>1, <4>2
    <3> QED
      BY <3>1, <3>2 DEF Synced
  <2> QED
    BY <1>1, <1>2, <2>5, <2>6, <2>7, <2>8, EventKindsAreCached
<1> QED
  BY <1>3, <1>4

-----------------------------------------------------------------------------
\* The objects the operator builds.

\* The replica count of a Deployment is an integer.
LEMMA ReplicasType ==
  /\ \A s \in Specs : GetReplicas(s) \in Int
  /\ \A d \in DeploymentData : d.replicas \in Int
<1>1. \A s \in Specs : GetReplicas(s) \in Int
  BY SpecAssumption, Int32Assumption DEF GetReplicas, OrDefault, DefaultReplicas
<1>2. \A s \in Specs : DesiredDeployment(s).replicas = GetReplicas(s)
  BY DEF DesiredDeployment, Deployment
<1>3. \A s \in Specs : [DesiredDeployment(s) EXCEPT !.replicas = 0].replicas = 0
  BY DEF DesiredDeployment, Deployment
<1>4. ASSUME NEW d \in DeploymentData PROVE d.replicas \in Int
  <2>1. PICK s \in Specs :
            d = DesiredDeployment(s) \/ d = [DesiredDeployment(s) EXCEPT !.replicas = 0]
    BY DEF DeploymentData
  <2>2. CASE d = DesiredDeployment(s)
    BY <1>1, <1>2, <2>2
  <2>3. CASE d = [DesiredDeployment(s) EXCEPT !.replicas = 0]
    <3>1. d.replicas = 0
      BY <1>3, <2>3, Zenon
    <3> QED
      BY <3>1
  <2> QED
    BY <2>1, <2>2, <2>3
<1> QED
  BY <1>1, <1>4

\* Scaling a Deployment by hand leaves its template alone.
LEMMA DeploymentDataTemplate ==
  \A d \in DeploymentData : \E s \in Specs : d.template = DesiredDeployment(s).template
  BY DEF DeploymentData, DesiredDeployment, Deployment

\* The contents of a secret decide whether there is a Deployment, not which.
LEMMA SecretContentsDoNotMatter ==
  ASSUME NEW s \in Specs, NEW sec \in [SecretNames -> SecretContents],
         getDeploymentStorageOptions(s, sec).err = "none"
  PROVE  Deployment(s, getDeploymentStorageOptions(s, sec)) = DesiredDeployment(s)
<1> DEFINE good == [n \in SecretNames |-> "URL"]
<1>1. \A ref \in SecretNames \cup {Nil} :
          SecretRefError(ref, sec) = "none" => SecretRefError(ref, good) = "none"
  BY DEF SecretRefError, validateRedisSecret, SecretContents
<1> HIDE DEF good
<1>2. \A r : r.ref \in SecretNames \cup {Nil} /\ RedisDeploymentOptions(r, sec).err = "none"
          => RedisDeploymentOptions(r, good) = RedisDeploymentOptions(r, sec)
  BY <1>1 DEF RedisDeploymentOptions, StorageError, StorageOptions
<1>3. \A r : r.ref \in SecretNames \cup {Nil}
             /\ RedisCachedDeploymentOptions(r, sec).err = "none"
          => RedisCachedDeploymentOptions(r, good) = RedisCachedDeploymentOptions(r, sec)
  BY <1>1 DEF RedisCachedDeploymentOptions, StorageError, StorageOptions
<1>4. getDeploymentStorageOptions(s, good) = getDeploymentStorageOptions(s, sec)
  BY <1>2, <1>3, SpecAssumption DEF getDeploymentStorageOptions
<1> QED
  BY <1>4 DEF DesiredDeployment, good

\* What readyCondition yields is a condition.
LEMMA ReadyConditionType ==
  ASSUME NEW d, NEW e \in SpecErrors
  PROVE  readyCondition(d, e) \in Conditions
<1>1. checkLimitadorAvailable(d) \in Unavailabilities \cup {Nil}
  BY DEF checkLimitadorAvailable, Unavailabilities
<1> QED
  BY <1>1 DEF readyCondition, ReadyCondition, Conditions

\* What calculateStatus yields is a status.
LEMMA CalculateStatusType ==
  ASSUME NEW l \in Limitadors, NEW d, NEW e \in SpecErrors
  PROVE  calculateStatus(l, d, e) \in Statuses
<1>3. readyCondition(d, e) \in Conditions
  BY ReadyConditionType
<1>4. l.status.ready \in ReadyConditions \cup {Nil}
  BY DEF Limitadors, Statuses
<1>5. Now(l) \in {0, 1}
  BY <1>4 DEF Now, ReadyConditions
<1>6. SetStatusCondition(l.status.ready, readyCondition(d, e), Now(l)) \in ReadyConditions
  BY <1>3, <1>4, <1>5 DEF SetStatusCondition, ReadyConditions
<1>7. Service(l.spec) \in ServiceData /\ l.generation \in Nat
  BY DEF Limitadors, ServiceData
<1> QED
  BY <1>6, <1>7 DEF calculateStatus, Statuses, DeepCopyConditions

\* What the Deployment controller reports is a Deployment status.
LEMMA DeploymentStatusType ==
  ASSUME ApiOK, NEW d \in Deployments
  PROVE  DeploymentStatus(d) \in DeploymentStatuses
<1>1. IsFiniteSet(Pods)
  BY StoredKinds DEF ApiOK, Kinds, Pods
<1>2. Active \in SUBSET Pods /\ Ready \in SUBSET Pods
  BY DEF Active, Ready
<1>3. Cardinality(Active) \in Nat /\ Cardinality(Ready) \in Nat
  BY <1>1, <1>2, FS_Subset, FS_CardinalityType
<1>4. d.data.replicas \in Int /\ d.generation \in Nat
  BY ReplicasType DEF Deployments
<1> QED
  BY <1>3, <1>4 DEF DeploymentStatus, DeploymentStatuses

-----------------------------------------------------------------------------
\* Steps of the cluster.

\* What the operator can count on at every step of anyone: no watched object changes
\* without an event, and no event or queue entry is lost.
NothingSilent ==
    /\ \A k \in EventKinds : api'[k] # api[k] => watch'[k] # <<>>
    /\ Undisturbed' => Undisturbed
    /\ queue' = {} => queue = {}

\* Nobody but the garbage collector touches the Service.
ServiceKept == api'["Service"] # api["Service"] => Collectable(api["Service"])

\* A step of the cluster that is one write.
LEMMA ClusterWrite ==
  ASSUME ClusterOK, Synced, NEW k \in Kinds, NEW obj \in Stored(k), Store(k, obj),
         UNCHANGED <<cache, queue, secrets>>,
         next' \in [{"uid", "pod", "rv"} -> Uids], fuel' \in [Disturbances -> Nat]
  PROVE  /\ ClusterOK' /\ Synced' /\ NothingSilent
         /\ k # "Service" => ServiceKept
<1>1. /\ ApiOK' /\ WatchOK' /\ Synced'
      /\ api'[k] = obj
      /\ \A j \in Kinds : j # k => api'[j] = api[j]
      /\ \A j \in EventKinds : api'[j] # api[j] => watch'[j] # <<>>
      /\ \A j \in CachedKinds : watch'[j] = <<>> => watch[j] = <<>>
  BY StoreLemma DEF ClusterOK
<1>2. CacheOK'
  BY DEF CacheOK, ClusterOK
<1>3. ClusterOK'
  BY <1>1, <1>2 DEF ClusterOK
<1>4. NothingSilent
  BY <1>1, EventKindsAreCached DEF NothingSilent, Undisturbed
<1>5. k # "Service" => ServiceKept
  BY <1>1 DEF ServiceKept, Kinds, ChildKinds
<1> QED
  BY <1>1, <1>3, <1>4, <1>5

\* Identifiers and the disturbances that are left stay in range.
LEMMA Counters ==
  ASSUME ClusterOK
  PROVE  /\ \A d \in Disturbances : Spend(d) => fuel' \in [Disturbances -> Nat]
         /\ \A i \in {"uid", "pod", "rv"} :
                Allocate(i) => next' \in [{"uid", "pod", "rv"} -> Uids]
         /\ UNCHANGED fuel => fuel' \in [Disturbances -> Nat]
         /\ UNCHANGED next => next' \in [{"uid", "pod", "rv"} -> Uids]
         /\ next.uid \in Uids /\ next.pod \in Uids /\ next.rv \in Uids
<1>1. \A n \in Uids : (n % MaxId) + 1 \in Uids
  BY ClusterAssumption DEF Uids
<1> QED
  BY <1>1 DEF ClusterOK, Spend, Allocate

\* The objects that are there have the fields of their kind.
LEMMA LiveObjects ==
  ASSUME ClusterOK
  PROVE  /\ Live("Limitador") => api["Limitador"] \in Limitadors
         /\ Live("PersistentVolumeClaim") => api["PersistentVolumeClaim"] \in Claims
         /\ Live("Deployment") => api["Deployment"] \in Deployments
         /\ Live("ConfigMap") => api["ConfigMap"] \in ConfigMaps
         /\ Live("PodDisruptionBudget") => api["PodDisruptionBudget"] \in Budgets
         /\ Pods \subseteq PodObjects /\ IsFiniteSet(Pods)
  BY StoredKinds DEF ClusterOK, ApiOK, Kinds, ChildKinds, Live, Pods

\* Changing the spec, the deletion mark or the status of a resource yields a resource.
LEMMA EditsOfLimitador ==
  ASSUME NEW l \in Limitadors
  PROVE  /\ \A s \in Specs : [l EXCEPT !.spec = s, !.generation = @ + 1] \in Limitadors
         /\ [l EXCEPT !.deleting = 1, !.generation = @ + 1] \in Limitadors
         /\ \A st \in Statuses : [l EXCEPT !.status = st] \in Limitadors
<1>1. l.generation + 1 \in Nat
  BY DEF Limitadors
<1>2. \A s \in Specs, n \in Nat : [l EXCEPT !.spec = s, !.generation = n] \in Limitadors
  BY DEF Limitadors
<1>3. \A n \in Nat : [l EXCEPT !.deleting = 1, !.generation = n] \in Limitadors
  BY DEF Limitadors
<1>4. \A st \in Statuses : [l EXCEPT !.status = st] \in Limitadors
  BY DEF Limitadors
<1> QED
  BY <1>1, <1>2, <1>3, <1>4

\* Scaling a Deployment by hand, adding a container and reporting its status yield a
\* Deployment.
LEMMA EditsOfDeployment ==
  ASSUME NEW d \in Deployments
  PROVE  /\ [d.data EXCEPT !.replicas = 0] \in DeploymentData
                => [d EXCEPT !.data.replicas = 0, !.generation = @ + 1] \in Deployments
         /\ [d EXCEPT !.sidecar = 1, !.generation = @ + 1] \in Deployments
         /\ \A st \in DeploymentStatuses : [d EXCEPT !.status = st] \in Deployments
<1>1. d.generation + 1 \in Nat
  BY DEF Deployments
<1>2. \A data \in DeploymentData, n \in Nat :
          [d EXCEPT !.data = data, !.generation = n] \in Deployments
  BY DEF Deployments
<1>3. \A st \in DeploymentStatuses : [d EXCEPT !.status = st] \in Deployments
  BY DEF Deployments
<1>4. [d EXCEPT !.data.replicas = 0, !.generation = @ + 1]
          = [d EXCEPT !.data = [d.data EXCEPT !.replicas = 0], !.generation = d.generation + 1]
  OBVIOUS
<1>5. \A n \in Nat : [d EXCEPT !.sidecar = 1, !.generation = n] \in Deployments
  BY DEF Deployments
<1> QED
  BY <1>1, <1>2, <1>3, <1>4, <1>5

\* What users do keeps the types and reaches the operator as events.
LEMMA UserStepLemma ==
  ASSUME ClusterOK, Synced, UserStep
  PROVE  ClusterOK' /\ Synced' /\ NothingSilent /\ ServiceKept
<1> USE DEF Disturbances, Kinds, ChildKinds
<1>1. ASSUME NEW s \in Specs, CreateLimitador(s)
      PROVE  ClusterOK' /\ Synced' /\ NothingSilent /\ ServiceKept
  <2> DEFINE obj == [uid |-> next.uid, generation |-> 1, deleting |-> 0, spec |-> s,
                     status |-> EmptyStatus]
  <2>1. obj \in Stored("Limitador")
    BY Counters, StoredKinds DEF Limitadors, Statuses, EmptyStatus
  <2> HIDE DEF obj
  <2>2. Store("Limitador", obj)
    BY <1>1 DEF CreateLimitador, obj
  <2> QED
    BY <1>1, <2>1, <2>2, Counters, ClusterWrite DEF CreateLimitador
<1>2. ASSUME NEW s \in Specs, UpdateLimitador(s)
      PROVE  ClusterOK' /\ Synced' /\ NothingSilent /\ ServiceKept
  <2> DEFINE obj == [api["Limitador"] EXCEPT !.spec = s, !.generation = @ + 1]
  <2>1. obj \in Stored("Limitador")
    BY <1>2, LiveObjects, StoredKinds, EditsOfLimitador DEF UpdateLimitador
  <2> HIDE DEF obj
  <2>2. Store("Limitador", obj)
    BY <1>2 DEF UpdateLimitador, obj
  <2> QED
    BY <1>2, <2>1, <2>2, Counters, ClusterWrite DEF UpdateLimitador
<1>3. CASE DeleteLimitador
  BY <1>3, StoredKinds, Counters, ClusterWrite DEF DeleteLimitador
<1>4. CASE DeleteLimitadorForeground
  <2> DEFINE obj == [api["Limitador"] EXCEPT !.deleting = 1, !.generation = @ + 1]
  <2>1. obj \in Stored("Limitador")
    BY <1>4, LiveObjects, StoredKinds, EditsOfLimitador DEF DeleteLimitadorForeground
  <2> HIDE DEF obj
  <2>2. Store("Limitador", obj)
    BY <1>4 DEF DeleteLimitadorForeground, obj
  <2> QED
    BY <1>4, <2>1, <2>2, Counters, ClusterWrite DEF DeleteLimitadorForeground
<1>5. ASSUME NEW n \in SecretNames, NEW c \in SecretContents, SetSecret(n, c)
      PROVE  ClusterOK' /\ Synced' /\ NothingSilent /\ ServiceKept
  <2>1. UNCHANGED <<api, cache, watch, queue>>
    BY <1>5 DEF SetSecret
  <2>2. ClusterOK'
    BY <1>5, <2>1, Counters DEF SetSecret, ClusterOK, ApiOK, CacheOK, WatchOK
  <2>3. Synced'
    BY <2>1 DEF Synced
  <2> QED
    BY <2>1, <2>2, <2>3 DEF NothingSilent, ServiceKept, Undisturbed
<1>6. ASSUME NEW k \in EventKinds \ {"Limitador"}, DeleteChild(k)
      PROVE  ClusterOK' /\ Synced' /\ NothingSilent /\ ServiceKept
  <2>1. Nil \in Stored(k) /\ k \in Kinds /\ k # "Service"
    BY StoredKinds DEF EventKinds
  <2> QED
    BY <1>6, <2>1, Counters, ClusterWrite DEF DeleteChild
<1>7. CASE EditDeployment
  <2> DEFINE obj == [api["Deployment"] EXCEPT !.data.replicas = 0, !.generation = @ + 1]
  <2>1. api["Deployment"] \in Deployments /\ api["Deployment"].data.replicas # 0
    BY <1>7, LiveObjects DEF EditDeployment
  <2>2. PICK s \in Specs : api["Deployment"].data = DesiredDeployment(s)
    <3>1. \A s \in Specs : [DesiredDeployment(s) EXCEPT !.replicas = 0].replicas = 0
      BY DEF DesiredDeployment, Deployment
    <3> QED
      BY <2>1, <3>1, Zenon DEF Deployments, DeploymentData
  <2>3. [api["Deployment"].data EXCEPT !.replicas = 0] \in DeploymentData
    BY <2>2 DEF DeploymentData
  <2>4. obj \in Stored("Deployment")
    BY <2>1, <2>3, StoredKinds, EditsOfDeployment
  <2> HIDE DEF obj
  <2>5. Store("Deployment", obj)
    BY <1>7 DEF EditDeployment, obj
  <2> QED
    BY <1>7, <2>4, <2>5, Counters, ClusterWrite DEF EditDeployment
<1>8. CASE EditConfigMap
  <2> DEFINE obj == [api["ConfigMap"] EXCEPT !.data = [limits |-> <<"edited">>],
                                             !.rv = next.rv]
  <2>1. obj \in Stored("ConfigMap")
    BY <1>8, LiveObjects, Counters, StoredKinds
       DEF EditConfigMap, ConfigMaps, ConfigMapData
  <2> HIDE DEF obj
  <2>2. Store("ConfigMap", obj)
    BY <1>8 DEF EditConfigMap, obj
  <2> QED
    BY <1>8, <2>1, <2>2, Counters, ClusterWrite DEF EditConfigMap
<1>9. CASE AddSidecar
  <2> DEFINE obj == [api["Deployment"] EXCEPT !.sidecar = 1, !.generation = @ + 1]
  <2>1. obj \in Stored("Deployment")
    BY <1>9, LiveObjects, StoredKinds, EditsOfDeployment DEF AddSidecar
  <2> HIDE DEF obj
  <2>2. Store("Deployment", obj)
    BY <1>9 DEF AddSidecar, obj
  <2> QED
    BY <1>9, <2>1, <2>2, Counters, ClusterWrite DEF AddSidecar
<1>10. ASSUME NEW data \in EditedBudgets, EditBudget(data)
       PROVE  ClusterOK' /\ Synced' /\ NothingSilent /\ ServiceKept
  <2> DEFINE theirs == {f \in BudgetFields : data[f] # Nil}
             obj == [api["PodDisruptionBudget"] EXCEPT !.data = data, !.theirs = theirs]
  <2>1. data \in BudgetData /\ theirs \in SUBSET BudgetFields
    BY DEF EditedBudgets, BudgetData
  <2>2. Store("PodDisruptionBudget", obj)
    BY <1>10 DEF EditBudget
  <2> HIDE DEF theirs
  <2>3. obj \in Stored("PodDisruptionBudget")
    BY <1>10, <2>1, LiveObjects, StoredKinds DEF EditBudget, Budgets
  <2> HIDE DEF obj
  <2> QED
    BY <1>10, <2>2, <2>3, Counters, ClusterWrite DEF EditBudget
<1> QED
  BY <1>1, <1>2, <1>3, <1>4, <1>5, <1>6, <1>7, <1>8, <1>9, <1>10 DEF UserStep

\* Edits of the set of pods.
LEMMA EditsOfPods ==
  ASSUME ClusterOK
  PROVE  /\ \A p \in PodObjects : Pods \cup {p} \in Stored("Pod")
         /\ \A p \in Pods : Pods \ {p} \in Stored("Pod")
         /\ \A p \in Pods, q \in PodObjects : (Pods \ {p}) \cup {q} \in Stored("Pod")
<1>1. Pods \subseteq PodObjects /\ IsFiniteSet(Pods)
  BY LiveObjects
<1>2. \A p : IsFiniteSet(Pods \ {p}) /\ IsFiniteSet(Pods \cup {p})
  BY <1>1, FS_AddElement, FS_RemoveElement
<1>3. \A p, q : IsFiniteSet((Pods \ {p}) \cup {q})
  BY <1>2, FS_AddElement
<1> QED
  BY <1>1, <1>2, <1>3, StoredKinds

\* Starting, stopping and annotating a pod yield a pod.
LEMMA EditsOfPod ==
  ASSUME NEW p \in PodObjects
  PROVE  /\ [p EXCEPT !.ready = 1] \in PodObjects
         /\ [p EXCEPT !.terminating = 1] \in PodObjects
         /\ \A r \in Uids \cup {Nil} : [p EXCEPT !.rv = r] \in PodObjects
  BY DEF PodObjects

\* So does what the Deployment controller and the kubelet do.
LEMMA DeploymentControllerStepLemma ==
  ASSUME ClusterOK, Synced, DeploymentControllerStep
  PROVE  ClusterOK' /\ Synced' /\ NothingSilent /\ ServiceKept
<1> USE DEF Disturbances, Kinds, ChildKinds
<1>0. \A p \in Pods : p \in PodObjects
  BY LiveObjects
<1>1. CASE CreatePod
  <2> DEFINE p == [name |-> next.pod, template |-> api["Deployment"].data.template,
                   sidecar |-> api["Deployment"].sidecar, ready |-> 0, terminating |-> 0,
                   rv |-> Nil]
             obj == Pods \cup {p}
  <2>1. api["Deployment"].data \in DeploymentData /\ api["Deployment"].sidecar \in {0, 1}
    BY <1>1, LiveObjects DEF CreatePod, Deployments
  <2>2. p \in PodObjects
    BY <2>1, DeploymentDataTemplate, Counters DEF PodObjects
  <2>3. Store("Pod", obj)
    BY <1>1 DEF CreatePod
  <2> HIDE DEF p
  <2>4. obj \in Stored("Pod")
    BY <2>2, EditsOfPods
  <2> HIDE DEF obj
  <2> QED
    BY <1>1, <2>3, <2>4, Counters, ClusterWrite DEF CreatePod
<1>2. ASSUME NEW p \in Pods, PodReady(p)
      PROVE  ClusterOK' /\ Synced' /\ NothingSilent /\ ServiceKept
  <2> DEFINE obj == (Pods \ {p}) \cup {[p EXCEPT !.ready = 1]}
  <2>1. obj \in Stored("Pod")
    BY <1>0, EditsOfPod, EditsOfPods
  <2>2. Store("Pod", obj)
    BY <1>2 DEF PodReady
  <2> HIDE DEF obj
  <2> QED
    BY <1>2, <2>1, <2>2, Counters, ClusterWrite DEF PodReady
<1>3. ASSUME NEW p \in Pods, StopPod(p) \/ EvictPod(p)
      PROVE  ClusterOK' /\ Synced' /\ NothingSilent /\ ServiceKept
  <2> DEFINE obj == (Pods \ {p}) \cup {[p EXCEPT !.terminating = 1]}
  <2>1. obj \in Stored("Pod")
    BY <1>0, EditsOfPod, EditsOfPods
  <2>2. Store("Pod", obj)
    BY <1>3 DEF StopPod, EvictPod, Terminate
  <2> HIDE DEF obj
  <2> QED
    BY <1>3, <2>1, <2>2, Counters, ClusterWrite DEF StopPod, EvictPod
<1>4. ASSUME NEW p \in Pods, PodGone(p)
      PROVE  ClusterOK' /\ Synced' /\ NothingSilent /\ ServiceKept
  BY <1>4, EditsOfPods, Counters, ClusterWrite DEF PodGone
<1>5. CASE UpdateDeploymentStatus
  <2> DEFINE d == api["Deployment"]
             obj == [d EXCEPT !.status = DeploymentStatus(d)]
  <2>1. obj \in Stored("Deployment")
    BY <1>5, LiveObjects, DeploymentStatusType, EditsOfDeployment, StoredKinds
       DEF UpdateDeploymentStatus, ClusterOK
  <2>2. Store("Deployment", obj)
    BY <1>5 DEF UpdateDeploymentStatus
  <2> HIDE DEF obj
  <2> QED
    BY <1>5, <2>1, <2>2, Counters, ClusterWrite DEF UpdateDeploymentStatus
<1> QED
  BY <1>1, <1>2, <1>3, <1>4, <1>5 DEF DeploymentControllerStep

\* What is left of a child that is deleted.
LEMMA RemovedType ==
  ASSUME ClusterOK, NEW k \in ChildKinds, Live(k)
  PROVE  Removed(k) \in Stored(k)
<1>1. CASE k = "PersistentVolumeClaim"
  <2>1. api[k] \in Claims
    BY <1>1, LiveObjects
  <2>2. [api[k] EXCEPT !.deleting = 1] \in Claims
    BY <2>1 DEF Claims
  <2> QED
    BY <1>1, <2>2, StoredKinds DEF Removed
<1>2. CASE k # "PersistentVolumeClaim"
  BY <1>2, StoredKinds DEF Removed, ChildKinds
<1> QED
  BY <1>1, <1>2

\* So does what the garbage collector does; it takes the Service of a dead owner only.
LEMMA CollectorStepLemma ==
  ASSUME ClusterOK, Synced, CollectorStep
  PROVE  ClusterOK' /\ Synced' /\ NothingSilent /\ ServiceKept
<1> USE DEF Kinds
<1>1. ASSUME NEW k \in ChildKinds, CollectChild(k)
      PROVE  ClusterOK' /\ Synced' /\ NothingSilent /\ ServiceKept
  <2>1. Live(k) /\ Removed(k) \in Stored(k)
    BY <1>1, RemovedType DEF CollectChild, Collectable, Owned, Live
  <2>2. ClusterOK' /\ Synced' /\ NothingSilent /\ (k # "Service" => ServiceKept)
    BY <1>1, <2>1, Counters, ClusterWrite DEF CollectChild
  <2>3. k = "Service" => ServiceKept
    BY <1>1 DEF CollectChild, ServiceKept
  <2> QED
    BY <2>2, <2>3
<1>2. CASE CollectLimitador
  BY <1>2, StoredKinds, Counters, ClusterWrite DEF CollectLimitador, ChildKinds
<1>3. CASE ReleaseClaim
  BY <1>3, StoredKinds, Counters, ClusterWrite DEF ReleaseClaim, ChildKinds
<1> QED
  BY <1>1, <1>2, <1>3 DEF CollectorStep

\* The delivery of the oldest change that waits.
LEMMA DeliverLemma ==
  ASSUME ClusterOK, Synced, NEW k \in CachedKinds, Deliver(k)
  PROVE  ClusterOK' /\ Synced' /\ NothingSilent /\ ServiceKept
<1> DEFINE w == watch[k]
<1>1. /\ w \in Seq(Changes(k)) /\ w # <<>>
      /\ cache = [j \in CachedKinds |-> cache[j]] /\ watch = [j \in CachedKinds |-> watch[j]]
      /\ \A j \in CachedKinds : cache[j] \in Stored(j) /\ watch[j] \in Seq(Changes(j))
  BY DEF ClusterOK, CacheOK, WatchOK, Deliver
<1>2. /\ Len(w) \in Nat \ {0} /\ Head(w) = w[1] /\ Head(w) \in Changes(k)
      /\ Tail(w) \in Seq(Changes(k)) /\ Len(Tail(w)) = Len(w) - 1
      /\ \A i \in 1..(Len(w) - 1) : Tail(w)[i] = w[i + 1]
      /\ Tail(w) = <<>> <=> Len(w) = 1
  <2> HIDE DEF w
  <2>1. Len(w) \in Nat \ {0} /\ Head(w) = w[1]
    BY <1>1
  <2>2. Head(w) \in Changes(k)
    BY <1>1, <2>1
  <2>3. Tail(w) \in Seq(Changes(k)) /\ Len(Tail(w)) = Len(w) - 1
    BY <1>1, <2>1
  <2>4. \A i \in 1..(Len(w) - 1) : Tail(w)[i] = w[i + 1]
    BY <1>1, <2>1
  <2>5. Tail(w) = <<>> <=> Len(w) = 1
    <3>1. \A t \in Seq(Changes(k)) : t = <<>> <=> Len(t) = 0
      OBVIOUS
    <3>2. Tail(w) = <<>> <=> Len(Tail(w)) = 0
      BY <2>3, <3>1, Zenon
    <3>3. Len(Tail(w)) = 0 <=> Len(w) = 1
      BY <2>1, <2>3
    <3> QED
      BY <3>2, <3>3, Zenon
  <2> QED
    BY <2>1, <2>2, <2>3, <2>4, <2>5
<1>3. /\ cache'[k] = Head(w).obj /\ watch'[k] = Tail(w)
      /\ cache' = [j \in CachedKinds |-> cache'[j]] /\ watch' = [j \in CachedKinds |-> watch'[j]]
      /\ \A j \in CachedKinds : j # k => cache'[j] = cache[j] /\ watch'[j] = watch[j]
      /\ queue' = queue \cup Head(w).notify
      /\ UNCHANGED <<api, secrets, next, fuel>>
  BY <1>1 DEF Deliver
<1> HIDE DEF w
<1>4. Head(w).obj \in Stored(k) /\ Head(w).notify \in SUBSET {"dirty"}
  BY <1>2 DEF Changes
<1>5. ClusterOK'
  <2>1. \A j \in CachedKinds : cache'[j] \in Stored(j) /\ watch'[j] \in Seq(Changes(j))
    BY <1>1, <1>2, <1>3, <1>4
  <2>2. CacheOK' /\ WatchOK'
    BY <2>1, <1>3 DEF CacheOK, WatchOK
  <2>3. ApiOK'
    BY <1>3 DEF ApiOK, ClusterOK
  <2> QED
    BY <2>2, <2>3, <1>3, <1>4 DEF ClusterOK
<1>6. Synced'
  <2>1. \A j \in CachedKinds :
           IF watch'[j] = <<>> THEN cache'[j] = api[j]
           ELSE watch'[j][Len(watch'[j])].obj = api[j]
    <3> TAKE j \in CachedKinds
    <3>1. CASE j = k
      <4>1. w[Len(w)].obj = api[k]
        BY <1>1 DEF Synced, w
      <4>2. CASE Len(w) = 1
        BY <3>1, <4>1, <4>2, <1>2, <1>3
      <4>3. CASE Len(w) # 1
        <5>1. Tail(w)[Len(w) - 1] = w[Len(w)]
          BY <4>3, <1>2
        <5> QED
          BY <3>1, <4>1, <4>3, <5>1, <1>2, <1>3
      <4> QED
        BY <4>2, <4>3
    <3>2. CASE j # k
      BY <3>2, <1>3 DEF Synced
    <3> QED
      BY <3>1, <3>2
  <2>2. \A j \in EventKinds : \A i \in 1..Len(watch'[j]) : watch'[j][i].notify = {"dirty"}
    <3> TAKE j \in EventKinds
    <3>1. CASE j = k
      BY <3>1, <1>2, <1>3 DEF Synced, w
    <3>2. CASE j # k
      BY <3>2, <1>3, EventKindsAreCached DEF Synced
    <3> QED
      BY <3>1, <3>2
  <2> QED
    BY <2>1, <2>2, <1>3 DEF Synced
<1>7. NothingSilent
  <2>1. k \in EventKinds => "dirty" \in queue'
    <3>1. k \in EventKinds => Head(w).notify = {"dirty"}
      BY <1>2 DEF Synced, w
    <3> QED
      BY <3>1, <1>3
  <2> QED
    BY <2>1, <1>3, EventKindsAreCached DEF NothingSilent, Undisturbed
<1> QED
  BY <1>3, <1>5, <1>6, <1>7 DEF ServiceKept

\* A step of the cluster keeps the types, tells the operator of every change it
\* watches for, and touches the Service only to collect it.
LEMMA ClusterStepLemma ==
  ASSUME ClusterOK, Synced, ClusterStep
  PROVE  ClusterOK' /\ Synced' /\ NothingSilent /\ ServiceKept
<1>1. CASE BackoffExpires
  <2>1. UNCHANGED <<api, cache, watch, secrets, next, fuel>>
    BY <1>1 DEF BackoffExpires
  <2>2. ClusterOK'
    BY <1>1, <2>1 DEF BackoffExpires, ClusterOK, ApiOK, CacheOK, WatchOK
  <2>3. Synced'
    BY <2>1 DEF Synced
  <2> QED
    BY <1>1, <2>1, <2>2, <2>3 DEF BackoffExpires, NothingSilent, ServiceKept, Undisturbed
<1> QED
  BY <1>1, UserStepLemma, DeploymentControllerStepLemma, CollectorStepLemma, DeliverLemma
     DEF ClusterStep, InformerStep

-----------------------------------------------------------------------------
\* Steps of a pass of Reconcile, up to the status.

\* A pass between its first step and its status.
MidPass == pc \notin {"idle", "status"}

\* How such a step may end: reconcileSpec fails and goes to the status, or the pass goes
\* on with everything applied so far that was not overwritten and one more kind applied.
\* Either way what it has written is what the snapshot asks for.
Advances ==
    /\ TypeOK' /\ Synced' /\ NothingSilent
    /\ lim' = lim /\ pc' # "idle" /\ api'["Limitador"] = api["Limitador"]
    /\ \A k \in AppliedKinds : api'[k] = api[k] \/ Matches(k, lim)'
    /\ specErr' = "none" =>
         \A k \in AppliedBefore(pc') :
             Matches(k, lim)' \/ (k \in AppliedBefore(pc) /\ api'[k] = api[k])

\* The kinds a pass applies are children of the resource.
LEMMA AppliedKindsLemma ==
  /\ AppliedKinds \subseteq Kinds \ {"Limitador", "Pod"}
  /\ \A step : AppliedBefore(step) \subseteq AppliedKinds
  BY DEF AppliedKinds, AppliedBefore, Kinds, ChildKinds

\* A pass under way holds a resource and has met no error yet.
LEMMA MidPassTypes ==
  ASSUME TypeOK, MidPass
  PROVE  /\ lim \in Limitadors /\ lim.uid \in Uids /\ lim.spec \in Specs
         /\ specErr = "none"
  BY NilAssumption DEF TypeOK, WorkerOK, MidPass, Steps, Limitadors

\* A step that ends reconcileSpec with an error and writes nothing.
LEMMA FailLemma ==
  ASSUME TypeOK, Synced, MidPass, NEW e \in SpecErrors \ {"none"}, FailSpec(e),
         UNCHANGED clusterVars
  PROVE  Advances
<1>1. ClusterOK'
  BY DEF TypeOK, ClusterOK, ApiOK, CacheOK, WatchOK, clusterVars
<1>2. WorkerOK'
  BY MidPassTypes, NilAssumption DEF TypeOK, WorkerOK, FailSpec, Steps, MidPass
<1>3. Synced' /\ NothingSilent
  BY DEF Synced, NothingSilent, Undisturbed, clusterVars
<1> QED
  BY <1>1, <1>2, <1>3 DEF Advances, TypeOK, FailSpec, clusterVars

\* A step that goes on without a write.
LEMMA GoOnLemma ==
  ASSUME TypeOK, Synced, MidPass, NEW step \in Steps \ {"idle"}, GoTo(step),
         AppliedBefore(step) \subseteq AppliedBefore(pc), UNCHANGED clusterVars
  PROVE  Advances
<1>1. ClusterOK'
  BY DEF TypeOK, ClusterOK, ApiOK, CacheOK, WatchOK, clusterVars
<1>2. WorkerOK'
  BY MidPassTypes, NilAssumption DEF TypeOK, WorkerOK, GoTo, Steps, MidPass
<1>3. Synced' /\ NothingSilent
  BY DEF Synced, NothingSilent, Undisturbed, clusterVars
<1> QED
  BY <1>1, <1>2, <1>3 DEF Advances, TypeOK, GoTo, clusterVars

\* A step that writes one object, with or without success.
LEMMA WriteLemma ==
  ASSUME TypeOK, Synced, MidPass, NEW k \in Kinds \ {"Limitador"}, NEW obj \in Stored(k),
         NEW step \in Steps \ {"idle"}, Write(k, obj, step),
         UNCHANGED <<cache, queue, secrets>>,
         next' \in [{"uid", "pod", "rv"} -> Uids],
         AppliedBefore(step) \subseteq AppliedBefore(pc) \cup {k},
         api'[k] = obj /\ lim' = lim /\ k \in AppliedKinds => Matches(k, lim)'
  PROVE  Advances
<1>1. CASE Store(k, obj) /\ GoTo(step) /\ UNCHANGED fuel
  <2>1. ClusterOK' /\ Synced' /\ NothingSilent
    BY <1>1, Counters, ClusterWrite DEF TypeOK
  <2>2. api'[k] = obj /\ \A j \in Kinds : j # k => api'[j] = api[j]
    BY <1>1, StoreLemma DEF TypeOK, ClusterOK
  <2>3. WorkerOK' /\ lim' = lim /\ pc' = step
    BY <1>1, MidPassTypes, NilAssumption DEF TypeOK, WorkerOK, GoTo, Steps, MidPass
  <2> QED
    BY <2>1, <2>2, <2>3, AppliedKindsLemma DEF Advances, TypeOK, Kinds
<1>2. CASE Spend("fault") /\ FailSpec("APIError") /\ Store(k, obj)
  <2>1. ClusterOK' /\ Synced' /\ NothingSilent
    BY <1>2, Counters, ClusterWrite DEF TypeOK, Disturbances
  <2>2. api'[k] = obj /\ \A j \in Kinds : j # k => api'[j] = api[j]
    BY <1>2, StoreLemma DEF TypeOK, ClusterOK
  <2>3. WorkerOK' /\ lim' = lim /\ specErr' # "none" /\ pc' # "idle"
    BY <1>2, MidPassTypes, NilAssumption DEF TypeOK, WorkerOK, FailSpec, Steps, SpecErrors
  <2> QED
    BY <2>1, <2>2, <2>3, AppliedKindsLemma DEF Advances, TypeOK, Kinds
<1>3. CASE Spend("fault") /\ FailSpec("APIError") /\ UNCHANGED <<api, watch>>
  <2>1. ClusterOK'
    BY <1>3, Counters DEF TypeOK, ClusterOK, ApiOK, CacheOK, WatchOK, Disturbances
  <2>2. WorkerOK'
    BY <1>3, MidPassTypes, NilAssumption DEF TypeOK, WorkerOK, FailSpec, Steps, SpecErrors
  <2>3. Synced' /\ NothingSilent
    BY <1>3 DEF Synced, NothingSilent, Undisturbed
  <2> QED
    BY <1>3, <2>1, <2>2, <2>3 DEF Advances, TypeOK, FailSpec
<1> QED
  BY <1>1, <1>2, <1>3 DEF Write

\* reconcileService leaves the Service of the spec that was read.
LEMMA ServiceStep ==
  ASSUME TypeOK, Synced, reconcileService
  PROVE  Advances
<1> DEFINE obj == AppliedService(lim)
<1>0. MidPass
  BY DEF MidPass, reconcileService
<1>1. obj \in Services
  BY <1>0, MidPassTypes DEF AppliedService, SetOwnerReference, Services, ServiceData
<1>2. obj.owner = lim.uid /\ obj.data = Service(lim.spec)
  BY DEF AppliedService, SetOwnerReference
<1>3. Service(lim.spec) # Nil
  BY <1>0, MidPassTypes, NilAssumption DEF ServiceData
<1>4. Write("Service", obj, "pvc")
  BY DEF reconcileService
<1> HIDE DEF obj
<1>5. api'["Service"] = obj /\ lim' = lim => Matches("Service", lim)'
  BY <1>1, <1>2, <1>3, NilAssumption DEF Matches, Agrees, Desired, Live
<1> QED
  BY <1>0, <1>1, <1>4, <1>5, WriteLemma, StoredKinds, Counters
     DEF TypeOK, reconcileService, Kinds, ChildKinds, Steps, AppliedBefore

\* reconcilePVC touches none of the objects that are applied.
LEMMA PVCStep ==
  ASSUME TypeOK, Synced, reconcilePVC
  PROVE  Advances
<1> DEFINE k == "PersistentVolumeClaim"
           obj == [owner |-> lim.uid, data |-> PVC(lim.spec), deleting |-> 0]
<1>0. /\ MidPass /\ pc = "pvc" /\ UNCHANGED <<cache, queue, secrets, next>>
      /\ next' \in [{"uid", "pod", "rv"} -> Uids]
      /\ AppliedBefore("deployment") = AppliedBefore("pvc")
      /\ k \notin AppliedKinds
      /\ k \in ChildKinds /\ k \in Kinds \ {"Limitador"}
      /\ "deployment" \in Steps \ {"idle"}
  BY Counters DEF MidPass, reconcilePVC, TypeOK, Kinds, ChildKinds, Steps, AppliedBefore,
                  AppliedKinds
<1>1. CASE PVC(lim.spec) = Nil /\ Live(k)
  <2>1. Removed(k) \in Stored(k)
    BY <1>0, <1>1, RemovedType DEF TypeOK
  <2>2. Write(k, Removed(k), "deployment")
    BY <1>1 DEF reconcilePVC, DeleteResource
  <2> QED
    BY <1>0, <2>1, <2>2, WriteLemma
<1>2. CASE PVC(lim.spec) = Nil /\ ~Live(k)
  <2>1. Write(k, Nil, "deployment")
    BY <1>2 DEF reconcilePVC, DeleteResource
  <2> QED
    BY <1>0, <2>1, WriteLemma, StoredKinds
<1>3. CASE PVC(lim.spec) # Nil /\ cache[k] # Nil
  <2>1. GoTo("deployment") /\ UNCHANGED clusterVars
    BY <1>0, <1>3 DEF reconcilePVC, clusterVars
  <2> QED
    BY <1>0, <2>1, GoOnLemma
<1>4. CASE PVC(lim.spec) # Nil /\ cache[k] = Nil /\ Live(k)
  <2>1. FailSpec("AlreadyExists") /\ UNCHANGED clusterVars
    BY <1>0, <1>4 DEF reconcilePVC, clusterVars
  <2>2. "AlreadyExists" \in SpecErrors \ {"none"}
    BY DEF SpecErrors
  <2> QED
    BY <1>0, <2>1, <2>2, FailLemma
<1>5. CASE PVC(lim.spec) # Nil /\ cache[k] = Nil /\ ~Live(k)
  <2>1. obj \in Stored(k)
    BY <1>0, <1>5, MidPassTypes, StoredKinds DEF Claims
  <2>2. Write(k, obj, "deployment")
    BY <1>0, <1>5 DEF reconcilePVC, NewClaim, SetOwnerReference
  <2> HIDE DEF obj
  <2> QED
    BY <1>0, <2>1, <2>2, WriteLemma
<1> QED
  BY <1>1, <1>2, <1>3, <1>4, <1>5

\* The errors of the storage options.
LEMMA StorageErrors ==
  ASSUME NEW s, NEW sec
  PROVE  getDeploymentStorageOptions(s, sec).err \in SpecErrors
<1>1. \A ref : SecretRefError(ref, sec) \in SpecErrors
  BY DEF SecretRefError, validateRedisSecret, SpecErrors
<1>2. \A r : RedisDeploymentOptions(r, sec).err \in SpecErrors
  BY <1>1 DEF RedisDeploymentOptions, StorageError, StorageOptions
<1>3. \A r : RedisCachedDeploymentOptions(r, sec).err \in SpecErrors
  BY <1>1 DEF RedisCachedDeploymentOptions, StorageError, StorageOptions
<1>4. /\ \A r : DiskDeploymentOptions(r).err \in SpecErrors
      /\ InMemoryDeploymentOptions.err \in SpecErrors
  BY DEF DiskDeploymentOptions, InMemoryDeploymentOptions, StorageOptions, SpecErrors
<1> QED
  BY <1>2, <1>3, <1>4 DEF getDeploymentStorageOptions

\* What the API server makes of an apply of the Deployment.
LEMMA AppliedDeploymentLemma ==
  ASSUME ClusterOK, NEW l, l.uid \in Uids, NEW data \in DeploymentData
  PROVE  /\ AppliedDeployment(l, data) \in Deployments
         /\ AppliedDeployment(l, data).owner = l.uid
         /\ AppliedDeployment(l, data).data = data
<1>1. EmptyDeploymentStatus \in DeploymentStatuses
  BY DEF EmptyDeploymentStatus, DeploymentStatuses
<1>2. CASE api["Deployment"] = Nil
  BY <1>1, <1>2 DEF AppliedDeployment, SetOwnerReference, Deployments
<1>3. CASE api["Deployment"] # Nil
  <2>1. api["Deployment"] \in Deployments
    BY <1>3, LiveObjects DEF Live
  <2> QED
    BY <1>3, <2>1 DEF AppliedDeployment, SetOwnerReference, Deployments
<1> QED
  BY <1>2, <1>3

\* reconcileDeployment fails on its secret or its replica count, or leaves the
\* Deployment of the spec that was read.
LEMMA DeploymentStep ==
  ASSUME TypeOK, Synced, reconcileDeployment
  PROVE  Advances
<1> DEFINE storage == getDeploymentStorageOptions(lim.spec, secrets)
           desired == Deployment(lim.spec, storage)
           obj == AppliedDeployment(lim, desired)
<1>0. /\ MidPass /\ pc = "deployment" /\ UNCHANGED <<cache, queue, secrets, next>>
      /\ lim \in Limitadors /\ lim.uid \in Uids /\ lim.spec \in Specs
  BY MidPassTypes DEF MidPass, reconcileDeployment
<1>1. CASE storage.err # "none"
  <2>1. FailSpec(storage.err) /\ UNCHANGED clusterVars
    BY <1>0, <1>1 DEF reconcileDeployment, clusterVars
  <2>2. storage.err \in SpecErrors \ {"none"}
    BY <1>1, StorageErrors
  <2> HIDE DEF storage
  <2> QED
    BY <1>0, <2>1, <2>2, FailLemma
<1>2. CASE storage.err = "none" /\ desired.replicas < 0
  <2>1. FailSpec("Rejected") /\ UNCHANGED clusterVars
    BY <1>0, <1>2 DEF reconcileDeployment, clusterVars
  <2>2. "Rejected" \in SpecErrors \ {"none"}
    BY DEF SpecErrors
  <2> QED
    BY <1>0, <2>1, <2>2, FailLemma
<1>3. CASE storage.err = "none" /\ ~(desired.replicas < 0)
  <2>1. desired = DesiredDeployment(lim.spec)
    BY <1>0, <1>3, SecretContentsDoNotMatter DEF TypeOK, ClusterOK
  <2>2. Write("Deployment", obj, "configmap")
    BY <1>3 DEF reconcileDeployment
  <2> HIDE DEF storage, desired
  <2>3. desired \in DeploymentData /\ desired # Nil
    BY <1>0, <2>1, NilAssumption DEF DeploymentData
  <2>5. obj \in Deployments /\ obj.owner = lim.uid /\ obj.data = desired
    BY <1>0, <2>3, AppliedDeploymentLemma DEF TypeOK
  <2> HIDE DEF obj
  <2>6. api'["Deployment"] = obj /\ lim' = lim => Matches("Deployment", lim)'
    BY <2>1, <2>3, <2>5, NilAssumption DEF Matches, Agrees, Desired, Live
  <2> QED
    BY <1>0, <2>2, <2>5, <2>6, WriteLemma, StoredKinds, Counters
       DEF TypeOK, Kinds, ChildKinds, Steps, AppliedBefore
<1> QED
  BY <1>1, <1>2, <1>3

\* What the API server makes of an apply of the ConfigMap.
LEMMA AppliedConfigMapLemma ==
  ASSUME ClusterOK, NEW l, l.uid \in Uids, l.spec \in Specs
  PROVE  /\ AppliedConfigMap(l) \in ConfigMaps
         /\ AppliedConfigMap(l).owner = l.uid
         /\ AppliedConfigMap(l).data = LimitsConfigMap(l.spec)
<1> DEFINE data == LimitsConfigMap(l.spec)
           same == api["ConfigMap"] # Nil /\ api["ConfigMap"].owner = l.uid
                   /\ api["ConfigMap"].data = data
<1>1. data \in ConfigMapData
  BY DEF ConfigMapData
<1> HIDE DEF data
<1>2. CASE same
  BY <1>2, LiveObjects DEF AppliedConfigMap, SetOwnerReference, Live, data
<1>3. CASE ~same
  <2>1. AppliedConfigMap(l) = [owner |-> l.uid, data |-> data, rv |-> next.rv]
    BY <1>3 DEF AppliedConfigMap, SetOwnerReference, data
  <2> QED
    BY <1>1, <2>1, Counters DEF ConfigMaps, data
<1> QED
  BY <1>2, <1>3

\* reconcileLimitsConfigMap leaves the ConfigMap of the spec that was read, whether the
\* apply changed it or not.
LEMMA ConfigMapStep ==
  ASSUME TypeOK, Synced, reconcileLimitsConfigMap
  PROVE  Advances
<1> DEFINE obj == AppliedConfigMap(lim)
           data == LimitsConfigMap(lim.spec)
<1>0. /\ MidPass /\ pc = "configmap" /\ UNCHANGED <<cache, queue, secrets>>
      /\ lim \in Limitadors /\ lim.uid \in Uids /\ lim.spec \in Specs
  BY MidPassTypes DEF MidPass, reconcileLimitsConfigMap
<1>1. next' \in [{"uid", "pod", "rv"} -> Uids]
  BY Counters DEF reconcileLimitsConfigMap, TypeOK
<1>2. Write("ConfigMap", obj, "pdb")
  BY DEF reconcileLimitsConfigMap
<1>3. data \in ConfigMapData /\ data # Nil
  BY <1>0, NilAssumption DEF ConfigMapData
<1>4. obj \in ConfigMaps /\ obj.owner = lim.uid /\ obj.data = data
  BY <1>0, AppliedConfigMapLemma DEF TypeOK
<1>5. Desired("ConfigMap", lim.spec) = data
  BY DEF Desired
<1> HIDE DEF obj, data
<1>6. api'["ConfigMap"] = obj /\ lim' = lim => Matches("ConfigMap", lim)'
  BY <1>3, <1>4, <1>5, NilAssumption DEF Matches, Agrees, Live
<1> QED
  BY <1>0, <1>1, <1>2, <1>4, <1>6, WriteLemma, StoredKinds
     DEF Kinds, ChildKinds, Steps, AppliedBefore

\* What the API server makes of an apply of the budget: the fields the operator sets are as
\* it wants them.
LEMMA AppliedBudgetLemma ==
  ASSUME ClusterOK, NEW l, l.uid \in Uids, NEW desired \in BudgetData
  PROVE  /\ AppliedBudget(l, desired) \in Budgets
         /\ AppliedBudget(l, desired).owner = l.uid
         /\ \A f \in BudgetFields :
               desired[f] # Nil => AppliedBudget(l, desired).data[f] = desired[f]
<1> DEFINE b == api["PodDisruptionBudget"]
           max == AppliedField("maxUnavailable", desired, b)
           min == AppliedField("minAvailable", desired, b)
           theirs == IF b = Nil THEN {}
                     ELSE {f \in b.theirs : desired[f] = Nil \/ desired[f] = b.data[f]}
<1>1. b # Nil => b.data \in BudgetData /\ b.theirs \in SUBSET BudgetFields
  BY LiveObjects DEF Live, Budgets
<1>2. max \in Nat \cup {Nil} /\ min \in Nat \cup {Nil}
  BY <1>1 DEF AppliedField, BudgetData, BudgetFields
<1>3. theirs \in SUBSET BudgetFields
  BY <1>1
<1>4. /\ desired["maxUnavailable"] # Nil => max = desired["maxUnavailable"]
      /\ desired["minAvailable"] # Nil => min = desired["minAvailable"]
  BY DEF AppliedField
<1>5. AppliedBudget(l, desired)
          = [owner |-> l.uid, data |-> [maxUnavailable |-> max, minAvailable |-> min],
             theirs |-> theirs]
  BY DEF AppliedBudget, SetOwnerReference
<1> HIDE DEF max, min, theirs
<1> QED
  BY <1>2, <1>3, <1>4, <1>5 DEF Budgets, BudgetData, BudgetFields

\* reconcilePdb leaves the budget of the spec that was read, or none, or fails on a field
\* of another manager.
LEMMA PdbStep ==
  ASSUME TypeOK, Synced, reconcilePdb
  PROVE  Advances
<1> DEFINE k == "PodDisruptionBudget"
           desired == PodDisruptionBudget(lim.spec)
           obj == AppliedBudget(lim, desired)
<1>0. /\ MidPass /\ pc = "pdb" /\ UNCHANGED <<cache, queue, secrets, next>>
      /\ next' \in [{"uid", "pod", "rv"} -> Uids]
      /\ AppliedBefore("pods") \subseteq AppliedBefore("pdb") \cup {k}
      /\ k \in ChildKinds /\ k \in Kinds \ {"Limitador"}
      /\ "pods" \in Steps \ {"idle"}
      /\ lim \in Limitadors /\ lim.uid \in Uids /\ lim.spec \in Specs
  BY Counters, MidPassTypes
     DEF MidPass, reconcilePdb, TypeOK, Kinds, ChildKinds, Steps, AppliedBefore, AppliedKinds
<1>1. Desired(k, lim.spec) = desired
  BY DEF Desired
<1>2. CASE desired = Nil
  <2>1. Write(k, Nil, "pods")
    BY <1>2 DEF reconcilePdb, DeleteResource, Removed
  <2>2. api'[k] = Nil /\ lim' = lim => Matches(k, lim)'
    BY <1>1, <1>2 DEF Matches, Live
  <2> QED
    BY <1>0, <2>1, <2>2, WriteLemma, StoredKinds
<1>3. CASE desired # Nil /\ BudgetRejected(desired)
  <2>1. FailSpec("Rejected") /\ UNCHANGED clusterVars
    BY <1>0, <1>3 DEF reconcilePdb, clusterVars
  <2>2. "Rejected" \in SpecErrors \ {"none"}
    BY DEF SpecErrors
  <2> QED
    BY <1>0, <2>1, <2>2, FailLemma
<1>4. CASE desired # Nil /\ ~BudgetRejected(desired)
  <2>1. Write(k, obj, "pods")
    BY <1>4 DEF reconcilePdb
  <2>2. desired \in BudgetData
    BY <1>0, <1>4, SpecAssumption DEF PodDisruptionBudget
  <2> HIDE DEF desired
  <2>3. /\ obj \in Budgets /\ obj.owner = lim.uid
        /\ \A f \in BudgetFields : desired[f] # Nil => obj.data[f] = desired[f]
    BY <1>0, <2>2, AppliedBudgetLemma DEF TypeOK
  <2> HIDE DEF obj
  <2>4. api'[k] = obj /\ lim' = lim => Matches(k, lim)'
    BY <1>1, <1>4, <2>3, NilAssumption DEF Matches, Agrees, Live
  <2> QED
    BY <1>0, <2>1, <2>3, <2>4, WriteLemma, StoredKinds
<1> QED
  BY <1>2, <1>3, <1>4

\* The pods to annotate and the resource version to give them come from the cache.
LEMMA PodsStep ==
  ASSUME TypeOK, Synced, reconcilePodLimitsHashAnnotation
  PROVE  Advances
<1>0. MidPass /\ pc = "pods" /\ lim' = lim /\ specErr' = specErr /\ UNCHANGED clusterVars
  BY DEF MidPass, reconcilePodLimitsHashAnnotation
<1>1. ClusterOK' /\ Synced' /\ NothingSilent
  BY <1>0 DEF TypeOK, ClusterOK, ApiOK, CacheOK, WatchOK, Synced, NothingSilent, Undisturbed,
              clusterVars
<1>2. pc' \in {"status", "annotate"} /\ specResult' \in {"done", "requeue"}
  BY DEF reconcilePodLimitsHashAnnotation, TypeOK, WorkerOK
<1>3. todo' \in [names : SUBSET Uids, rv : Uids \cup {Nil}]
  <2>1. cache["Pod"] \subseteq PodObjects
    BY StoredKinds DEF TypeOK, ClusterOK, CacheOK, CachedKinds, Kinds
  <2>2. cache["ConfigMap"] # Nil => cache["ConfigMap"].rv \in Uids
    BY StoredKinds DEF TypeOK, ClusterOK, CacheOK, CachedKinds, Kinds, ChildKinds, ConfigMaps
  <2>3. \A r : {p.name : p \in {q \in cache["Pod"] : q.rv # r}} \subseteq Uids
    BY <2>1 DEF PodObjects
  <2> DEFINE cm == cache["ConfigMap"]
             names == {p.name : p \in {q \in cache["Pod"] : q.rv # cm.rv}}
  <2>4. CASE PodsNotSettled(lim, cache["Pod"]) \/ cm = Nil
    BY <2>4 DEF reconcilePodLimitsHashAnnotation, TypeOK, WorkerOK
  <2>5. CASE ~(PodsNotSettled(lim, cache["Pod"]) \/ cm = Nil)
    <3>1. todo' = [names |-> names, rv |-> cm.rv]
      BY <2>5 DEF reconcilePodLimitsHashAnnotation
    <3>2. names \subseteq Uids
      BY <2>3
    <3> HIDE DEF names
    <3> QED
      BY <2>2, <2>5, <3>1, <3>2
  <2> QED
    BY <2>4, <2>5
<1>4. WorkerOK'
  BY <1>0, <1>2, <1>3, MidPassTypes, NilAssumption DEF TypeOK, WorkerOK, Steps
<1>5. AppliedBefore(pc') = AppliedBefore(pc)
  BY <1>0, <1>2 DEF AppliedBefore
<1> QED
  BY <1>0, <1>1, <1>2, <1>4, <1>5 DEF Advances, TypeOK, clusterVars

\* Annotating a pod touches none of the objects that are applied.
LEMMA AnnotateStep ==
  ASSUME TypeOK, Synced, NEW name \in todo.names, ReconcilePodAnnotation(name)
  PROVE  Advances
<1>0. /\ MidPass /\ pc = "annotate" /\ UNCHANGED <<cache, queue, secrets, next>>
      /\ todo \in [names : SUBSET Uids, rv : Uids \cup {Nil}]
      /\ "Pod" \in Kinds \ {"Limitador"}
      /\ AppliedBefore("status") = AppliedBefore("annotate")
  BY DEF MidPass, ReconcilePodAnnotation, TypeOK, WorkerOK, Kinds, ChildKinds, AppliedBefore,
         AppliedKinds
<1>1. ASSUME StorePodAnnotation(name), fuel' \in [Disturbances -> Nat]
      PROVE  /\ ClusterOK' /\ Synced' /\ NothingSilent
             /\ \A j \in Kinds : j # "Pod" => api'[j] = api[j]
  <2>1. PICK p \in Pods :
            Store("Pod", (Pods \ {p}) \cup {[p EXCEPT !.rv = todo.rv]})
    BY <1>1 DEF StorePodAnnotation
  <2> DEFINE obj == (Pods \ {p}) \cup {[p EXCEPT !.rv = todo.rv]}
  <2>2. obj \in Stored("Pod")
    BY <1>0, LiveObjects, EditsOfPod, EditsOfPods DEF TypeOK
  <2> HIDE DEF obj
  <2>3. Store("Pod", obj)
    BY <2>1 DEF obj
  <2> QED
    BY <1>0, <1>1, <2>2, <2>3, Counters, ClusterWrite, StoreLemma DEF TypeOK, ClusterOK
<1>2. CASE /\ StorePodAnnotation(name) /\ todo' = [todo EXCEPT !.names = @ \ {name}]
           /\ UNCHANGED <<pc, lim, specErr, specResult, fuel>>
  <2>1. ClusterOK' /\ Synced' /\ NothingSilent /\ \A j \in Kinds : j # "Pod" => api'[j] = api[j]
    BY <1>1, <1>2, Counters DEF TypeOK
  <2>2. WorkerOK'
    BY <1>0, <1>2 DEF TypeOK, WorkerOK
  <2> QED
    BY <1>0, <1>2, <2>1, <2>2, AppliedKindsLemma DEF Advances, TypeOK, Kinds
<1>3. CASE FailSpec("PodGone") /\ UNCHANGED <<api, watch, fuel>>
  <2>1. UNCHANGED clusterVars /\ "PodGone" \in SpecErrors \ {"none"}
    BY <1>0, <1>3 DEF clusterVars, SpecErrors
  <2> QED
    BY <1>0, <1>3, <2>1, FailLemma
<1>4. CASE Spend("fault") /\ FailSpec("APIError") /\ StorePodAnnotation(name)
  <2>1. ClusterOK' /\ Synced' /\ NothingSilent /\ \A j \in Kinds : j # "Pod" => api'[j] = api[j]
    BY <1>1, <1>4, Counters DEF TypeOK, Disturbances
  <2>2. WorkerOK'
    BY <1>4, <1>0, MidPassTypes, NilAssumption DEF TypeOK, WorkerOK, FailSpec, Steps, SpecErrors
  <2> QED
    BY <1>0, <1>4, <2>1, <2>2, AppliedKindsLemma DEF Advances, TypeOK, FailSpec, Kinds
<1>5. CASE Spend("fault") /\ FailSpec("APIError") /\ UNCHANGED <<api, watch>>
  <2>1. ClusterOK'
    BY <1>0, <1>5, Counters DEF TypeOK, ClusterOK, ApiOK, CacheOK, WatchOK, Disturbances
  <2>2. WorkerOK'
    BY <1>5, <1>0, MidPassTypes, NilAssumption DEF TypeOK, WorkerOK, FailSpec, Steps, SpecErrors
  <2>3. Synced' /\ NothingSilent
    BY <1>0, <1>5 DEF Synced, NothingSilent, Undisturbed
  <2> QED
    BY <1>0, <1>5, <2>1, <2>2, <2>3 DEF Advances, TypeOK, FailSpec
<1> QED
  BY <1>2, <1>3, <1>4, <1>5 DEF ReconcilePodAnnotation

\* Nor does the end of the annotations.
LEMMA FinishAnnotationsStep ==
  ASSUME TypeOK, Synced, FinishAnnotations
  PROVE  Advances
<1>1. MidPass /\ "status" \in Steps \ {"idle"} /\ AppliedBefore("status") \subseteq AppliedBefore(pc)
  BY DEF FinishAnnotations, MidPass, Steps, AppliedBefore
<1> QED
  BY <1>1, GoOnLemma DEF FinishAnnotations

\* The steps of reconcileSpec.
SpecStep ==
    \/ reconcileService \/ reconcilePVC \/ reconcileDeployment
    \/ reconcileLimitsConfigMap \/ reconcilePdb
    \/ reconcilePodLimitsHashAnnotation
    \/ \E name \in todo.names : ReconcilePodAnnotation(name)
    \/ FinishAnnotations

\* Each of them advances the pass.
LEMMA SpecStepLemma ==
  ASSUME TypeOK, Synced, SpecStep
  PROVE  MidPass /\ Advances
<1>1. MidPass
  BY DEF SpecStep, MidPass, reconcileService, reconcilePVC, reconcileDeployment,
         reconcileLimitsConfigMap, reconcilePdb, reconcilePodLimitsHashAnnotation,
         ReconcilePodAnnotation, FinishAnnotations
<1> QED
  BY <1>1, ServiceStep, PVCStep, DeploymentStep, ConfigMapStep, PdbStep, PodsStep, AnnotateStep,
     FinishAnnotationsStep DEF SpecStep

\* The steps of a behaviour by what they mean to a pass.
LEMMA StepsOfNext ==
  ASSUME [Next]_vars
  PROVE  \/ ClusterStep /\ UNCHANGED workerVars
         \/ IgnoreLimitador \/ StartReconcile \/ SpecStep \/ reconcileStatus
         \/ Crash \/ UNCHANGED vars
  BY DEF Next, WorkerStep, SpecStep

-----------------------------------------------------------------------------
\* Who writes what.

OnlyChanges(k) ==
    /\ \A j \in Kinds : j # k => api'[j] = api[j]
    /\ \A j \in CachedKinds : j # k => watch'[j] = watch[j]

LimitadorWriter ==
    \/ \E s \in Specs : CreateLimitador(s) \/ UpdateLimitador(s)
    \/ DeleteLimitador \/ DeleteLimitadorForeground \/ CollectLimitador
    \/ reconcileStatus

ServiceWriter == CollectChild("Service") \/ reconcileService

ClaimWriter == CollectChild("PersistentVolumeClaim") \/ ReleaseClaim \/ reconcilePVC

DeploymentWriter ==
    \/ DeleteChild("Deployment") \/ EditDeployment \/ AddSidecar
    \/ UpdateDeploymentStatus \/ CollectChild("Deployment")
    \/ reconcileDeployment

ConfigMapWriter ==
    \/ DeleteChild("ConfigMap") \/ EditConfigMap \/ CollectChild("ConfigMap")
    \/ reconcileLimitsConfigMap

BudgetWriter ==
    \/ DeleteChild("PodDisruptionBudget") \/ \E data \in EditedBudgets : EditBudget(data)
    \/ CollectChild("PodDisruptionBudget")
    \/ reconcilePdb

PodWriter ==
    \/ CreatePod
    \/ \E p \in Pods : PodReady(p) \/ StopPod(p) \/ EvictPod(p) \/ PodGone(p)
    \/ \E name \in todo.names : ReconcilePodAnnotation(name)

\* A write changes the objects of one kind.
LEMMA StoreFrame ==
  ASSUME ClusterOK, NEW k \in Kinds, NEW obj, Store(k, obj)
  PROVE  OnlyChanges(k) /\ api'[k] = obj
  BY DEF ClusterOK, ApiOK, WatchOK, Store, OnlyChanges

\* So does a call of the operator, which takes effect or does not.
LEMMA WriteFrame ==
  ASSUME ClusterOK, NEW k \in Kinds, NEW obj, NEW step, Write(k, obj, step)
  PROVE  OnlyChanges(k) /\ (api'[k] = obj \/ UNCHANGED api)
<1>1. CASE Store(k, obj)
  BY <1>1, StoreFrame
<1>2. CASE UNCHANGED <<api, watch>>
  BY <1>2 DEF OnlyChanges
<1> QED
  BY <1>1, <1>2 DEF Write

\* Every step changes the objects of at most one kind, and each kind has its writers.
LEMMA Writers ==
  ASSUME ClusterOK, [Next]_vars
  PROVE  \/ UNCHANGED api /\ (UNCHANGED watch \/ Crash \/ \E k \in CachedKinds : Deliver(k))
         \/ OnlyChanges("Limitador") /\ LimitadorWriter
         \/ OnlyChanges("Service") /\ ServiceWriter
         \/ OnlyChanges("PersistentVolumeClaim") /\ ClaimWriter
         \/ OnlyChanges("Deployment") /\ DeploymentWriter
         \/ OnlyChanges("ConfigMap") /\ ConfigMapWriter
         \/ OnlyChanges("PodDisruptionBudget") /\ BudgetWriter
         \/ OnlyChanges("Pod") /\ PodWriter
<1> USE DEF Kinds, ChildKinds
<1>1. CASE UserStep
  <2>1. (\E s \in Specs : CreateLimitador(s) \/ UpdateLimitador(s)) => OnlyChanges("Limitador")
    BY StoreFrame DEF CreateLimitador, UpdateLimitador
  <2>2. DeleteLimitador \/ DeleteLimitadorForeground => OnlyChanges("Limitador")
    BY StoreFrame DEF DeleteLimitador, DeleteLimitadorForeground
  <2>3. (\E n \in SecretNames, c \in SecretContents : SetSecret(n, c)) => UNCHANGED <<api, watch>>
    BY DEF SetSecret
  <2>4. \A k \in EventKinds : DeleteChild(k) => OnlyChanges(k)
    BY StoreFrame, EventKindsAreCached DEF DeleteChild
  <2>5. EditDeployment \/ AddSidecar => OnlyChanges("Deployment")
    BY StoreFrame DEF EditDeployment, AddSidecar
  <2>6. EditConfigMap => OnlyChanges("ConfigMap")
    BY StoreFrame DEF EditConfigMap
  <2>7. (\E data \in EditedBudgets : EditBudget(data)) => OnlyChanges("PodDisruptionBudget")
    BY StoreFrame DEF EditBudget
  <2> QED
    BY <1>1, <2>1, <2>2, <2>3, <2>4, <2>5, <2>6, <2>7
       DEF UserStep, LimitadorWriter, DeploymentWriter, ConfigMapWriter, BudgetWriter, EventKinds
<1>2. CASE DeploymentControllerStep
  <2>1. CreatePod => OnlyChanges("Pod")
    BY StoreFrame DEF CreatePod
  <2>2. (\E p \in Pods : PodReady(p) \/ StopPod(p) \/ EvictPod(p) \/ PodGone(p))
            => OnlyChanges("Pod")
    BY StoreFrame DEF PodReady, StopPod, EvictPod, PodGone, Terminate
  <2>3. UpdateDeploymentStatus => OnlyChanges("Deployment")
    BY StoreFrame DEF UpdateDeploymentStatus
  <2> QED
    BY <1>2, <2>1, <2>2, <2>3 DEF DeploymentControllerStep, DeploymentWriter, PodWriter
<1>3. CASE CollectorStep
  <2>1. \A k \in ChildKinds : CollectChild(k) => OnlyChanges(k)
    BY StoreFrame DEF CollectChild
  <2>2. CollectLimitador => OnlyChanges("Limitador")
    BY StoreFrame DEF CollectLimitador
  <2>3. ReleaseClaim => OnlyChanges("PersistentVolumeClaim")
    BY StoreFrame DEF ReleaseClaim
  <2> QED
    BY <1>3, <2>1, <2>2, <2>3
       DEF CollectorStep, LimitadorWriter, ServiceWriter, ClaimWriter, DeploymentWriter,
           ConfigMapWriter, BudgetWriter
<1>4. CASE InformerStep \/ Crash \/ UNCHANGED vars
  BY <1>4 DEF InformerStep, BackoffExpires, Deliver, Crash, Restart, vars, clusterVars
<1>5. CASE IgnoreLimitador \/ StartReconcile \/ reconcilePodLimitsHashAnnotation
           \/ FinishAnnotations
  BY <1>5 DEF IgnoreLimitador, StartReconcile, reconcilePodLimitsHashAnnotation,
              FinishAnnotations, clusterVars
<1>6. CASE reconcileService
  BY <1>6, WriteFrame DEF reconcileService, ServiceWriter
<1>7. CASE reconcilePVC
  BY <1>7, WriteFrame DEF reconcilePVC, DeleteResource, ClaimWriter
<1>8. CASE reconcileDeployment
  BY <1>8, WriteFrame DEF reconcileDeployment, DeploymentWriter
<1>9. CASE reconcileLimitsConfigMap
  BY <1>9, WriteFrame DEF reconcileLimitsConfigMap, ConfigMapWriter
<1>10. CASE reconcilePdb
  BY <1>10, WriteFrame DEF reconcilePdb, DeleteResource, BudgetWriter
<1>11. CASE \E name \in todo.names : ReconcilePodAnnotation(name)
  BY <1>11, StoreFrame DEF ReconcilePodAnnotation, StorePodAnnotation, PodWriter
<1>12. CASE reconcileStatus
  BY <1>12, StoreFrame DEF reconcileStatus, LimitadorWriter
<1> QED
  BY <1>1, <1>2, <1>3, <1>4, <1>5, <1>6, <1>7, <1>8, <1>9, <1>10, <1>11, <1>12
     DEF Next, ClusterStep, WorkerStep

\* The caches change by deliveries and restarts only.
LEMMA CacheFrame ==
  ASSUME [Next]_vars
  PROVE  \/ UNCHANGED cache \/ Crash
         \/ \E k \in CachedKinds : Deliver(k) /\ UNCHANGED workerVars
<1>1. UserStep => UNCHANGED cache
  BY DEF UserStep, CreateLimitador, UpdateLimitador, DeleteLimitador, DeleteLimitadorForeground,
         SetSecret, DeleteChild, EditDeployment, AddSidecar, EditConfigMap, EditBudget
<1>2. DeploymentControllerStep \/ CollectorStep \/ BackoffExpires => UNCHANGED cache
  BY DEF DeploymentControllerStep, CollectorStep, CreatePod, PodReady, StopPod, EvictPod, PodGone,
         UpdateDeploymentStatus, CollectChild, CollectLimitador, ReleaseClaim, BackoffExpires
<1>3. WorkerStep => UNCHANGED cache
  BY DEF WorkerStep, IgnoreLimitador, StartReconcile, reconcileService, reconcilePVC,
         reconcileDeployment, reconcileLimitsConfigMap, reconcilePdb,
         reconcilePodLimitsHashAnnotation, ReconcilePodAnnotation, FinishAnnotations,
         reconcileStatus, clusterVars
<1>4. UNCHANGED vars => UNCHANGED cache
  BY DEF vars, clusterVars
<1> QED
  BY <1>1, <1>2, <1>3, <1>4 DEF Next, ClusterStep, InformerStep

\* The claim is left alone, released, marked for deletion, or created by a pass whose spec
\* asks for one where there is none.
LEMMA ClaimSteps ==
  ASSUME TypeOK, [Next]_vars
  PROVE  LET old == api["PersistentVolumeClaim"]
             new == api'["PersistentVolumeClaim"]
         IN  \/ new = old
             \/ new = Nil
             \/ old \in Claims /\ new = [old EXCEPT !.deleting = 1]
             \/ old = Nil /\ reconcilePVC /\ PVC(lim.spec) # Nil /\ new = NewClaim(lim)
<1> DEFINE k == "PersistentVolumeClaim"
           old == api[k]
           new == api'[k]
<1>0. ClusterOK /\ k \in Kinds /\ k \in ChildKinds
  BY DEF TypeOK, Kinds, ChildKinds
<1>1. old # Nil => old \in Claims
  BY LiveObjects DEF TypeOK, Live
<1>2. \A obj : Store(k, obj) => new = obj
  BY <1>0, StoreFrame
<1>3. \A obj, step : Write(k, obj, step) => new = obj \/ new = old
  BY <1>0, WriteFrame
<1>4. old # Nil => Removed(k) = [old EXCEPT !.deleting = 1]
  BY DEF Removed
<1>5. CASE CollectChild(k)
  <2>1. old # Nil /\ new = Removed(k)
    BY <1>2, <1>5 DEF CollectChild, Collectable, Owned
  <2> QED
    BY <2>1, <1>1, <1>4
<1>6. CASE ReleaseClaim
  BY <1>6, <1>2 DEF ReleaseClaim
<1>7. CASE reconcilePVC
  <2>1. CASE PVC(lim.spec) = Nil
    BY <1>1, <1>3, <1>4, <1>7, <2>1 DEF reconcilePVC, DeleteResource, Live
  <2>2. CASE PVC(lim.spec) # Nil
    BY <1>3, <1>7, <2>2 DEF reconcilePVC, Live
  <2> QED
    BY <2>1, <2>2
<1>8. new = old \/ ClaimWriter
  BY <1>0, Writers DEF OnlyChanges
<1> QED
  BY <1>5, <1>6, <1>7, <1>8 DEF ClaimWriter

-----------------------------------------------------------------------------
\* The inductive invariant.

\* An empty cluster and an idle operator satisfy the invariant.
LEMMA InitInv == Init => ConvergenceInv
<1> SUFFICES ASSUME Init PROVE ConvergenceInv
  OBVIOUS
<1> USE DEF Init, ClusterInit
<1>1. \A k \in Kinds : Absent(k) \in Stored(k)
  BY StoredKinds, FS_EmptySet DEF Absent, Kinds, ChildKinds
<1>2. ApiOK /\ CacheOK
  BY <1>1, EventKindsAreCached DEF ApiOK, CacheOK
<1>3. WatchOK /\ Synced
  BY EventKindsAreCached DEF WatchOK, Synced
<1>4. next \in [{"uid", "pod", "rv"} -> Uids] /\ fuel \in [Disturbances -> Nat]
  BY ClusterAssumption DEF Uids
<1>5. WorkerOK
  BY DEF WorkerOK, Steps, SpecErrors, NoPods
<1>6. api["Limitador"] = Nil
  BY DEF Kinds, Absent
<1> QED
  BY <1>2, <1>3, <1>4, <1>5, <1>6
     DEF ConvergenceInv, TypeOK, ClusterOK, UndisturbedPass, ConvergedWhenQuiescent,
         StatusAccurateWhenQuiescent, Reconcilable

\* The pods of a cluster at rest are finitely many.
LEMMA RestingPodsType ==
  ASSUME NEW spec \in Specs, GetReplicas(spec) \in 0..MaxPods
  PROVE  RestingPods(spec) \in Stored("Pod")
<1> DEFINE n == GetReplicas(spec)
           t == DesiredDeployment(spec).template
           pod == [i \in 1..n |-> [name |-> i, template |-> t, sidecar |-> 0, ready |-> 1,
                                   terminating |-> 0, rv |-> 1]]
<1>1. n \in Nat /\ 1..n \subseteq Uids /\ 1 \in Uids
  BY ClusterAssumption DEF Uids
<1>2. t \in {DesiredDeployment(s).template : s \in Specs}
  OBVIOUS
<1> HIDE DEF n, t
<1>3. RestingPods(spec) \subseteq PodObjects
  BY <1>1, <1>2 DEF RestingPods, PodObjects, n, t
<1>4. pod \in Surjection(1..n, RestingPods(spec))
  <2>1. pod \in [1..n -> RestingPods(spec)]
    BY DEF RestingPods, n, t
  <2>2. \A p \in RestingPods(spec) : \E i \in 1..n : pod[i] = p
    BY DEF RestingPods, n, t
  <2> QED
    BY <2>1, <2>2 DEF Surjection
<1> HIDE DEF pod
<1>5. IsFiniteSet(1..n)
  BY <1>1, FS_Interval
<1>6. IsFiniteSet(RestingPods(spec))
  BY <1>4, <1>5, FS_Surjection
<1> QED
  BY <1>3, <1>6, StoredKinds

\* calculateStatus has nothing to add to what it has written.
LEMMA RestingStatus ==
  ASSUME NEW spec \in Specs
  PROVE  /\ RestingLimitador(spec) \in Limitadors
         /\ RestingLimitador(spec).uid = 1 /\ RestingLimitador(spec).spec = spec
         /\ RestingLimitador(spec).generation = 1 /\ RestingLimitador(spec).deleting = 0
         /\ StatusIsSteady(RestingLimitador(spec), RestingDeployment(spec), "none")
<1> DEFINE new == [uid |-> 1, generation |-> 1, deleting |-> 0, spec |-> spec,
                   status |-> EmptyStatus]
           d == RestingDeployment(spec)
           c == readyCondition(d, "none")
           st == calculateStatus(new, d, "none")
           l == RestingLimitador(spec)
<1>1. new \in Limitadors
  BY ClusterAssumption DEF Limitadors, Statuses, EmptyStatus, Uids
<1>2. st \in Statuses
  BY <1>1, CalculateStatusType DEF SpecErrors
<1>3. st = [observedGeneration |-> 1, ready |-> [cond |-> c, lastTransitionTime |-> 0],
            service |-> Service(spec)]
  BY DEF calculateStatus, SetStatusCondition, DeepCopyConditions, Now, EmptyStatus
<1>4. l = [uid |-> 1, generation |-> 1, deleting |-> 0, spec |-> spec, status |-> st]
  BY DEF RestingLimitador
<1> HIDE DEF st, l, d, c
<1>5. l \in Limitadors
  BY <1>1, <1>2, <1>4 DEF Limitadors
<1>6. st.ready # Nil
  <2>1. c \in Conditions
    BY ReadyConditionType DEF c, SpecErrors
  <2>2. st.ready \in ReadyConditions
    BY <1>3, <2>1 DEF ReadyConditions
  <2> QED
    BY <2>2, NilAssumption
<1>7. calculateStatus(l, d, "none") = st
  BY <1>3, <1>4, <1>6 DEF calculateStatus, SetStatusCondition, DeepCopyConditions, c
<1> QED
  BY <1>3, <1>4, <1>5, <1>7 DEF StatusIsSteady, Equals, l, d

\* So does a cluster at rest.
LEMMA RestInv == RestInit => ConvergenceInv
<1> SUFFICES ASSUME NEW spec \in Specs, AtRest(spec) PROVE ConvergenceInv
  BY DEF RestInit
<1>1. /\ GetReplicas(spec) \in 0..MaxPods /\ GetReplicas(spec) \in Nat /\ 1 \in Uids
      /\ api = [k \in Kinds |-> RestingObject(k, spec)]
      /\ cache = [k \in CachedKinds |-> RestingObject(k, spec)]
      /\ watch = [k \in CachedKinds |-> <<>>] /\ queue = {}
      /\ pc = "idle" /\ lim = Nil /\ specErr = "none" /\ specResult = "done" /\ todo = NoPods
  BY ClusterAssumption DEF AtRest, Uids
<1>2. /\ RestingObject("Limitador", spec) = RestingLimitador(spec)
      /\ RestingObject("Service", spec) = [owner |-> 1, data |-> Service(spec)]
      /\ RestingObject("PersistentVolumeClaim", spec)
            = IF PVC(spec) = Nil THEN Nil ELSE [owner |-> 1, data |-> PVC(spec), deleting |-> 0]
      /\ RestingObject("Deployment", spec) = RestingDeployment(spec)
      /\ RestingObject("ConfigMap", spec)
            = [owner |-> 1, data |-> LimitsConfigMap(spec), rv |-> 1]
      /\ RestingObject("PodDisruptionBudget", spec)
            = IF spec.pdb = Nil THEN Nil ELSE [owner |-> 1, data |-> spec.pdb, theirs |-> {}]
      /\ RestingObject("Pod", spec) = RestingPods(spec)
  BY DEF RestingObject
<1>3. /\ RestingLimitador(spec) \in Limitadors
      /\ RestingObject("Service", spec) \in Services
      /\ PVC(spec) # Nil => RestingObject("PersistentVolumeClaim", spec) \in Claims
      /\ RestingDeployment(spec) \in Deployments
      /\ RestingObject("ConfigMap", spec) \in ConfigMaps
      /\ spec.pdb # Nil => RestingObject("PodDisruptionBudget", spec) \in Budgets
      /\ RestingPods(spec) \in Stored("Pod")
  <2>1. RestingLimitador(spec) \in Limitadors
    BY RestingStatus
  <2>2. RestingObject("Service", spec) \in Services
    BY <1>1, <1>2 DEF Services, ServiceData
  <2>3. PVC(spec) # Nil => RestingObject("PersistentVolumeClaim", spec) \in Claims
    BY <1>1, <1>2 DEF Claims
  <2>4. RestingDeployment(spec) \in Deployments
    BY <1>1 DEF RestingDeployment, Deployments, DeploymentData, DeploymentStatuses
  <2>5. RestingObject("ConfigMap", spec) \in ConfigMaps
    BY <1>1, <1>2 DEF ConfigMaps, ConfigMapData
  <2>6. spec.pdb # Nil => RestingObject("PodDisruptionBudget", spec) \in Budgets
    BY <1>1, <1>2, SpecAssumption DEF Budgets
  <2>7. RestingPods(spec) \in Stored("Pod")
    BY <1>1, RestingPodsType
  <2> QED
    BY <2>1, <2>2, <2>3, <2>4, <2>5, <2>6, <2>7
<1>4. ApiOK /\ CacheOK
  <2>1. \A k \in Kinds : RestingObject(k, spec) \in Stored(k)
    BY <1>2, <1>3, StoredKinds DEF Kinds, ChildKinds
  <2> QED
    BY <1>1, <2>1, EventKindsAreCached DEF ApiOK, CacheOK
<1>5. WatchOK /\ Synced
  BY <1>1, EventKindsAreCached DEF WatchOK, Synced
<1>6. /\ next \in [{"uid", "pod", "rv"} -> Uids] /\ fuel \in [Disturbances -> Nat]
      /\ secrets \in [SecretNames -> SecretContents]
  <2>1. \A n \in Nat : (n % MaxId) + 1 \in Uids
    BY ClusterAssumption DEF Uids
  <2> QED
    BY <1>1, <2>1, ClusterAssumption DEF AtRest, SecretContents
<1>7. WorkerOK
  BY <1>1 DEF WorkerOK, Steps, SpecErrors, NoPods
<1>8. /\ api["Limitador"] = RestingLimitador(spec) /\ api["Deployment"] = RestingDeployment(spec)
      /\ api["Service"] = [owner |-> 1, data |-> Service(spec)]
      /\ api["ConfigMap"] = [owner |-> 1, data |-> LimitsConfigMap(spec), rv |-> 1]
      /\ api["PodDisruptionBudget"]
            = IF spec.pdb = Nil THEN Nil ELSE [owner |-> 1, data |-> spec.pdb, theirs |-> {}]
  BY <1>1, <1>2 DEF Kinds, ChildKinds
<1>9. StatusIsSteady(api["Limitador"], api["Deployment"], "none")
  BY <1>8, RestingStatus
<1>10. Converged
  <2>1. api["Limitador"].spec = spec /\ api["Limitador"].uid = 1
    BY <1>8, RestingStatus
  <2>2. Matches("Service", api["Limitador"])
    <3>1. Service(spec) # Nil
      BY NilAssumption DEF ServiceData
    <3>2. api["Service"] # Nil
      BY <1>2, <1>3, <1>8, NilAssumption
    <3> QED
      BY <1>8, <2>1, <3>1, <3>2 DEF Matches, Desired, Agrees, Live
  <2>3. Matches("Deployment", api["Limitador"])
    <3>1. DesiredDeployment(spec) # Nil
      BY NilAssumption DEF DeploymentData
    <3>2. RestingDeployment(spec) # Nil
      BY <1>3, NilAssumption
    <3>3. RestingDeployment(spec).owner = 1
          /\ RestingDeployment(spec).data = DesiredDeployment(spec)
      BY DEF RestingDeployment
    <3> QED
      BY <1>8, <2>1, <3>1, <3>2, <3>3 DEF Matches, Desired, Agrees, Live
  <2>4. Matches("ConfigMap", api["Limitador"])
    <3>1. LimitsConfigMap(spec) # Nil
      BY NilAssumption DEF ConfigMapData
    <3>2. api["ConfigMap"] # Nil
      BY <1>2, <1>3, <1>8, NilAssumption
    <3> QED
      BY <1>8, <2>1, <3>1, <3>2 DEF Matches, Desired, Agrees, Live
  <2>5. Matches("PodDisruptionBudget", api["Limitador"])
    <3>1. spec.pdb # Nil => api["PodDisruptionBudget"] # Nil
      BY <1>2, <1>3, <1>8, NilAssumption
    <3> QED
      BY <1>8, <2>1, <3>1 DEF Matches, Desired, Agrees, Live, PodDisruptionBudget
  <2> QED
    BY <2>2, <2>3, <2>4, <2>5 DEF Converged, AppliedKinds
<1> QED
  BY <1>1, <1>4, <1>5, <1>6, <1>7, <1>9, <1>10
     DEF ConvergenceInv, TypeOK, ClusterOK, UndisturbedPass, ConvergedWhenQuiescent,
         StatusAccurateWhenQuiescent

\* A child that matches a live resource is not garbage.
LEMMA MatchingServiceIsKept ==
  ASSUME NEW cr \in Limitadors, cr = api["Limitador"], Reconcilable(cr), Matches("Service", cr)
  PROVE  ~Collectable(api["Service"])
<1>1. Service(cr.spec) # Nil
  BY NilAssumption DEF ServiceData, Limitadors
<1> QED
  BY <1>1 DEF Matches, Desired, Collectable, Reconcilable, Live

\* The invariant for the kinds K of the objects Reconcile applies: with all of them it is
\* ConvergenceInv, with fewer it says what is left when somebody unwatched writes the rest.
SoundPass(K) ==
    pc # "idle" /\ Undisturbed
        => /\ lim = api["Limitador"]
           /\ specErr = "none" => \A k \in AppliedBefore(pc) \cap K : Matches(k, lim)

SoundRest(K) ==
    Quiescent /\ Reconcilable(api["Limitador"])
        => /\ \A k \in K : Matches(k, api["Limitador"])
           /\ StatusIsSteady(api["Limitador"], api["Deployment"], "none")

WorkInv(K) ==
    /\ TypeOK /\ Synced
    /\ pc # "idle" => Reconcilable(lim)
    /\ SoundPass(K) /\ SoundRest(K)

LEMMA WorkIsConvergence == ConvergenceInv <=> WorkInv(AppliedKinds)
<1>1. \A step : AppliedBefore(step) \cap AppliedKinds = AppliedBefore(step)
  BY DEF AppliedBefore, AppliedKinds
<1> QED
  BY <1>1 DEF ConvergenceInv, WorkInv, UndisturbedPass, SoundPass, SoundRest, Converged,
              ConvergedWhenQuiescent, StatusAccurateWhenQuiescent

\* A step besides the pass keeps the invariant if it tells the operator of every change it
\* watches for: if it leaves the operator undisturbed it changed nothing the invariant
\* speaks of.
LEMMA BesidesInv ==
  ASSUME NEW K \in SUBSET AppliedKinds, WorkInv(K), UNCHANGED workerVars,
         ClusterOK', Synced', NothingSilent, "Service" \in K => ServiceKept
  PROVE  WorkInv(K)'
<1>2. WorkerOK' /\ UNCHANGED <<pc, lim, specErr>>
  BY DEF workerVars, WorkerOK, WorkInv, TypeOK
<1>3. (pc # "idle" => Reconcilable(lim))'
  BY <1>2 DEF WorkInv, Reconcilable
<1>4. Undisturbed' => Undisturbed /\ \A k \in EventKinds : api'[k] = api[k]
  BY DEF NothingSilent, Undisturbed
<1>5. \A k \in K : k # "Service" => k \in EventKinds
  BY DEF AppliedKinds, EventKinds
<1>6. SoundPass(K)'
  <2> SUFFICES ASSUME pc # "idle", Undisturbed'
               PROVE  /\ lim = api'["Limitador"]
                      /\ specErr = "none"
                            => \A k \in AppliedBefore(pc) \cap K : Matches(k, lim)'
    BY <1>2 DEF SoundPass, AppliedBefore
  <2>1. /\ lim = api["Limitador"]
        /\ specErr = "none" => \A k \in AppliedBefore(pc) \cap K : Matches(k, lim)
    BY <1>4 DEF WorkInv, SoundPass
  <2>2. lim \in Limitadors /\ Reconcilable(lim)
    BY DEF WorkInv, TypeOK, WorkerOK
  <2>3. ASSUME NEW k \in AppliedBefore(pc) \cap K, specErr = "none"
        PROVE  Matches(k, lim)'
    <3>1. k = "Service" => api'[k] = api[k]
      BY <2>1, <2>2, <2>3, MatchingServiceIsKept DEF ServiceKept
    <3>2. api'[k] = api[k]
      BY <1>4, <1>5, <3>1
    <3> QED
      BY <1>2, <2>1, <2>3, <3>2 DEF Matches, Live
  <2>4. lim = api'["Limitador"]
    BY <1>4, <2>1 DEF EventKinds
  <2> QED
    BY <2>3, <2>4
<1>7. SoundRest(K)'
  <2> SUFFICES ASSUME Quiescent', Reconcilable(api'["Limitador"])
               PROVE  /\ \A k \in K : Matches(k, api["Limitador"])'
                      /\ StatusIsSteady(api["Limitador"], api["Deployment"], "none")'
    BY DEF SoundRest, Reconcilable
  <2>1. Undisturbed' /\ pc = "idle" /\ queue = {}
    BY <1>2 DEF Quiescent, Undisturbed, NothingSilent
  <2>2. Quiescent /\ \A k \in EventKinds : api'[k] = api[k]
    BY <1>4, <2>1 DEF Quiescent, Undisturbed
  <2>3. api'["Limitador"] = api["Limitador"] /\ api'["Deployment"] = api["Deployment"]
    BY <2>2 DEF EventKinds
  <2>4. /\ \A k \in K : Matches(k, api["Limitador"])
        /\ StatusIsSteady(api["Limitador"], api["Deployment"], "none")
    BY <2>2, <2>3 DEF WorkInv, SoundRest
  <2>5. api["Limitador"] \in Limitadors
    BY <2>3, LiveObjects DEF Reconcilable, Live, WorkInv, TypeOK
  <2>6. "Service" \in K => api'["Service"] = api["Service"]
    BY <2>3, <2>4, <2>5, MatchingServiceIsKept DEF ServiceKept
  <2>7. \A k \in K : api'[k] = api[k]
    BY <1>5, <2>2, <2>6
  <2> QED
    BY <2>3, <2>4, <2>7 DEF Matches, Live
<1> QED
  BY <1>2, <1>3, <1>6, <1>7 DEF WorkInv, TypeOK

\* A step of the cluster keeps the invariant.
LEMMA ClusterInv ==
  ASSUME NEW K \in SUBSET AppliedKinds, WorkInv(K), ClusterStep, UNCHANGED workerVars
  PROVE  WorkInv(K)'
<1>1. ClusterOK' /\ Synced' /\ NothingSilent /\ ServiceKept
  BY ClusterStepLemma DEF WorkInv, TypeOK
<1> QED
  BY <1>1, BesidesInv

\* A step of reconcileSpec keeps the invariant.
LEMMA MidPassInv ==
  ASSUME NEW K \in SUBSET AppliedKinds, WorkInv(K), MidPass, Advances
  PROVE  WorkInv(K)'
<1>1. TypeOK' /\ Synced' /\ NothingSilent /\ lim' = lim /\ pc' # "idle"
  BY DEF Advances
<1>2. (pc # "idle" => Reconcilable(lim))'
  BY <1>1 DEF WorkInv, Reconcilable, MidPass
<1>3. SoundRest(K)'
  BY <1>1 DEF SoundRest, Quiescent
<1>4. SoundPass(K)'
  <2> SUFFICES ASSUME Undisturbed'
               PROVE  /\ lim' = api'["Limitador"]
                      /\ specErr' = "none"
                            => \A k \in AppliedBefore(pc') \cap K : Matches(k, lim)'
    BY DEF SoundPass, AppliedBefore
  <2>1. Undisturbed /\ pc # "idle" /\ specErr = "none"
    BY <1>1, MidPassTypes DEF NothingSilent, MidPass, WorkInv
  <2>2. lim = api["Limitador"] /\ \A k \in AppliedBefore(pc) \cap K : Matches(k, lim)
    BY <2>1 DEF WorkInv, SoundPass
  <2>3. ASSUME NEW k \in AppliedBefore(pc) \cap K, api'[k] = api[k]
        PROVE  Matches(k, lim)'
    BY <1>1, <2>2, <2>3 DEF Matches, Live
  <2> QED
    BY <1>1, <2>2, <2>3 DEF Advances
<1> QED
  BY <1>1, <1>2, <1>3, <1>4 DEF WorkInv

\* A resource that is left alone is not in need of reconciliation unless an event waits.
LEMMA RestAfterIgnore ==
  ASSUME Synced, IgnoreLimitador, Quiescent'
  PROVE  UNCHANGED api /\ ~Reconcilable(api["Limitador"])
  BY DEF IgnoreLimitador, Quiescent, Synced, EventKinds, CachedKinds, Kinds

\* Neither has a process that starts with nothing to do a resource.
LEMMA RestAfterRestart ==
  ASSUME Restart, Quiescent'
  PROVE  UNCHANGED api /\ ~Reconcilable(api["Limitador"])
  BY DEF Restart, Quiescent, EventKinds, Live, Reconcilable

\* Leaving the resource alone keeps the invariant.
LEMMA IgnoreInv ==
  ASSUME NEW K \in SUBSET AppliedKinds, WorkInv(K), IgnoreLimitador
  PROVE  WorkInv(K)'
<1>1. /\ UNCHANGED <<api, cache, watch, secrets, next, fuel, pc, lim, specErr, specResult, todo>>
      /\ pc = "idle" /\ queue' = queue \ {"dirty"}
  BY DEF IgnoreLimitador, workerVars
<1>2. TypeOK'
  BY <1>1 DEF WorkInv, TypeOK, ClusterOK, ApiOK, CacheOK, WatchOK, WorkerOK
<1>3. Synced'
  BY <1>1 DEF Synced, WorkInv
<1>4. (pc # "idle" => Reconcilable(lim))' /\ SoundPass(K)'
  BY <1>1 DEF SoundPass
<1>5. Quiescent' => ~Reconcilable(api["Limitador"])
  BY RestAfterIgnore DEF WorkInv
<1>6. SoundRest(K)'
  BY <1>1, <1>5 DEF SoundRest, Reconcilable
<1> QED
  BY <1>2, <1>3, <1>4, <1>6 DEF WorkInv

\* A pass starts from the cache, which is up to date unless an event waits.
LEMMA StartInv ==
  ASSUME NEW K \in SUBSET AppliedKinds, WorkInv(K), StartReconcile
  PROVE  WorkInv(K)'
<1>1. /\ UNCHANGED <<api, cache, watch, secrets, next, fuel, specErr, specResult, todo>>
      /\ pc = "idle" /\ pc' = "service" /\ lim' = cache["Limitador"]
      /\ queue' = queue \ {"dirty"} /\ Reconcilable(cache["Limitador"])
  BY DEF StartReconcile
<1>2. cache["Limitador"] \in Limitadors
  BY <1>1, StoredKinds
     DEF WorkInv, TypeOK, ClusterOK, CacheOK, CachedKinds, Kinds, Reconcilable
<1>3. ClusterOK'
  BY <1>1 DEF WorkInv, TypeOK, ClusterOK, ApiOK, CacheOK, WatchOK
<1>4. WorkerOK'
  BY <1>1, <1>2, NilAssumption DEF WorkInv, TypeOK, WorkerOK, Steps
<1>5. Synced'
  BY <1>1 DEF Synced, WorkInv
<1>6. (pc # "idle" => Reconcilable(lim))'
  BY <1>1 DEF Reconcilable
<1>7. SoundPass(K)'
  <2>1. watch'["Limitador"] = <<>> => lim' = api'["Limitador"]
    BY <1>1 DEF WorkInv, Synced, CachedKinds, Kinds
  <2>2. AppliedBefore(pc') = {}
    BY <1>1 DEF AppliedBefore
  <2> QED
    BY <2>1, <2>2 DEF SoundPass, Undisturbed, EventKinds, AppliedBefore
<1>8. SoundRest(K)'
  BY <1>1 DEF SoundRest, Quiescent
<1> QED
  BY <1>3, <1>4, <1>5, <1>6, <1>7, <1>8 DEF WorkInv, TypeOK

\* The process that starts again has something to do if there is a resource.
LEMMA RestartInv ==
  ASSUME NEW K \in SUBSET AppliedKinds, WorkInv(K), Restart, fuel' \in [Disturbances -> Nat]
  PROVE  WorkInv(K)'
<1>1. /\ pc' = "idle" /\ lim' = Nil /\ specErr' = "none" /\ specResult' = "done"
      /\ todo' = NoPods /\ UNCHANGED <<api, secrets, next>>
      /\ cache' = [k \in CachedKinds |-> api[k]] /\ watch' = [k \in CachedKinds |-> <<>>]
      /\ queue' = IF \E k \in EventKinds : Live(k) THEN {"dirty"} ELSE {}
  BY DEF Restart, Idle
<1>2. ApiOK'
  BY <1>1 DEF WorkInv, TypeOK, ClusterOK, ApiOK
<1>3. CacheOK' /\ WatchOK' /\ Synced'
  <2>1. \A k \in CachedKinds : api[k] \in Stored(k)
    BY EventKindsAreCached DEF WorkInv, TypeOK, ClusterOK, ApiOK
  <2>2. CacheOK'
    BY <1>1, <2>1 DEF CacheOK
  <2>3. WatchOK'
    BY <1>1 DEF WatchOK
  <2>4. Synced'
    BY <1>1, EventKindsAreCached DEF Synced
  <2> QED
    BY <2>2, <2>3, <2>4
<1>4. ClusterOK'
  BY <1>1, <1>2, <1>3 DEF WorkInv, TypeOK, ClusterOK
<1>5. WorkerOK'
  BY <1>1 DEF WorkerOK, Steps, SpecErrors, NoPods
<1>6. (pc # "idle" => Reconcilable(lim))' /\ SoundPass(K)'
  BY <1>1 DEF SoundPass
<1>7. SoundRest(K)'
  BY <1>1, RestAfterRestart DEF SoundRest, Reconcilable
<1> QED
  BY <1>3, <1>4, <1>5, <1>6, <1>7 DEF WorkInv, TypeOK

\* The end of a pass: the status is left alone or written, with or without success, and
\* the pass is over.
LEMMA StatusStep ==
  ASSUME TypeOK, Synced, reconcileStatus
  PROVE  /\ TypeOK' /\ Synced' /\ pc = "status" /\ pc' = "idle" /\ UNCHANGED cache
         /\ lim \in Limitadors /\ specErr \in SpecErrors
         /\ queue \subseteq queue' /\ queue' \subseteq queue \cup {"retry"}
         /\ specErr # "none" => queue' # {}
         /\ \A j \in Kinds \ {"Limitador"} : api'[j] = api[j]
         /\ \A j \in EventKinds : api'[j] # api[j] => watch'[j] # <<>>
         /\ \A j \in CachedKinds : watch'[j] = <<>> => watch[j] = <<>>
         /\ \/ /\ UNCHANGED <<api, watch>>
               /\ StatusIsSteady(lim, cache["Deployment"], specErr) \/ queue' # {}
            \/ LET obj == PatchedLimitador(calculateStatus(lim, cache["Deployment"], specErr))
               IN  /\ ~StatusIsSteady(lim, cache["Deployment"], specErr)
                   /\ Live("Limitador") /\ obj \in Limitadors
                   /\ Store("Limitador", obj) /\ api'["Limitador"] = obj
<1> DEFINE new == calculateStatus(lim, cache["Deployment"], specErr)
           steady == StatusIsSteady(lim, cache["Deployment"], specErr)
           obj == PatchedLimitador(new)
<1>1. /\ pc = "status" /\ pc' = "idle" /\ lim' = Nil /\ specErr' = "none"
      /\ specResult' = "done" /\ todo' = NoPods /\ UNCHANGED <<cache, secrets, next>>
      /\ queue \subseteq queue' /\ queue' \subseteq queue \cup {"retry"}
      /\ specErr # "none" => queue' # {}
  BY DEF reconcileStatus, Finish, Idle
<1>2. lim \in Limitadors /\ specErr \in SpecErrors
  BY <1>1 DEF TypeOK, WorkerOK
<1>3. Live("Limitador") => obj \in Limitadors
  <2>1. new \in Statuses
    BY <1>2, CalculateStatusType
  <2> HIDE DEF new
  <2> QED
    BY <2>1, LiveObjects, EditsOfLimitador DEF PatchedLimitador, TypeOK
<1>4. fuel' \in [Disturbances -> Nat] /\ next' \in [{"uid", "pod", "rv"} -> Uids]
  BY Counters DEF reconcileStatus, TypeOK, Disturbances
<1>5. \/ UNCHANGED <<api, watch>> /\ (steady \/ queue' # {})
      \/ ~steady /\ Live("Limitador") /\ Store("Limitador", obj)
  BY DEF reconcileStatus, Finish
<1> HIDE DEF new, steady, obj
<1>6. WorkerOK'
  BY <1>1 DEF WorkerOK, Steps, SpecErrors, NoPods
<1>7. CASE UNCHANGED <<api, watch>> /\ (steady \/ queue' # {})
  <2>1. ClusterOK' /\ Synced'
    BY <1>1, <1>4, <1>7 DEF TypeOK, ClusterOK, ApiOK, CacheOK, WatchOK, Synced
  <2> QED
    BY <1>1, <1>2, <1>6, <1>7, <2>1 DEF TypeOK, steady
<1>8. CASE ~steady /\ Live("Limitador") /\ Store("Limitador", obj)
  <2>1. /\ ApiOK' /\ WatchOK' /\ Synced'
        /\ api'["Limitador"] = obj
        /\ \A j \in Kinds : j # "Limitador" => api'[j] = api[j]
        /\ \A j \in EventKinds : api'[j] # api[j] => watch'[j] # <<>>
        /\ \A j \in CachedKinds : watch'[j] = <<>> => watch[j] = <<>>
    BY <1>1, <1>3, <1>8, StoreLemma, StoredKinds
       DEF TypeOK, ClusterOK, Kinds, ChildKinds
  <2>2. ClusterOK'
    BY <1>1, <1>4, <2>1 DEF TypeOK, ClusterOK, CacheOK
  <2> QED
    BY <1>1, <1>2, <1>3, <1>6, <1>8, <2>1, <2>2 DEF TypeOK, obj, new, steady
<1> QED
  BY <1>5, <1>7, <1>8

\* A pass after which nothing is due has read the resource as it is, has met no error and
\* has left the status alone: a status that is written comes back as an event.
LEMMA RestAfterStatus ==
  ASSUME TypeOK, Synced, reconcileStatus, Quiescent',
         pc # "idle" /\ Undisturbed => lim = api["Limitador"]
  PROVE  /\ UNCHANGED <<api, watch>> /\ Undisturbed
         /\ specErr = "none" /\ lim = api["Limitador"]
         /\ StatusIsSteady(api["Limitador"], api["Deployment"], "none")
<1> DEFINE new == calculateStatus(lim, cache["Deployment"], specErr)
           steady == StatusIsSteady(lim, cache["Deployment"], specErr)
           obj == PatchedLimitador(new)
<1>1. /\ pc = "status" /\ lim \in Limitadors /\ queue' = {} /\ queue \subseteq queue'
      /\ specErr # "none" => queue' # {}
      /\ \A j \in EventKinds : api'[j] = api[j] /\ watch[j] = <<>>
      /\ \/ UNCHANGED <<api, watch>> /\ (steady \/ queue' # {})
         \/ ~steady /\ api'["Limitador"] = obj
  BY StatusStep, EventKindsAreCached DEF Quiescent
<1>2. Undisturbed /\ specErr = "none"
  BY <1>1 DEF Undisturbed
<1>3. lim = api["Limitador"]
  BY <1>1, <1>2
<1>4. cache["Deployment"] = api["Deployment"]
  BY <1>1 DEF Synced, EventKinds, CachedKinds, Kinds, ChildKinds
<1>5. api'["Limitador"] = obj => steady
  <2> SUFFICES ASSUME api'["Limitador"] = obj PROVE steady
    OBVIOUS
  <2> HIDE DEF new
  <2>1. obj = lim
    BY <1>1, <1>3 DEF EventKinds
  <2>2. obj.status = new
    BY <1>1, <1>3 DEF PatchedLimitador, Limitadors
  <2>3. lim.status = new
    BY <2>1, <2>2
  <2> QED
    BY <2>3 DEF new, StatusIsSteady, Equals, calculateStatus
<1> HIDE DEF new, obj
<1>6. UNCHANGED <<api, watch>> /\ steady
  BY <1>1, <1>5
<1> QED
  BY <1>2, <1>3, <1>4, <1>6

\* The end of a pass keeps the invariant.
LEMMA StatusInv ==
  ASSUME NEW K \in SUBSET AppliedKinds, WorkInv(K), reconcileStatus
  PROVE  WorkInv(K)'
<1>0. TypeOK /\ Synced /\ (pc # "idle" /\ Undisturbed => lim = api["Limitador"])
  BY DEF WorkInv, SoundPass
<1>1. TypeOK' /\ Synced' /\ pc = "status" /\ pc' = "idle"
  BY <1>0, StatusStep
<1>2. (pc # "idle" => Reconcilable(lim))' /\ SoundPass(K)'
  BY <1>1 DEF SoundPass
<1>3. ASSUME Quiescent'
      PROVE  /\ \A k \in K : Matches(k, api["Limitador"])'
             /\ StatusIsSteady(api["Limitador"], api["Deployment"], "none")'
  <2>1. /\ UNCHANGED api /\ Undisturbed /\ specErr = "none" /\ lim = api["Limitador"]
        /\ StatusIsSteady(api["Limitador"], api["Deployment"], "none")
    BY <1>0, <1>3, RestAfterStatus
  <2>2. \A k \in K : Matches(k, api["Limitador"])
    BY <1>1, <2>1 DEF WorkInv, SoundPass, AppliedBefore
  <2> QED
    BY <2>1, <2>2 DEF Matches, Live
<1> QED
  BY <1>1, <1>2, <1>3 DEF WorkInv, SoundRest

\* Every step keeps the invariant.
LEMMA WorkNext ==
  ASSUME NEW K \in SUBSET AppliedKinds, WorkInv(K), [Next]_vars
  PROVE  WorkInv(K)'
<1>0. TypeOK /\ Synced
  BY DEF WorkInv
<1>1. CASE ClusterStep /\ UNCHANGED workerVars
  BY <1>1, ClusterInv
<1>2. CASE IgnoreLimitador
  BY <1>2, IgnoreInv
<1>3. CASE StartReconcile
  BY <1>3, StartInv
<1>4. CASE SpecStep
  BY <1>0, <1>4, SpecStepLemma, MidPassInv
<1>5. CASE reconcileStatus
  BY <1>5, StatusInv
<1>6. CASE Crash
  <2>1. Restart /\ fuel' \in [Disturbances -> Nat]
    BY <1>0, <1>6, Counters DEF Crash, TypeOK, Disturbances
  <2> QED
    BY <2>1, RestartInv
<1>7. CASE UNCHANGED vars
  <2>1. /\ UNCHANGED workerVars
        /\ UNCHANGED <<api, cache, watch, queue, secrets, next, fuel>>
    BY <1>7 DEF vars, clusterVars
  <2>2. ClusterOK' /\ Synced'
    BY <1>0, <2>1 DEF TypeOK, ClusterOK, ApiOK, CacheOK, WatchOK, Synced
  <2>3. NothingSilent /\ ServiceKept
    BY <2>1 DEF NothingSilent, ServiceKept, Undisturbed
  <2> QED
    BY <2>1, <2>2, <2>3, BesidesInv
<1> QED
  BY <1>1, <1>2, <1>3, <1>4, <1>5, <1>6, <1>7, StepsOfNext

LEMMA NextInv == ConvergenceInv /\ [Next]_vars => ConvergenceInv'
<1>1. WorkInv(AppliedKinds) /\ [Next]_vars => WorkInv(AppliedKinds)'
  BY WorkNext
<1> QED
  BY <1>1, WorkIsConvergence, PTL

\* The Deployment of a cluster at rest is available, and its resource reports it.
LEMMA SettledIsReady ==
  ASSUME TypeOK, StatusAccurateWhenQuiescent
  PROVE  ReadyWhenSettled
<1> SUFFICES ASSUME Settled, Reconcilable(api["Limitador"])
             PROVE  /\ api["Limitador"].status.observedGeneration = api["Limitador"].generation
                    /\ api["Limitador"].status.ready.cond.status = "True"
  BY DEF ReadyWhenSettled
<1> DEFINE l == api["Limitador"]
           d == api["Deployment"]
<1>1. d \in Deployments /\ d.data.replicas \in Int
  BY LiveObjects, ReplicasType DEF Settled, TypeOK, Deployments
<1>2. Active = Pods /\ Ready = Pods
  BY DEF Settled, Ready, Active
<1>3. d.status = [observedGeneration |-> d.generation, available |-> "True",
                  unavailableReplicas |-> 0, readyReplicas |-> d.data.replicas,
                  replicas |-> d.data.replicas]
  <2>1. Cardinality(Active) = d.data.replicas /\ Cardinality(Ready) = d.data.replicas
    BY <1>2 DEF Settled
  <2> QED
    BY <1>1, <2>1 DEF Settled, DeploymentStatus
<1>4. checkLimitadorAvailable(d) = Nil
  BY <1>1, <1>3, NilAssumption DEF checkLimitadorAvailable
<1>5. readyCondition(d, "none").status = "True"
  BY <1>4 DEF readyCondition, ReadyCondition
<1>6. StatusIsSteady(l, d, "none")
  BY DEF StatusAccurateWhenQuiescent, Settled
<1> QED
  BY <1>5, <1>6 DEF StatusIsSteady, Equals, calculateStatus, SetStatusCondition

-----------------------------------------------------------------------------
\* The theorems.

\* The invariant holds throughout.
LEMMA Invariance == Spec => []ConvergenceInv
  BY InitInv, NextInv, PTL DEF Spec

\* It also does when the behaviour starts with a cluster at rest.
LEMMA RestInvariance == RestSpec => []ConvergenceInv
  BY RestInv, NextInv, PTL DEF RestSpec

\* Types: at every moment the API server, the caches and the watches hold objects of
\* their kind, and the locals of Reconcile are those of the step the pass is at.
THEOREM TypeCorrect == Spec => []TypeOK
<1>1. ConvergenceInv => TypeOK
  BY DEF ConvergenceInv
<1> QED
  BY <1>1, Invariance, PTL

\* A pass of Reconcile that no event overtakes works on the resource as it is, and
\* every object it has applied is still in place when it goes on.
THEOREM PassesAreSound == Spec => []UndisturbedPass
<1>1. ConvergenceInv => UndisturbedPass
  BY DEF ConvergenceInv
<1> QED
  BY <1>1, Invariance, PTL

\* Convergence: whatever users, other controllers, failures and crashes did, a
\* quiescent operator has applied every object the current spec asks for.
THEOREM QuiescenceMeansConverged == Spec => []ConvergedWhenQuiescent
<1>1. ConvergenceInv => ConvergedWhenQuiescent
  BY DEF ConvergenceInv
<1> QED
  BY <1>1, Invariance, PTL

\* The status a quiescent operator leaves behind is that of the Deployment as it is.
THEOREM QuiescenceMeansAccurateStatus == Spec => []StatusAccurateWhenQuiescent
<1>1. ConvergenceInv => StatusAccurateWhenQuiescent
  BY DEF ConvergenceInv
<1> QED
  BY <1>1, Invariance, PTL

\* A resource at rest reports Ready: when the pods are the ones the Deployment wants and
\* nothing is under way, the status has caught up with them.
THEOREM RestMeansReady ==
  (Spec => []ReadyWhenSettled) /\ (RestSpec => []ReadyWhenSettled)
<1>1. ASSUME TypeOK, StatusAccurateWhenQuiescent PROVE ReadyWhenSettled
  BY <1>1, SettledIsReady
<1> QED
  BY <1>1, Invariance, RestInvariance, PTL DEF ConvergenceInv
=============================================================================
