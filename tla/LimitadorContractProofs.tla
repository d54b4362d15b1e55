----------------------- MODULE LimitadorContractProofs -----------------------
(***************************************************************************)
(* Proofs that LimitadorReconciler keeps the contract of LimitadorContract *)
(* for a resource that is created at most once (OneLife) and whose objects *)
(* nobody else changes (Untouched).  Without the first the contract does   *)
(* not hold: a pass that has read a resource patches the status of the     *)
(* next one of that name.  Nor does it hold if calls outlive their pass,   *)
(* which Spec does not have (see LimitadorHandover): a late status patch   *)
(* takes the observed generation back.                                     *)
(*                                                                         *)
(* The argument: a pass works on a snapshot of the resource.  The          *)
(* snapshots on the watch, in the cache and in the pass are in order of    *)
(* generation, and one of the current generation has the current spec      *)
(* (SnapshotsInOrder).  So no report is older than the one before          *)
(* (ReportsInOrder), and a pass on the current generation puts in place    *)
(* what the current spec asks for (CurrentPass).  Once that generation is  *)
(* reported, every later pass works on it too and overwrites objects with  *)
(* what is there.                                                          *)
(*                                                                         *)
(* The last section needs Untouched only: without a field of another       *)
(* manager, the API server refuses nothing but a negative replica count.   *)
(***************************************************************************)
EXTENDS LimitadorReconcilerProofs

OneLife == \A f \in Fuels : f["create"] <= 1

Untouched == \A f \in Fuels : f["tamper"] = 0

-----------------------------------------------------------------------------
\* Snapshots of the resource.

Resource == api["Limitador"]

Seen == cache["Limitador"]

Coming == watch["Limitador"]

Observed == Resource.status.observedGeneration

\* o is the resource l as it was at some time.
IsSnapshot(o, l) ==
    /\ o \in Limitadors /\ l \in Limitadors
    /\ o.uid = l.uid /\ o.generation <= l.generation
    /\ o.generation = l.generation => o.spec = l.spec /\ o.deleting = l.deleting

\* What the operator has seen of the resource and what it has yet to see.
SnapshotsInOrder ==
    /\ \A i \in 1..Len(Coming) : IsSnapshot(Coming[i].obj, Resource)
    /\ \A i, j \in 1..Len(Coming) :
          i <= j => Coming[i].obj.generation <= Coming[j].obj.generation
    /\ Seen # Nil =>
          /\ IsSnapshot(Seen, Resource)
          /\ \A i \in 1..Len(Coming) : Seen.generation <= Coming[i].obj.generation

\* A report is not ahead of what the operator has seen, nor of the pass that is under way.
ReportsInOrder ==
    /\ Observed <= IF Seen = Nil THEN 0 ELSE Seen.generation
    /\ pc # "idle" => /\ Seen # Nil /\ IsSnapshot(lim, Resource)
                      /\ Observed <= lim.generation /\ lim.generation <= Seen.generation
    /\ Resource.deleting = 1 => Observed < Resource.generation

\* Before the resource is created there is nothing of it anywhere.
Unborn ==
    /\ \A k \in ChildKinds \cup {"Limitador"} : ~Live(k)
    /\ Seen = Nil /\ Coming = <<>> /\ pc = "idle"

LifeInv ==
    /\ fuel["create"] \in {0, 1}
    /\ fuel["create"] = 1 => Unborn
    /\ Live("Limitador") => /\ fuel["create"] = 0 /\ Resource.generation >= 1
                            /\ SnapshotsInOrder /\ ReportsInOrder

\* Snapshots of snapshots are snapshots.
LEMMA SnapshotOrder ==
  /\ \A l \in Limitadors : IsSnapshot(l, l)
  /\ \A o, p, l : IsSnapshot(o, p) /\ IsSnapshot(p, l) => IsSnapshot(o, l)
<1>1. \A l \in Limitadors : l.generation \in Nat
  BY DEF Limitadors
<1> QED
  BY <1>1 DEF IsSnapshot

\* The resource before an edit, a deletion mark or a report is a snapshot of the one after.
LEMMA EditsAreSnapshots ==
  ASSUME NEW l \in Limitadors
  PROVE  /\ \A s \in Specs :
               LET new == [l EXCEPT !.spec = s, !.generation = @ + 1]
               IN  /\ IsSnapshot(l, new) /\ new.generation = l.generation + 1
                   /\ new.status = l.status /\ new.deleting = l.deleting
         /\ LET new == [l EXCEPT !.deleting = 1, !.generation = @ + 1]
            IN  /\ IsSnapshot(l, new) /\ new.generation = l.generation + 1
                /\ new.status = l.status
         /\ \A st \in Statuses :
               LET new == [l EXCEPT !.status = st]
               IN  /\ IsSnapshot(l, new) /\ new.generation = l.generation /\ new.uid = l.uid
                   /\ new.spec = l.spec /\ new.deleting = l.deleting /\ new.status = st
<1>0. l.generation \in Nat /\ l.deleting \in {0, 1}
  BY DEF Limitadors
<1>1. ASSUME NEW s \in Specs
      PROVE  LET new == [l EXCEPT !.spec = s, !.generation = @ + 1]
             IN  /\ IsSnapshot(l, new) /\ new.generation = l.generation + 1
                 /\ new.status = l.status /\ new.deleting = l.deleting
  <2> DEFINE new == [l EXCEPT !.spec = s, !.generation = @ + 1]
  <2>1. new \in Limitadors
    BY EditsOfLimitador
  <2>2. /\ new.uid = l.uid /\ new.generation = l.generation + 1
        /\ new.status = l.status /\ new.deleting = l.deleting
    BY DEF Limitadors
  <2> HIDE DEF new
  <2> QED
    BY <1>0, <2>1, <2>2 DEF IsSnapshot, new
<1>2. LET new == [l EXCEPT !.deleting = 1, !.generation = @ + 1]
      IN  /\ IsSnapshot(l, new) /\ new.generation = l.generation + 1
          /\ new.status = l.status
  <2> DEFINE new == [l EXCEPT !.deleting = 1, !.generation = @ + 1]
  <2>1. new \in Limitadors
    BY EditsOfLimitador
  <2>2. new.uid = l.uid /\ new.generation = l.generation + 1 /\ new.status = l.status
    BY DEF Limitadors
  <2> HIDE DEF new
  <2> QED
    BY <1>0, <2>1, <2>2 DEF IsSnapshot, new
<1>3. ASSUME NEW st \in Statuses
      PROVE  LET new == [l EXCEPT !.status = st]
             IN  /\ IsSnapshot(l, new) /\ new.generation = l.generation /\ new.uid = l.uid
                 /\ new.spec = l.spec /\ new.deleting = l.deleting /\ new.status = st
  <2> DEFINE new == [l EXCEPT !.status = st]
  <2>1. new \in Limitadors
    BY EditsOfLimitador
  <2>2. /\ new.uid = l.uid /\ new.generation = l.generation /\ new.spec = l.spec
        /\ new.deleting = l.deleting /\ new.status = st
    BY DEF Limitadors
  <2> HIDE DEF new
  <2> QED
    BY <1>0, <2>1, <2>2 DEF IsSnapshot, new
<1> QED
  BY <1>1, <1>2, <1>3

\* An announcement is put last, in place of the last one or after it.
LEMMA AnnounceFrame ==
  ASSUME NEW S, NEW w \in Seq(S), NEW obj, NEW n, NEW v, v = Announce(w, obj, n)
  PROVE  /\ Len(v) \in Nat \ {0} /\ v[Len(v)].obj = obj
         /\ \A i \in 1..Len(v) : i # Len(v) => i \in 1..Len(w) /\ v[i] = w[i]
<1>1. MaxLag \in Nat \ {0} /\ Len(w) \in Nat
  BY ClusterAssumption
<1>2. CASE Len(w) < MaxLag
  <2>1. v = Append(w, [obj |-> obj, notify |-> n])
    BY <1>2 DEF Announce
  <2>2. /\ Len(v) = Len(w) + 1 /\ v[Len(v)] = [obj |-> obj, notify |-> n]
        /\ \A i \in 1..Len(w) : v[i] = w[i]
    <3>1. w \in Seq(S \cup {[obj |-> obj, notify |-> n]})
      OBVIOUS
    <3> QED
      BY <2>1, <3>1
  <2> QED
    BY <1>1, <2>2
<1>3. CASE ~(Len(w) < MaxLag)
  <2> DEFINE e == [obj |-> obj, notify |-> n \cup w[Len(w)].notify]
  <2>1. v = [w EXCEPT ![Len(w)] = e]
    BY <1>3 DEF Announce
  <2>2. e.obj = obj
    OBVIOUS
  <2> HIDE DEF e
  <2>3. /\ Len(v) = Len(w) /\ v[Len(w)] = e
        /\ \A i \in 1..Len(w) : i # Len(w) => v[i] = w[i]
    BY <1>1, <1>3, <2>1
  <2> QED
    BY <1>1, <1>3, <2>2, <2>3
<1> QED
  BY <1>2, <1>3

\* A write of a newer version of the resource keeps the snapshots in order.
LEMMA SnapshotsAfterStore ==
  ASSUME ClusterOK, SnapshotsInOrder, NEW obj, IsSnapshot(Resource, obj),
         Store("Limitador", obj), UNCHANGED cache
  PROVE  /\ SnapshotsInOrder' /\ Resource' = obj
         /\ \A o : IsSnapshot(o, Resource) => IsSnapshot(o, Resource')
<1>1. Resource' = obj /\ obj \in Limitadors
  BY StoreFrame DEF Resource, Kinds, IsSnapshot
<1>2. \A o : IsSnapshot(o, Resource) => IsSnapshot(o, obj) /\ o.generation <= obj.generation
  <2>1. \A o : IsSnapshot(o, Resource) => IsSnapshot(o, obj)
    BY SnapshotOrder
  <2> QED
    BY <2>1 DEF IsSnapshot
<1>3. Seen' = Seen
  BY DEF Seen
<1>4. CASE obj = Resource
  <2>1. Coming' = Coming
    BY <1>4 DEF Store, Resource, Coming
  <2> QED
    BY <1>1, <1>2, <1>3, <1>4, <2>1 DEF SnapshotsInOrder
<1>5. CASE obj # Resource
  <2> DEFINE n == IF Enqueues("Limitador", Resource, obj) THEN {"dirty"} ELSE {}
             v == Coming'
  <2>1. /\ Coming \in Seq(Changes("Limitador"))
        /\ v = Announce(Coming, obj, n)
    BY <1>5 DEF Store, Resource, Coming, ClusterOK, WatchOK, CachedKinds, Kinds
  <2>2. /\ Len(v) \in Nat \ {0} /\ v[Len(v)].obj = obj
        /\ \A i \in 1..Len(v) : i # Len(v) => i \in 1..Len(Coming) /\ v[i] = Coming[i]
    <3> HIDE DEF n, v
    <3> QED
      BY <2>1, AnnounceFrame
  <2>3. Len(Coming) \in Nat
    BY <2>1
  <2> HIDE DEF n, v
  <2>4. IsSnapshot(obj, obj) /\ obj.generation <= obj.generation
    BY <1>1, SnapshotOrder DEF Limitadors
  <2>5. \A i \in 1..Len(v) : IsSnapshot(v[i].obj, obj)
    BY <1>2, <2>2, <2>4 DEF SnapshotsInOrder
  <2>6. \A i, j \in 1..Len(v) : i <= j => v[i].obj.generation <= v[j].obj.generation
    <3> SUFFICES ASSUME NEW i \in 1..Len(v), NEW j \in 1..Len(v), i <= j
                 PROVE  v[i].obj.generation <= v[j].obj.generation
      OBVIOUS
    <3>1. CASE j = Len(v)
      BY <3>1, <2>2, <2>5 DEF IsSnapshot
    <3>2. CASE j # Len(v)
      BY <3>2, <2>2 DEF SnapshotsInOrder
    <3> QED
      BY <3>1, <3>2
  <2>7. Seen # Nil => /\ IsSnapshot(Seen, obj)
                      /\ \A i \in 1..Len(v) : Seen.generation <= v[i].obj.generation
    BY <1>2, <2>2 DEF SnapshotsInOrder
  <2> QED
    BY <1>1, <1>2, <1>3, <2>5, <2>6, <2>7 DEF SnapshotsInOrder, v
<1> QED
  BY <1>4, <1>5

-----------------------------------------------------------------------------
\* The life of the resource.

\* Resources are created by users, and only tampering uses up the budget for it.
LEMMA FuelFrame ==
  ASSUME ClusterOK, [Next]_vars
  PROVE  /\ fuel'["create"] = fuel["create"] \/ \E s \in Specs : CreateLimitador(s)
         /\ fuel["tamper"] = 0 => fuel'["tamper"] = 0
<1>1. \A d \in Disturbances : Spend(d) =>
          /\ d # "create" => fuel'["create"] = fuel["create"]
          /\ fuel["tamper"] = 0 => fuel'["tamper"] = 0
  BY DEF Spend, ClusterOK, Disturbances
<1>2. UserStep => \/ \E s \in Specs : CreateLimitador(s)
                  \/ \E d \in Disturbances \ {"create"} : Spend(d)
  BY DEF UserStep, UpdateLimitador, DeleteLimitador, DeleteLimitadorForeground, SetSecret,
         DeleteChild, EditDeployment, AddSidecar, EditConfigMap, EditBudget, Disturbances
<1>3. DeploymentControllerStep => UNCHANGED fuel \/ Spend("evict")
  BY DEF DeploymentControllerStep, CreatePod, PodReady, StopPod, EvictPod, PodGone,
         UpdateDeploymentStatus
<1>4. CollectorStep \/ InformerStep => UNCHANGED fuel
  BY DEF CollectorStep, CollectChild, CollectLimitador, ReleaseClaim, InformerStep, Deliver,
         BackoffExpires
<1>5. WorkerStep => UNCHANGED fuel \/ Spend("fault")
  BY DEF WorkerStep, IgnoreLimitador, StartReconcile, reconcileService, reconcilePVC,
         reconcileDeployment, reconcileLimitsConfigMap, reconcilePdb, DeleteResource, Write,
         reconcilePodLimitsHashAnnotation, ReconcilePodAnnotation, FinishAnnotations,
         reconcileStatus, clusterVars
<1>6. Crash => Spend("crash")
  BY DEF Crash
<1>7. UNCHANGED vars => UNCHANGED fuel
  BY DEF vars, clusterVars
<1>8. \/ \E s \in Specs : CreateLimitador(s)
      \/ \E d \in Disturbances \ {"create"} : Spend(d)
      \/ UNCHANGED fuel
  BY <1>2, <1>3, <1>4, <1>5, <1>6, <1>7 DEF Next, ClusterStep, Disturbances
<1>9. \A s \in Specs : CreateLimitador(s) => Spend("create")
  BY DEF CreateLimitador
<1> QED
  BY <1>1, <1>8, <1>9 DEF Disturbances

\* A pass keeps the snapshot it started with, which came from the cache.
LEMMA PassFrame ==
  ASSUME TypeOK, Synced, [Next]_vars
  PROVE  \/ pc' = "idle"
         \/ pc # "idle" /\ lim' = lim
         \/ /\ pc = "idle" /\ Reconcilable(Seen)
            /\ lim' = Seen /\ pc' = "service" /\ UNCHANGED <<api, cache, watch>>
<1>1. CASE UNCHANGED workerVars
  BY <1>1 DEF workerVars
<1>2. CASE IgnoreLimitador \/ Crash
  BY <1>2 DEF IgnoreLimitador, Crash, Restart, Idle, workerVars
<1>3. CASE StartReconcile
  BY <1>3 DEF StartReconcile, Seen
<1>4. CASE SpecStep
  BY <1>4, SpecStepLemma DEF Advances, MidPass
<1>5. CASE reconcileStatus
  BY <1>5, StatusStep
<1> QED
  BY <1>1, <1>2, <1>3, <1>4, <1>5, StepsOfNext DEF vars

\* What a step may do to a resource that is there before and after it, and to what the
\* operator has and will have seen of it.
LEMMA ResourceSteps ==
  ASSUME TypeOK, Synced, [Next]_vars, Live("Limitador"), Resource' # Nil
  PROVE  \/ /\ Resource' = Resource
            /\ (Seen' = Seen /\ Coming' = Coming) \/ Crash \/ Deliver("Limitador")
         \/ /\ UNCHANGED cache
            /\ \/ \E s \in Specs :
                     Store("Limitador", [Resource EXCEPT !.spec = s, !.generation = @ + 1])
               \/ Store("Limitador", [Resource EXCEPT !.deleting = 1, !.generation = @ + 1])
               \/ /\ reconcileStatus
                  /\ Store("Limitador", PatchedLimitador(
                               calculateStatus(lim, cache["Deployment"], specErr)))
<1>0. ClusterOK /\ "Limitador" \in Kinds /\ "Limitador" \in CachedKinds
  BY DEF TypeOK, Kinds, CachedKinds
<1>1. \A j \in Kinds \ {"Limitador"} : OnlyChanges(j) => Resource' = Resource /\ Coming' = Coming
  BY <1>0 DEF OnlyChanges, Resource, Coming
<1>2. \A k \in CachedKinds : Deliver(k) =>
          /\ Resource' = Resource
          /\ k # "Limitador" => Seen' = Seen /\ Coming' = Coming
  BY <1>0 DEF Deliver, Resource, Seen, Coming, TypeOK, ClusterOK, CacheOK, WatchOK
<1>3. CASE UNCHANGED api /\ (UNCHANGED watch \/ Crash \/ \E k \in CachedKinds : Deliver(k))
  <2>1. CASE UNCHANGED watch /\ UNCHANGED cache
    BY <1>3, <2>1 DEF Resource, Seen, Coming
  <2>2. CASE Crash
    BY <1>3, <2>2 DEF Resource
  <2>3. CASE \E k \in CachedKinds : Deliver(k)
    BY <1>2, <2>3
  <2> QED
    BY <1>3, <2>1, <2>2, <2>3, CacheFrame
<1>4. CASE OnlyChanges("Limitador") /\ LimitadorWriter
  <2>1. \A s \in Specs : ~CreateLimitador(s)
    BY DEF CreateLimitador
  <2>2. ~DeleteLimitador /\ ~CollectLimitador
    BY <1>0, StoreFrame DEF DeleteLimitador, CollectLimitador, Resource
  <2>3. ASSUME reconcileStatus
        PROVE  /\ UNCHANGED cache
               /\ \/ Resource' = Resource /\ Seen' = Seen /\ Coming' = Coming
                  \/ Store("Limitador", PatchedLimitador(
                               calculateStatus(lim, cache["Deployment"], specErr)))
    BY <2>3, StatusStep DEF Resource, Seen, Coming
  <2> QED
    BY <1>4, <2>1, <2>2, <2>3
       DEF LimitadorWriter, UpdateLimitador, DeleteLimitadorForeground, Resource
<1>5. CASE \E j \in Kinds \ {"Limitador"} : OnlyChanges(j)
              /\ (ServiceWriter \/ ClaimWriter \/ DeploymentWriter \/ ConfigMapWriter
                  \/ BudgetWriter \/ PodWriter)
  <2>1. Resource' = Resource /\ Coming' = Coming
    BY <1>1, <1>5
  <2> QED
    BY <1>2, <2>1, CacheFrame DEF Seen
<1> QED
  BY <1>0, <1>3, <1>4, <1>5, Writers DEF Kinds, ChildKinds

\* Before its creation no step brings anything of the resource about.
LEMMA UnbornStep ==
  ASSUME TypeOK, Synced, Unborn, [Next]_vars, \A s \in Specs : ~CreateLimitador(s)
  PROVE  Unborn'
<1>0. ClusterOK /\ "Limitador" \in Kinds /\ "Limitador" \in CachedKinds
  BY DEF TypeOK, Kinds, CachedKinds
<1>1. pc = "idle" /\ pc' = "idle"
  BY PassFrame DEF Unborn, Reconcilable
<1>2. ~Live("Limitador")'
  <2>1. ~LimitadorWriter
    BY <1>1 DEF Unborn, LimitadorWriter, UpdateLimitador, DeleteLimitador,
                DeleteLimitadorForeground, CollectLimitador, reconcileStatus
  <2> QED
    BY <1>0, <2>1, Writers DEF OnlyChanges, Unborn, Live
<1>3. \A k \in ChildKinds : ~Live(k)'
  <2>1. \A k \in ChildKinds : ~CollectChild(k)
    BY DEF Unborn, CollectChild, Collectable, Owned, Live
  <2>2. \A k \in ChildKinds : ~DeleteChild(k)
    BY DEF Unborn, DeleteChild
  <2>3. ~ServiceWriter /\ ~ClaimWriter
    BY <1>1, <2>1 DEF ServiceWriter, ClaimWriter, Unborn, ReleaseClaim, reconcileService,
                      reconcilePVC, ChildKinds
  <2>4. ~DeploymentWriter /\ ~ConfigMapWriter /\ ~BudgetWriter
    BY <1>1, <2>1, <2>2
       DEF DeploymentWriter, ConfigMapWriter, BudgetWriter, Unborn, EditDeployment, AddSidecar,
           UpdateDeploymentStatus, EditConfigMap, EditBudget, reconcileDeployment,
           reconcileLimitsConfigMap, reconcilePdb, ChildKinds
  <2>5. \/ UNCHANGED api \/ OnlyChanges("Limitador") \/ OnlyChanges("Pod")
    BY <1>0, <2>3, <2>4, Writers
  <2> QED
    BY <2>5 DEF OnlyChanges, Unborn, Live, Kinds, ChildKinds
<1>4. Seen' = Nil
  <2>1. CASE Crash
    BY <1>0, <2>1 DEF Crash, Restart, Seen, Unborn, Live
  <2>2. CASE \E k \in CachedKinds : Deliver(k)
    BY <1>0, <2>2 DEF Deliver, Seen, Coming, Unborn, ClusterOK, CacheOK
  <2> QED
    BY <2>1, <2>2, CacheFrame DEF Seen, Unborn
<1>5. Coming' = <<>>
  <2>1. CASE Crash
    BY <1>0, <2>1 DEF Crash, Restart, Coming
  <2>2. CASE \E k \in CachedKinds : Deliver(k)
    BY <1>0, <2>2 DEF Deliver, Coming, Unborn, ClusterOK, WatchOK
  <2>3. CASE \E k \in Kinds \ {"Limitador"} : OnlyChanges(k)
    BY <1>0, <2>3 DEF OnlyChanges, Coming, Unborn
  <2>4. ~(OnlyChanges("Limitador") /\ LimitadorWriter)
    BY <1>1 DEF Unborn, LimitadorWriter, UpdateLimitador, DeleteLimitador,
                DeleteLimitadorForeground, CollectLimitador, reconcileStatus
  <2> QED
    BY <1>0, <2>1, <2>2, <2>3, <2>4, Writers DEF Coming, Unborn, Kinds, ChildKinds
<1> QED
  BY <1>1, <1>2, <1>3, <1>4, <1>5 DEF Unborn

\* The first of all snapshots is on its way once the resource is created.
LEMMA Birth ==
  ASSUME TypeOK, Unborn, fuel["create"] = 1, NEW s \in Specs, CreateLimitador(s),
         UNCHANGED workerVars
  PROVE  LifeInv'
<1> DEFINE l == [uid |-> next.uid, generation |-> 1, deleting |-> 0,
                 spec |-> s, status |-> EmptyStatus]
<1>0. ClusterOK /\ "Limitador" \in Kinds /\ "Limitador" \in CachedKinds
  BY DEF TypeOK, Kinds, CachedKinds
<1>1. l \in Limitadors /\ l.generation = 1 /\ l.deleting = 0 /\ l.status.observedGeneration = 0
  <2>1. next.uid \in Uids
    BY <1>0, Counters
  <2> QED
    BY <2>1 DEF Limitadors, EmptyStatus, Statuses
<1>2. /\ Store("Limitador", l) /\ UNCHANGED cache /\ fuel'["create"] = 0
      /\ api["Limitador"] = Nil
  BY <1>0 DEF CreateLimitador, Spend, ClusterOK, Disturbances, Live
<1> HIDE DEF l
<1>3. Resource' = l /\ Seen' = Nil /\ pc' = "idle"
  BY <1>0, <1>2, StoreFrame DEF Resource, Seen, Unborn, workerVars
<1> DEFINE v == Coming'
<1>4. Len(v) = 1 /\ v[1].obj = l
  <2>1. l # Nil
    BY <1>1, NilAssumption
  <2> DEFINE n == IF Enqueues("Limitador", api["Limitador"], l) THEN {"dirty"} ELSE {}
  <2>2. v = Announce(<<>>, l, n)
    BY <1>0, <1>2, <2>1 DEF Store, Coming, Unborn, ClusterOK, WatchOK
  <2> HIDE DEF n, v
  <2>3. v = <<[obj |-> l, notify |-> n]>>
    BY <2>2, ClusterAssumption DEF Announce
  <2> QED
    BY <2>3
<1> HIDE DEF v
<1>5. IsSnapshot(l, l)
  BY <1>1, SnapshotOrder
<1>6. SnapshotsInOrder'
  <2>1. \A i \in 1..Len(v) : IsSnapshot(v[i].obj, l)
    BY <1>4, <1>5
  <2>2. \A i, j \in 1..Len(v) : i <= j => v[i].obj.generation <= v[j].obj.generation
    BY <1>1, <1>4
  <2> QED
    BY <1>3, <2>1, <2>2 DEF SnapshotsInOrder, v
<1>7. ReportsInOrder'
  BY <1>1, <1>3 DEF ReportsInOrder, Observed
<1> QED
  BY <1>1, <1>2, <1>3, <1>6, <1>7, NilAssumption DEF LifeInv, Resource, Live

\* A snapshot that is delivered is the next one in order, and a process that starts has
\* the resource as it is.
LEMMA SnapshotsAfterEvent ==
  ASSUME TypeOK, Live("Limitador"), SnapshotsInOrder, Crash \/ Deliver("Limitador")
  PROVE  /\ SnapshotsInOrder' /\ Seen' # Nil
         /\ Seen # Nil => Seen.generation <= Seen'.generation
<1>0. /\ "Limitador" \in CachedKinds /\ Resource \in Limitadors /\ Resource' = Resource
      /\ Coming \in Seq(Changes("Limitador"))
  <2>1. ClusterOK /\ "Limitador" \in CachedKinds
    BY DEF TypeOK, Kinds, CachedKinds
  <2>2. Resource \in Limitadors /\ Coming \in Seq(Changes("Limitador"))
    BY <2>1, LiveObjects DEF Resource, Coming, ClusterOK, WatchOK
  <2>3. Resource' = Resource
    BY DEF Resource, Crash, Restart, Deliver
  <2> QED
    BY <2>1, <2>2, <2>3
<1>1. CASE Crash
  <2>1. Seen' = Resource /\ Coming' = <<>>
    BY <1>0, <1>1 DEF Crash, Restart, Seen, Coming, Resource
  <2>2. IsSnapshot(Resource, Resource) /\ Resource # Nil
    BY <1>0, SnapshotOrder, NilAssumption
  <2>3. Seen # Nil => Seen.generation <= Resource.generation
    BY DEF SnapshotsInOrder, IsSnapshot
  <2> QED
    BY <1>0, <2>1, <2>2, <2>3 DEF SnapshotsInOrder
<1>2. CASE Deliver("Limitador")
  <2>1. Seen' = Head(Coming).obj /\ Coming' = Tail(Coming) /\ Coming # <<>>
    BY <1>0, <1>2 DEF Deliver, Seen, Coming, TypeOK, ClusterOK, CacheOK, WatchOK
  <2>2. /\ Len(Coming) \in Nat \ {0} /\ Head(Coming) = Coming[1]
        /\ Len(Tail(Coming)) = Len(Coming) - 1
        /\ \A i \in 1..Len(Tail(Coming)) : Tail(Coming)[i] = Coming[i + 1]
    BY <1>0, <2>1
  <2> DEFINE v == Coming'
  <2>3. \A i \in 1..Len(v) : v[i] = Coming[i + 1] /\ i + 1 \in 1..Len(Coming)
    BY <2>1, <2>2
  <2>4. Seen' = Coming[1].obj /\ 1 \in 1..Len(Coming)
    BY <2>1, <2>2
  <2> HIDE DEF v
  <2>5. \A i \in 1..Len(v) : IsSnapshot(v[i].obj, Resource)
    BY <2>3 DEF SnapshotsInOrder
  <2>6. \A i, j \in 1..Len(v) : i <= j => v[i].obj.generation <= v[j].obj.generation
    <3>1. \A i, j \in 1..Len(v) : i <= j => i + 1 <= j + 1
      OBVIOUS
    <3> QED
      BY <2>3, <3>1 DEF SnapshotsInOrder
  <2>7. IsSnapshot(Seen', Resource) /\ Seen' # Nil
    BY <2>4, NilAssumption DEF SnapshotsInOrder, IsSnapshot
  <2>8. \A i \in 1..Len(v) : Seen'.generation <= v[i].obj.generation
    <3>1. \A i \in 1..Len(v) : 1 <= i + 1
      OBVIOUS
    <3> QED
      BY <2>3, <2>4, <3>1 DEF SnapshotsInOrder
  <2>9. Seen # Nil => Seen.generation <= Seen'.generation
    BY <2>4 DEF SnapshotsInOrder
  <2> QED
    BY <1>0, <2>5, <2>6, <2>7, <2>8, <2>9 DEF SnapshotsInOrder, v
<1> QED
  BY <1>1, <1>2

\* Steps that report nothing leave the order of the reports alone.
LEMMA ReportsKept ==
  ASSUME TypeOK, Synced, [Next]_vars, SnapshotsInOrder, ReportsInOrder,
         Resource \in Limitadors, Resource' \in Limitadors,
         \A o : IsSnapshot(o, Resource) => IsSnapshot(o, Resource'),
         Observed' = Observed, Resource'.deleting = 1 => Observed < Resource'.generation,
         Seen # Nil => Seen' # Nil /\ Seen.generation <= Seen'.generation,
         Seen' # Nil => Seen'.generation \in Nat
  PROVE  ReportsInOrder'
<1>0. Observed \in Nat
  BY DEF Observed, Limitadors, Statuses
<1>1. Seen # Nil => Seen.generation \in Nat /\ IsSnapshot(Seen, Resource)
  BY DEF SnapshotsInOrder, IsSnapshot, Limitadors
<1>2. Observed' <= IF Seen' = Nil THEN 0 ELSE Seen'.generation
  BY <1>0, <1>1 DEF ReportsInOrder
<1>3. ASSUME pc' # "idle"
      PROVE  /\ Seen' # Nil /\ IsSnapshot(lim', Resource')
             /\ Observed' <= lim'.generation /\ lim'.generation <= Seen'.generation
  <2>1. CASE pc # "idle" /\ lim' = lim
    <3>1. lim.generation \in Nat
      BY <2>1 DEF ReportsInOrder, IsSnapshot, Limitadors
    <3> QED
      BY <1>0, <1>1, <2>1, <3>1 DEF ReportsInOrder
  <2>2. CASE Reconcilable(Seen) /\ lim' = Seen /\ UNCHANGED cache
    <3>1. Seen # Nil /\ Seen' = Seen
      BY <2>2 DEF Reconcilable, Seen
    <3> QED
      BY <1>0, <1>1, <2>2, <3>1 DEF ReportsInOrder
  <2> QED
    BY <1>3, <2>1, <2>2, PassFrame
<1> QED
  BY <1>2, <1>3 DEF ReportsInOrder

\* A report is of the generation the pass worked on, which is not behind the last report.
LEMMA ReportStep ==
  ASSUME TypeOK, Synced, pc # "idle" => Reconcilable(lim), Live("Limitador"),
         SnapshotsInOrder, ReportsInOrder, reconcileStatus,
         Store("Limitador", PatchedLimitador(calculateStatus(lim, cache["Deployment"], specErr)))
  PROVE  /\ SnapshotsInOrder' /\ ReportsInOrder'
         /\ Resource' = PatchedLimitador(calculateStatus(lim, cache["Deployment"], specErr))
         /\ Resource'.generation = Resource.generation
         /\ Observed' = lim.generation /\ Observed <= Observed'
         /\ Observed' <= Resource.generation
<1> DEFINE st == calculateStatus(lim, cache["Deployment"], specErr)
           obj == [Resource EXCEPT !.status = st]
<1>0. /\ ClusterOK /\ Resource \in Limitadors /\ pc = "status" /\ pc' = "idle"
      /\ lim \in Limitadors /\ specErr \in SpecErrors /\ UNCHANGED cache /\ TypeOK'
  BY LiveObjects, StatusStep DEF TypeOK, Resource
<1>1. st \in Statuses /\ st.observedGeneration = lim.generation
  BY <1>0, CalculateStatusType DEF calculateStatus
<1> HIDE DEF st
<1>2. PatchedLimitador(st) = obj
  BY DEF PatchedLimitador, Resource
<1>3. /\ IsSnapshot(Resource, obj) /\ obj.generation = Resource.generation
      /\ obj.deleting = Resource.deleting /\ obj.status = st
  BY <1>0, <1>1, EditsAreSnapshots
<1> HIDE DEF obj
<1>4. SnapshotsInOrder' /\ Resource' = obj
  BY <1>0, <1>2, <1>3, SnapshotsAfterStore DEF st
<1>5. /\ Seen # Nil /\ Observed <= lim.generation /\ lim.generation <= Seen.generation
      /\ IsSnapshot(lim, Resource) /\ Reconcilable(lim)
  BY <1>0 DEF ReportsInOrder
<1>6. Observed' = lim.generation /\ Seen' = Seen
  BY <1>0, <1>1, <1>3, <1>4 DEF Observed, Seen
<1>7. Resource.deleting = 1 => lim.generation < Resource.generation
  BY <1>0, <1>5 DEF IsSnapshot, Reconcilable, Limitadors
<1>8. ReportsInOrder'
  BY <1>0, <1>3, <1>4, <1>5, <1>6, <1>7 DEF ReportsInOrder
<1> QED
  BY <1>2, <1>3, <1>4, <1>5, <1>6, <1>8 DEF st, IsSnapshot

\* A step in the life of the resource.
LEMMA LifeStep ==
  ASSUME ConvergenceInv, [Next]_vars, Live("Limitador"), Resource' # Nil,
         SnapshotsInOrder, ReportsInOrder, Resource.generation >= 1
  PROVE  /\ SnapshotsInOrder' /\ ReportsInOrder' /\ Resource'.generation >= 1
         /\ Observed <= Observed'
<1>0. /\ TypeOK /\ Synced /\ ClusterOK /\ (pc # "idle" => Reconcilable(lim))
      /\ Resource \in Limitadors
  BY LiveObjects DEF ConvergenceInv, TypeOK, Resource
<1>1. Resource.generation \in Nat /\ Observed \in Nat /\ Resource.deleting \in {0, 1}
  BY <1>0 DEF Limitadors, Statuses, Observed
<1>2. Seen # Nil => Seen.generation \in Nat
  BY DEF SnapshotsInOrder, IsSnapshot, Limitadors
<1>3. CASE /\ Resource' = Resource
           /\ (Seen' = Seen /\ Coming' = Coming) \/ Crash \/ Deliver("Limitador")
  <2>1. /\ SnapshotsInOrder'
        /\ Seen # Nil => Seen' # Nil /\ Seen.generation <= Seen'.generation
    <3>1. CASE Seen' = Seen /\ Coming' = Coming
      BY <1>2, <1>3, <3>1 DEF SnapshotsInOrder
    <3>2. CASE Crash \/ Deliver("Limitador")
      BY <1>0, <3>2, SnapshotsAfterEvent
    <3> QED
      BY <1>3, <3>1, <3>2
  <2>2. Seen' # Nil => Seen'.generation \in Nat
    BY <2>1 DEF SnapshotsInOrder, IsSnapshot, Limitadors
  <2>3. /\ \A o : IsSnapshot(o, Resource) => IsSnapshot(o, Resource')
        /\ Observed' = Observed /\ Resource' \in Limitadors
    BY <1>0, <1>3 DEF Observed
  <2>4. Resource'.deleting = 1 => Observed < Resource'.generation
    BY <1>3 DEF ReportsInOrder
  <2>5. ReportsInOrder'
    BY <1>0, <2>1, <2>2, <2>3, <2>4, ReportsKept
  <2> QED
    BY <1>1, <1>3, <2>1, <2>3, <2>5
<1>4. ASSUME NEW obj, UNCHANGED cache, Store("Limitador", obj), IsSnapshot(Resource, obj),
             obj.generation = Resource.generation + 1, obj.status = Resource.status
      PROVE  /\ SnapshotsInOrder' /\ ReportsInOrder' /\ Resource'.generation >= 1
             /\ Observed <= Observed'
  <2>1. /\ SnapshotsInOrder' /\ Resource' = obj /\ Resource' \in Limitadors
        /\ \A o : IsSnapshot(o, Resource) => IsSnapshot(o, Resource')
    BY <1>0, <1>4, SnapshotsAfterStore DEF IsSnapshot
  <2>2. Seen' = Seen
    BY <1>4 DEF Seen
  <2>3. Observed' = Observed
    BY <1>4, <2>1 DEF Observed
  <2>4. Observed < Resource'.generation
    <3>1. Observed <= Resource.generation
      BY <1>1, <1>2 DEF ReportsInOrder, SnapshotsInOrder, IsSnapshot
    <3> QED
      BY <1>1, <1>4, <2>1, <3>1
  <2>5. ReportsInOrder'
    <3>1. Seen # Nil => Seen' # Nil /\ Seen.generation <= Seen'.generation
      BY <1>2, <2>2
    <3>2. Seen' # Nil => Seen'.generation \in Nat
      BY <1>2, <2>2
    <3> QED
      BY <1>0, <2>1, <2>3, <2>4, <3>1, <3>2, ReportsKept
  <2> QED
    BY <1>1, <1>4, <2>1, <2>3, <2>5
<1>5. ASSUME UNCHANGED cache, NEW s \in Specs,
             Store("Limitador", [Resource EXCEPT !.spec = s, !.generation = @ + 1])
      PROVE  /\ SnapshotsInOrder' /\ ReportsInOrder' /\ Resource'.generation >= 1
             /\ Observed <= Observed'
  <2> DEFINE obj == [Resource EXCEPT !.spec = s, !.generation = @ + 1]
  <2>1. /\ IsSnapshot(Resource, obj) /\ obj.generation = Resource.generation + 1
        /\ obj.status = Resource.status
    BY <1>0, EditsAreSnapshots
  <2>2. Store("Limitador", obj)
    BY <1>5
  <2> HIDE DEF obj
  <2> QED
    BY <1>4, <1>5, <2>1, <2>2
<1>6. ASSUME UNCHANGED cache,
             Store("Limitador", [Resource EXCEPT !.deleting = 1, !.generation = @ + 1])
      PROVE  /\ SnapshotsInOrder' /\ ReportsInOrder' /\ Resource'.generation >= 1
             /\ Observed <= Observed'
  <2> DEFINE obj == [Resource EXCEPT !.deleting = 1, !.generation = @ + 1]
  <2>1. /\ IsSnapshot(Resource, obj) /\ obj.generation = Resource.generation + 1
        /\ obj.status = Resource.status
    BY <1>0, EditsAreSnapshots
  <2>2. Store("Limitador", obj)
    BY <1>6
  <2> HIDE DEF obj
  <2> QED
    BY <1>4, <1>6, <2>1, <2>2
<1>7. ASSUME reconcileStatus,
             Store("Limitador", PatchedLimitador(
                       calculateStatus(lim, cache["Deployment"], specErr)))
      PROVE  /\ SnapshotsInOrder' /\ ReportsInOrder' /\ Resource'.generation >= 1
             /\ Observed <= Observed'
  BY <1>0, <1>7, ReportStep
<1> QED
  BY <1>0, <1>3, <1>5, <1>6, <1>7, ResourceSteps

\* A resource that is gone does not come back without being created.
LEMMA DeathIsFinal ==
  ASSUME ClusterOK, [Next]_vars, ~Live("Limitador"), \A s \in Specs : ~CreateLimitador(s)
  PROVE  Resource' = Nil
<1>1. LimitadorWriter => reconcileStatus
  BY DEF LimitadorWriter, UpdateLimitador, DeleteLimitador, DeleteLimitadorForeground,
         CollectLimitador
<1>2. reconcileStatus => UNCHANGED api
  BY DEF reconcileStatus
<1> QED
  BY <1>1, <1>2, Writers DEF OnlyChanges, Resource, Live, Kinds, ChildKinds

\* The invariant about the life of the resource.
LEMMA LifeInit == OneLife /\ Init => LifeInv
<1> SUFFICES ASSUME OneLife, Init PROVE LifeInv
  OBVIOUS
<1>1. fuel["create"] \in {0, 1}
  BY ClusterAssumption DEF OneLife, Init, ClusterInit, Disturbances
<1>2. Unborn
  BY DEF Unborn, Init, ClusterInit, Live, Absent, Seen, Coming, Kinds, ChildKinds, CachedKinds
<1> QED
  BY <1>1, <1>2 DEF LifeInv, Unborn

LEMMA LifeNext == LifeInv /\ ConvergenceInv /\ [Next]_vars => LifeInv'
<1> SUFFICES ASSUME LifeInv, ConvergenceInv, [Next]_vars PROVE LifeInv'
  OBVIOUS
<1>0. TypeOK /\ Synced /\ ClusterOK
  BY DEF ConvergenceInv, TypeOK
<1>1. CASE \E s \in Specs : CreateLimitador(s)
  <2>1. PICK s \in Specs : CreateLimitador(s)
    BY <1>1
  <2>2. fuel["create"] = 1
    BY <2>1 DEF CreateLimitador, Spend, LifeInv
  <2>3. pc = "idle" /\ Unborn
    BY <2>2 DEF LifeInv, Unborn
  <2>4. UNCHANGED workerVars
    <3>1. cache' = cache /\ queue' = queue /\ api'["Limitador"] # api["Limitador"]
      <4>2. /\ api'["Limitador"] =
                   [uid |-> next.uid, generation |-> 1, deleting |-> 0,
                    spec |-> s, status |-> EmptyStatus]
            /\ api["Limitador"] = Nil
        BY <1>0, <2>1, StoreFrame DEF CreateLimitador, Kinds, Live
      <4>3. api'["Limitador"] \in Limitadors
        <5>1. next.uid \in Uids
          BY <1>0, Counters
        <5> QED
          BY <4>2, <5>1 DEF Limitadors, EmptyStatus, Statuses
      <4> QED
        BY <2>1, <4>2, <4>3, NilAssumption DEF CreateLimitador
    <3>2. ~IgnoreLimitador /\ ~StartReconcile /\ ~Crash
      BY <3>1 DEF IgnoreLimitador, StartReconcile, Crash, Restart
    <3>3. ~SpecStep /\ ~reconcileStatus
      BY <2>3, <1>0, SpecStepLemma DEF MidPass, reconcileStatus
    <3> QED
      BY <3>1, <3>2, <3>3, StepsOfNext DEF vars
  <2> QED
    BY <1>0, <2>1, <2>2, <2>3, <2>4, Birth
<1>2. CASE \A s \in Specs : ~CreateLimitador(s)
  <2>1. fuel'["create"] = fuel["create"]
    BY <1>0, <1>2, FuelFrame
  <2>2. CASE fuel["create"] = 1
    <3>1. Unborn'
      BY <1>0, <1>2, <2>2, UnbornStep DEF LifeInv
    <3> QED
      BY <2>1, <2>2, <3>1 DEF LifeInv, Unborn
  <2>3. CASE fuel["create"] = 0 /\ ~Live("Limitador")
    BY <1>0, <1>2, <2>1, <2>3, DeathIsFinal DEF LifeInv, Live, Resource
  <2>4. CASE fuel["create"] = 0 /\ Live("Limitador")
    BY <2>1, <2>4, LifeStep DEF LifeInv, Live, Resource
  <2> QED
    BY <2>2, <2>3, <2>4 DEF LifeInv
<1> QED
  BY <1>1, <1>2

LEMMA LifeInvariance == OneLife /\ Spec => [](ConvergenceInv /\ LifeInv)
  BY InitInv, NextInv, LifeInit, LifeNext, PTL DEF Spec

-----------------------------------------------------------------------------
\* The objects of a resource nobody tampers with.

\* Every object belongs to the one resource there ever is.
OwnChildren == \A k \in ChildKinds : Live(k) => api[k].owner = Resource.uid

\* A pass on the current generation has put in place what the current spec asks for, as
\* far as it has come, even if it will be told to look again.
CurrentPass ==
    pc # "idle" /\ lim.generation = Resource.generation /\ specErr = "none"
        => \A k \in AppliedBefore(pc) : Matches(k, Resource)

KeptInv ==
    /\ fuel["tamper"] = 0
    /\ Live("Limitador") => OwnChildren /\ CurrentPass /\ ReadyImpliesApplied

\* Without tampering, objects are changed by the passes, by the Deployment controller,
\* which touches the status, and by the garbage collector.
LEMMA ChildSteps ==
  ASSUME ClusterOK, [Next]_vars, fuel["tamper"] = 0, NEW k \in AppliedKinds
  PROVE  \/ api'[k] = api[k] \/ CollectChild(k) \/ SpecStep
         \/ /\ k = "Deployment" /\ Live(k) /\ api'[k] # Nil
            /\ api'[k].owner = api[k].owner /\ api'[k].data = api[k].data
<1>1. \A d \in {"tamper"} : ~Spend(d)
  BY DEF Spend
<1>2. /\ \A j \in EventKinds : ~DeleteChild(j)
      /\ ~EditDeployment /\ ~AddSidecar /\ ~EditConfigMap
      /\ \A data \in EditedBudgets : ~EditBudget(data)
  BY <1>1 DEF DeleteChild, EditDeployment, AddSidecar, EditConfigMap, EditBudget
<1>3. ASSUME UpdateDeploymentStatus
      PROVE  LET j == "Deployment"
             IN  /\ Live(j) /\ api'[j] # Nil
                 /\ api'[j].owner = api[j].owner /\ api'[j].data = api[j].data
  <2> DEFINE d == api["Deployment"]
  <2>1. d \in Deployments /\ Live("Deployment")
    BY <1>3, LiveObjects DEF UpdateDeploymentStatus
  <2>2. PICK st : Store("Deployment", [d EXCEPT !.status = st]) /\ st = DeploymentStatus(d)
    BY <1>3 DEF UpdateDeploymentStatus
  <2>3. st \in DeploymentStatuses
    BY <2>1, <2>2, DeploymentStatusType DEF ClusterOK
  <2>4. api'["Deployment"] = [d EXCEPT !.status = st]
    BY <2>2, StoreFrame DEF Kinds, ChildKinds
  <2>5. /\ [d EXCEPT !.status = st] \in Deployments
        /\ [d EXCEPT !.status = st].owner = d.owner /\ [d EXCEPT !.status = st].data = d.data
    BY <2>1, <2>3 DEF Deployments
  <2> QED
    BY <2>1, <2>4, <2>5, NilAssumption
<1>4. k \in {"Service", "Deployment", "ConfigMap", "PodDisruptionBudget"}
  BY DEF AppliedKinds
<1>5. \/ api'[k] = api[k]
      \/ k = "Service" /\ ServiceWriter
      \/ k = "Deployment" /\ DeploymentWriter
      \/ k = "ConfigMap" /\ ConfigMapWriter
      \/ k = "PodDisruptionBudget" /\ BudgetWriter
  BY <1>4, Writers DEF OnlyChanges, Kinds, ChildKinds
<1> QED
  BY <1>2, <1>3, <1>4, <1>5
     DEF ServiceWriter, DeploymentWriter, ConfigMapWriter, BudgetWriter, SpecStep, EventKinds

\* An object of the resource is not garbage unless the resource is marked for deletion.
LEMMA OwnChildrenAreKept ==
  ASSUME OwnChildren, Live("Limitador"), Resource.deleting = 0, NEW k \in ChildKinds
  PROVE  ~CollectChild(k)
  BY DEF OwnChildren, CollectChild, Collectable, Owned, Live, Resource

\* What is in place stays in place as long as no pass on an older generation is under way.
LEMMA MatchesKept ==
  ASSUME TypeOK, Synced, [Next]_vars, fuel["tamper"] = 0, OwnChildren, ReportsInOrder,
         Live("Limitador"), Resource.deleting = 0,
         Resource'.uid = Resource.uid, Resource'.spec = Resource.spec,
         pc # "idle" => lim.generation = Resource.generation,
         NEW k \in AppliedKinds, Matches(k, Resource)
  PROVE  Matches(k, Resource)'
<1>0. ClusterOK /\ k \in ChildKinds /\ k \in Kinds
  BY AppliedKindsLemma DEF TypeOK, AppliedKinds, ChildKinds
<1>1. CASE api'[k] = api[k]
  BY <1>1 DEF Matches, Live
<1>2. CASE /\ k = "Deployment" /\ Live(k) /\ api'[k] # Nil
           /\ api'[k].owner = api[k].owner /\ api'[k].data = api[k].data
  <2>1. CASE Desired(k, Resource.spec) = Nil
    BY <1>2, <2>1 DEF Matches
  <2>2. CASE Desired(k, Resource.spec) # Nil
    BY <1>2, <2>2 DEF Matches, Live, Agrees
  <2> QED
    BY <2>1, <2>2
<1>3. CASE SpecStep
  <2>1. MidPass /\ Advances
    BY <1>3, SpecStepLemma
  <2>2. IsSnapshot(lim, Resource) /\ lim.generation = Resource.generation /\ lim' = lim
    BY <2>1 DEF MidPass, ReportsInOrder, Advances
  <2>3. lim.uid = Resource.uid /\ lim.spec = Resource.spec
    BY <2>2 DEF IsSnapshot
  <2>4. CASE Matches(k, lim)'
    BY <2>2, <2>3, <2>4 DEF Matches
  <2> QED
    BY <1>1, <2>1, <2>4 DEF Advances
<1> QED
  BY <1>0, <1>1, <1>2, <1>3, ChildSteps, OwnChildrenAreKept

\* An edit of the resource raises its generation, a report leaves its objects alone.
LEMMA GenerationSteps ==
  ASSUME TypeOK, Synced, [Next]_vars, Live("Limitador"), Resource' # Nil
  PROVE  /\ Resource'.uid = Resource.uid
         /\ \/ Resource' = Resource
            \/ /\ Resource'.generation = Resource.generation + 1
               /\ Resource'.status = Resource.status
            \/ /\ reconcileStatus
               /\ Resource'.generation = Resource.generation /\ Resource'.spec = Resource.spec
               /\ Store("Limitador", PatchedLimitador(
                            calculateStatus(lim, cache["Deployment"], specErr)))
<1>0. Resource \in Limitadors /\ ClusterOK
  BY LiveObjects DEF TypeOK, Resource
<1>1. \A obj : Store("Limitador", obj) => Resource' = obj
  BY <1>0, StoreFrame DEF Resource, Kinds
<1>2. ASSUME NEW s \in Specs,
             Store("Limitador", [Resource EXCEPT !.spec = s, !.generation = @ + 1])
      PROVE  /\ Resource'.uid = Resource.uid /\ Resource'.status = Resource.status
             /\ Resource'.generation = Resource.generation + 1
  <2> DEFINE obj == [Resource EXCEPT !.spec = s, !.generation = @ + 1]
  <2>1. /\ IsSnapshot(Resource, obj) /\ obj.generation = Resource.generation + 1
        /\ obj.status = Resource.status
    BY <1>0, EditsAreSnapshots
  <2>2. Resource' = obj
    BY <1>1, <1>2
  <2> HIDE DEF obj
  <2> QED
    BY <2>1, <2>2 DEF IsSnapshot
<1>3. ASSUME Store("Limitador", [Resource EXCEPT !.deleting = 1, !.generation = @ + 1])
      PROVE  /\ Resource'.uid = Resource.uid /\ Resource'.status = Resource.status
             /\ Resource'.generation = Resource.generation + 1
  BY <1>0, <1>1, <1>3, EditsAreSnapshots DEF IsSnapshot
<1>4. ASSUME reconcileStatus,
             Store("Limitador", PatchedLimitador(
                       calculateStatus(lim, cache["Deployment"], specErr)))
      PROVE  /\ Resource'.uid = Resource.uid /\ Resource'.spec = Resource.spec
             /\ Resource'.generation = Resource.generation
  <2> DEFINE st == calculateStatus(lim, cache["Deployment"], specErr)
  <2>1. st \in Statuses
    BY <1>4, StatusStep, CalculateStatusType
  <2>2. Resource' = [Resource EXCEPT !.status = st]
    BY <1>1, <1>4 DEF PatchedLimitador, Resource
  <2> HIDE DEF st
  <2> QED
    BY <1>0, <2>1, <2>2, EditsAreSnapshots
<1> QED
  BY <1>2, <1>3, <1>4, ResourceSteps

\* Objects that are written are given to the one resource there is.
LEMMA OwnChildrenStep ==
  ASSUME TypeOK, Synced, [Next]_vars, fuel["tamper"] = 0, OwnChildren, ReportsInOrder,
         Live("Limitador"), Resource' # Nil
  PROVE  OwnChildren'
<1>0. ClusterOK /\ Resource'.uid = Resource.uid
  BY GenerationSteps DEF TypeOK
<1>1. pc # "idle" => lim.uid = Resource.uid
  BY DEF ReportsInOrder, IsSnapshot
<1>2. ASSUME NEW k \in AppliedKinds, api'[k] # Nil
      PROVE  api'[k].owner = Resource.uid
  <2>0. k \in ChildKinds
    BY DEF AppliedKinds, ChildKinds
  <2>1. CASE api'[k] = api[k]
    BY <1>2, <2>0, <2>1 DEF OwnChildren, Live
  <2>2. CASE CollectChild(k)
    <3>1. api'[k] = Nil
      BY <1>0, <2>0, <2>2, StoreFrame DEF CollectChild, Removed, Kinds, AppliedKinds
    <3> QED
      BY <1>2, <3>1
  <2>3. CASE SpecStep
    <3>1. MidPass /\ Advances
      BY <2>3, SpecStepLemma
    <3>2. Matches(k, lim)' => api'[k].owner = lim.uid
      BY <1>2, <3>1 DEF Matches, Live, Advances
    <3> QED
      BY <1>1, <2>1, <3>1, <3>2 DEF Advances, MidPass
  <2>4. CASE Live(k) /\ api'[k].owner = api[k].owner
    BY <2>0, <2>4 DEF OwnChildren
  <2> QED
    BY <1>0, <2>1, <2>2, <2>3, <2>4, ChildSteps
<1>3. ASSUME api'["PersistentVolumeClaim"] # Nil
      PROVE  api'["PersistentVolumeClaim"].owner = Resource.uid
  <2> DEFINE old == api["PersistentVolumeClaim"]
             new == api'["PersistentVolumeClaim"]
  <2>1. old # Nil => old.owner = Resource.uid
    BY DEF OwnChildren, Live, ChildKinds
  <2>2. CASE old \in Claims /\ new = [old EXCEPT !.deleting = 1]
    <3>1. new.owner = old.owner
      BY <2>2 DEF Claims
    <3> QED
      BY <2>1, <2>2, <3>1, NilAssumption
  <2>3. CASE old = Nil /\ reconcilePVC /\ PVC(lim.spec) # Nil /\ new = NewClaim(lim)
    BY <1>1, <2>3 DEF NewClaim, SetOwnerReference, reconcilePVC
  <2> QED
    BY <1>3, <2>1, <2>2, <2>3, ClaimSteps
<1>4. ChildKinds = AppliedKinds \cup {"PersistentVolumeClaim"}
  BY DEF ChildKinds, AppliedKinds
<1> QED
  BY <1>0, <1>2, <1>3, <1>4 DEF OwnChildren, Live

\* A pass that works on the current generation goes on to put it in place.
LEMMA CurrentPassStep ==
  ASSUME ConvergenceInv, [Next]_vars, fuel["tamper"] = 0, OwnChildren, CurrentPass,
         ReportsInOrder, Live("Limitador"), Resource' # Nil
  PROVE  CurrentPass'
<1>0. /\ TypeOK /\ Synced /\ (pc # "idle" => Reconcilable(lim)) /\ Resource \in Limitadors
  BY LiveObjects DEF ConvergenceInv, TypeOK, Resource
<1> SUFFICES ASSUME pc' # "idle", lim'.generation = Resource'.generation, specErr' = "none",
                    NEW k \in AppliedBefore(pc')
             PROVE  Matches(k, Resource)'
  BY DEF CurrentPass, AppliedBefore
<1>1. pc # "idle" /\ lim' = lim
  <2>1. pc' # "service"
    BY DEF AppliedBefore
  <2> QED
    BY <1>0, <2>1, PassFrame
<1>2. /\ IsSnapshot(lim, Resource) /\ lim.generation \in Nat
  BY <1>1 DEF ReportsInOrder, IsSnapshot, Limitadors
<1>3. ~reconcileStatus
  BY <1>0, StatusStep
<1>4. Resource' = Resource
  BY <1>0, <1>1, <1>2, <1>3, GenerationSteps DEF IsSnapshot, Limitadors
<1>5. /\ lim.generation = Resource.generation /\ lim.spec = Resource.spec
      /\ lim.uid = Resource.uid /\ Resource.deleting = 0
  BY <1>0, <1>1, <1>2, <1>4 DEF IsSnapshot, Reconcilable
<1>6. \A j \in AppliedKinds : Matches(j, Resource) => Matches(j, Resource)'
  BY <1>0, <1>4, <1>5, MatchesKept
<1>7. CASE SpecStep
  <2>1. MidPass /\ Advances
    BY <1>0, <1>7, SpecStepLemma
  <2>2. specErr = "none"
    BY <1>0, <2>1 DEF MidPass, TypeOK, WorkerOK
  <2>3. CASE Matches(k, lim)'
    BY <1>1, <1>4, <1>5, <2>3 DEF Matches
  <2>4. CASE k \in AppliedBefore(pc)
    <3>1. Matches(k, Resource) /\ k \in AppliedKinds
      BY <1>1, <1>5, <2>2, <2>4 DEF CurrentPass, AppliedBefore, AppliedKinds
    <3> QED
      BY <1>6, <3>1
  <2> QED
    BY <2>1, <2>3, <2>4 DEF Advances
<1>8. CASE UNCHANGED workerVars
  <2>1. Matches(k, Resource) /\ k \in AppliedKinds
    BY <1>1, <1>5, <1>8 DEF workerVars, CurrentPass, AppliedBefore, AppliedKinds
  <2> QED
    BY <1>6, <2>1
<1>9. ~IgnoreLimitador /\ ~StartReconcile /\ ~Crash
  BY <1>1 DEF IgnoreLimitador, StartReconcile, Crash, Restart, Idle
<1> QED
  BY <1>3, <1>7, <1>8, <1>9, StepsOfNext DEF vars

\* Once the current generation is reported, what is in place stays in place.
LEMMA ReportedIsKept ==
  ASSUME ConvergenceInv, [Next]_vars, fuel["tamper"] = 0, OwnChildren, SnapshotsInOrder,
         ReportsInOrder, Live("Limitador"), Resource'.uid = Resource.uid,
         Resource'.spec = Resource.spec, Observed = Resource.generation, Converged
  PROVE  Converged'
<1>0. TypeOK /\ Synced /\ Resource \in Limitadors
  BY LiveObjects DEF ConvergenceInv, TypeOK, Resource
<1>1. Resource.deleting = 0 /\ Resource.generation \in Nat
  BY <1>0 DEF ReportsInOrder, Limitadors
<1>2. pc # "idle" => lim.generation = Resource.generation
  BY <1>1 DEF ReportsInOrder, IsSnapshot, Limitadors
<1>3. \A k \in AppliedKinds : Matches(k, Resource)
  BY DEF Converged, Resource
<1>4. \A k \in AppliedKinds : Matches(k, Resource)'
  BY <1>0, <1>1, <1>2, <1>3, MatchesKept
<1> QED
  BY <1>4 DEF Converged, Resource

\* A report of Ready for the current generation comes from a pass without an error, which
\* has put everything in place.
LEMMA ReadyReport ==
  ASSUME ConvergenceInv, CurrentPass, SnapshotsInOrder, ReportsInOrder, Live("Limitador"),
         reconcileStatus,
         Store("Limitador", PatchedLimitador(calculateStatus(lim, cache["Deployment"], specErr))),
         Observed' = Resource.generation, Resource'.status.ready.cond.status = "True"
  PROVE  Converged /\ Converged'
<1> DEFINE st == calculateStatus(lim, cache["Deployment"], specErr)
<1>0. /\ TypeOK /\ Synced /\ (pc # "idle" => Reconcilable(lim)) /\ Resource \in Limitadors
  BY LiveObjects DEF ConvergenceInv, TypeOK, Resource
<1>1. /\ pc = "status" /\ lim.generation = Resource.generation
      /\ Resource' = [Resource EXCEPT !.status = st]
      /\ \A j \in Kinds \ {"Limitador"} : api'[j] = api[j]
  <2>1. Observed' = lim.generation /\ Resource' = PatchedLimitador(st)
    BY <1>0, ReportStep
  <2> HIDE DEF st
  <2> QED
    BY <1>0, <2>1, StatusStep DEF PatchedLimitador, Resource
<1>2. st.ready.cond = readyCondition(cache["Deployment"], specErr)
  BY DEF calculateStatus, SetStatusCondition
<1>3. st \in Statuses
  BY <1>0, StatusStep, CalculateStatusType
<1> HIDE DEF st
<1>4. Resource'.status = st /\ Resource'.spec = Resource.spec /\ Resource'.uid = Resource.uid
  BY <1>0, <1>1, <1>3, EditsAreSnapshots
<1>5. specErr = "none"
  BY <1>2, <1>4 DEF readyCondition, ReadyCondition
<1>6. \A k \in AppliedKinds : Matches(k, Resource)
  BY <1>1, <1>5 DEF CurrentPass, AppliedBefore
<1>7. \A k \in AppliedKinds : Matches(k, Resource)'
  BY <1>1, <1>4, <1>6, AppliedKindsLemma DEF Matches, Live
<1> QED
  BY <1>6, <1>7 DEF Converged, Resource

\* A step keeps the promise of a report.
LEMMA ReadyStep ==
  ASSUME ConvergenceInv, [Next]_vars, fuel["tamper"] = 0, OwnChildren, CurrentPass,
         ReadyImpliesApplied, SnapshotsInOrder, ReportsInOrder, Live("Limitador"),
         Resource' # Nil
  PROVE  ReadyImpliesApplied'
<1>0. TypeOK /\ Synced /\ Resource \in Limitadors /\ (pc # "idle" => Reconcilable(lim))
  BY LiveObjects DEF ConvergenceInv, TypeOK, Resource
<1> SUFFICES ASSUME Reconcilable(Resource'), Observed' = Resource'.generation,
                    Resource'.status.ready # Nil,
                    Resource'.status.ready.cond.status = "True"
             PROVE  Converged'
  BY DEF ReadyImpliesApplied, Resource, Observed, Reconcilable
<1>1. CASE Resource' = Resource
  <2>1. Converged
    BY <1>1 DEF ReadyImpliesApplied, Resource, Observed
  <2>2. Observed = Resource.generation
    BY <1>1 DEF Observed
  <2> QED
    BY <1>1, <2>1, <2>2, ReportedIsKept
<1>2. CASE /\ Resource'.generation = Resource.generation + 1
           /\ Resource'.status = Resource.status
  <2>1. Resource.generation \in Nat /\ Observed <= Resource.generation
    BY <1>0 DEF ReportsInOrder, SnapshotsInOrder, IsSnapshot, Limitadors, Statuses, Observed
  <2> QED
    BY <1>2, <2>1 DEF Observed
<1>3. CASE /\ reconcileStatus /\ Resource'.generation = Resource.generation
           /\ Store("Limitador", PatchedLimitador(
                        calculateStatus(lim, cache["Deployment"], specErr)))
  BY <1>3, ReadyReport
<1> QED
  BY <1>0, <1>1, <1>2, <1>3, GenerationSteps

LEMMA KeptInit == Untouched /\ Init => KeptInv
  BY DEF Untouched, Init, ClusterInit, KeptInv, Live, Absent, Kinds

LEMMA KeptNext == KeptInv /\ LifeInv /\ ConvergenceInv /\ LifeInv' /\ [Next]_vars => KeptInv'
<1> SUFFICES ASSUME KeptInv, LifeInv, ConvergenceInv, LifeInv', [Next]_vars PROVE KeptInv'
  OBVIOUS
<1>0. TypeOK /\ Synced /\ ClusterOK /\ fuel["tamper"] = 0
  BY DEF ConvergenceInv, TypeOK, KeptInv
<1>1. fuel'["tamper"] = 0
  BY <1>0, FuelFrame
<1>2. CASE Live("Limitador") /\ Resource' # Nil
  <2>1. OwnChildren /\ CurrentPass /\ ReadyImpliesApplied /\ SnapshotsInOrder /\ ReportsInOrder
    BY <1>2 DEF KeptInv, LifeInv
  <2> QED
    BY <1>0, <1>1, <1>2, <2>1, OwnChildrenStep, CurrentPassStep, ReadyStep DEF KeptInv
<1>3. CASE Resource' = Nil
  BY <1>1, <1>3 DEF KeptInv, Live, Resource
<1>4. CASE ~Live("Limitador") /\ Resource' # Nil
  <2>1. PICK s \in Specs : CreateLimitador(s)
    BY <1>0, <1>4, DeathIsFinal
  <2>2. Unborn
    BY <2>1 DEF CreateLimitador, Spend, LifeInv
  <2>3. /\ OnlyChanges("Limitador") /\ UNCHANGED cache
        /\ Resource'.generation = 1 /\ Resource'.status = EmptyStatus
    BY <1>0, <2>1, StoreFrame DEF CreateLimitador, Resource, Kinds
  <2>4. OwnChildren'
    BY <2>2, <2>3 DEF OwnChildren, Unborn, OnlyChanges, Live, Kinds, ChildKinds
  <2>5. CurrentPass'
    <3>1. pc' = "idle"
      BY <1>0, <2>2, PassFrame DEF Unborn, Reconcilable
    <3> QED
      BY <3>1 DEF CurrentPass
  <2>6. ReadyImpliesApplied'
    BY <2>3 DEF ReadyImpliesApplied, EmptyStatus, Resource
  <2> QED
    BY <1>1, <2>4, <2>5, <2>6 DEF KeptInv
<1> QED
  BY <1>2, <1>3, <1>4

LEMMA KeptInvariance ==
  OneLife /\ Untouched /\ Spec => [](ConvergenceInv /\ LifeInv /\ KeptInv)
  BY InitInv, NextInv, LifeInit, LifeNext, KeptInit, KeptNext, PTL DEF Spec

-----------------------------------------------------------------------------
\* The contract, step by step.

\* No resource, no promises.
LEMMA ContractInit == Init => Contract!Init
  BY DEF Init, ClusterInit, Contract!Init, Live, Absent, Kinds

\* Every step of the reconciler is a step of the contract, or none.
LEMMA ContractNext ==
  ASSUME ConvergenceInv, LifeInv, KeptInv, LifeInv', KeptInv', [Next]_vars
  PROVE  [Contract!Next]_(Contract!contractVars)
<1>0. TypeOK /\ Synced /\ ClusterOK /\ fuel["tamper"] = 0
  BY DEF ConvergenceInv, TypeOK, KeptInv
<1> USE DEF Contract!contractVars, Contract!Exists, Contract!Next
<1>1. CASE ~Live("Limitador") /\ Resource' = Nil
  BY <1>1 DEF Live, Resource
<1>2. CASE ~Live("Limitador") /\ Resource' # Nil
  <2>1. PICK s \in Specs : CreateLimitador(s)
    BY <1>0, <1>2, DeathIsFinal
  <2>2. Resource'.generation = 1 /\ Resource'.status = EmptyStatus
    BY <1>0, <2>1, StoreFrame DEF CreateLimitador, Resource, Kinds
  <2>3. Contract!Create
    BY <1>2, <2>2 DEF Contract!Create, EmptyStatus, Live, Resource
  <2> QED
    BY <2>3
<1>3. CASE Live("Limitador") /\ Resource' = Nil
  <2>1. Resource.generation \in Nat /\ Resource.generation >= 1
    BY <1>0, <1>3, LiveObjects DEF Resource, Limitadors, LifeInv
  <2>2. Contract!Delete
    BY <1>3, <2>1 DEF Contract!Delete, Live, Resource
  <2> QED
    BY <2>2
<1>4. CASE Live("Limitador") /\ Resource' # Nil
  <2>0. /\ OwnChildren /\ CurrentPass /\ SnapshotsInOrder /\ ReportsInOrder
        /\ Resource.generation >= 1 /\ ReadyImpliesApplied'
        /\ SnapshotsInOrder' /\ ReportsInOrder' /\ Live("Limitador")'
    BY <1>4 DEF KeptInv, LifeInv, Live, Resource
  <2>1. Resource \in Limitadors /\ Resource.generation \in Nat /\ Observed \in Nat
    <3>1. Resource \in Limitadors
      BY <1>0, <1>4, LiveObjects DEF Resource
    <3> QED
      BY <3>1 DEF Limitadors, Statuses, Observed
  <2>2. CASE Resource' = Resource
    <3>1. Observed = Resource.generation /\ Converged => Converged'
      BY <1>4, <1>0, <2>0, <2>2, ReportedIsKept
    <3>2. Contract!Apply
      BY <1>4, <2>0, <2>1, <2>2, <3>1 DEF Contract!Apply, Resource, Observed
    <3> QED
      BY <3>2
  <2>3. CASE /\ Resource'.generation = Resource.generation + 1
             /\ Resource'.status = Resource.status
    <3>1. Contract!Edit
      BY <1>4, <2>0, <2>1, <2>3 DEF Contract!Edit, Resource, Live
    <3> QED
      BY <3>1
  <2>4. CASE /\ reconcileStatus /\ Resource'.generation = Resource.generation
             /\ Store("Limitador", PatchedLimitador(
                          calculateStatus(lim, cache["Deployment"], specErr)))
    <3>1. /\ Observed <= Observed' /\ Observed' <= Resource.generation /\ Observed' \in Nat
      <4>1. /\ Observed <= Observed' /\ Observed' <= Resource.generation
            /\ Observed' = lim.generation
        BY <1>0, <1>4, <2>0, <2>4, ReportStep DEF ConvergenceInv
      <4>2. lim.generation \in Nat
        BY <1>0, <2>4, StatusStep DEF Limitadors
      <4> QED
        BY <4>1, <4>2
    <3>2. Converged' = Converged
      <4>1. /\ \A j \in Kinds \ {"Limitador"} : api'[j] = api[j]
            /\ Resource'.uid = Resource.uid /\ Resource'.spec = Resource.spec
        <5>1. Resource.generation # Resource.generation + 1
          BY <2>1
        <5> QED
          BY <1>0, <1>4, <2>4, <5>1, StatusStep, GenerationSteps
      <4>2. \A k \in AppliedKinds : Matches(k, Resource)' <=> Matches(k, Resource)
        BY <4>1, AppliedKindsLemma DEF Matches, Live
      <4> QED
        BY <4>2 DEF Converged, Resource
    <3>3. /\ Observed' = Resource.generation
          /\ Resource'.status.ready # Nil /\ Resource'.status.ready.cond.status = "True"
          => Converged
      BY <1>4, <2>0, <2>4, ReadyReport
    <3>4. Contract!Report
      BY <1>4, <2>0, <2>1, <2>4, <3>1, <3>2, <3>3 DEF Contract!Report, Resource, Observed
    <3> QED
      BY <3>4
  <2> QED
    BY <1>0, <1>4, <2>2, <2>3, <2>4, GenerationSteps
<1> QED
  BY <1>1, <1>2, <1>3, <1>4

-----------------------------------------------------------------------------
\* What the API server refuses.

BudgetIsOwn == Live("PodDisruptionBudget") => api["PodDisruptionBudget"].theirs = {}

RejectionInv == fuel["tamper"] = 0 /\ BudgetIsOwn /\ ForeignFieldsDoNotConflict

\* No budget that a spec asks for is refused while no other manager owns a field of it: the
\* API server admits no spec that sets both fields.
LEMMA OwnBudgetIsTaken ==
  ASSUME BudgetIsOwn, NEW s \in Specs, PodDisruptionBudget(s) # Nil
  PROVE  ~BudgetRejected(PodDisruptionBudget(s))
<1>1. s.pdb.maxUnavailable = Nil \/ s.pdb.minAvailable = Nil
  BY SpecAssumption DEF Admissible, PodDisruptionBudget
<1>2. \A f \in BudgetFields :
          s.pdb[f] = Nil => AppliedField(f, s.pdb, api["PodDisruptionBudget"]) = Nil
  BY DEF AppliedField, BudgetIsOwn, Live
<1> QED
  BY <1>1, <1>2 DEF BudgetRejected, PodDisruptionBudget, BudgetFields

\* The operator takes no field from another manager when there is none.
LEMMA BudgetStaysOwn ==
  ASSUME TypeOK, [Next]_vars, fuel["tamper"] = 0, BudgetIsOwn
  PROVE  BudgetIsOwn'
<1> DEFINE k == "PodDisruptionBudget"
<1>1. \A d \in {"tamper"} : ~Spend(d)
  BY DEF Spend
<1>2. ~DeleteChild(k) /\ \A data \in EditedBudgets : ~EditBudget(data)
  BY <1>1 DEF DeleteChild, EditBudget
<1>3. CASE api'[k] = api[k]
  BY <1>3 DEF BudgetIsOwn, Live
<1>4. CASE CollectChild(k)
  <2>1. api'[k] = Nil
    BY <1>4, StoreFrame DEF CollectChild, Removed, TypeOK, Kinds, ChildKinds
  <2> QED
    BY <2>1 DEF BudgetIsOwn, Live
<1>5. CASE reconcilePdb
  <2> DEFINE desired == PodDisruptionBudget(lim.spec)
  <2>1. \/ api'[k] = api[k] \/ api'[k] = Nil
        \/ api'[k] = AppliedBudget(lim, desired)
    BY <1>5, WriteFrame DEF reconcilePdb, DeleteResource, Removed, TypeOK, Kinds, ChildKinds
  <2>2. AppliedBudget(lim, desired).theirs = {}
    BY DEF AppliedBudget, BudgetIsOwn, Live
  <2> QED
    BY <2>1, <2>2 DEF BudgetIsOwn, Live
<1>6. api'[k] = api[k] \/ BudgetWriter
  BY Writers DEF OnlyChanges, TypeOK, Kinds, ChildKinds
<1> QED
  BY <1>2, <1>3, <1>4, <1>5, <1>6 DEF BudgetWriter

\* An error of the storage options is not a refusal.
LEMMA StorageIsNotRejected ==
  ASSUME NEW s, NEW sec
  PROVE  getDeploymentStorageOptions(s, sec).err # "Rejected"
<1>1. \A ref : SecretRefError(ref, sec) # "Rejected"
  BY DEF SecretRefError, validateRedisSecret
<1>2. \A r : RedisDeploymentOptions(r, sec).err # "Rejected"
  BY <1>1 DEF RedisDeploymentOptions, StorageError, StorageOptions
<1>3. \A r : RedisCachedDeploymentOptions(r, sec).err # "Rejected"
  BY <1>1 DEF RedisCachedDeploymentOptions, StorageError, StorageOptions
<1>4. /\ \A r : DiskDeploymentOptions(r).err # "Rejected"
      /\ InMemoryDeploymentOptions.err # "Rejected"
  BY DEF DiskDeploymentOptions, InMemoryDeploymentOptions, StorageOptions
<1> QED
  BY <1>2, <1>3, <1>4 DEF getDeploymentStorageOptions

\* A step of a pass meets a refusal only on the replicas of the spec it works on.
LEMMA RefusalStep ==
  ASSUME TypeOK, Synced, BudgetIsOwn, SpecStep, specErr' = "Rejected"
  PROVE  GetReplicas(lim.spec) < 0
<1>0. MidPass
  BY SpecStepLemma
<1>1. specErr = "none" /\ lim.spec \in Specs
  BY <1>0, MidPassTypes
<1>2. CASE reconcileDeployment
  <2> DEFINE storage == getDeploymentStorageOptions(lim.spec, secrets)
  <2>1. storage.err # "Rejected"
    BY StorageIsNotRejected
  <2>2. Deployment(lim.spec, storage).replicas = GetReplicas(lim.spec)
    BY DEF Deployment
  <2> QED
    BY <1>1, <1>2, <2>1, <2>2 DEF reconcileDeployment, FailSpec, Write, GoTo
<1>3. CASE reconcilePdb
  BY <1>1, <1>3, OwnBudgetIsTaken DEF reconcilePdb, DeleteResource, Write, GoTo, FailSpec
<1>4. ~reconcileService /\ ~reconcilePVC /\ ~reconcileLimitsConfigMap
  BY <1>1 DEF reconcileService, reconcilePVC, reconcileLimitsConfigMap, DeleteResource,
              Write, GoTo, FailSpec
<1>5. /\ ~reconcilePodLimitsHashAnnotation /\ ~FinishAnnotations
      /\ ~\E name \in todo.names : ReconcilePodAnnotation(name)
  BY <1>1 DEF reconcilePodLimitsHashAnnotation, FinishAnnotations, ReconcilePodAnnotation,
              GoTo, FailSpec
<1> QED
  BY <1>2, <1>3, <1>4, <1>5 DEF SpecStep

LEMMA RejectionNext == RejectionInv /\ ConvergenceInv /\ [Next]_vars => RejectionInv'
<1> SUFFICES ASSUME RejectionInv, ConvergenceInv, [Next]_vars PROVE RejectionInv'
  OBVIOUS
<1>0. TypeOK /\ Synced /\ ClusterOK
  BY DEF ConvergenceInv, TypeOK
<1>1. fuel'["tamper"] = 0 /\ BudgetIsOwn'
  BY <1>0, FuelFrame, BudgetStaysOwn DEF RejectionInv
<1>2. ForeignFieldsDoNotConflict'
  <2>1. CASE UNCHANGED workerVars
    BY <2>1 DEF RejectionInv, ForeignFieldsDoNotConflict, workerVars
  <2>2. CASE SpecStep
    <3>1. lim' = lim
      BY <1>0, <2>2, SpecStepLemma DEF Advances
    <3>2. specErr' = "Rejected" => GetReplicas(lim.spec) < 0
      BY <1>0, <2>2, RefusalStep DEF RejectionInv
    <3> QED
      BY <3>1, <3>2 DEF ForeignFieldsDoNotConflict
  <2>3. CASE StartReconcile
    <3>1. specErr' = "none"
      BY <1>0, <2>3 DEF StartReconcile, TypeOK, WorkerOK
    <3> QED
      BY <3>1 DEF ForeignFieldsDoNotConflict
  <2>4. CASE IgnoreLimitador \/ Crash \/ reconcileStatus
    <3>1. specErr' = "none" \/ UNCHANGED workerVars
      BY <2>4 DEF IgnoreLimitador, Crash, Restart, reconcileStatus, Finish, Idle
    <3> QED
      BY <2>1, <3>1 DEF ForeignFieldsDoNotConflict
  <2> QED
    BY <2>1, <2>2, <2>3, <2>4, StepsOfNext DEF vars
<1> QED
  BY <1>1, <1>2 DEF RejectionInv

-----------------------------------------------------------------------------
\* The theorems.

\* Reports are in order: as long as a resource of that name is created only once, a pass
\* that works on an old snapshot never overwrites the report of a later one, whatever is
\* edited, deleted, tampered with, lost or restarted while no call outlives its pass.
THEOREM ReportsDoNotGoBack == OneLife /\ Spec => ObservedGenerationMonotone
<1>1. ASSUME ConvergenceInv, LifeInv, [Next]_vars
      PROVE  [ /\ Live("Limitador") /\ api'["Limitador"] # Nil
               /\ api'["Limitador"].uid = api["Limitador"].uid
               => api'["Limitador"].status.observedGeneration
                      >= api["Limitador"].status.observedGeneration ]_vars
  <2> SUFFICES ASSUME Live("Limitador"), Resource' # Nil PROVE Observed' >= Observed
    BY DEF Resource, Observed
  <2>1. Resource' \in Limitadors /\ Resource \in Limitadors
    BY <1>1, NextInv, StoredKinds DEF ConvergenceInv, TypeOK, ClusterOK, ApiOK, Kinds, Resource, Live
  <2>2. Observed \in Nat /\ Observed' \in Nat
    BY <2>1 DEF Observed, Limitadors, Statuses
  <2> QED
    BY <1>1, <2>2, LifeStep DEF LifeInv
<1> QED
  BY <1>1, LifeInvariance, PTL DEF Spec, ObservedGenerationMonotone

\* A report is never of a generation the resource has not had, under the same condition.
THEOREM ReportsAreNotAhead == OneLife /\ Spec => []ObservedGenerationNotAhead
<1>1. ASSUME ConvergenceInv, LifeInv PROVE ObservedGenerationNotAhead
  <2> SUFFICES ASSUME Live("Limitador") PROVE Observed <= Resource.generation
    BY DEF ObservedGenerationNotAhead, Observed, Resource
  <2>1. Resource \in Limitadors
    BY <1>1, LiveObjects DEF ConvergenceInv, TypeOK, Resource
  <2> QED
    BY <1>1, <2>1
       DEF LifeInv, ReportsInOrder, SnapshotsInOrder, IsSnapshot, Limitadors, Statuses, Observed
<1> QED
  BY <1>1, LifeInvariance, PTL

\* Ready is a promise: a resource whose objects nobody tampers with does not claim to be
\* ready for its current generation before every object is the one its spec asks for, if
\* its calls end with their pass.
THEOREM ReadyIsKept == OneLife /\ Untouched /\ Spec => []ReadyImpliesApplied
<1>1. ASSUME KeptInv PROVE ReadyImpliesApplied
  BY <1>1 DEF KeptInv, ReadyImpliesApplied, Reconcilable, Live
<1> QED
  BY <1>1, KeptInvariance, PTL

\* Refinement: under the same conditions the reconciler keeps the contract of
\* LimitadorContract.
THEOREM ContractIsKept == OneLife /\ Untouched /\ Spec => RefinesContract
<1>1. ASSUME ConvergenceInv, LifeInv, KeptInv, LifeInv', KeptInv', [Next]_vars
      PROVE  [Contract!Next]_(Contract!contractVars)
  BY <1>1, ContractNext
<1> QED
  BY <1>1, ContractInit, KeptInvariance, PTL DEF Spec, RefinesContract, Contract!Spec

\* What the operator applies is refused for a negative number of replicas only, as long as
\* nobody else writes to the objects: the fields of the objects never get in each other's
\* way, through any edits of the spec that the validation rules admit.
THEOREM RefusalsComeFromSpec == Untouched /\ Spec => []ForeignFieldsDoNotConflict
<1>1. Untouched /\ Init => RejectionInv
  BY DEF Untouched, Init, ClusterInit, RejectionInv, BudgetIsOwn, ForeignFieldsDoNotConflict,
         Live, Absent, Kinds, ChildKinds
<1>2. RejectionInv => ForeignFieldsDoNotConflict
  BY DEF RejectionInv
<1> QED
  BY <1>1, <1>2, RejectionNext, Invariance, PTL DEF Spec
=============================================================================
