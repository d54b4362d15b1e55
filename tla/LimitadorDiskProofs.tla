------------------------- MODULE LimitadorDiskProofs -------------------------
(***************************************************************************)
(* Proofs about LimitadorReconciler: what it does with the claim of disk   *)
(* storage, with the pods that mount it, with the container another        *)
(* manager adds and with the number of replicas.  They hold for behaviours *)
(* that start with an empty cluster (Spec) and with one at rest            *)
(* (RestSpec).                                                             *)
(*                                                                         *)
(* The claim is not a kind the convergence proof covers: reconcilePVC      *)
(* creates or deletes it and never applies it, and its events do not wake  *)
(* the operator up.  ClaimFollowsSpec rests on the claim having no other   *)
(* creator than a pass whose spec asks for one: what a pass deleted stays  *)
(* deleted until the spec changes, and that is an event (ClaimInv).        *)
(***************************************************************************)
EXTENDS LimitadorReconcilerProofs

-----------------------------------------------------------------------------
\* What may happen to the claim.

ClaimGone ==
    ~Live("PersistentVolumeClaim") \/ api["PersistentVolumeClaim"].deleting = 1

\* A claim that is gone stays so, unless a pass creates one for its spec.
LEMMA ClaimStaysGone ==
  ASSUME TypeOK, [Next]_vars, ClaimGone
  PROVE  ClaimGone' \/ (reconcilePVC /\ PVC(lim.spec) # Nil)
<1>1. \A c \in Claims : [c EXCEPT !.deleting = 1].deleting = 1
  BY DEF Claims
<1> QED
  BY <1>1, ClaimSteps DEF ClaimGone, Live

-----------------------------------------------------------------------------
\* Claims are never changed.

\* Claims are created and removed and never updated: no step of anyone changes what a claim
\* asks for, whatever the spec turns into (ReconcilePersistentVolumeClaim is create-only).
THEOREM ClaimsAreImmutable ==
  (Spec => ClaimIsImmutable) /\ (RestSpec => ClaimIsImmutable)
<1>1. ASSUME TypeOK, [Next]_vars,
             Live("PersistentVolumeClaim"), api'["PersistentVolumeClaim"] # Nil
      PROVE  api'["PersistentVolumeClaim"].data = api["PersistentVolumeClaim"].data
  <2>1. \A c \in Claims : [c EXCEPT !.deleting = 1].data = c.data
    BY DEF Claims
  <2> QED
    BY <1>1, <2>1, ClaimSteps DEF Live
<1>2. TypeOK /\ [Next]_vars
        => [ Live("PersistentVolumeClaim") /\ api'["PersistentVolumeClaim"] # Nil
               => api'["PersistentVolumeClaim"].data = api["PersistentVolumeClaim"].data ]_vars
  BY <1>1
<1>3. ConvergenceInv => TypeOK
  BY DEF ConvergenceInv
<1> QED
  BY <1>2, <1>3, Invariance, RestInvariance, PTL DEF Spec, RestSpec, ClaimIsImmutable

-----------------------------------------------------------------------------
\* A claim goes with the disk storage.

PastClaim == Steps \ {"idle", "service", "pvc"}

\* An undisturbed pass that has got past the claim and wants none has removed it.
ClaimRemovedInPass ==
    pc \in PastClaim /\ Undisturbed /\ specErr = "none" /\ PVC(lim.spec) = Nil => ClaimGone

\* The inductive invariant.
ClaimInv == ConvergenceInv /\ ClaimRemovedInPass /\ ClaimFollowsSpec

\* A step of reconcileSpec keeps it.
LEMMA ClaimPassStep ==
  ASSUME ConvergenceInv, ClaimRemovedInPass, SpecStep
  PROVE  ClaimRemovedInPass'
<1> SUFFICES ASSUME pc' \in PastClaim, Undisturbed', specErr' = "none", PVC(lim'.spec) = Nil
             PROVE  ClaimGone'
  BY DEF ClaimRemovedInPass
<1>0. TypeOK /\ Synced /\ [Next]_vars
  BY DEF ConvergenceInv, SpecStep, Next, WorkerStep
<1>1. /\ MidPass /\ specErr = "none" /\ Undisturbed /\ lim' = lim
  BY <1>0, SpecStepLemma, MidPassTypes DEF Advances, NothingSilent
<1>2. CASE pc \in PastClaim
  BY <1>0, <1>1, <1>2, ClaimStaysGone DEF ClaimRemovedInPass
<1>3. CASE pc = "service"
  BY <1>3, <1>1
     DEF SpecStep, reconcileService, reconcilePVC, reconcileDeployment, reconcileLimitsConfigMap,
         reconcilePdb, reconcilePodLimitsHashAnnotation, ReconcilePodAnnotation,
         FinishAnnotations, Write, GoTo, FailSpec, PastClaim
<1>4. CASE pc = "pvc"
  <2> DEFINE k == "PersistentVolumeClaim"
  <2>1. reconcilePVC
    BY <1>4
       DEF SpecStep, reconcileService, reconcileDeployment, reconcileLimitsConfigMap,
           reconcilePdb, reconcilePodLimitsHashAnnotation, ReconcilePodAnnotation,
           FinishAnnotations
  <2>2. Store(k, IF Live(k) THEN Removed(k) ELSE Nil)
    BY <1>1, <2>1 DEF reconcilePVC, DeleteResource, Write, FailSpec
  <2>3. api'[k] = IF Live(k) THEN [api[k] EXCEPT !.deleting = 1] ELSE Nil
    BY <1>0, <2>2, StoreFrame DEF Removed, TypeOK, Kinds, ChildKinds
  <2>4. Live(k) => [api[k] EXCEPT !.deleting = 1].deleting = 1
    BY <1>0, LiveObjects DEF TypeOK, Claims
  <2> QED
    BY <2>3, <2>4 DEF ClaimGone, Live
<1> QED
  BY <1>0, <1>1, <1>2, <1>3, <1>4 DEF MidPass, TypeOK, WorkerOK, PastClaim, Steps

\* Every step keeps it.
LEMMA ClaimNextInv == ClaimInv /\ [Next]_vars => ClaimInv'
<1> SUFFICES ASSUME ClaimInv, [Next]_vars PROVE ClaimRemovedInPass' /\ ClaimFollowsSpec'
  BY NextInv DEF ClaimInv
<1>0. ConvergenceInv /\ TypeOK /\ Synced /\ UndisturbedPass
  BY DEF ClaimInv, ConvergenceInv
<1>1. CASE ClusterStep /\ UNCHANGED workerVars
  <2>1. NothingSilent /\ UNCHANGED <<pc, lim, specErr>>
    BY <1>0, <1>1, ClusterStepLemma DEF TypeOK, workerVars
  <2>2. ClaimGone /\ pc # "pvc" => ClaimGone'
    BY <1>0, ClaimStaysGone DEF reconcilePVC
  <2>3. ClaimRemovedInPass'
    BY <2>1, <2>2 DEF ClaimInv, ClaimRemovedInPass, NothingSilent, PastClaim
  <2>4. Quiescent' => Quiescent /\ api'["Limitador"] = api["Limitador"] /\ pc # "pvc"
    <3> SUFFICES ASSUME Quiescent'
                 PROVE  Quiescent /\ api'["Limitador"] = api["Limitador"] /\ pc # "pvc"
      OBVIOUS
    <3>1. Undisturbed' /\ pc = "idle" /\ queue = {}
      BY <2>1 DEF Quiescent, Undisturbed, NothingSilent
    <3> QED
      BY <2>1, <3>1 DEF Quiescent, Undisturbed, NothingSilent, EventKinds
  <2>5. ClaimFollowsSpec'
    BY <2>2, <2>4 DEF ClaimInv, ClaimFollowsSpec, ClaimGone, Live, Reconcilable
  <2> QED
    BY <2>3, <2>5
<1>2. CASE IgnoreLimitador
  <2>1. ClaimRemovedInPass'
    BY <1>2 DEF IgnoreLimitador, workerVars, ClaimRemovedInPass, PastClaim
  <2>2. ClaimFollowsSpec'
    BY <1>0, <1>2, RestAfterIgnore DEF ClaimFollowsSpec, Reconcilable
  <2> QED
    BY <2>1, <2>2
<1>3. CASE StartReconcile
  BY <1>3 DEF StartReconcile, ClaimRemovedInPass, PastClaim, ClaimFollowsSpec, Quiescent
<1>4. CASE SpecStep
  <2>1. pc' # "idle"
    BY <1>0, <1>4, SpecStepLemma DEF Advances
  <2> QED
    BY <1>0, <1>4, <2>1, ClaimPassStep DEF ClaimInv, ClaimFollowsSpec, Quiescent
<1>5. CASE reconcileStatus
  <2>1. pc = "status" /\ pc' = "idle"
    BY <1>0, <1>5, StatusStep
  <2>2. ASSUME Quiescent', PVC(api'["Limitador"].spec) = Nil
        PROVE  ClaimGone'
    <3>1. UNCHANGED api /\ Undisturbed /\ specErr = "none" /\ lim = api["Limitador"]
      BY <1>0, <1>5, <2>2, RestAfterStatus DEF UndisturbedPass
    <3>2. ClaimGone
      BY <2>1, <2>2, <3>1 DEF ClaimInv, ClaimRemovedInPass, PastClaim, Steps
    <3> QED
      BY <3>1, <3>2 DEF ClaimGone, Live
  <2> QED
    BY <2>1, <2>2 DEF ClaimRemovedInPass, PastClaim, ClaimFollowsSpec, ClaimGone, Live
<1>6. CASE Crash
  <2>1. Restart /\ pc' = "idle"
    BY <1>6 DEF Crash, Restart, Idle
  <2>2. ClaimFollowsSpec'
    BY <2>1, RestAfterRestart DEF ClaimFollowsSpec, Reconcilable
  <2> QED
    BY <2>1, <2>2 DEF ClaimRemovedInPass, PastClaim
<1>7. CASE UNCHANGED vars
  <2>1. UNCHANGED <<api, watch, queue, pc, lim, specErr>>
    BY <1>7 DEF vars, clusterVars, workerVars
  <2> QED
    BY <2>1 DEF ClaimInv, ClaimRemovedInPass, ClaimFollowsSpec, ClaimGone, Undisturbed, Quiescent,
                Reconcilable, Live
<1> QED
  BY <1>1, <1>2, <1>3, <1>4, <1>5, <1>6, <1>7, StepsOfNext

\* An operator at rest has removed the claim of a spec without disk storage, or its removal
\* waits for the last pod, however the storage was changed and whatever call failed.
THEOREM ClaimGoesWithDisk ==
  (Spec => []ClaimFollowsSpec) /\ (RestSpec => []ClaimFollowsSpec)
<1>1. Init => ClaimInv
  <2> SUFFICES ASSUME Init PROVE ClaimRemovedInPass /\ ClaimFollowsSpec
    BY InitInv DEF ClaimInv
  <2>1. pc = "idle" /\ ~Live("PersistentVolumeClaim")
    BY DEF Init, ClusterInit, Absent, Live, Kinds, ChildKinds
  <2> QED
    BY <2>1 DEF ClaimRemovedInPass, ClaimFollowsSpec, PastClaim
<1>2. RestInit => ClaimInv
  <2> SUFFICES ASSUME NEW spec \in Specs, AtRest(spec)
               PROVE  ClaimRemovedInPass /\ ClaimFollowsSpec
    BY RestInv DEF ClaimInv, RestInit
  <2>1. /\ pc = "idle" /\ api["Limitador"] = RestingLimitador(spec)
        /\ PVC(spec) = Nil => ~Live("PersistentVolumeClaim")
    BY DEF AtRest, Live, RestingObject, Kinds, ChildKinds
  <2>2. RestingLimitador(spec).spec = spec
    BY RestingStatus
  <2> QED
    BY <2>1, <2>2 DEF ClaimRemovedInPass, ClaimFollowsSpec, PastClaim
<1>3. ClaimInv => ClaimFollowsSpec
  BY DEF ClaimInv
<1> QED
  BY <1>1, <1>2, <1>3, ClaimNextInv, PTL DEF Spec, RestSpec

-----------------------------------------------------------------------------
\* The pods that mount the claim.

\* Only disk storage mounts the claim, and it comes with the Recreate strategy.
LEMMA DiskIsRecreated ==
  \A d \in DeploymentData : UsesDisk(d.template) => d.strategy = "Recreate"
<1> DEFINE storage(s) == getDeploymentStorageOptions(s, [n \in SecretNames |-> "URL"])
<1>1. \A s : storage(s).volumes = <<>> \/ storage(s).strategy = "Recreate"
  <2>1. \A r, sec : RedisDeploymentOptions(r, sec).volumes = <<>>
    BY DEF RedisDeploymentOptions, StorageError, StorageOptions
  <2>2. \A r, sec : RedisCachedDeploymentOptions(r, sec).volumes = <<>>
    BY DEF RedisCachedDeploymentOptions, StorageError, StorageOptions
  <2>3. \A r : DiskDeploymentOptions(r).strategy = "Recreate"
    BY DEF DiskDeploymentOptions, StorageOptions
  <2>4. InMemoryDeploymentOptions.volumes = <<>>
    BY DEF InMemoryDeploymentOptions, StorageOptions
  <2> QED
    BY <2>1, <2>2, <2>3, <2>4 DEF getDeploymentStorageOptions
<1>2. ASSUME NEW d \in DeploymentData, UsesDisk(d.template) PROVE d.strategy = "Recreate"
  <2>1. PICK s \in Specs :
            d = DesiredDeployment(s) \/ d = [DesiredDeployment(s) EXCEPT !.replicas = 0]
    BY DEF DeploymentData
  <2> HIDE DEF storage
  <2>2. /\ d.template.volumes = <<"config-file">> \o storage(s).volumes
        /\ d.strategy = storage(s).strategy
    BY <2>1 DEF DesiredDeployment, Deployment, storage
  <2>3. storage(s).volumes # <<>>
    <3> SUFFICES ASSUME storage(s).volumes = <<>> PROVE FALSE
      OBVIOUS
    <3>1. Len(<<"config-file">> \o <<>>) = 1
      OBVIOUS
    <3> QED
      BY <1>2, <2>2, <3>1 DEF UsesDisk
  <2> QED
    BY <1>1, <2>2, <2>3
<1> QED
  BY <1>2

\* Pods that come from pods that agree do agree.
LEMMA AgreementIsKept ==
  ASSUME DiskPodsAgree,
         \A p \in Pods' : \E q \in Pods : p.template = q.template /\ p.sidecar = q.sidecar
  PROVE  DiskPodsAgree'
<1> SUFFICES ASSUME NEW p \in Pods', NEW q \in Pods', UsesDisk(p.template), UsesDisk(q.template)
             PROVE  p.template = q.template /\ p.sidecar = q.sidecar
  BY DEF DiskPodsAgree
<1>1. PICK p0 \in Pods : p.template = p0.template /\ p.sidecar = p0.sidecar
  OBVIOUS
<1>2. PICK q0 \in Pods : q.template = q0.template /\ q.sidecar = q0.sidecar
  OBVIOUS
<1> QED
  BY <1>1, <1>2 DEF DiskPodsAgree

\* No step makes the pods disagree: a new pod that mounts the claim waits for the others.
LEMMA DiskPodsStep ==
  ASSUME TypeOK, DiskPodsAgree, [Next]_vars
  PROVE  DiskPodsAgree'
<1>0. ClusterOK /\ "Pod" \in Kinds /\ Pods \subseteq PodObjects
  BY LiveObjects DEF TypeOK, Kinds
<1>1. CASE CreatePod
  <2> DEFINE d == api["Deployment"]
             new == [name |-> next.pod, template |-> d.data.template, sidecar |-> d.sidecar,
                     ready |-> 0, terminating |-> 0, rv |-> Nil]
  <2>1. Pods' = Pods \cup {new}
    BY <1>0, <1>1, StoreFrame DEF CreatePod, Pods
  <2>2. d.data \in DeploymentData
    BY <1>1, LiveObjects DEF CreatePod, TypeOK, Deployments
  <2>3. UsesDisk(new.template) => \A p \in Pods : SameTemplate(p, d)
    BY <1>1, <2>2, DiskIsRecreated DEF CreatePod
  <2>4. new.template = d.data.template /\ new.sidecar = d.sidecar
    OBVIOUS
  <2> HIDE DEF new
  <2> QED
    BY <2>1, <2>3, <2>4 DEF DiskPodsAgree, SameTemplate
<1>2. ASSUME NEW p \in Pods, NEW q, q.template = p.template, q.sidecar = p.sidecar,
             Store("Pod", (Pods \ {p}) \cup {q})
      PROVE  DiskPodsAgree'
  <2>1. Pods' = (Pods \ {p}) \cup {q}
    BY <1>0, <1>2, StoreFrame DEF Pods
  <2> QED
    BY <1>2, <2>1, AgreementIsKept
<1>3. ASSUME NEW p \in Pods, PodReady(p) PROVE DiskPodsAgree'
  <2> DEFINE q == [p EXCEPT !.ready = 1]
  <2>1. q.template = p.template /\ q.sidecar = p.sidecar
    BY <1>0 DEF PodObjects
  <2>2. Store("Pod", (Pods \ {p}) \cup {q})
    BY <1>3 DEF PodReady
  <2> HIDE DEF q
  <2> QED
    BY <1>2, <2>1, <2>2
<1>4. ASSUME NEW p \in Pods, StopPod(p) \/ EvictPod(p) PROVE DiskPodsAgree'
  <2> DEFINE q == [p EXCEPT !.terminating = 1]
  <2>1. q.template = p.template /\ q.sidecar = p.sidecar
    BY <1>0 DEF PodObjects
  <2>2. Store("Pod", (Pods \ {p}) \cup {q})
    BY <1>4 DEF StopPod, EvictPod, Terminate
  <2> HIDE DEF q
  <2> QED
    BY <1>2, <2>1, <2>2
<1>5. ASSUME NEW p \in Pods, PodGone(p) PROVE DiskPodsAgree'
  <2>1. Pods' = Pods \ {p}
    BY <1>0, <1>5, StoreFrame DEF PodGone, Pods
  <2> QED
    BY <2>1, AgreementIsKept
<1>6. CASE Pods' = Pods
  BY <1>6 DEF DiskPodsAgree
<1>7. ASSUME NEW name, ReconcilePodAnnotation(name) PROVE DiskPodsAgree'
  <2>1. CASE StorePodAnnotation(name)
    <3>1. PICK p \in Pods : Store("Pod", (Pods \ {p}) \cup {[p EXCEPT !.rv = todo.rv]})
      BY <2>1 DEF StorePodAnnotation
    <3> DEFINE q == [p EXCEPT !.rv = todo.rv]
    <3>2. q.template = p.template /\ q.sidecar = p.sidecar
      BY <1>0 DEF PodObjects
    <3>3. Store("Pod", (Pods \ {p}) \cup {q})
      BY <3>1
    <3> HIDE DEF q
    <3> QED
      BY <1>2, <3>2, <3>3
  <2>2. CASE UNCHANGED api
    BY <1>6, <2>2 DEF Pods
  <2> QED
    BY <1>7, <2>1, <2>2 DEF ReconcilePodAnnotation
<1>8. Pods' = Pods \/ PodWriter
  BY <1>0, Writers DEF OnlyChanges, Pods
<1> QED
  BY <1>1, <1>3, <1>4, <1>5, <1>6, <1>7, <1>8 DEF PodWriter

\* Two processes of different versions never have the disk at the same time: the pods that
\* mount the claim, terminating ones included, are all of one template.
THEOREM OneVersionOnDisk ==
  (Spec => []DiskPodsAgree) /\ (RestSpec => []DiskPodsAgree)
<1>1. Init => DiskPodsAgree
  BY DEF Init, ClusterInit, Absent, Pods, DiskPodsAgree, Kinds
<1>2. RestInit => DiskPodsAgree
  <2> SUFFICES ASSUME NEW spec \in Specs, AtRest(spec) PROVE DiskPodsAgree
    BY DEF RestInit
  <2>1. Pods = RestingPods(spec)
    BY DEF AtRest, Pods, RestingObject, Kinds
  <2> QED
    BY <2>1 DEF DiskPodsAgree, RestingPods
<1>3. ConvergenceInv => TypeOK
  BY DEF ConvergenceInv
<1>4. TypeOK /\ DiskPodsAgree /\ [Next]_vars => DiskPodsAgree'
  BY DiskPodsStep
<1> QED
  BY <1>1, <1>2, <1>3, <1>4, Invariance, RestInvariance, PTL DEF Spec, RestSpec

-----------------------------------------------------------------------------
\* The container of another manager.

\* No step of anyone takes the container out while the Deployment is there.
LEMMA SidecarStep ==
  ASSUME TypeOK, [Next]_vars, Live("Deployment"), api'["Deployment"] # Nil
  PROVE  api'["Deployment"].sidecar >= api["Deployment"].sidecar
<1> DEFINE k == "Deployment"
           d == api[k]
<1>0. ClusterOK /\ k \in Kinds /\ d \in Deployments
  BY LiveObjects DEF TypeOK, Kinds, ChildKinds
<1>1. d.sidecar \in {0, 1}
  BY <1>0 DEF Deployments
<1>2. \A obj : Store(k, obj) => api'[k] = obj
  BY <1>0, StoreFrame
<1>3. CASE api'[k] = d
  BY <1>1, <1>3
<1>4. CASE DeleteChild(k)
  BY <1>2, <1>4 DEF DeleteChild
<1>5. CASE EditDeployment
  <2>1. api'[k] = [d EXCEPT !.data.replicas = 0, !.generation = @ + 1]
    BY <1>2, <1>5 DEF EditDeployment
  <2> QED
    BY <1>0, <1>1, <2>1 DEF Deployments
<1>6. CASE AddSidecar
  <2>1. api'[k] = [d EXCEPT !.sidecar = 1, !.generation = @ + 1]
    BY <1>2, <1>6 DEF AddSidecar
  <2> QED
    BY <1>0, <1>1, <2>1 DEF Deployments
<1>7. CASE UpdateDeploymentStatus
  <2>1. api'[k] = [d EXCEPT !.status = DeploymentStatus(d)]
    BY <1>2, <1>7 DEF UpdateDeploymentStatus
  <2> QED
    BY <1>0, <1>1, <2>1 DEF Deployments
<1>8. CASE CollectChild(k)
  BY <1>2, <1>8 DEF CollectChild, Removed
<1>9. CASE reconcileDeployment
  <2>1. \/ UNCHANGED api
        \/ \E data : api'[k] = AppliedDeployment(lim, data)
    BY <1>0, <1>9, WriteFrame DEF reconcileDeployment
  <2>2. \A data : AppliedDeployment(lim, data).sidecar = d.sidecar
    BY DEF AppliedDeployment, Live
  <2> QED
    BY <1>1, <1>3, <2>1, <2>2
<1>10. api'[k] = d \/ DeploymentWriter
  BY <1>0, Writers DEF OnlyChanges
<1> QED
  BY <1>3, <1>4, <1>5, <1>6, <1>7, <1>8, <1>9, <1>10 DEF DeploymentWriter

\* What another manager put into the Deployment stays: the operator applies the fields it
\* owns, so even a pass that works from an old copy of the Deployment does not undo it.
THEOREM SidecarStays ==
  (Spec => SidecarPreserved) /\ (RestSpec => SidecarPreserved)
<1>1. TypeOK /\ [Next]_vars
        => [ Live("Deployment") /\ api'["Deployment"] # Nil
               => api'["Deployment"].sidecar >= api["Deployment"].sidecar ]_vars
  BY SidecarStep
<1>2. ConvergenceInv => TypeOK
  BY DEF ConvergenceInv
<1> QED
  BY <1>1, <1>2, Invariance, RestInvariance, PTL DEF Spec, RestSpec, SidecarPreserved

-----------------------------------------------------------------------------
\* The number of replicas.

\* The API server stores no Deployment with a negative number of replicas.
ReplicasStored == Live("Deployment") => api["Deployment"].data.replicas >= 0

\* Every step keeps it: reconcileDeployment is refused, and scaling by hand sets zero.
LEMMA ReplicasStep ==
  ASSUME TypeOK, ReplicasStored, [Next]_vars
  PROVE  ReplicasStored'
<1> DEFINE k == "Deployment"
           d == api[k]
<1> SUFFICES ASSUME api'[k] # Nil PROVE api'[k].data.replicas >= 0
  BY DEF ReplicasStored, Live
<1>0. ClusterOK /\ k \in Kinds
  BY DEF TypeOK, Kinds, ChildKinds
<1>1. \A obj : Store(k, obj) => api'[k] = obj
  BY <1>0, StoreFrame
<1>2. CASE api'[k] = d
  BY <1>2 DEF ReplicasStored, Live
<1>3. Live(k) => d \in Deployments
  BY <1>0, LiveObjects
<1>4. CASE DeleteChild(k)
  BY <1>1, <1>4 DEF DeleteChild
<1>5. CASE EditDeployment
  <2>1. /\ d \in Deployments
        /\ api'[k] = [d EXCEPT !.data.replicas = 0, !.generation = @ + 1]
    BY <1>1, <1>3, <1>5 DEF EditDeployment
  <2>2. "replicas" \in DOMAIN d.data
    <3>1. \A s \in Specs : "replicas" \in DOMAIN DesiredDeployment(s)
      BY DEF DesiredDeployment, Deployment
    <3>2. PICK s \in Specs :
              \/ d.data = DesiredDeployment(s)
              \/ d.data = [DesiredDeployment(s) EXCEPT !.replicas = 0]
      BY <2>1 DEF Deployments, DeploymentData
    <3>3. DOMAIN d.data = DOMAIN DesiredDeployment(s)
      BY <3>2
    <3> QED
      BY <3>1, <3>3
  <2>3. api'[k].data.replicas = 0
    BY <2>1, <2>2 DEF Deployments
  <2> QED
    BY <2>3
<1>6. CASE AddSidecar \/ UpdateDeploymentStatus
  <2>1. /\ d \in Deployments
        /\ \/ api'[k] = [d EXCEPT !.sidecar = 1, !.generation = @ + 1]
           \/ api'[k] = [d EXCEPT !.status = DeploymentStatus(d)]
    BY <1>1, <1>3, <1>6 DEF AddSidecar, UpdateDeploymentStatus
  <2>2. api'[k].data = d.data /\ Live(k)
    BY <2>1, NilAssumption DEF Deployments, Live
  <2> QED
    BY <2>2 DEF ReplicasStored
<1>7. CASE CollectChild(k)
  BY <1>1, <1>7 DEF CollectChild, Removed
<1>8. CASE reconcileDeployment
  <2> DEFINE desired == Deployment(lim.spec, getDeploymentStorageOptions(lim.spec, secrets))
  <2>1. \/ UNCHANGED api
        \/ ~(desired.replicas < 0) /\ api'[k] = AppliedDeployment(lim, desired)
    BY <1>0, <1>8, WriteFrame DEF reconcileDeployment
  <2>2. CASE ~(desired.replicas < 0) /\ api'[k] = AppliedDeployment(lim, desired)
    <3>1. AppliedDeployment(lim, desired).data = desired
      BY DEF AppliedDeployment
    <3>2. desired.replicas \in Int
      <4>1. lim.spec \in Specs
        BY <1>8 DEF reconcileDeployment, TypeOK, WorkerOK, Limitadors
      <4> QED
        BY <4>1, ReplicasType DEF Deployment
    <3> HIDE DEF desired
    <3> QED
      BY <2>2, <3>1, <3>2
  <2> QED
    BY <1>2, <2>1, <2>2
<1>9. api'[k] = d \/ DeploymentWriter
  BY <1>0, Writers DEF OnlyChanges
<1> QED
  BY <1>2, <1>4, <1>5, <1>6, <1>7, <1>8, <1>9 DEF DeploymentWriter

\* The replicas of a Deployment at rest are the ones asked for, or the most an int32 holds:
\* GetReplicas compares before it converts, and what is negative is refused, so that such a
\* resource does not come to rest.
THEOREM ReplicasAreClamped ==
  (Spec => []ReplicasAsAsked) /\ (RestSpec => []ReplicasAsAsked)
<1>1. Init => ReplicasStored
  BY DEF Init, ClusterInit, ReplicasStored, Live, Absent, Kinds, ChildKinds
<1>2. ASSUME NEW spec \in Specs, AtRest(spec) PROVE ReplicasStored
  <2>1. api["Deployment"] = RestingDeployment(spec)
    BY <1>2 DEF AtRest, RestingObject, Kinds, ChildKinds
  <2>2. api["Deployment"].data.replicas = GetReplicas(spec)
    BY <2>1 DEF RestingDeployment, DesiredDeployment, Deployment
  <2>3. GetReplicas(spec) \in 0..MaxPods /\ MaxPods \in Nat
    BY <1>2, ClusterAssumption DEF AtRest
  <2> QED
    BY <2>2, <2>3 DEF ReplicasStored
<1>3. RestInit => ReplicasStored
  BY <1>2 DEF RestInit
<1>4. ConvergenceInv /\ ReplicasStored /\ [Next]_vars => ReplicasStored'
  BY ReplicasStep DEF ConvergenceInv
<1>5. ASSUME ConvergenceInv, ReplicasStored PROVE ReplicasAsAsked
  <2> DEFINE cr == api["Limitador"]
             asked == OrDefault(cr.spec.replicas, DefaultReplicas)
             n == api["Deployment"].data.replicas
  <2> SUFFICES ASSUME Quiescent, Reconcilable(cr)
               PROVE  0 <= n /\ n <= asked /\ (n < asked => n = MaxInt32)
    BY DEF ReplicasAsAsked
  <2>1. cr.spec \in Specs
    BY <1>5, LiveObjects DEF ConvergenceInv, TypeOK, Reconcilable, Live, Limitadors
  <2>2. Live("Deployment") /\ api["Deployment"].data = DesiredDeployment(cr.spec)
    <3>1. Matches("Deployment", cr)
      BY <1>5 DEF ConvergenceInv, ConvergedWhenQuiescent, Converged, AppliedKinds
    <3>2. Desired("Deployment", cr.spec) = DesiredDeployment(cr.spec)
      BY DEF Desired
    <3>3. DesiredDeployment(cr.spec) # Nil
      BY <2>1, NilAssumption DEF DeploymentData
    <3> QED
      BY <3>1, <3>2, <3>3 DEF Matches, Agrees
  <2>3. n = GetReplicas(cr.spec)
    BY <2>2 DEF DesiredDeployment, Deployment
  <2>4. n >= 0
    BY <1>5, <2>2 DEF ReplicasStored
  <2>5. asked \in Int
    BY <2>1, SpecAssumption DEF OrDefault, DefaultReplicas
  <2>6. n = IF asked > MaxInt32 THEN MaxInt32 ELSE IF asked < MinInt32 THEN MinInt32 ELSE asked
    BY <2>3 DEF GetReplicas
  <2> HIDE DEF asked, n
  <2> QED
    BY <2>4, <2>5, <2>6, Int32Assumption
<1> QED
  BY <1>1, <1>3, <1>4, <1>5, Invariance, RestInvariance, PTL DEF Spec, RestSpec
=============================================================================
