----------------------- MODULE LimitadorHandoverProofs -----------------------
(***************************************************************************)
(* Proofs about LimitadorHandover: requests that take effect after their   *)
(* caller has given up on them, after a change of leader or a timeout.     *)
(*                                                                         *)
(* The argument: such a request is a write of a well-formed object by      *)
(* somebody else (LandInv).  If the object is of a watched kind it comes   *)
(* back as an event and the invariant of the convergence proof does not    *)
(* speak of the time until the next pass.  A Service is not watched: from  *)
(* then on the invariant is that of the other kinds (WorkInv of            *)
(* LimitadorReconcilerProofs, without the Service).                        *)
(***************************************************************************)
EXTENDS LimitadorHandover, LimitadorDiskProofs

Watched == AppliedKinds \ {"Service"}

\* The request under way is well formed, and it is the only one there ever is.
LateOK ==
    late.call # Nil =>
        /\ late.call.kind \in ChildKinds \cup {"Limitador"}
        /\ late.call.lim \in Limitadors
        /\ late.call.kind = "Limitador" => late.call.status \in Statuses
        /\ late.landed = Nil

HandoverInv ==
    /\ LateOK
    /\ WorkInv(Watched)
    /\ late.landed # "Service" => WorkInv(AppliedKinds)

\* The kinds Reconcile applies but the Service are watched.
LEMMA WatchedKinds ==
  Watched \in SUBSET AppliedKinds /\ "Service" \notin Watched /\ "Service" \in AppliedKinds
  BY DEF Watched, AppliedKinds

\* The invariant for all kinds is the one for some of them too.
LEMMA WorkOnFewer == WorkInv(AppliedKinds) => WorkInv(Watched)
  BY WatchedKinds DEF WorkInv, SoundPass, SoundRest

-----------------------------------------------------------------------------
\* A request is given up and lands.

\* A request is made in the middle of a pass, from what the pass has read.
LEMMA RequestType ==
  ASSUME TypeOK, Calls
  PROVE  /\ pc # "idle" /\ (pc # "status" => MidPass)
         /\ Request.kind \in ChildKinds \cup {"Limitador"}
         /\ Request.lim \in Limitadors
         /\ Request.kind = "Limitador" => Request.status \in Statuses
<1>1. pc \in {"service", "pvc", "deployment", "configmap", "pdb", "status"}
  BY DEF Calls, WrittenKind
<1>2. lim \in Limitadors /\ specErr \in SpecErrors
  BY <1>1 DEF TypeOK, WorkerOK
<1>3. calculateStatus(lim, cache["Deployment"], specErr) \in Statuses
  BY <1>2, CalculateStatusType
<1>4. /\ WrittenKind[pc] \in ChildKinds \cup {"Limitador"}
      /\ WrittenKind[pc] = "Limitador" => pc = "status"
  BY <1>1 DEF WrittenKind, ChildKinds
<1>5. /\ Request.kind = WrittenKind[pc] /\ Request.lim = lim
      /\ pc = "status" => Request.status = calculateStatus(lim, cache["Deployment"], specErr)
  BY DEF Request
<1> QED
  BY <1>1, <1>2, <1>3, <1>4, <1>5 DEF MidPass

\* A pass that is told that its request failed goes on to the status, or ends and is tried
\* again.
LEMMA TimeOutInv ==
  ASSUME NEW K \in SUBSET AppliedKinds, WorkInv(K), TimeOut
  PROVE  WorkInv(K)'
<1>0. /\ TypeOK /\ Synced /\ Calls /\ UNCHANGED <<api, cache, watch, secrets, next>>
      /\ fuel' \in [Disturbances -> Nat]
  BY Counters DEF WorkInv, TypeOK, TimeOut, Disturbances
<1>1. CASE pc = "status"
  <2>1. /\ pc' = "idle" /\ lim' = Nil /\ specErr' = "none" /\ specResult' = "done"
        /\ todo' = NoPods /\ queue' = queue \cup {"retry"}
    BY <1>1 DEF TimeOut, Finish, Idle
  <2>2. ClusterOK' /\ Synced'
    BY <1>0, <2>1 DEF TypeOK, ClusterOK, ApiOK, CacheOK, WatchOK, Synced
  <2>3. WorkerOK'
    BY <2>1 DEF WorkerOK, Steps, SpecErrors, NoPods
  <2>4. (pc # "idle" => Reconcilable(lim))' /\ SoundPass(K)'
    BY <2>1 DEF SoundPass
  <2>5. SoundRest(K)'
    BY <2>1 DEF SoundRest, Quiescent
  <2> QED
    BY <2>2, <2>3, <2>4, <2>5 DEF WorkInv, TypeOK
<1>2. CASE pc # "status"
  <2>0. MidPass
    BY <1>0, <1>2, RequestType
  <2>1. FailSpec("APIError") /\ UNCHANGED queue
    BY <1>2 DEF TimeOut
  <2>2. ClusterOK' /\ Synced' /\ NothingSilent
    BY <1>0, <2>1
       DEF TypeOK, ClusterOK, ApiOK, CacheOK, WatchOK, Synced, NothingSilent, Undisturbed
  <2>3. WorkerOK'
    BY <1>0, <2>0, <2>1, MidPassTypes, NilAssumption
       DEF TypeOK, WorkerOK, FailSpec, Steps, SpecErrors, MidPass
  <2>4. Advances
    BY <1>0, <2>1, <2>2, <2>3 DEF Advances, TypeOK, FailSpec
  <2> QED
    BY <2>0, <2>4, MidPassInv
<1> QED
  BY <1>1, <1>2

\* What a request leaves behind is an object of its kind, whatever it finds.
LEMMA LandedType ==
  ASSUME ClusterOK, NEW k \in ChildKinds \cup {"Limitador"}, NEW l \in Limitadors, NEW st,
         k = "Limitador" => st \in Statuses
  PROVE  Landed(k, l, st) \in Stored(k)
<1>0. l.uid \in Uids /\ l.spec \in Specs
  BY DEF Limitadors
<1>1. api[k] \in Stored(k)
  BY DEF ClusterOK, ApiOK, Kinds
<1>2. CASE k = "Service"
  <2>1. AppliedService(l) \in Services
    BY <1>0 DEF AppliedService, SetOwnerReference, Services, ServiceData
  <2> QED
    BY <1>2, <2>1, StoredKinds DEF Landed
<1>3. CASE k = "PersistentVolumeClaim"
  <2>1. Live(k) => Removed(k) \in Stored(k)
    BY <1>3, RemovedType DEF ChildKinds
  <2>2. PVC(l.spec) # Nil => NewClaim(l) \in Claims
    BY <1>0 DEF NewClaim, SetOwnerReference, Claims
  <2>3. \/ Live(k) /\ Landed(k, l, st) = Removed(k)
        \/ Landed(k, l, st) = Nil
        \/ Landed(k, l, st) = api[k]
        \/ PVC(l.spec) # Nil /\ Landed(k, l, st) = NewClaim(l)
    BY <1>3 DEF Landed
  <2> QED
    BY <1>1, <1>3, <2>1, <2>2, <2>3, StoredKinds
<1>4. CASE k = "Deployment"
  <2>1. DesiredDeployment(l.spec) \in DeploymentData
    BY <1>0 DEF DeploymentData
  <2>2. AppliedDeployment(l, DesiredDeployment(l.spec)) \in Deployments
    BY <1>0, <2>1, AppliedDeploymentLemma
  <2>3. \/ Landed(k, l, st) = api[k]
        \/ Landed(k, l, st) = AppliedDeployment(l, DesiredDeployment(l.spec))
    BY <1>4 DEF Landed
  <2> QED
    BY <1>1, <1>4, <2>2, <2>3, StoredKinds
<1>5. CASE k = "ConfigMap"
  <2>1. AppliedConfigMap(l) \in ConfigMaps
    BY <1>0, AppliedConfigMapLemma
  <2> QED
    BY <1>5, <2>1, StoredKinds DEF Landed
<1>6. CASE k = "PodDisruptionBudget"
  <2> DEFINE desired == PodDisruptionBudget(l.spec)
  <2>1. desired # Nil => desired \in BudgetData
    BY <1>0, SpecAssumption DEF PodDisruptionBudget
  <2> HIDE DEF desired
  <2>2. desired # Nil => AppliedBudget(l, desired) \in Budgets
    BY <1>0, <2>1, AppliedBudgetLemma
  <2>3. \/ Landed(k, l, st) = Nil \/ Landed(k, l, st) = api[k]
        \/ desired # Nil /\ Landed(k, l, st) = AppliedBudget(l, desired)
    BY <1>6 DEF Landed, desired
  <2> QED
    BY <1>1, <1>6, <2>2, <2>3, StoredKinds
<1>7. CASE k = "Limitador"
  <2>1. Live(k) => PatchedLimitador(st) \in Limitadors
    BY <1>7, LiveObjects, EditsOfLimitador DEF PatchedLimitador
  <2>2. \/ Landed(k, l, st) = Nil
        \/ Live(k) /\ Landed(k, l, st) = PatchedLimitador(st)
    BY <1>7 DEF Landed
  <2> QED
    BY <1>7, <2>1, <2>2, StoredKinds
<1> QED
  BY <1>2, <1>3, <1>4, <1>5, <1>6, <1>7 DEF ChildKinds

\* A request that lands writes an object of its kind, and nothing else.
LEMMA LandStep ==
  ASSUME ClusterOK, LateOK, Land
  PROVE  LET k == late.call.kind
             obj == Landed(k, late.call.lim, late.call.status)
         IN  /\ k \in Kinds /\ obj \in Stored(k) /\ Store(k, obj)
             /\ UNCHANGED <<cache, queue, secrets, fuel, workerVars>>
             /\ next' \in [{"uid", "pod", "rv"} -> Uids]
             /\ late' = [call |-> Nil, landed |-> k] /\ late.landed = Nil
<1>1. /\ late.call # Nil /\ late.call.kind \in ChildKinds \cup {"Limitador"}
      /\ late.call.lim \in Limitadors /\ late.landed = Nil
      /\ late.call.kind = "Limitador" => late.call.status \in Statuses
  BY DEF LateOK, Land
<1>2. Landed(late.call.kind, late.call.lim, late.call.status) \in Stored(late.call.kind)
  BY <1>1, LandedType
<1>3. next' \in [{"uid", "pod", "rv"} -> Uids]
  BY Counters DEF Land
<1> QED
  BY <1>1, <1>2, <1>3 DEF Land, Kinds

\* It comes as news to the operator, unless it is of a Service.
LEMMA LandInv ==
  ASSUME NEW K \in SUBSET AppliedKinds, WorkInv(K), LateOK, Land,
         "Service" \in K => late.call.kind # "Service"
  PROVE  WorkInv(K)'
<1> DEFINE k == late.call.kind
           obj == Landed(k, late.call.lim, late.call.status)
<1>1. /\ k \in Kinds /\ obj \in Stored(k) /\ Store(k, obj) /\ ClusterOK /\ Synced
      /\ UNCHANGED <<cache, queue, secrets>> /\ UNCHANGED fuel /\ UNCHANGED workerVars
      /\ next' \in [{"uid", "pod", "rv"} -> Uids]
  BY LandStep DEF WorkInv, TypeOK
<1> HIDE DEF k, obj
<1>2. fuel' \in [Disturbances -> Nat]
  BY <1>1, Counters
<1>3. /\ ClusterOK' /\ Synced' /\ NothingSilent
      /\ k # "Service" => ServiceKept
  BY <1>1, <1>2, ClusterWrite
<1> QED
  BY <1>1, <1>3, BesidesInv DEF k

-----------------------------------------------------------------------------
\* The invariant.

LEMMA HandoverInitInv == HandoverInit => HandoverInv
<1>1. HandoverInit => LateOK
  BY DEF HandoverInit, LateOK
<1>2. HandoverInit => WorkInv(AppliedKinds)
  BY RestInv, WorkIsConvergence DEF HandoverInit
<1> QED
  BY <1>1, <1>2, WorkOnFewer DEF HandoverInv

LEMMA HandoverNextInv == HandoverInv /\ [HandoverNext]_handoverVars => HandoverInv'
<1> SUFFICES ASSUME HandoverInv, [HandoverNext]_handoverVars PROVE HandoverInv'
  OBVIOUS
<1>0. LateOK /\ WorkInv(Watched) /\ (late.landed # "Service" => WorkInv(AppliedKinds))
  BY DEF HandoverInv
<1>1. CASE [Next]_vars /\ UNCHANGED late
  <2>1. WorkInv(Watched)' /\ (late'.landed # "Service" => WorkInv(AppliedKinds)')
    BY <1>0, <1>1, WatchedKinds, WorkNext
  <2>2. LateOK'
    BY <1>0, <1>1 DEF LateOK
  <2> QED
    BY <2>1, <2>2 DEF HandoverInv
<1>2. CASE HandOver \/ TimeOut
  <2>1. /\ late'.call = Request /\ late'.landed = Nil /\ late.landed = Nil /\ Calls /\ TypeOK
        /\ fuel' \in [Disturbances -> Nat]
    BY <1>0, <1>2, Counters DEF HandOver, TimeOut, WorkInv, TypeOK, Disturbances
  <2>2. LateOK'
    BY <2>1, RequestType DEF LateOK
  <2>3. ASSUME NEW K \in SUBSET AppliedKinds, WorkInv(K) PROVE WorkInv(K)'
    BY <1>2, <2>1, <2>3, RestartInv, TimeOutInv DEF HandOver
  <2>4. WorkInv(Watched)' /\ (late'.landed # "Service" => WorkInv(AppliedKinds)')
    BY <1>0, <2>1, <2>3, WatchedKinds
  <2> QED
    BY <2>2, <2>4 DEF HandoverInv
<1>3. CASE Land
  <2>1. late' = [call |-> Nil, landed |-> late.call.kind] /\ late.landed = Nil
    BY <1>0, <1>3, LandStep DEF WorkInv, TypeOK
  <2>2. late.landed # "Service"
    BY <2>1, KindAssumption DEF Kinds, ChildKinds
  <2>3. LateOK'
    BY <2>1 DEF LateOK
  <2>4. WorkInv(Watched)'
    BY <1>0, <1>3, WatchedKinds, LandInv
  <2>5. late'.landed # "Service" => WorkInv(AppliedKinds)'
    BY <1>0, <1>3, <2>1, <2>2, LandInv
  <2> QED
    BY <2>3, <2>4, <2>5 DEF HandoverInv
<1> QED
  BY <1>1, <1>2, <1>3 DEF HandoverNext, handoverVars

LEMMA HandoverInvariance == HandoverSpec => []HandoverInv
  BY HandoverInitInv, HandoverNextInv, PTL DEF HandoverSpec

-----------------------------------------------------------------------------
\* The theorems.

\* Convergence over changes of leader and broken connections: whenever the operator is
\* quiescent, everything but a Service that was overwritten late is as the current spec
\* asks for, and the status is that of the Deployment as it is.
THEOREM LateCallsAreRepaired == HandoverSpec => []ConvergedDespiteLateCalls
<1>1. HandoverInv => ConvergedDespiteLateCalls
  <2> SUFFICES ASSUME HandoverInv, Quiescent, Reconcilable(api["Limitador"])
               PROVE  /\ \A k \in AppliedKinds :
                            (k = "Service" => late.landed # "Service")
                                => Matches(k, api["Limitador"])
                      /\ StatusIsSteady(api["Limitador"], api["Deployment"], "none")
    BY DEF ConvergedDespiteLateCalls
  <2>1. /\ \A k \in Watched : Matches(k, api["Limitador"])
        /\ StatusIsSteady(api["Limitador"], api["Deployment"], "none")
    BY DEF HandoverInv, WorkInv, SoundRest
  <2>2. late.landed # "Service" => Matches("Service", api["Limitador"])
    BY WatchedKinds DEF HandoverInv, WorkInv, SoundRest
  <2> QED
    BY <2>1, <2>2 DEF Watched
<1> QED
  BY <1>1, HandoverInvariance, PTL

\* Neither does a request that lands late take out what another manager put into the
\* Deployment: it is applied to the Deployment as it finds it.
THEOREM SidecarStaysDespiteLateCalls == HandoverSpec => SidecarPreserved
<1>1. ASSUME HandoverInv, [HandoverNext]_handoverVars
      PROVE  [ Live("Deployment") /\ api'["Deployment"] # Nil
                 => api'["Deployment"].sidecar >= api["Deployment"].sidecar ]_vars
  <2> SUFFICES ASSUME Live("Deployment"), api'["Deployment"] # Nil
               PROVE  api'["Deployment"].sidecar >= api["Deployment"].sidecar
    OBVIOUS
  <2>0. TypeOK /\ ClusterOK /\ LateOK
    BY <1>1 DEF HandoverInv, WorkInv, TypeOK
  <2> DEFINE d == api["Deployment"]
  <2>1. d.sidecar \in {0, 1}
    BY <2>0, LiveObjects DEF Deployments
  <2>2. CASE [Next]_vars
    BY <2>0, <2>2, SidecarStep
  <2>3. CASE HandOver \/ TimeOut
    <3>1. UNCHANGED api
      BY <2>3 DEF HandOver, TimeOut, Restart
    <3> QED
      BY <2>1, <3>1
  <2>4. CASE Land
    <3> DEFINE k == late.call.kind
               obj == Landed(k, late.call.lim, late.call.status)
    <3>1. k \in Kinds /\ Store(k, obj)
      BY <2>0, <2>4, LandStep
    <3>2. k = "Deployment" => obj.sidecar = d.sidecar
      BY DEF Landed, AppliedDeployment, Live
    <3> HIDE DEF k, obj
    <3>3. api'["Deployment"] = d \/ (k = "Deployment" /\ api'["Deployment"] = obj)
      BY <2>0, <3>1, StoreFrame DEF OnlyChanges, Kinds, ChildKinds
    <3> QED
      BY <2>1, <3>2, <3>3
  <2> QED
    BY <1>1, <2>2, <2>3, <2>4 DEF HandoverNext, handoverVars
<1> QED
  BY <1>1, HandoverInvariance, PTL DEF HandoverSpec, SidecarPreserved
=============================================================================
