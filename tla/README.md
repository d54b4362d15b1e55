# A TLA+ model of the Limitador operator

The operator watches `Limitador` custom resources and keeps, for each, a Service, a
Deployment, a ConfigMap with the rate limits, and, where the spec asks for them, a
PodDisruptionBudget and a PersistentVolumeClaim. It annotates the pods with the version of
the limits and reports in the resource's status. The code is small and almost sequential;
what makes it hard is what it runs against: a cache that lags behind the API server, calls
that fail with their effect in place, events that arrive late, a garbage collector and a
Deployment controller that act in between, and a process that may stop anywhere.

## Inventory

| part | source | state | operations |
| --- | --- | --- | --- |
| controller | `controllers/limitador_controller.go` | the locals of one pass of `Reconcile` | guards, `reconcileSpec` (Service, claim, Deployment, ConfigMap, budget, pod annotations, in this order), results |
| status | `controllers/limitador_status.go`, `LimitadorStatus.Equals`, `pkg/helpers` | the resource's status | `calculateStatus`, `readyCondition`, `checkLimitadorAvailable`, the status patch |
| base reconciler | `pkg/reconcilers/base_reconciler.go` | none | server-side apply, create-only claims, delete, owner reference |
| object builders | `pkg/limitador/k8s_objects.go`, `deployment_options.go`, `image.go` | none | pure functions of the spec |
| storage options | `pkg/limitador/*_storage_options.go` | none (reads a Secret) | arguments, strategy, volumes, errors |
| types | `api/v1alpha1/limitador_types.go` | the resource | defaults, clamping of the replica count, validation rules |
| wiring | `main.go`, `SetupWithManager` | the caches, the lease | what is cached, what is watched, start, leader election, the ways out of the process |
| tracing | `pkg/observability` | open spans, spans not yet exported | open, record, close; choice of the exporter; flush on exit |
| logging | `pkg/log`, `pkg/observability/logger.go` | the loggers in the contexts | conversion of level and mode; span ids in log lines |
| generated code, manifests | `zz_generated.deepcopy.go`, `config`, `bundle`, `charts` | none | generated |

How they interact. `Reconcile` runs in one worker, one pass at a time. It reads the resource,
the Deployment, the claim, the ConfigMap and the pods from the cache, the Secret from the API
server, and writes to the API server. It is woken by events of the resource, of Deployments,
ConfigMaps and budgets it owns, and by the backoff after an error. Its own writes come back to
it as events. Services, claims, pods and Secrets raise no event. Every function of a pass has a
span of its own; `main` sets the tracer provider up first and flushes it last.

Hard behaviours, and what has to hold:

* the cache lags, calls fail half way, the process crashes, others tamper: when nothing is
  left to wake the operator, everything it applies must be what the current spec asks for;
* the status is computed from cached objects: it must not stay wrong, claim readiness for a
  spec that is not applied, or go back to an older generation;
* own writes raise events: the operator must come to rest;
* unwatched objects (the Secret) need the retries;
* deletion races a pass: the resource must go away, and no child may stay;
* a resource may be deleted and created again under its name;
* claims are created and never updated, and pods of two templates must not share the disk;
* a call may outlive the pass or the leader that made it and land on newer objects;
* other field managers change the same objects: what is theirs stays, and must not be in the way;
* several functions record on one span, and a status once Ok is final: a span must still tell
  how its function ended;
* the status is reconciled after the spec has failed: the failure must not be lost behind it;
* the replica count is wider in the spec than in the Deployment: it must not come out as
  another number;
* the process must stop when told, whoever hangs.

`PROJECT.json` lists these as hazards, each at its line with the properties aimed at it.

## Modules

`LimitadorObjects` holds the builders as operators on a spec, a record with one field per field
of `LimitadorSpec` (`listener` and `storage` are flattened into `http`, `grpc`, `redis`,
`redisCached`, `disk`). `Nil` is a nil pointer and also an object tagged for deletion. Arguments
are kept as a sequence of flags in the order of the code; names, labels and probes, which depend
on the resource's name alone, are left out.

`LimitadorStatus` holds the status computation. Time is reduced to what the code can tell: whether
`lastTransitionTime` is the recorded one or a new one.

`KubeCluster` is the environment. It is not code of this repository and is modelled from how the
operator uses it: the API server (`api`), the informers (`cache`, `watch`), the work queue
(`queue`, with "dirty" and "retry"), Secrets, the Deployment controller with the two strategies
the operator asks for, the garbage collector with background and foreground deletion, storage
protection of claims, users, and other field managers, who add a container to the Deployment
(`sidecar`) or rewrite the budget and own the field they set (`theirs`). Two of its definitions are code of the repository: `EventKinds`
is `SetupWithManager`, `CachedKinds` is the cache configuration of `main.go`. Every write goes
through `Store`, which announces it on the watch of its kind; `Deliver` applies announcements in
order, kind by kind, at any later time.

`LimitadorReconciler` composes them: the worker of the controller. `pc` is the step the pass takes
next, `lim` the snapshot `limitadorObj`, `specErr` and `specResult` what `reconcileSpec` returns,
`todo` the pods left in the annotation loop. There is one action per step with one write each;
`Write` is an apply that succeeds, fails, or fails with its effect in place. An apply leaves what
other managers own: `AppliedDeployment` keeps the sidecar, `AppliedField` a budget field the
operator does not set. `Crash` may come at any step. `RestSpec` starts with a resource that has
been reconciled already, for runs about what happens later. The properties are at its end.

`LimitadorContract` is the abstract specification: a generation, the generation reported, Ready,
and whether the objects are the ones the current spec asks for. `LimitadorReconciler` maps its
state to it (`Contract`) and the run `Convergence` checks that every step is one of the contract.
The contract is about one life of a resource whose objects nobody else changes: after a deletion
and creation under the same name a late report breaks it (`GenerationAhead`). It is also about
calls that end with the pass that makes them: of the late calls of `LimitadorHandover`, a status
patch takes `observedGeneration` back until the next pass repairs it. The same limits hold for
`ObservedGenerationMonotone` and `ReadyImpliesApplied`.

`LimitadorHandover` extends the reconciler with a call that outlives its caller. `HandOver` ends
the process, or its leadership, with a request under way; `TimeOut` tells the pass that the
request failed; `Land` lets it take effect at any later time, on the objects as they are then.

`ReconcileTrace` is the view of a pass that tracing has: `stack` holds the functions under way, each
with the status and operation of its span and whether a call has come back to it with an error,
`batch` the spans that have ended, each with its trace. What the functions do to the cluster is reduced to how they return.
`OperatorProcess` puts it into the life of the process: configuration (and the panics of
`ToLevel` and `ToMode`), exporter, manager, lease, passes, signals, the flush with its deadline,
and every other way out, which skips the flush.

`MCLimitadorReconciler`, `MCLimitadorHandover` and `MCOperatorProcess` give the constants for TLC,
one `.cfg` per run.

The proofs are in `LimitadorReconcilerProofs` (types, convergence, status, and the lemmas about
who writes what), in three modules that extend it, `LimitadorDiskProofs` (claims, pods on the
disk, the sidecar, the replica count), `LimitadorContractProofs` (the refinement) and `LimitadorHandoverProofs`
(late calls, which also extends the disk proofs), and in `OperatorProcessProofs`.

The definitions named as mutants in the modules are variants of the code with a plausible
mistake; each stands before the definition it varies and is used nowhere else. With the mistake
in place TLC finds the property that is meant to catch it violated.

## Runs

| run | specs and disturbances | shows |
| --- | --- | --- |
| `Convergence` | a spec that differs in every applied object, one edit, one failing call | `ConvergedWhenQuiescent`; `StatusAccurateWhenQuiescent`; `UndisturbedPass`; `ReadyImpliesApplied`; `ObservedGenerationMonotone`; `RefinesContract` |
| `Handover` | from rest, the same specs; a late call with an edit, or with tampering and a crash; or deletion and a new creation | `ConvergedDespiteLateCalls`; `SidecarPreserved` |
| `Secret` | a Redis spec, one without a reference, a disk, replica counts below and above int32; two changes of the secret, one crash | types; `ReplicasAsAsked`; `EventuallyConverged` |
| `Fault` | one pod or none, one failing call | `EventuallyQuiescent` |
| `Deletion` | background and foreground deletion | `DeletionCompletes`, `NoOrphans` |
| `Eviction` | from rest: two pods, new limits, one eviction | `ReadyWhenSettled` |
| `Disk` | from rest: memory without pods, disk of two sizes and options with one; one edit, one failing call | `ClaimFollowsSpec`, `DiskPodsAgree`, `ClaimIsImmutable`; `ReadyWhenSettled` |
| `Telemetry` | six environments; three passes that may fail anywhere, a collector that comes and goes, signals, a lost lease | types; `SpansTellResult`; `FailuresReachTheRoot`; `StopsWhenTold` |

`ConvergedDespiteLateCalls` excepts a Service that a late call has overwritten. Services are not
watched, and TLC finds a behaviour in which the older Service stays until something else wakes the
operator; nothing in the documents promises otherwise.

Four runs show a disagreement between the code and what is written about it:

* `LimitsNotSynced`: `reconcilePodLimitsHashAnnotation` answers `Requeue: true` when the pods are
  not all there, and `Reconcile` drops it because it looks at `RequeueAfter` only. If the pod
  arrives in the cache after the last event of the Deployment was handled, it is never annotated.
* `BudgetConflict`: `ReconcileResource` is said to let external controllers manage additional
  fields without conflicts. `maxUnavailable` and `minAvailable` exclude each other; when another
  manager has put in the one the spec does not set, every apply is refused.
* `GenerationAhead`: the status patch has no uid; a pass over a deleted resource writes its
  generation into the status of its successor.
* `ClaimLost`: the claim of a deleted resource, still there, is taken for the claim of its
  successor and then collected; claims are not watched, so none is created.

Deadlock is not checked: a cluster at rest whose disturbances are used up has no step left, and
is meant to; nor has a process that has exited.

### Bounds

* One resource. Passes over different resources share nothing but the worker.
* `Fuels` is a set of budgets, of which a behaviour starts with one. A budget bounds each kind of
  disturbance (create, edit, delete, foreground deletion, change of a secret, tampering, failing
  call, crash, late call, eviction). One or two of each that matters to a run's question suffice to put it
  between any two steps; the proofs cover any number.
* `MaxLag` bounds the snapshots waiting on one watch. A change beyond it is merged with the last
  one that waits, as an informer may do on a relist: the cache skips a snapshot and the
  notification is kept. With 1, as in all runs, the cache is either up to date or one (possibly
  long) jump behind; the proofs cover any lag.
* `Handover`, `Disk` and `Eviction` start from rest. The passes that lead there are those of the other runs, and
  without them there is room for what follows.
* `MaxPods` is 0 where the question is not about pods, 1 where it is, and 2 in `Disk`, so that pods
  of two templates can meet, and in `Eviction`, so that a pass can fail between two pods; `Scaled(0)` gives a Deployment that is complete without pods.
* One late call at a time: a second one of the same leader would have been made by a pass that
  knew the first had failed.
* `Telemetry` has `QueueSize` 4, less than the spans of a pass, so that the queue overflows,
  and not less than those of a pass that fails at its first object, so that a failure and its root
  span meet in the queue; `MaxPasses` 3; and two pods in the annotation loop, which can then stop
  half way.
* `MaxId` bounds uids, pod names and resource versions, which then recycle. It is large enough in
  each run that no two live objects that matter share one.
* `MinInt32` and `MaxInt32` are constants, -4 and 3 in the runs. The counts 8 and -5 of `Secret` lie
  outside and would wrap around to 0 and 3, which the API server takes.

### Fairness

`FairSpec` is weakly fair to the worker, the backoff timer, each informer, the Deployment
controller and the garbage collector: a running controller-runtime worker takes the next item and
its calls return, a rate-limited item is added back after a finite delay, watches deliver, and the
controllers of the cluster keep working. Nothing is assumed of users, failures, crashes or
evictions, which the fuel makes finite: the liveness properties say what happens once they stop.

`OperatorProcess` is weakly fair to its timers (the grace period, the deadline of the flush), to
the return from `Start` once the worker is done, to the batch processor while the collector
answers, and to the flush. Nothing is assumed of the worker, whose calls may hang, or of the
collector, which may also be too slow: the deadline of the flush may pass whenever spans are left.

## Proofs

`LimitadorReconcilerProofs` proves, for every set of specs, any number of pods, any lag and any
number of disturbances:

* `TypeCorrect`: `Spec => []TypeOK`;
* `PassesAreSound`: `Spec => []UndisturbedPass`;
* `QuiescenceMeansConverged`: `Spec => []ConvergedWhenQuiescent`;
* `QuiescenceMeansAccurateStatus`: `Spec => []StatusAccurateWhenQuiescent`;
* `RestMeansReady`: `Spec => []ReadyWhenSettled`, and the same for `RestSpec`.

Assumptions: `Int32Assumption`; `ClusterAssumption` (the bounds are numbers, ids start at 1, and
there are ids enough to name `MaxPods` pods); `SpecAssumption` (specs pass the validation of the
CRD, and refer to secrets that have a name) and `NilAssumption` (`Nil` is none of the objects,
conditions or condition values it stands for the absence of). TLC evaluates them in every run.

`ConvergedWhenQuiescent` is not inductive: a state in which a pass is at the status step with
nothing applied satisfies it, and its successor does not. `ConvergenceInv` adds

* `TypeOK`;
* `Synced`: the last change waiting on a watch is the object as it is, an empty watch means an up
  to date cache, and every waiting change of a watched kind will notify;
* a pass under way holds a resource that is not marked for deletion;
* `UndisturbedPass`: if no event waits and the queue holds no "dirty", the snapshot of the pass is
  the current resource and everything the pass has applied so far is in place.

The argument. A write that changes a watched object leaves its watch non-empty (`StoreLemma`,
`ChangesNotify`: children always carry a controller reference), so no step of the cluster is silent
(`ClusterStepLemma`, one lemma per actor and one step per action); delivering such a change makes
the queue dirty (`DeliverLemma`). The Service, which is not watched, changes only by garbage
collection, and one owned by a live resource is not garbage (`MatchingServiceIsKept`). A step of a
pass either fails, and then the pass ends with a retry in the queue, or leaves the object of the
spec it read (`WriteLemma` and one `...Step` lemma per action; `SecretContentsDoNotMatter` says the
Deployment does not depend on what is in the secret). At the status step of an undisturbed pass
everything is therefore in place; if the status is steady it is accurate, and if not, the write
changes the resource and raises an event (`StatusInv`). After a crash a live resource is queued
(`RestartInv`). The induction is stated for any set `K` of the applied kinds (`WorkInv(K)`;
`ConvergenceInv` is `WorkInv(AppliedKinds)`), because after a late call it has to be used without
the Service.

`RestMeansReady` needs nothing more: the status that is accurate is the one computed from the
current Deployment, and a Deployment whose own status is accurate and whose pods are the ones it
wants and ready is available (`SettledIsReady`, which counts pods).

`LimitadorDiskProofs` proves, for `Spec` and for `RestSpec` (`RestInv`: the state at rest satisfies
`ConvergenceInv`):

* `ClaimsAreImmutable`: `ClaimIsImmutable`;
* `ClaimGoesWithDisk`: `[]ClaimFollowsSpec`;
* `OneVersionOnDisk`: `[]DiskPodsAgree`;
* `SidecarStays`: `SidecarPreserved`;
* `ReplicasAreClamped`: `[]ReplicasAsAsked`.

They rest on `Writers`: every step changes the objects of at most one kind, and each kind has its
writers. `ClaimFollowsSpec` is not inductive, because a pass may be past the claim before the spec
drops the disk; `ClaimInv` adds that an undisturbed pass that is past the claim and works on a spec
without disk has left none, or one on its way out (`ClaimRemovedInPass`). It also needs that a
claim that is gone or going does not come back unless a pass creates it (`ClaimStaysGone`).
`DiskPodsAgree` is inductive with `TypeOK`: a template that mounts the claim comes with the
strategy Recreate (`DiskIsRecreated`, a fact about the builders: the strategy and the volumes come
from the same storage options), and the Deployment controller starts no pod of such a Deployment
while a pod of another template is left. `ReplicasAsAsked` follows from convergence, from what
`GetReplicas` computes, and from `ReplicasStored`: no Deployment with a negative count gets into the
API server, so a resource that asks for one is never at rest.

`LimitadorContractProofs` proves, with `OneLife` for "every fuel allows at most one creation" and
`Untouched` for "no fuel allows tampering":

* `ReportsDoNotGoBack`: `OneLife /\ Spec => ObservedGenerationMonotone`;
* `ReportsAreNotAhead`: `OneLife /\ Spec => []ObservedGenerationNotAhead`;
* `ReadyIsKept`: `OneLife /\ Untouched /\ Spec => []ReadyImpliesApplied`;
* `ContractIsKept`: `OneLife /\ Untouched /\ Spec => RefinesContract`;
* `RefusalsComeFromSpec`: `Untouched /\ Spec => []ForeignFieldsDoNotConflict`.

Edits, deletion, failing calls, crashes, evictions and changes of secrets stay unlimited. The
hypotheses are those of the run `Convergence` and cannot be dropped: with two creations the run
`GenerationAhead` refutes the second theorem, and a child that a user deletes or rewrites leaves a
Ready status that is wrong until the event arrives. In the same way the run `BudgetConflict`
refutes the last theorem without `Untouched`. So a second life of the name and a foreign write are
the only ways in which these two properties fail, as long as calls end with their pass, which is
how `Spec` has them; a late status patch (`LimitadorHandover`) takes the observed generation back.

A pass may work on a resource that has been edited since, so neither property is inductive.
`LifeInv` says of the resource's snapshots: those on the watch, in the cache and in the pass are
snapshots of the resource in order of generation, one of the current generation has the current
spec (`SnapshotsInOrder`), what is reported is not ahead of what was read (`ReportsInOrder`), and
before the one creation there is nothing anywhere (`Unborn`). `KeptInv` adds that the children are
the resource's own (`OwnChildren`, so that the garbage collector leaves them alone) and that a pass
on the current generation has put in place what it has applied so far (`CurrentPass`). Unlike
`UndisturbedPass` this holds whatever events wait: a pass that is overtaken by other passes'
effects still works on the spec that is current. `ContractNext` then maps each step: a creation to
`Create`, a change of spec or mark for deletion to `Edit`, the status patch to `Report`, all else
to `Apply` or to no step. `RefusalsComeFromSpec` uses `RejectionInv`: no field of the budget
belongs to another manager, and no admissible spec sets both.

`LimitadorHandoverProofs` proves:

* `LateCallsAreRepaired`: `HandoverSpec => []ConvergedDespiteLateCalls`;
* `SidecarStaysDespiteLateCalls`: `HandoverSpec => SidecarPreserved`.

It assumes `KindAssumption` too (`Nil` is not a kind). `HandoverInv` is `WorkInv(K)` with the
Service in `K` until a late call has overwritten it, and `LateOK`: the request under way is well
formed and the only one. `Land` is one more writer: what it changes of a watched kind is announced,
so that the operator is not quiescent until it has seen it (`LandInv`).

`OperatorProcessProofs` proves, for any number of pods and passes, any queue size and any set of
environments:

* `ProcessTypeCorrect`: `Spec => []TypeOK`;
* `SpansAreTruthful`: `Spec => []SpansTellResult`;
* `FailuresAreTold`: `Spec => []FailuresReachTheRoot`.

Assumptions: `TraceAssumption` (the bounds are numbers) and `ExitAssumption` (`Nil` is no exit
code). `SpansTellResult` is not inductive: a span that is closed as Error may have been Ok before.
`TraceInv` adds `OpenSpans`: the span of a function under way has no status yet, and no operation
except in the loop over the pods. A step of a pass opens a frame (`CallLemma`), changes the
innermost one, or closes it as failed or as done, and each of these keeps `TraceInv`
(`PassStepInv`, one step per function). For `FailuresReachTheRoot` it adds `OpenTrace` (the trace of
the pass under way lacks its root, and a failure in it is known to some function on the stack) and
`CallStack` (only `Reconcile` and `reconcileSpec` call, and only they know of failures). A function
that knows of a failure returns one, so the knowledge moves down the stack to the root
(`ReturnLemma`).

Only model-checked: the liveness properties `EventuallyConverged`, `EventuallyQuiescent`,
`DeletionCompletes`, `NoOrphans` and `StopsWhenTold`, which need fairness and ENABLED and are out
of reach of the proof system. Every other property of a passing run is stated by a theorem. The
properties of the runs `LimitsNotSynced` and `ClaimLost` do not hold, and are not proved under a
condition: the one fails through the timing of events alone, the other also in one life of a
resource, when its storage is edited away from the disk and back while a pod holds the claim (TLC
finds that behaviour from rest with two edits).

## Not modelled

* Metrics and probe endpoints, log lines and the loggers that put span ids into them
  (`RefreshLoggerWithCurrentSpan`; `SetOwnerReference` logs on the base logger).
* Span attributes that only describe (among them the storage type, which says `redis-cached` when
  both Redis storages are set while the Deployment uses `redis`), links to other traces, TLS options
  of the exporters.
* Panics inside a pass, which controller-runtime recovers.
* The error returns after `logr.FromContext`, which record nothing on the span: `Reconcile` always
  puts a logger into the context, so they are not reached.
* Errors other than NotFound of reads from the cache: to a pass they are a call that fails without
  effect at the same step.
* Whether spans survive the exit: nothing promises it, and besides the exits that skip the flush the
  deadline, a failing export and a full queue lose them. The model has these steps.
* Defaults the API server fills in, and what it does to fields that go with them (a strategy that
  turns from `RollingUpdate` to `Recreate`).
* Field ownership beyond one foreign container and the two fields of the budget.
* Tampering with the Service, the claim or owner references; pod annotations that land late.
* `yaml.Marshal` of the limits: the ConfigMap holds the limits themselves.
* Generated deep copies, scheme registration and manifests.

## Plan

Done: the builders, the status, the cluster and the reconciler; the contract and its refinement;
field managers; calls that outlive their caller; the disk; tracing and the life of the
process; proofs of every safety property. Next:

1. The safety part of the liveness properties: that an operator which is not quiescent can always
   take a step, and that a deleted resource leaves nothing the garbage collector would not take
   (the invariant behind `NoOrphans`).
2. The precedence of the storages, as lemmas on the builders.
3. Late calls after a start from `Init` instead of `RestInit`.
