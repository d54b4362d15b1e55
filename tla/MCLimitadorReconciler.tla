------------------------ MODULE MCLimitadorReconciler ------------------------
(***************************************************************************)
(* Instances of LimitadorReconciler for TLC: the specs users write and the *)
(* budgets of disturbances of each run.                                    *)
(***************************************************************************)
EXTENDS LimitadorReconciler

\* A narrow int32: the clamping at its limits is that of the wide one.
NarrowMinInt32 == -4

Base ==
    [replicas |-> Nil, version |-> Nil, image |-> Nil, http |-> Nil, grpc |-> Nil,
     redis |-> Nil, redisCached |-> Nil, disk |-> Nil, rateLimitHeaders |-> Nil,
     telemetry |-> Nil, tracing |-> Nil, limits |-> Nil, pdb |-> Nil, resources |-> Nil,
     verbosity |-> Nil, affinity |-> Nil, imagePullSecrets |-> Nil,
     metricLabelsDefault |-> Nil]

Scaled(n) == [Base EXCEPT !.replicas = n]

\* A spec that changes every object Reconcile applies.
Customised ==
    [Scaled(0) EXCEPT !.http = 8090, !.limits = <<"limit">>,
                      !.pdb = [maxUnavailable |-> 1, minAvailable |-> Nil]]

Disk(claim) == [Scaled(0) EXCEPT !.disk = [pvc |-> claim, optimize |-> Nil]]

Tuned(spec) == [spec EXCEPT !.disk.optimize = "throughput"]

Running(spec) == [spec EXCEPT !.replicas = 1]

Claim(size) == [storageClassName |-> Nil, volumeName |-> Nil, requests |-> size]

Redis == [Scaled(0) EXCEPT !.redis = [ref |-> "secret"]]

RedisCachedWithoutRef ==
    [Scaled(0) EXCEPT !.redisCached = [ref |-> Nil, options |-> Nil]]

NoFuel == [d \in Disturbances |-> 0]

\* An edit and a failing call.
ConvergenceSpecs == {Scaled(0), Customised}
ConvergenceFuels == {[NoFuel EXCEPT !["create"] = 1, !["edit"] = 1, !["fault"] = 1]}

\* The Redis secret is missing or wrong, and repaired; some specs never work, others ask
\* for more replicas than an int32 holds or for a claim, which a cache that lags does not
\* show.  The process may stop and forget its backoff.
SecretSpecs == {Redis, RedisCachedWithoutRef, Scaled(-5), Scaled(8), Disk(Nil)}
SecretFuels == {[NoFuel EXCEPT !["create"] = 1, !["secret"] = 2, !["crash"] = 1]}

\* A call fails while a pod comes up, or where none is to come.
FaultSpecs == {Base, Scaled(0)}
FaultFuels == {[NoFuel EXCEPT !["create"] = 1, !["fault"] = 1]}

\* Both ways of deleting the resource.
DeletionSpecs == {Scaled(0)}
DeletionFuels == {[NoFuel EXCEPT !["create"] = 1, !["delete"] = 1, !["foreground"] = 1]}

\* One of two pods is evicted while the operator gives them new limits.
Limited(spec) == [spec EXCEPT !.limits = <<"limit">>]
EvictionSpecs == {Scaled(2), Limited(Scaled(2))}
EvictionFuels == {[NoFuel EXCEPT !["edit"] = 1, !["evict"] = 1]}

\* Storage that changes between memory, without pods, and disk.
DiskSpecs == {Scaled(0), Running(Disk(Nil)), Running(Tuned(Disk(Claim("2Gi"))))}
DiskFuels == {[NoFuel EXCEPT !["edit"] = 1, !["fault"] = 1]}

\* The disagreements.
LimitsSpecs == {Base}
LimitsFuels == {[NoFuel EXCEPT !["create"] = 1]}
BudgetSpecs == {Customised}
BudgetFuels == {[NoFuel EXCEPT !["create"] = 1, !["tamper"] = 1]}
AheadSpecs == {Scaled(0), Customised}
AheadFuels == {[NoFuel EXCEPT !["create"] = 2, !["edit"] = 1, !["delete"] = 1]}
ClaimSpecs == {Disk(Nil)}
ClaimFuels == {[NoFuel EXCEPT !["create"] = 2, !["delete"] = 1]}
=============================================================================
