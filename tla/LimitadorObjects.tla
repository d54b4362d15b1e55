-------------------------- MODULE LimitadorObjects --------------------------
(***************************************************************************)
(* The objects the operator builds from a Limitador custom resource:       *)
(* pkg/limitador (k8s_objects.go and the deployment and storage options)   *)
(* and the accessors of api/v1alpha1/limitador_types.go.                   *)
(*                                                                         *)
(* A spec is a record with one field per field of LimitadorSpec; a nil     *)
(* pointer is Nil.  Names, labels, probes and image strings depend on the  *)
(* resource's name only, which never changes, and are left out.            *)
(***************************************************************************)
EXTENDS Integers, Sequences

CONSTANTS
    Nil,            \* a nil pointer, an absent object
    MinInt32,       \* math.MinInt32 and math.MaxInt32: the width of the
    MaxInt32        \* replica count the Deployment API takes

DefaultReplicas == 1

ASSUME Int32Assumption ==
    /\ MinInt32 \in Int /\ MaxInt32 \in Int
    /\ MinInt32 < 0 /\ DefaultReplicas <= MaxInt32

-----------------------------------------------------------------------------
\* Accessors of the custom resource: unset fields get their defaults.

OrDefault(v, default) == IF v = Nil THEN default ELSE v

HTTPPort(spec) == OrDefault(spec.http, 8080)

GRPCPort(spec) == OrDefault(spec.grpc, 8081)

Limits(spec) == OrDefault(spec.limits, <<>>)

GetResourceRequirements(spec) == OrDefault(spec.resources, "default")

\* Mutant: the conversion to int32 without the comparisons before it.
GetReplicasWrapped(spec) ==
    LET r == OrDefault(spec.replicas, DefaultReplicas)
    IN  ((r - MinInt32) % (MaxInt32 - MinInt32 + 1)) + MinInt32

\* The width of a Go int is 64 bits; the Deployment takes an int32.
GetReplicas(spec) ==
    LET r == OrDefault(spec.replicas, DefaultReplicas)
    IN  IF r > MaxInt32 THEN MaxInt32
        ELSE IF r < MinInt32 THEN MinInt32 ELSE r

\* The validation rules the CRD carries (CEL rules and enumerations): the API
\* server admits no other spec.
Admissible(spec) ==
    /\ spec.disk # Nil => (spec.replicas = Nil \/ spec.replicas < 2)
    /\ spec.pdb # Nil => (spec.pdb.maxUnavailable = Nil \/ spec.pdb.minAvailable = Nil)
    /\ spec.verbosity # Nil => spec.verbosity \in 1..4

-----------------------------------------------------------------------------
\* Storage options.  An option record carries err # "none" when the Go
\* function returns an error; its other fields are then not used.

StorageOptions(err, args, strategy, volumes) ==
    [err |-> err, args |-> args, strategy |-> strategy, volumes |-> volumes]

StorageError(err) == StorageOptions(err, <<>>, "RollingUpdate", <<>>)

Flag(name, v) == IF v = Nil THEN <<>> ELSE << <<name, v>> >>

\* A secret is Nil (not found), "noURL" (no URL key) or "URL".
validateRedisSecret(secret) ==
    CASE secret = Nil -> "SecretNotFound"
      [] secret = "noURL" -> "SecretWithoutURL"
      [] OTHER -> "none"

SecretRefError(ref, secrets) ==
    IF ref = Nil THEN "NoConfigSecretRef" ELSE validateRedisSecret(secrets[ref])

RedisDeploymentOptions(redis, secrets) ==
    LET err == SecretRefError(redis.ref, secrets)
    IN  IF err # "none" THEN StorageError(err)
        ELSE StorageOptions("none", << <<"redis">>, <<"$REDIS_URL">> >>, "RollingUpdate", <<>>)

RedisCachedDeploymentOptions(cached, secrets) ==
    LET err == SecretRefError(cached.ref, secrets)
        opts == IF cached.options = Nil THEN <<>>
                ELSE Flag("--flush-period", cached.options.flushPeriod)
                     \o Flag("--max-cached", cached.options.maxCached)
                     \o Flag("--response-timeout", cached.options.responseTimeout)
                     \o Flag("--batch-size", cached.options.batchSize)
    IN  IF err # "none" THEN StorageError(err)
        ELSE StorageOptions("none", << <<"redis_cached">>, <<"$REDIS_URL">> >> \o opts,
                            "RollingUpdate", <<>>)

\* Mutant: the pods of the old template may outlive the start of the new ones.
DiskDeploymentOptionsRolling(disk) ==
    StorageOptions("none",
                   << <<"disk">> >> \o Flag("--optimize", disk.optimize) \o << <<"DiskPath">> >>,
                   "RollingUpdate", <<"storage">>)

DiskDeploymentOptions(disk) ==
    StorageOptions("none",
                   << <<"disk">> >> \o Flag("--optimize", disk.optimize) \o << <<"DiskPath">> >>,
                   "Recreate", <<"storage">>)

InMemoryDeploymentOptions == StorageOptions("none", << <<"memory">> >>, "RollingUpdate", <<>>)

\* The storage that is set first in this order wins.
getDeploymentStorageOptions(spec, secrets) ==
    CASE spec.redis # Nil -> RedisDeploymentOptions(spec.redis, secrets)
      [] spec.redis = Nil /\ spec.redisCached # Nil
            -> RedisCachedDeploymentOptions(spec.redisCached, secrets)
      [] spec.redis = Nil /\ spec.redisCached = Nil /\ spec.disk # Nil
            -> DiskDeploymentOptions(spec.disk)
      [] OTHER -> InMemoryDeploymentOptions

\* The environment variable with the Redis URL, as the name of the secret it
\* is taken from.
getDeploymentEnvVar(spec) ==
    CASE spec.redis # Nil -> spec.redis.ref
      [] spec.redis = Nil /\ spec.redisCached # Nil -> spec.redisCached.ref
      [] OTHER -> Nil

-----------------------------------------------------------------------------
\* The objects.

DeploymentArgs(spec, storage) ==
    Flag("--rate-limit-headers", spec.rateLimitHeaders)
    \o (IF spec.telemetry = "exhaustive" THEN << <<"--limit-name-in-labels">> >> ELSE <<>>)
    \o Flag("--tracing-endpoint", spec.tracing)
    \o Flag("-v", spec.verbosity)
    \o << <<"--http-port", HTTPPort(spec)>>, <<"--rls-port", GRPCPort(spec)>> >>
    \o Flag("--metric-labels-default", spec.metricLabelsDefault)
    \o << <<"ConfigFile">> >>
    \o storage.args

\* spec.image wins over the deprecated spec.version, which wins over the
\* operator's default image.
Image(spec) ==
    CASE spec.image # Nil -> <<"image", spec.image>>
      [] spec.image = Nil /\ spec.version # Nil -> <<"version", spec.version>>
      [] OTHER -> <<"default">>

Deployment(spec, storage) ==
    [replicas |-> GetReplicas(spec),
     strategy |-> storage.strategy,
     template |-> [image |-> Image(spec),
                   args |-> DeploymentArgs(spec, storage),
                   env |-> getDeploymentEnvVar(spec),
                   http |-> HTTPPort(spec),
                   grpc |-> GRPCPort(spec),
                   resources |-> GetResourceRequirements(spec),
                   affinity |-> spec.affinity,
                   imagePullSecrets |-> spec.imagePullSecrets,
                   volumes |-> <<"config-file">> \o storage.volumes]]

Service(spec) == [http |-> HTTPPort(spec), grpc |-> GRPCPort(spec)]

LimitsConfigMap(spec) == [limits |-> Limits(spec)]

\* Nil stands for an object tagged for deletion.
PodDisruptionBudget(spec) == spec.pdb

PVC(spec) ==
    IF spec.disk = Nil THEN Nil
    ELSE LET claim == spec.disk.pvc
         IN  IF claim = Nil
             THEN [storageClassName |-> Nil, volumeName |-> Nil, requests |-> "1Gi"]
             ELSE [storageClassName |-> claim.storageClassName,
                   volumeName |-> claim.volumeName,
                   requests |-> OrDefault(claim.requests, "1Gi")]

UsesDisk(template) == Len(template.volumes) > 1
=============================================================================
