-------------------------- MODULE OperatorProcess --------------------------
(***************************************************************************)
(* The life of the operator's process: main.go, pkg/log/log.go and         *)
(* pkg/observability/otel.go.  It configures logging and tracing, sets the *)
(* manager up, runs passes until a signal comes or the manager fails, and  *)
(* tries to hand the spans over before it exits.                           *)
(***************************************************************************)
EXTENDS ReconcileTrace

CONSTANT
    Configs         \* environments and flags: [level, mode, endpoint, leaderElection]

ExitCodes == {"success", "failure", "panic", "killed"}

ASSUME ExitAssumption == Nil \notin ExitCodes

VARIABLES
    config,         \* the environment and flags of this process
    phase,          \* how far main has got
    exit,           \* "success" (code 0), "failure" (1), "panic" (2), "killed"; Nil while it runs
    collector       \* whether the collector answers

vars == <<traceVars, config, phase, exit, collector>>

processVars == <<config, phase, exit, collector>>

SetupSteps == <<"manager", "controller", "healthz", "readyz">>

Phases == {"logger", "provider", "start", "candidate", "running", "stopping", "shutdown",
           "exited"} \cup {SetupSteps[i] : i \in DOMAIN SetupSteps}

Init ==
    /\ stack = <<>> /\ provider = "unset" /\ batch = <<>> /\ passes = MaxPasses
    /\ config \in Configs
    /\ phase = "logger" /\ exit = Nil
    /\ collector \in {"up", "down"}

GoOn(step) == phase' = step /\ UNCHANGED <<config, exit, collector>>

\* os.Exit runs no deferred function: the process stops with what it holds.
Exit(code) == phase' = "exited" /\ exit' = code /\ UNCHANGED <<config, collector>>

-----------------------------------------------------------------------------
\* Logging.

\* UnmarshalText takes the names of zap's levels, and the empty one for info.  Both
\* conversions ignore case, and names are in lower case here.
ToLevelPanics(level) ==
    level \notin {"debug", "info", "", "warn", "error", "dpanic", "panic", "fatal"}

ToModePanics(mode) == mode \notin {"production", "development"}

\* init() converts level and mode, and both conversions panic on a name they do not know.
NewLogger ==
    /\ phase = "logger"
    /\ IF ToLevelPanics(config.level) \/ ToModePanics(config.mode) THEN Exit("panic")
       ELSE GoOn("provider")
    /\ UNCHANGED traceVars

-----------------------------------------------------------------------------
\* Tracing.

\* Mutant: a scheme that is not known is not refused.
newExporterAnyScheme(endpoint) ==
    IF endpoint \in {"http", "https"} THEN "http" ELSE endpoint

\* The scheme of the endpoint selects the client.
newExporter(endpoint) ==
    CASE endpoint = "rpc" -> "grpc"
      [] endpoint \in {"http", "https"} -> "http"
      [] OTHER -> "unset"

\* Without an endpoint the provider has no exporter.
initTracerProvider(endpoint) == IF endpoint = "" THEN "noop" ELSE newExporter(endpoint)

\* An endpoint with another scheme, a resource or an exporter that cannot be created end
\* the process.
InitProvider ==
    /\ phase = "provider"
    /\ \/ /\ initTracerProvider(config.endpoint) # "unset"
          /\ provider' = initTracerProvider(config.endpoint)
          /\ GoOn(SetupSteps[1])
       \/ Exit("failure") /\ UNCHANGED provider
    /\ UNCHANGED <<stack, batch, passes>>

-----------------------------------------------------------------------------
\* The manager.

SetUp ==
    /\ \E i \in DOMAIN SetupSteps :
          /\ phase = SetupSteps[i]
          /\ \/ GoOn(IF i = Len(SetupSteps) THEN "start" ELSE SetupSteps[i + 1])
             \/ Exit("failure")
    /\ UNCHANGED traceVars

Start ==
    /\ phase = "start"
    /\ GoOn(IF config.leaderElection THEN "candidate" ELSE "running")
    /\ UNCHANGED traceVars

AcquireLease == phase = "candidate" /\ GoOn("running") /\ UNCHANGED traceVars

\* The caches do not sync or, in the middle of a pass perhaps, the lease is lost.
StartFails ==
    /\ phase \in {"candidate", "running"}
    /\ Exit("failure")
    /\ UNCHANGED traceVars

\* What is in the work queue when a signal comes is still worked off.
Work ==
    /\ phase \in {"running", "stopping"}
    /\ StartReconcileSpan \/ PassStep
    /\ UNCHANGED processVars

Signal ==
    /\ phase \in {"candidate", "running"}
    /\ GoOn("stopping")
    /\ UNCHANGED traceVars

\* The signal handler exits on a second signal.
SecondSignal ==
    /\ phase \in {"stopping", "shutdown"}
    /\ Exit("failure")
    /\ UNCHANGED traceVars

Kill ==
    /\ phase # "exited"
    /\ Exit("killed")
    /\ UNCHANGED traceVars

\* Start returns when the worker has finished, or with an error when the grace period is
\* over before.
StopDone ==
    /\ phase = "stopping" /\ stack = <<>>
    /\ GoOn("shutdown")
    /\ UNCHANGED traceVars

GraceExpires ==
    /\ phase = "stopping" /\ stack # <<>>
    /\ Exit("failure")
    /\ UNCHANGED traceVars

-----------------------------------------------------------------------------
\* The batch processor and the collector, and the deferred Shutdown.

Exporting == phase # "exited" /\ batch # <<>>

Export ==
    /\ Exporting /\ collector = "up"
    /\ batch' = <<>>
    /\ UNCHANGED <<stack, provider, passes, processVars>>

\* An export that times out loses its spans.
ExportFails ==
    /\ Exporting /\ collector = "down"
    /\ batch' = <<>>
    /\ UNCHANGED <<stack, provider, passes, processVars>>

CollectorChanges ==
    /\ phase # "exited"
    /\ collector' = IF collector = "up" THEN "down" ELSE "up"
    /\ UNCHANGED <<traceVars, config, phase, exit>>

\* Shutdown exports what is left, then main returns.
Shutdown ==
    /\ phase = "shutdown" /\ batch = <<>>
    /\ Exit("success")
    /\ UNCHANGED traceVars

\* Mutant: Shutdown gets a context without a deadline.
ShutdownWithoutDeadline == FALSE /\ UNCHANGED vars

\* The five seconds of the context are over: a collector that is slow or does not answer
\* costs the spans, not the exit.
ShutdownTimesOut ==
    /\ phase = "shutdown" /\ batch # <<>>
    /\ Exit("success")
    /\ UNCHANGED traceVars

-----------------------------------------------------------------------------
Next ==
    \/ NewLogger \/ InitProvider \/ SetUp \/ Start \/ AcquireLease \/ StartFails
    \/ Work
    \/ Signal \/ SecondSignal \/ Kill
    \/ StopDone \/ GraceExpires
    \/ Export \/ ExportFails \/ CollectorChanges
    \/ Shutdown \/ ShutdownTimesOut

\* Timers expire, and the process goes on by itself once the worker is done.  Nothing is
\* assumed of the worker, whose calls may hang, or of the collector.
Fairness ==
    /\ WF_vars(StopDone) /\ WF_vars(GraceExpires)
    /\ WF_vars(Export) /\ WF_vars(Shutdown) /\ WF_vars(ShutdownTimesOut)

Spec == Init /\ [][Next]_vars /\ Fairness

-----------------------------------------------------------------------------
\* Properties.

ControlOK ==
    /\ config \in Configs
    /\ phase \in Phases
    /\ exit \in ExitCodes \cup {Nil} /\ (exit = Nil <=> phase # "exited")
    /\ collector \in {"up", "down"}

\* Type invariant: the spans and frames are those of the functions of a pass, and the
\* process has an exit code exactly when it has exited.
TypeOK ==
    /\ TraceOK
    /\ ControlOK

\* The inductive invariant.
ProcessInv == TypeOK /\ TraceInv

\* A process that was told to stop does so, whether the API server, which may keep a pass
\* waiting, and the collector, which may keep the spans waiting, answer or not.
StopsWhenTold == phase = "stopping" ~> phase = "exited"
=============================================================================
