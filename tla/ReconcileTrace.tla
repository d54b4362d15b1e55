--------------------------- MODULE ReconcileTrace ---------------------------
(***************************************************************************)
(* The spans of a pass of Reconcile: pkg/observability/tracer.go and the   *)
(* calls to it in controllers/ and pkg/reconcilers.                        *)
(*                                                                         *)
(* Every function of a pass opens a span, records how it went, and closes  *)
(* the span on return; the spans of a pass make up a trace.  stack is the  *)
(* call stack; what the functions do to the cluster is                     *)
(* LimitadorReconciler's subject, here a call succeeds or fails.           *)
(***************************************************************************)
EXTENDS Naturals, Sequences

CONSTANTS
    Nil,            \* no operation recorded
    MaxPods,        \* bound on the pods a pass annotates
    MaxPasses,      \* bound on the passes of a process
    QueueSize       \* spans the batch processor holds

ASSUME TraceAssumption ==
    /\ MaxPods \in Nat /\ MaxPasses \in Nat
    /\ QueueSize \in Nat \ {0}

VARIABLES
    stack,          \* the functions under way, the innermost last
    provider,       \* the exporter of the tracer provider: "unset", "noop", "grpc" or "http"
    batch,          \* spans that ended and are not exported
    passes          \* passes left

traceVars == <<stack, provider, batch, passes>>

Resources == <<"Service", "PersistentVolumeClaim", "Deployment", "ConfigMap",
               "PodDisruptionBudget", "PodAnnotation">>

Functions == {"Reconcile", "reconcileSpec", "reconcileStatus"}
             \cup {Resources[i] : i \in DOMAIN Resources}

Top == stack[Len(stack)]

-----------------------------------------------------------------------------
\* Spans.

Codes == [Unset |-> 0, Error |-> 1, Ok |-> 2]

\* A status gives way to one of a higher rank only: Ok is final.
SetStatus(frame, code) ==
    IF Codes[frame.status] > Codes[code] THEN frame ELSE [frame EXCEPT !.status = code]

RecordError(frame) == SetStatus(frame, "Error")

SetResourceOperation(frame, operation) == [frame EXCEPT !.operation = operation]

\* Mutant: an apply that went well completes the span.
RecordResourceAppliedOk(frame) == SetStatus(SetResourceOperation(frame, "applied"), "Ok")

RecordResourceApplied(frame) == SetResourceOperation(frame, "applied")

RecordResourceCreated(frame) == SetResourceOperation(frame, "created")

RecordResourceUnchanged(frame) == SetResourceOperation(frame, "unchanged")

RecordSpecCompleted(frame) == SetStatus(frame, "Ok")

RecordStatusCompleted(frame) == SetStatus(frame, "Ok")

RecordReconcileResult(frame, err) ==
    IF err THEN SetStatus(frame, "Error") ELSE SetStatus(frame, "Ok")

\* The frame of a function that has opened its span: at counts the calls that have come
\* back, failed tells whether one of them returned an error.
Opened(fn) ==
    [fn |-> fn, at |-> 0, failed |-> FALSE, status |-> "Unset", operation |-> Nil]

Call(fn) ==
    /\ stack' = Append(stack, Opened(fn))
    /\ UNCHANGED <<provider, batch, passes>>

\* The batch processor takes a span that ends unless its queue is full; without an
\* exporter there is no processor.
OnEnd(span) ==
    batch' = IF provider \in {"grpc", "http"} /\ Len(batch) < QueueSize
             THEN Append(batch, span) ELSE batch

\* Mutant: the errors of the calls share a variable, and the last one wins.
CameBackLastError(frame, err) == [frame EXCEPT !.at = @ + 1, !.failed = err]

\* The frame of a caller whose call has come back.
CameBack(frame, err) == [frame EXCEPT !.at = @ + 1, !.failed = @ \/ err]

\* The innermost function returns, with its frame as it has left it.  The number of passes
\* left stands for the id of the trace: the worker runs one pass at a time.
Return(frame, err) ==
    /\ OnEnd([fn |-> frame.fn, status |-> frame.status, operation |-> frame.operation,
              err |-> err, trace |-> passes])
    /\ LET callers == SubSeq(stack, 1, Len(stack) - 1)
       IN  stack' = IF callers = <<>> THEN callers
                    ELSE [callers EXCEPT ![Len(callers)] = CameBack(@, err)]
    /\ UNCHANGED <<provider, passes>>

In(fn) == stack # <<>> /\ Top.fn = fn

-----------------------------------------------------------------------------
\* The functions of a pass.

StartReconcileSpan ==
    /\ stack = <<>>
    /\ passes > 0
    /\ passes' = passes - 1
    /\ stack' = Append(stack, Opened("Reconcile"))
    /\ UNCHANGED <<provider, batch>>

\* The resource is there, is gone or being deleted, or cannot be read.
GetLimitador ==
    /\ In("Reconcile") /\ Top.at = 0
    /\ \/ Call("reconcileSpec")
       \/ Return(RecordReconcileResult(Top, FALSE), FALSE)
       \/ Return(RecordError(Top), TRUE)

ReconcileSpec ==
    /\ In("reconcileSpec")
    /\ IF Top.failed THEN Return(RecordError(Top), TRUE)
       ELSE IF Top.at < Len(Resources) THEN Call(Resources[Top.at + 1])
       ELSE Return(RecordSpecCompleted(Top), FALSE)

\* ReconcileResource on the span of its caller.
ReconcileResource(frame, err) ==
    IF err THEN RecordError(frame) ELSE RecordResourceApplied(frame)

\* The objects that are applied.  The preparations may fail, and so may the call; an error
\* of an apply is recorded where it occurs and once more by the caller.  A budget may be
\* deleted instead, which records no operation.
ReconcileApplied ==
    /\ \E fn \in {"Service", "Deployment", "ConfigMap", "PodDisruptionBudget"} : In(fn)
    /\ \/ Return(RecordError(Top), TRUE)
       \/ Return(SetStatus(ReconcileResource(Top, FALSE), "Ok"), FALSE)
       \/ Return(RecordError(ReconcileResource(Top, TRUE)), TRUE)
       \/ Top.fn = "PodDisruptionBudget" /\ Return(SetStatus(Top, "Ok"), FALSE)

\* A claim is created, found, deleted, or one of these fails.
ReconcilePersistentVolumeClaim ==
    /\ In("PersistentVolumeClaim")
    /\ \/ \E frame \in {RecordResourceCreated(Top), RecordResourceUnchanged(Top), Top} :
             Return(SetStatus(frame, "Ok"), FALSE)
       \/ Return(RecordError(RecordError(Top)), TRUE)

\* The pods cannot be listed or the ConfigMap cannot be read; or they are not all there,
\* which is no error; or the loop over the pods begins.
CheckPods ==
    /\ In("PodAnnotation") /\ Top.at = 0
    /\ \/ Return(RecordError(Top), TRUE)
       \/ Return(SetStatus(Top, "Ok"), FALSE)
       \/ /\ stack' = [stack EXCEPT ![Len(stack)].at = 1]
          /\ UNCHANGED <<provider, batch, passes>>

ReconcilePodAnnotation ==
    /\ In("PodAnnotation") /\ Top.at \in 1..MaxPods
    /\ \/ /\ stack' = [stack EXCEPT ![Len(stack)] =
                         [ReconcileResource(Top, FALSE) EXCEPT !.at = @ + 1]]
          /\ UNCHANGED <<provider, batch, passes>>
       \/ Return(RecordError(ReconcileResource(Top, TRUE)), TRUE)

FinishPodAnnotations ==
    /\ In("PodAnnotation") /\ Top.at > 0
    /\ Return(SetStatus(Top, "Ok"), FALSE)

\* The status is steady or written, or one of the calls fails.
ReconcileStatus ==
    /\ In("reconcileStatus")
    /\ \/ Return(RecordStatusCompleted(Top), FALSE)
       \/ Return(RecordError(Top), TRUE)

\* reconcileStatus runs whatever reconcileSpec returned; then the result is recorded.
FinishReconcile ==
    /\ In("Reconcile")
    /\ \/ Top.at = 1 /\ Call("reconcileStatus")
       \/ Top.at = 2 /\ Top.failed /\ Return(RecordError(Top), TRUE)
       \/ Top.at = 2 /\ ~Top.failed /\ Return(RecordReconcileResult(Top, FALSE), FALSE)

PassStep ==
    \/ GetLimitador \/ ReconcileSpec \/ ReconcileApplied \/ ReconcilePersistentVolumeClaim
    \/ CheckPods \/ ReconcilePodAnnotation \/ FinishPodAnnotations
    \/ ReconcileStatus \/ FinishReconcile

-----------------------------------------------------------------------------
\* Properties.

Operations == {"applied", "created", "unchanged", Nil}

Frames == [fn : Functions, at : Nat, failed : BOOLEAN, status : DOMAIN Codes,
           operation : Operations]

Spans == [fn : Functions, status : DOMAIN Codes, operation : Operations, err : BOOLEAN,
          trace : Nat]

TraceOK ==
    /\ stack \in Seq(Frames)
    /\ provider \in {"unset", "noop", "grpc", "http"}
    /\ batch \in Seq(Spans) /\ Len(batch) <= QueueSize
    /\ passes \in 0..MaxPasses

\* A span tells how its function ended: its status is Error if the function returned an
\* error and Ok if it did not, although several places record on the same span and a
\* status once Ok stays so; and no span claims an operation its function failed to do,
\* except that of the loop over the pods, which may stop half way.
SpansTellResult ==
    \A i \in DOMAIN batch :
        /\ batch[i].status = IF batch[i].err THEN "Error" ELSE "Ok"
        /\ batch[i].err /\ batch[i].fn # "PodAnnotation" => batch[i].operation = Nil

\* A failure anywhere in a pass is one of the pass: the root span of a trace is in error if
\* a span of the trace is, although Reconcile goes on to the status when reconcileSpec has
\* failed, and the status may be written without an error.
FailuresReachTheRoot ==
    \A i, j \in DOMAIN batch :
        batch[i].trace = batch[j].trace /\ batch[i].err /\ batch[j].fn = "Reconcile"
            => batch[j].status = "Error"

\* A function under way has not given its span a status, and only the loop over the pods
\* records an operation before it returns.
OpenSpans ==
    \A i \in DOMAIN stack :
        /\ stack[i].status = "Unset"
        /\ stack[i].operation # Nil => stack[i].fn = "PodAnnotation"

Callers == {"Reconcile", "reconcileSpec"}

\* Reconcile is the outermost function, and only a function that calls others and has got
\* one of them back knows of a failure.
CallStack ==
    \A i \in DOMAIN stack :
        /\ i > 1 => stack[i].fn # "Reconcile"
        /\ i < Len(stack) => stack[i].fn \in Callers
        /\ stack[i].failed => stack[i].fn \in Callers /\ stack[i].at > 0

\* The trace of the pass under way lacks its root span, and a failure it holds is known to
\* a function that has not returned.
OpenTrace ==
    \A i \in DOMAIN batch :
        /\ batch[i].trace >= passes
        /\ stack # <<>> /\ batch[i].trace = passes
              => /\ batch[i].fn # "Reconcile"
                 /\ batch[i].err => \E j \in DOMAIN stack : stack[j].failed

\* The part of the inductive invariant that is about a pass.
TraceInv ==
    /\ TraceOK /\ OpenSpans /\ SpansTellResult
    /\ CallStack /\ OpenTrace /\ FailuresReachTheRoot
=============================================================================
