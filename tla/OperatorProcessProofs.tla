----------------------- MODULE OperatorProcessProofs -----------------------
(***************************************************************************)
(* What a trace tells of a pass, for any configuration, any number of      *)
(* passes and pods, and any size of the span queue.                        *)
(***************************************************************************)
EXTENDS OperatorProcess, SequenceTheorems, TLAPS

-----------------------------------------------------------------------------
\* Frames.

\* Where the innermost function is.
LEMMA TopIsAFrame ==
  ASSUME TraceInv, stack # <<>>
  PROVE  /\ Top \in Frames /\ Len(stack) \in DOMAIN stack
         /\ Top.status = "Unset"
         /\ Top.operation # Nil => Top.fn = "PodAnnotation"
         /\ Top.failed => Top.fn \in Callers /\ Top.at > 0
<1>1. stack \in Seq(Frames)
  BY DEF TraceInv, TraceOK
<1>2. Len(stack) \in DOMAIN stack
  BY <1>1
<1>3. Top = stack[Len(stack)]
  BY DEF Top
<1> QED
  BY <1>1, <1>2, <1>3 DEF TraceInv, OpenSpans, CallStack

\* A first status is taken as it comes, and an error recorded twice is an error.
LEMMA FirstStatus ==
  ASSUME NEW f \in Frames, f.status = "Unset"
  PROVE  /\ \A code \in {"Error", "Ok"} : SetStatus(f, code) = [f EXCEPT !.status = code]
         /\ RecordError(f) = [f EXCEPT !.status = "Error"]
         /\ RecordError(RecordError(f)) = [f EXCEPT !.status = "Error"]
<1>1. f.status \in {"Unset", "Error", "Ok"}
  BY DEF Frames, Codes
<1>2. \A code \in {"Error", "Ok"} : SetStatus(f, code) = [f EXCEPT !.status = code]
  BY <1>1 DEF SetStatus, Codes, Frames
<1>3. RecordError(f) = [f EXCEPT !.status = "Error"]
  BY <1>2 DEF RecordError
<1>4. RecordError(RecordError(f)) = [f EXCEPT !.status = "Error"]
  BY <1>3 DEF RecordError, SetStatus, Codes, Frames
<1> QED
  BY <1>2, <1>3, <1>4

\* A function that has just opened its span has the frame the invariant asks for.
LEMMA OpenedFrame ==
  ASSUME NEW fn \in Functions
  PROVE  /\ Opened(fn) \in Frames /\ Opened(fn).status = "Unset" /\ Opened(fn).operation = Nil
         /\ Opened(fn).fn = fn /\ Opened(fn).failed = FALSE
  BY DEF Opened, Frames, Codes, Operations

-----------------------------------------------------------------------------
\* Calls and returns.

\* A frame that is pushed leaves the others as they are.
LEMMA PushLemma ==
  ASSUME TraceInv, NEW fn \in Functions, stack' = Append(stack, Opened(fn)),
         UNCHANGED <<provider, batch>>, passes' \in 0..MaxPasses,
         \/ stack = <<>> /\ passes' < passes
         \/ stack # <<>> /\ passes' = passes /\ Top.fn \in Callers /\ fn # "Reconcile"
  PROVE  TraceInv'
<1>1. stack \in Seq(Frames) /\ Opened(fn) \in Frames
  BY OpenedFrame DEF TraceInv, TraceOK
<1>2. stack' \in Seq(Frames) /\ Len(stack') = Len(stack) + 1
  BY <1>1
<1>3. \A i \in DOMAIN stack' :
        \/ i \in DOMAIN stack /\ stack'[i] = stack[i] /\ i < Len(stack')
        \/ i = Len(stack') /\ stack'[i] = Opened(fn)
  BY <1>1, <1>2
<1>4. TraceOK'
  BY <1>2 DEF TraceInv, TraceOK
<1>5. OpenSpans'
  BY <1>3, OpenedFrame DEF TraceInv, OpenSpans
<1>6. CallStack'
  <2> SUFFICES ASSUME NEW i \in DOMAIN stack'
               PROVE  /\ i > 1 => stack'[i].fn # "Reconcile"
                      /\ i < Len(stack') => stack'[i].fn \in Callers
                      /\ stack'[i].failed => stack'[i].fn \in Callers /\ stack'[i].at > 0
    BY DEF CallStack
  <2>1. CASE i \in DOMAIN stack /\ stack'[i] = stack[i] /\ i < Len(stack')
    <3>1. i = Len(stack) \/ i < Len(stack)
      BY <1>1, <1>2, <2>1
    <3>2. stack[i].fn \in Callers
      <4>1. stack # <<>>
        BY <1>1, <2>1
      <4> QED
        BY <2>1, <3>1, <4>1 DEF TraceInv, CallStack, Top
    <3> QED
      BY <2>1, <3>2 DEF TraceInv, CallStack
  <2>2. CASE i = Len(stack') /\ stack'[i] = Opened(fn)
    <3>1. i > 1 => stack # <<>>
      BY <1>1, <1>2, <2>2
    <3>2. stack'[i].fn = fn /\ stack'[i].failed = FALSE
      BY <2>2, OpenedFrame
    <3> QED
      BY <1>1, <1>2, <2>2, <3>1, <3>2
  <2> QED
    BY <1>3, <2>1, <2>2
<1>7. SpansTellResult' /\ FailuresReachTheRoot'
  BY DEF TraceInv, SpansTellResult, FailuresReachTheRoot
<1>8. OpenTrace'
  <2>1. passes \in Nat /\ passes' \in Nat /\ batch \in Seq(Spans)
    BY TraceAssumption DEF TraceInv, TraceOK
  <2>2. \A i \in DOMAIN batch : batch[i].trace \in Nat /\ batch[i].trace >= passes
    <3>1. \A i \in DOMAIN batch : batch[i] \in Spans
      BY <2>1
    <3>2. \A i \in DOMAIN batch : batch[i].trace >= passes
      BY DEF TraceInv, OpenTrace
    <3> QED
      BY <3>1, <3>2 DEF Spans
  <2>3. CASE stack = <<>> /\ passes' < passes
    BY <2>1, <2>2, <2>3 DEF OpenTrace
  <2>4. CASE stack # <<>> /\ passes' = passes
    <3>1. (\E j \in DOMAIN stack : stack[j].failed) => \E j \in DOMAIN stack' : stack'[j].failed
      BY <1>1
    <3> QED
      BY <2>4, <3>1 DEF TraceInv, OpenTrace
  <2> QED
    BY <2>3, <2>4
<1> QED
  BY <1>4, <1>5, <1>6, <1>7, <1>8 DEF TraceInv

\* A call opens a span and closes none.
LEMMA CallLemma ==
  ASSUME TraceInv, NEW fn \in Functions, Call(fn), stack # <<>>, Top.fn \in Callers,
         fn # "Reconcile"
  PROVE  TraceInv'
  BY PushLemma DEF Call, TraceInv, TraceOK

\* What a caller is told by a return does not touch its span, and a failure it knows of it
\* does not forget.
LEMMA CameBackFrame ==
  ASSUME NEW f \in Frames, NEW err \in BOOLEAN
  PROVE  /\ CameBack(f, err) \in Frames
         /\ CameBack(f, err).fn = f.fn /\ CameBack(f, err).status = f.status
         /\ CameBack(f, err).operation = f.operation /\ CameBack(f, err).at > 0
         /\ f.failed \/ err => CameBack(f, err).failed
<1>1. f.at + 1 \in Nat /\ f.at + 1 > 0 /\ (f.failed \/ err) \in BOOLEAN
  BY DEF Frames
<1> QED
  BY <1>1 DEF CameBack, Frames

\* A return hands a span over and tells the caller, whose span stays open.
LEMMA ReturnLemma ==
  ASSUME TraceInv, stack # <<>>, NEW f \in Frames, NEW err \in BOOLEAN, Return(f, err),
         f.fn = Top.fn, Top.failed => err,
         f.status = IF err THEN "Error" ELSE "Ok",
         err /\ f.fn # "PodAnnotation" => f.operation = Nil
  PROVE  TraceInv'
<1> DEFINE span == [fn |-> f.fn, status |-> f.status, operation |-> f.operation, err |-> err,
                    trace |-> passes]
           callers == SubSeq(stack, 1, Len(stack) - 1)
           n == Len(callers)
<1>1. stack \in Seq(Frames) /\ Len(stack) \in Nat \ {0} /\ batch \in Seq(Spans) /\ passes \in Nat
  BY TraceAssumption DEF TraceInv, TraceOK
<1>2. callers \in Seq(Frames) /\ n = Len(stack) - 1 /\ \A i \in 1..n : callers[i] = stack[i]
  <2> DEFINE m == Len(stack) - 1
  <2>1. m \in Nat /\ \A i \in 1..m : stack[i] \in Frames
    BY <1>1
  <2> HIDE DEF m
  <2>2. /\ SubSeq(stack, 1, m) \in Seq(Frames)
        /\ Len(SubSeq(stack, 1, m)) = IF 1 <= m THEN m - 1 + 1 ELSE 0
        /\ \A i \in 1..(m - 1 + 1) : SubSeq(stack, 1, m)[i] = stack[1 + i - 1]
    BY <2>1, SubSeqProperties
  <2>3. Len(SubSeq(stack, 1, m)) = m
    BY <2>1, <2>2
  <2>4. \A i \in 1..m : SubSeq(stack, 1, m)[i] = stack[i]
    BY <2>1, <2>2
  <2> QED
    BY <2>2, <2>3, <2>4 DEF m
<1>3. /\ OnEnd(span) /\ UNCHANGED <<provider, passes>>
      /\ stack' = IF callers = <<>> THEN callers
                  ELSE [callers EXCEPT ![n] = CameBack(callers[n], err)]
  BY DEF Return
<1>4. span \in Spans
  BY <1>1 DEF Spans, Frames
<1>5. /\ batch' \in Seq(Spans) /\ Len(batch') <= QueueSize
      /\ \A i \in DOMAIN batch' :
            \/ i \in DOMAIN batch /\ batch'[i] = batch[i]
            \/ batch'[i] = span
  <2>1. CASE batch' = batch
    BY <2>1 DEF TraceInv, TraceOK
  <2>2. CASE batch' = Append(batch, span) /\ Len(batch) < QueueSize
    <3>1. batch' \in Seq(Spans) /\ Len(batch') = Len(batch) + 1
      BY <2>2, <1>1, <1>4
    <3>2. \A i \in DOMAIN batch' :
            \/ i \in DOMAIN batch /\ batch'[i] = batch[i]
            \/ batch'[i] = span
      BY <2>2, <1>1, <1>4
    <3> QED
      BY <2>2, <1>1, <3>1, <3>2, TraceAssumption
  <2> QED
    BY <1>3, <2>1, <2>2 DEF OnEnd
<1>6. /\ stack' \in Seq(Frames) /\ Len(stack') = n
      /\ \A i \in DOMAIN stack' :
            /\ i \in DOMAIN stack /\ i < Len(stack) /\ stack'[i].fn = stack[i].fn
            /\ stack'[i].status = stack[i].status /\ stack'[i].operation = stack[i].operation
            /\ stack[i].failed => stack'[i].failed
            /\ i < n => stack'[i] = stack[i]
            /\ i = n => stack'[i].at > 0 /\ (err => stack'[i].failed)
  <2> HIDE DEF callers
  <2>1. CASE callers = <<>>
    BY <1>3, <2>1
  <2>2. CASE callers # <<>>
    <3>1. n \in 1..n /\ callers[n] \in Frames
      BY <1>1, <1>2, <2>2
    <3> DEFINE caller == CameBack(callers[n], err)
    <3>2. /\ caller \in Frames
          /\ caller.fn = callers[n].fn /\ caller.status = callers[n].status
          /\ caller.operation = callers[n].operation /\ caller.at > 0
          /\ callers[n].failed \/ err => caller.failed
      BY <3>1, CameBackFrame
    <3>3. stack' = [callers EXCEPT ![n] = caller]
      BY <1>3, <2>2
    <3> HIDE DEF caller
    <3>4. /\ stack' \in Seq(Frames) /\ Len(stack') = n
          /\ \A i \in 1..n : stack'[i] = IF i = n THEN caller ELSE callers[i]
      BY <1>2, <3>1, <3>2, <3>3, ExceptSeq
    <3>5. DOMAIN stack' = 1..n /\ 1..n \subseteq DOMAIN stack /\ \A i \in 1..n : i < Len(stack)
      BY <1>1, <1>2, <3>4
    <3> QED
      BY <1>2, <3>2, <3>4, <3>5
  <2> QED
    BY <2>1, <2>2
<1> HIDE DEF span, callers
<1>7. TraceOK'
  BY <1>3, <1>5, <1>6 DEF TraceInv, TraceOK
<1>8. OpenSpans' /\ SpansTellResult'
  BY <1>5, <1>6 DEF TraceInv, OpenSpans, SpansTellResult, span
<1>9. CallStack'
  <2> SUFFICES ASSUME NEW i \in DOMAIN stack'
               PROVE  /\ i > 1 => stack'[i].fn # "Reconcile"
                      /\ i < Len(stack') => stack'[i].fn \in Callers
                      /\ stack'[i].failed => stack'[i].fn \in Callers /\ stack'[i].at > 0
    BY DEF CallStack
  <2>1. i < n \/ i = n
    BY <1>1, <1>6
  <2> QED
    BY <1>6, <2>1 DEF TraceInv, CallStack
<1>10. OpenTrace'
  <2> SUFFICES ASSUME NEW i \in DOMAIN batch'
               PROVE  /\ batch'[i].trace >= passes
                      /\ stack' # <<>> /\ batch'[i].trace = passes
                            => /\ batch'[i].fn # "Reconcile"
                               /\ batch'[i].err => \E j \in DOMAIN stack' : stack'[j].failed
    BY <1>3 DEF OpenTrace
  <2>1. stack' # <<>> => n \in DOMAIN stack' /\ Len(stack) \in DOMAIN stack /\ Len(stack) > 1
    BY <1>1, <1>2, <1>6
  <2>2. CASE i \in DOMAIN batch /\ batch'[i] = batch[i]
    <3>1. ASSUME stack' # <<>>, \E j \in DOMAIN stack : stack[j].failed
          PROVE  \E j \in DOMAIN stack' : stack'[j].failed
      <4>1. PICK j \in DOMAIN stack : stack[j].failed
        BY <3>1
      <4>2. CASE j = Len(stack)
        BY <1>6, <2>1, <3>1, <4>1, <4>2 DEF Top
      <4>3. CASE j # Len(stack)
        <5>1. j \in DOMAIN stack'
          BY <1>1, <1>2, <1>6, <4>1, <4>3
        <5> QED
          BY <1>6, <4>1, <5>1
      <4> QED
        BY <4>2, <4>3
    <3> QED
      BY <2>2, <3>1 DEF TraceInv, OpenTrace
  <2>3. CASE batch'[i] = span
    <3>1. stack' # <<>> => f.fn # "Reconcile"
      BY <2>1 DEF TraceInv, CallStack, Top
    <3>2. stack' # <<>> /\ err => \E j \in DOMAIN stack' : stack'[j].failed
      BY <1>6, <2>1
    <3> QED
      BY <1>1, <2>3, <3>1, <3>2 DEF span
  <2> QED
    BY <1>5, <2>2, <2>3
<1>11. FailuresReachTheRoot'
  <2> SUFFICES ASSUME NEW i \in DOMAIN batch', NEW j \in DOMAIN batch',
                      batch'[i].trace = batch'[j].trace, batch'[i].err,
                      batch'[j].fn = "Reconcile"
               PROVE  batch'[j].status = "Error"
    BY DEF FailuresReachTheRoot
  <2>1. CASE j \in DOMAIN batch /\ batch'[j] = batch[j]
    <3>1. batch[j].trace # passes
      BY <2>1 DEF TraceInv, OpenTrace
    <3>2. i \in DOMAIN batch /\ batch'[i] = batch[i]
      BY <1>5, <2>1, <3>1 DEF span
    <3> QED
      BY <2>1, <3>2 DEF TraceInv, FailuresReachTheRoot
  <2>2. CASE batch'[j] = span
    <3>1. Top.fn = "Reconcile" /\ batch'[i].trace = passes
      BY <2>2 DEF span
    <3>2. err
      <4>1. CASE batch'[i] = span
        BY <4>1 DEF span
      <4>2. CASE i \in DOMAIN batch /\ batch'[i] = batch[i]
        <5>1. PICK l \in DOMAIN stack : stack[l].failed
          BY <3>1, <4>2 DEF TraceInv, OpenTrace
        <5>2. Len(stack) \in DOMAIN stack /\ stack[Len(stack)].fn = "Reconcile"
          BY <1>1, <3>1 DEF Top
        <5>3. Len(stack) = 1
          <6>1. ~(Len(stack) > 1)
            BY <5>2 DEF TraceInv, CallStack
          <6>2. Len(stack) \in Nat \ {0}
            BY <1>1
          <6>3. \A m \in Nat \ {0} : ~(m > 1) => m = 1
            OBVIOUS
          <6> QED
            BY ONLY <6>1, <6>2, <6>3, Zenon
        <5> QED
          BY <1>1, <5>1, <5>3 DEF Top
      <4> QED
        BY <1>5, <4>1, <4>2
    <3> QED
      BY <2>2, <3>2 DEF span
  <2> QED
    BY <1>5, <2>1, <2>2
<1> QED
  BY <1>7, <1>8, <1>9, <1>10, <1>11 DEF TraceInv

-----------------------------------------------------------------------------
\* The steps of a pass.

\* Every step of a pass keeps the invariant: each return closes its span with the status
\* of its result.
LEMMA PassStepInv ==
  ASSUME TraceInv, PassStep
  PROVE  TraceInv'
<1>1. stack # <<>>
  BY DEF PassStep, GetLimitador, ReconcileSpec, ReconcileApplied,
         ReconcilePersistentVolumeClaim, CheckPods, ReconcilePodAnnotation,
         FinishPodAnnotations, ReconcileStatus, FinishReconcile, In
<1> DEFINE top == Top
           failed == [top EXCEPT !.status = "Error"]
           done == [top EXCEPT !.status = "Ok"]
<1>2. /\ top \in Frames /\ Len(stack) \in DOMAIN stack
      /\ top.status = "Unset"
      /\ top.operation # Nil => top.fn = "PodAnnotation"
      /\ top.failed => top.fn \in Callers /\ top.at > 0
  BY <1>1, TopIsAFrame
<1>3. /\ SetStatus(top, "Ok") = done /\ RecordError(top) = failed
      /\ RecordError(RecordError(top)) = failed
  BY <1>2, FirstStatus
<1>4. ASSUME Return(failed, TRUE) PROVE TraceInv'
  <2>1. failed \in Frames /\ failed.status = "Error" /\ failed.fn = top.fn
        /\ failed.operation = top.operation
    BY <1>2 DEF Frames, Codes
  <2> HIDE DEF failed
  <2> QED
    BY <1>1, <1>2, <1>4, <2>1, ReturnLemma
<1>5. ASSUME Return(done, FALSE), ~top.failed PROVE TraceInv'
  <2>1. done \in Frames /\ done.status = "Ok" /\ done.fn = top.fn
    BY <1>2 DEF Frames, Codes
  <2> HIDE DEF done
  <2> QED
    BY <1>1, <1>5, <2>1, ReturnLemma
<1>6. ASSUME NEW op \in {"applied", "created", "unchanged"},
             Return(SetStatus(SetResourceOperation(top, op), "Ok"), FALSE), ~top.failed
      PROVE  TraceInv'
  <2> DEFINE f == [[top EXCEPT !.operation = op] EXCEPT !.status = "Ok"]
  <2>1. SetStatus(SetResourceOperation(top, op), "Ok") = f
    BY <1>2 DEF SetStatus, SetResourceOperation, Frames, Codes
  <2>2. f \in Frames /\ f.status = "Ok" /\ f.fn = top.fn
    BY <1>2 DEF Frames, Codes, Operations
  <2> HIDE DEF f
  <2> QED
    BY <1>1, <1>6, <2>1, <2>2, ReturnLemma
<1>7. ASSUME NEW f \in Frames, stack' = [stack EXCEPT ![Len(stack)] = f], f.fn = top.fn,
             f.status = "Unset", f.failed = top.failed, top.fn \notin Callers,
             f.operation # Nil => f.fn = "PodAnnotation", UNCHANGED <<provider, batch, passes>>
      PROVE  TraceInv'
  <2>1. stack \in Seq(Frames)
    BY DEF TraceInv, TraceOK
  <2>2. /\ stack' \in Seq(Frames) /\ DOMAIN stack' = DOMAIN stack /\ Len(stack') = Len(stack)
        /\ \A i \in DOMAIN stack : stack'[i] = IF i = Len(stack) THEN f ELSE stack[i]
    BY <1>2, <1>7, <2>1, ExceptSeq
  <2>3. TraceOK'
    BY <1>7, <2>2 DEF TraceInv, TraceOK
  <2>4. OpenSpans'
    BY <1>7, <2>2 DEF TraceInv, OpenSpans
  <2>5. \A i \in DOMAIN stack : stack'[i].fn = stack[i].fn /\ stack'[i].failed = stack[i].failed
    BY <1>7, <2>2 DEF Top
  <2>6. CallStack'
    <3>1. ~f.failed
      BY <1>2, <1>7
    <3> QED
      BY <2>2, <2>5, <3>1 DEF TraceInv, CallStack
  <2>7. SpansTellResult' /\ FailuresReachTheRoot'
    BY <1>7 DEF TraceInv, SpansTellResult, FailuresReachTheRoot
  <2>8. OpenTrace'
    BY <1>1, <1>7, <2>2, <2>5 DEF TraceInv, OpenTrace
  <2> QED
    BY <2>3, <2>4, <2>6, <2>7, <2>8 DEF TraceInv
<1>8. ReconcileResource(top, TRUE) = RecordError(top)
  BY DEF ReconcileResource
<1>9. ReconcileResource(top, FALSE) = SetResourceOperation(top, "applied")
  BY DEF ReconcileResource, RecordResourceApplied
<1> HIDE DEF failed, done
<1>10. CASE GetLimitador
  <2>1. "reconcileSpec" \in Functions /\ top.fn \in Callers /\ ~top.failed
    BY <1>2, <1>10 DEF GetLimitador, In, Functions, Callers, Frames
  <2> QED
    BY <1>1, <1>3, <1>4, <1>5, <1>10, <2>1, CallLemma DEF GetLimitador, RecordReconcileResult
<1>11. CASE ReconcileSpec
  <2>1. CASE top.failed
    BY <1>3, <1>4, <1>11, <2>1 DEF ReconcileSpec
  <2>2. CASE ~top.failed /\ top.at < Len(Resources)
    <3>1. Resources[top.at + 1] \in Functions /\ Resources[top.at + 1] # "Reconcile"
      <4>1. Len(Resources) = 6 /\ DOMAIN Resources = 1..6
        BY DEF Resources
      <4>2. top.at + 1 \in DOMAIN Resources
        BY <1>2, <2>2, <4>1 DEF Frames
      <4>3. \A i \in 1..6 : Resources[i] # "Reconcile"
        BY DEF Resources
      <4> QED
        BY <4>1, <4>2, <4>3 DEF Functions
    <3>2. top.fn \in Callers /\ Call(Resources[top.at + 1])
      BY <1>11, <2>2 DEF ReconcileSpec, In, Callers
    <3> QED
      BY <1>1, <3>1, <3>2, CallLemma
  <2>3. CASE ~top.failed /\ ~(top.at < Len(Resources))
    BY <1>3, <1>5, <1>11, <2>3 DEF ReconcileSpec, RecordSpecCompleted
  <2> QED
    BY <2>1, <2>2, <2>3
<1>12. CASE ReconcileApplied
  <2>1. ~top.failed
    BY <1>2, <1>12 DEF ReconcileApplied, In, Callers
  <2> QED
    BY <1>3, <1>4, <1>5, <1>6, <1>8, <1>9, <1>12, <2>1 DEF ReconcileApplied
<1>13. CASE ReconcilePersistentVolumeClaim
  <2>1. ~top.failed
    BY <1>2, <1>13 DEF ReconcilePersistentVolumeClaim, In, Callers
  <2> QED
    BY <1>3, <1>4, <1>5, <1>6, <1>13, <2>1
       DEF ReconcilePersistentVolumeClaim, RecordResourceCreated, RecordResourceUnchanged
<1>14. CASE CheckPods
  <2>0. top.fn \notin Callers /\ ~top.failed
    BY <1>2, <1>14 DEF CheckPods, In, Callers
  <2>1. CASE stack' = [stack EXCEPT ![Len(stack)].at = 1] /\ UNCHANGED <<provider, batch, passes>>
    <3> DEFINE f == [top EXCEPT !.at = 1]
    <3>1. f \in Frames /\ f.fn = top.fn /\ f.status = "Unset" /\ f.failed = top.failed
          /\ f.operation = top.operation
      BY <1>2 DEF Frames
    <3>2. stack' = [stack EXCEPT ![Len(stack)] = f]
      BY <2>1 DEF Top
    <3> HIDE DEF f
    <3> QED
      BY <1>2, <1>7, <2>0, <2>1, <3>1, <3>2
  <2> QED
    BY <1>3, <1>4, <1>5, <1>14, <2>0, <2>1 DEF CheckPods
<1>15. CASE ReconcilePodAnnotation
  <2>1. CASE /\ stack' = [stack EXCEPT ![Len(stack)] =
                            [ReconcileResource(top, FALSE) EXCEPT !.at = @ + 1]]
             /\ UNCHANGED <<provider, batch, passes>>
    <3> DEFINE f == [ReconcileResource(top, FALSE) EXCEPT !.at = @ + 1]
    <3>1. top.fn = "PodAnnotation" /\ top.fn \notin Callers
      BY <1>15 DEF ReconcilePodAnnotation, In, Callers
    <3> DEFINE g == [top EXCEPT !.operation = "applied"]
    <3>2. g \in Frames /\ g.fn = top.fn /\ g.status = "Unset" /\ g.failed = top.failed
      BY <1>2 DEF Frames, Operations
    <3>3. f = [g EXCEPT !.at = @ + 1]
      BY <1>9 DEF SetResourceOperation
    <3> HIDE DEF f, g
    <3>4. f \in Frames /\ f.fn = top.fn /\ f.status = "Unset" /\ f.failed = top.failed
      BY <3>2, <3>3 DEF Frames
    <3> QED
      BY <1>7, <2>1, <3>1, <3>4 DEF f
  <2> QED
    BY <1>3, <1>4, <1>8, <1>15, <2>1 DEF ReconcilePodAnnotation
<1>16. CASE FinishPodAnnotations
  <2>1. ~top.failed
    BY <1>2, <1>16 DEF FinishPodAnnotations, In, Callers
  <2> QED
    BY <1>3, <1>5, <1>16, <2>1 DEF FinishPodAnnotations
<1>17. CASE ReconcileStatus
  <2>1. ~top.failed
    BY <1>2, <1>17 DEF ReconcileStatus, In, Callers
  <2> QED
    BY <1>3, <1>4, <1>5, <1>17, <2>1 DEF ReconcileStatus, RecordStatusCompleted
<1>18. CASE FinishReconcile
  <2>1. "reconcileStatus" \in Functions /\ top.fn \in Callers
    BY <1>18 DEF FinishReconcile, In, Functions, Callers
  <2> QED
    BY <1>1, <1>3, <1>4, <1>5, <1>18, <2>1, CallLemma DEF FinishReconcile, RecordReconcileResult
<1> QED
  BY <1>10, <1>11, <1>12, <1>13, <1>14, <1>15, <1>16, <1>17, <1>18 DEF PassStep

-----------------------------------------------------------------------------
\* The process.

\* The process starts with nothing under way.
LEMMA InitInv == Init => ProcessInv
<1> SUFFICES ASSUME Init PROVE ProcessInv
  OBVIOUS
<1>1. TraceOK
  BY TraceAssumption DEF Init, TraceOK
<1>2. TypeOK
  BY <1>1 DEF Init, TypeOK, ControlOK, Phases
<1>3. TraceInv
  BY <1>1 DEF Init, TraceInv, OpenSpans, SpansTellResult, CallStack, OpenTrace, FailuresReachTheRoot
<1> QED
  BY <1>2, <1>3 DEF ProcessInv

\* A step that leaves the spans and the stack alone.
LEMMA Untraced ==
  ASSUME TraceInv, UNCHANGED traceVars
  PROVE  TraceInv'
  BY DEF TraceInv, TraceOK, OpenSpans, SpansTellResult, CallStack, OpenTrace,
         FailuresReachTheRoot, Top, traceVars

\* The spans leave the queue.
LEMMA ExportedInv ==
  ASSUME TraceInv, batch' = <<>>, UNCHANGED <<stack, provider, passes>>
  PROVE  TraceInv'
<1>1. TraceOK'
  BY TraceAssumption DEF TraceInv, TraceOK
<1> QED
  BY <1>1 DEF TraceInv, OpenSpans, SpansTellResult, CallStack, OpenTrace, FailuresReachTheRoot

\* No step of the process breaks what holds of the spans.
LEMMA TraceStep ==
  ASSUME TraceInv, [Next]_vars
  PROVE  TraceInv'
<1>1. CASE Work
  <2>1. CASE StartReconcileSpan
    <3>1. "Reconcile" \in Functions /\ passes' \in 0..MaxPasses /\ passes' < passes
      BY <2>1, TraceAssumption
         DEF StartReconcileSpan, Functions, TraceInv, TraceOK
    <3> QED
      BY <2>1, <3>1, PushLemma DEF StartReconcileSpan
  <2> QED
    BY <1>1, <2>1, PassStepInv DEF Work
<1>2. CASE InitProvider
  <2>1. provider' \in {"unset", "noop", "grpc", "http"}
    BY <1>2 DEF InitProvider, initTracerProvider, newExporter, TraceInv, TraceOK
  <2> QED
    BY <1>2, <2>1
       DEF InitProvider, TraceInv, TraceOK, OpenSpans, SpansTellResult, CallStack, OpenTrace,
           FailuresReachTheRoot
<1>3. CASE Export \/ ExportFails
  BY <1>3, ExportedInv DEF Export, ExportFails
<1>4. CASE UNCHANGED traceVars
  BY <1>4, Untraced
<1> QED
  BY <1>1, <1>2, <1>3, <1>4
     DEF Next, vars, NewLogger, SetUp, Start, AcquireLease, StartFails, Signal, SecondSignal,
         Kill, StopDone, GraceExpires, CollectorChanges, Shutdown, ShutdownTimesOut

\* main goes on, or exits with a code.
LEMMA ControlStep ==
  ASSUME ControlOK, phase # "exited",
         \/ \E step \in Phases \ {"exited"} : GoOn(step)
         \/ \E code \in ExitCodes : Exit(code)
  PROVE  ControlOK'
  BY ExitAssumption DEF ControlOK, GoOn, Exit, Phases

\* The steps of the set-up are phases before the manager runs.
LEMMA SetUpPhases ==
  \A i \in DOMAIN SetupSteps :
      /\ SetupSteps[i] \in Phases \ {"exited"}
      /\ i # Len(SetupSteps) => SetupSteps[i + 1] \in Phases \ {"exited"}
<1>1. Len(SetupSteps) = 4 /\ DOMAIN SetupSteps = 1..4
  BY DEF SetupSteps
<1>2. \A i \in 1..4 : SetupSteps[i] \in Phases \ {"exited"}
  BY <1>1 DEF SetupSteps, Phases
<1> QED
  BY <1>1, <1>2

\* Every step keeps the invariant.
LEMMA NextInv ==
  ASSUME ProcessInv, [Next]_vars
  PROVE  ProcessInv'
<1> SUFFICES ControlOK'
  BY TraceStep DEF ProcessInv, TypeOK, TraceInv
<1>1. ControlOK
  BY DEF ProcessInv, TypeOK
<1>2. {"failure", "panic", "killed", "success"} \subseteq ExitCodes
  BY DEF ExitCodes
<1> USE <1>1
<1>3. CASE NewLogger
  BY <1>2, <1>3, ControlStep DEF NewLogger, Phases
<1>4. CASE InitProvider
  <2>1. SetupSteps[1] \in Phases \ {"exited"}
    BY SetUpPhases DEF SetupSteps
  <2> QED
    BY <1>2, <1>4, <2>1, ControlStep DEF InitProvider
<1>5. CASE SetUp
  <2>1. PICK i \in DOMAIN SetupSteps :
          /\ phase = SetupSteps[i]
          /\ \/ GoOn(IF i = Len(SetupSteps) THEN "start" ELSE SetupSteps[i + 1])
             \/ Exit("failure")
    BY <1>5 DEF SetUp
  <2>2. phase # "exited"
    BY <2>1, SetUpPhases
  <2>3. (IF i = Len(SetupSteps) THEN "start" ELSE SetupSteps[i + 1]) \in Phases \ {"exited"}
    BY SetUpPhases DEF Phases
  <2> QED
    BY <1>2, <2>1, <2>2, <2>3, ControlStep
<1>6. CASE Start \/ AcquireLease \/ Signal \/ StopDone
  BY <1>6, ControlStep DEF Start, AcquireLease, Signal, StopDone, Phases
<1>7. CASE StartFails \/ SecondSignal \/ Kill \/ GraceExpires \/ Shutdown \/ ShutdownTimesOut
  BY <1>2, <1>7, ControlStep
     DEF StartFails, SecondSignal, Kill, GraceExpires, Shutdown, ShutdownTimesOut
<1>8. CASE Work \/ Export \/ ExportFails \/ CollectorChanges \/ UNCHANGED vars
  BY <1>8 DEF Work, Export, ExportFails, CollectorChanges, processVars, vars, ControlOK
<1> QED
  BY <1>3, <1>4, <1>5, <1>6, <1>7, <1>8 DEF Next

\* The inductive invariant holds for every configuration, number of passes and pods and
\* size of the queue.
LEMMA ProcessInvariant == Spec => []ProcessInv
<1>1. Init => ProcessInv
  BY InitInv
<1>2. ProcessInv /\ [Next]_vars => ProcessInv'
  BY NextInv
<1> QED
  BY <1>1, <1>2, PTL DEF Spec

\* Spans, frames and exit codes are what OperatorProcess says they are.
THEOREM ProcessTypeCorrect == Spec => []TypeOK
<1>1. ProcessInv => TypeOK
  BY DEF ProcessInv
<1> QED
  BY <1>1, ProcessInvariant, PTL

\* The status of every span that ended is that of the result of its function, whichever
\* of the functions of a pass recorded on it and however often.
THEOREM SpansAreTruthful == Spec => []SpansTellResult
<1>1. ProcessInv => SpansTellResult
  BY DEF ProcessInv, TraceInv
<1> QED
  BY <1>1, ProcessInvariant, PTL

\* Whatever failed in a pass, the root span of its trace says so: reconcileStatus, which
\* runs after a failure of reconcileSpec, does not cover it.
THEOREM FailuresAreTold == Spec => []FailuresReachTheRoot
<1>1. ProcessInv => FailuresReachTheRoot
  BY DEF ProcessInv, TraceInv
<1> QED
  BY <1>1, ProcessInvariant, PTL
=============================================================================
