---------------------------- MODULE GoCallerProofs ----------------------------
(***************************************************************************)
(* Theorems about the Go Caller, for any number of requests, any set of    *)
(* replies, any ReadTimeout and any errors given to Close.                 *)
(***************************************************************************)
EXTENDS GoCaller, SequenceTheorems, TLAPS

-------------------------------------------------------------------------------
\* Types.

Timers == {Off} \cup 0..ReadTimeout

\* A timer that is started, stopped or ticks is a timer.
LEMMA TimerType ==
    /\ NewTimer \in Timers
    /\ Off \in Timers
    /\ \A t \in Timers : t > 0 => t - 1 \in Timers
  BY CallerAssumption DEF NewTimer, Timers, Off

\* Frame n of the reply to r is a frame.
LEMMA FrameType == \A r \in Requests, n \in Nat : Frame(r, n) \in AllFrames
  BY DEF Frame, AllFrames

\* Popping a queue of frames yields a frame and a queue of frames.
LEMMA PopType ==
    ASSUME TypeOK, NEW r \in Requests, Pop(r)
    PROVE  /\ msg' \in [Requests -> AllFrames]
           /\ queue' \in [Requests -> Seq(AllFrames)]
  <1>1. queue[r] \in Seq(AllFrames) /\ queue[r] # <<>>
    BY DEF TypeOK, Pop
  <1>2. Head(queue[r]) \in AllFrames /\ Tail(queue[r]) \in Seq(AllFrames)
    BY <1>1
  <1> QED  BY <1>2 DEF TypeOK, Pop

\* What a consumer reports after a stop is an error of Close or of the stop.
LEMMA StopReasonsType ==
    ASSUME TypeOK, NEW c, NEW e \in StopReasons(c)
    PROVE  e \in Results /\ e \in Endings
  <1>1. e \in {closeErr, CtxErr, ErrReadTimeout}
    BY DEF StopReasons
  <1> QED  BY <1>1 DEF TypeOK, Results, Endings

\* Every step keeps every variable in its domain.
LEMMA TypeStep ==
    ASSUME TypeOK, [Next]_vars
    PROVE  TypeOK'
  <1> USE DEF callerVars, loopVars, requestVars, bodyVars, clockVars, Timers
  <1> USE DEF RequestPlaces, PumpPlaces, Return, Remove, PumpEnds, SetBody
  <1>1. ASSUME NEW r \in Requests, Call(r) PROVE TypeOK'
    <2>1. closeErr \in Results
      BY DEF TypeOK, Results
    <2>2. CASE Return(r, closeErr)
      BY <1>1, <2>1, <2>2 DEF Call, TypeOK
    <2>3. CASE pc' = [pc EXCEPT ![r] = "checked"] /\ UNCHANGED result
      BY <1>1, <2>3 DEF Call, TypeOK
    <2> QED  BY <1>1, <2>2, <2>3 DEF Call
  <1>2. ASSUME NEW r \in Requests, Register(r) PROVE TypeOK'
    BY <1>2 DEF Register, TypeOK
  <1>3. ASSUME NEW r \in Requests, Transmit(r) PROVE TypeOK'
    <2>1. script' \in [Requests -> Seq(Reply)]
      BY <1>3, CallerAssumption DEF Transmit, TypeOK
    <2>2. quiet' \in [Requests -> 0..ReadTimeout]
      BY <1>3, CallerAssumption DEF Transmit, TypeOK
    <2> QED  BY <1>3, <2>1, <2>2 DEF Transmit, TypeOK
  <1>4. ASSUME NEW r \in Requests, SendReturns(r) PROVE TypeOK'
    BY <1>4, TimerType DEF SendReturns, TypeOK
  <1>5. ASSUME NEW r \in Requests, SendFails(r) PROVE TypeOK'
    BY <1>5 DEF SendFails, TypeOK, Results
  <1>6. ASSUME NEW r \in Requests, FirstFrameEnds(r) PROVE TypeOK'
    <2>1. result' \in [Requests -> Results]
      BY <1>6 DEF FirstFrameEnds, TypeOK, Results
    <2>2. Pop(r)
      BY <1>6 DEF FirstFrameEnds
    <2> QED  BY <1>6, <2>1, <2>2, TimerType, PopType DEF FirstFrameEnds, TypeOK
  <1>7. ASSUME NEW r \in Requests, FirstFrameStarts(r) PROVE TypeOK'
    <2>1. Pop(r)
      BY <1>7 DEF FirstFrameStarts
    <2> QED  BY <1>7, <2>1, TimerType, PopType DEF FirstFrameStarts, TypeOK, Results
  <1>8. ASSUME NEW r \in Requests, RequestStops(r) PROVE TypeOK'
    BY <1>8 DEF RequestStops, TypeOK
  <1>9. ASSUME NEW r \in Requests, RequestGivesUp(r) PROVE TypeOK'
    <2>1. PICK e \in StopReasons(r \in ctxDone) : Return(r, e)
      BY <1>9 DEF RequestGivesUp
    <2>2. e \in Results
      BY StopReasonsType
    <2> QED  BY <1>9, <2>1, <2>2, TimerType DEF RequestGivesUp, TypeOK
  <1>10. ASSUME NEW r \in Requests, PumpStarts(r) PROVE TypeOK'
    BY <1>10, TimerType DEF PumpStarts, TypeOK
  <1>11. ASSUME NEW r \in Requests, PumpTakes(r) PROVE TypeOK'
    <2>1. Pop(r)
      BY <1>11 DEF PumpTakes
    <2>2. ended' \in [Requests -> Endings] /\ pump' \in [Requests -> PumpPlaces]
      BY <1>11 DEF PumpTakes, PumpSwitch, TypeOK, Endings
    <2>3. UNCHANGED <<callerVars, pending, hold, arrived, requestVars, body, got, quiet, ctxDone>>
      BY <1>11 DEF PumpTakes
    <2>4. timer' \in [Requests -> Timers]
      BY <1>11, TimerType DEF PumpTakes, ResetTimer, TypeOK, Timers
    <2> QED  BY <2>1, <2>2, <2>3, <2>4, PopType DEF TypeOK, Timers
  <1>12. ASSUME NEW r \in Requests, WriteFails(r) PROVE TypeOK'
    BY <1>12 DEF WriteFails, TypeOK
  <1>13. ASSUME NEW r \in Requests, PumpStops(r) PROVE TypeOK'
    BY <1>13 DEF PumpStops, TypeOK
  <1>14. ASSUME NEW r \in Requests, PumpGivesUp(r) PROVE TypeOK'
    BY <1>14, StopReasonsType DEF PumpGivesUp, TypeOK
  <1>15. ASSUME NEW r \in Requests, PumpReturns(r) PROVE TypeOK'
    BY <1>15, TimerType DEF PumpReturns, TypeOK
  <1>16. ASSUME NEW r \in Requests, Read(r) PROVE TypeOK'
    <2>1. got' \in [Requests -> Seq(AllFrames)]
      BY <1>16 DEF Read, TypeOK
    <2> QED  BY <1>16, <2>1 DEF Read, TypeOK
  <1>17. ASSUME NEW r \in Requests, BodyStep(r) PROVE TypeOK'
    BY <1>17 DEF BodyStep, CloseBody, DropBody, Finalize, ClosePipe, TypeOK
  <1>18. ASSUME NEW r \in Requests, Cancel(r) PROVE TypeOK'
    BY <1>18 DEF Cancel, TypeOK
  <1>19. ASSUME NEW r \in Requests, LookUp(r) PROVE TypeOK'
    <2>1. arrived[r] \in Nat /\ arrived[r] + 1 \in Nat
      BY DEF TypeOK
    <2>2. Frame(r, arrived[r] + 1) \in AllFrames
      BY <2>1, FrameType
    <2> QED  BY <1>19, <2>1, <2>2 DEF LookUp, TypeOK
  <1>20. CASE Push
    <2>1. hold \in AllFrames /\ hold.id \in Requests
      BY <1>20 DEF Push, TypeOK, AllFrames
    <2>2. queue' \in [Requests -> Seq(AllFrames)]
      BY <1>20, <2>1 DEF Push, TypeOK
    <2>3. quiet' \in [Requests -> 0..ReadTimeout]
      BY <1>20, <2>1, CallerAssumption DEF Push, TypeOK
    <2> QED  BY <1>20, <2>2, <2>3 DEF Push, TypeOK
  <1>21. CASE Tick
    <2>1. timer' \in [Requests -> Timers]
      BY <1>21, TimerType DEF Tick, TypeOK
    <2>2. quiet' \in [Requests -> 0..ReadTimeout]
      BY <1>21, CallerAssumption DEF Tick, TypeOK
    <2> QED  BY <1>21, <2>1, <2>2 DEF Tick, TypeOK
  <1>22. CASE CloseDone
    BY <1>22 DEF CloseDone, TypeOK
  <1>23. ASSUME NEW e \in CloseArgs, CloseSets(e) PROVE TypeOK'
    BY <1>23 DEF CloseSets, CloseErrors, TypeOK
  <1>24. CASE UNCHANGED vars
    BY <1>24 DEF vars, TypeOK
  <1> QED
    BY <1>1, <1>2, <1>3, <1>4, <1>5, <1>6, <1>7, <1>8, <1>9, <1>10, <1>11, <1>12, <1>13,
       <1>14, <1>15, <1>16, <1>17, <1>18, <1>19, <1>20, <1>21, <1>22, <1>23, <1>24
    DEF Next, RequestStep, PumpStep

\* The Caller's variables stay in their domains, and each queue holds frames.
THEOREM TypeCorrect == SafeSpec => []TypeOK
  <1>1. Init => TypeOK
    BY FrameType, EmptySeq, CallerAssumption
    DEF Init, TypeOK, RequestPlaces, PumpPlaces, Results, Endings, Off
  <1> QED  BY <1>1, TypeStep, PTL DEF SafeSpec

-------------------------------------------------------------------------------
\* Pending slots.

\* The pump only runs once Request has returned: they never wait on the same
\* queue, and never both remove the slot.
Handover == \A r \in Requests : pump[r] # "none" => pc[r] = "returned"

SlotInv == TypeOK /\ Handover /\ SlotIffConsumer

\* SlotInv is preserved by every step.
LEMMA SlotStep ==
    ASSUME SlotInv, [Next]_vars
    PROVE  Handover' /\ SlotIffConsumer'
  <1> SUFFICES ASSUME NEW s \in Requests
               PROVE  /\ pump'[s] # "none" => pc'[s] = "returned"
                      /\ s \in pending' <=> HasConsumer(s)'
    BY DEF Handover, SlotIffConsumer
  <1> DEFINE Goal == /\ pump'[s] # "none" => pc'[s] = "returned"
                     /\ s \in pending' <=> HasConsumer(s)'
  <1> USE DEF SlotInv, TypeOK, Handover, SlotIffConsumer, HasConsumer
  <1> USE DEF callerVars, loopVars, requestVars, bodyVars, Return, Remove, PumpEnds, SetBody
  <1>1. ASSUME NEW r \in Requests, Call(r) PROVE Goal
    BY <1>1 DEF Call
  <1>2. ASSUME NEW r \in Requests, RequestStep(r) PROVE Goal
    <2>1. CASE Register(r)
      BY <2>1 DEF Register
    <2>2. CASE Transmit(r)
      BY <2>2 DEF Transmit
    <2>3. CASE SendReturns(r)
      BY <2>3 DEF SendReturns
    <2>4. CASE SendFails(r)
      BY <2>4 DEF SendFails
    <2>5. CASE FirstFrameEnds(r)
      BY <2>5 DEF FirstFrameEnds
    <2>6. CASE FirstFrameStarts(r)
      BY <2>6 DEF FirstFrameStarts
    <2>7. CASE RequestStops(r)
      BY <2>7 DEF RequestStops
    <2>8. CASE RequestGivesUp(r)
      BY <2>8 DEF RequestGivesUp
    <2> QED  BY <1>2, <2>1, <2>2, <2>3, <2>4, <2>5, <2>6, <2>7, <2>8 DEF RequestStep
  <1>3. ASSUME NEW r \in Requests, PumpStep(r) PROVE Goal
    <2>1. CASE PumpStarts(r)
      BY <2>1 DEF PumpStarts
    <2>2. CASE PumpTakes(r)
      BY <2>2 DEF PumpTakes, PumpSwitch
    <2>3. CASE WriteFails(r)
      BY <2>3 DEF WriteFails
    <2>4. CASE PumpStops(r)
      BY <2>4 DEF PumpStops
    <2>5. CASE PumpGivesUp(r)
      BY <2>5 DEF PumpGivesUp
    <2>6. CASE PumpReturns(r)
      BY <2>6 DEF PumpReturns
    <2> QED  BY <1>3, <2>1, <2>2, <2>3, <2>4, <2>5, <2>6 DEF PumpStep
  <1>4. ASSUME NEW r \in Requests, Read(r) PROVE Goal
    BY <1>4 DEF Read
  <1>5. ASSUME NEW r \in Requests, BodyStep(r) \/ Cancel(r) \/ LookUp(r) PROVE Goal
    BY <1>5 DEF BodyStep, CloseBody, DropBody, Finalize, ClosePipe, Cancel, LookUp
  <1>6. CASE Push \/ Tick \/ CloseDone \/ \E e \in CloseArgs : CloseSets(e)
    BY <1>6 DEF Push, Tick, CloseDone, CloseSets
  <1>7. CASE UNCHANGED vars
    BY <1>7 DEF vars
  <1> QED  BY <1>1, <1>2, <1>3, <1>4, <1>5, <1>6, <1>7 DEF Next

\* A request holds a pending slot exactly as long as a goroutine of its own is
\* there to take its frames or to remove the slot: no order of answers, send
\* failures, timeouts, cancellations and Close leaks it or removes it early.
THEOREM SlotsHaveConsumers == SafeSpec => []SlotIffConsumer
  <1>1. Init => Handover /\ SlotIffConsumer
    BY DEF Init, Handover, SlotIffConsumer, HasConsumer
  <1>2. TypeOK /\ TypeOK' /\ Handover /\ SlotIffConsumer /\ [Next]_vars
        => Handover' /\ SlotIffConsumer'
    BY SlotStep DEF SlotInv
  <1> QED  BY <1>1, <1>2, TypeCorrect, PTL DEF SafeSpec

-------------------------------------------------------------------------------
\* The way of a frame: transport, read loop, queue, consumer.

\* Frames of r that the read loop has looked up and not yet pushed.
Held(r) == IF hold.id = r THEN 1 ELSE 0

\* The frames of r that are received and not yet taken continue, without a
\* hole, the ones that its consumer has taken; and as long as r has a slot they
\* are in its queue or in the hand of the read loop.  Before Request returns
\* the consumer has taken nothing, and nothing is sent before Transmit.
FlowOK(r) ==
    /\ msg[r] = Frame(r, msg[r].n)
    /\ \A i \in 1..Len(queue[r]) : queue[r][i] = Frame(r, msg[r].n + i)
    /\ hold.id = r => hold = Frame(r, arrived[r])
    /\ msg[r].n + Len(queue[r]) + Held(r) <= arrived[r]
    /\ r \in pending \/ hold.id = r => msg[r].n + Len(queue[r]) + Held(r) = arrived[r]
    /\ arrived[r] <= Len(script[r])
    /\ pc[r] # "returned" => msg[r].n = 0
    /\ pc[r] \in {"idle", "checked", "registered"} => script[r] = <<>>

Flow == \A r \in Requests : FlowOK(r)

FlowInv == SlotInv /\ Flow

\* A consumer takes the frame that follows the last one, and the rest of the
\* queue follows that.
LEMMA PopFlow ==
    ASSUME TypeOK, NEW r \in Requests, FlowOK(r), Pop(r)
    PROVE  /\ msg'[r] = Frame(r, msg[r].n + 1)
           /\ Head(queue[r]) = msg'[r]
           /\ msg'[r].n = msg[r].n + 1
           /\ Len(queue'[r]) = Len(queue[r]) - 1
           /\ \A i \in 1..Len(queue'[r]) : queue'[r][i] = Frame(r, msg'[r].n + i)
           /\ msg'[r].n \in 1..Len(script[r])
           /\ \A s \in Requests \ {r} : msg'[s] = msg[s] /\ queue'[s] = queue[s]
  <1>1. queue[r] \in Seq(AllFrames) /\ queue[r] # <<>> /\ msg[r].n \in Nat
    BY DEF TypeOK, Pop, AllFrames
  <1>2. Len(queue[r]) \in Nat \ {0} /\ Head(queue[r]) = queue[r][1]
    BY <1>1, EmptySeq
  <1>3. Head(queue[r]) = Frame(r, msg[r].n + 1)
    BY <1>1, <1>2 DEF FlowOK
  <1>4. msg'[r] = Head(queue[r]) /\ queue'[r] = Tail(queue[r])
    BY DEF Pop, TypeOK
  <1>5. msg'[r].n = msg[r].n + 1
    BY <1>3, <1>4 DEF Frame
  <1>6. /\ Len(queue'[r]) = Len(queue[r]) - 1
        /\ \A i \in 1..Len(queue'[r]) : queue'[r][i] = queue[r][i + 1]
    BY <1>1, <1>2, <1>4
  <1>7. ASSUME NEW i \in 1..Len(queue'[r]) PROVE queue'[r][i] = Frame(r, msg'[r].n + i)
    <2>1. i + 1 \in 1..Len(queue[r])
      BY <1>2, <1>6
    <2>2. queue[r][i + 1] = Frame(r, msg[r].n + (i + 1))
      BY <2>1 DEF FlowOK
    <2>3. msg[r].n + (i + 1) = msg'[r].n + i
      BY <1>1, <1>5
    <2> QED  BY <1>6, <2>2, <2>3
  <1>8. msg'[r].n \in 1..Len(script[r])
    <2>1. arrived[r] \in Nat /\ Len(script[r]) \in Nat /\ Held(r) \in Nat
      BY DEF TypeOK, Held
    <2>2. msg[r].n + Len(queue[r]) + Held(r) <= arrived[r] /\ arrived[r] <= Len(script[r])
      BY DEF FlowOK
    <2> QED  BY <1>1, <1>2, <1>5, <2>1, <2>2
  <1>9. \A s \in Requests \ {r} : msg'[s] = msg[s] /\ queue'[s] = queue[s]
    BY DEF Pop, TypeOK
  <1> QED  BY <1>3, <1>4, <1>5, <1>6, <1>7, <1>8, <1>9

\* A step that leaves alone the frames on their way, takes no request back
\* before its return and adds no pending slot keeps the flow.
LEMMA StillFlow ==
    ASSUME Flow, UNCHANGED <<msg, queue, hold, arrived, script>>, pending' \subseteq pending,
           \A s \in Requests : \/ pc'[s] = "returned"
                               \/ pc[s] # "returned" /\ pc'[s] \notin {"idle", "checked", "registered"}
                               \/ pc[s] \in {"idle", "checked", "registered"}
    PROVE  Flow'
  BY DEF Flow, FlowOK, Held

\* So does a step in which a consumer takes a frame.
LEMMA PopKeepsFlow ==
    ASSUME TypeOK, Flow, NEW r \in Requests, Pop(r), UNCHANGED <<hold, arrived, script>>,
           pending' \subseteq pending, pc'[r] = "returned",
           \A s \in Requests \ {r} : pc'[s] = pc[s]
    PROVE  Flow'
  <1> SUFFICES ASSUME NEW s \in Requests PROVE FlowOK(s)'
    BY DEF Flow
  <1>1. CASE s # r
    <2>1. msg'[s] = msg[s] /\ queue'[s] = queue[s]
      BY <1>1, PopFlow DEF Flow
    <2> QED  BY <1>1, <2>1 DEF Flow, FlowOK, Held
  <1>2. CASE s = r
    <2>1. /\ msg'[r] = Frame(r, msg'[r].n) /\ msg'[r].n = msg[r].n + 1
          /\ Len(queue'[r]) = Len(queue[r]) - 1
          /\ \A i \in 1..Len(queue'[r]) : queue'[r][i] = Frame(r, msg'[r].n + i)
      BY PopFlow DEF Flow
    <2>2. /\ msg[r].n \in Nat /\ Len(queue[r]) \in Nat /\ Held(r) \in Nat /\ Held(r)' = Held(r)
          /\ arrived[r] \in Nat
      BY DEF TypeOK, AllFrames, Held
    <2>3. msg'[r].n + Len(queue'[r]) + Held(r)' = msg[r].n + Len(queue[r]) + Held(r)
      <3>1. msg'[r].n = msg[r].n + 1 /\ Len(queue'[r]) = Len(queue[r]) - 1
        BY <2>1
      <3>2. (msg[r].n + 1) + (Len(queue[r]) - 1) = msg[r].n + Len(queue[r])
        BY <2>2
      <3> QED  BY <2>2, <3>1, <3>2
    <2> QED  BY <1>2, <2>1, <2>3 DEF Flow, FlowOK
  <1> QED  BY <1>1, <1>2

\* A frame is looked up only for a request with a slot, after the ones before.
LEMMA LookUpKeepsFlow ==
    ASSUME FlowInv, NEW r \in Requests, LookUp(r)
    PROVE  Flow'
  <1> USE DEF FlowInv, SlotInv, LookUp, loopVars, requestVars
  <1> SUFFICES ASSUME NEW s \in Requests PROVE FlowOK(s)'
    BY DEF Flow
  <1>1. hold.id # s /\ Held(s) = 0
    BY CallerAssumption DEF NoFrame, Frame, Held
  <1>2. CASE s # r
    <2>1. arrived'[s] = arrived[s] /\ hold'.id # s
      BY <1>2, CallerAssumption DEF NoFrame, Frame, TypeOK
    <2> QED  BY <1>1, <1>2, <2>1 DEF Flow, FlowOK, Held
  <1>3. CASE s = r
    <2>1. arrived'[r] = arrived[r] + 1 /\ arrived[r] \in Nat /\ Len(script[r]) \in Nat
      BY DEF TypeOK
    <2>2. msg[r].n \in Nat /\ Len(queue[r]) \in Nat
      BY DEF TypeOK, AllFrames
    <2>3. CASE r \in pending
      <3>1. hold' = Frame(r, arrived'[r]) /\ Held(r)' = 1
        BY <2>1, <2>3 DEF Frame, Held
      <3>2. msg[r].n + Len(queue[r]) + 0 = arrived[r]
        BY <1>1, <1>3, <2>3 DEF Flow, FlowOK
      <3>3. arrived[r] + 1 <= Len(script[r])
        BY <2>1
      <3> QED  BY <1>3, <2>1, <2>2, <3>1, <3>2, <3>3 DEF Flow, FlowOK
    <2>4. CASE r \notin pending
      <3>1. hold'.id # r /\ Held(r)' = 0
        BY <2>4, CallerAssumption DEF NoFrame, Frame, Held
      <3>2. msg[r].n + Len(queue[r]) + 0 <= arrived[r]
        BY <1>1, <1>3 DEF Flow, FlowOK
      <3>3. arrived[r] + 1 <= Len(script[r])
        BY <2>1
      <3> QED  BY <1>3, <2>1, <2>2, <2>4, <3>1, <3>2, <3>3 DEF Flow, FlowOK
    <2> QED  BY <2>3, <2>4
  <1> QED  BY <1>2, <1>3

\* The frame that is pushed follows the last one in the queue, even when the
\* slot was removed after the look-up.
LEMMA PushKeepsFlow ==
    ASSUME FlowInv, Push
    PROVE  Flow'
  <1> USE DEF FlowInv, SlotInv, Push, requestVars
  <1> SUFFICES ASSUME NEW s \in Requests PROVE FlowOK(s)'
    BY DEF Flow
  <1>1. hold'.id # s /\ Held(s)' = 0
    BY CallerAssumption DEF NoFrame, Frame, Held
  <1>2. hold.id \in Requests
    BY DEF TypeOK, AllFrames
  <1>3. CASE s # hold.id
    <2>1. queue'[s] = queue[s]
      BY <1>3 DEF TypeOK
    <2> QED  BY <1>1, <1>3, <2>1 DEF Flow, FlowOK, Held
  <1>4. CASE s = hold.id
    <2>1. queue[s] \in Seq(AllFrames) /\ hold \in AllFrames /\ queue'[s] = Append(queue[s], hold)
      BY <1>4, <1>2 DEF TypeOK
    <2>2. /\ msg[s].n \in Nat /\ Len(queue[s]) \in Nat /\ arrived[s] \in Nat
          /\ Len(queue'[s]) = Len(queue[s]) + 1
      BY <2>1 DEF TypeOK, AllFrames
    <2>3. hold = Frame(s, arrived[s]) /\ msg[s].n + Len(queue[s]) + 1 = arrived[s]
      BY <1>4, <2>2 DEF Flow, FlowOK, Held
    <2>4. ASSUME NEW i \in 1..Len(queue'[s]) PROVE queue'[s][i] = Frame(s, msg[s].n + i)
      <3>1. CASE i = Len(queue[s]) + 1
        <4>1. queue'[s][i] = hold
          BY <2>1, <3>1
        <4>2. msg[s].n + (Len(queue[s]) + 1) = arrived[s]
          BY <2>2, <2>3
        <4>3. arrived[s] = msg[s].n + i
          BY <3>1, <4>2
        <4> QED  BY <2>3, <4>1, <4>3
      <3>2. CASE i \in 1..Len(queue[s])
        BY <2>1, <3>2 DEF Flow, FlowOK
      <3> QED  BY <2>2, <3>1, <3>2
    <2>5. msg[s].n + Len(queue'[s]) + Held(s)' = arrived[s]
      BY <1>1, <2>2, <2>3
    <2>6. arrived[s] <= arrived[s]
      BY <2>2
    <2> QED  BY <1>1, <2>4, <2>5, <2>6 DEF Flow, FlowOK
  <1> QED  BY <1>3, <1>4

\* Sending a request gives its peer a reply to deliver.
LEMMA TransmitKeepsFlow ==
    ASSUME FlowInv, NEW r \in Requests, Transmit(r)
    PROVE  Flow'
  <1> USE DEF FlowInv, SlotInv, Transmit, loopVars
  <1> SUFFICES ASSUME NEW s \in Requests PROVE FlowOK(s)'
    BY DEF Flow
  <1>1. CASE s # r
    <2>1. script'[s] = script[s] /\ pc'[s] = pc[s]
      BY <1>1 DEF TypeOK
    <2> QED  BY <1>1, <2>1 DEF Flow, FlowOK, Held
  <1>2. CASE s = r
    <2>1. script[r] = <<>> /\ arrived[r] <= Len(script[r]) /\ arrived[r] \in Nat
      BY DEF Flow, FlowOK, TypeOK
    <2>2. arrived[r] = 0
      BY <2>1, EmptySeq
    <2>3. script'[r] \in Seq(Reply)
      BY CallerAssumption DEF TypeOK
    <2>4. arrived'[r] <= Len(script'[r])
      BY <2>2, <2>3
    <2>5. pc'[r] = "sending"
      BY DEF TypeOK
    <2> QED  BY <1>2, <2>4, <2>5 DEF Flow, FlowOK, Held
  <1> QED  BY <1>1, <1>2

\* The slot that is registered is empty, like the queue made for it.
LEMMA RegisterKeepsFlow ==
    ASSUME FlowInv, NEW r \in Requests, Register(r)
    PROVE  Flow'
  <1> USE DEF FlowInv, SlotInv, Register
  <1> SUFFICES ASSUME NEW s \in Requests PROVE FlowOK(s)'
    BY DEF Flow
  <1>1. CASE s # r
    <2>1. pc'[s] = pc[s] /\ (s \in pending' <=> s \in pending)
      BY <1>1 DEF TypeOK
    <2> QED  BY <1>1, <2>1 DEF Flow, FlowOK, Held, requestVars
  <1>2. CASE s = r
    <2>1. /\ msg[r].n \in Nat /\ Len(queue[r]) \in Nat /\ Held(r) \in Nat /\ arrived[r] \in Nat
          /\ script[r] = <<>> /\ arrived[r] <= Len(script[r])
          /\ msg[r].n + Len(queue[r]) + Held(r) <= arrived[r]
      BY DEF Flow, FlowOK, TypeOK, AllFrames, Held
    <2>2. msg[r].n + Len(queue[r]) + Held(r) = arrived[r]
      BY <2>1, EmptySeq
    <2>3. pc'[r] = "registered"
      BY DEF TypeOK
    <2> QED  BY <1>2, <2>2, <2>3 DEF Flow, FlowOK, Held, requestVars
  <1> QED  BY <1>1, <1>2

\* Every step keeps the flow of every request.
LEMMA FlowStep ==
    ASSUME FlowInv, [Next]_vars
    PROVE  Flow'
  <1> USE DEF FlowInv, SlotInv, loopVars, requestVars, Return, Remove
  <1>1. ASSUME NEW r \in Requests, Register(r) \/ Transmit(r) \/ LookUp(r) PROVE Flow'
    BY <1>1, RegisterKeepsFlow, TransmitKeepsFlow, LookUpKeepsFlow
  <1>2. CASE Push
    BY <1>2, PushKeepsFlow
  <1>3. ASSUME NEW r \in Requests, FirstFrameEnds(r) PROVE Flow'
    BY <1>3, PopKeepsFlow DEF FirstFrameEnds, TypeOK
  <1>4. ASSUME NEW r \in Requests, FirstFrameStarts(r) PROVE Flow'
    BY <1>4, PopKeepsFlow DEF FirstFrameStarts, TypeOK
  <1>5. ASSUME NEW r \in Requests, PumpTakes(r) PROVE Flow'
    <2>1. pc[r] = "returned"
      BY <1>5 DEF PumpTakes, Handover
    <2> QED  BY <1>5, <2>1, PopKeepsFlow DEF PumpTakes
  <1>6. ASSUME NEW r \in Requests,
               \/ Call(r) \/ SendReturns(r) \/ SendFails(r) \/ RequestStops(r) \/ RequestGivesUp(r)
        PROVE  Flow'
    BY <1>6, StillFlow
    DEF Call, SendReturns, SendFails, RequestStops, RequestGivesUp, TypeOK
  <1>7. ASSUME NEW r \in Requests,
               \/ PumpStarts(r) \/ WriteFails(r) \/ PumpStops(r) \/ PumpGivesUp(r)
               \/ PumpReturns(r) \/ Read(r) \/ BodyStep(r) \/ Cancel(r)
        PROVE  Flow'
    BY <1>7, StillFlow
    DEF PumpStarts, WriteFails, PumpStops, PumpGivesUp, PumpReturns, Read, Cancel,
        BodyStep, SetBody, CloseBody, DropBody, Finalize, ClosePipe
  <1>8. CASE Tick \/ CloseDone \/ (\E e \in CloseArgs : CloseSets(e)) \/ UNCHANGED vars
    BY <1>8, StillFlow DEF Tick, CloseDone, CloseSets, vars
  <1> QED
    BY <1>1, <1>2, <1>3, <1>4, <1>5, <1>6, <1>7, <1>8 DEF Next, RequestStep, PumpStep

\* A Caller starts with nothing on its way, and every step keeps FlowInv.
LEMMA FlowInit == Init => FlowInv
  <1>1. Init => TypeOK
    BY FrameType, EmptySeq, CallerAssumption
    DEF Init, TypeOK, RequestPlaces, PumpPlaces, Results, Endings, Off
  <1>2. Init => Handover /\ SlotIffConsumer
    BY DEF Init, Handover, SlotIffConsumer, HasConsumer
  <1>3. Init => Flow
    <2> SUFFICES ASSUME Init, NEW r \in Requests PROVE FlowOK(r)
      BY DEF Flow
    <2>1. msg[r] = Frame(r, 0) /\ msg[r].n = 0
      BY DEF Init, Frame
    <2>2. queue[r] = <<>> /\ script[r] = <<>> /\ arrived[r] = 0 /\ pending = {}
      BY DEF Init
    <2>3. hold.id # r /\ Held(r) = 0
      BY CallerAssumption DEF Init, NoFrame, Frame, Held
    <2> QED  BY <2>1, <2>2, <2>3, EmptySeq DEF FlowOK
  <1> QED  BY <1>1, <1>2, <1>3 DEF FlowInv, SlotInv

LEMMA FlowKept == FlowInv /\ [Next]_vars => FlowInv'
  BY TypeStep, SlotStep, FlowStep DEF FlowInv, SlotInv

\* FlowInv is an invariant.
LEMMA FlowCorrect == SafeSpec => []FlowInv
  BY FlowInit, FlowKept, PTL DEF SafeSpec

\* A consumer stops only when wait() reports it.
LEMMA StopsWhenMust ==
    ASSUME TypeOK, [Next]_vars, NEW r \in Requests
    PROVE  /\ pc[r] = "waiting" /\ pc'[r] = "stopping" => MustStop(r, r \in ctxDone)
           /\ pump[r] = "waiting" /\ pump'[r] = "stopping" => MustStop(r, PumpCtxDone(r))
  <1> DEFINE Goal == /\ pc[r] = "waiting" /\ pc'[r] = "stopping" => MustStop(r, r \in ctxDone)
                     /\ pump[r] = "waiting" /\ pump'[r] = "stopping" => MustStop(r, PumpCtxDone(r))
  <1> USE DEF TypeOK, callerVars, loopVars, requestVars, bodyVars, Return, PumpEnds, SetBody
  <1>1. ASSUME NEW s \in Requests, Call(s) PROVE Goal
    BY <1>1 DEF Call
  <1>2. ASSUME NEW s \in Requests, RequestStep(s) PROVE Goal
    BY <1>2 DEF RequestStep, Register, Transmit, SendReturns, SendFails, FirstFrameEnds,
               FirstFrameStarts, RequestStops, RequestGivesUp
  <1>3. ASSUME NEW s \in Requests, PumpStep(s) PROVE Goal
    BY <1>3 DEF PumpStep, PumpStarts, PumpTakes, PumpSwitch, WriteFails, PumpStops, PumpGivesUp,
               PumpReturns
  <1>4. ASSUME NEW s \in Requests, Read(s) \/ BodyStep(s) \/ Cancel(s) \/ LookUp(s)
        PROVE  Goal
    BY <1>4 DEF Read, BodyStep, CloseBody, DropBody, Finalize, ClosePipe, Cancel, LookUp
  <1>5. CASE Push \/ Tick \/ CloseDone \/ (\E e \in CloseArgs : CloseSets(e)) \/ UNCHANGED vars
    BY <1>5 DEF Push, Tick, CloseDone, CloseSets, vars
  <1> QED  BY <1>1, <1>2, <1>3, <1>4, <1>5 DEF Next

\* A consumer that stops, for whatever reason, has taken every frame that was
\* received for it and pushed: Close, a cancelled context or an expired timer
\* never overtake a frame.
THEOREM FramesAreNotOvertaken == SafeSpec => FramesOutrunStops
  <1> DEFINE Stops(r) == \/ pc[r] = "waiting" /\ pc'[r] = "stopping"
                         \/ pump[r] = "waiting" /\ pump'[r] = "stopping"
             Taken(r) == arrived[r] = IF hold.id = r THEN msg[r].n + 1 ELSE msg[r].n
  <1>1. ASSUME FlowInv, [Next]_vars, NEW r \in Requests, Stops(r)
        PROVE  Taken(r)
    <2>1. queue[r] = <<>> /\ Len(queue[r]) = 0
      BY <1>1, StopsWhenMust, EmptySeq DEF FlowInv, SlotInv, MustStop
    <2>2. r \in pending
      BY <1>1 DEF FlowInv, SlotInv, SlotIffConsumer, HasConsumer
    <2>3. msg[r].n + 0 + Held(r) = arrived[r]
      BY <1>1, <2>1, <2>2 DEF FlowInv, Flow, FlowOK
    <2>4. msg[r].n \in Nat
      BY <1>1 DEF FlowInv, SlotInv, TypeOK, AllFrames
    <2> QED  BY <2>3, <2>4 DEF Held
  <1>2. FlowInv /\ [Next]_vars => [\A r \in Requests : Stops(r) => Taken(r)]_vars
    BY <1>1
  <1> QED  BY <1>2, FlowCorrect, PTL DEF SafeSpec, FramesOutrunStops

-------------------------------------------------------------------------------
\* Timeouts.

\* A running timer and the silence since the last frame add up to ReadTimeout,
\* unless a frame waits; before Request sends, no timer runs.
TimedOK(r) ==
    /\ timer[r] = Off \/ queue[r] # <<>> \/ timer[r] + quiet[r] >= ReadTimeout
    /\ pc[r] \in {"idle", "checked", "registered"} => timer[r] = Off

Timed == \A r \in Requests : TimedOK(r)

\* A timer that is created is in time.
LEMMA NewTimerInTime ==
    ASSUME NEW q \in 0..ReadTimeout
    PROVE  NewTimer = Off \/ NewTimer + q >= ReadTimeout
  BY CallerAssumption DEF NewTimer, Off

\* A request whose timer is not touched, and whose queue is not emptied, ...
LEMMA SameTime ==
    ASSUME NEW s \in Requests, TimedOK(s), timer'[s] = timer[s], quiet'[s] = quiet[s],
           queue'[s] = queue[s],
           pc'[s] \in {"idle", "checked", "registered"} => pc[s] \in {"idle", "checked", "registered"}
    PROVE  TimedOK(s)'
  BY DEF TimedOK

\* ... one whose timer is stopped, and one whose timer is started, stay in time.
LEMMA ResetTime ==
    ASSUME TypeOK, NEW s \in Requests, quiet'[s] = quiet[s],
           \/ timer'[s] = Off
           \/ timer'[s] = NewTimer /\ pc'[s] \notin {"idle", "checked", "registered"}
    PROVE  TimedOK(s)'
  <1>1. quiet[s] \in 0..ReadTimeout
    BY DEF TypeOK
  <1> QED  BY <1>1, NewTimerInTime DEF TimedOK

\* Every step keeps every timer in time.
LEMMA TimedStep ==
    ASSUME TypeOK, Handover, Timed, [Next]_vars
    PROVE  Timed'
  <1> SUFFICES ASSUME NEW s \in Requests PROVE TimedOK(s)'
    BY DEF Timed
  <1> USE DEF callerVars, loopVars, requestVars, bodyVars, clockVars, Return, Remove, PumpEnds, SetBody
  <1> DEFINE Early == {"idle", "checked", "registered"}
  <1>1. TimedOK(s) /\ TypeOK /\ Handover
    BY DEF Timed
  <1>2. ASSUME NEW r \in Requests, r # s, RequestStep(r) \/ PumpStep(r) PROVE TimedOK(s)'
    <2>1. timer'[s] = timer[s] /\ quiet'[s] = quiet[s] /\ queue'[s] = queue[s] /\ pc'[s] = pc[s]
      BY <1>1, <1>2
      DEF TypeOK, RequestStep, Register, Transmit, SendReturns, SendFails, FirstFrameEnds,
          FirstFrameStarts, RequestStops, RequestGivesUp, PumpStep, PumpStarts, PumpTakes,
          ResetTimer, WriteFails, PumpStops, PumpGivesUp, PumpReturns, Pop
    <2> QED  BY <1>1, <2>1, SameTime
  <1>3. CASE Register(s) \/ SendFails(s) \/ RequestStops(s)
    <2>1. /\ timer' = timer /\ quiet' = quiet /\ queue' = queue
          /\ pc'[s] \in Early => pc[s] \in Early
      BY <1>1, <1>3 DEF Register, SendFails, RequestStops, TypeOK
    <2> QED  BY <1>1, <2>1, SameTime
  <1>4. CASE Transmit(s)
    BY <1>1, <1>4 DEF Transmit, TimedOK, TypeOK
  <1>5. CASE SendReturns(s) \/ FirstFrameEnds(s) \/ FirstFrameStarts(s) \/ RequestGivesUp(s)
    <2>1. quiet' = quiet /\ (timer'[s] = Off \/ timer'[s] = NewTimer) /\ pc'[s] \notin Early
      BY <1>1, <1>5 DEF SendReturns, FirstFrameEnds, FirstFrameStarts, RequestGivesUp, TypeOK
    <2> QED  BY <1>1, <2>1, ResetTime
  <1>6. CASE PumpStarts(s) \/ PumpTakes(s) \/ PumpReturns(s)
    <2>1. /\ quiet' = quiet /\ pc' = pc /\ pump[s] # "none"
          /\ timer'[s] = Off \/ timer'[s] = NewTimer
      BY <1>1, <1>6 DEF PumpStarts, PumpTakes, ResetTimer, PumpReturns, TypeOK
    <2>2. pc'[s] = "returned"
      BY <1>1, <2>1 DEF Handover
    <2> QED  BY <1>1, <2>1, <2>2, ResetTime
  <1>7. CASE WriteFails(s) \/ PumpStops(s) \/ PumpGivesUp(s)
    BY <1>1, <1>7, SameTime DEF WriteFails, PumpStops, PumpGivesUp
  <1>8. ASSUME NEW r \in Requests, Call(r) \/ Read(r) \/ BodyStep(r) \/ Cancel(r) \/ LookUp(r)
        PROVE  TimedOK(s)'
    <2>1. /\ timer' = timer /\ quiet' = quiet /\ queue' = queue
          /\ pc'[s] \in Early => pc[s] \in Early
      BY <1>1, <1>8
      DEF Call, Read, BodyStep, CloseBody, DropBody, Finalize, ClosePipe, Cancel, LookUp, TypeOK
    <2> QED  BY <1>1, <2>1, SameTime
  <1>9. CASE Push
    <2>1. CASE hold.id = s
      <3>1. queue[s] \in Seq(AllFrames) /\ hold \in AllFrames \cup {NoFrame} /\ hold # NoFrame
        BY <1>1, <1>9 DEF TypeOK, Push
      <3>2. queue'[s] = Append(queue[s], hold)
        BY <1>9, <2>1, <1>1 DEF Push, TypeOK
      <3>3. queue'[s] # <<>>
        BY <3>1, <3>2
      <3> QED  BY <1>1, <1>9, <3>3 DEF Push, TimedOK
    <2>2. CASE hold.id # s
      <3>1. queue'[s] = queue[s] /\ quiet'[s] = quiet[s] /\ timer' = timer /\ pc' = pc
        BY <1>9, <2>2, <1>1 DEF Push, TypeOK
      <3> QED  BY <1>1, <3>1, SameTime
    <2> QED  BY <2>1, <2>2
  <1>10. CASE Tick
    <2>1. /\ timer[s] \in {Off} \cup 0..ReadTimeout /\ quiet[s] \in 0..ReadTimeout
          /\ ReadTimeout \in Nat
      BY <1>1, CallerAssumption DEF TypeOK
    <2>2. /\ timer'[s] = IF timer[s] > 0 THEN timer[s] - 1 ELSE timer[s]
          /\ quiet'[s] = IF quiet[s] < ReadTimeout THEN quiet[s] + 1 ELSE quiet[s]
          /\ queue' = queue /\ pc' = pc
      BY <1>10 DEF Tick
    <2> QED  BY <1>1, <2>1, <2>2 DEF TimedOK, Off
  <1>11. CASE CloseDone \/ (\E e \in CloseArgs : CloseSets(e)) \/ UNCHANGED vars
    BY <1>1, <1>11, SameTime DEF CloseDone, CloseSets, vars
  <1> QED  BY <1>2, <1>3, <1>4, <1>5, <1>6, <1>7, <1>8, <1>9, <1>10, <1>11
           DEF Next, RequestStep, PumpStep

\* A consumer that stops without a Close and without a cancelled context has
\* heard nothing for a full ReadTimeout, whatever frames came before, and
\* however late they were read.
THEOREM TimeoutsMeanSilence == SafeSpec => TimeoutMeansSilence
  <1> DEFINE TimesOut(r) ==
                 \/ pc[r] = "waiting" /\ pc'[r] = "stopping" /\ ~Closed /\ r \notin ctxDone
                 \/ pump[r] = "waiting" /\ pump'[r] = "stopping" /\ ~Closed /\ ~PumpCtxDone(r)
  <1>1. Init => Timed
    BY DEF Init, Timed, TimedOK
  <1>2. ASSUME TypeOK, Timed, [Next]_vars, NEW r \in Requests, TimesOut(r)
        PROVE  quiet[r] = ReadTimeout
    <2>1. queue[r] = <<>> /\ timer[r] = 0
      BY <1>2, StopsWhenMust DEF MustStop
    <2>2. timer[r] + quiet[r] >= ReadTimeout
      BY <1>2, <2>1 DEF Timed, TimedOK, Off
    <2>3. quiet[r] \in 0..ReadTimeout
      BY <1>2 DEF TypeOK
    <2> QED  BY <2>1, <2>2, <2>3, CallerAssumption
  <1>3. TypeOK /\ Timed /\ [Next]_vars => [\A r \in Requests : TimesOut(r) => quiet[r] = ReadTimeout]_vars
    BY <1>2
  <1>4. SlotInv /\ Timed /\ [Next]_vars => Timed'
    BY TimedStep DEF SlotInv
  <1>5. FlowInv => SlotInv /\ TypeOK
    BY DEF FlowInv, SlotInv
  <1> QED  BY <1>1, <1>3, <1>4, <1>5, FlowCorrect, PTL DEF SafeSpec, TimeoutMeansSilence

-------------------------------------------------------------------------------
\* The error of Close.

\* What Request and the pump report of their own accord.
OwnOutcomes == {None, CtxErr, ErrReadTimeout, EOF, "sendError", "unexpectedType", "decodeError",
                "response", "stream", "remoteError", "malformedError"}

\* Until Close has begun there is no closeErr, from then on it is not nil; and
\* only closeErr is ever reported of the errors that Close may set.  A pump
\* that returned without a word found the body closed by its user.
CloseOK == IF closing = "open" THEN closeErr = None ELSE closeErr \in CloseErrors

AgreedOK(r) ==
    /\ result[r] \in OwnOutcomes \cup {closeErr}
    /\ ended[r] \in OwnOutcomes \cup {closeErr}
    /\ pc[r] = "returned" => result[r] # None
    /\ pump[r] \in {"returning", "done"} /\ ended[r] = None => body[r] = "closed"

Agreed == CloseOK /\ \A r \in Requests : AgreedOK(r)

\* None is not an error that Close sets.
LEMMA CloseErrorsAreErrors == None \notin CloseErrors
  BY CallerAssumption DEF CloseErrors, None, ErrTransportClosed

\* What a stopped consumer reports is an error, its own or that of Close.
LEMMA StopReasonsAgree ==
    ASSUME CloseOK, NEW c, NEW e \in StopReasons(c)
    PROVE  e # None /\ e \in OwnOutcomes \cup {closeErr}
  BY CloseErrorsAreErrors
  DEF StopReasons, CloseOK, Closed, OwnOutcomes, None, CtxErr, ErrReadTimeout

\* A request that is left alone has reported what it had.
LEMMA SameOutcome ==
    ASSUME NEW s \in Requests, AgreedOK(s), result'[s] = result[s], ended'[s] = ended[s],
           closeErr' = closeErr \/ closeErr = None,
           pc'[s] = "returned" => pc[s] = "returned",
           pump'[s] \in {"returning", "done"} => pump[s] \in {"returning", "done"},
           body[s] = "closed" => body'[s] = "closed"
    PROVE  AgreedOK(s)'
  BY DEF AgreedOK, OwnOutcomes

\* Every step of Request agrees with Close, ...
LEMMA RequestAgrees ==
    ASSUME TypeOK, Agreed, NEW s \in Requests, RequestStep(s) \/ Call(s)
    PROVE  AgreedOK(s)'
  <1> USE DEF callerVars, loopVars, requestVars, bodyVars, Return, Remove
  <1>1. AgreedOK(s) /\ CloseOK
    BY DEF Agreed
  <1>2. /\ closeErr' = closeErr /\ ended' = ended
        /\ pump'[s] \in {"returning", "done"} => body' = body
    <2>1. CASE FirstFrameStarts(s)
      BY <2>1 DEF FirstFrameStarts, TypeOK
    <2>2. CASE ~FirstFrameStarts(s)
      BY <2>2 DEF RequestStep, Call, Register, Transmit, SendReturns, SendFails, FirstFrameEnds,
                  RequestStops, RequestGivesUp
    <2> QED  BY <2>1, <2>2
  <1>3. \/ result' = result /\ pc'[s] # "returned"
        \/ result'[s] # None /\ result'[s] \in OwnOutcomes \cup {closeErr}
    <2>1. CASE Call(s)
      BY <2>1, <1>1, CloseErrorsAreErrors DEF Call, Closed, CloseOK, TypeOK
    <2>2. CASE Register(s) \/ Transmit(s) \/ SendReturns(s) \/ RequestStops(s)
      BY <2>2 DEF Register, Transmit, SendReturns, RequestStops, TypeOK
    <2>3. CASE SendFails(s)
      BY <2>3 DEF SendFails, TypeOK, OwnOutcomes, None
    <2>4. CASE FirstFrameEnds(s)
      <3>1. result'[s] \in {"unexpectedType", "decodeError", "response", "remoteError"}
        BY <2>4 DEF FirstFrameEnds, TypeOK
      <3> QED  BY <3>1 DEF OwnOutcomes, None
    <2>5. CASE FirstFrameStarts(s)
      BY <2>5 DEF FirstFrameStarts, TypeOK, OwnOutcomes, None
    <2>6. CASE RequestGivesUp(s)
      <3>1. PICK e \in StopReasons(s \in ctxDone) : Return(s, e)
        BY <2>6 DEF RequestGivesUp
      <3>2. e # None /\ e \in OwnOutcomes \cup {closeErr}
        BY <1>1, StopReasonsAgree
      <3> QED  BY <3>1, <3>2 DEF TypeOK
    <2> QED  BY <2>1, <2>2, <2>3, <2>4, <2>5, <2>6 DEF RequestStep
  <1>4. pump'[s] \in {"returning", "done"} => pump[s] \in {"returning", "done"}
    BY DEF RequestStep, Call, Register, Transmit, SendReturns, SendFails, FirstFrameEnds,
           FirstFrameStarts, RequestStops, RequestGivesUp, TypeOK
  <1> QED  BY <1>1, <1>2, <1>3, <1>4 DEF AgreedOK

\* ... and so does every step of the pump.
LEMMA PumpAgrees ==
    ASSUME TypeOK, Agreed, NEW s \in Requests, PumpStep(s) \/ Read(s)
    PROVE  AgreedOK(s)'
  <1> USE DEF callerVars, loopVars, requestVars, bodyVars, PumpEnds, Remove
  <1>1. AgreedOK(s) /\ CloseOK
    BY DEF Agreed
  <1>2. closeErr' = closeErr /\ result' = result /\ pc' = pc /\ body' = body
    BY DEF PumpStep, PumpStarts, PumpTakes, WriteFails, PumpStops, PumpGivesUp, PumpReturns, Read
  <1>3. \/ ended' = ended /\ (pump'[s] \in {"returning", "done"} =>
                                 body[s] = "closed" \/ pump[s] \in {"returning", "done"})
        \/ ended'[s] # None /\ ended'[s] \in OwnOutcomes \cup {closeErr}
    <2>1. CASE PumpTakes(s)
      BY <2>1 DEF PumpTakes, PumpSwitch, TypeOK, OwnOutcomes, None, EOF
    <2>2. CASE PumpGivesUp(s)
      <3>1. PICK e \in StopReasons(PumpCtxDone(s)) : ended' = [ended EXCEPT ![s] = e]
        BY <2>2 DEF PumpGivesUp
      <3>2. e # None /\ e \in OwnOutcomes \cup {closeErr}
        BY <1>1, StopReasonsAgree
      <3> QED  BY <3>1, <3>2 DEF TypeOK
    <2>3. CASE PumpStarts(s) \/ WriteFails(s) \/ PumpStops(s) \/ PumpReturns(s) \/ Read(s)
      BY <2>3 DEF PumpStarts, WriteFails, PumpStops, PumpReturns, Read, TypeOK
    <2> QED  BY <2>1, <2>2, <2>3 DEF PumpStep
  <1> QED  BY <1>1, <1>2, <1>3 DEF AgreedOK

\* Every step keeps the agreement.
LEMMA AgreedStep ==
    ASSUME TypeOK, Agreed, [Next]_vars
    PROVE  Agreed'
  <1> USE DEF callerVars, loopVars, requestVars, bodyVars, Return, Remove, PumpEnds, SetBody
  <1>1. CloseOK'
    <2>1. CASE \E e \in CloseArgs : CloseSets(e)
      BY <2>1 DEF CloseSets, CloseOK, CloseErrors
    <2>2. CASE CloseDone
      BY <2>2 DEF CloseDone, CloseOK, CloseErrors, Agreed
    <2>3. CASE UNCHANGED callerVars
      BY <2>3 DEF CloseOK, CloseErrors, Agreed
    <2>4. ASSUME NEW r \in Requests,
                 \/ Call(r) \/ RequestStep(r) \/ PumpStep(r) \/ Read(r) \/ BodyStep(r)
                 \/ Cancel(r) \/ LookUp(r)
          PROVE  UNCHANGED callerVars
      BY <2>4
      DEF Call, RequestStep, Register, Transmit, SendReturns, SendFails, FirstFrameEnds,
          FirstFrameStarts, RequestStops, RequestGivesUp, PumpStep, PumpStarts, PumpTakes,
          WriteFails, PumpStops, PumpGivesUp, PumpReturns, Read, BodyStep, CloseBody, DropBody,
          Finalize, ClosePipe, Cancel, LookUp
    <2>5. CASE Push \/ Tick \/ UNCHANGED vars
      BY <2>3, <2>5 DEF Push, Tick, vars
    <2> QED  BY <2>1, <2>2, <2>3, <2>4, <2>5 DEF Next
  <1>2. ASSUME NEW s \in Requests PROVE AgreedOK(s)'
    <2>1. AgreedOK(s) /\ CloseOK
      BY DEF Agreed
    <2>2. ASSUME NEW r \in Requests, r # s, Call(r) \/ RequestStep(r) \/ PumpStep(r) \/ Read(r)
          PROVE  AgreedOK(s)'
      <3>1. /\ result'[s] = result[s] /\ ended'[s] = ended[s] /\ closeErr' = closeErr
            /\ pc'[s] = pc[s] /\ pump'[s] = pump[s] /\ body'[s] = body[s]
        BY <2>2
        DEF TypeOK, Call, RequestStep, Register, Transmit, SendReturns, SendFails, FirstFrameEnds,
            FirstFrameStarts, RequestStops, RequestGivesUp, PumpStep, PumpStarts, PumpTakes,
            PumpSwitch, WriteFails, PumpStops, PumpGivesUp, PumpReturns, Read
      <3> QED  BY <2>1, <3>1, SameOutcome
    <2>3. CASE Call(s) \/ RequestStep(s)
      BY <2>3, RequestAgrees
    <2>4. CASE PumpStep(s) \/ Read(s)
      BY <2>4, PumpAgrees
    <2>5. ASSUME NEW r \in Requests, BodyStep(r) \/ Cancel(r) \/ LookUp(r) PROVE AgreedOK(s)'
      <3>1. /\ result' = result /\ ended' = ended /\ closeErr' = closeErr /\ pc' = pc
            /\ pump' = pump /\ (body[s] = "closed" => body'[s] = "closed")
        BY <2>5 DEF BodyStep, CloseBody, DropBody, Finalize, ClosePipe, Cancel, LookUp, TypeOK
      <3> QED  BY <2>1, <3>1, SameOutcome
    <2>6. CASE Push \/ Tick \/ CloseDone \/ (\E e \in CloseArgs : CloseSets(e)) \/ UNCHANGED vars
      <3>1. /\ result' = result /\ ended' = ended /\ pc' = pc /\ pump' = pump /\ body' = body
            /\ closeErr' = closeErr \/ closeErr = None
        BY <2>1, <2>6 DEF Push, Tick, CloseDone, CloseSets, CloseOK, vars
      <3> QED  BY <2>1, <3>1, SameOutcome
    <2> QED  BY <2>2, <2>3, <2>4, <2>5, <2>6 DEF Next
  <1> QED  BY <1>1, <1>2 DEF Agreed

\* Every failure that a Close causes carries the error of the first Close, and
\* never nil, for any errors given to Close that the Caller does not report of
\* its own accord.
THEOREM CloseErrorIsAgreed ==
    ASSUME OwnOutcomes \cap CloseErrors = {}
    PROVE  SafeSpec => []CloseErrorAgreed
  <1>1. Init => Agreed
    BY DEF Init, Agreed, CloseOK, AgreedOK, OwnOutcomes
  <1>2. TypeOK /\ Agreed /\ [Next]_vars => Agreed'
    BY AgreedStep
  <1>3. Agreed => CloseErrorAgreed
    BY DEF Agreed, AgreedOK, CloseErrorAgreed
  <1> QED  BY <1>1, <1>2, <1>3, TypeCorrect, PTL DEF SafeSpec

-------------------------------------------------------------------------------
\* The body.

\* The chunks up to the last frame taken are in the body, in order, except one
\* that the pump is about to write, or on which it failed; a body without a
\* pump is empty.
DeliveredOK(r) ==
    /\ pump[r] = "none" => got[r] = <<>> /\ ended[r] = None
    /\ pump[r] # "none" => msg[r].n \in 1..Len(script[r])
    /\ pump[r] = "writing" => msg[r] \in ChunksOf(r)
    /\ \A i \in 1..Len(got[r]) :
          /\ got[r][i] \in ChunksOf(r)
          /\ got[r][i].n <= msg[r].n
          /\ pump[r] = "writing" => got[r][i].n < msg[r].n
          /\ \A j \in 1..(i - 1) : got[r][j].n < got[r][i].n
    /\ pump[r] # "none" =>
          \A f \in ChunksOf(r) :
              \/ f.n < msg[r].n
              \/ f.n = msg[r].n /\ pump[r] \in {"starting", "waiting", "stopping"}
              => \E i \in 1..Len(got[r]) : got[r][i] = f

Delivered == \A r \in Requests : DeliveredOK(r)

\* The chunks of a reply are its frames of kind Chunk.
LEMMA ChunkFrame ==
    ASSUME NEW r \in Requests, NEW n \in Nat
    PROVE  Frame(r, n) \in ChunksOf(r) <=> n \in 1..Len(script[r]) /\ script[r][n].kind = "Chunk"
  BY DEF ChunksOf, Frame

\* Each of them has its position as its number.
LEMMA ChunkIsFrame ==
    ASSUME TypeOK, NEW r \in Requests, NEW f \in ChunksOf(r)
    PROVE  f = Frame(r, f.n) /\ f.n \in 1..Len(script[r]) /\ script[r][f.n].kind = "Chunk"
  BY DEF ChunksOf, Frame

\* A request that is left alone keeps its body.
LEMMA SameBody ==
    ASSUME NEW s \in Requests, DeliveredOK(s),
           script'[s] = script[s], msg'[s] = msg[s], got'[s] = got[s],
           pump'[s] = pump[s], ended'[s] = ended[s]
    PROVE  DeliveredOK(s)'
  BY DEF DeliveredOK, ChunksOf

\* So does a request whose pump moves on without taking or writing a frame.
LEMMA PumpMoves ==
    ASSUME NEW s \in Requests, DeliveredOK(s), pump[s] # "none",
           script'[s] = script[s], msg'[s] = msg[s], got'[s] = got[s],
           \/ pump'[s] \in {"returning", "done"}
           \/ /\ pump[s] \in {"starting", "waiting", "stopping"}
              /\ pump'[s] \in {"starting", "waiting", "stopping"}
    PROVE  DeliveredOK(s)'
  BY DEF DeliveredOK, ChunksOf

\* And a request that has no pump, before and after, has an empty body.
LEMMA NoPump ==
    ASSUME NEW s \in Requests, DeliveredOK(s), pump[s] = "none", pump'[s] = "none",
           got'[s] = got[s], ended'[s] = ended[s]
    PROVE  DeliveredOK(s)'
  <1>1. got'[s] = <<>> /\ ended'[s] = None
    BY DEF DeliveredOK
  <1>2. Len(got'[s]) = 0
    BY <1>1, EmptySeq
  <1> QED  BY <1>1, <1>2 DEF DeliveredOK

\* What the consumer takes is what the peer put at that place of its reply.
LEMMA TakenContent ==
    ASSUME FlowInv, NEW r \in Requests, Pop(r)
    PROVE  /\ msg'[r] = Frame(r, msg[r].n + 1) /\ msg'[r].n = msg[r].n + 1
           /\ msg'[r].n \in 1..Len(script[r]) /\ msg[r].n \in Nat
           /\ Content(Head(queue[r])) = script[r][msg'[r].n]
           /\ \A s \in Requests \ {r} : msg'[s] = msg[s]
  <1>1. FlowOK(r) /\ TypeOK
    BY DEF FlowInv, SlotInv, Flow
  <1>2. Head(queue[r]) = Frame(r, msg'[r].n)
    BY <1>1, PopFlow
  <1>3. Content(Head(queue[r])) = script[r][msg'[r].n]
    BY <1>2 DEF Content, Frame
  <1>4. msg[r].n \in Nat
    BY <1>1 DEF TypeOK, AllFrames
  <1> QED  BY <1>1, <1>3, <1>4, PopFlow

\* The stream starts with an empty body; HTTPResponseStart is no chunk.
LEMMA StartDelivers ==
    ASSUME FlowInv, NEW r \in Requests, DeliveredOK(r), FirstFrameStarts(r)
    PROVE  DeliveredOK(r)'
  <1>1. Pop(r) /\ pump'[r] = "starting" /\ script' = script /\ got' = got
    BY DEF FirstFrameStarts, FlowInv, SlotInv, TypeOK, requestVars
  <1>2. pump[r] = "none" /\ msg[r].n = 0
    BY DEF FirstFrameStarts, FlowInv, SlotInv, Handover, Flow, FlowOK
  <1>3. got'[r] = <<>> /\ Len(got'[r]) = 0
    BY <1>1, <1>2, EmptySeq DEF DeliveredOK
  <1>4. msg'[r].n = 1 /\ 1 \in 1..Len(script[r]) /\ script[r][1].kind = "Start"
    BY <1>1, <1>2, TakenContent DEF FirstFrameStarts
  <1>5. ASSUME NEW f \in ChunksOf(r)' PROVE ~(f.n < 1) /\ f.n # 1
    <2>1. f \in ChunksOf(r)
      BY <1>1 DEF ChunksOf
    <2>2. f.n \in 1..Len(script[r]) /\ script[r][f.n].kind = "Chunk"
      BY <2>1, ChunkIsFrame DEF FlowInv, SlotInv
    <2> QED  BY <1>4, <2>2
  <1> QED  BY <1>1, <1>3, <1>4, <1>5 DEF DeliveredOK

\* The pump takes the next frame when all chunks before it are in the body.
LEMMA TakeDelivers ==
    ASSUME FlowInv, NEW r \in Requests, DeliveredOK(r), PumpTakes(r)
    PROVE  DeliveredOK(r)'
  <1> DEFINE n == msg[r].n
  <1>1. /\ Pop(r) /\ script' = script /\ got' = got /\ pump[r] = "waiting"
        /\ ChunksOf(r)' = ChunksOf(r)
    BY DEF PumpTakes, requestVars, ChunksOf
  <1>2. /\ msg'[r] = Frame(r, n + 1) /\ msg'[r].n = n + 1 /\ n + 1 \in 1..Len(script[r])
        /\ n \in Nat
    BY <1>1, TakenContent
  <1>3. \/ pump'[r] = "writing" /\ script[r][n + 1].kind = "Chunk"
        \/ pump'[r] = "returning"
        \/ pump'[r] = "waiting" /\ script[r][n + 1].kind # "Chunk"
    <2>1. Content(Head(queue[r])) = script[r][n + 1]
      BY <1>1, <1>2, TakenContent
    <2> QED  BY <2>1 DEF PumpTakes, PumpSwitch, PumpEnds, FlowInv, SlotInv, TypeOK
  <1>4. pump'[r] = "writing" => msg'[r] \in ChunksOf(r)
    BY <1>2, <1>3, ChunkFrame
  <1>5. \A i \in 1..Len(got[r]) : got[r][i].n < n + 1 /\ got[r][i].n <= n + 1
    <2>1. \A i \in 1..Len(got[r]) : got[r][i] \in ChunksOf(r) /\ got[r][i].n <= n
      BY DEF DeliveredOK
    <2>2. \A f \in ChunksOf(r) : f.n \in Nat
      BY ChunkIsFrame DEF FlowInv, SlotInv
    <2> QED  BY <1>2, <2>1, <2>2
  <1>6. ASSUME NEW f \in ChunksOf(r),
               f.n < n + 1 \/ (f.n = n + 1 /\ pump'[r] \in {"starting", "waiting", "stopping"})
        PROVE  \E i \in 1..Len(got[r]) : got[r][i] = f
    <2>1. f.n \in 1..Len(script[r]) /\ script[r][f.n].kind = "Chunk"
      BY ChunkIsFrame DEF FlowInv, SlotInv
    <2>2. f.n < n \/ f.n = n
      BY <1>2, <1>3, <1>6, <2>1
    <2> QED  BY <1>1, <2>2 DEF DeliveredOK
  <1> QED  BY <1>1, <1>2, <1>3, <1>4, <1>5, <1>6 DEF DeliveredOK

\* Body.Read takes over the chunk that the pump writes, after all before it.
LEMMA ReadDelivers ==
    ASSUME FlowInv, NEW r \in Requests, DeliveredOK(r), Read(r)
    PROVE  DeliveredOK(r)'
  <1> DEFINE n == msg[r].n
             last == Len(got[r]) + 1
  <1>1. /\ pump[r] = "writing" /\ pump'[r] = "waiting" /\ msg' = msg /\ script' = script
        /\ ChunksOf(r)' = ChunksOf(r) /\ got[r] \in Seq(AllFrames) /\ msg[r] \in AllFrames
        /\ got'[r] = Append(got[r], msg[r])
    BY DEF Read, requestVars, ChunksOf, FlowInv, SlotInv, TypeOK
  <1>2. /\ last \in Nat \ {0} /\ Len(got'[r]) = last /\ got'[r][last] = msg[r]
        /\ \A i \in 1..Len(got[r]) : got'[r][i] = got[r][i]
    BY <1>1
  <1>3. msg[r] \in ChunksOf(r) /\ n \in 1..Len(script[r]) /\ n \in Nat
    BY <1>1 DEF DeliveredOK, AllFrames
  <1>4. ASSUME NEW i \in 1..last
        PROVE  /\ got'[r][i] \in ChunksOf(r) /\ got'[r][i].n <= n
               /\ \A j \in 1..(i - 1) : got'[r][j].n < got'[r][i].n
    <2>1. CASE i = last
      <3>1. \A j \in 1..(i - 1) : j \in 1..Len(got[r]) /\ got[r][j].n < n
        BY <1>1, <1>2, <2>1 DEF DeliveredOK
      <3>2. got'[r][i] = msg[r] /\ msg[r].n = n /\ n <= n
        BY <1>2, <1>3, <2>1
      <3>3. \A j \in 1..(i - 1) : got'[r][j].n < n
        BY <1>2, <3>1
      <3> QED  BY <1>3, <3>2, <3>3
    <2>2. CASE i \in 1..Len(got[r])
      <3>1. /\ got[r][i] \in ChunksOf(r) /\ got[r][i].n <= n
            /\ \A j \in 1..(i - 1) : got[r][j].n < got[r][i].n
        BY <2>2 DEF DeliveredOK
      <3>2. \A j \in 1..(i - 1) : j \in 1..Len(got[r])
        BY <1>2, <2>2
      <3> QED  BY <1>2, <2>2, <3>1, <3>2
    <2> QED  BY <1>2, <2>1, <2>2
  <1>5. ASSUME NEW f \in ChunksOf(r), f.n < n \/ f.n = n
        PROVE  \E i \in 1..last : got'[r][i] = f
    <2>1. CASE f.n < n
      <3>1. PICK i \in 1..Len(got[r]) : got[r][i] = f
        BY <1>1, <2>1 DEF DeliveredOK
      <3>2. i \in 1..last /\ got'[r][i] = f
        BY <1>2, <3>1
      <3> QED  BY <3>2
    <2>2. CASE f.n = n
      <3>1. f = Frame(r, n) /\ msg[r] = Frame(r, n)
        BY <2>2, <1>3, ChunkIsFrame DEF FlowInv, SlotInv
      <3> QED  BY <1>2, <3>1
    <2> QED  BY <1>5, <2>1, <2>2
  <1> QED  BY <1>1, <1>2, <1>3, <1>4, <1>5 DEF DeliveredOK

\* Every step keeps every body.
LEMMA DeliveredStep ==
    ASSUME FlowInv, Delivered, [Next]_vars
    PROVE  Delivered'
  <1> SUFFICES ASSUME NEW s \in Requests PROVE DeliveredOK(s)'
    BY DEF Delivered
  <1> USE DEF loopVars, requestVars, bodyVars, Return, Remove, PumpEnds, SetBody, Pop
  <1>1. DeliveredOK(s) /\ TypeOK /\ Handover
    BY DEF Delivered, FlowInv, SlotInv
  <1>2. ASSUME NEW r \in Requests, r # s,
               \/ RequestStep(r) \/ PumpStep(r) \/ Read(r)
        PROVE  DeliveredOK(s)'
    <2>1. /\ script'[s] = script[s] /\ msg'[s] = msg[s] /\ got'[s] = got[s]
          /\ pump'[s] = pump[s] /\ ended'[s] = ended[s]
      BY <1>1, <1>2
      DEF TypeOK, RequestStep, Register, Transmit, SendReturns, SendFails, FirstFrameEnds,
          FirstFrameStarts, RequestStops, RequestGivesUp, PumpStep, PumpStarts, PumpTakes, PumpSwitch,
          WriteFails, PumpStops, PumpGivesUp, PumpReturns, Read
    <2> QED  BY <1>1, <2>1, SameBody
  <1>3. ASSUME RequestStep(s) PROVE DeliveredOK(s)'
    <2>1. CASE FirstFrameStarts(s)
      BY <1>1, <2>1, StartDelivers
    <2>2. CASE ~FirstFrameStarts(s)
      <3>1. pc[s] # "returned" /\ pump' = pump /\ got' = got /\ ended' = ended
        BY <1>3, <2>2
        DEF RequestStep, Register, Transmit, SendReturns, SendFails, FirstFrameEnds,
            RequestStops, RequestGivesUp
      <3> QED  BY <1>1, <3>1, NoPump DEF Handover
    <2> QED  BY <2>1, <2>2
  <1>4. ASSUME PumpStep(s) PROVE DeliveredOK(s)'
    <2>1. CASE PumpTakes(s)
      BY <1>1, <2>1, TakeDelivers
    <2>2. CASE PumpStarts(s) \/ WriteFails(s) \/ PumpStops(s) \/ PumpGivesUp(s) \/ PumpReturns(s)
      BY <1>1, <2>2, PumpMoves
      DEF PumpStarts, WriteFails, PumpStops, PumpGivesUp, PumpReturns, TypeOK
    <2> QED  BY <1>4, <2>1, <2>2 DEF PumpStep
  <1>5. ASSUME Read(s) PROVE DeliveredOK(s)'
    BY <1>1, <1>5, ReadDelivers
  <1>6. ASSUME NEW r \in Requests, Call(r) \/ BodyStep(r) \/ Cancel(r) \/ LookUp(r)
        PROVE  DeliveredOK(s)'
    BY <1>1, <1>6, SameBody
    DEF Call, BodyStep, CloseBody, DropBody, Finalize, ClosePipe, Cancel, LookUp
  <1>7. CASE Push \/ Tick \/ CloseDone \/ (\E e \in CloseArgs : CloseSets(e)) \/ UNCHANGED vars
    BY <1>1, <1>7, SameBody DEF Push, Tick, CloseDone, CloseSets, vars
  <1> QED  BY <1>2, <1>3, <1>4, <1>5, <1>6, <1>7 DEF Next

\* No body has begun when the Caller starts.
LEMMA DeliveredInit == Init => Delivered
  <1> SUFFICES ASSUME Init, NEW r \in Requests PROVE DeliveredOK(r)
    BY DEF Delivered
  <1>1. got[r] = <<>> /\ Len(got[r]) = 0 /\ pump[r] = "none" /\ ended[r] = None
    BY EmptySeq DEF Init
  <1> QED  BY <1>1 DEF DeliveredOK

\* Delivered is an invariant.
LEMMA DeliveredCorrect == SafeSpec => []Delivered
  <1>1. FlowInv /\ Delivered /\ [Next]_vars => Delivered'
    BY DeliveredStep
  <1> QED  BY <1>1, DeliveredInit, FlowCorrect, PTL DEF SafeSpec

\* Whatever the interleaving of requests, pumps, the read loop, readers that
\* come late, Close and cancellation: what a reader has seen is a prefix of
\* the chunks sent to it, in order, without a hole and without a repetition.
THEOREM BodiesArePrefixes == SafeSpec => []BodyIsPrefix
  <1>1. ASSUME FlowInv, Delivered PROVE BodyIsPrefix
    <2> SUFFICES ASSUME NEW r \in Requests, NEW i \in 1..Len(got[r]),
                        NEW f \in ChunksOf(r), f.n < got[r][i].n
                 PROVE  \E j \in 1..(i - 1) : got[r][j] = f
      BY <1>1 DEF BodyIsPrefix, Delivered, DeliveredOK
    <2>1. DeliveredOK(r) /\ TypeOK /\ Len(got[r]) \in Nat
      BY <1>1 DEF Delivered, FlowInv, SlotInv, TypeOK
    <2>2. f.n \in Nat /\ got[r][i].n \in Nat /\ msg[r].n \in Nat
      <3>1. got[r][i] \in ChunksOf(r)
        BY <2>1 DEF DeliveredOK
      <3>2. f.n \in 1..Len(script[r]) /\ got[r][i].n \in 1..Len(script[r])
        BY <2>1, <3>1, ChunkIsFrame
      <3>3. msg[r] \in AllFrames
        BY <2>1 DEF TypeOK
      <3> QED  BY <3>2, <3>3 DEF AllFrames
    <2>3. pump[r] # "none" /\ got[r][i].n <= msg[r].n
      BY <2>1, EmptySeq DEF DeliveredOK
    <2>4. PICK j \in 1..Len(got[r]) : got[r][j] = f
      BY <2>1, <2>2, <2>3 DEF DeliveredOK
    <2>5. ~(i < j) /\ i # j
      BY <2>1, <2>2, <2>4 DEF DeliveredOK
    <2> QED  BY <2>1, <2>4, <2>5
  <1> QED  BY <1>1, FlowCorrect, DeliveredCorrect, PTL

-------------------------------------------------------------------------------
\* The end of a body.

\* A body that ended with EOF has a pump that took End last.
EndsWell(r) ==
    ended[r] = EOF =>
        pump[r] \in {"returning", "done"} /\ script[r][msg[r].n].kind = "End"

\* An error given to Close that is not io.EOF, like a timeout or a cancelled
\* context, is told apart from the end of the body.
LEMMA StopIsNotEof ==
    ASSUME TypeOK, EOF \notin CloseArgs, NEW c, NEW e \in StopReasons(c)
    PROVE  e # EOF
  BY DEF StopReasons, TypeOK, CloseErrors, EOF, ErrTransportClosed, CtxErr, ErrReadTimeout, None

\* Every step keeps the end of every body.
LEMMA EndsStep ==
    ASSUME EOF \notin CloseArgs, FlowInv, [Next]_vars, NEW s \in Requests, EndsWell(s)
    PROVE  EndsWell(s)'
  <1> USE DEF callerVars, loopVars, requestVars, bodyVars, Return, Remove, PumpEnds, SetBody
  <1> DEFINE Over == pump[s] \in {"returning", "done"}
  <1>1. TypeOK /\ Handover
    BY DEF FlowInv, SlotInv
  <1>2. CASE PumpTakes(s)
    <2>1. Pop(s) /\ script' = script /\ pump[s] = "waiting"
      BY <1>2 DEF PumpTakes
    <2>2. Content(Head(queue[s])) = script[s][msg'[s].n]
      BY <2>1, TakenContent
    <2>3. ended[s] # EOF
      BY <2>1 DEF EndsWell
    <2>4. ended'[s] = EOF => pump'[s] = "returning" /\ Content(Head(queue[s])).kind = "End"
      BY <1>1, <1>2, <2>3 DEF PumpTakes, PumpSwitch, TypeOK, EOF
    <2> QED  BY <2>1, <2>2, <2>4 DEF EndsWell
  <1>3. CASE PumpGivesUp(s)
    <2>1. PICK e \in StopReasons(PumpCtxDone(s)) : ended' = [ended EXCEPT ![s] = e]
      BY <1>3 DEF PumpGivesUp
    <2>2. e # EOF
      BY <1>1, StopIsNotEof
    <2> QED  BY <1>1, <2>1, <2>2 DEF EndsWell, TypeOK
  <1>4. ASSUME ended'[s] = ended[s],
               Over => /\ pump'[s] \in {"returning", "done"}
                       /\ msg'[s] = msg[s] /\ script'[s] = script[s]
        PROVE  EndsWell(s)'
    BY <1>4 DEF EndsWell
  <1>5. ASSUME NEW r \in Requests, RequestStep(r) PROVE EndsWell(s)'
    <2>1. pc[r] # "returned" /\ ended' = ended
      BY <1>5 DEF RequestStep, Register, Transmit, SendReturns, SendFails, FirstFrameEnds,
                  FirstFrameStarts, RequestStops, RequestGivesUp
    <2>2. Over => s # r
      BY <2>1, <1>1 DEF Handover
    <2>3. s # r => pump'[s] = pump[s] /\ msg'[s] = msg[s] /\ script'[s] = script[s]
      BY <1>1, <1>5
      DEF RequestStep, Register, Transmit, SendReturns, SendFails, FirstFrameEnds,
          FirstFrameStarts, RequestStops, RequestGivesUp, Pop, TypeOK
    <2> QED  BY <1>4, <2>1, <2>2, <2>3
  <1>6. ASSUME NEW r \in Requests, PumpStep(r) \/ Read(r), ~PumpTakes(s), ~PumpGivesUp(s)
        PROVE  EndsWell(s)'
    BY <1>1, <1>4, <1>6
    DEF PumpStep, PumpStarts, PumpTakes, PumpSwitch, WriteFails, PumpStops, PumpGivesUp, PumpReturns,
        Read, Pop, TypeOK
  <1>7. ASSUME NEW r \in Requests, Call(r) \/ BodyStep(r) \/ Cancel(r) \/ LookUp(r)
        PROVE  EndsWell(s)'
    BY <1>4, <1>7 DEF Call, BodyStep, CloseBody, DropBody, Finalize, ClosePipe, Cancel, LookUp
  <1>8. CASE Push \/ Tick \/ CloseDone \/ (\E e \in CloseArgs : CloseSets(e)) \/ UNCHANGED vars
    BY <1>4, <1>8 DEF Push, Tick, CloseDone, CloseSets, vars
  <1> QED  BY <1>2, <1>3, <1>5, <1>6, <1>7, <1>8 DEF Next

\* A clean EOF means a complete body, for every Caller that is not closed with
\* io.EOF itself: the peer said End and the reader has all the chunks.
THEOREM EofIsComplete ==
    ASSUME EOF \notin CloseArgs
    PROVE  SafeSpec => []CleanEofMeansComplete
  <1> DEFINE Ends == \A r \in Requests : EndsWell(r)
  <1>1. Init => Ends
    BY DEF Init, EndsWell, EOF, None
  <1>2. FlowInv /\ Ends /\ [Next]_vars => Ends'
    BY EndsStep
  <1>3. ASSUME FlowInv, Delivered, Ends PROVE CleanEofMeansComplete
    <2> SUFFICES ASSUME NEW r \in Requests, ended[r] = EOF
                 PROVE  /\ msg[r].n \in 1..Len(script[r]) /\ Content(msg[r]).kind = "End"
                        /\ \A f \in ChunksOf(r) : f.n < msg[r].n =>
                              \E i \in 1..Len(got[r]) : got[r][i] = f
      BY DEF CleanEofMeansComplete
    <2>1. pump[r] # "none" /\ script[r][msg[r].n].kind = "End"
      BY <1>3 DEF EndsWell
    <2>2. Content(msg[r]) = script[r][msg[r].n]
      <3>1. \E n : msg[r] = Frame(r, n)
        BY <1>3 DEF FlowInv, Flow, FlowOK
      <3>2. msg[r].id = r
        BY <3>1 DEF Frame
      <3> QED  BY <3>2 DEF Content
    <2> QED  BY <1>3, <2>1, <2>2 DEF Delivered, DeliveredOK
  <1> QED  BY <1>1, <1>2, <1>3, FlowCorrect, DeliveredCorrect, PTL DEF SafeSpec

-------------------------------------------------------------------------------
\* A peer of which more is known, for what is composed with a Caller.

\* How many chunks the reader of r has been given.
Given(r) == Len(got[r])

\* Behind a first frame, the reply has nothing but the frames of a body.
BodyBehind(s) == \A i \in 2..Len(s) : s[i].kind \in {"Chunk", "End", "Error"}

\* Then the reader has one chunk for each frame after Start that the pump took,
\* except for the one the pump is writing, and an End.
Counted(r) ==
    /\ pump[r] = "none" => got[r] = <<>> /\ ended[r] = None
    /\ pump[r] # "none" => msg[r].n \in 1..Len(script[r]) /\ script[r][1].kind = "Start"
    /\ pump[r] \in {"starting", "waiting", "stopping"} => Given(r) + 1 = msg[r].n
    /\ pump[r] = "writing" => Given(r) + 2 = msg[r].n
    /\ ended[r] = EOF => /\ pump[r] \in {"returning", "done"} /\ Given(r) + 2 = msg[r].n
                         /\ script[r][msg[r].n].kind = "End"

\* A body keeps its count while it is left alone and its reply, at most, grows.
LEMMA SameCount ==
    ASSUME NEW s \in Requests, Counted(s), pump'[s] = pump[s], got'[s] = got[s],
           ended'[s] = ended[s], msg'[s] = msg[s],
           Len(script[s]) \in Nat, Len(script'[s]) \in Nat, Len(script[s]) <= Len(script'[s]),
           \A i \in 1..Len(script[s]) : script'[s][i] = script[s][i]
    PROVE  Counted(s)'
  <1>1. Given(s)' = Given(s)
    BY DEF Given
  <1>2. ASSUME pump[s] # "none" PROVE msg'[s].n \in 1..Len(script'[s]) /\ script'[s][1] = script[s][1]
    <2>1. msg[s].n \in 1..Len(script[s]) /\ 1 \in 1..Len(script[s])
      BY <1>2 DEF Counted
    <2> QED  BY <2>1
  <1>3. ASSUME ended[s] = EOF PROVE script'[s][msg'[s].n] = script[s][msg[s].n]
    BY <1>3 DEF Counted
  <1> QED  BY <1>1, <1>2, <1>3 DEF Counted

\* The steps of the pump keep the count.
LEMMA PumpCounts ==
    ASSUME EOF \notin CloseArgs, FlowInv, NEW s \in Requests, Counted(s), BodyBehind(script[s]),
           PumpStep(s) \/ Read(s)
    PROVE  Counted(s)'
  <1> USE DEF callerVars, loopVars, requestVars, bodyVars, PumpEnds
  <1>0. TypeOK /\ pump[s] # "none" /\ script' = script /\ msg[s].n \in Nat /\ Given(s) \in Nat
    <2>1. TypeOK
      BY DEF FlowInv, SlotInv
    <2>2. msg[s] \in AllFrames /\ got[s] \in Seq(AllFrames)
      BY <2>1 DEF TypeOK
    <2>3. pump[s] # "none" /\ script' = script
      BY DEF PumpStep, PumpStarts, PumpTakes, WriteFails, PumpStops, PumpGivesUp, PumpReturns, Read
    <2> QED  BY <2>1, <2>2, <2>3 DEF AllFrames, Given
  <1>1. CASE PumpTakes(s)
    <2>1. /\ Pop(s) /\ got' = got /\ pump[s] = "waiting"
          /\ PumpSwitch(s, Content(Head(queue[s])))
      BY <1>1 DEF PumpTakes
    <2>2. /\ msg'[s].n = msg[s].n + 1 /\ msg'[s].n \in 1..Len(script[s])
          /\ Content(Head(queue[s])) = script[s][msg'[s].n]
      BY <2>1, TakenContent
    <2>3. Given(s)' = Given(s) /\ Given(s) + 1 = msg[s].n /\ script[s][1].kind = "Start"
      BY <1>0, <2>1 DEF Given, Counted
    <2>4. script[s][msg'[s].n].kind \in {"Chunk", "End", "Error"}
      <3>1. msg'[s].n \in 2..Len(script[s])
        BY <1>0, <2>2, <2>3
      <3> QED  BY <3>1 DEF BodyBehind
    <2>5. Given(s)' + 2 = msg'[s].n
      BY <1>0, <2>2, <2>3
    <2>6. \/ pump'[s] = "writing" /\ ended' = ended
          \/ pump'[s] = "returning" /\ ended'[s] = EOF /\ script[s][msg'[s].n].kind = "End"
          \/ pump'[s] = "returning" /\ ended'[s] # EOF
      BY <1>0, <2>1, <2>2, <2>4 DEF PumpSwitch, TypeOK, EOF
    <2> QED  BY <1>0, <2>1, <2>2, <2>3, <2>5, <2>6 DEF Counted
  <1>2. CASE Read(s)
    <2>1. /\ pump[s] = "writing" /\ pump'[s] = "waiting" /\ msg' = msg /\ ended' = ended
          /\ got'[s] = Append(got[s], msg[s]) /\ got[s] \in Seq(AllFrames)
          /\ msg[s] \in AllFrames
      BY <1>0, <1>2 DEF Read, TypeOK
    <2>2. Given(s)' = Given(s) + 1
      BY <2>1 DEF Given
    <2>3. Given(s) + 2 = msg[s].n
      BY <2>1 DEF Counted
    <2>4. Given(s)' + 1 = msg'[s].n
      BY <1>0, <2>1, <2>2, <2>3
    <2> QED  BY <1>0, <2>1, <2>4 DEF Counted
  <1>3. CASE PumpGivesUp(s)
    <2>1. PICK e \in StopReasons(PumpCtxDone(s)) : PumpEnds(s, e)
      BY <1>3 DEF PumpGivesUp
    <2>2. e # EOF
      BY <1>0, StopIsNotEof
    <2>3. pump'[s] = "returning" /\ ended'[s] # EOF /\ msg' = msg /\ got' = got
      BY <1>0, <1>3, <2>1, <2>2 DEF PumpGivesUp, TypeOK
    <2> QED  BY <1>0, <2>3 DEF Counted
  <1>4. CASE PumpStarts(s) \/ WriteFails(s) \/ PumpStops(s) \/ PumpReturns(s)
    <2>1. /\ msg' = msg /\ got' = got /\ ended' = ended
          /\ \/ /\ pump[s] \in {"starting", "waiting", "stopping"}
                /\ pump'[s] \in {"starting", "waiting", "stopping"}
             \/ pump[s] \in {"writing", "returning"} /\ pump'[s] \in {"returning", "done"}
      BY <1>0, <1>4 DEF PumpStarts, WriteFails, PumpStops, PumpReturns, TypeOK
    <2>2. Given(s)' = Given(s)
      BY <2>1 DEF Given
    <2> QED  BY <1>0, <2>1, <2>2 DEF Counted
  <1> QED  BY <1>1, <1>2, <1>3, <1>4 DEF PumpStep

\* Every step keeps the count.
LEMMA CountStep ==
    ASSUME EOF \notin CloseArgs, FlowInv, [Next]_vars,
           NEW s \in Requests, Counted(s), BodyBehind(script[s])
    PROVE  Counted(s)'
  <1> USE DEF callerVars, loopVars, requestVars, bodyVars, Return, Remove, PumpEnds, SetBody
  <1>0. TypeOK /\ Handover /\ FlowOK(s) /\ Len(script[s]) \in Nat
    BY DEF FlowInv, SlotInv, Flow, TypeOK
  <1>1. CASE PumpStep(s) \/ Read(s)
    BY <1>1, PumpCounts
  <1>2. CASE FirstFrameStarts(s)
    <2>1. /\ Pop(s) /\ pc[s] = "waiting" /\ pump'[s] = "starting" /\ ended' = ended
          /\ got' = got /\ script' = script /\ Content(Head(queue[s])).kind = "Start"
      BY <1>0, <1>2 DEF FirstFrameStarts, TypeOK
    <2>2. pump[s] = "none" /\ msg[s].n = 0 /\ got[s] = <<>> /\ ended[s] = None
      BY <1>0, <2>1 DEF Handover, FlowOK, Counted
    <2>3. msg'[s].n = 1 /\ 1 \in 1..Len(script[s]) /\ script[s][1].kind = "Start"
      BY <2>1, <2>2, TakenContent
    <2>4. Given(s)' = 0
      BY <2>1, <2>2, EmptySeq DEF Given
    <2> QED  BY <2>1, <2>2, <2>3, <2>4 DEF Counted, None, EOF
  <1>3. CASE Call(s) \/ (RequestStep(s) /\ ~FirstFrameStarts(s))
    <2>1. pump' = pump /\ got' = got /\ ended' = ended /\ pump[s] = "none"
      BY <1>0, <1>3
      DEF Call, RequestStep, Register, Transmit, SendReturns, SendFails, FirstFrameEnds,
          RequestStops, RequestGivesUp, Handover
    <2>2. got'[s] = <<>> /\ ended'[s] = None /\ pump'[s] = "none"
      BY <2>1 DEF Counted
    <2> QED  BY <2>2 DEF Counted, None, EOF
  <1>4. ASSUME NEW r \in Requests, r # s, Call(r) \/ RequestStep(r) \/ PumpStep(r) \/ Read(r)
        PROVE  Counted(s)'
    <2>1. /\ pump'[s] = pump[s] /\ got'[s] = got[s] /\ ended'[s] = ended[s]
          /\ msg'[s] = msg[s] /\ script'[s] = script[s]
      BY <1>0, <1>4
      DEF TypeOK, Call, RequestStep, Register, Transmit, SendReturns, SendFails, FirstFrameEnds,
          FirstFrameStarts, RequestStops, RequestGivesUp, PumpStep, PumpStarts, PumpTakes,
          PumpSwitch, WriteFails, PumpStops, PumpGivesUp, PumpReturns, Pop, Read
    <2> QED  BY <1>0, <2>1, SameCount
  <1>5. ASSUME NEW r \in Requests, BodyStep(r) \/ Cancel(r) \/ LookUp(r) PROVE Counted(s)'
    <2>1. UNCHANGED <<pump, got, ended, msg, script>>
      BY <1>5 DEF BodyStep, CloseBody, DropBody, Finalize, ClosePipe, Cancel, LookUp
    <2> QED  BY <1>0, <2>1, SameCount
  <1>6. CASE Push \/ Tick \/ CloseDone \/ (\E e \in CloseArgs : CloseSets(e)) \/ UNCHANGED vars
    <2>1. UNCHANGED <<pump, got, ended, msg, script>>
      BY <1>6 DEF Push, Tick, CloseDone, CloseSets, vars
    <2> QED  BY <1>0, <2>1, SameCount
  <1> QED  BY <1>1, <1>2, <1>3, <1>4, <1>5, <1>6 DEF Next

\* A reply that grows after its request was sent is no step of the Caller, and
\* disturbs nothing that is on its way.
LEMMA FlowGrows ==
    ASSUME FlowInv, script' \in [Requests -> Seq(Reply)],
           UNCHANGED <<callerVars, loopVars, pc, result, bodyVars, clockVars, msg, ctxDone>>,
           \A s \in Requests :
              /\ Len(script[s]) <= Len(script'[s])
              /\ pc[s] \in {"idle", "checked", "registered"} => script'[s] = <<>>
    PROVE  FlowInv'
  <1> USE DEF callerVars, loopVars, bodyVars, clockVars
  <1>1. TypeOK'
    BY DEF FlowInv, SlotInv, TypeOK
  <1>2. Handover' /\ SlotIffConsumer'
    BY DEF FlowInv, SlotInv, Handover, SlotIffConsumer, HasConsumer
  <1>3. ASSUME NEW s \in Requests PROVE FlowOK(s)'
    <2>1. /\ Len(script[s]) \in Nat /\ Len(script'[s]) \in Nat /\ arrived[s] \in Nat
          /\ arrived[s] <= Len(script[s])
      BY <1>1 DEF FlowInv, SlotInv, TypeOK, Flow, FlowOK
    <2>2. arrived'[s] <= Len(script'[s])
      BY <2>1
    <2>3. FlowOK(s) /\ Held(s)' = Held(s)
      BY DEF FlowInv, Flow, Held
    <2> QED  BY <2>2, <2>3 DEF FlowOK
  <1> QED  BY <1>1, <1>2, <1>3 DEF FlowInv, SlotInv, Flow

\* Nor has a count of one.
LEMMA CountInit == Init => \A s \in Requests : Counted(s)
  BY DEF Init, Counted, None, EOF

\* Request meets no frame of an unexpected type where none comes first.
LEMMA ExpectedStep ==
    ASSUME "unexpectedType" \notin CloseArgs, FlowInv, [Next]_vars, NEW s \in Requests,
           result[s] # "unexpectedType",
           arrived[s] > 0 => script[s][1].kind \in {"Response", "Start", "Error"}
    PROVE  result'[s] # "unexpectedType"
  <1> USE DEF callerVars, loopVars, requestVars, bodyVars, Return
  <1>0. TypeOK /\ FlowOK(s)
    BY DEF FlowInv, SlotInv, Flow
  <1>1. CASE FirstFrameEnds(s)
    <2>1. Pop(s) /\ pc[s] = "waiting" /\ msg[s].n = 0 /\ queue[s] # <<>>
      BY <1>0, <1>1 DEF FirstFrameEnds, FlowOK, Pop
    <2>2. Content(Head(queue[s])) = script[s][1]
      BY <2>1, TakenContent
    <2>3. arrived[s] > 0
      <3>1. Len(queue[s]) \in Nat /\ Len(queue[s]) # 0 /\ Held(s) \in Nat /\ arrived[s] \in Nat
        BY <1>0, <2>1 DEF TypeOK, Held
      <3> QED  BY <1>0, <2>1, <3>1 DEF FlowOK
    <2>4. script[s][1].kind \in {"Response", "Start", "Error"}
      BY <2>3
    <2>5. result'[s] \in {"decodeError", "response", "remoteError"}
      BY <1>0, <1>1, <2>2, <2>4 DEF FirstFrameEnds, TypeOK
    <2> QED  BY <2>5
  <1>2. CASE Call(s)
    BY <1>0, <1>2 DEF Call, TypeOK, CloseErrors, None, ErrTransportClosed
  <1>3. CASE RequestGivesUp(s)
    <2>1. PICK e \in StopReasons(s \in ctxDone) : Return(s, e)
      BY <1>3 DEF RequestGivesUp
    <2>2. e # "unexpectedType"
      BY <1>0, <2>1
      DEF StopReasons, TypeOK, CloseErrors, None, CtxErr, ErrReadTimeout, ErrTransportClosed
    <2> QED  BY <1>0, <2>1, <2>2 DEF TypeOK
  <1>4. CASE RequestStep(s) /\ ~FirstFrameEnds(s) /\ ~RequestGivesUp(s)
    BY <1>0, <1>4
    DEF RequestStep, Register, Transmit, SendReturns, SendFails, FirstFrameStarts, RequestStops,
        TypeOK
  <1>5. ASSUME NEW r \in Requests, r # s, Call(r) \/ RequestStep(r)
        PROVE  result'[s] = result[s]
    BY <1>0, <1>5
    DEF Call, RequestStep, Register, Transmit, SendReturns, SendFails, FirstFrameEnds,
        FirstFrameStarts, RequestStops, RequestGivesUp, TypeOK
  <1>6. ASSUME NEW r \in Requests,
               PumpStep(r) \/ Read(r) \/ BodyStep(r) \/ Cancel(r) \/ LookUp(r)
        PROVE  result' = result
    BY <1>6
    DEF PumpStep, PumpStarts, PumpTakes, WriteFails, PumpStops, PumpGivesUp, PumpReturns, Read,
        BodyStep, SetBody, CloseBody, DropBody, Finalize, ClosePipe, Cancel, LookUp
  <1>7. CASE Push \/ Tick \/ CloseDone \/ (\E e \in CloseArgs : CloseSets(e)) \/ UNCHANGED vars
    BY <1>7 DEF Push, Tick, CloseDone, CloseSets, vars
  <1> QED  BY <1>1, <1>2, <1>3, <1>4, <1>5, <1>6, <1>7 DEF Next

\* A request that has still to be sent had still to be sent before.
LEMMA SentIsSent ==
    ASSUME TypeOK, [Next]_vars, NEW s \in Requests, pc'[s] \in {"idle", "checked", "registered"}
    PROVE  pc[s] \in {"idle", "checked", "registered"}
  <1> USE DEF callerVars, loopVars, requestVars, bodyVars, Return
  <1>1. ASSUME NEW r \in Requests, Call(r) \/ RequestStep(r)
        PROVE  pc'[s] = pc[s] \/ pc[s] \in {"idle", "checked", "registered"}
               \/ pc'[s] \in {"waiting", "stopping", "returned"}
    BY <1>1
    DEF Call, RequestStep, Register, Transmit, SendReturns, SendFails, FirstFrameEnds,
        FirstFrameStarts, RequestStops, RequestGivesUp, TypeOK
  <1>2. ASSUME NEW r \in Requests,
               PumpStep(r) \/ Read(r) \/ BodyStep(r) \/ Cancel(r) \/ LookUp(r)
        PROVE  pc' = pc
    BY <1>2
    DEF PumpStep, PumpStarts, PumpTakes, WriteFails, PumpStops, PumpGivesUp, PumpReturns, Read,
        BodyStep, SetBody, CloseBody, DropBody, Finalize, ClosePipe, Cancel, LookUp
  <1>3. CASE Push \/ Tick \/ CloseDone \/ (\E e \in CloseArgs : CloseSets(e)) \/ UNCHANGED vars
    BY <1>3 DEF Push, Tick, CloseDone, CloseSets, vars
  <1> QED  BY <1>1, <1>2, <1>3 DEF Next

\* A pump that goes on has not taken a last frame.
GoesOn(r) ==
    pump[r] \in {"starting", "waiting", "writing", "stopping"} =>
        script[r][msg[r].n].kind \notin {"End", "Error"}

LEMMA GoesOnInit == Init => \A s \in Requests : GoesOn(s)
  BY DEF Init, GoesOn

\* A request that is left alone, but for a reply that grows, is as before.
LEMMA SameGoesOn ==
    ASSUME NEW s \in Requests, GoesOn(s), pump'[s] = pump[s], msg'[s] = msg[s],
           pump[s] # "none" => script'[s][msg[s].n] = script[s][msg[s].n]
    PROVE  GoesOn(s)'
  BY DEF GoesOn

\* Every step keeps it.
LEMMA GoesOnStep ==
    ASSUME FlowInv, [Next]_vars, NEW s \in Requests, GoesOn(s)
    PROVE  GoesOn(s)'
  <1> USE DEF callerVars, loopVars, requestVars, bodyVars, Return, PumpEnds, SetBody
  <1>0. TypeOK /\ Handover
    BY DEF FlowInv, SlotInv
  <1>1. CASE FirstFrameStarts(s)
    <2>1. /\ Pop(s) /\ script' = script /\ pump'[s] = "starting"
          /\ Content(Head(queue[s])).kind = "Start"
      BY <1>0, <1>1 DEF FirstFrameStarts, TypeOK
    <2> QED  BY <2>1, TakenContent DEF GoesOn
  <1>2. CASE PumpTakes(s)
    <2>1. /\ Pop(s) /\ script' = script /\ PumpSwitch(s, Content(Head(queue[s])))
      BY <1>2 DEF PumpTakes
    <2>2. Content(Head(queue[s])) = script[s][msg'[s].n]
      BY <2>1, TakenContent
    <2>3. pump'[s] = "returning" \/ script[s][msg'[s].n].kind \notin {"End", "Error"}
      BY <1>0, <2>1, <2>2 DEF PumpSwitch, TypeOK
    <2> QED  BY <2>1, <2>3 DEF GoesOn
  <1>3. CASE Read(s) \/ (PumpStep(s) /\ ~PumpTakes(s))
    <2>1. /\ msg' = msg /\ script' = script
          /\ \/ pump[s] \in {"starting", "waiting", "writing", "stopping"}
             \/ pump'[s] \in {"returning", "done"}
      BY <1>0, <1>3
      DEF Read, PumpStep, PumpStarts, WriteFails, PumpStops, PumpGivesUp, PumpReturns, TypeOK
    <2> QED  BY <2>1 DEF GoesOn
  <1>4. CASE Call(s) \/ (RequestStep(s) /\ ~FirstFrameStarts(s))
    <2>1. pump' = pump /\ pump[s] = "none"
      BY <1>0, <1>4
      DEF Call, RequestStep, Register, Transmit, SendReturns, SendFails, FirstFrameEnds,
          RequestStops, RequestGivesUp, Handover
    <2> QED  BY <2>1 DEF GoesOn
  <1>5. ASSUME NEW r \in Requests, r # s, Call(r) \/ RequestStep(r) \/ PumpStep(r) \/ Read(r)
        PROVE  GoesOn(s)'
    <2>1. pump'[s] = pump[s] /\ msg'[s] = msg[s] /\ script'[s] = script[s]
      BY <1>0, <1>5
      DEF TypeOK, Call, RequestStep, Register, Transmit, SendReturns, SendFails, FirstFrameEnds,
          FirstFrameStarts, RequestStops, RequestGivesUp, PumpStep, PumpStarts, PumpTakes,
          PumpSwitch, WriteFails, PumpStops, PumpGivesUp, PumpReturns, Pop, Read
    <2> QED  BY <2>1, SameGoesOn
  <1>6. ASSUME NEW r \in Requests, BodyStep(r) \/ Cancel(r) \/ LookUp(r) PROVE GoesOn(s)'
    <2>1. UNCHANGED <<pump, msg, script>>
      BY <1>6 DEF BodyStep, CloseBody, DropBody, Finalize, ClosePipe, Cancel, LookUp
    <2> QED  BY <2>1, SameGoesOn
  <1>7. CASE Push \/ Tick \/ CloseDone \/ (\E e \in CloseArgs : CloseSets(e)) \/ UNCHANGED vars
    <2>1. UNCHANGED <<pump, msg, script>>
      BY <1>7 DEF Push, Tick, CloseDone, CloseSets, vars
    <2> QED  BY <2>1, SameGoesOn
  <1> QED  BY <1>1, <1>2, <1>3, <1>4, <1>5, <1>6, <1>7 DEF Next

-------------------------------------------------------------------------------
\* What the user of a Caller is promised.

\* A request that has not returned has no result; there is a body exactly when
\* a pump has been started for it, and then the request returned the stream;
\* what the pump writes did decode; and a pump that goes on has not ended it.
SeenOK(r) ==
    /\ pc[r] # "returned" => result[r] = None
    /\ pump[r] = "none" <=> body[r] = "none"
    /\ pump[r] # "none" => result[r] = "stream"
    /\ pump[r] = "writing" => script[r][msg[r].n].ok
    /\ pump[r] \notin {"returning", "done"} => ended[r] = None

Seen == \A r \in Requests : SeenOK(r)

\* A request that is left alone, but for a reply that grows, is seen as before.
LEMMA SameSeen ==
    ASSUME NEW s \in Requests, SeenOK(s), pc'[s] = pc[s], result'[s] = result[s],
           pump'[s] = pump[s], body'[s] = body[s], ended'[s] = ended[s],
           pump[s] = "writing" => script'[s][msg[s].n] = script[s][msg[s].n] /\ msg'[s] = msg[s]
    PROVE  SeenOK(s)'
  BY DEF SeenOK

\* Every step keeps what is seen consistent.
LEMMA SeenStep ==
    ASSUME FlowInv, Seen, [Next]_vars
    PROVE  Seen'
  <1> SUFFICES ASSUME NEW s \in Requests PROVE SeenOK(s)'
    BY DEF Seen
  <1> USE DEF callerVars, loopVars, requestVars, bodyVars, Return, PumpEnds
  <1>1. SeenOK(s) /\ TypeOK /\ Handover
    BY DEF Seen, FlowInv, SlotInv
  <1>2. ASSUME NEW r \in Requests, r # s, Call(r) \/ RequestStep(r) \/ PumpStep(r) \/ Read(r)
        PROVE  SeenOK(s)'
    <2>1. /\ pc'[s] = pc[s] /\ result'[s] = result[s] /\ pump'[s] = pump[s] /\ body'[s] = body[s]
          /\ ended'[s] = ended[s] /\ script'[s] = script[s] /\ msg'[s] = msg[s]
      BY <1>1, <1>2
      DEF TypeOK, Call, RequestStep, Register, Transmit, SendReturns, SendFails, FirstFrameEnds,
          FirstFrameStarts, RequestStops, RequestGivesUp, Pop, PumpStep, PumpStarts, PumpTakes,
          PumpSwitch, WriteFails, PumpStops, PumpGivesUp, PumpReturns, Read
    <2> QED  BY <1>1, <2>1, SameSeen
  <1>3. CASE FirstFrameStarts(s)
    BY <1>1, <1>3 DEF FirstFrameStarts, SeenOK, TypeOK, Handover
  <1>4. CASE Call(s) \/ (RequestStep(s) /\ ~FirstFrameStarts(s))
    <2>1. /\ pump' = pump /\ body' = body /\ ended' = ended /\ pc[s] # "returned"
          /\ pc'[s] # "returned" => result' = result
      BY <1>1, <1>4
      DEF Call, RequestStep, Register, Transmit, SendReturns, SendFails, FirstFrameEnds,
          RequestStops, RequestGivesUp, TypeOK
    <2>2. pump[s] = "none"
      BY <1>1, <2>1 DEF Handover
    <2> QED  BY <1>1, <2>1, <2>2 DEF SeenOK
  <1>5. CASE PumpTakes(s)
    <2>1. /\ Pop(s) /\ pump[s] = "waiting" /\ script' = script /\ pc' = pc /\ result' = result
          /\ body' = body /\ PumpSwitch(s, Content(Head(queue[s])))
      BY <1>5 DEF PumpTakes
    <2>2. Content(Head(queue[s])) = script[s][msg'[s].n]
      BY <2>1, TakenContent
    <2>3. /\ pump'[s] \in {"writing", "returning", "waiting"}
          /\ pump'[s] = "writing" => script'[s][msg'[s].n].ok
          /\ pump'[s] # "returning" => ended' = ended
      BY <1>1, <2>1, <2>2 DEF PumpSwitch, TypeOK
    <2> QED  BY <1>1, <2>1, <2>3 DEF SeenOK
  <1>6. CASE Read(s) \/ (PumpStep(s) /\ ~PumpTakes(s))
    <2>1. /\ pc' = pc /\ result' = result /\ body' = body
          /\ pump[s] # "none" /\ pump'[s] \notin {"none", "writing"}
          /\ \/ pump'[s] \in {"returning", "done"}
             \/ ended' = ended /\ pump[s] \notin {"returning", "done"}
      BY <1>1, <1>6
      DEF Read, PumpStep, PumpStarts, WriteFails, PumpStops, PumpGivesUp, PumpReturns, TypeOK
    <2> QED  BY <1>1, <2>1 DEF SeenOK
  <1>7. ASSUME NEW r \in Requests, BodyStep(r) PROVE SeenOK(s)'
    <2>1. /\ pc' = pc /\ result' = result /\ pump' = pump /\ ended' = ended
          /\ script' = script /\ msg' = msg /\ (body'[s] = "none" <=> body[s] = "none")
      BY <1>1, <1>7
      DEF BodyStep, CloseBody, DropBody, Finalize, ClosePipe, SetBody, TypeOK
    <2> QED  BY <1>1, <2>1 DEF SeenOK
  <1>8. ASSUME NEW r \in Requests, Cancel(r) \/ LookUp(r) PROVE SeenOK(s)'
    BY <1>1, <1>8, SameSeen DEF Cancel, LookUp
  <1>9. CASE Push \/ Tick \/ CloseDone \/ (\E e \in CloseArgs : CloseSets(e)) \/ UNCHANGED vars
    BY <1>1, <1>9, SameSeen DEF Push, Tick, CloseDone, CloseSets, vars
  <1> QED  BY <1>2, <1>3, <1>4, <1>5, <1>6, <1>7, <1>8, <1>9 DEF Next

\* Outcomes, endings and chunks of one request, before and after a step.
LEMMA UserFacts ==
    /\ \A r \in Requests : Outcomes[r] = OutcomeOf(r) /\ BodyEnds[r] = EndOf(r)
    /\ \A r \in Requests : Outcomes'[r] = OutcomeOf(r)' /\ BodyEnds'[r] = EndOf(r)'
  BY DEF Outcomes, BodyEnds

\* The user notices nothing of a step that leaves results, bodies and what was
\* read of them alone; a reply at most grows.
LEMMA UserStutters ==
    ASSUME result' = result, body' = body, ended' = ended, got' = got
    PROVE  Outcomes' = Outcomes /\ BodyEnds' = BodyEnds /\ ChunksRead' = ChunksRead
  BY DEF Outcomes, BodyEnds, ChunksRead, OutcomeOf, EndOf

\* A reply that stays as it is has not shrunk.
LEMMA SameReply ==
    ASSUME TypeOK, script' = script, BodyEnds' = BodyEnds, ChunksRead' = ChunksRead
    PROVE  User!Grows
  <1>1. script \in [Requests -> Seq(User!Reply)]
    BY DEF TypeOK, Reply, Kinds, User!Reply, User!Kinds
  <1>2. \A r \in Requests : Len(script[r]) \in Nat
    BY DEF TypeOK
  <1> QED  BY <1>1, <1>2 DEF User!Grows

\* A result that is neither a response nor a stream is a failure.
LEMMA UserFails ==
    ASSUME TypeOK, NEW r \in Requests, NEW e, result[r] = None, e \notin {"response", "stream"},
           result' = [result EXCEPT ![r] = e],
           UNCHANGED <<body, ended, got, script>>
    PROVE  [User!Next]_User!vars
  <1>1. BodyEnds' = BodyEnds /\ ChunksRead' = ChunksRead
    BY DEF BodyEnds, ChunksRead, EndOf
  <1>2. CASE e = None
    <2>1. result' = result
      BY <1>2 DEF TypeOK
    <2> QED  BY <2>1, UserStutters DEF User!vars
  <1>3. CASE e # None
    <2>0. result'[r] = e
      BY DEF TypeOK
    <2>1. Outcomes[r] = "none" /\ Outcomes'[r] = "failed"
      <3>1. OutcomeOf(r) = "none"
        BY DEF OutcomeOf, None
      <3>2. OutcomeOf(r)' = "failed"
        BY <1>3, <2>0 DEF OutcomeOf
      <3> QED  BY <3>1, <3>2, UserFacts
    <2>2. \A s \in Requests \ {r} : Outcomes'[s] = Outcomes[s]
      BY DEF Outcomes, OutcomeOf, TypeOK
    <2>3. Outcomes' = [s \in Requests |-> IF s \in {r} THEN "failed" ELSE Outcomes[s]]
      BY <2>1, <2>2 DEF Outcomes
    <2>4. User!Grows
      BY <1>1, SameReply
    <2>5. User!Fail({r})
      BY <2>1, <2>3, <2>4 DEF User!Fail
    <2> QED  BY <2>5 DEF User!Next
  <1> QED  BY <1>2, <1>3

\* A result that the peer gave is resolved with the frame that gave it.
LEMMA UserResolves ==
    ASSUME TypeOK, NEW r \in Requests, NEW e \in {"response", "stream"}, result[r] = None,
           result' = [result EXCEPT ![r] = e],
           NEW n \in 1..Len(script[r]),
           script[r][n] = Good(IF e = "response" THEN "Response" ELSE "Start"),
           \A s \in Requests : EndOf(s)' = EndOf(s), got' = got, script' = script
    PROVE  User!Next
  <1> DEFINE k == IF e = "response" THEN "Response" ELSE "Start"
  <1>1. result'[r] = e
    BY DEF TypeOK
  <1>2. Outcomes[r] = "none"
    BY UserFacts DEF OutcomeOf, None
  <1>3. Outcomes'[r] = k
    BY <1>1, UserFacts DEF OutcomeOf, None
  <1>4. \A s \in Requests \ {r} : Outcomes'[s] = Outcomes[s]
    BY DEF Outcomes, OutcomeOf, TypeOK
  <1>5. Outcomes' = [Outcomes EXCEPT ![r] = k]
    BY <1>3, <1>4 DEF Outcomes
  <1>6. BodyEnds' = BodyEnds /\ ChunksRead' = ChunksRead
    BY DEF BodyEnds, ChunksRead
  <1>7. script[r][n] = User!Good(k)
    BY DEF Good, User!Good
  <1>8. User!Resolve(r, k)
    BY <1>2, <1>5, <1>6, <1>7 DEF User!Resolve
  <1> QED  BY <1>8 DEF User!Next

\* The end of one body, as its pump or its user makes it.
LEMMA UserEnds ==
    ASSUME TypeOK, NEW r \in Requests, NEW e, EndOf(r)' = e, \A s \in Requests \ {r} : EndOf(s)' = EndOf(s),
           result' = result, got' = got, script' = script
    PROVE  User!Ends(r, e)
  <1>1. BodyEnds' = [BodyEnds EXCEPT ![r] = e]
    BY UserFacts DEF BodyEnds
  <1>2. Outcomes' = Outcomes /\ ChunksRead' = ChunksRead
    BY DEF Outcomes, ChunksRead, OutcomeOf
  <1> QED  BY <1>1, <1>2 DEF User!Ends

\* Steps of Request.
LEMMA RequestImplements ==
    ASSUME OwnOutcomes \cap CloseErrors = {}, FlowInv, Seen, CloseOK, NEW r \in Requests,
           Call(r) \/ RequestStep(r)
    PROVE  [User!Next]_User!vars
  <1> USE DEF callerVars, loopVars, requestVars, bodyVars, Return
  <1>0. TypeOK /\ FlowOK(r) /\ SeenOK(r) /\ Handover
    BY DEF FlowInv, SlotInv, Flow, Seen
  <1>1. ASSUME NEW e, pc[r] # "returned", Return(r, e), e \notin {"response", "stream"},
               UNCHANGED <<script, bodyVars>>
        PROVE  [User!Next]_User!vars
    BY <1>0, <1>1, UserFails DEF SeenOK
  <1>2. ASSUME NEW c, NEW e \in StopReasons(c) PROVE e \notin {"response", "stream"}
    BY <1>0, CloseErrorsAreErrors
    DEF StopReasons, CloseOK, Closed, OwnOutcomes, None, CtxErr, ErrReadTimeout
  <1>3. CASE Call(r)
    <2>1. CASE Closed /\ Return(r, closeErr)
      <3>1. closeErr \notin {"response", "stream"}
        BY <2>1 DEF CloseOK, Closed, OwnOutcomes
      <3> QED  BY <1>1, <1>3, <2>1, <3>1 DEF Call
    <2>2. CASE UNCHANGED result
      BY <1>3, <2>2, UserStutters DEF Call, User!vars
    <2> QED  BY <1>3, <2>1, <2>2 DEF Call
  <1>4. CASE Register(r) \/ SendReturns(r) \/ RequestStops(r)
    BY <1>4, UserStutters DEF Register, SendReturns, RequestStops, User!vars
  <1>5. CASE Transmit(r)
    <2>1. /\ Outcomes' = Outcomes /\ BodyEnds' = BodyEnds /\ ChunksRead' = ChunksRead
      BY <1>5, UserStutters DEF Transmit
    <2>2. PICK t \in Replies : script' = [script EXCEPT ![r] = t]
      BY <1>5 DEF Transmit
    <2>3. script' \in [Requests -> Seq(User!Reply)]
      BY <1>0, <2>2, CallerAssumption DEF TypeOK, Reply, Kinds, User!Reply, User!Kinds
    <2>4. script[r] = <<>> /\ \A s \in Requests \ {r} : script'[s] = script[s]
      BY <1>0, <1>5, <2>2 DEF Transmit, FlowOK, TypeOK
    <2>5. \A s \in Requests : /\ Len(script[s]) <= Len(script'[s])
                              /\ \A i \in 1..Len(script[s]) : script'[s][i] = script[s][i]
      <3>1. \A s \in Requests : Len(script[s]) \in Nat /\ Len(script'[s]) \in Nat
        BY <1>0, <2>3 DEF TypeOK
      <3>2. Len(script[r]) = 0
        BY <2>4
      <3> QED  BY <2>4, <3>1, <3>2
    <2>6. User!Grows
      BY <2>1, <2>3, <2>5 DEF User!Grows
    <2>7. User!Fail({})
      BY <2>1, <2>6 DEF User!Fail, Outcomes
    <2> QED  BY <2>7 DEF User!Next
  <1>6. CASE SendFails(r)
    <2>1. /\ pc[r] # "returned" /\ Return(r, "sendError")
          /\ UNCHANGED <<script, bodyVars>>
      BY <1>6 DEF SendFails
    <2>2. "sendError" \notin {"response", "stream"}
      OBVIOUS
    <2> QED  BY <1>1, <2>1, <2>2
  <1>7. CASE RequestGivesUp(r)
    <2>1. PICK e \in StopReasons(r \in ctxDone) : Return(r, e)
      BY <1>7 DEF RequestGivesUp
    <2> QED  BY <1>1, <1>2, <1>7, <2>1 DEF RequestGivesUp
  <1>8. CASE FirstFrameEnds(r)
    <2> DEFINE c == Content(Head(queue[r]))
    <2>1. Pop(r) /\ pc[r] = "waiting" /\ UNCHANGED <<script, bodyVars>>
      BY <1>8 DEF FirstFrameEnds
    <2>2. c = script[r][msg'[r].n] /\ msg'[r].n \in 1..Len(script[r])
      BY <2>1, TakenContent
    <2>3. c \in Reply
      BY <1>0, <2>2 DEF TypeOK
    <2>4. \/ \E e \in {"unexpectedType", "decodeError", "remoteError"} : Return(r, e)
          \/ Return(r, "response") /\ c.kind = "Response" /\ c.ok
      BY <1>8 DEF FirstFrameEnds
    <2>5. CASE \E e \in {"unexpectedType", "decodeError", "remoteError"} : Return(r, e)
      BY <1>1, <2>1, <2>5
    <2>6. CASE Return(r, "response") /\ c.kind = "Response" /\ c.ok
      <3>1. script[r][msg'[r].n] = Good("Response")
        BY <2>2, <2>3, <2>6 DEF Reply, Good
      <3>2. \A s \in Requests : EndOf(s)' = EndOf(s)
        BY <2>1 DEF EndOf
      <3>3. result[r] = None
        BY <1>0, <2>1 DEF SeenOK
      <3> QED  BY <1>0, <2>1, <2>2, <2>6, <3>1, <3>2, <3>3, UserResolves
    <2> QED  BY <2>4, <2>5, <2>6
  <1>9. CASE FirstFrameStarts(r)
    <2> DEFINE c == Content(Head(queue[r]))
    <2>1. /\ Pop(r) /\ pc[r] = "waiting" /\ UNCHANGED <<script, ended, got>>
          /\ body' = [body EXCEPT ![r] = "open"]
          /\ Return(r, "stream") /\ c.kind = "Start" /\ c.ok
      BY <1>9 DEF FirstFrameStarts
    <2>2. c = script[r][msg'[r].n] /\ msg'[r].n \in 1..Len(script[r])
      BY <2>1, TakenContent
    <2>3. script[r][msg'[r].n] = Good("Start")
      <3>1. c \in Reply
        BY <1>0, <2>2 DEF TypeOK
      <3> QED  BY <2>1, <2>2, <3>1 DEF Reply, Good
    <2>4. result[r] = None /\ body[r] = "none"
      BY <1>0, <2>1 DEF SeenOK, Handover
    <2>5. \A s \in Requests : EndOf(s)' = EndOf(s)
      BY <1>0, <2>1, <2>4 DEF EndOf, TypeOK
    <2> QED  BY <1>0, <2>1, <2>2, <2>3, <2>4, <2>5, UserResolves
  <1> QED  BY <1>3, <1>4, <1>5, <1>6, <1>7, <1>8, <1>9 DEF RequestStep

\* Steps of the pump: it ends a body that nobody has left, or one that nobody
\* looks at any more.
LEMMA PumpEndsBody ==
    ASSUME TypeOK, NEW r \in Requests, SeenOK(r), NEW e, ended' = [ended EXCEPT ![r] = e],
           pump[r] \in {"waiting", "stopping"},
           e = EOF => \E n \in 1..Len(script[r]) :
                         script[r][n].kind = "End" /\ User!CaughtUp(r, n),
           result' = result, body' = body, got' = got, script' = script
    PROVE  [User!Next]_User!vars
  <1>1. ended[r] = None /\ ended'[r] = e /\ \A s \in Requests \ {r} : ended'[s] = ended[s]
    BY DEF SeenOK, TypeOK
  <1>2. \A s \in Requests \ {r} : EndOf(s)' = EndOf(s)
    BY <1>1 DEF EndOf
  <1>3. CASE body[r] \notin {"none", "open"} \/ e = None
    <2>1. EndOf(r)' = EndOf(r)
      BY <1>1, <1>3 DEF EndOf
    <2>2. Outcomes' = Outcomes /\ BodyEnds' = BodyEnds /\ ChunksRead' = ChunksRead
      BY <1>2, <2>1 DEF Outcomes, BodyEnds, ChunksRead, OutcomeOf
    <2> QED  BY <2>2 DEF User!vars
  <1>4. CASE body[r] \in {"none", "open"} /\ e # None
    <2>1. Outcomes[r] = "Start" /\ BodyEnds[r] = "open"
      <3>1. result[r] = "stream"
        BY DEF SeenOK
      <3>2. OutcomeOf(r) = "Start"
        BY <3>1 DEF OutcomeOf, None
      <3>3. EndOf(r) = "open"
        BY <1>1, <1>4 DEF EndOf, None, EOF
      <3> QED  BY <3>2, <3>3, UserFacts
    <2>2. EndOf(r)' = IF e = EOF THEN "eof" ELSE "error"
      BY <1>1, <1>4 DEF EndOf
    <2>3. User!Ends(r, IF e = EOF THEN "eof" ELSE "error")
      BY <1>2, <2>2, UserEnds
    <2>4. CASE e = EOF
      <3>1. User!Finish(r)
        BY <2>1, <2>3, <2>4 DEF User!Finish, User!Streaming
      <3> QED  BY <3>1 DEF User!Next
    <2>5. CASE e # EOF
      <3>1. User!Break(r)
        BY <2>1, <2>3, <2>5 DEF User!Break, User!Streaming
      <3> QED  BY <3>1 DEF User!Next
    <2> QED  BY <2>4, <2>5
  <1> QED  BY <1>3, <1>4 DEF TypeOK

\* A reader who has every chunk that came before frame n is caught up with it.
LEMMA GotAll ==
    ASSUME TypeOK, NEW r \in Requests, NEW n \in 1..Len(script[r]),
           \A f \in ChunksOf(r) : f.n < n => \E i \in 1..Len(got[r]) : got[r][i] = f
    PROVE  User!CaughtUp(r, n)
  <1> SUFFICES ASSUME NEW k \in User!Chunks(r), k < n
               PROVE  \E i \in 1..Len(ChunksRead[r]) : ChunksRead[r][i] = k
    BY DEF User!CaughtUp
  <1>1. k \in 1..Len(script[r]) /\ script[r][k].kind = "Chunk"
    BY DEF User!Chunks, User!Good
  <1>2. Frame(r, k) \in ChunksOf(r) /\ Frame(r, k).n = k
    BY <1>1, ChunkFrame DEF Frame
  <1>3. PICK i \in 1..Len(got[r]) : got[r][i] = Frame(r, k)
    BY <1>2
  <1>4. ChunksRead[r] = [j \in 1..Len(got[r]) |-> got[r][j].n] /\ Len(got[r]) \in Nat
    BY DEF ChunksRead, TypeOK
  <1>5. Len(ChunksRead[r]) = Len(got[r]) /\ ChunksRead[r][i] = k
    BY <1>2, <1>3, <1>4
  <1> QED  BY <1>5

\* The pump takes a frame.
LEMMA TakeImplements ==
    ASSUME FlowInv, Seen, Delivered, NEW r \in Requests, PumpTakes(r)
    PROVE  [User!Next]_User!vars
  <1> USE DEF requestVars, PumpEnds
  <1> DEFINE c == Content(Head(queue[r]))
  <1>0. TypeOK /\ SeenOK(r) /\ DeliveredOK(r)
    BY DEF FlowInv, SlotInv, Seen, Delivered
  <1>1. /\ Pop(r) /\ pump[r] = "waiting" /\ PumpSwitch(r, c)
        /\ result' = result /\ body' = body /\ got' = got /\ script' = script
    BY DEF PumpTakes
  <1>2. c = script[r][msg'[r].n] /\ msg'[r].n \in 1..Len(script[r]) /\ msg'[r].n = msg[r].n + 1
        /\ msg[r].n \in Nat
    BY <1>1, TakenContent
  <1>3. User!CaughtUp(r, msg'[r].n)
    <2> SUFFICES ASSUME NEW f \in ChunksOf(r), f.n < msg'[r].n
                 PROVE  \E i \in 1..Len(got[r]) : got[r][i] = f
      BY <1>0, <1>2, GotAll
    <2>1. f.n \in Nat
      BY <1>0, ChunkIsFrame
    <2>2. f.n < msg[r].n \/ f.n = msg[r].n
      BY <1>2, <2>1
    <2> QED  BY <1>0, <1>1, <2>2 DEF DeliveredOK
  <1>4. CASE ended' = ended
    BY <1>1, <1>4, UserStutters DEF User!vars
  <1>5. ASSUME NEW e, PumpEnds(r, e), e = EOF => c.kind = "End" PROVE [User!Next]_User!vars
    BY <1>0, <1>1, <1>2, <1>3, <1>5, PumpEndsBody
  <1> QED  BY <1>1, <1>4, <1>5 DEF PumpSwitch, EOF

\* The reader is given a chunk.
LEMMA ReadImplements ==
    ASSUME FlowInv, Seen, Delivered, NEW r \in Requests, Read(r)
    PROVE  [User!Next]_User!vars
  <1> DEFINE n == msg[r].n
  <1>0. TypeOK /\ SeenOK(r) /\ DeliveredOK(r) /\ FlowOK(r)
    BY DEF FlowInv, SlotInv, Seen, Delivered, Flow
  <1>1. /\ pump[r] = "writing" /\ body[r] = "open" /\ got' = [got EXCEPT ![r] = Append(@, msg[r])]
        /\ result' = result /\ body' = body /\ ended' = ended /\ script' = script
    BY DEF Read, requestVars
  <1>2. Outcomes' = Outcomes /\ BodyEnds' = BodyEnds
    BY <1>1 DEF Outcomes, BodyEnds, OutcomeOf, EndOf
  <1>3. Outcomes[r] = "Start" /\ BodyEnds[r] = "open"
    <2>1. result[r] = "stream" /\ ended[r] = None
      BY <1>0, <1>1 DEF SeenOK
    <2>2. OutcomeOf(r) = "Start" /\ EndOf(r) = "open"
      BY <1>1, <2>1 DEF OutcomeOf, EndOf, None, EOF
    <2> QED  BY <2>2, UserFacts
  <1>4. n \in User!Chunks(r)
    <2>1. msg[r] \in ChunksOf(r) /\ script[r][n].ok /\ n \in 1..Len(script[r])
      BY <1>0, <1>1 DEF SeenOK, DeliveredOK
    <2>2. script[r][n].kind = "Chunk" /\ script[r][n] \in Reply
      BY <1>0, <2>1, ChunkIsFrame DEF TypeOK
    <2>3. script[r][n] = User!Good("Chunk")
      BY <2>1, <2>2 DEF Reply, User!Good
    <2> QED  BY <2>1, <2>3 DEF User!Chunks
  <1>5. got[r] \in Seq(AllFrames) /\ ChunksRead[r] = [i \in 1..Len(got[r]) |-> got[r][i].n]
    BY <1>0 DEF TypeOK, ChunksRead
  <1>6. \A i \in 1..Len(ChunksRead[r]) : ChunksRead[r][i] < n
    <2>1. \A i \in 1..Len(got[r]) : got[r][i].n < n
      BY <1>0, <1>1 DEF DeliveredOK
    <2>2. Len(ChunksRead[r]) = Len(got[r])
      BY <1>5
    <2> QED  BY <1>5, <2>1, <2>2
  <1>7. User!CaughtUp(r, n)
    BY <1>0, <1>1, GotAll DEF DeliveredOK
  <1>8. ChunksRead' = [ChunksRead EXCEPT ![r] = Append(@, n)]
    <2>1. got'[r] = Append(got[r], msg[r]) /\ msg[r] \in AllFrames
          /\ \A s \in Requests \ {r} : got'[s] = got[s]
      BY <1>0, <1>1 DEF TypeOK
    <2>2. ChunksRead'[r] = [i \in 1..(Len(got[r]) + 1) |-> Append(got[r], msg[r])[i].n]
      BY <1>5, <2>1 DEF ChunksRead
    <2>3. ChunksRead[r] \in Seq(Nat) /\ n \in Nat /\ Len(ChunksRead[r]) = Len(got[r])
      <3>0. \A f \in AllFrames : f.n \in Nat
        BY DEF AllFrames
      <3>1. Len(got[r]) \in Nat /\ \A i \in 1..Len(got[r]) : got[r][i] \in AllFrames
        BY <1>5
      <3>2. n \in Nat /\ \A i \in 1..Len(got[r]) : got[r][i].n \in Nat
        BY <2>1, <3>0, <3>1
      <3> QED  BY <1>5, <3>1, <3>2
    <2>4. ChunksRead'[r] = Append(ChunksRead[r], n)
      BY <1>5, <2>1, <2>2, <2>3
    <2>5. \A s \in Requests \ {r} : ChunksRead'[s] = ChunksRead[s]
      BY <2>1 DEF ChunksRead
    <2> QED  BY <2>4, <2>5 DEF ChunksRead
  <1>9. User!Give(r, n)
    BY <1>1, <1>2, <1>3, <1>6, <1>7, <1>8 DEF User!Give, User!Streaming
  <1> QED  BY <1>4, <1>9 DEF User!Next

\* The user closes or forgets the body.
LEMMA BodyImplements ==
    ASSUME TypeOK, Seen, NEW r \in Requests, BodyStep(r)
    PROVE  [User!Next]_User!vars
  <1>1. /\ result' = result /\ ended' = ended /\ got' = got /\ script' = script
        /\ \A s \in Requests \ {r} : body'[s] = body[s]
        /\ body'[r] \notin {"none", "open"} /\ body[r] # "none"
    BY DEF BodyStep, CloseBody, DropBody, Finalize, ClosePipe, SetBody, bodyVars, requestVars, TypeOK
  <1>2. EndOf(r)' = "left" /\ \A s \in Requests \ {r} : EndOf(s)' = EndOf(s)
    BY <1>1 DEF EndOf
  <1>3. Outcomes[r] = "Start"
    <2>1. result[r] = "stream"
      BY <1>1 DEF Seen, SeenOK
    <2>2. OutcomeOf(r) = "Start"
      BY <2>1 DEF OutcomeOf, None
    <2> QED  BY <2>2, UserFacts
  <1>4. User!Ends(r, "left")
    BY <1>1, <1>2, UserEnds
  <1> QED  BY <1>3, <1>4 DEF User!Leave, User!Next

\* Every step of the Caller is one that ResponseStream allows, or is hidden
\* from the user.
LEMMA CallerImplements ==
    ASSUME OwnOutcomes \cap CloseErrors = {}, FlowInv, Seen, Delivered, Agreed, [Next]_vars
    PROVE  [User!Next]_User!vars
  <1> USE DEF callerVars, loopVars, requestVars, bodyVars
  <1>0. TypeOK /\ CloseOK
    BY DEF FlowInv, SlotInv, Agreed
  <1>1. ASSUME NEW r \in Requests, Call(r) \/ RequestStep(r) PROVE [User!Next]_User!vars
    BY <1>0, <1>1, RequestImplements
  <1>2. ASSUME NEW r \in Requests, PumpTakes(r) PROVE [User!Next]_User!vars
    BY <1>2, TakeImplements
  <1>3. ASSUME NEW r \in Requests, PumpGivesUp(r) PROVE [User!Next]_User!vars
    <2>1. PICK e \in StopReasons(PumpCtxDone(r)) : PumpEnds(r, e)
      BY <1>3 DEF PumpGivesUp
    <2>2. e # EOF
      BY <1>0, CloseErrorsAreErrors
      DEF StopReasons, CloseOK, Closed, OwnOutcomes, EOF, CtxErr, ErrReadTimeout
    <2>3. SeenOK(r)
      BY DEF Seen
    <2> QED  BY <1>0, <1>3, <2>1, <2>2, <2>3, PumpEndsBody DEF PumpGivesUp, PumpEnds
  <1>4. ASSUME NEW r \in Requests, PumpStarts(r) \/ WriteFails(r) \/ PumpStops(r) \/ PumpReturns(r)
        PROVE  [User!Next]_User!vars
    BY <1>4, UserStutters DEF PumpStarts, WriteFails, PumpStops, PumpReturns, User!vars
  <1>5. ASSUME NEW r \in Requests, Read(r) PROVE [User!Next]_User!vars
    BY <1>5, ReadImplements
  <1>6. ASSUME NEW r \in Requests, BodyStep(r) PROVE [User!Next]_User!vars
    BY <1>0, <1>6, BodyImplements
  <1>7. ASSUME NEW r \in Requests, Cancel(r) \/ LookUp(r) PROVE [User!Next]_User!vars
    BY <1>7, UserStutters DEF Cancel, LookUp, User!vars
  <1>8. CASE Push \/ Tick \/ CloseDone \/ (\E e \in CloseArgs : CloseSets(e)) \/ UNCHANGED vars
    BY <1>8, UserStutters DEF Push, Tick, CloseDone, CloseSets, vars, User!vars
  <1> QED  BY <1>1, <1>2, <1>3, <1>4, <1>5, <1>6, <1>7, <1>8 DEF Next, PumpStep

\* A reply that has grown behind the frames that were in it.
Grown(s) ==
    /\ Len(script'[s]) \in Nat /\ Len(script[s]) \in Nat /\ Len(script[s]) <= Len(script'[s])
    /\ \A i \in 1..Len(script[s]) : script'[s][i] = script[s][i]

\* A body is what it was when its reply grows.
LEMMA BodyGrows ==
    ASSUME NEW s \in Requests, DeliveredOK(s), Grown(s),
           msg'[s] = msg[s], got'[s] = got[s], pump'[s] = pump[s], ended'[s] = ended[s]
    PROVE  DeliveredOK(s)'
  <1>1. CASE pump[s] = "none"
    BY <1>1, NoPump
  <1>2. CASE pump[s] # "none"
    <2>1. msg[s].n \in 1..Len(script[s]) /\ msg[s].n \in Nat
      BY <1>2 DEF DeliveredOK, Grown
    <2>2. msg[s].n \in 1..Len(script'[s])
      BY <2>1 DEF Grown
    <2>3. ASSUME NEW f \in ChunksOf(s)' PROVE f \in ChunksOf(s) \/ f.n > msg[s].n
      <3>1. PICK n \in 1..Len(script'[s]) : f = Frame(s, n) /\ script'[s][n].kind = "Chunk"
        BY DEF ChunksOf
      <3>2. f.n = n
        BY <3>1 DEF Frame
      <3>3. CASE n \in 1..Len(script[s])
        BY <3>1, <3>3 DEF ChunksOf, Grown
      <3>4. CASE n > Len(script[s])
        BY <2>1, <3>2, <3>4 DEF Grown
      <3> QED  BY <3>1, <3>3, <3>4 DEF Grown
    <2>4. ChunksOf(s) \subseteq ChunksOf(s)'
      BY DEF ChunksOf, Grown
    <2>5. \A f \in ChunksOf(s)' : f.n < msg[s].n \/ f.n = msg[s].n => f \in ChunksOf(s)
      <3> SUFFICES ASSUME NEW f \in ChunksOf(s)', f.n < msg[s].n \/ f.n = msg[s].n
                   PROVE  ~(f.n > msg[s].n)
        BY <2>3
      <3>1. f.n \in Nat
        BY DEF ChunksOf, Frame
      <3> QED  BY <2>1, <3>1
    <2> QED  BY <1>2, <2>2, <2>4, <2>5 DEF DeliveredOK
  <1> QED  BY <1>1, <1>2

\* To the user, the peer that goes on is all that happens then.
LEMMA UserGrows ==
    ASSUME TypeOK, script' \in [Requests -> Seq(Reply)], \A s \in Requests : Grown(s),
           result' = result, body' = body, ended' = ended, got' = got
    PROVE  User!Next
  <1>1. Outcomes' = Outcomes /\ BodyEnds' = BodyEnds /\ ChunksRead' = ChunksRead
    BY UserStutters
  <1>2. User!Grows
    BY <1>1 DEF User!Grows, Grown, Reply, Kinds, User!Reply, User!Kinds
  <1>3. Outcomes' = [r \in Requests |-> IF r \in {} THEN "failed" ELSE Outcomes[r]]
    BY <1>1 DEF Outcomes
  <1>4. User!Fail({})
    BY <1>2, <1>3 DEF User!Fail
  <1> QED  BY <1>4 DEF User!Next

\* What the user sees at first.
LEMMA UserInit == Init => Seen /\ Delivered /\ Agreed /\ User!Init
  <1> SUFFICES ASSUME Init PROVE Seen /\ Delivered /\ Agreed /\ User!Init
    OBVIOUS
  <1>1. \A r \in Requests : OutcomeOf(r) = "none" /\ EndOf(r) = "open"
    BY DEF Init, OutcomeOf, EndOf, None, EOF
  <1>2. \A r \in Requests : ChunksRead[r] = <<>>
    <2> SUFFICES ASSUME NEW r \in Requests PROVE ChunksRead[r] = <<>>
      OBVIOUS
    <2>1. ChunksRead[r] = [i \in 1..Len(got[r]) |-> got[r][i].n] /\ Len(got[r]) = 0
      BY EmptySeq DEF ChunksRead, Init
    <2> QED  BY <2>1
  <1>3. script = [r \in Requests |-> <<>>]
    BY DEF Init
  <1>4. User!Init
    BY <1>1, <1>2, <1>3 DEF User!Init, Outcomes, BodyEnds, ChunksRead
  <1>5. Seen /\ Agreed
    BY DEF Init, Seen, SeenOK, Agreed, CloseOK, AgreedOK, OwnOutcomes
  <1>6. Delivered
    BY DeliveredInit
  <1> QED  BY <1>4, <1>5, <1>6

\* The Go Caller implements ResponseStream: for any number of requests, any
\* replies and any interleaving of read loop, pumps, timers, contexts, Close
\* and users, as long as Close is not given an error that the Caller reports of
\* its own accord (io.EOF is one of those).
THEOREM CallerImplementsStream ==
    ASSUME OwnOutcomes \cap CloseErrors = {}
    PROVE  SafeSpec => ImplementsStream
  <1>1. Init => Seen /\ Agreed /\ User!Init
    BY UserInit
  <1>2. FlowInv /\ Seen /\ [Next]_vars => Seen'
    BY SeenStep
  <1>3. TypeOK /\ Agreed /\ [Next]_vars => Agreed'
    BY AgreedStep
  <1>4. FlowInv /\ Seen /\ Delivered /\ Agreed /\ [Next]_vars => [User!Next]_User!vars
    BY CallerImplements
  <1> QED
    BY <1>1, <1>2, <1>3, <1>4, FlowCorrect, DeliveredCorrect, TypeCorrect, PTL
    DEF SafeSpec, ImplementsStream, User!Spec

-------------------------------------------------------------------------------
\* Slots are released: what of it is no matter of fairness.

\* With a read timeout, a timer watches every consumer that waits for a frame,
\* or that stands in pw.Write.
WatchedOK(r) ==
    ReadTimeout > 0 /\ (pc[r] = "waiting" \/ pump[r] \in {"waiting", "writing"})
        => timer[r] # Off

Watched == \A r \in Requests : WatchedOK(r)

\* A request whose timer runs on, ...
LEMMA SameWatch ==
    ASSUME NEW s \in Requests, WatchedOK(s), timer'[s] = timer[s],
           pc'[s] = "waiting" => pc[s] = "waiting",
           pump'[s] \in {"waiting", "writing"} => pump[s] \in {"waiting", "writing"}
    PROVE  WatchedOK(s)'
  BY DEF WatchedOK

\* ... and one that waits no longer or has a timer anew, is watched.
LEMMA NewWatch ==
    ASSUME NEW s \in Requests,
           \/ timer'[s] = NewTimer
           \/ pc'[s] # "waiting" /\ pump'[s] \notin {"waiting", "writing"}
    PROVE  WatchedOK(s)'
  BY CallerAssumption DEF WatchedOK, NewTimer, Off

\* No step leaves a consumer unwatched.
LEMMA WatchedStep ==
    ASSUME TypeOK, Handover, Watched, [Next]_vars
    PROVE  Watched'
  <1> SUFFICES ASSUME NEW s \in Requests PROVE WatchedOK(s)'
    BY DEF Watched
  <1> USE DEF callerVars, loopVars, requestVars, bodyVars, clockVars, Return, PumpEnds, SetBody
  <1>1. WatchedOK(s) /\ TypeOK /\ Handover
    BY DEF Watched
  <1>2. ASSUME NEW r \in Requests, r # s, RequestStep(r) \/ PumpStep(r) PROVE WatchedOK(s)'
    <2>1. timer'[s] = timer[s] /\ pc'[s] = pc[s] /\ pump'[s] = pump[s]
      BY <1>1, <1>2
      DEF TypeOK, RequestStep, Register, Transmit, SendReturns, SendFails, FirstFrameEnds,
          FirstFrameStarts, RequestStops, RequestGivesUp, PumpStep, PumpStarts, PumpTakes,
          PumpSwitch, ResetTimer, WriteFails, PumpStops, PumpGivesUp, PumpReturns
    <2> QED  BY <1>1, <2>1, SameWatch
  <1>3. CASE Register(s) \/ Transmit(s) \/ SendFails(s) \/ RequestStops(s)
    <2>1. timer' = timer /\ pump' = pump /\ (pc'[s] = "waiting" => pc[s] = "waiting")
      BY <1>1, <1>3 DEF Register, Transmit, SendFails, RequestStops, TypeOK
    <2> QED  BY <1>1, <2>1, SameWatch
  <1>4. CASE SendReturns(s)
    BY <1>1, <1>4, NewWatch DEF SendReturns, TypeOK
  <1>5. CASE FirstFrameEnds(s) \/ FirstFrameStarts(s) \/ RequestGivesUp(s)
    <2>1. pc[s] # "returned" /\ pc'[s] # "waiting" /\ (pump' = pump \/ pump'[s] = "starting")
      BY <1>1, <1>5 DEF FirstFrameEnds, FirstFrameStarts, RequestGivesUp, TypeOK
    <2>2. pump[s] = "none"
      BY <1>1, <2>1 DEF Handover
    <2> QED  BY <2>1, <2>2, NewWatch
  <1>6. CASE PumpStarts(s) \/ PumpTakes(s)
    BY <1>1, <1>6, NewWatch DEF PumpStarts, PumpTakes, ResetTimer, TypeOK
  <1>7. CASE WriteFails(s) \/ PumpStops(s) \/ PumpGivesUp(s)
    <2>1. /\ timer' = timer /\ pc' = pc
          /\ pump'[s] \in {"waiting", "writing"} => pump[s] \in {"waiting", "writing"}
      BY <1>1, <1>7 DEF WriteFails, PumpStops, PumpGivesUp, TypeOK
    <2> QED  BY <1>1, <2>1, SameWatch
  <1>8. CASE PumpReturns(s)
    <2>1. pc[s] = "returned" /\ pc' = pc /\ pump'[s] = "done"
      BY <1>1, <1>8 DEF PumpReturns, TypeOK, Handover
    <2> QED  BY <2>1, NewWatch
  <1>9. ASSUME NEW r \in Requests, Call(r) \/ Read(r) \/ BodyStep(r) \/ Cancel(r) \/ LookUp(r)
        PROVE  WatchedOK(s)'
    <2>1. /\ timer' = timer
          /\ pc'[s] = "waiting" => pc[s] = "waiting"
          /\ pump'[s] \in {"waiting", "writing"} => pump[s] \in {"waiting", "writing"}
      BY <1>1, <1>9
      DEF Call, Read, BodyStep, CloseBody, DropBody, Finalize, ClosePipe, Cancel, LookUp, TypeOK
    <2> QED  BY <1>1, <2>1, SameWatch
  <1>10. CASE Tick
    <2>1. timer[s] \in {Off} \cup 0..ReadTimeout /\ pc' = pc /\ pump' = pump
      BY <1>1, <1>10 DEF Tick, TypeOK
    <2>2. timer'[s] = IF timer[s] > 0 THEN timer[s] - 1 ELSE timer[s]
      BY <1>10 DEF Tick
    <2>3. timer'[s] = Off => timer[s] = Off
      BY <2>1, <2>2, CallerAssumption DEF Off
    <2> QED  BY <1>1, <2>1, <2>3 DEF WatchedOK
  <1>11. CASE Push \/ CloseDone \/ (\E e \in CloseArgs : CloseSets(e)) \/ UNCHANGED vars
    BY <1>1, <1>11, SameWatch DEF Push, CloseDone, CloseSets, vars
  <1> QED  BY <1>2, <1>3, <1>4, <1>5, <1>6, <1>7, <1>8, <1>9, <1>10, <1>11
           DEF Next, RequestStep, PumpStep

\* What goes on for r by itself.
Due(r) ==
    \/ pc[r] \in {"registered", "sending", "stopping"}
    \/ pc[r] = "waiting" /\ (queue[r] # <<>> \/ MustStop(r, r \in ctxDone))
    \/ pump[r] \in {"starting", "stopping", "returning"}
    \/ pump[r] = "waiting" /\ (queue[r] # <<>> \/ MustStop(r, PumpCtxDone(r)))
    \/ pump[r] = "writing" /\ body[r] = "closed"
    \/ body[r] \in {"dropped", "cancelled"}

\* The pump stands before a reader who has the body and does not read it.
HeldUp(r) == pump[r] = "writing" /\ body[r] = "open"

\* A pending slot is on its way to being removed as soon as the Caller is closed,
\* unless its pump writes to a body that its user holds on to; as soon as the
\* user lets go of the body; and, with a read timeout, always, if only because
\* a timer runs that will end the wait.
ReleaseIsDue ==
    \A r \in pending :
        /\ Closed => Due(r) \/ HeldUp(r)
        /\ body[r] \in {"dropped", "cancelled", "closed"} => Due(r)
        /\ ReadTimeout > 0 => Due(r) \/ HeldUp(r) \/ timer[r] > 0

\* No slot is left to nobody: after Close, after the user has let go, and under
\* a read timeout, the goroutine that will remove it has a step to take, or its
\* timer runs.
THEOREM SlotsAreReleased == SafeSpec => []ReleaseIsDue
  <1>1. SlotInv /\ Seen /\ Watched => ReleaseIsDue
    <2> SUFFICES ASSUME SlotInv, Seen, Watched, NEW r \in pending, ~Due(r)
                 PROVE  /\ Closed => HeldUp(r)
                        /\ body[r] \notin {"dropped", "cancelled", "closed"}
                        /\ ReadTimeout > 0 => HeldUp(r) \/ timer[r] > 0
      BY DEF ReleaseIsDue
    <2>1. /\ r \in Requests /\ TypeOK /\ HasConsumer(r) /\ SeenOK(r) /\ WatchedOK(r)
          /\ pump[r] # "none" => pc[r] = "returned"
      BY DEF SlotInv, TypeOK, SlotIffConsumer, Seen, Watched, Handover
    <2>2. pc[r] = "waiting" \/ pump[r] \in {"waiting", "writing"}
      BY <2>1 DEF HasConsumer, Due, TypeOK, PumpPlaces
    <2>3. body[r] \notin {"dropped", "cancelled"}
      BY DEF Due
    <2>4. pump[r] = "writing" => body[r] = "open"
      BY <2>1, <2>3 DEF Due, SeenOK, TypeOK
    <2>5. CASE pump[r] = "writing"
      BY <2>4, <2>5 DEF HeldUp
    <2>6. CASE pump[r] = "waiting"
      <3>1. queue[r] = <<>> /\ ~MustStop(r, PumpCtxDone(r))
        BY <2>6 DEF Due
      <3>2. ~Closed /\ body[r] # "closed" /\ timer[r] # 0
        BY <3>1 DEF MustStop, PumpCtxDone
      <3>3. ReadTimeout > 0 => timer[r] > 0
        BY <2>1, <2>6, <3>2, CallerAssumption DEF WatchedOK, TypeOK, Off
      <3> QED  BY <2>3, <3>2, <3>3
    <2>7. CASE pc[r] = "waiting"
      <3>1. queue[r] = <<>> /\ ~MustStop(r, r \in ctxDone)
        BY <2>7 DEF Due
      <3>2. ~Closed /\ timer[r] # 0
        BY <3>1 DEF MustStop
      <3>3. ReadTimeout > 0 => timer[r] > 0
        BY <2>1, <2>7, <3>2, CallerAssumption DEF WatchedOK, TypeOK, Off
      <3>4. body[r] = "none"
        BY <2>1, <2>7 DEF SeenOK
      <3> QED  BY <3>2, <3>3, <3>4
    <2> QED  BY <2>2, <2>5, <2>6, <2>7
  <1>2. Init => Seen /\ Watched
    <2>1. Init => Seen
      BY UserInit
    <2>2. Init => Watched
      BY DEF Init, Watched, WatchedOK
    <2> QED  BY <2>1, <2>2
  <1>3. FlowInv /\ Seen /\ [Next]_vars => Seen'
    BY SeenStep
  <1>4. SlotInv /\ Watched /\ [Next]_vars => Watched'
    BY WatchedStep DEF SlotInv
  <1>5. FlowInv => SlotInv
    BY DEF FlowInv
  <1> QED  BY <1>1, <1>2, <1>3, <1>4, <1>5, FlowCorrect, PTL DEF SafeSpec

\* How many steps of its own, or ticks of the clock, Request has at most left.
Left(r) ==
    CASE pc[r] = "idle" -> ReadTimeout + 7
      [] pc[r] = "checked" -> ReadTimeout + 6
      [] pc[r] = "registered" -> ReadTimeout + 5
      [] pc[r] = "sending" -> ReadTimeout + 4
      [] pc[r] = "waiting" -> timer[r] + 3
      [] pc[r] = "stopping" -> 1
      [] pc[r] = "returned" -> 0

\* Its own steps, and ticks while it waits under a timeout, bring Request nearer
\* to its return; nobody else sets it back.
Hurries(r) ==
    /\ Left(r)' <= Left(r)
    /\ Call(r) \/ RequestStep(r) => Left(r)' < Left(r)
    /\ pc[r] = "waiting" /\ timer[r] > 0 /\ Tick => Left(r)' < Left(r)

LEMMA LeftFacts ==
    ASSUME NEW r \in Requests
    PROVE  /\ pc[r] = "idle" => Left(r) = ReadTimeout + 7
           /\ pc[r] = "checked" => Left(r) = ReadTimeout + 6
           /\ pc[r] = "registered" => Left(r) = ReadTimeout + 5
           /\ pc[r] = "sending" => Left(r) = ReadTimeout + 4
           /\ pc[r] = "waiting" => Left(r) = timer[r] + 3
           /\ pc[r] = "stopping" => Left(r) = 1
           /\ pc[r] = "returned" => Left(r) = 0
  BY DEF Left

LEMMA LeftFactsNext ==
    ASSUME NEW r \in Requests
    PROVE  /\ pc'[r] = "checked" => Left(r)' = ReadTimeout + 6
           /\ pc'[r] = "registered" => Left(r)' = ReadTimeout + 5
           /\ pc'[r] = "sending" => Left(r)' = ReadTimeout + 4
           /\ pc'[r] = "waiting" => Left(r)' = timer'[r] + 3
           /\ pc'[r] = "stopping" => Left(r)' = 1
           /\ pc'[r] = "returned" => Left(r)' = 0
  BY DEF Left

\* What Request itself does.
LEMMA RequestAdvances ==
    ASSUME TypeOK, NEW r \in Requests, Call(r) \/ RequestStep(r)
    PROVE  Left(r)' < Left(r)
  <1> USE DEF callerVars, loopVars, requestVars, bodyVars, clockVars, Return
  <1>0. ReadTimeout \in Nat /\ timer[r] \in {Off} \cup 0..ReadTimeout
    BY CallerAssumption DEF TypeOK
  <1>1. CASE Call(r)
    <2>1. pc[r] = "idle" /\ pc'[r] \in {"returned", "checked"}
      BY <1>1 DEF Call, TypeOK
    <2> QED  BY <1>0, <2>1, LeftFacts, LeftFactsNext
  <1>2. CASE Register(r) \/ Transmit(r) \/ SendFails(r)
    <2>1. \/ pc[r] = "checked" /\ pc'[r] = "registered"
          \/ pc[r] = "registered" /\ pc'[r] \in {"sending", "returned"}
          \/ pc[r] = "sending" /\ pc'[r] = "returned"
      BY <1>2 DEF Register, Transmit, SendFails, TypeOK
    <2> QED  BY <1>0, <2>1, LeftFacts, LeftFactsNext
  <1>3. CASE SendReturns(r)
    <2>1. pc[r] = "sending" /\ pc'[r] = "waiting" /\ timer'[r] = NewTimer
      BY <1>3 DEF SendReturns, TypeOK
    <2> QED  BY <1>0, <2>1, LeftFacts, LeftFactsNext DEF NewTimer, Off
  <1>4. CASE FirstFrameEnds(r) \/ FirstFrameStarts(r) \/ RequestStops(r) \/ RequestGivesUp(r)
    <2>1. \/ pc[r] = "waiting" /\ pc'[r] \in {"returned", "stopping"}
          \/ pc[r] = "stopping" /\ pc'[r] = "returned"
      BY <1>4 DEF FirstFrameEnds, FirstFrameStarts, RequestStops, RequestGivesUp, TypeOK
    <2> QED  BY <1>0, <2>1, LeftFacts, LeftFactsNext DEF Off
  <1> QED  BY <1>1, <1>2, <1>3, <1>4 DEF RequestStep

\* What others do, with its timer or without.
LEMMA OthersStay ==
    ASSUME TypeOK, Handover, NEW r \in Requests, [Next]_vars, ~(Call(r) \/ RequestStep(r)), ~Tick
    PROVE  Left(r)' = Left(r)
  <1> USE DEF callerVars, loopVars, requestVars, bodyVars, clockVars, Return, PumpEnds, SetBody
  <1>1. ASSUME NEW q \in Requests, q # r, Call(q) \/ RequestStep(q) \/ PumpStep(q)
        PROVE  pc'[r] = pc[r] /\ timer'[r] = timer[r]
    BY <1>1
    DEF TypeOK, Call, RequestStep, Register, Transmit, SendReturns, SendFails, FirstFrameEnds,
        FirstFrameStarts, RequestStops, RequestGivesUp, PumpStep, PumpStarts, PumpTakes,
        ResetTimer, WriteFails, PumpStops, PumpGivesUp, PumpReturns
  <1>2. CASE PumpStep(r)
    <2>1. pump[r] # "none" /\ pc' = pc
      BY <1>2 DEF PumpStep, PumpStarts, PumpTakes, WriteFails, PumpStops, PumpGivesUp, PumpReturns
    <2>2. pc[r] = "returned" /\ pc'[r] = "returned"
      BY <2>1 DEF Handover
    <2> QED  BY <2>2, LeftFacts, LeftFactsNext
  <1>3. ASSUME NEW q \in Requests, Read(q) \/ BodyStep(q) \/ Cancel(q) \/ LookUp(q)
        PROVE  pc' = pc /\ timer' = timer
    BY <1>3 DEF Read, BodyStep, CloseBody, DropBody, Finalize, ClosePipe, Cancel, LookUp
  <1>4. CASE Push \/ CloseDone \/ (\E e \in CloseArgs : CloseSets(e)) \/ UNCHANGED vars
    BY <1>4 DEF Push, CloseDone, CloseSets, vars, Left
  <1> QED  BY <1>1, <1>2, <1>3, <1>4 DEF Next, Left

AllHurry == \A r \in Requests : Hurries(r)

\* Request is on its way to its return at all times: Left is a natural number,
\* zero when it has returned, that each of its own steps and, under a timeout,
\* each tick of its wait lowers, and that nothing raises.
THEOREM RequestsHurry ==
    SafeSpec => []( \A r \in Requests : Left(r) \in Nat /\ (Left(r) = 0 <=> pc[r] = "returned") )
                /\ [][AllHurry]_vars
  <1>1. ASSUME TypeOK, NEW r \in Requests
        PROVE  Left(r) \in Nat /\ (Left(r) = 0 <=> pc[r] = "returned")
    <2>1. /\ ReadTimeout \in Nat /\ timer[r] \in {Off} \cup 0..ReadTimeout
          /\ pc[r] \in RequestPlaces
      BY <1>1, CallerAssumption DEF TypeOK
    <2> QED  BY <2>1, LeftFacts DEF RequestPlaces, Off
  <1>2. ASSUME TypeOK, Handover, [Next]_vars, NEW r \in Requests PROVE Hurries(r)
    <2>0. Left(r) \in Nat
      BY <1>1, <1>2
    <2>1. CASE Call(r) \/ RequestStep(r)
      <3>1. Left(r)' < Left(r)
        BY <1>2, <2>1, RequestAdvances
      <3>2. TypeOK'
        BY <1>2, TypeStep
      <3>3. Left(r)' \in Nat
        <4>1. /\ ReadTimeout \in Nat /\ timer'[r] \in {Off} \cup 0..ReadTimeout
              /\ pc'[r] \in RequestPlaces /\ pc'[r] # "idle"
          BY <1>2, <2>1, <3>2, CallerAssumption
          DEF TypeOK, Call, RequestStep, Register, Transmit, SendReturns, SendFails,
              FirstFrameEnds, FirstFrameStarts, RequestStops, RequestGivesUp, Return
        <4> QED  BY <4>1, LeftFactsNext DEF RequestPlaces, Off
      <3> QED  BY <2>0, <3>1, <3>3 DEF Hurries
    <2>2. CASE Tick
      <3>1. ~(Call(r) \/ RequestStep(r)) \/ Left(r)' < Left(r)
        BY <1>2, RequestAdvances
      <3>2. /\ pc' = pc /\ timer[r] \in {Off} \cup 0..ReadTimeout /\ ReadTimeout \in Nat
            /\ timer'[r] = IF timer[r] > 0 THEN timer[r] - 1 ELSE timer[r]
        BY <1>2, <2>2, CallerAssumption DEF Tick, TypeOK, requestVars
      <3>3. CASE pc[r] = "waiting"
        <4>1. Left(r) = timer[r] + 3 /\ Left(r)' = timer'[r] + 3
          BY <3>2, <3>3, LeftFacts, LeftFactsNext
        <4> QED  BY <3>1, <3>2, <4>1 DEF Hurries, Off
      <3>4. CASE pc[r] # "waiting"
        <4>1. Left(r)' = Left(r)
          BY <3>2, <3>4 DEF Left
        <4> QED  BY <2>0, <3>1, <3>4, <4>1 DEF Hurries
      <3> QED  BY <3>3, <3>4
    <2>3. CASE ~(Call(r) \/ RequestStep(r)) /\ ~Tick
      BY <1>2, <2>0, <2>3, OthersStay DEF Hurries
    <2> QED  BY <2>1, <2>2, <2>3
  <1> DEFINE Counts == \A r \in Requests :
                          Left(r) \in Nat /\ (Left(r) = 0 <=> pc[r] = "returned")
  <1>3. FlowInv => Counts
    BY <1>1 DEF FlowInv, SlotInv
  <1>4. FlowInv /\ [Next]_vars => [AllHurry]_vars
    BY <1>2 DEF FlowInv, SlotInv, AllHurry
  <1> HIDE DEF Counts
  <1>5. SafeSpec => []Counts /\ [][AllHurry]_vars
    BY <1>3, <1>4, FlowCorrect, PTL DEF SafeSpec
  <1> QED  BY <1>5 DEF Counts

===============================================================================
