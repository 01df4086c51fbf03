--------------------------- MODULE FrameQueueProofs ---------------------------
(***************************************************************************)
(* Theorems about frameQueue for every number of pushers, every set of     *)
(* frames and every bound: its types, the absence of a lost wake-up, and   *)
(* that each of its steps is a step, or a stutter, of FrameChannel.        *)
(***************************************************************************)
EXTENDS FrameQueue, SequenceTheorems, TLAPS

-------------------------------------------------------------------------------
\* Types.

\* Removing the oldest frame leaves a sequence of frames.
LEMMA PopType ==
    ASSUME TypeOK, queue # <<>>
    PROVE  Head(queue) \in Frames /\ Tail(queue) \in Seq(Frames)
  BY DEF TypeOK

\* tryPop keeps the types, whichever of its two outcomes it has.
LEMMA PopTypeOK ==
    ASSUME TypeOK, NEW next \in Locations, PopHead \/ PopNothing(next)
    PROVE  TypeOK'
  <1>1. CASE PopHead
    BY <1>1, PopType DEF PopHead, TypeOK, Locations
  <1>2. CASE PopNothing(next)
    BY <1>2 DEF PopNothing, TypeOK
  <1> QED  BY <1>1, <1>2

\* No interleaving of push, wait and the stop channels takes a variable of
\* frameQueue out of its domain.
THEOREM TypeCorrect == SafeSpec => []TypeOK
  <1>1. Init => TypeOK
    BY EmptySeq DEF Init, TypeOK, Locations, InWait
  <1>2. TypeOK /\ [Next]_vars => TypeOK'
    <2> SUFFICES ASSUME TypeOK, [Next]_vars PROVE TypeOK'
      OBVIOUS
    <2>1. ASSUME NEW p \in Pushers, NEW f \in Frames, PushAppend(p, f) PROVE TypeOK'
      BY <2>1 DEF PushAppend, TypeOK
    <2>2. ASSUME NEW p \in Pushers, PushSignal(p) PROVE TypeOK'
      BY <2>2 DEF PushSignal, TypeOK
    <2>3. CASE TryPop
      BY <2>3, PopTypeOK DEF TryPop, Locations, InWait
    <2>4. CASE SelectSig
      BY <2>4 DEF SelectSig, TypeOK, Locations, InWait
    <2>5. CASE SelectStop
      BY <2>5 DEF SelectStop, TypeOK, Locations, InWait
    <2>6. CASE LastPop
      BY <2>6, PopTypeOK DEF LastPop, Locations
    <2>7. CASE Call
      BY <2>7 DEF Call, TypeOK, Locations, InWait
    <2>8. CASE Rearm
      BY <2>8 DEF Rearm, TypeOK, Locations
    <2>9. CASE Abandon
      BY <2>9 DEF Abandon, TypeOK, Locations
    <2>10. ASSUME NEW s \in Stops, Fire(s) PROVE TypeOK'
      BY <2>10 DEF Fire, TypeOK
    <2>11. CASE UNCHANGED vars
      BY <2>11 DEF vars, TypeOK
    <2> QED
      BY <2>1, <2>2, <2>3, <2>4, <2>5, <2>6, <2>7, <2>8, <2>9, <2>10, <2>11
      DEF Next, Push, WaitStep
  <1> QED  BY <1>1, <1>2, PTL DEF SafeSpec

-------------------------------------------------------------------------------
\* The wake-up.

\* The consumer never sleeps on a queued frame with nobody about to wake it.
\* It enters the select only on an empty queue; a frame appended later has a
\* pusher that has still to signal; and the one step that takes the token out
\* of sig also takes the consumer out of the select.
THEOREM WakeupNeverLost == SafeSpec => []NoLostWakeup
  <1>1. Init => NoLostWakeup
    BY DEF Init, NoLostWakeup
  <1>2. TypeOK /\ NoLostWakeup /\ [Next]_vars => NoLostWakeup'
    <2> SUFFICES ASSUME TypeOK, NoLostWakeup, [Next]_vars PROVE NoLostWakeup'
      OBVIOUS
    <2>1. ASSUME NEW p \in Pushers, NEW f \in Frames, PushAppend(p, f) PROVE NoLostWakeup'
      <3>1. pusher'[p] = "signal"
        BY <2>1 DEF PushAppend, TypeOK
      <3> QED  BY <3>1 DEF NoLostWakeup
    <2>2. ASSUME NEW p \in Pushers, PushSignal(p) PROVE NoLostWakeup'
      BY <2>2 DEF PushSignal, NoLostWakeup
    <2>3. CASE TryPop
      BY <2>3 DEF TryPop, PopHead, PopNothing, NoLostWakeup
    <2>4. CASE LastPop
      BY <2>4 DEF LastPop, PopHead, PopNothing, NoLostWakeup
    <2>5. CASE SelectSig \/ SelectStop \/ Call \/ Rearm \/ Abandon
      BY <2>5 DEF SelectSig, SelectStop, Call, Rearm, Abandon, NoLostWakeup
    <2>6. ASSUME NEW s \in Stops, Fire(s) PROVE NoLostWakeup'
      BY <2>6 DEF Fire, NoLostWakeup
    <2>7. CASE UNCHANGED vars
      BY <2>7 DEF vars, NoLostWakeup
    <2> QED
      BY <2>1, <2>2, <2>3, <2>4, <2>5, <2>6, <2>7 DEF Next, Push, WaitStep
  <1> QED  BY <1>1, <1>2, TypeCorrect, PTL DEF SafeSpec

-------------------------------------------------------------------------------
\* The refinement.

\* A tryPop made inside wait() is the abstract Receive when it finds a frame.
LEMMA PopIsReceive ==
    ASSUME pc \in InWait, PopHead
    PROVE  FC!Receive
  BY DEF PopHead, FC!Receive, statusBar, InWait

\* A consumer about to make its final tryPop got there by a ready stop channel.
StopIsReady == pc = "last" => fired # {}

\* StopIsReady is an invariant: only Rearm drains a stop channel, and it runs
\* outside wait().
LEMMA StopStaysReady == SafeSpec => []StopIsReady
  <1>1. Init => StopIsReady
    BY DEF Init, StopIsReady
  <1>2. StopIsReady /\ [Next]_vars => StopIsReady'
    BY DEF StopIsReady, Next, vars, Push, WaitStep, PushAppend, PushSignal, PopHead,
       PopNothing, Call, TryPop, SelectSig, SelectStop, LastPop, Rearm, Abandon, Fire
  <1> QED  BY <1>1, <1>2, PTL DEF SafeSpec

\* Every behaviour of frameQueue, with its mutex and signals hidden, is one
\* of FrameChannel: frames come out in the order they went in, none is lost
\* to a stop channel that fires at the same time, and wait() reports a stop
\* only on an empty queue.
THEOREM QueueImplementsChannel == SafeSpec => ImplementsChannelSafely
  <1>1. Init => FC!Init
    BY DEF Init, FC!Init, statusBar, InWait, None, FC!None
  <1>2. StopIsReady /\ [Next]_vars => [FC!Next]_(FC!vars)
    <2> SUFFICES ASSUME StopIsReady, [Next]_vars PROVE [FC!Next]_(FC!vars)
      OBVIOUS
    <2> USE DEF FC!Next, FC!vars
    <2>1. ASSUME NEW p \in Pushers, NEW f \in Frames, PushAppend(p, f)
          PROVE  FC!Send(f)
      BY <2>1 DEF PushAppend, FC!Send, statusBar
    <2>2. ASSUME NEW p \in Pushers, PushSignal(p) PROVE UNCHANGED FC!vars
      BY <2>2 DEF PushSignal, statusBar
    <2>3. CASE TryPop
      <3>1. CASE PopHead
        BY <2>3, <3>1, PopIsReceive DEF TryPop, InWait
      <3>2. CASE PopNothing("select")
        BY <2>3, <3>2 DEF TryPop, PopNothing, statusBar, InWait
      <3> QED  BY <2>3, <3>1, <3>2 DEF TryPop
    <2>4. CASE SelectSig
      BY <2>4 DEF SelectSig, statusBar, InWait
    <2>5. CASE SelectStop
      BY <2>5 DEF SelectStop, statusBar, InWait
    <2>6. CASE LastPop
      <3>1. CASE PopHead
        BY <2>6, <3>1, PopIsReceive DEF LastPop, InWait
      <3>2. CASE PopNothing("stopped")
        BY <2>6, <3>2 DEF LastPop, PopNothing, FC!Stop, statusBar, InWait, StopIsReady
      <3> QED  BY <2>6, <3>1, <3>2 DEF LastPop
    <2>7. CASE Call
      BY <2>7 DEF Call, FC!Call, statusBar, InWait
    <2>8. CASE Rearm
      BY <2>8 DEF Rearm, FC!Rearm, statusBar, InWait
    <2>9. CASE Abandon
      BY <2>9 DEF Abandon, FC!Abandon, statusBar, InWait
    <2>10. ASSUME NEW s \in Stops, Fire(s) PROVE FC!Fire(s)
      BY <2>10 DEF Fire, FC!Fire, statusBar, InWait
    <2>11. CASE UNCHANGED vars
      BY <2>11 DEF vars, statusBar
    <2> QED
      BY <2>1, <2>2, <2>3, <2>4, <2>5, <2>6, <2>7, <2>8, <2>9, <2>10, <2>11
      DEF Next, Push, WaitStep
  <1> QED
    BY <1>1, <1>2, StopStaysReady, PTL DEF SafeSpec, FC!SafeSpec, ImplementsChannelSafely

===============================================================================
