------------------------------ MODULE FrameQueue ------------------------------
(***************************************************************************)
(* frameQueue[T] of golang/client/client.go: an unbounded FIFO under a     *)
(* mutex, and a channel `sig' with room for one token by which push wakes  *)
(* the consumer that sleeps in wait().  One action per critical section    *)
(* and per channel operation, so that every interleaving of pushers, the   *)
(* consumer and the three stop channels is a behaviour.                    *)
(*                                                                         *)
(* push releases the mutex BEFORE it signals, and the select in wait()     *)
(* picks any ready branch: the two facts that make this code delicate.     *)
(***************************************************************************)
EXTENDS Naturals, Sequences

CONSTANTS
    Pushers,     \* goroutines that may call push (transport read loops)
    Frames,      \* the envelopes, opaque to the queue
    Stops,       \* the stop channels given to wait(): done, ctxDone, timerC
    Timer,       \* the one of them that is re-armed after each frame
    QueueBound   \* model bound: nothing is pushed onto a queue of this length

ASSUME QueueAssumption ==
    /\ Timer \in Stops
    /\ "none" \notin Frames
    /\ QueueBound \in Nat

VARIABLES
    queue,       \* q.queue
    sig,         \* TRUE when the buffer of q.sig holds its one token
    pusher,      \* pusher[p] = "signal": p has unlocked and not yet signalled
    pc,          \* where the consumer is; see Locations
    env,         \* the frame the last successful wait() returned
    fired        \* the stop channels that are ready

vars == <<queue, sig, pusher, pc, env, fired>>

(***************************************************************************)
(* The consumer (Request, then its pump, never both at once):              *)
(*   idle     between two calls of wait()                                  *)
(*   try      before the tryPop at the head of the loop                    *)
(*   select   blocked in the select                                        *)
(*   last     a stop branch was taken, its final tryPop is still to come   *)
(*   got      wait() returned (frame, true), the timer is not yet re-armed *)
(*   stopped  wait() returned (_, false); gone: the consumer left the loop *)
(***************************************************************************)
InWait == {"try", "select", "last"}
Locations == InWait \cup {"idle", "got", "stopped", "gone"}

None == "none"

Init ==
    /\ queue = <<>>
    /\ sig = FALSE
    /\ pusher = [p \in Pushers |-> "idle"]
    /\ pc = "idle"
    /\ env = None
    /\ fired = {}

-------------------------------------------------------------------------------
\* push: append under the mutex, then a non-blocking send on sig.

PushAppend(p, f) ==
    /\ pusher[p] = "idle"
    /\ Len(queue) < QueueBound
    /\ queue' = Append(queue, f)
    /\ pusher' = [pusher EXCEPT ![p] = "signal"]
    /\ UNCHANGED <<sig, pc, env, fired>>

\* Mutant: no signal.
PushForgets(p) ==
    /\ pusher[p] = "signal"
    /\ pusher' = [pusher EXCEPT ![p] = "idle"]
    /\ UNCHANGED <<queue, sig, pc, env, fired>>

\* A token that is already there is enough: the default branch drops ours.
PushSignal(p) ==
    /\ pusher[p] = "signal"
    /\ sig' = TRUE
    /\ pusher' = [pusher EXCEPT ![p] = "idle"]
    /\ UNCHANGED <<queue, pc, env, fired>>

-------------------------------------------------------------------------------
\* wait, and the tryPop it calls.

\* tryPop with a frame in the queue: wait returns it.
PopHead ==
    /\ queue # <<>>
    /\ env' = Head(queue)
    /\ queue' = Tail(queue)
    /\ pc' = "got"
    /\ UNCHANGED <<sig, pusher, fired>>

\* Mutant: wait does not look at the ok of tryPop and returns its zero value.
PopZero(next) ==
    /\ queue = <<>>
    /\ env' = "zero"
    /\ pc' = "got"
    /\ UNCHANGED <<queue, sig, pusher, fired>>

\* tryPop on an empty queue: wait goes on at `next'.
PopNothing(next) ==
    /\ queue = <<>>
    /\ pc' = next
    /\ UNCHANGED <<queue, sig, pusher, env, fired>>

Call ==
    /\ pc = "idle"
    /\ pc' = "try"
    /\ UNCHANGED <<queue, sig, pusher, env, fired>>

TryPop ==
    /\ pc = "try"
    /\ PopHead \/ PopNothing("select")

SelectSig ==
    /\ pc = "select"
    /\ sig
    /\ sig' = FALSE
    /\ pc' = "try"
    /\ UNCHANGED <<queue, pusher, env, fired>>

\* Any ready stop branch may win over sig.  The timer's token is left in
\* `fired': wait() either ends here or returns a frame, and Rearm drains it.
SelectStop ==
    /\ pc = "select"
    /\ fired # {}
    /\ pc' = "last"
    /\ UNCHANGED <<queue, sig, pusher, env, fired>>

\* Mutant: a stop is reported at once, without the final tryPop.
StopAtOnce ==
    /\ pc = "last"
    /\ pc' = "stopped"
    /\ UNCHANGED <<queue, sig, pusher, env, fired>>

LastPop ==
    /\ pc = "last"
    /\ PopHead \/ PopNothing("stopped")

-------------------------------------------------------------------------------
\* The consumer around wait, and the world around the consumer.

\* After each frame the timer is stopped, drained and reset.
Rearm ==
    /\ pc = "got"
    /\ pc' = "idle"
    /\ fired' = fired \ {Timer}
    /\ UNCHANGED <<queue, sig, pusher, env>>

\* The frame ended the exchange: nobody will call wait() again.
Abandon ==
    /\ pc = "idle"
    /\ pc' = "gone"
    /\ UNCHANGED <<queue, sig, pusher, env, fired>>

\* Caller.Close, a cancelled context or an expired timer.
Fire(s) ==
    /\ pc \notin {"stopped", "gone"}
    /\ fired' = fired \cup {s}
    /\ UNCHANGED <<queue, sig, pusher, pc, env>>

-------------------------------------------------------------------------------

Push == \E p \in Pushers : PushSignal(p) \/ \E f \in Frames : PushAppend(p, f)

WaitStep == TryPop \/ SelectSig \/ SelectStop \/ LastPop

Next ==
    \/ Push
    \/ WaitStep
    \/ Call \/ Rearm \/ Abandon
    \/ \E s \in Stops : Fire(s)

SafeSpec == Init /\ [][Next]_vars

\* The Go scheduler runs every goroutine that can run; nothing is assumed of
\* who pushes, of who calls wait() or of the stop channels.
Spec ==
    /\ SafeSpec
    /\ WF_vars(WaitStep)
    /\ \A p \in Pushers : WF_vars(PushSignal(p))

-------------------------------------------------------------------------------
\* Properties.

\* Every variable stays in its domain.
TypeOK ==
    /\ queue \in Seq(Frames)
    /\ sig \in BOOLEAN
    /\ pusher \in [Pushers -> {"idle", "signal"}]
    /\ pc \in Locations
    /\ env \in Frames \cup {None}
    /\ fired \in SUBSET Stops

\* A consumer that sleeps in the select of wait() while a frame is queued is
\* about to be woken: the token is in sig, or the goroutine that appended a
\* frame has still to signal.  push unlocks before it signals and drops its
\* token when one is there; neither may lose the wake-up.
NoLostWakeup ==
    pc = "select" /\ queue # <<>> => sig \/ \E p \in Pushers : pusher[p] = "signal"

-------------------------------------------------------------------------------
\* The refinement: seen from outside, wait() is one atomic step.

statusBar == IF pc \in InWait THEN "waiting" ELSE pc

FC == INSTANCE FrameChannel WITH chan <- queue, status <- statusBar

\* frameQueue is a FIFO whose wait() reports a stop only when every frame
\* pushed so far has been delivered ("Any frame enqueued before the
\* stop-check returns must still be delivered to the consumer").  And wait()
\* returns once a frame is queued or a stop channel is ready: it never sleeps,
\* or spins on tokens of frames already taken, for ever (FC's fairness).
ImplementsChannel == FC!Spec

\* The safety part of ImplementsChannel.
ImplementsChannelSafely == FC!SafeSpec

===============================================================================
