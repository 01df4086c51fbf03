----------------------------- MODULE FrameChannel -----------------------------
(***************************************************************************)
(* What frameQueue (golang/client/client.go) promises to its single        *)
(* consumer, with no mutex and no signal channel: a FIFO from which the    *)
(* consumer takes the oldest frame in one step, or, when a stop channel is *)
(* ready and the FIFO is EMPTY, learns that it must stop.  FrameQueue      *)
(* implements this specification; GoCaller is built on it.                 *)
(***************************************************************************)
EXTENDS Naturals, Sequences

CONSTANTS
    Frames,      \* what can be pushed
    Stops,       \* the stop channels given to wait(): done, ctxDone, timerC
    Timer,       \* the one of them that its owner re-arms after a frame
    QueueBound   \* model bound: nothing is pushed onto a queue of this length

VARIABLES
    chan,        \* the frames pushed and not yet returned, oldest first
    status,      \* the consumer: outside wait(), inside it, or done with it
    env,         \* what the last successful wait() returned
    fired        \* the stop channels that are ready

vars == <<chan, status, env, fired>>

None == "none"

Statuses == {"idle", "waiting", "got", "stopped", "gone"}

Init ==
    /\ chan = <<>>
    /\ status = "idle"
    /\ env = None
    /\ fired = {}

-------------------------------------------------------------------------------

Send(f) ==
    /\ Len(chan) < QueueBound
    /\ chan' = Append(chan, f)
    /\ UNCHANGED <<status, env, fired>>

Call ==
    /\ status = "idle"
    /\ status' = "waiting"
    /\ UNCHANGED <<chan, env, fired>>

\* The oldest frame is handed over, whether or not a stop channel is ready.
Receive ==
    /\ status = "waiting"
    /\ chan # <<>>
    /\ env' = Head(chan)
    /\ chan' = Tail(chan)
    /\ status' = "got"
    /\ UNCHANGED fired

\* Nothing that was pushed before this step is left behind by it.
Stop ==
    /\ status = "waiting"
    /\ chan = <<>>
    /\ fired # {}
    /\ status' = "stopped"
    /\ UNCHANGED <<chan, env, fired>>

Rearm ==
    /\ status = "got"
    /\ status' = "idle"
    /\ fired' = fired \ {Timer}
    /\ UNCHANGED <<chan, env>>

Abandon ==
    /\ status = "idle"
    /\ status' = "gone"
    /\ UNCHANGED <<chan, env, fired>>

Fire(s) ==
    /\ status \notin {"stopped", "gone"}
    /\ fired' = fired \cup {s}
    /\ UNCHANGED <<chan, status, env>>

-------------------------------------------------------------------------------

Next ==
    \/ \E f \in Frames : Send(f)
    \/ Call \/ Receive \/ Stop \/ Rearm \/ Abandon
    \/ \E s \in Stops : Fire(s)

SafeSpec == Init /\ [][Next]_vars

\* wait() does not sleep on a frame or on a ready stop channel.
Spec == SafeSpec /\ WF_vars(Receive \/ Stop)

===============================================================================
