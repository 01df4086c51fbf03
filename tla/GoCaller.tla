------------------------------- MODULE GoCaller -------------------------------
(***************************************************************************)
(* Caller of golang/client/client.go: requests multiplexed over one        *)
(* connection.  The goroutines are, for each request, the one that runs    *)
(* Request and, once the peer streams, the pump that copies chunks into an *)
(* io.Pipe; the transport read loop, which runs Handle*Message; whoever    *)
(* calls Close; and the user who reads, closes or forgets Response.Body.   *)
(*                                                                         *)
(* requestText/pumpText/HandleTextMessage repeat requestBinary/pumpBinary/ *)
(* HandleBinaryMessage line for line on the other pending map; a Caller    *)
(* only ever uses one of the two, so one module models both.               *)
(*                                                                         *)
(* A frameQueue is the FIFO of FrameChannel: wait() hands over the oldest  *)
(* frame, and reports a stop only when the queue is empty (FrameQueue      *)
(* shows that the code implements this).  What a goroutine does between    *)
(* two operations that another goroutine can see is one step.              *)
(***************************************************************************)
EXTENDS WireReplies

CONSTANTS
    Requests,     \* the calls of Request, each with its own fresh requestID
    Replies,      \* what a peer may answer: sequences of Reply records
    CloseArgs,    \* the errors Caller.Close may be given; NilErr is nil
    ReadTimeout   \* ticks without a frame before a timeout; 0: no timeout

None == "none"
NilErr == "nil"
EOF == "EOF"
ErrTransportClosed == "ErrTransportClosed"
ErrReadTimeout == "ErrReadTimeout"
CtxErr == "ctx.Err()"

ASSUME CallerAssumption ==
    /\ None \notin Requests
    /\ \A s \in Replies : s \in Seq(Reply)
    /\ ReadTimeout \in Nat
    /\ {None, ErrReadTimeout, CtxErr} \cap CloseArgs = {}

\* Frame n of the reply to r.  Frame 0 stands for "none yet".
Frame(r, n) == [id |-> r, n |-> n]
NoFrame == Frame(None, 0)

CloseErrors == (CloseArgs \ {NilErr}) \cup {ErrTransportClosed}

StopErrors == CloseErrors \cup {CtxErr, ErrReadTimeout}

VARIABLES
    closing,     \* Caller.Close: "open", "setting" closeErr, "closed" (done)
    closeErr,    \* Caller.closeErr
    pending,     \* the requestIDs in Caller.pending (or textPending)
    queue,       \* queue[r]: the frameQueue made for r, kept by its consumer
    hold,        \* the frame the read loop has looked up and not yet pushed
    pc,          \* where Request is
    result,      \* what Request returned
    pump,        \* where the pump is
    msg,         \* the last frame that Request or the pump took from queue[r]
    timer,       \* ticks until the running read timer fires; Off: not running
    ended,       \* what the pump closed the pipe with; EOF: pw.Close()
    body,        \* Response.Body, as its user and the finalizer leave it
    got,         \* got[r]: the chunks that Body.Read has returned
    ctxDone,     \* the requests whose context is cancelled or has expired
    script,      \* script[r]: the reply the peer gives to r
    arrived,     \* how many of its frames the transport has delivered
    quiet        \* ticks since a frame was last queued for r, or since r was sent

callerVars == <<closing, closeErr>>
loopVars == <<pending, hold, queue, arrived>>
requestVars == <<pc, result, script>>
bodyVars == <<pump, ended, body, got>>
clockVars == <<timer, quiet>>

vars == <<callerVars, loopVars, requestVars, bodyVars, clockVars, msg, ctxDone>>

Off == -1

\* Mutant: the timer is never created.
NoTimer == Off

\* time.NewTimer, when there is a timeout at all (readTimeout() > 0).
NewTimer == IF ReadTimeout > 0 THEN ReadTimeout ELSE Off

Init ==
    /\ closing = "open" /\ closeErr = None
    /\ pending = {} /\ hold = NoFrame
    /\ queue = [r \in Requests |-> <<>>]
    /\ arrived = [r \in Requests |-> 0]
    /\ pc = [r \in Requests |-> "idle"]
    /\ result = [r \in Requests |-> None]
    /\ script = [r \in Requests |-> <<>>]
    /\ pump = [r \in Requests |-> "none"]
    /\ ended = [r \in Requests |-> None]
    /\ body = [r \in Requests |-> "none"]
    /\ got = [r \in Requests |-> <<>>]
    /\ timer = [r \in Requests |-> Off]
    /\ quiet = [r \in Requests |-> 0]
    /\ msg = [r \in Requests |-> Frame(r, 0)]
    /\ ctxDone = {}

-------------------------------------------------------------------------------
\* Helpers.

Closed == closing = "closed"

\* Mutant: the pump is given the context of Request, not one the body cancels.
ParentCtxDone(r) == r \in ctxDone

\* ctx.Done() of Request, and of the pumpCtx that the body can cancel too.
PumpCtxDone(r) == r \in ctxDone \/ body[r] \in {"cancelled", "closed"}

\* What frame f carries.
Content(f) == script[f.id][f.n]

\* Mutant: wait() without its final tryPop.
MustStopEager(r, isCtxDone) == Closed \/ isCtxDone \/ timer[r] = 0

\* Mutant: wait() is not given Caller.done.
MustStopDeaf(r, isCtxDone) == queue[r] = <<>> /\ (isCtxDone \/ timer[r] = 0)

\* A wait() on queue[r] that is to report a stop: nothing is queued, and done,
\* the context or the timer is ready.
MustStop(r, isCtxDone) ==
    /\ queue[r] = <<>>
    /\ Closed \/ isCtxDone \/ timer[r] = 0

\* The select made after a stop looks at done and the context again and takes
\* either when both are ready; its default branch is the timeout.
StopReasons(isCtxDone) ==
    LET ready == (IF Closed THEN {closeErr} ELSE {}) \cup (IF isCtxDone THEN {CtxErr} ELSE {})
    IN  IF ready = {} THEN {ErrReadTimeout} ELSE ready

\* The consumer takes the oldest frame.
Pop(r) ==
    /\ queue[r] # <<>>
    /\ msg' = [msg EXCEPT ![r] = Head(queue[r])]
    /\ queue' = [queue EXCEPT ![r] = Tail(@)]

\* removePending.
Remove(r) == pending' = pending \ {r}

Return(r, e) ==
    /\ pc' = [pc EXCEPT ![r] = "returned"]
    /\ result' = [result EXCEPT ![r] = e]

-------------------------------------------------------------------------------
\* Request.

\* The first select: a Caller that is closed sends nothing.
Call(r) ==
    /\ pc[r] = "idle"
    /\ \/ Closed /\ Return(r, closeErr)
       \/ ~Closed /\ pc' = [pc EXCEPT ![r] = "checked"] /\ UNCHANGED result
    /\ UNCHANGED <<callerVars, loopVars, script, bodyVars, clockVars, msg, ctxDone>>

Register(r) ==
    /\ pc[r] = "checked"
    /\ pending' = pending \cup {r}
    /\ pc' = [pc EXCEPT ![r] = "registered"]
    /\ UNCHANGED <<callerVars, hold, queue, arrived, result, script, bodyVars, clockVars,
                   msg, ctxDone>>

\* SendBytes puts the request on the wire; the peer may answer before it returns.
Transmit(r) ==
    /\ pc[r] = "registered"
    /\ \E s \in Replies : script' = [script EXCEPT ![r] = s]
    /\ pc' = [pc EXCEPT ![r] = "sending"]
    /\ quiet' = [quiet EXCEPT ![r] = 0]
    /\ UNCHANGED <<callerVars, loopVars, result, bodyVars, timer, msg, ctxDone>>

SendReturns(r) ==
    /\ pc[r] = "sending"
    /\ pc' = [pc EXCEPT ![r] = "waiting"]
    /\ timer' = [timer EXCEPT ![r] = NewTimer]
    /\ UNCHANGED <<callerVars, loopVars, result, script, bodyVars, quiet, msg, ctxDone>>

\* Creating, marshalling or sending the request failed, the last of them with
\* or without the peer having received it.
SendFails(r) ==
    /\ pc[r] \in {"registered", "sending"}
    /\ Remove(r)
    /\ Return(r, "sendError")
    /\ UNCHANGED <<callerVars, hold, queue, arrived, script, bodyVars, clockVars, msg, ctxDone>>

\* The first frame ends the exchange: a whole response, an error, a frame of a
\* type that cannot come first, or a payload that does not decode.
FirstFrameEnds(r) ==
    LET c == Content(Head(queue[r]))
    IN  /\ pc[r] = "waiting"
        /\ Pop(r)
        /\ Remove(r)
        /\ \/ c.kind \notin {"Response", "Start", "Error"} /\ Return(r, "unexpectedType")
           \/ c.kind \in {"Response", "Start", "Error"} /\ ~c.ok /\ Return(r, "decodeError")
           \/ c.kind = "Response" /\ c.ok /\ Return(r, "response")
           \/ c.kind = "Error" /\ c.ok /\ Return(r, "remoteError")
        /\ timer' = [timer EXCEPT ![r] = Off]
        /\ UNCHANGED <<callerVars, hold, arrived, script, bodyVars, quiet, ctxDone>>

\* HTTPResponseStart: the pump is started and takes over the pending slot.
FirstFrameStarts(r) ==
    LET c == Content(Head(queue[r]))
    IN  /\ pc[r] = "waiting"
        /\ Pop(r)
        /\ c.kind = "Start" /\ c.ok
        /\ Return(r, "stream")
        /\ pump' = [pump EXCEPT ![r] = "starting"]
        /\ body' = [body EXCEPT ![r] = "open"]
        /\ timer' = [timer EXCEPT ![r] = Off]
        /\ UNCHANGED <<callerVars, pending, hold, arrived, script, ended, got, quiet, ctxDone>>

\* wait() reported a stop.
RequestStops(r) ==
    /\ pc[r] = "waiting"
    /\ MustStop(r, r \in ctxDone)
    /\ pc' = [pc EXCEPT ![r] = "stopping"]
    /\ UNCHANGED <<callerVars, loopVars, result, script, bodyVars, clockVars, msg, ctxDone>>

\* timer.Stop(), removePending(), and the select that finds the reason.
RequestGivesUp(r) ==
    /\ pc[r] = "stopping"
    /\ Remove(r)
    /\ \E e \in StopReasons(r \in ctxDone) : Return(r, e)
    /\ timer' = [timer EXCEPT ![r] = Off]
    /\ UNCHANGED <<callerVars, hold, queue, arrived, script, bodyVars, quiet, msg, ctxDone>>

-------------------------------------------------------------------------------
\* The pump.

PumpStarts(r) ==
    /\ pump[r] = "starting"
    /\ pump' = [pump EXCEPT ![r] = "waiting"]
    /\ timer' = [timer EXCEPT ![r] = NewTimer]
    /\ UNCHANGED <<callerVars, loopVars, requestVars, ended, body, got, quiet, msg, ctxDone>>

\* The pipe is closed first; removePending is deferred to PumpReturns.
PumpEnds(r, e) ==
    /\ ended' = [ended EXCEPT ![r] = e]
    /\ pump' = [pump EXCEPT ![r] = "returning"]

\* Mutant: the timer runs on while frames come in.
KeepTimer(r) == UNCHANGED timer

\* The timer is stopped, drained and reset after each frame.
ResetTimer(r) == timer' = [timer EXCEPT ![r] = NewTimer]

\* Mutant: a chunk that does not decode is skipped.
PumpSkips(r, c) ==
    \/ c.kind = "Chunk" /\ c.ok /\ pump' = [pump EXCEPT ![r] = "writing"] /\ UNCHANGED ended
    \/ c.kind = "End" /\ PumpEnds(r, EOF)
    \/ c.kind = "Error" /\ PumpEnds(r, "remoteError")
    \/ (c.kind = "Chunk" => ~c.ok) /\ c.kind \notin {"End", "Error"} /\ UNCHANGED <<pump, ended>>

\* The switch over msg.Type: a chunk is on its way to pw.Write; End and Error
\* end the body, and so does a payload that does not decode; the loop ignores
\* every other type.
PumpSwitch(r, c) ==
    \/ c.kind = "Chunk" /\ c.ok /\ pump' = [pump EXCEPT ![r] = "writing"] /\ UNCHANGED ended
    \/ c.kind = "Chunk" /\ ~c.ok /\ PumpEnds(r, "decodeError")
    \/ c.kind = "End" /\ PumpEnds(r, EOF)
    \/ c.kind = "Error" /\ c.ok /\ PumpEnds(r, "remoteError")
    \/ c.kind = "Error" /\ ~c.ok /\ PumpEnds(r, "malformedError")
    \/ c.kind \in {"Response", "Start", "Other"} /\ UNCHANGED <<pump, ended>>

PumpTakes(r) ==
    /\ pump[r] = "waiting"
    /\ Pop(r)
    /\ ResetTimer(r)
    /\ PumpSwitch(r, Content(Head(queue[r])))
    /\ UNCHANGED <<callerVars, pending, hold, arrived, requestVars, body, got, quiet, ctxDone>>

\* pw.Write meets Body.Read: the pipe has no buffer.
Read(r) ==
    /\ pump[r] = "writing"
    /\ body[r] = "open"
    /\ got' = [got EXCEPT ![r] = Append(@, msg[r])]
    /\ pump' = [pump EXCEPT ![r] = "waiting"]
    /\ UNCHANGED <<callerVars, loopVars, requestVars, ended, body, clockVars, msg, ctxDone>>

\* pw.Write fails once the read side is closed; it heeds nothing else.
WriteFails(r) ==
    /\ pump[r] = "writing"
    /\ body[r] = "closed"
    /\ pump' = [pump EXCEPT ![r] = "returning"]
    /\ UNCHANGED <<callerVars, loopVars, requestVars, ended, body, got, clockVars, msg, ctxDone>>

PumpStops(r) ==
    /\ pump[r] = "waiting"
    /\ MustStop(r, PumpCtxDone(r))
    /\ pump' = [pump EXCEPT ![r] = "stopping"]
    /\ UNCHANGED <<callerVars, loopVars, requestVars, ended, body, got, clockVars, msg, ctxDone>>

\* Mutant: pw.Close() where CloseWithError is meant.
PumpGivesUpQuietly(r) ==
    /\ pump[r] = "stopping"
    /\ PumpEnds(r, EOF)
    /\ UNCHANGED <<callerVars, loopVars, requestVars, body, got, clockVars, msg, ctxDone>>

PumpGivesUp(r) ==
    /\ pump[r] = "stopping"
    /\ \E e \in StopReasons(PumpCtxDone(r)) : PumpEnds(r, e)
    /\ UNCHANGED <<callerVars, loopVars, requestVars, body, got, clockVars, msg, ctxDone>>

\* Mutant: removePending is not deferred, and a return path misses it.
PumpReturnsLeaky(r) ==
    /\ pump[r] = "returning"
    /\ pending' = IF ended[r] = None THEN pending ELSE pending \ {r}
    /\ pump' = [pump EXCEPT ![r] = "done"]
    /\ timer' = [timer EXCEPT ![r] = Off]
    /\ UNCHANGED <<callerVars, hold, queue, arrived, requestVars, ended, body, got, quiet,
                   msg, ctxDone>>

\* The deferred removePending and timer.Stop.
PumpReturns(r) ==
    /\ pump[r] = "returning"
    /\ Remove(r)
    /\ pump' = [pump EXCEPT ![r] = "done"]
    /\ timer' = [timer EXCEPT ![r] = Off]
    /\ UNCHANGED <<callerVars, hold, queue, arrived, requestVars, ended, body, got, quiet,
                   msg, ctxDone>>

-------------------------------------------------------------------------------
\* The transport read loop: HandleBinaryMessage / HandleTextMessage.

\* Under the mutex, the queue is looked up; a frame for nobody is dropped.  (One
\* that does not unmarshal makes Handle*Message return an error, and is nobody's.)
\* Nothing orders the frames of different requests, so the loop may receive
\* the next frame of any of them.
LookUp(r) ==
    /\ hold = NoFrame
    /\ arrived[r] < Len(script[r])
    /\ arrived' = [arrived EXCEPT ![r] = @ + 1]
    /\ hold' = IF r \in pending THEN Frame(r, arrived[r] + 1) ELSE NoFrame
    /\ UNCHANGED <<callerVars, pending, queue, requestVars, bodyVars, clockVars, msg, ctxDone>>

\* Mutant: a queue with room for one frame, and a send that blocks when it is full.
PushOrBlock ==
    /\ hold # NoFrame /\ queue[hold.id] = <<>>
    /\ queue' = [queue EXCEPT ![hold.id] = <<hold>>]
    /\ quiet' = [quiet EXCEPT ![hold.id] = 0]
    /\ hold' = NoFrame
    /\ UNCHANGED <<callerVars, pending, arrived, requestVars, bodyVars, timer, msg, ctxDone>>

\* q.push(env), after the mutex is released: the slot may be gone by now.
Push ==
    /\ hold # NoFrame
    /\ queue' = [queue EXCEPT ![hold.id] = Append(@, hold)]
    /\ quiet' = [quiet EXCEPT ![hold.id] = 0]
    /\ hold' = NoFrame
    /\ UNCHANGED <<callerVars, pending, arrived, requestVars, bodyVars, timer, msg, ctxDone>>

-------------------------------------------------------------------------------
\* Caller.Close, inside closeOnce: the first call wins.

\* Mutant: a nil error is not replaced.
CloseSetsNil(e) ==
    /\ closing = "open"
    /\ closing' = "setting"
    /\ closeErr' = e
    /\ UNCHANGED <<loopVars, requestVars, bodyVars, clockVars, msg, ctxDone>>

\* Mutant: Close without closeOnce.
CloseAgain(e) ==
    /\ closing' = IF closing = "open" THEN "setting" ELSE closing
    /\ closeErr' = IF e = NilErr THEN ErrTransportClosed ELSE e
    /\ UNCHANGED <<loopVars, requestVars, bodyVars, clockVars, msg, ctxDone>>

CloseSets(e) ==
    /\ closing = "open"
    /\ closing' = "setting"
    /\ closeErr' = IF e = NilErr THEN ErrTransportClosed ELSE e
    /\ UNCHANGED <<loopVars, requestVars, bodyVars, clockVars, msg, ctxDone>>

CloseDone ==
    /\ closing = "setting"
    /\ closing' = "closed"
    /\ UNCHANGED <<closeErr, loopVars, requestVars, bodyVars, clockVars, msg, ctxDone>>

-------------------------------------------------------------------------------
\* The user of the response, the garbage collector, contexts and time.

SetBody(r, from, to) ==
    /\ body[r] = from
    /\ body' = [body EXCEPT ![r] = to]
    /\ UNCHANGED <<callerVars, loopVars, requestVars, pump, ended, got, clockVars, msg, ctxDone>>

\* cancellingBody.Close: cancel(), and then pr.Close() in ClosePipe.
CloseBody(r) == SetBody(r, "open", "cancelled")

\* The user forgets the response; its finalizer later does what Close does.
DropBody(r) == SetBody(r, "open", "dropped")
Finalize(r) == SetBody(r, "dropped", "cancelled")

ClosePipe(r) == SetBody(r, "cancelled", "closed")

Cancel(r) ==
    /\ ctxDone' = ctxDone \cup {r}
    /\ UNCHANGED <<callerVars, loopVars, requestVars, bodyVars, clockVars, msg>>

\* A tick of the clock, while some timer runs.
Tick ==
    /\ \E r \in Requests : timer[r] > 0
    /\ timer' = [r \in Requests |-> IF timer[r] > 0 THEN timer[r] - 1 ELSE timer[r]]
    /\ quiet' = [r \in Requests |-> IF quiet[r] < ReadTimeout THEN quiet[r] + 1 ELSE quiet[r]]
    /\ UNCHANGED <<callerVars, loopVars, requestVars, bodyVars, msg, ctxDone>>

-------------------------------------------------------------------------------

\* What the goroutine of Request does without waiting for anyone but SendBytes.
RequestStep(r) ==
    \/ Register(r) \/ Transmit(r) \/ SendReturns(r) \/ SendFails(r)
    \/ FirstFrameEnds(r) \/ FirstFrameStarts(r)
    \/ RequestStops(r) \/ RequestGivesUp(r)

\* What the pump does without the reader of the body.
PumpStep(r) ==
    \/ PumpStarts(r) \/ PumpTakes(r) \/ WriteFails(r)
    \/ PumpStops(r) \/ PumpGivesUp(r) \/ PumpReturns(r)

BodyStep(r) == CloseBody(r) \/ DropBody(r) \/ Finalize(r) \/ ClosePipe(r)

Next ==
    \/ \E r \in Requests : \/ Call(r) \/ RequestStep(r) \/ PumpStep(r) \/ Read(r)
                           \/ BodyStep(r) \/ Cancel(r) \/ LookUp(r)
    \/ Push \/ Tick \/ CloseDone
    \/ \E e \in CloseArgs : CloseSets(e)

SafeSpec == Init /\ [][Next]_vars

(***************************************************************************)
(* Goroutines that can run do run, time passes, the transport delivers     *)
(* what the peer sends (SendBytes returns, the read loop is never starved) *)
(* and the collector finalizes what is unreachable.  Nothing obliges the   *)
(* user: Call, Read, CloseBody, DropBody, Cancel and Close have no         *)
(* fairness.                                                               *)
(***************************************************************************)
Spec ==
    /\ SafeSpec
    /\ \A r \in Requests : /\ WF_vars(RequestStep(r))
                           /\ WF_vars(PumpStep(r))
                           /\ WF_vars(LookUp(r))
                           /\ WF_vars(Finalize(r) \/ ClosePipe(r))
    /\ WF_vars(Push) /\ WF_vars(Tick) /\ WF_vars(CloseDone)

-------------------------------------------------------------------------------
\* Properties.

RequestPlaces == {"idle", "checked", "registered", "sending", "waiting", "stopping", "returned"}

PumpPlaces == {"none", "starting", "waiting", "writing", "stopping", "returning", "done"}

Results == CloseErrors \cup {None, CtxErr, ErrReadTimeout, "sendError", "unexpectedType",
                             "decodeError", "response", "stream", "remoteError"}

Endings == CloseErrors \cup {None, CtxErr, ErrReadTimeout, EOF, "decodeError",
                             "remoteError", "malformedError"}

AllFrames == [id : Requests, n : Nat]

\* Every variable stays in its domain, and a frame is only ever in the queue
\* of the request that it answers.
TypeOK ==
    /\ closing \in {"open", "setting", "closed"}
    /\ closeErr \in CloseErrors \cup {None}
    /\ pending \in SUBSET Requests
    /\ queue \in [Requests -> Seq(AllFrames)]
    /\ hold \in AllFrames \cup {NoFrame}
    /\ pc \in [Requests -> RequestPlaces]
    /\ result \in [Requests -> Results]
    /\ pump \in [Requests -> PumpPlaces]
    /\ msg \in [Requests -> AllFrames]
    /\ timer \in [Requests -> {Off} \cup 0..ReadTimeout]
    /\ ended \in [Requests -> Endings]
    /\ body \in [Requests -> {"none", "open", "dropped", "cancelled", "closed"}]
    /\ got \in [Requests -> Seq(AllFrames)]
    /\ ctxDone \in SUBSET Requests
    /\ script \in [Requests -> Seq(Reply)]
    /\ arrived \in [Requests -> Nat]
    /\ quiet \in [Requests -> 0..ReadTimeout]

\* Somebody waits, or is going to wait, for the frames of r, or has stopped
\* and has still to remove its slot.
HasConsumer(r) ==
    \/ pc[r] \in {"registered", "sending", "waiting", "stopping"}
    \/ pump[r] \notin {"none", "done"}

\* A request has a pending slot exactly as long as it has a consumer: no
\* interleaving of returns, failures, Close, cancellation and frames leaks a
\* slot, nor leaves a consumer to whom the read loop cannot route.
SlotIffConsumer == \A r \in Requests : r \in pending <=> HasConsumer(r)

\* The chunks of the reply to r.
ChunksOf(r) ==
    {Frame(r, n) : n \in {k \in 1..Len(script[r]) : script[r][k].kind = "Chunk"}}

\* What the reader of a body has seen is a prefix of the chunks the peer sent
\* it: its own, in order, without a hole or a repetition, whatever the other
\* requests and the stop channels do.
BodyIsPrefix ==
    \A r \in Requests : \A i \in 1..Len(got[r]) :
        /\ got[r][i] \in ChunksOf(r)
        /\ \A j \in 1..(i - 1) : got[r][j].n < got[r][i].n
        /\ \A f \in ChunksOf(r) :
              f.n < got[r][i].n => \E j \in 1..(i - 1) : got[r][j] = f

\* A body that ends with a clean EOF is complete: the peer said End, and every
\* chunk it sent before that has been read ("truncated" is never "done").
CleanEofMeansComplete ==
    \A r \in Requests : ended[r] = EOF =>
        /\ msg[r].n \in 1..Len(script[r]) /\ Content(msg[r]).kind = "End"
        /\ \A f \in ChunksOf(r) : f.n < msg[r].n => \E i \in 1..Len(got[r]) : got[r][i] = f

\* The user's view of a Caller: what each request was settled with, the chunks
\* that were read, and how the body ended if its user has not left it.
OutcomeOf(r) ==
    CASE result[r] = None -> "none"
      [] result[r] = "response" -> "Response"
      [] result[r] = "stream" -> "Start"
      [] OTHER -> "failed"

EndOf(r) ==
    IF body[r] \notin {"none", "open"} THEN "left"
    ELSE CASE ended[r] = None -> "open"
           [] ended[r] = EOF -> "eof"
           [] OTHER -> "error"

Outcomes == [r \in Requests |-> OutcomeOf(r)]
BodyEnds == [r \in Requests |-> EndOf(r)]
ChunksRead == [r \in Requests |-> [i \in 1..Len(got[r]) |-> got[r][i].n]]

User == INSTANCE ResponseStream WITH
    answer <- script, outcome <- Outcomes, read <- ChunksRead, end <- BodyEnds

\* Whatever the transport, Close, contexts, timers and the garbage collector
\* do, a user of the Caller sees what ResponseStream promises: each request
\* settled once, chunks in order, and a clean EOF only behind the last of them.
ImplementsStream == User!Spec

\* After Close every failure it causes, of Requests and of bodies, carries one
\* and the same error, that of the first Close, and never a nil error: closeErr
\* is read without the mutex by goroutines that have only seen done.
CloseErrorAgreed ==
    \A r \in Requests :
        /\ pc[r] = "returned" => result[r] # None
        /\ pump[r] \in {"returning", "done"} /\ body[r] = "open" => ended[r] # None
        /\ {result[r], ended[r]} \cap CloseErrors \subseteq {closeErr}

\* A consumer that stops although nobody closed the Caller or cancelled the
\* context has heard nothing for a full ReadTimeout: a frame that is received
\* in time, even one that waits in the queue behind a slow reader, never ends
\* in ErrReadTimeout.
TimeoutMeansSilence ==
    [][\A r \in Requests :
          (\/ pc[r] = "waiting" /\ pc'[r] = "stopping" /\ ~Closed /\ r \notin ctxDone
           \/ pump[r] = "waiting" /\ pump'[r] = "stopping" /\ ~Closed /\ ~PumpCtxDone(r))
          => quiet[r] = ReadTimeout]_vars

\* When a consumer stops, it has taken every frame that the read loop received
\* for it, except one that the loop still holds: frames that were ahead of a
\* Close, a cancellation or a timeout are delivered, End included ("any frame
\* enqueued before the stop-check returns must still be delivered").
FramesOutrunStops ==
    [][\A r \in Requests :
          (\/ pc[r] = "waiting" /\ pc'[r] = "stopping"
           \/ pump[r] = "waiting" /\ pump'[r] = "stopping")
          => arrived[r] = IF hold.id = r THEN msg[r].n + 1 ELSE msg[r].n]_vars

\* A request that waits while a frame for it is on the wire gets an answer,
\* even if nobody ever reads the bodies of the others and no timer runs: the
\* read loop is never held up by another request.
NoHeadOfLineBlocking ==
    \A r \in Requests : pc[r] = "waiting" /\ arrived[r] < Len(script[r]) ~> pc[r] = "returned"

\* With a read timeout, Request returns, whatever the peer does.
RequestReturns == \A r \in Requests : pc[r] = "checked" ~> pc[r] = "returned"

\* Closing a body, or dropping the response and leaving it to the finalizer,
\* releases the pending slot, although no further frame comes and no timer
\* runs ("leaking the pending slot indefinitely for quiet streams").
BodyCloseReleasesSlot ==
    \A r \in Requests : body[r] \in {"dropped", "cancelled"} ~> r \notin pending

\* Caller.Close releases every slot but those of pumps that stand in pw.Write
\* before a body that nobody reads: README.md lets a response that is not closed
\* leak "until the transport dies", and this one leaks beyond that.
CloseReleasesSlots ==
    \A r \in Requests :
        Closed /\ r \in pending ~> r \notin pending \/ (pump[r] = "writing" /\ body[r] = "open")

\* spec.md: a transport that closes mid-stream "MUST error so that in-flight
\* reads surface a non-EOF error"; only HTTPResponseEnd closes the stream.
EofOnlyAtEnd == \A r \in Requests : ended[r] = EOF => Content(msg[r]).kind = "End"

===============================================================================
