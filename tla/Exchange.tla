------------------------------- MODULE Exchange -------------------------------
(***************************************************************************)
(* A Go Caller and a Go HOWHandler at the two ends of one connection: the  *)
(* actions of GoCaller and GoHandler, tied together by what is on the wire. *)
(* The handler lives in a process whose main loop is that of               *)
(* cmd/howclient/main.go (examples/forward_proxy and embedded_handler have *)
(* the same loop, except that a signal makes them exit non-zero too); the  *)
(* caller lives in a program that reads the connection and closes the      *)
(* Caller when a read fails, as those of client_test.go do: the repository *)
(* has no other program with a Caller.                                     *)
(*                                                                         *)
(* Neither end has a timeout here (ReadTimeout is negative in the code's   *)
(* terms): whatever ends an exchange is something that the ends do.        *)
(***************************************************************************)
EXTENDS WireReplies

CONSTANTS
    Requests,   \* the calls of Request
    Handlers,   \* the kinds of Handler howclient may be made with
    MaxChunks   \* bound on the chunks of a response

VARIABLES closing, closeErr, pending, queue, hold, pc, result, pump, msg, timer,
          ended, body, got, ctxDone, arrived, quiet          \* of GoCaller

VARIABLES handler, place, started, source, produced, offered, sent   \* of GoHandler

VARIABLES
    link,      \* the connection: "up"; "draining", closed by howclient with
               \* frames still on their way; or "down"
    host,      \* howclient: "running", "signalled", or "exited"
    asked,     \* the requests on their way to howclient
    hiccup     \* a send has failed that neither a signal nor the connection
               \* accounts for, or one that came after it got through

callerVars == <<closing, closeErr, pending, queue, hold, pc, result, pump, msg, timer,
                ended, body, got, ctxDone, arrived, quiet>>
handlerVars == <<handler, place, started, source, produced, offered, sent>>
linkVars == <<link, host, asked, hiccup>>

vars == <<callerVars, handlerVars, linkVars>>

\* What the peer of the Caller has put on the wire, and puts there yet.
wire == [r \in Requests |-> Frames(sent[r])]

Caller == INSTANCE GoCaller WITH
              script <- wire, Replies <- {<<>>}, CloseArgs <- {"readError"}, ReadTimeout <- 0

Handler == INSTANCE GoHandler

ASSUME ExchangeAssumption ==
    /\ Caller!None \notin Requests
    /\ Handlers \subseteq Handler!HandlerKinds
    /\ MaxChunks \in Nat

Init ==
    /\ Handler!Init
    /\ Caller!Init
    /\ link = "up" /\ host = "running" /\ asked = {} /\ hiccup = FALSE

-------------------------------------------------------------------------------
\* The caller's program.

\* SendBytes: the request reaches howclient, unless the connection is gone.
Asks(r) ==
    /\ UNCHANGED <<handlerVars, link, host, hiccup>>
    /\ Caller!Transmit(r)
    /\ asked' = IF link = "up" THEN asked \cup {r} ELSE asked

\* Its read loop receives a frame...
Receives(r) ==
    /\ link # "down"
    /\ UNCHANGED <<handlerVars, linkVars>>
    /\ Caller!LookUp(r)

\* ... or, the connection being gone, an error.
ReadFails ==
    /\ link = "down" /\ hold = Caller!NoFrame
    /\ UNCHANGED <<handlerVars, linkVars>>
    /\ Caller!CloseSets("readError")

\* What the goroutines of the Caller do among themselves.
Runs(r) ==
    /\ UNCHANGED <<handlerVars, linkVars>>
    /\ \/ Caller!Register(r) \/ Caller!SendReturns(r) \/ Caller!SendFails(r)
       \/ Caller!FirstFrameEnds(r) \/ Caller!FirstFrameStarts(r)
       \/ Caller!RequestStops(r) \/ Caller!RequestGivesUp(r)
       \/ Caller!PumpStep(r) \/ Caller!Finalize(r) \/ Caller!ClosePipe(r)

Hands == UNCHANGED <<handlerVars, linkVars>> /\ (Caller!Push \/ Caller!CloseDone)

\* The user reads the body, ...
Reads(r) == UNCHANGED <<handlerVars, linkVars>> /\ Caller!Read(r)

\* ... or else may call Request, cancel it, and close or forget the body.
Uses(r) ==
    /\ UNCHANGED <<handlerVars, linkVars>>
    /\ Caller!Call(r) \/ Caller!Cancel(r) \/ Caller!CloseBody(r) \/ Caller!DropBody(r)

-------------------------------------------------------------------------------
\* howclient.

Alive == host \in {"running", "signalled"}

\* conn.Write with the context of main succeeds: on a connection that is broken,
\* too, and even after a signal, which cancels the context, if the write outruns
\* it.  A frame that gets through behind one of its answer that did not leaves
\* a hole on the wire.
Accepts(r) == hiccup' = (hiccup \/ (link = "up" /\ sent[r] # offered[r]))

\* conn.Write fails: the context is cancelled or the connection broken, or
\* (but a websocket does not) it just fails this time.
Rejects == hiccup' = (hiccup \/ (host = "running" /\ link = "up"))

\* Mutant: a frame is handed on and read once more.
TakesAndKeeps(r) ==
    /\ host = "running" /\ link = "up" /\ r \in asked
    /\ Handler!HandleGood(r)
    /\ UNCHANGED <<callerVars, linkVars>>

\* conn.Read returns a request, and HandleBinaryMessage dispatches it.
Takes(r) ==
    /\ host = "running" /\ link = "up" /\ r \in asked
    /\ Handler!HandleGood(r)
    /\ asked' = asked \ {r}
    /\ UNCHANGED <<callerVars, link, host, hiccup>>

\* The goroutine that answers r takes a step.  Bodies may break off at any time,
\* be it that a signal cancels the context they are read with.
Answers(r) ==
    /\ Alive
    /\ UNCHANGED <<callerVars, link, host, asked>>
    /\ Handler!WriteHeader(r) \/ Handler!Dispatch(r)
    /\ \/ offered' = offered /\ UNCHANGED hiccup
       \/ sent' # sent /\ Accepts(r)
       \/ offered' # offered /\ sent' = sent /\ Rejects

\* SIGINT or SIGTERM.
Signal ==
    /\ host = "running"
    /\ host' = "signalled"
    /\ UNCHANGED <<callerVars, handlerVars, link, asked, hiccup>>

\* Mutant: main returns and leaves the connection to time out.
ExitHalfOpen ==
    /\ host' = "exited"
    /\ UNCHANGED <<callerVars, handlerVars, link, asked, hiccup>>

\* The process ends, and its connection with it; no goroutine is waited for.
Exit ==
    /\ host' = "exited"
    /\ link' = IF link = "up" THEN "draining" ELSE link
    /\ UNCHANGED <<callerVars, handlerVars, asked, hiccup>>

\* Mutant: the loop leaves a read that failed to the next one.
LoopGoesOn == FALSE /\ Exit

\* conn.Read fails, for a signal or a broken connection, and main returns.
LoopEnds == (host = "signalled" \/ (host = "running" /\ link = "down")) /\ Exit

\* An http.Handler or a StreamingHandler panics, which nothing recovers.
Panics(r) == Alive /\ place[r] \in {"dispatched", "streaming"} /\ handler # "forward" /\ Exit

-------------------------------------------------------------------------------
\* The connection: what it carries is in order, and is lost when it breaks.

Breaks ==
    /\ link = "up"
    /\ link' = "down"
    /\ UNCHANGED <<callerVars, handlerVars, host, asked, hiccup>>

\* The close that ends what howclient has sent is read, or the rest is lost.
Drains ==
    /\ link = "draining"
    /\ link' = "down"
    /\ UNCHANGED <<callerVars, handlerVars, host, asked, hiccup>>

-------------------------------------------------------------------------------

Next ==
    \/ \E r \in Requests : \/ Asks(r) \/ Receives(r) \/ Runs(r) \/ Reads(r) \/ Uses(r)
                           \/ Takes(r) \/ Answers(r) \/ Panics(r)
    \/ ReadFails \/ Hands \/ Signal \/ LoopEnds \/ Breaks \/ Drains

SafeSpec == Init /\ [][Next]_vars

(***************************************************************************)
(* Everything runs that can: the goroutines at both ends, both read loops, *)
(* the finalizer and the connection that is closing.  A user who has a     *)
(* body reads it, until it is closed or dropped.  Nothing obliges the user *)
(* to call, cancel or close, a signal to come, a handler to panic or the   *)
(* connection to break.                                                    *)
(***************************************************************************)
Spec ==
    /\ SafeSpec
    /\ \A r \in Requests : /\ WF_vars(Asks(r) \/ Runs(r)) /\ WF_vars(Receives(r))
                           /\ WF_vars(Reads(r))
                           /\ WF_vars(Takes(r)) /\ WF_vars(Answers(r))
    /\ WF_vars(ReadFails) /\ WF_vars(Hands) /\ WF_vars(LoopEnds) /\ WF_vars(Drains)

-------------------------------------------------------------------------------
\* Properties.

\* The variables of the composition stay in their domains, and a request that
\* waits to be taken has not been answered.
TypeOK ==
    /\ link \in {"up", "draining", "down"}
    /\ host \in {"running", "signalled", "exited"}
    /\ hiccup \in BOOLEAN
    /\ asked \in SUBSET Requests
    /\ \A r \in asked : place[r] = "none"

\* End to end, a clean EOF has lost nothing on the way: the reader got every
\* chunk that the handler produced, and the handler was done with its source.  Of
\* a StreamingHandler that is a whole body.  Of ForwardHandler, the only Handler
\* of howclient, and of the adapter it is not: either ends its stream the same
\* way when its source breaks off (see TruncationIsSeen).  A connection that
\* breaks, a panic and a cancellation never look like an end, and neither does
\* a send that fails, except through the adapter, whose http.Handler may go on
\* after a chunk that was not sent.
CleanEofLosesNothing ==
    \A r \in Requests : ended[r] = Caller!EOF /\ ~(hiccup /\ handler = "adapter") =>
        /\ Len(got[r]) = produced[r] /\ source[r] # "open"
        /\ handler = "custom" => source[r] = "ended"

\* The comment in dispatchRequest: when a handler fails after its header, the
\* peer caller is to surface that through Body.Read, "instead of seeing a clean
\* EOF on a truncated stream".
TruncationIsSeen == \A r \in Requests : ended[r] = Caller!EOF => source[r] # "broken"

\* What the Caller has received of an answer is the beginning of one that
\* Conforming allows, so it never meets a frame it does not expect: that takes a
\* header that was lost while what follows it was not.
NeverConfused ==
    \A r \in Requests :
        hiccup \/ (Conforming(SubSeq(wire[r], 1, arrived[r])) /\ result[r] # "unexpectedType")

\* Without any timeout, every exchange ends and gives its pending slot back,
\* whatever becomes of the handler, its process and the connection: if no
\* answer comes, the connection ends, and the Caller learns of it.
ExchangesEnd == \A r \in Requests : r \in pending ~> r \notin pending \/ hiccup

\* What goes on by itself at the caller's end, ...
CallerDue(r) ==
    \/ pc[r] \in {"registered", "sending", "stopping"}
    \/ pc[r] = "waiting" /\ (queue[r] # <<>> \/ Caller!MustStop(r, r \in ctxDone))
    \/ pump[r] \in {"starting", "writing", "stopping", "returning"}
    \/ pump[r] = "waiting" /\ (queue[r] # <<>> \/ Caller!MustStop(r, Caller!PumpCtxDone(r)))
    \/ hold # Caller!NoFrame \/ closing = "setting"

\* ... at the handler's, ...
HandlerDue(r) ==
    \/ host = "running" /\ link = "up" /\ r \in asked
    \/ Alive /\ place[r] \notin {"none", "done"}
    \/ host = "signalled"
    \/ host = "running" /\ link = "down"

\* ... and between them.
LinkDue(r) ==
    \/ link # "down" /\ arrived[r] < Len(wire[r])
    \/ link = "down" /\ closing = "open"
    \/ link = "draining"

\* An exchange never comes to a standstill with its slot still pending: some
\* goroutine, read loop or connection has a step to take for it that waits for
\* nothing but, when a chunk is being written, the user who holds the body.
NeverStuck == \A r \in pending : hiccup \/ CallerDue(r) \/ HandlerDue(r) \/ LinkDue(r)

===============================================================================
