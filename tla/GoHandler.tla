------------------------------- MODULE GoHandler -------------------------------
(***************************************************************************)
(* HOWHandler of golang/client/client.go with the handlers, the            *)
(* ResponseWriter and the adapters of handler.go: each HTTPRequest is      *)
(* dispatched to a goroutine of its own, which answers through the shared  *)
(* Sendable.  A send is the step that others see; it may fail, once or for *)
(* good, and what the code does then is what this module is about.         *)
(*                                                                         *)
(* Binary and text mode differ in the encoding only.  A handler that       *)
(* panics brings the process down (nothing recovers) and is not modelled,  *)
(* nor is a StreamingHandler that breaks the contract of ResponseWriter    *)
(* (WriteHeader before Write; Close, or an error, at the end).             *)
(***************************************************************************)
EXTENDS WireReplies

CONSTANTS
    Requests,   \* the HTTPRequests the peer sends
    Handlers,   \* the kinds of Handler the HOWHandler may be made with
    MaxChunks   \* bound on the chunks of a response

\* "buffered": a Handler that is no StreamingHandler (HandlerFunc,
\* HTTPHandlerAdapter); "forward": ForwardHandler; "adapter":
\* streamingHTTPHandlerAdapter; "custom": any other StreamingHandler.
HandlerKinds == {"buffered", "forward", "adapter", "custom"}

ASSUME GoHandlerAssumption == Handlers \subseteq HandlerKinds /\ MaxChunks \in Nat

VARIABLES
    handler,    \* HOWHandler.handler
    place,      \* where the goroutine of r is
    started,    \* ResponseWriter.started
    source,     \* where the body comes from: "open", "ended", or "broken" off
    produced,   \* how many chunks it has produced
    offered,    \* offered[r]: the frames given to the Sendable
    sent        \* sent[r]: those of them that it did not reject

vars == <<handler, place, started, source, produced, offered, sent>>

Init ==
    /\ handler \in Handlers
    /\ place = [r \in Requests |-> "none"]
    /\ started = [r \in Requests |-> FALSE]
    /\ source = [r \in Requests |-> "open"]
    /\ produced = [r \in Requests |-> 0]
    /\ offered = [r \in Requests |-> <<>>]
    /\ sent = [r \in Requests |-> <<>>]

-------------------------------------------------------------------------------

Go(r, p) == place' = [place EXCEPT ![r] = p]

\* sendBinary / sendText: ok tells whether the error it returns is nil.
Send(r, k, ok) ==
    /\ offered' = [offered EXCEPT ![r] = Append(@, k)]
    /\ sent' = IF ok THEN [sent EXCEPT ![r] = Append(@, k)] ELSE sent

\* The callers that ignore the error of a send.
SendAnyway(r, k) == \E ok \in BOOLEAN : Send(r, k, ok)

\* Mutant: a request that does not decode is only logged.
HandleBadSilently(r) ==
    /\ place[r] = "none"
    /\ Go(r, "done")
    /\ UNCHANGED <<handler, started, source, produced, offered, sent>>

\* Handle*Message: the read loop itself answers a payload that does not decode.
HandleBad(r) ==
    /\ place[r] = "none"
    /\ SendAnyway(r, "Error")
    /\ Go(r, "done")
    /\ UNCHANGED <<handler, started, source, produced>>

HandleGood(r) ==
    /\ place[r] = "none"
    /\ Go(r, "dispatched")
    /\ UNCHANGED <<handler, started, source, produced, offered, sent>>

\* dispatchRequest without streaming: the response, or a 502 that carries the
\* error of the handler.
ServeBuffered(r) ==
    /\ place[r] = "dispatched" /\ handler = "buffered"
    /\ SendAnyway(r, "Response")
    /\ Go(r, "done")
    /\ UNCHANGED <<handler, started, source, produced>>

\* A StreamingHandler fails before it has written a header: a 502.
ServeFails(r) ==
    /\ place[r] = "dispatched" /\ handler # "buffered" /\ ~started[r]
    /\ SendAnyway(r, "Response")
    /\ Go(r, "done")
    /\ UNCHANGED <<handler, started, source, produced>>

\* Mutant: WriteHeader does not look at started.
WriteHeaderAgain(r) ==
    /\ \/ place[r] = "dispatched" /\ handler # "buffered"
       \/ place[r] = "streaming" /\ handler \in {"adapter", "custom"}
    /\ started' = [started EXCEPT ![r] = TRUE]
    /\ SendAnyway(r, "Start")
    /\ Go(r, "streaming")
    /\ UNCHANGED <<handler, source, produced>>

\* ResponseWriter.WriteHeader: handlers may call it again, without effect; that
\* the Start may not have been sent is ignored.
WriteHeader(r) ==
    /\ \/ place[r] = "dispatched" /\ handler # "buffered"
       \/ place[r] = "streaming" /\ handler \in {"adapter", "custom"}
    /\ IF started[r]
       THEN UNCHANGED <<started, offered, sent, place>>
       ELSE /\ started' = [started EXCEPT ![r] = TRUE]
            /\ SendAnyway(r, "Start")
            /\ Go(r, "streaming")
    /\ UNCHANGED <<handler, source, produced>>

\* ResponseWriter.Write.  ForwardHandler and StreamingHandlers give up when it
\* fails; an http.Handler behind the adapter may return or go on writing.
Write(r) ==
    /\ place[r] = "streaming"
    /\ produced[r] < MaxChunks
    /\ produced' = [produced EXCEPT ![r] = @ + 1]
    /\ \/ /\ Send(r, "Chunk", TRUE)
          /\ UNCHANGED <<place, source>>
       \/ /\ Send(r, "Chunk", FALSE)
          /\ \/ handler # "adapter" /\ Go(r, "failing")
             \/ handler = "adapter" /\ Go(r, "closing")
          /\ source' = [source EXCEPT ![r] = "broken"]
       \/ /\ Send(r, "Chunk", FALSE)
          /\ handler = "adapter"
          /\ UNCHANGED <<place, source>>
    /\ UNCHANGED <<handler, started>>

\* The body is complete: EOF, or the handler has written all of it.
SourceEnds(r) ==
    /\ place[r] = "streaming"
    /\ source' = [source EXCEPT ![r] = "ended"]
    /\ Go(r, "closing")
    /\ UNCHANGED <<handler, started, produced, offered, sent>>

\* The body breaks off: the upstream connection fails, or the context of the
\* dispatch ends.  ForwardHandler leaves its loop on any error of Read, an
\* http.Handler just returns; a StreamingHandler reports it.
SourceBreaks(r) ==
    /\ place[r] = "streaming"
    /\ source' = [source EXCEPT ![r] = "broken"]
    /\ Go(r, IF handler = "custom" THEN "failing" ELSE "closing")
    /\ UNCHANGED <<handler, started, produced, offered, sent>>

\* ResponseWriter.Close.
CloseStream(r) ==
    /\ place[r] = "closing"
    /\ SendAnyway(r, "End")
    /\ Go(r, "done")
    /\ UNCHANGED <<handler, started, source, produced>>

\* Mutant: the answer to an error does not look at rw.started.
FailAsResponse(r) ==
    /\ place[r] = "failing"
    /\ SendAnyway(r, "Response")
    /\ Go(r, "done")
    /\ UNCHANGED <<handler, started, source, produced>>

\* Mutant: End on every way out.
FailAsEnd(r) ==
    /\ place[r] = "failing"
    /\ SendAnyway(r, "End")
    /\ Go(r, "done")
    /\ UNCHANGED <<handler, started, source, produced>>

\* An error after the header: an Error envelope.
Fail(r) ==
    /\ place[r] = "failing"
    /\ SendAnyway(r, "Error")
    /\ Go(r, "done")
    /\ UNCHANGED <<handler, started, source, produced>>

Dispatch(r) ==
    \/ ServeBuffered(r) \/ ServeFails(r) \/ Write(r) \/ SourceEnds(r) \/ SourceBreaks(r)
    \/ CloseStream(r) \/ Fail(r)

Next == \E r \in Requests : HandleBad(r) \/ HandleGood(r) \/ WriteHeader(r) \/ Dispatch(r)

SafeSpec == Init /\ [][Next]_vars

(***************************************************************************)
(* A goroutine that can run does, and so does the handler it runs: bodies  *)
(* are finite (MaxChunks) and end or break off.                            *)
(***************************************************************************)
Spec == SafeSpec /\ \A r \in Requests : WF_vars(Dispatch(r))

-------------------------------------------------------------------------------
\* Properties.

Places == {"none", "dispatched", "streaming", "closing", "failing", "done"}

\* Every variable stays in its domain, and no answer is longer than a header,
\* the chunks and an end.
TypeOK ==
    /\ handler \in Handlers
    /\ place \in [Requests -> Places]
    /\ started \in [Requests -> BOOLEAN]
    /\ source \in [Requests -> {"open", "ended", "broken"}]
    /\ produced \in [Requests -> 0..MaxChunks]
    /\ offered \in [Requests -> Seq(Kinds)]
    /\ sent \in [Requests -> Seq(Kinds)]
    /\ \A r \in Requests : Len(offered[r]) <= MaxChunks + 2

Response == INSTANCE ResponseProtocol WITH out <- offered

\* What the handler gives the Sendable is an answer of ResponseProtocol: never
\* two modes for one request, no second header, nothing after the end, whatever
\* fails on the way.  After a header a failure may end in an Error or in an End
\* (spec.md 8.3 prefers End, see EndMeansWholeBody); either way the answer ends.
ImplementsResponse == Response!Spec

Has(r, k) == \E i \in 1..Len(sent[r]) : sent[r][i] = k

\* When HTTPResponseEnd is on the wire, so is every chunk of the body before it
\* (the adapter cannot promise this: an http.Handler may ignore that a write
\* failed); and a StreamingHandler's End says that the body is complete.  That
\* is what the code is meant to do (client.go:700, CHANGELOG.md:73), and not
\* what spec.md:320 says: after HTTPResponseStart "the Client SHOULD send an
\* HTTPResponseEnd" on an error, too.  ForwardHandler and the adapter do that
\* when their source breaks off, and so are promised only the chunks.
EndMeansWholeBody ==
    \A r \in Requests : Has(r, "End") =>
        /\ handler = "adapter" \/ CarriesAll(sent[r], produced[r])
        /\ handler = "custom" => source[r] = "ended"

\* Every request that arrives is answered, at least as far as the handler can
\* see: a last frame is given to the Sendable on every path.
EveryRequestAnswered ==
    \A r \in Requests :
        place[r] # "none" ~> offered[r] # <<>> /\ offered[r][Len(offered[r])] \in Terminal

===============================================================================
