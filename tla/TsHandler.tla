------------------------------- MODULE TsHandler -------------------------------
(***************************************************************************)
(* createHOWHandler of typescript/src/client/client.ts with ForwardHandler *)
(* and HTTPHandlerAdapter.  Everything runs in one event loop; each        *)
(* HTTPRequest starts an async handleRequest of its own, and an action is  *)
(* what one of them does between two awaits, or one event of the loopback  *)
(* HTTP request.  sendEnv throws when the transport rejects the frame,     *)
(* once or for good.                                                       *)
(*                                                                         *)
(* Once the loopback request is torn down by cleanup(), it emits nothing   *)
(* more.  What Node.js does with an exception that a callback of proxy()   *)
(* throws is not modelled.                                                 *)
(***************************************************************************)
EXTENDS WireReplies

CONSTANTS
    Requests,   \* the HTTPRequests the peer sends
    Handlers,   \* the kinds of handler createHOWHandler may be given
    MaxChunks   \* bound on the chunks of a response

\* "buffered": a RequestListener; "forward": a target URL; "adapter": a
\* RequestListener with streaming.
HandlerKinds == {"buffered", "forward", "adapter"}

ASSUME TsHandlerAssumption == Handlers \subseteq HandlerKinds /\ MaxChunks \in Nat

VARIABLES
    handler,    \* what resolveHandler made
    place,      \* where handleRequest is
    started,    \* ResponseWriter.started
    source,     \* where the body comes from: "open", "ended", or "broken" off
    produced,   \* how many chunks it has produced
    sent,       \* sent[r]: the frames that were sent without a throw
    threw       \* the requests some of whose sends have thrown

vars == <<handler, place, started, source, produced, sent, threw>>

Init ==
    /\ handler \in Handlers
    /\ place = [r \in Requests |-> "none"]
    /\ started = [r \in Requests |-> FALSE]
    /\ source = [r \in Requests |-> "open"]
    /\ produced = [r \in Requests |-> 0]
    /\ sent = [r \in Requests |-> <<>>]
    /\ threw = {}

-------------------------------------------------------------------------------

Goes(r, p) == place' = [place EXCEPT ![r] = p]

Sends(r, k) == sent' = [sent EXCEPT ![r] = Append(@, k)]

\* sendEnv(k): the frame goes out and handleRequest goes on to p, or the throw
\* takes it to q.
SendEnv(r, k, p, q) ==
    \/ Sends(r, k) /\ Goes(r, p) /\ UNCHANGED threw
    \/ threw' = threw \cup {r} /\ Goes(r, q) /\ UNCHANGED sent

\* processEnvelope: handleRequest runs on its own from here.
Handle(r) ==
    /\ place[r] = "none"
    /\ Goes(r, "serving")
    /\ UNCHANGED <<handler, started, source, produced, sent, threw>>

\* serveHTTPOverWS resolves: its response is sent; when that throws, the catch
\* block tries a 502.
ServeBuffered(r) ==
    /\ place[r] = "serving" /\ handler = "buffered"
    /\ SendEnv(r, "Response", "done", "failing")
    /\ UNCHANGED <<handler, started, source, produced>>

\* serveHTTPOverWS rejects, or the stream fails before writeHeader: fetch, the
\* loopback server or its request reports an error.
ServeFails(r) ==
    /\ place[r] = "serving"
    /\ Goes(r, "failing")
    /\ UNCHANGED <<handler, started, source, produced, sent, threw>>

\* Mutant: writeHeader does not set started.
WriteHeaderForgets(r) ==
    /\ place[r] = "serving" /\ handler # "buffered"
    /\ SendEnv(r, "Start", "streaming", "failing")
    /\ UNCHANGED <<handler, started, source, produced>>

\* ResponseWriter.writeHeader: started is set even if the send throws.
WriteHeader(r) ==
    /\ place[r] = "serving" /\ handler # "buffered"
    /\ started' = [started EXCEPT ![r] = TRUE]
    /\ SendEnv(r, "Start", "streaming", "failing")
    /\ UNCHANGED <<handler, source, produced>>

\* Mutant: the data callback swallows what write throws.
WriteSwallows(r) ==
    /\ place[r] = "streaming"
    /\ produced[r] < MaxChunks
    /\ produced' = [produced EXCEPT ![r] = @ + 1]
    /\ SendEnv(r, "Chunk", "streaming", "streaming")
    /\ UNCHANGED <<handler, started, source>>

\* ResponseWriter.write, in the loop of ForwardHandler or the "data" callback
\* of streamImpl: a throw rejects.
Write(r) ==
    /\ place[r] = "streaming"
    /\ produced[r] < MaxChunks
    /\ produced' = [produced EXCEPT ![r] = @ + 1]
    /\ SendEnv(r, "Chunk", "streaming", "failing")
    /\ UNCHANGED <<handler, started, source>>

\* The body is complete ("end", or done): w.close().
SourceEnds(r) ==
    /\ place[r] = "streaming"
    /\ source' = [source EXCEPT ![r] = "ended"]
    /\ SendEnv(r, "End", "done", "failing")
    /\ UNCHANGED <<handler, started, produced>>

\* Mutant: an upstream error ends the loop, as it does in Go.
SourceBreaksQuietly(r) ==
    /\ place[r] = "streaming"
    /\ source' = [source EXCEPT ![r] = "broken"]
    /\ SendEnv(r, "End", "done", "failing")
    /\ UNCHANGED <<handler, started, produced>>

\* reader.read() rejects, or the loopback request or response has an error.
SourceBreaks(r) ==
    /\ place[r] = "streaming"
    /\ source' = [source EXCEPT ![r] = "broken"]
    /\ Goes(r, "failing")
    /\ UNCHANGED <<handler, started, produced, sent, threw>>

\* Mutant: a 502 whatever has been sent.
FailsAsResponse(r) ==
    /\ place[r] = "failing"
    /\ SendEnv(r, "Response", "done", "done")
    /\ UNCHANGED <<handler, started, source, produced>>

\* Mutant: the catch block only logs.
FailsSilently(r) ==
    /\ place[r] = "failing"
    /\ Goes(r, "done")
    /\ UNCHANGED <<handler, started, source, produced, sent, threw>>

\* The catch block of handleRequest: a 502 before the header, an Error after
\* it; a second throw is logged.
Fails(r) ==
    /\ place[r] = "failing"
    /\ SendEnv(r, IF started[r] THEN "Error" ELSE "Response", "done", "done")
    /\ UNCHANGED <<handler, started, source, produced>>

Serve(r) ==
    \/ ServeBuffered(r) \/ ServeFails(r) \/ WriteHeader(r) \/ Write(r)
    \/ SourceEnds(r) \/ SourceBreaks(r) \/ Fails(r)

Next == \E r \in Requests : Handle(r) \/ Serve(r)

SafeSpec == Init /\ [][Next]_vars

(***************************************************************************)
(* The event loop resumes what can be resumed, and the handler and its     *)
(* upstream get on: bodies are finite (MaxChunks) and end or break off.    *)
(***************************************************************************)
Spec == SafeSpec /\ \A r \in Requests : WF_vars(Serve(r))

-------------------------------------------------------------------------------
\* Properties.

\* Every variable stays in its domain, and nobody has a header that was not
\* written.
TypeOK ==
    /\ handler \in Handlers
    /\ place \in [Requests -> {"none", "serving", "streaming", "failing", "done"}]
    /\ started \in [Requests -> BOOLEAN]
    /\ source \in [Requests -> {"open", "ended", "broken"}]
    /\ produced \in [Requests -> 0..MaxChunks]
    /\ sent \in [Requests -> Seq(Kinds)]
    /\ threw \in SUBSET Requests
    /\ \A r \in Requests : place[r] = "streaming" => started[r]

Response == INSTANCE ResponseProtocol WITH out <- sent

\* What is on the wire for a request is an answer of ResponseProtocol, or the
\* beginning of one, whichever sends throw: in particular a header that could
\* not be sent is never followed by chunks.  (That allows an Error and an End
\* after a failure; spec.md 8.3 prefers End, see EndMeansWholeBody.)
ImplementsResponse == Response!Spec

Has(r, k) == \E i \in 1..Len(sent[r]) : sent[r][i] = k

\* When HTTPResponseEnd is on the wire, the body is complete and every chunk of
\* it is on the wire: a truncated stream ends in an Error or not at all.  That is
\* what the code is meant to do ("an Error envelope, not End", client.ts:642),
\* and not what spec.md:320 says: after HTTPResponseStart "the Client SHOULD
\* send an HTTPResponseEnd" on an error, too.
EndMeansWholeBody ==
    \A r \in Requests : Has(r, "End") =>
        /\ source[r] = "ended"
        /\ CarriesAll(sent[r], produced[r])

\* Every request is answered up to its last frame, unless a send throws on the
\* way: a failure of the handler or of its upstream reaches the wire, if it
\* reaches handleRequest.  An exception thrown inside a callback of proxy() does
\* not, it ends the process; that is not modelled.
AnsweredUnlessSendThrows ==
    \A r \in Requests :
        place[r] # "none" ~> r \in threw \/ \E k \in Terminal : Has(r, k)

===============================================================================
