------------------------------- MODULE TsCaller -------------------------------
(***************************************************************************)
(* createHOWCaller of typescript/src/client/client.ts.  One event loop     *)
(* runs everything, so an action is a callback that runs to its end: a     *)
(* call of request() or close(), a message handed to handle*Message, a     *)
(* timer that fires, a read or a cancel of the body, and the pull() of the *)
(* body's ReadableStream, up to its await and from there on.               *)
(*                                                                         *)
(* The ReadableStream is the platform's: it calls pull() when its own      *)
(* queue is empty (the default high-water mark is 1), never while another  *)
(* pull() is unfinished, and error() discards what it has queued.          *)
(*                                                                         *)
(* A body that arrives in one HTTPResponse is whole when request()         *)
(* resolves, and is not modelled further.  The stream of r is the one that *)
(* request() resolved with; another HTTPResponseStart makes a stream that  *)
(* nobody can read, of which nothing is kept but that the entry's          *)
(* callbacks now feed it ("other").                                        *)
(***************************************************************************)
EXTENDS WireReplies

CONSTANTS
    Requests,   \* the calls of request(), each with its own fresh requestID
    Replies,    \* what a peer may answer: sequences of Reply records
    CloseArgs,  \* the errors close() may be given
    TimerOn     \* readTimeout > 0

None == "none"
Undefined == "undefined"
TransportClosed == "transportClosed"
ReadTimeoutError == "readTimeout"

ASSUME TsCallerAssumption ==
    /\ \A s \in Replies : s \in Seq(Reply)
    /\ TimerOn \in BOOLEAN
    /\ {None, ReadTimeoutError, "pending", "sendError"} \cap CloseArgs = {}

CloseErrors == (CloseArgs \ {Undefined}) \cup {TransportClosed}

VARIABLES
    closedErr,      \* closedErr; None is undefined
    pending,        \* the keys of the map pending
    timer,          \* the requests whose entry has a running timer
    promise,        \* "none", "pending", or what the promise of r settled with
    hooks,          \* what entry.streamPush/Close/Error feed: None, "own", "other"
    buffer,         \* the chunks the callbacks have left for pull()
    terminalErr,    \* terminalErr of the stream
    terminalClose,  \* the streams with terminalClose
    pull,           \* pull(): "idle", "waiting" for notify, or "woken" by it
    inner,          \* the queue inside the ReadableStream
    stream,         \* "none", "readable", "closed", "errored" or "cancelled"
    got,            \* got[r]: the chunks the reader of the body has been given
    script,         \* script[r]: the reply the peer gives to r
    arrived,        \* how many of its frames have been handed to the caller
    heard           \* the last of them that found an entry

entryVars == <<pending, timer, promise, hooks>>
bufferVars == <<buffer, terminalErr, terminalClose>>
streamVars == <<pull, inner, stream, got>>
wireVars == <<script, arrived, heard>>

vars == <<closedErr, entryVars, bufferVars, streamVars, wireVars>>

Init ==
    /\ closedErr = None
    /\ pending = {} /\ timer = {} /\ terminalClose = {}
    /\ promise = [r \in Requests |-> "none"]
    /\ hooks = [r \in Requests |-> None]
    /\ buffer = [r \in Requests |-> <<>>]
    /\ terminalErr = [r \in Requests |-> None]
    /\ pull = [r \in Requests |-> "idle"]
    /\ inner = [r \in Requests |-> <<>>]
    /\ stream = [r \in Requests |-> "none"]
    /\ got = [r \in Requests |-> <<>>]
    /\ script = [r \in Requests |-> <<>>]
    /\ arrived = [r \in Requests |-> 0]
    /\ heard = [r \in Requests |-> 0]

-------------------------------------------------------------------------------
\* Helpers.

Started == IF TimerOn THEN Requests ELSE {}

\* startTimer: clears the timer of the entry and, with a timeout, sets it anew.
StartTimer(r) == timer' = (timer \ {r}) \cup ({r} \cap Started)

\* clearTimer and pending.delete.
Forget(r) == timer' = timer \ {r} /\ pending' = pending \ {r}

\* A promise settles once.
Settled(p, r, v) == IF p[r] = "pending" THEN [p EXCEPT ![r] = v] ELSE p

\* notify?.() of the streams that the entries of R feed.
Notified(R) ==
    [r \in Requests |->
        IF r \in R /\ hooks[r] = "own" /\ pull[r] = "waiting" THEN "woken" ELSE pull[r]]

\* streamError(err) where there is a stream, and reject(err) where there is none.
Fail(R, e) ==
    /\ promise' = [r \in Requests |->
                      IF r \in R /\ hooks[r] = None /\ promise[r] = "pending"
                      THEN e ELSE promise[r]]
    /\ terminalErr' = [r \in Requests |->
                          IF r \in R /\ hooks[r] = "own" THEN e ELSE terminalErr[r]]
    /\ pull' = Notified(R)

-------------------------------------------------------------------------------
\* request().  When sendEnvelope throws, the promise rejects and nothing else
\* is undone.

Request(r) ==
    /\ promise[r] = "none"
    /\ closedErr = None
    /\ pending' = pending \cup {r}
    /\ StartTimer(r)
    /\ \E s \in Replies : script' = [script EXCEPT ![r] = s]
    /\ \E p \in {"pending", "sendError"} : promise' = [promise EXCEPT ![r] = p]
    /\ UNCHANGED <<closedErr, hooks, bufferVars, streamVars, arrived, heard>>

RequestRejected(r) ==
    /\ promise[r] = "none"
    /\ closedErr # None
    /\ promise' = [promise EXCEPT ![r] = closedErr]
    /\ UNCHANGED <<closedErr, pending, timer, hooks, bufferVars, streamVars, wireVars>>

-------------------------------------------------------------------------------
\* handle*Message and processEnvelope.

\* A message for r arrives.
Receive(r) ==
    /\ arrived[r] < Len(script[r])
    /\ arrived' = [arrived EXCEPT ![r] = @ + 1]
    /\ UNCHANGED script

\* No entry: the message is dropped.
OnNobody(r) ==
    /\ Receive(r)
    /\ r \notin pending
    /\ UNCHANGED <<closedErr, entryVars, bufferVars, streamVars, heard>>

\* A message of type k finds its entry.
On(r, k) ==
    /\ Receive(r)
    /\ r \in pending
    /\ script[r][arrived[r] + 1].kind = k
    /\ heard' = [heard EXCEPT ![r] = arrived[r] + 1]
    /\ UNCHANGED closedErr

Decodes(r) == script[r][arrived[r] + 1].ok

\* The entry goes before the payload is looked at, so a payload that is
\* missing leaves the promise as it is.
OnResponse(r) ==
    /\ On(r, "Response")
    /\ Forget(r)
    /\ promise' = IF Decodes(r) THEN Settled(promise, r, "response") ELSE promise
    /\ UNCHANGED <<hooks, bufferVars, streamVars>>

\* The callbacks are set before the payload is looked at.  The first Start that
\* decodes resolves the promise, and its stream is the one that the user has.
OnStart(r) ==
    LET visible == Decodes(r) /\ promise[r] = "pending"
    IN  /\ On(r, "Start")
        /\ StartTimer(r)
        /\ hooks' = [hooks EXCEPT ![r] = IF visible THEN "own" ELSE "other"]
        /\ promise' = IF Decodes(r) THEN Settled(promise, r, "stream") ELSE promise
        /\ stream' = IF visible THEN [stream EXCEPT ![r] = "readable"] ELSE stream
        /\ UNCHANGED <<pending, bufferVars, pull, inner, got>>

\* Mutant: streamPush without notify.
OnChunkSilent(r) ==
    /\ On(r, "Chunk")
    /\ StartTimer(r)
    /\ buffer' = IF Decodes(r) /\ hooks[r] = "own"
                 THEN [buffer EXCEPT ![r] = Append(@, heard'[r])] ELSE buffer
    /\ UNCHANGED <<pending, promise, hooks, terminalErr, terminalClose, streamVars>>

\* streamPush?.(); a payload that is missing throws before it.
OnChunk(r) ==
    /\ On(r, "Chunk")
    /\ StartTimer(r)
    /\ IF Decodes(r) /\ hooks[r] = "own"
       THEN /\ buffer' = [buffer EXCEPT ![r] = Append(@, heard'[r])]
            /\ pull' = Notified({r})
       ELSE UNCHANGED <<buffer, pull>>
    /\ UNCHANGED <<pending, promise, hooks, terminalErr, terminalClose, inner, stream, got>>

\* Mutant: the timer set at the top of processEnvelope is not cleared again.
OnEndTimerOn(r) ==
    /\ On(r, "End")
    /\ StartTimer(r)
    /\ pending' = pending \ {r}
    /\ terminalClose' = IF hooks[r] = "own" THEN terminalClose \cup {r} ELSE terminalClose
    /\ pull' = Notified({r})
    /\ UNCHANGED <<promise, hooks, buffer, terminalErr, inner, stream, got>>

\* streamClose?.(); without a stream, the promise is left as it is.
OnEnd(r) ==
    /\ On(r, "End")
    /\ Forget(r)
    /\ terminalClose' = IF hooks[r] = "own" THEN terminalClose \cup {r} ELSE terminalClose
    /\ pull' = Notified({r})
    /\ UNCHANGED <<promise, hooks, buffer, terminalErr, inner, stream, got>>

\* As in OnResponse, the entry is gone when a missing payload throws.
OnError(r) ==
    /\ On(r, "Error")
    /\ Forget(r)
    /\ IF Decodes(r) THEN Fail({r}, "remoteError") ELSE UNCHANGED <<promise, terminalErr, pull>>
    /\ UNCHANGED <<hooks, buffer, terminalClose, inner, stream, got>>

OnOther(r) ==
    /\ On(r, "Other")
    /\ StartTimer(r)
    /\ UNCHANGED <<pending, promise, hooks, bufferVars, streamVars>>

-------------------------------------------------------------------------------
\* The read timer, and close().

\* Mutant: the expiry of the timer takes a stream for finished.
TimerFiresQuietly(r) ==
    /\ r \in timer
    /\ Forget(r)
    /\ terminalClose' = IF hooks[r] = "own" THEN terminalClose \cup {r} ELSE terminalClose
    /\ promise' = IF hooks[r] = None THEN Settled(promise, r, ReadTimeoutError) ELSE promise
    /\ pull' = Notified({r})
    /\ UNCHANGED <<closedErr, hooks, buffer, terminalErr, inner, stream, got, wireVars>>

TimerFires(r) ==
    /\ r \in timer
    /\ Forget(r)
    /\ Fail({r}, ReadTimeoutError)
    /\ UNCHANGED <<closedErr, hooks, buffer, terminalClose, inner, stream, got, wireVars>>

\* Mutant: err without its default.
CloseUndefined(e) ==
    /\ closedErr = None
    /\ closedErr' = e
    /\ Fail(pending, e)
    /\ timer' = timer \ pending
    /\ pending' = {}
    /\ UNCHANGED <<hooks, buffer, terminalClose, inner, stream, got, wireVars>>

\* Mutant: the map is cleared before it is walked.
CloseClearsFirst(e) ==
    /\ closedErr = None
    /\ closedErr' = IF e = Undefined THEN TransportClosed ELSE e
    /\ timer' = timer \ pending
    /\ pending' = {}
    /\ UNCHANGED <<promise, terminalErr, pull, hooks, buffer, terminalClose, inner, stream, got,
                   wireVars>>

Close(e) ==
    /\ closedErr = None
    /\ closedErr' = IF e = Undefined THEN TransportClosed ELSE e
    /\ Fail(pending, closedErr')
    /\ timer' = timer \ pending
    /\ pending' = {}
    /\ UNCHANGED <<hooks, buffer, terminalClose, inner, stream, got, wireVars>>

-------------------------------------------------------------------------------
\* The body: pull(), reads and cancel.

\* Mutant: the error is looked at first.
PullErrorFirst(r) ==
    /\ pull' = [pull EXCEPT ![r] = "idle"]
    /\ IF buffer[r] # <<>> /\ terminalErr[r] = None
       THEN /\ inner' = [inner EXCEPT ![r] = Append(@, Head(buffer[r]))]
            /\ buffer' = [buffer EXCEPT ![r] = Tail(@)]
            /\ UNCHANGED stream
       ELSE /\ stream' = [stream EXCEPT ![r] = IF terminalErr[r] # None
                                               THEN "errored" ELSE "closed"]
            /\ UNCHANGED <<inner, buffer>>

\* What pull() does when its loop has ended: a chunk first, then an error, then
\* the end.
PullFinishes(r) ==
    /\ pull' = [pull EXCEPT ![r] = "idle"]
    /\ IF buffer[r] # <<>>
       THEN /\ inner' = [inner EXCEPT ![r] = Append(@, Head(buffer[r]))]
            /\ buffer' = [buffer EXCEPT ![r] = Tail(@)]
            /\ UNCHANGED stream
       ELSE /\ stream' = [stream EXCEPT ![r] = IF terminalErr[r] # None
                                               THEN "errored" ELSE "closed"]
            /\ UNCHANGED <<inner, buffer>>

\* Mutant: the loop of pull() only looks for chunks.
MustWaitForChunks(r) == buffer[r] = <<>> /\ r \notin terminalClose

\* The condition of the loop in pull().
MustWait(r) == buffer[r] = <<>> /\ terminalErr[r] = None /\ r \notin terminalClose

\* The ReadableStream wants a chunk.
PullStarts(r) ==
    /\ stream[r] = "readable" /\ pull[r] = "idle" /\ inner[r] = <<>>
    /\ IF MustWait(r)
       THEN pull' = [pull EXCEPT ![r] = "waiting"] /\ UNCHANGED <<inner, buffer, stream>>
       ELSE PullFinishes(r)
    /\ UNCHANGED <<closedErr, entryVars, terminalErr, terminalClose, got, wireVars>>

\* The continuation of the await, in a microtask of its own.
PullWakes(r) ==
    /\ stream[r] = "readable" /\ pull[r] = "woken"
    /\ IF MustWait(r)
       THEN pull' = [pull EXCEPT ![r] = "waiting"] /\ UNCHANGED <<inner, buffer, stream>>
       ELSE PullFinishes(r)
    /\ UNCHANGED <<closedErr, entryVars, terminalErr, terminalClose, got, wireVars>>

Read(r) ==
    /\ stream[r] = "readable" /\ inner[r] # <<>>
    /\ got' = [got EXCEPT ![r] = Append(@, Head(inner[r]))]
    /\ inner' = [inner EXCEPT ![r] = Tail(@)]
    /\ UNCHANGED <<closedErr, entryVars, bufferVars, pull, stream, wireVars>>

\* Mutant: cancel without pending.delete.
CancelKeepsEntry(r) ==
    /\ stream[r] = "readable"
    /\ stream' = [stream EXCEPT ![r] = "cancelled"]
    /\ inner' = [inner EXCEPT ![r] = <<>>]
    /\ buffer' = [buffer EXCEPT ![r] = <<>>]
    /\ hooks' = [hooks EXCEPT ![r] = None]
    /\ UNCHANGED <<closedErr, pending, timer, promise, terminalErr, terminalClose, pull,
                   got, wireVars>>

\* reader.cancel(): the platform empties its queue and calls cancel().
Cancel(r) ==
    /\ stream[r] = "readable"
    /\ stream' = [stream EXCEPT ![r] = "cancelled"]
    /\ inner' = [inner EXCEPT ![r] = <<>>]
    /\ buffer' = [buffer EXCEPT ![r] = <<>>]
    /\ hooks' = [hooks EXCEPT ![r] = None]
    /\ Forget(r)
    /\ UNCHANGED <<closedErr, promise, terminalErr, terminalClose, pull, got, wireVars>>

-------------------------------------------------------------------------------

Message(r) ==
    \/ OnNobody(r) \/ OnResponse(r) \/ OnStart(r) \/ OnChunk(r)
    \/ OnEnd(r) \/ OnError(r) \/ OnOther(r)

Pull(r) == PullStarts(r) \/ PullWakes(r)

Next ==
    \/ \E r \in Requests : \/ Request(r) \/ RequestRejected(r) \/ Message(r) \/ TimerFires(r)
                           \/ Pull(r) \/ Read(r) \/ Cancel(r)
    \/ \E e \in CloseArgs : Close(e)

SafeSpec == Init /\ [][Next]_vars

(***************************************************************************)
(* The event loop runs what is due: messages, microtasks and timers.       *)
(* Nothing obliges the user to request, read, cancel or close.             *)
(***************************************************************************)
Spec ==
    /\ SafeSpec
    /\ \A r \in Requests : WF_vars(Message(r)) /\ WF_vars(TimerFires(r)) /\ WF_vars(Pull(r))

-------------------------------------------------------------------------------
\* Properties.

Errors == CloseErrors \cup {ReadTimeoutError, "remoteError"}

\* Every variable stays in its domain; the ReadableStream holds at most one chunk.
TypeOK ==
    /\ closedErr \in CloseErrors \cup {None}
    /\ pending \in SUBSET Requests
    /\ timer \in SUBSET Requests
    /\ promise \in [Requests -> Errors \cup {"none", "pending", "response", "stream", "sendError"}]
    /\ hooks \in [Requests -> {None, "own", "other"}]
    /\ buffer \in [Requests -> Seq(Nat)]
    /\ terminalErr \in [Requests -> Errors \cup {None}]
    /\ terminalClose \in SUBSET Requests
    /\ pull \in [Requests -> {"idle", "waiting", "woken"}]
    /\ inner \in [Requests -> Seq(Nat)]
    /\ \A r \in Requests : Len(inner[r]) <= 1
    /\ stream \in [Requests -> {"none", "readable", "closed", "errored", "cancelled"}]
    /\ got \in [Requests -> Seq(Nat)]
    /\ script \in [Requests -> Seq(Reply)]
    /\ arrived \in [Requests -> Nat]
    /\ heard \in [Requests -> Nat]

\* With a read timeout, the timer of an entry runs exactly as long as the entry
\* is in the map: no slot is without its timeout, and no timer outlives its slot
\* through any of the ways out of processEnvelope, cancel() and close().
TimerIffSlot == timer = IF TimerOn THEN pending ELSE {}

\* pull() never sleeps while there is a chunk, an error or an end for it: every
\* callback that leaves one notifies, whatever pull() is doing at that moment.
NoLostWakeup ==
    \A r \in Requests : stream[r] = "readable" /\ pull[r] = "waiting" => MustWait(r)

\* The chunks of the reply to r, among its first n frames.
Chunks(r, n) ==
    {i \in 1..Len(script[r]) : i <= n /\ script[r][i] = Good("Chunk")}

\* The reader sees the chunks in the order of the peer, without a hole, and
\* when the body ends, in an error or not, it has been given every chunk that
\* the caller had received: what is buffered outlives the error, as the
\* comment on PendingRequest wants.
DrainsBeforeItEnds ==
    \A r \in Requests : Conforming(script[r]) =>
        /\ \A i \in 1..Len(got[r]) :
              /\ got[r][i] \in Chunks(r, heard[r])
              /\ i > 1 => got[r][i] = got[r][i - 1] + 1
              /\ i = 1 => got[r][i] = 2
        /\ stream[r] \in {"closed", "errored"} =>
              Chunks(r, heard[r]) = {got[r][i] : i \in 1..Len(got[r])}

\* A body that is closed and not cancelled has been closed by HTTPResponseEnd:
\* a timeout, an Error or close() never looks like the end of the response.
CleanEofMeansEnd ==
    \A r \in Requests : stream[r] = "closed" => script[r][heard[r]].kind = "End"

\* The user's view of a caller: what each promise was settled with, and how
\* the body ended.
OutcomeOf(r) ==
    IF promise[r] \in {"none", "pending"} THEN "none"
    ELSE CASE promise[r] = "response" -> "Response"
           [] promise[r] = "stream" -> "Start"
           [] OTHER -> "failed"

EndOf(r) ==
    CASE stream[r] = "closed" -> "eof"
      [] stream[r] = "errored" -> "error"
      [] stream[r] = "cancelled" -> "left"
      [] OTHER -> "open"

Outcomes == [r \in Requests |-> OutcomeOf(r)]
BodyEnds == [r \in Requests |-> EndOf(r)]

User == INSTANCE ResponseStream WITH
    answer <- script, outcome <- Outcomes, read <- got, end <- BodyEnds

\* Whatever messages, timers, close() and pull() do, a user of the caller sees
\* what ResponseStream promises: each request settled once, chunks in order,
\* and, if the peer kept to the protocol, a clean end only behind the last.
ImplementsStream == User!Spec

\* While the peer keeps to the protocol, an entry stays in the map exactly as
\* long as a promise or an unfinished body can still be served through it,
\* except that a send that throws leaves its entry behind.
SlotIffServed ==
    \A r \in Requests : Conforming(script[r]) /\ promise[r] # "sendError" =>
        (r \in pending <=> \/ promise[r] = "pending"
                           \/ /\ stream[r] = "readable"
                              /\ terminalErr[r] = None /\ r \notin terminalClose)

\* Nothing feeds the body of r any more, and nothing has ended it.
Orphaned(r) ==
    /\ stream[r] = "readable" /\ terminalErr[r] = None /\ r \notin terminalClose
    /\ ~(r \in pending /\ hooks[r] = "own")

\* Only the peer can orphan a body, by a frame that spec.md 8 does not allow
\* after a Start: another Start, a whole response, or an Error without its
\* payload.  Timers, close() and cancel() always end the bodies they take the
\* entry from.
OrphanedOnlyByPeer ==
    \A r \in Requests : Orphaned(r) =>
        \E i \in 1..heard[r] : \E j \in (i + 1)..heard[r] :
            /\ script[r][i].kind = "Start"
            /\ script[r][j].kind \in {"Start", "Response"} \/ script[r][j] = Bad("Error")

\* close() leaves no promise pending, if the peers have kept to the protocol.
CloseSettlesConforming ==
    closedErr # None => \A r \in Requests : Conforming(script[r]) => promise[r] # "pending"

\* With a read timeout and a peer that keeps to the protocol until it falls
\* silent, a reader that waits for a chunk gets one, or its body ends.
ReaderNeverHangs ==
    \A r \in Requests :
        stream[r] = "readable" /\ inner[r] = <<>> /\ Conforming(script[r])
        ~> inner[r] # <<>> \/ stream[r] # "readable"

\* spec.md 10.2: when the connection closes, "all pending requests MUST be
\* resolved as failed".
CloseSettlesAll == closedErr # None => \A r \in Requests : promise[r] # "pending"

===============================================================================
