# HOW (HTTP over WebSocket) in TLA+

This directory specifies and verifies the two implementations of HOW in this
repository, the Go module under `golang/` and the TypeScript package under
`typescript/`: how HTTP requests are multiplexed over one connection, how their
answers are streamed, what becomes of both when a peer falls silent, a send
fails, somebody cancels, or the connection goes away, and what text mode makes of
the bytes of a body.

    tlc -workers 2 -config MCGoCallerShapes.cfg MCGoCaller     # one run
    tlapm GoCallerProofs.tla                                   # one set of proofs

## 1. Inventory

### Components, their state and their operations

| Component | Source | State | Operations |
|---|---|---|---|
| frameQueue | `golang/client/client.go:26-114` | slice under a mutex, `sig` (a channel with room for one token) | `push`, `tryPop`, `wait` |
| Caller (Go) | `golang/client/client.go:116-616` | `pending`/`textPending` (requestID → frameQueue), `done`, `closeErr`, `closeOnce`; per request the goroutine of `Request`, a pump, an `io.Pipe`, a timer | `Request`, pump, `cancellingBody.Close` and its finalizer, `HandleBinaryMessage`, `HandleTextMessage`, `Close` |
| HOWHandler (Go) | `golang/client/client.go:618-832` | the handler; per request a goroutine | `HandleBinaryMessage`, `HandleTextMessage`, `dispatchRequest` |
| Handlers (Go) | `golang/client/handler.go` | `ResponseWriter.started`; the body that is forwarded | `WriteHeader`, `Write`, `Close`, `ForwardHandler`, the two `http.Handler` adapters |
| HOWCaller (TS) | `typescript/src/client/client.ts:1-300` | map `pending` of entries (promise, callbacks of the stream, timer), `closedErr`; per stream `buffer`, `terminalErr`, `terminalClose`, `notify` | `request`, `handle*Message`, `close`, the timer, `pull`, `cancel` |
| HOWHandler (TS) | `typescript/src/client/client.ts:300-712` | `ResponseWriter.started`; per request an async `handleRequest` | `handle*Message`, `ForwardHandler`, `HTTPHandlerAdapter` |
| Protocol codec | `golang/protocol/message.go`, `typescript/src/protocol/message.ts` | none | marshal and unmarshal in binary (MessagePack) and text (JSON) form, `RawBody` |
| howclient, examples | `golang/cmd`, `golang/examples` | a connection, and the context that a signal cancels | the main loop: read, dispatch, end on the first error |
| TS CLI | `typescript/src/cli` | none of its own | wires a WebSocket to `createHOWHandler` |

### Interactions

A caller puts one `HTTPRequest` on the wire through its Sendable. The peer's read
loop dispatches it to a goroutine (Go) or an async function (TS) of its own, which
answers with one `HTTPResponse`, or with `HTTPResponseStart`, chunks and
`HTTPResponseEnd`, or breaks off with `Error`. The caller's read loop looks the
requestID up and hands the frame on: in Go to an unbounded queue that `Request`
and later the pump consume, in TS to callbacks of the entry. The pump copies chunks
into an unbuffered pipe that the user reads; in TS `pull()` moves them from a buffer
into a ReadableStream. No frame cancels a request, and none acknowledges a chunk.

### What is hard here

* In Go, five kinds of goroutine meet at a request: `Request`, the pump, the read
  loop (which works on a queue it looked up before it unlocked), `Close`, and the
  user with a finalizer behind. A frame, a stop, a timeout and a cancellation may
  all be ready at once, and `select` takes any of them.
* `push` signals after it has unlocked and drops its token when one is there.
* A read timer runs while the pump stands in a write nobody reads.
* In TypeScript `pull()` sleeps across an `await` while messages, timers, `close()`
  and `cancel()` run, and every way out of `processEnvelope` must leave map, timer
  and promise in step, a payload that is missing included.
* A handler may fail at any point of its answer, and the frame that says so must fit
  what has been sent, even if the failure is that of the send itself.
* End to end, what a clean end of the body says depends on both programs and on how the
  connection and the process around the handler die.
* In text mode a body is embedded when it is JSON and quoted when it is not, so its own
  content decides how it travels; a relay decodes and encodes it again, in either
  language.

`PROJECT.json` lists these, each at its line, with the property that answers it.

### What makes each component correct

* frameQueue: no wake-up is lost; a frame that was pushed is delivered before a stop.
* Callers: a slot lives as long as somebody serves it; a body is a prefix of what the
  peer sent; a clean end means a complete body; a timeout means silence; a slow
  reader holds up nobody else; closing releases what it should.
* Handlers: what is offered to the wire is an answer of `spec.md` 8; `End` is sent only
  behind all chunks, and by a handler that can tell, only after a whole body; every request is answered.
* Both together: a clean end at the caller means that everything the handler produced
  has arrived and the handler was done, which of a `StreamingHandler` is a whole body (of
  `ForwardHandler` it is not); every exchange ends.
* Codecs: a frame is always JSON; bytes arrive as they were sent, or differ in a way
  that the code is known for; relaying a body again never makes it worse.

## 2. Modules

| Module | Models | |
|---|---|---|
| `WireReplies` | both `protocol/message` files | kinds of frames, whether their payload decodes, and which sequences an answer may be (`Conforming`: `spec.md` 8.2 and 8.3, with an `Error` in place of what is missing) |
| `ResponseProtocol` | `spec.md` 8 | abstract: the answer to a request grows frame by frame and stays conforming |
| `ResponseStream` | `spec.md` 8, 10 | abstract: what a caller promises its user, whatever the peer sends: a request is settled once, chunks come in order, a clean end comes only behind the last of them |
| `FrameChannel` | | abstract: a FIFO with an atomic `wait()` |
| `FrameQueue` | `frameQueue` | one action per critical section and channel operation; implements `FrameChannel` |
| `GoCaller` | Go `Caller` | one action per visible step of each goroutine; its queues are FIFOs, as `FrameQueue` justifies; implements `ResponseStream` |
| `TsCaller` | `createHOWCaller` | one action per callback that runs to its end; implements `ResponseStream` |
| `GoHandler` | Go `HOWHandler` and handlers | one action per send and per event of the body; implements `ResponseProtocol` |
| `TsHandler` | `createHOWHandler` | the same for TypeScript; implements `ResponseProtocol` |
| `Exchange` | `howclient`, the examples, and a caller's read loop | composes `GoCaller` and `GoHandler` (as INSTANCEs) over a connection: what one has sent is what the other receives |
| `TextBodies` | `RawBody`, `MarshalText`/`UnmarshalText`, `marshalText`/`unmarshalText` | pure operators on one field, and chains of them as a specification |
| `MC...` | | the sets of requests, replies and errors of the runs |
| `...Proofs` | | theorems and their proofs |

Abstractions that all of them share: a frame is its type and whether its payload
decodes (`WireReplies`), a chunk is its position in the reply, and the peer of a
caller is a reply chosen from a set when the request goes out and delivered in
order, as far as the peer cares to go. Binary and text mode are the same code on two
maps (Go) or with two encoders (TS) and share a model; a `Caller` uses one of them.

How names correspond: variables carry the name of the field or local variable they
stand for (`pending`, `closeErr`, `hooks` for `entry.streamPush/Close/Error`,
`terminalClose`, `started`); `pc`, `pump` and `place` are where a goroutine or async
function stands. `script`, `arrived`, `heard`, `quiet`, `produced` and `source`
describe the environment (in `Exchange`, `link`, `host`, `asked` and `hiccup` too) and are
never read by the code's own decisions, except that a frame's content is looked up in `script`. Operators marked *Mutant* are
variants of the one after or below them with a plausible bug; no specification uses
them, and each shows that a property can tell the bug from the code.

## 3. Runs

| Run | Instance | Shows |
|---|---|---|
| `frame_queue` | two pushers, two frames, three stop channels, queue of 3 | no lost wake-up; the queue implements `FrameChannel` with its liveness: `wait()` returns when there is a frame or a stop |
| `go_caller_shapes` | one request, 13 replies, timeout of 2 ticks, `Close(nil)` and `Close(err)` | slots, bodies, timeouts, stops and the error of `Close` in every interleaving; all of it implements `ResponseStream`; `Request` returns |
| `go_caller_live` | two requests, no timer, a peer that falls silent | a body nobody reads delays nobody; closing or dropping a body, or the Caller, releases slots |
| `go_caller_eof` | `Close(io.EOF)` | **violation**: a truncated body ends in a clean EOF |
| `ts_caller_shapes` | one request, 14 replies, timer, `close()` with and without error | timers, wake-ups, order and completeness of bodies; all of it implements `ResponseStream`; entries live as long as they serve; `close()` settles promises; only a peer that breaks the protocol leaves a body unfed; a waiting reader is served |
| `ts_caller_close` | a reply without its Start | **violation**: `End` without `Start` leaves a promise that `close()` does not settle |
| `go_handler` | two requests, every kind of handler, two chunks, failing sends and bodies | what is offered to the Sendable is an answer of the protocol, and every request gets one |
| `ts_handler` | as `go_handler`, with sends that throw | what reaches the wire is an answer of the protocol; failures are reported unless a send throws |
| `text_bodies` | all bodies, quoted up to three times over, and all chains of codecs | every frame is JSON; which bytes arrive intact; no layer of quotes is added; nothing vanishes |
| `text_embedded` | the same | **violation**: an embedded object loses its members `data` and `body` to byte tables |
| `exchange` | one request, every kind of handler, two chunks; bodies that break off, signals, panics, a connection that breaks, sends that fail | a clean EOF has lost nothing on the way from handler to reader; the caller never meets an unexpected frame; no exchange is at a standstill with its slot pending, and every one ends, without any timeout |
| `exchange_truncated` | the same with `ForwardHandler` alone, one chunk | **violation**: an upstream that breaks off reaches the reader as a clean EOF |

### Bounds, and why they are enough

* One request suffices where a property is about one request and the state of others
  is only reached through the read loop and `Close`, which are independent of the
  request they serve; `go_caller_live` and both handlers' runs have two. The theorems of
  section 5 hold for any number; for the safety properties of `exchange`, whose run has one
  request and two chunks, that is what makes them say something of a busy connection.
* The replies contain one sequence for every branch of the two switches over
  `Envelope.Type` (Go) or of `processEnvelope` (TS), the exchanges of `spec.md` 8
  whole and cut short, frames too early, twice and after the end, and payloads that
  do not decode. Two chunks tell order, holes and repetition apart.
* `ReadTimeout = 2` ticks lets a frame come before, between and after the ticks;
  `quiet` is capped at `ReadTimeout`, beyond which nothing depends on it.
* `QueueBound = 3` lets two frames wait while a third is pushed; the queue in
  `GoCaller` is bounded by the length of the reply only. `MaxChunks` bounds bodies.
* In `exchange` two chunks let a body break off before, between and after them;
  `ReadTimeout` is 0 (the code's negative value, no timeout), so that nothing but the ends
  themselves can end an exchange. `MaxQuotes = 3` is one more than any codec looks into.
* Deadlock checking is off where the programs may come to rest (everywhere but in
  `text_bodies`, where a field always travels on): all requests answered, no timer running. Liveness properties stand in for it.

### Fairness

* Go: goroutines that can run do run (`RequestStep`, `PumpStep`, `PushSignal`,
  `WaitStep`), `SendBytes` returns, the read loop goes on reading, time passes, and the
  collector finalizes what is unreachable. `Call`, `Read`, `CloseBody`, `DropBody`,
  `Cancel` and `Close` are the user's and get none; the peer may stop anywhere because
  replies that stop are among the replies.
* TypeScript: the event loop runs messages, microtasks and expired timers; requests,
  reads, `cancel()` and `close()` get none.
* Handlers: what can run does, and bodies are finite and end or break off.
* `Exchange`: the above, and a user who has a body reads it as long as he has not closed
  or dropped it (a body nobody reads keeps its slot, see `CloseReleasesSlots`). A signal, a
  panic, a broken connection and a send that fails may come at any time or never.

Weak fairness is enough in all cases: a step that is due stays due until it is
taken or the request has moved on.

### What the violations say

* `go_caller_eof`: the pump hands the error of `Close` to `pw.CloseWithError` as it
  is (`client.go:370`). Given `io.EOF`, the reader sees a complete body. `spec.md:264`
  requires a non-EOF error.
* `ts_caller_close`: `HTTPResponseEnd` deletes the entry and its timer whether or not a
  stream exists. The promise of `request()` is then out of everybody's reach. `spec.md`
  10.2 wants all pending requests resolved as failed.
* `exchange_truncated`: `ForwardHandler`, the only handler of howclient (`main.go:37`), treats
  every read error of its upstream like `io.EOF` (`handler.go:161`) and sends `End`; the
  reader at the Caller gets a clean EOF, with no signal, no broken connection and no send that
  failed. The comment in `dispatchRequest` (`client.go:700-702`) says that a truncated stream
  must not look complete. `spec.md:320` wants just what `ForwardHandler` does, see
  below. The TypeScript `ForwardHandler` lets the error through and ends in an `Error`, as
  `EndMeansWholeBody` of `ts_handler` shows.
* `text_embedded`: the reviver of `unmarshalText` meets every key of the document, those of an
  embedded body too (`message.ts:148`), so an API response such as `{"object":"list","data":[...]}`
  arrives changed, although `message.ts:102` has valid JSON "embedded as-is".

Two disagreements are stated as passing properties.

* `EndMeansWholeBody`, of both handlers. `spec.md:320` says of an error during streaming: "If
  `HTTPResponseStart` has already been sent, the Client SHOULD send an `HTTPResponseEnd` to
  terminate the stream." `dispatchRequest` (`client.go:700-703`) and `handleRequest`
  (`client.ts:642-645`) send an `Error` instead, on purpose: `End` is a clean EOF at the
  caller, and both callers take an `Error` for what it is. `CHANGELOG.md:73` documents it for
  Go, and that the adapter for `http.Handler` sends `End` all the same. The properties state what
  the code is meant to do: behind a `StreamingHandler` (Go), and behind every handler
  (TypeScript), `End` is never sent for a body that is not whole. The Go `ForwardHandler` and the
  adapter follow `spec.md` when their source breaks off, and the property promises less of them.
  `ImplementsResponse` is neutral: after a failure it allows both.
* `CloseReleasesSlots`. The README lets a response that is not closed
leak "until the transport dies", but `pw.Write` heeds neither `done` nor the context
  (`client.go:393`), and the property excepts the pump that stands there.

## 4. What the properties rest on

What a clean end of a body says is part of `ImplementsStream`, which both callers' runs check.
`CleanEofMeansComplete` of `GoCaller` and `CleanEofMeansEnd` of `TsCaller` state it in each
module's own terms, for theorems (`EofIsComplete`, `EofIsEnd`); `EofOnlyAtEnd` says the same
as the former where `io.EOF` is among the errors of `Close`. `ResponseStream` promises a clean end
behind the last chunk only of peers that keep to the protocol, and its user's view leaves out
why a request failed (see `TimeoutMeansSilence` and `CloseErrorAgreed` for that). `DrainsBeforeItEnds`, `SlotIffServed` and
`ReaderNeverHangs` are stated for peers that keep to the protocol, because the
TypeScript caller makes no promise to others: a second `Start`, or a payload that is
missing, takes the stream away from its callbacks. `EndMeansWholeBody` excludes the
adapter for `http.Handler`, whose handler may ignore that a write failed, and, in Go,
promises nothing of the source for `ForwardHandler` (see `exchange_truncated`).

`Conforming`, which `ImplementsResponse` and `NeverConfused` rest on, is wider than `spec.md` 8.3 in two
places: an `Error` may follow a `Start` (8.3 has `End` there, see above), and there may be
no chunk at all (8.3 says "one or more"; an empty body has none). `AnsweredUnlessSendThrows`
is about failures that reach `handleRequest`, see section 6 for those that do not.

`OrphanedOnlyByPeer` says what such peers can do: it names the frames that take a body's feed away,
and thereby that nothing else does.

`Exchange` assumes of the connection that it keeps the order of its frames, though it may lose
the last of them when it breaks. Bodies break off at any time, with or without a signal, under every
kind of handler. A write may outrun the signal that cancels its context and
succeed. `hiccup` is set when a send fails although no signal came and the connection is up, or when
one gets through behind one that failed: only then has the wire a hole in it.
`NeverConfused`, `NeverStuck` and `ExchangesEnd` except such exchanges, because a handler does not look at
whether its header was sent (see `ts_caller_close` for what that does to the other
caller); `CleanEofLosesNothing` excepts them under the adapter alone. That
property says what a clean EOF means: the reader has every chunk that the handler produced and
the handler was done. Whether the handler was done because its body was
complete is another matter: a `StreamingHandler` tells the difference, `ForwardHandler` and the
adapter do not (`exchange_truncated`). When a caller cancels, the
handler goes on until its body ends: `ExchangesEnd` is about the caller's slot.
(`CHANGELOG.md:71` says that the context of a handler tells of a caller that cancels; no frame
carries that, and in the model nothing but a signal ends that context.)

`TextBodies` tells bytes apart by what the codecs make of them. `Intact` lists what arrives as it
was sent: text, compact JSON, and JSON in whatever spelling the codecs passed
leave alone. What it leaves out, changes: white space goes, `<` is escaped by Go, numbers
that JavaScript cannot hold are rounded, a byte order mark goes, a JSON string loses its quotes,
`null` becomes nothing, bytes that are not UTF-8 become U+FFFD. `spec.md:71` would have all of them
base64-encoded, which neither side does.

Every property of a passing run has a mutant in `PROJECT.json`: a definition of the
model with the bug a hurried edit might make, for which the run fails.

## 5. Proofs

The theorems hold for every value of the constants that meets the named assumption of
the module (`QueueAssumption`, `CallerAssumption`, `TsCallerAssumption`,
`GoHandlerAssumption`, `TsHandlerAssumption`, `ExchangeAssumption`). These say what the constants are, and that
the markers of the models ("none", "pending", ...) are not among the errors given to
`Close`; TLC evaluates them in every run.

| Module | Theorem | By |
|---|---|---|
| `FrameQueueProofs` | `TypeCorrect`, `WakeupNeverLost`, `QueueImplementsChannel` | `NoLostWakeup` is inductive with the types. For the refinement one needs that a consumer in its last `tryPop` has a stop ready (`StopIsReady`). |
| `GoCallerProofs` | `TypeCorrect` | |
| | `SlotsHaveConsumers` | `SlotInv`: the pump exists only after `Request` has returned, so the slot is handed over and never shared. |
| | `FramesAreNotOvertaken` | `Flow`: what has arrived and found a slot is what was taken, then what is queued, then what the read loop holds, without a gap. An empty queue then means that everything was taken. |
| | `BodiesArePrefixes` | `Delivered`: what has been read is exactly the chunks up to the frame the pump took last, or one less while it stands in the write. |
| | `EofIsComplete` | `EndsWell`, under the assumption that no `Close` is given `io.EOF`; `go_caller_eof` shows that it is needed. |
| | `TimeoutsMeanSilence` | `Timed`: while a consumer has started its timer and its queue is empty, the timer and `quiet` add up to at least `ReadTimeout` |
| | `CallerImplementsStream` | `Seen`: what the user sees of a request agrees with where its goroutines stand; `Delivered`; and `Agreed` for the kinds of errors. Every action is a step of `ResponseStream` or one that its user cannot see. Under the assumption of `CloseErrorIsAgreed`: an error of `Close` that looks like the Caller's own, `io.EOF` say, would be taken for it |
| | `SlotsAreReleased` | `Watched`: with a read timeout, a timer runs for every consumer that waits or writes, so that none leaves its wait unwatched. With `SlotInv`, a slot then always has a step that is due |
| | `RequestsHurry` | a measure on the place of `Request` and its timer, lowered by each of its steps |
| | `CloseErrorIsAgreed` | `Agreed`, under the assumption that no error given to `Close` is one that the Caller reports of its own accord: those are what the property goes by |
| `TsCallerProofs` | `TypeCorrect` | with `PullInv`: while `pull()` is under way the ReadableStream is empty. |
| | `TimersFollowSlots` | inductive with the types |
| | `WakeupNeverLost` | `StreamInv`: nothing is buffered, ended or awaited before the stream exists |
| | `EofIsEnd` | `EntryInv` and `EndInv`: after an `End` the entry is gone for good, so it is the last frame heard |
| | `SlotsServe`, `CloseSettles` | `ServedInv`: for a conforming peer the first frame resolves the promise, and from then on the entry's callbacks feed the user's stream |
| | `OnlyPeersOrphan` | `FedInv`: while the peer has not broken the protocol, the callbacks of a body's entry are its own and the entry stays until the body ends |
| | `BodiesDrain` | `Chain`: what the reader has, the chunk inside the ReadableStream and the buffer are the frames from the second on, and all that were heard but for an `End` or `Error` after them |
| | `CallerImplementsStream` | `Line`: what was read, what is in the ReadableStream and what is buffered are chunks of the reply in rising order, whatever the peer sends; `Chain` and `EndInv` for the end of a conforming one. Under the assumption that no error given to `close()` is one of the markers "response" and "stream" |
| | `ReadersAreAttended` | from `ServedInv`, `NoLostWakeup` and `TimerIffSlot` |
| `WireRepliesProofs` | (lemmas) | which frames may be appended to an open answer, and what of a body is in it then |
| `TextBodiesProofs` | `TypeCorrect`, `NoLayerAdded`, `NothingIsLost`, `KeptArrivesIntact` | each with what it says of a field that is still on the wire: at most one layer of quotes more than the original (`QuotesInv`), and the same for its core |
| | `RelayingAgainIsHarmless` | each relay as a map on cores, and which of these maps are idempotent |
| `GoHandlerProofs` | `TypeCorrect`, `HandlerImplementsResponse` | `Answer`: nothing offered before the first send, and an open stream (`Open`) until the last one |
| | `EndIsWholeBody` | `BodyOK`: while an answer goes on, all that was produced is on the wire, with its header unless that was lost; a stream is closed when its source is done |
| | `DoneAreAnswered` | a handler comes to its last place only behind an End, a Response or an Error (`Answer`) |
| | `AnswersHurry` | a measure on the place of the handler and the rest of the body |
| `TsHandlerProofs` | `TypeCorrect`, `HandlerImplementsResponse` | `Answer` on what is sent: when the header's send threw, nothing is on the wire and an `Error` may be first |
| | `EndIsWholeBody` | `BodyOK`: a stream that goes on is as long as its chunks and its header |
| | `DoneAreAnswered`, `AnswersHurry` | as in Go; a handler whose last send threw is done, too |
| `ExchangeProofs` | `TypeCorrect`, `CallerIsNeverConfused`, `EofLosesNothing` | from the step lemmas of `GoCallerProofs` and `GoHandlerProofs`, see below |
| | `HandlerIsHandler`, `AnswersConform`, `CallerKeepsPromise` | what each end promises alone it keeps in the composition: Exchange implements `GoHandler`'s specification, and `ResponseProtocol` through it, and `ResponseStream` over what is on the wire |
| | `NobodyIsStuck` | `Moving`: what was sent and not yet received is on the link, and a caller that waits has either something coming, or a handler that is not done, or a link that is down |

The proofs about `Exchange` use those of its parts and do not repeat them. Each of its actions is
shown to be a step of the Caller or of the handler (`RequestSteps`, `PumpSteps`, `OtherSteps`,
`HandlerSteps`); to the Caller, a frame that the handler sends is a reply that grows, which disturbs
nothing (`FlowGrows`). What remains is the middle: `Linked` says that, without a hiccup,
what has been received is what was offered first. It is inductive only with what the rest
guarantees: until a signal comes, what is offered on a connection that is up is sent, a signal lets no frame
through behind one that it stopped, and a connection that is down delivers nothing more; so a
lost frame is never followed by one that arrives. `Counted`,
a lemma of the Caller about peers that send a body after their header, gives the number of chunks that
the reader has at `End`; `BodyOK` and `Offers` of the handler give the number that it produced.

### What of the liveness is proved

Liveness under fairness, and ENABLED, are out of the prover's reach, so everything that
says "eventually" stays with TLC: `RequestReturns`, `NoHeadOfLineBlocking`,
`BodyCloseReleasesSlot`, `CloseReleasesSlots`, `ReaderNeverHangs`, `EveryRequestAnswered`,
`AnsweredUnlessSendThrows`, `ExchangesEnd`, and the fair half of `ImplementsChannel`. Most of
them can go wrong in two ways that need no fairness to state: everybody waits for somebody
else, or steps go round in circles. Those parts are proved, for every value of the constants:

| Property | Nobody is stuck | Nothing goes round in circles |
|---|---|---|
| `ExchangesEnd` | `NobodyIsStuck` | |
| `RequestReturns` | `SlotsAreReleased` (with a timeout, or after `Close`) | `RequestsHurry` |
| `CloseReleasesSlots`, `BodyCloseReleasesSlot` | `SlotsAreReleased` | |
| `ReaderNeverHangs` | `ReadersAreAttended` | the same: `pull()` sleeps again only if it found nothing |
| `EveryRequestAnswered` (Go), `AnsweredUnlessSendThrows` (TS) | `DoneAreAnswered`: the only place to stay in is the right one | `AnswersHurry` |

What is left to TLC for these is that a step named as due is enabled, and the argument from fairness
to its being taken. `NoHeadOfLineBlocking` has no such theorem: that the read loop never waits for
a reader is a matter of which of its actions are enabled.

Induction over data is out of reach too, and was not needed: the models have no recursive
operators. Nothing else that a passing run checks is without a theorem.

## 6. Not modelled, and why

* The binary form of a frame: MessagePack is a library's, and both sides carry bytes as
  bytes. Only whether a payload decodes is told apart.
* In text mode, headers (a header named `body` or `data` meets the reviver of `unmarshalText`
  too), and whether a transport accepts a text frame that is not UTF-8, which Go makes of
  such bytes inside a JSON string.
* Exceptions thrown inside callbacks of `proxy()` (TS), which end the process. To its peer
  that is silence, which the callers' replies include; `Exchange` has the Go process that dies.
* A TypeScript caller or handler in `Exchange`: the composition is of the Go modules, and the
  TypeScript modules are checked against every reply, and every failing send.
* StreamingHandlers that break the contract of `ResponseWriter`, and a second
  `HTTPRequest` with a requestID in use: the caller's IDs are fresh.
* A frame that does not unmarshal makes `Handle*Message` return an error and changes nothing; what
  the program around a Caller does with that error is its own affair. The
  repository's programs with a Caller are its tests, whose read loop (`client_test.go:638-646`)
  `Exchange` has: it closes the Caller when a read fails. The loop of `README.md:312` does not.
* `Register`, `Ping` and `Pong` of `spec.md`, which no code implements.
* The TypeScript CLI: it wires a WebSocket to `createHOWHandler` and keeps no state.

## 7. Plan

Done, in this order: `FrameChannel` and `FrameQueue`; `GoCaller` on top of them;
`TsCaller`; `ResponseProtocol` with `GoHandler` and `TsHandler`; proofs of each;
`TextBodies` with its proofs; `Exchange`; who can orphan a body in `TsCaller`, with its proof;
the proofs of `Exchange`, from the invariants of its two parts; `ResponseStream`, and that both callers
implement it; what each end of an `Exchange` keeps of its own promises, and that none gets stuck; the
parts of the liveness properties that need no fairness.

Next:

1. A TypeScript caller in `Exchange`.
2. Handlers that misuse `ResponseWriter`, to state what it guards against and what not.
