---------------------------- MODULE TsCallerProofs ----------------------------
(***************************************************************************)
(* Theorems about the TypeScript caller, for any number of requests, any   *)
(* set of replies, any errors given to close(), with or without a timeout. *)
(***************************************************************************)
EXTENDS TsCaller, SequenceTheorems, TLAPS

-------------------------------------------------------------------------------
\* Inductive invariants.

\* While a pull() is under way, the ReadableStream has nothing queued.
PullInv == \A r \in Requests : pull[r] # "idle" => inner[r] = <<>>

\* A stream exists from the moment that it resolves its promise, and nothing is
\* buffered, ended or pulled before.
StreamInv ==
    \A r \in Requests :
        /\ stream[r] # "none" => promise[r] = "stream"
        /\ stream[r] = "none" =>
              /\ pull[r] = "idle" /\ inner[r] = <<>> /\ buffer[r] = <<>>
              /\ terminalErr[r] = None /\ r \notin terminalClose
              /\ hooks[r] # "own"

\* An entry is of a request that has been made, and none is left after close().
EntryInv ==
    /\ \A r \in pending : promise[r] # "none"
    /\ closedErr # None => pending = {}

\* The end of a stream is the last thing its entry has heard.
EndInv ==
    \A r \in Requests :
        /\ r \in terminalClose =>
              r \notin pending /\ promise[r] # "none" /\ script[r][heard[r]].kind = "End"
        /\ stream[r] = "closed" => r \in terminalClose

\* Neither an error nor an end has come for the stream of r.
Unfinished(r) == terminalErr[r] = None /\ r \notin terminalClose

\* A request that has not been made has no reply yet.  Of a peer that keeps to
\* the protocol, the first frame resolves the promise, and from then on the entry
\* feeds the stream that the user has.
Served(r) ==
    /\ promise[r] = "none" => script[r] = <<>> /\ arrived[r] = 0 /\ hooks[r] = None
    /\ Conforming(script[r]) /\ promise[r] \notin {"none", "sendError"} =>
            /\ promise[r] = "pending" => r \in pending /\ arrived[r] = 0 /\ hooks[r] = None
            /\ r \in pending /\ promise[r] # "pending" =>
                  /\ arrived[r] > 0 /\ hooks[r] = "own"
                  /\ stream[r] = "readable" /\ Unfinished(r)
            /\ stream[r] = "readable" /\ Unfinished(r) => r \in pending

ServedInv == \A r \in Requests : Served(r)

-------------------------------------------------------------------------------
\* Types.

Promises == Errors \cup {"none", "pending", "response", "stream", "sendError"}

\* What a failure does to promises, errors and pull() is of their types.
LEMMA FailType ==
    ASSUME TypeOK, NEW R, NEW e \in Errors, Fail(R, e)
    PROVE  /\ promise' \in [Requests -> Promises]
           /\ terminalErr' \in [Requests -> Errors \cup {None}]
           /\ pull' \in [Requests -> {"idle", "waiting", "woken"}]
  <1>1. promise' \in [Requests -> Promises]
    BY DEF Fail, TypeOK, Promises
  <1>2. terminalErr' \in [Requests -> Errors \cup {None}]
    BY DEF Fail, TypeOK
  <1>3. pull' \in [Requests -> {"idle", "waiting", "woken"}]
    BY DEF Fail, Notified, TypeOK
  <1> QED  BY <1>1, <1>2, <1>3

LEMMA NotifiedType ==
    ASSUME TypeOK, NEW R
    PROVE  Notified(R) \in [Requests -> {"idle", "waiting", "woken"}]
  BY DEF Notified, TypeOK

\* A message that finds its entry counts.
LEMMA OnType ==
    ASSUME TypeOK, NEW r \in Requests, NEW k, On(r, k)
    PROVE  /\ arrived' \in [Requests -> Nat] /\ heard' \in [Requests -> Nat]
           /\ heard'[r] \in Nat /\ heard'[r] = arrived[r] + 1
           /\ arrived'[r] = arrived[r] + 1 /\ arrived'[r] > 0
  <1>1. arrived \in [Requests -> Nat] /\ heard \in [Requests -> Nat]
    BY DEF TypeOK
  <1>2. arrived[r] + 1 \in Nat /\ arrived[r] + 1 > 0
    BY <1>1
  <1> QED  BY <1>1, <1>2 DEF On, Receive

\* The head and the tail of a queue of chunks.
LEMMA HeadTail ==
    ASSUME NEW s \in Seq(Nat), s # <<>>
    PROVE  /\ Head(s) \in Nat /\ Tail(s) \in Seq(Nat) /\ Len(Tail(s)) = Len(s) - 1
           /\ <<Head(s)>> \in Seq(Nat) /\ Len(<<Head(s)>>) = 1
           /\ Append(<<>>, Head(s)) = <<Head(s)>>
  OBVIOUS

\* The end of pull() moves one chunk into an empty queue.
LEMMA PullType ==
    ASSUME TypeOK, NEW r \in Requests, inner[r] = <<>>, PullFinishes(r)
    PROVE  /\ pull' \in [Requests -> {"idle", "waiting", "woken"}]
           /\ inner' \in [Requests -> Seq(Nat)]
           /\ buffer' \in [Requests -> Seq(Nat)]
           /\ \A q \in Requests : Len(inner'[q]) <= 1
           /\ stream' \in [Requests -> {"none", "readable", "closed", "errored", "cancelled"}]
           /\ pull'[r] = "idle"
           /\ \A q \in Requests \ {r} : inner'[q] = inner[q] /\ pull'[q] = pull[q]
  <1>1. CASE buffer[r] # <<>>
    <2> DEFINE h == <<Head(buffer[r])>>
    <2>1. buffer[r] \in Seq(Nat)
      BY DEF TypeOK
    <2>2. Tail(buffer[r]) \in Seq(Nat) /\ h \in Seq(Nat) /\ Len(h) = 1
      BY <1>1, <2>1, HeadTail
    <2>3. inner' = [inner EXCEPT ![r] = h]
      BY <1>1, <2>1, HeadTail DEF PullFinishes
    <2> HIDE DEF h
    <2>4. inner' \in [Requests -> Seq(Nat)] /\ \A q \in Requests : Len(inner'[q]) <= 1
      <3>1. inner \in [Requests -> Seq(Nat)] /\ \A q \in Requests : Len(inner[q]) <= 1
        BY DEF TypeOK
      <3>2. inner' \in [Requests -> Seq(Nat)]
        BY <2>2, <2>3, <3>1
      <3>3. ASSUME NEW q \in Requests PROVE Len(inner'[q]) <= 1
        <4>1. inner'[q] = IF q = r THEN h ELSE inner[q]
          BY <2>3, <3>1
        <4>2. Len(h) <= 1 /\ Len(inner[q]) <= 1
          BY <2>2, <3>1
        <4>3. CASE q = r
          BY <4>1, <4>2, <4>3
        <4>4. CASE q # r
          BY <4>1, <4>2, <4>4
        <4> QED  BY <4>3, <4>4
      <3> QED  BY <3>2, <3>3
    <2>5. buffer' \in [Requests -> Seq(Nat)]
      BY <1>1, <2>2 DEF PullFinishes, TypeOK
    <2> QED  BY <1>1, <2>3, <2>4, <2>5 DEF PullFinishes, TypeOK
  <1>2. CASE buffer[r] = <<>>
    BY <1>2 DEF PullFinishes, TypeOK
  <1> QED  BY <1>1, <1>2

\* Every step keeps every variable in its domain, and the ReadableStream empty
\* while a pull() is under way.
LEMMA TypeStep ==
    ASSUME TypeOK, PullInv, [Next]_vars
    PROVE  TypeOK' /\ PullInv'
  <1> USE DEF entryVars, bufferVars, streamVars, wireVars
  <1>1. ASSUME NEW r \in Requests, Request(r) PROVE TypeOK' /\ PullInv'
    <2>1. script' \in [Requests -> Seq(Reply)]
      BY <1>1, TsCallerAssumption DEF Request, TypeOK
    <2>2. promise' \in [Requests -> Promises]
      BY <1>1 DEF Request, TypeOK, Promises
    <2>3. timer' \in SUBSET Requests /\ pending' \in SUBSET Requests
      BY <1>1 DEF Request, StartTimer, TypeOK
    <2>4. UNCHANGED <<closedErr, hooks, bufferVars, streamVars, arrived, heard>>
      BY <1>1 DEF Request
    <2> QED  BY <2>1, <2>2, <2>3, <2>4 DEF TypeOK, PullInv, Promises
  <1>2. ASSUME NEW r \in Requests, RequestRejected(r) PROVE TypeOK' /\ PullInv'
    <2>1. closedErr \in Errors
      BY <1>2 DEF RequestRejected, TypeOK, Errors
    <2> QED  BY <1>2, <2>1 DEF RequestRejected, TypeOK, PullInv
  <1>3. ASSUME NEW r \in Requests, OnNobody(r) PROVE TypeOK' /\ PullInv'
    <2>1. arrived' \in [Requests -> Nat]
      <3>1. arrived \in [Requests -> Nat]
        BY DEF TypeOK
      <3> QED  BY <1>3, <3>1 DEF OnNobody, Receive
    <2> QED  BY <1>3, <2>1 DEF OnNobody, Receive, TypeOK, PullInv
  <1>4. ASSUME NEW r \in Requests, OnResponse(r) PROVE TypeOK' /\ PullInv'
    <2>1. On(r, "Response")
      BY <1>4 DEF OnResponse
    <2>2. promise' \in [Requests -> Promises]
      BY <1>4 DEF OnResponse, Settled, TypeOK, Promises
    <2>3. timer' \in SUBSET Requests /\ pending' \in SUBSET Requests
      BY <1>4 DEF OnResponse, Forget, TypeOK
    <2>4. UNCHANGED <<closedErr, hooks, bufferVars, streamVars, script>>
      BY <1>4, <2>1 DEF OnResponse, On, Receive
    <2> QED  BY <2>1, <2>2, <2>3, <2>4, OnType DEF TypeOK, PullInv, Promises
  <1>5. ASSUME NEW r \in Requests, OnStart(r) PROVE TypeOK' /\ PullInv'
    <2>1. On(r, "Start")
      BY <1>5 DEF OnStart
    <2>2. promise' \in [Requests -> Promises]
      BY <1>5 DEF OnStart, Settled, TypeOK, Promises
    <2>3. /\ hooks' \in [Requests -> {None, "own", "other"}]
          /\ stream' \in [Requests -> {"none", "readable", "closed", "errored", "cancelled"}]
      BY <1>5 DEF OnStart, TypeOK
    <2>4. PullInv' /\ timer' \in SUBSET Requests
      BY <1>5 DEF OnStart, StartTimer, PullInv, TypeOK
    <2>5. UNCHANGED <<closedErr, pending, bufferVars, pull, inner, got, script>>
      BY <1>5, <2>1 DEF OnStart, On, Receive
    <2> QED  BY <2>1, <2>2, <2>3, <2>4, <2>5, OnType DEF TypeOK, Promises
  <1>6. ASSUME NEW r \in Requests, OnChunk(r) PROVE TypeOK' /\ PullInv'
    <2>1. On(r, "Chunk")
      BY <1>6 DEF OnChunk
    <2>2. buffer' \in [Requests -> Seq(Nat)]
      <3>1. buffer \in [Requests -> Seq(Nat)] /\ heard'[r] \in Nat
        BY <2>1, OnType DEF TypeOK
      <3>2. Append(buffer[r], heard'[r]) \in Seq(Nat)
        BY <3>1
      <3> QED  BY <1>6, <3>1, <3>2 DEF OnChunk
    <2>3. pull' \in [Requests -> {"idle", "waiting", "woken"}]
      <3>1. Notified({r}) \in [Requests -> {"idle", "waiting", "woken"}]
        BY NotifiedType
      <3>2. pull' = Notified({r}) \/ pull' = pull
        BY <1>6 DEF OnChunk
      <3> QED  BY <3>1, <3>2 DEF TypeOK
    <2>4. PullInv'
      BY <1>6 DEF OnChunk, Notified, PullInv
    <2>5. timer' \in SUBSET Requests
      BY <1>6 DEF OnChunk, StartTimer, TypeOK
    <2>6. UNCHANGED <<closedErr, pending, promise, hooks, terminalErr, terminalClose, inner, stream,
                      got, script>>
      BY <1>6, <2>1 DEF OnChunk, On, Receive
    <2> QED  BY <2>1, <2>2, <2>3, <2>4, <2>5, <2>6, OnType DEF TypeOK
  <1>7. ASSUME NEW r \in Requests, OnEnd(r) PROVE TypeOK' /\ PullInv'
    <2>1. On(r, "End")
      BY <1>7 DEF OnEnd
    <2>2. PullInv'
      BY <1>7 DEF OnEnd, Notified, TypeOK, PullInv
    <2>3. terminalClose' \in SUBSET Requests
      BY <1>7 DEF OnEnd, TypeOK
    <2>4. timer' \in SUBSET Requests /\ pending' \in SUBSET Requests
      BY <1>7 DEF OnEnd, Forget, TypeOK
    <2>5. pull' \in [Requests -> {"idle", "waiting", "woken"}]
      BY <1>7, NotifiedType DEF OnEnd
    <2>6. UNCHANGED <<closedErr, promise, hooks, buffer, terminalErr, inner, stream, got, script>>
      BY <1>7, <2>1 DEF OnEnd, On, Receive
    <2> QED  BY <2>1, <2>2, <2>3, <2>4, <2>5, <2>6, OnType DEF TypeOK
  <1>8. ASSUME NEW r \in Requests, OnError(r) PROVE TypeOK' /\ PullInv'
    <2>1. On(r, "Error")
      BY <1>8 DEF OnError
    <2>2. /\ promise' \in [Requests -> Promises]
          /\ terminalErr' \in [Requests -> Errors \cup {None}]
          /\ pull' \in [Requests -> {"idle", "waiting", "woken"}]
      <3>1. CASE Decodes(r)
        BY <1>8, <3>1, FailType DEF OnError, Errors
      <3>2. CASE ~Decodes(r)
        BY <1>8, <3>2 DEF OnError, TypeOK, Promises
      <3> QED  BY <3>1, <3>2
    <2>3. PullInv'
      BY <1>8 DEF OnError, Fail, Notified, TypeOK, PullInv
    <2>4. timer' \in SUBSET Requests /\ pending' \in SUBSET Requests
      BY <1>8 DEF OnError, Forget, TypeOK
    <2>5. UNCHANGED <<closedErr, hooks, buffer, terminalClose, inner, stream, got, script>>
      BY <1>8, <2>1 DEF OnError, On, Receive
    <2> QED  BY <2>1, <2>2, <2>3, <2>4, <2>5, OnType DEF TypeOK, Promises
  <1>9. ASSUME NEW r \in Requests, OnOther(r) PROVE TypeOK' /\ PullInv'
    <2>1. On(r, "Other")
      BY <1>9 DEF OnOther
    <2>2. timer' \in SUBSET Requests
      BY <1>9 DEF OnOther, StartTimer, TypeOK
    <2>3. UNCHANGED <<closedErr, pending, promise, hooks, bufferVars, streamVars, script>>
      BY <1>9, <2>1 DEF OnOther, On, Receive
    <2> QED  BY <2>1, <2>2, <2>3, OnType DEF TypeOK, PullInv
  <1>10. ASSUME NEW r \in Requests, TimerFires(r) PROVE TypeOK' /\ PullInv'
    <2>1. ReadTimeoutError \in Errors /\ Fail({r}, ReadTimeoutError)
      BY <1>10 DEF TimerFires, Errors
    <2>2. PullInv'
      BY <1>10 DEF TimerFires, Fail, Notified, TypeOK, PullInv
    <2> QED  BY <1>10, <2>1, <2>2, FailType DEF TimerFires, Forget, TypeOK, Promises
  <1>11. ASSUME NEW r \in Requests, PullStarts(r) PROVE TypeOK' /\ PullInv'
    <2>1. CASE MustWait(r)
      BY <1>11, <2>1 DEF PullStarts, TypeOK, PullInv
    <2>2. CASE ~MustWait(r)
      <3>1. PullFinishes(r) /\ inner[r] = <<>>
        BY <1>11, <2>2 DEF PullStarts
      <3>2. PullInv'
        BY <3>1, PullType DEF PullInv
      <3> QED  BY <1>11, <3>1, <3>2, PullType DEF PullStarts, TypeOK
    <2> QED  BY <2>1, <2>2
  <1>12. ASSUME NEW r \in Requests, PullWakes(r) PROVE TypeOK' /\ PullInv'
    <2>1. CASE MustWait(r)
      BY <1>12, <2>1 DEF PullWakes, TypeOK, PullInv
    <2>2. CASE ~MustWait(r)
      <3>1. PullFinishes(r) /\ inner[r] = <<>>
        BY <1>12, <2>2 DEF PullWakes, PullInv
      <3>2. PullInv'
        BY <3>1, PullType DEF PullInv
      <3> QED  BY <1>12, <3>1, <3>2, PullType DEF PullWakes, TypeOK
    <2> QED  BY <2>1, <2>2
  <1>13. ASSUME NEW r \in Requests, Read(r) PROVE TypeOK' /\ PullInv'
    <2>1. inner[r] \in Seq(Nat) /\ inner[r] # <<>> /\ Len(inner[r]) <= 1
      BY <1>13 DEF Read, TypeOK
    <2>2. Tail(inner[r]) \in Seq(Nat) /\ Len(Tail(inner[r])) <= 1
      BY <2>1, HeadTail
    <2>3. pull[r] = "idle"
      BY <2>1 DEF PullInv
    <2>4. got' \in [Requests -> Seq(Nat)]
      <3>1. got \in [Requests -> Seq(Nat)] /\ Head(inner[r]) \in Nat
        BY <2>1, HeadTail DEF TypeOK
      <3>2. Append(got[r], Head(inner[r])) \in Seq(Nat)
        BY <3>1
      <3> QED  BY <1>13, <3>1, <3>2 DEF Read
    <2>5. inner' \in [Requests -> Seq(Nat)] /\ \A q \in Requests : Len(inner'[q]) <= 1
      BY <1>13, <2>2 DEF Read, TypeOK
    <2>6. PullInv'
      BY <1>13, <2>3 DEF Read, PullInv, TypeOK
    <2> QED  BY <1>13, <2>4, <2>5, <2>6 DEF Read, TypeOK
  <1>14. ASSUME NEW r \in Requests, Cancel(r) PROVE TypeOK' /\ PullInv'
    <2>1. <<>> \in Seq(Nat) /\ Len(<<>>) = 0
      OBVIOUS
    <2>2. /\ inner' \in [Requests -> Seq(Nat)] /\ \A q \in Requests : Len(inner'[q]) <= 1
          /\ buffer' \in [Requests -> Seq(Nat)]
      <3>1. /\ inner \in [Requests -> Seq(Nat)] /\ \A q \in Requests : Len(inner[q]) <= 1
            /\ buffer \in [Requests -> Seq(Nat)]
        BY DEF TypeOK
      <3> QED  BY <1>14, <2>1, <3>1 DEF Cancel
    <2>3. PullInv'
      BY <1>14 DEF Cancel, PullInv, TypeOK
    <2> QED  BY <1>14, <2>2, <2>3 DEF Cancel, Forget, TypeOK
  <1>15. ASSUME NEW e \in CloseArgs, Close(e) PROVE TypeOK' /\ PullInv'
    <2>1. closedErr' \in CloseErrors /\ closedErr' \in Errors
      BY <1>15 DEF Close, CloseErrors, Errors
    <2>2. Fail(pending, closedErr')
      BY <1>15 DEF Close
    <2>3. PullInv'
      BY <1>15, <2>2 DEF Close, Fail, Notified, TypeOK, PullInv
    <2> QED  BY <1>15, <2>1, <2>2, <2>3, FailType DEF Close, TypeOK, Promises
  <1>16. CASE UNCHANGED vars
    BY <1>16 DEF vars, TypeOK, PullInv
  <1> QED
    BY <1>1, <1>2, <1>3, <1>4, <1>5, <1>6, <1>7, <1>8, <1>9, <1>10, <1>11, <1>12, <1>13,
       <1>14, <1>15, <1>16 DEF Next, Message, Pull

\* The caller starts in the domains of its variables.
LEMMA TypeInit == Init => TypeOK /\ PullInv
  BY DEF Init, TypeOK, PullInv

\* TypeOK is an invariant: no order of requests, frames, timeouts, reads,
\* cancellations and close() takes a variable out of its domain.
THEOREM TypeCorrect == SafeSpec => []TypeOK
  <1>1. TypeOK /\ PullInv /\ [Next]_vars => (TypeOK /\ PullInv)'
    BY TypeStep
  <1> QED  BY <1>1, TypeInit, PTL DEF SafeSpec

-------------------------------------------------------------------------------
\* Timers.

\* Every step keeps the timers and the entries together.
LEMMA TimerStep ==
    ASSUME TypeOK, TimerIffSlot, [Next]_vars
    PROVE  TimerIffSlot'
  <1> USE DEF entryVars, bufferVars, streamVars, wireVars
  <1>1. ASSUME NEW r \in Requests, Request(r) PROVE TimerIffSlot'
    <2>1. CASE TimerOn
      BY <1>1, <2>1 DEF Request, StartTimer, Started, TimerIffSlot
    <2>2. CASE ~TimerOn
      BY <1>1, <2>2 DEF Request, StartTimer, Started, TimerIffSlot
    <2> QED  BY <2>1, <2>2
  <1>2. ASSUME NEW r \in Requests, RequestRejected(r) PROVE TimerIffSlot'
    BY <1>2 DEF RequestRejected, TimerIffSlot, TypeOK
  <1>3. ASSUME NEW r \in Requests, OnNobody(r) PROVE TimerIffSlot'
    BY <1>3 DEF OnNobody, TimerIffSlot, TypeOK
  <1>4. ASSUME NEW r \in Requests, OnResponse(r) PROVE TimerIffSlot'
    BY <1>4 DEF OnResponse, On, Forget, TimerIffSlot, TypeOK
  <1>5. ASSUME NEW r \in Requests, OnStart(r) PROVE TimerIffSlot'
    BY <1>5 DEF OnStart, On, StartTimer, Started, TimerIffSlot, TypeOK
  <1>6. ASSUME NEW r \in Requests, OnChunk(r) PROVE TimerIffSlot'
    BY <1>6 DEF OnChunk, On, StartTimer, Started, TimerIffSlot, TypeOK
  <1>7. ASSUME NEW r \in Requests, OnEnd(r) PROVE TimerIffSlot'
    BY <1>7 DEF OnEnd, On, Forget, TimerIffSlot, TypeOK
  <1>8. ASSUME NEW r \in Requests, OnError(r) PROVE TimerIffSlot'
    BY <1>8 DEF OnError, On, Forget, TimerIffSlot, TypeOK
  <1>9. ASSUME NEW r \in Requests, OnOther(r) PROVE TimerIffSlot'
    BY <1>9 DEF OnOther, On, StartTimer, Started, TimerIffSlot, TypeOK
  <1>10. ASSUME NEW r \in Requests, TimerFires(r) PROVE TimerIffSlot'
    BY <1>10 DEF TimerFires, Forget, TimerIffSlot, TypeOK
  <1>11. ASSUME NEW r \in Requests, PullStarts(r) PROVE TimerIffSlot'
    BY <1>11 DEF PullStarts, TimerIffSlot, TypeOK
  <1>12. ASSUME NEW r \in Requests, PullWakes(r) PROVE TimerIffSlot'
    BY <1>12 DEF PullWakes, TimerIffSlot, TypeOK
  <1>13. ASSUME NEW r \in Requests, Read(r) PROVE TimerIffSlot'
    BY <1>13 DEF Read, TimerIffSlot, TypeOK
  <1>14. ASSUME NEW r \in Requests, Cancel(r) PROVE TimerIffSlot'
    BY <1>14 DEF Cancel, Forget, TimerIffSlot, TypeOK
  <1>15. ASSUME NEW e \in CloseArgs, Close(e) PROVE TimerIffSlot'
    BY <1>15 DEF Close, TimerIffSlot, TypeOK
  <1>16. CASE UNCHANGED vars
    BY <1>16 DEF vars, TimerIffSlot
  <1> QED
    BY <1>1, <1>2, <1>3, <1>4, <1>5, <1>6, <1>7, <1>8,
       <1>9, <1>10, <1>11, <1>12, <1>13, <1>14, <1>15, <1>16 DEF Next, Message, Pull

\* TimerIffSlot is an invariant: on every way through processEnvelope, cancel(),
\* close() and the timers themselves, an entry is in the map exactly as long as
\* its timer runs.
THEOREM TimersFollowSlots == SafeSpec => []TimerIffSlot
  <1>1. Init => TimerIffSlot
    BY DEF Init, TimerIffSlot
  <1>2. TypeOK /\ TimerIffSlot /\ [Next]_vars => TimerIffSlot'
    BY TimerStep
  <1> QED  BY <1>1, <1>2, TypeCorrect, PTL DEF SafeSpec

-------------------------------------------------------------------------------
\* Streams and pull().

\* What streamPush does to any stream.
LEMMA ChunkFacts ==
    ASSUME TypeOK, NEW r \in Requests, OnChunk(r), NEW q \in Requests
    PROVE  /\ hooks[q] # "own" => buffer'[q] = buffer[q] /\ pull'[q] = pull[q]
           /\ pull'[q] = "waiting" => buffer'[q] = buffer[q] /\ pull[q] = "waiting"
           /\ UNCHANGED <<promise, hooks, terminalErr, terminalClose, inner, stream>>
  <1>1. q # r => buffer'[q] = buffer[q]
    BY DEF OnChunk, TypeOK
  <1>2. CASE Decodes(r) /\ hooks[r] = "own"
    <2>1. pull'[q] = IF q = r /\ pull[q] = "waiting" THEN "woken" ELSE pull[q]
      BY <1>2 DEF OnChunk, Notified
    <2> QED  BY <1>1, <1>2, <2>1 DEF OnChunk
  <1>3. CASE ~(Decodes(r) /\ hooks[r] = "own")
    BY <1>3 DEF OnChunk
  <1> QED  BY <1>2, <1>3

\* What a failure does to any stream.
LEMMA FailFacts ==
    ASSUME TypeOK, NEW R, NEW e, e # None, Fail(R, e), NEW q \in Requests
    PROVE  /\ hooks[q] # "own" => terminalErr'[q] = terminalErr[q] /\ pull'[q] = pull[q]
           /\ pull'[q] = "waiting" => terminalErr'[q] = terminalErr[q] /\ pull[q] = "waiting"
           /\ promise[q] # "pending" => promise'[q] = promise[q]
           /\ terminalErr[q] # None => terminalErr'[q] # None
  BY DEF Fail, Notified

\* What pull() does, up to its await or from there on.
LEMMA PullFacts ==
    ASSUME TypeOK, NEW r \in Requests, Pull(r), NEW q \in Requests
    PROVE  /\ q # r => /\ pull'[q] = pull[q] /\ inner'[q] = inner[q]
                       /\ buffer'[q] = buffer[q] /\ stream'[q] = stream[q]
           /\ stream[r] = "readable" /\ stream'[r] \in {"readable", "closed", "errored"}
           /\ stream'[r] = "closed" => r \in terminalClose
           /\ stream'[r] = "errored" => terminalErr[r] # None
           /\ pull'[r] = "waiting" => MustWait(r) /\ buffer' = buffer
           /\ UNCHANGED <<closedErr, entryVars, terminalErr, terminalClose, got, wireVars>>
  <1>1. /\ stream[r] = "readable"
        /\ UNCHANGED <<closedErr, entryVars, terminalErr, terminalClose, got, wireVars>>
    BY DEF Pull, PullStarts, PullWakes
  <1>2. CASE MustWait(r)
    BY <1>1, <1>2 DEF Pull, PullStarts, PullWakes, TypeOK
  <1>3. CASE ~MustWait(r) /\ buffer[r] # <<>>
    <2>1. PullFinishes(r)
      BY <1>3 DEF Pull, PullStarts, PullWakes
    <2>2. /\ pull' = [pull EXCEPT ![r] = "idle"]
          /\ inner' = [inner EXCEPT ![r] = Append(@, Head(buffer[r]))]
          /\ buffer' = [buffer EXCEPT ![r] = Tail(@)]
          /\ stream' = stream
      BY <1>3, <2>1 DEF PullFinishes
    <2>3. stream'[r] = "readable" /\ pull'[r] = "idle"
      BY <1>1, <2>2 DEF TypeOK
    <2>4. q # r => /\ pull'[q] = pull[q] /\ inner'[q] = inner[q]
                   /\ buffer'[q] = buffer[q] /\ stream'[q] = stream[q]
      BY <2>2 DEF TypeOK
    <2> QED  BY <1>1, <2>3, <2>4
  <1>4. CASE ~MustWait(r) /\ buffer[r] = <<>>
    <2>1. PullFinishes(r) /\ (terminalErr[r] # None \/ r \in terminalClose)
      BY <1>4 DEF Pull, PullStarts, PullWakes, MustWait
    <2> QED  BY <1>1, <1>4, <2>1 DEF PullFinishes, TypeOK
  <1> QED  BY <1>2, <1>3, <1>4

\* Every step keeps a stream that does not exist yet untouched.
LEMMA StreamStep ==
    ASSUME TypeOK, StreamInv, [Next]_vars
    PROVE  StreamInv'
  <1> USE DEF entryVars, bufferVars, streamVars, wireVars
  <1>1. ASSUME NEW r \in Requests, Request(r) PROVE StreamInv'
    BY <1>1 DEF Request, StreamInv, TypeOK
  <1>2. ASSUME NEW r \in Requests, RequestRejected(r) PROVE StreamInv'
    BY <1>2 DEF RequestRejected, StreamInv, TypeOK
  <1>3. ASSUME NEW r \in Requests, OnNobody(r) PROVE StreamInv'
    BY <1>3 DEF OnNobody, StreamInv
  <1>4. ASSUME NEW r \in Requests, OnResponse(r) PROVE StreamInv'
    BY <1>4 DEF OnResponse, On, Settled, StreamInv, TypeOK
  <1>5. ASSUME NEW r \in Requests, OnStart(r) PROVE StreamInv'
    <2>1. UNCHANGED <<bufferVars, pull, inner>>
      BY <1>5 DEF OnStart
    <2>2. ASSUME NEW q \in Requests, q # r
          PROVE  promise'[q] = promise[q] /\ stream'[q] = stream[q] /\ hooks'[q] = hooks[q]
      BY <1>5, <2>2 DEF OnStart, Settled, TypeOK
    <2>3. CASE Decodes(r) /\ promise[r] = "pending"
      <3>1. promise'[r] = "stream" /\ stream'[r] = "readable"
        BY <1>5, <2>3 DEF OnStart, Settled, TypeOK
      <3> QED  BY <2>1, <2>2, <3>1 DEF StreamInv
    <2>4. CASE ~(Decodes(r) /\ promise[r] = "pending")
      <3>1. promise'[r] = promise[r] /\ stream'[r] = stream[r] /\ hooks'[r] = "other"
        BY <1>5, <2>4 DEF OnStart, Settled, TypeOK
      <3> QED  BY <2>1, <2>2, <3>1 DEF StreamInv
    <2> QED  BY <2>3, <2>4
  <1>6. ASSUME NEW r \in Requests, OnChunk(r) PROVE StreamInv'
    BY <1>6, ChunkFacts DEF StreamInv
  <1>7. ASSUME NEW r \in Requests, OnEnd(r) PROVE StreamInv'
    BY <1>7 DEF OnEnd, On, Notified, StreamInv, TypeOK
  <1>8. ASSUME NEW r \in Requests, OnError(r) PROVE StreamInv'
    <2>1. CASE Decodes(r)
      <3>1. Fail({r}, "remoteError") /\ "remoteError" # None
        BY <1>8, <2>1 DEF OnError, None
      <3> QED  BY <1>8, <3>1, FailFacts DEF OnError, StreamInv
    <2>2. CASE ~Decodes(r)
      BY <1>8, <2>2 DEF OnError, StreamInv
    <2> QED  BY <2>1, <2>2
  <1>9. ASSUME NEW r \in Requests, OnOther(r) PROVE StreamInv'
    BY <1>9 DEF OnOther, On, StreamInv
  <1>10. ASSUME NEW r \in Requests, TimerFires(r) PROVE StreamInv'
    BY <1>10 DEF TimerFires, Fail, Notified, StreamInv, TypeOK
  <1>11. ASSUME NEW r \in Requests, PullStarts(r) PROVE StreamInv'
    BY <1>11, PullFacts DEF Pull, StreamInv
  <1>12. ASSUME NEW r \in Requests, PullWakes(r) PROVE StreamInv'
    BY <1>12, PullFacts DEF Pull, StreamInv
  <1>13. ASSUME NEW r \in Requests, Read(r) PROVE StreamInv'
    <2>1. /\ stream[r] = "readable"
          /\ UNCHANGED <<entryVars, bufferVars, pull, stream>>
      BY <1>13 DEF Read
    <2>2. \A q \in Requests \ {r} : inner'[q] = inner[q]
      BY <1>13 DEF Read, TypeOK
    <2> QED  BY <2>1, <2>2 DEF StreamInv
  <1>14. ASSUME NEW r \in Requests, Cancel(r) PROVE StreamInv'
    BY <1>14 DEF Cancel, StreamInv, TypeOK
  <1>15. ASSUME NEW e \in CloseArgs, Close(e) PROVE StreamInv'
    BY <1>15 DEF Close, Fail, Notified, StreamInv, TypeOK
  <1>16. CASE UNCHANGED vars
    BY <1>16 DEF vars, StreamInv
  <1> QED
    BY <1>1, <1>2, <1>3, <1>4, <1>5, <1>6, <1>7, <1>8,
       <1>9, <1>10, <1>11, <1>12, <1>13, <1>14, <1>15, <1>16 DEF Next, Message, Pull

\* Every step that leaves something for a pull() that sleeps wakes it.
LEMMA WakeupStep ==
    ASSUME TypeOK, StreamInv, NoLostWakeup, [Next]_vars
    PROVE  NoLostWakeup'
  <1> USE DEF entryVars, bufferVars, streamVars, wireVars
  <1>1. ASSUME NEW r \in Requests, Request(r) PROVE NoLostWakeup'
    BY <1>1 DEF Request, StreamInv, NoLostWakeup, MustWait, TypeOK
  <1>2. ASSUME NEW r \in Requests, RequestRejected(r) PROVE NoLostWakeup'
    BY <1>2 DEF RequestRejected, StreamInv, NoLostWakeup, MustWait, TypeOK
  <1>3. ASSUME NEW r \in Requests, OnNobody(r) PROVE NoLostWakeup'
    BY <1>3 DEF OnNobody, StreamInv, NoLostWakeup, MustWait
  <1>4. ASSUME NEW r \in Requests, OnResponse(r) PROVE NoLostWakeup'
    BY <1>4 DEF OnResponse, On, Settled, StreamInv, NoLostWakeup, MustWait, TypeOK
  <1>5. ASSUME NEW r \in Requests, OnStart(r) PROVE NoLostWakeup'
    BY <1>5 DEF OnStart, On, Settled, StreamInv, NoLostWakeup, MustWait, TypeOK
  <1>6. ASSUME NEW r \in Requests, OnChunk(r) PROVE NoLostWakeup'
    BY <1>6, ChunkFacts DEF NoLostWakeup, MustWait
  <1>7. ASSUME NEW r \in Requests, OnEnd(r) PROVE NoLostWakeup'
    BY <1>7 DEF OnEnd, On, Notified, StreamInv, NoLostWakeup, MustWait, TypeOK
  <1>8. ASSUME NEW r \in Requests, OnError(r) PROVE NoLostWakeup'
    <2>1. CASE Decodes(r)
      <3>1. Fail({r}, "remoteError") /\ "remoteError" # None
        BY <1>8, <2>1 DEF OnError, None
      <3> QED  BY <1>8, <3>1, FailFacts DEF OnError, NoLostWakeup, MustWait
    <2>2. CASE ~Decodes(r)
      BY <1>8, <2>2 DEF OnError, NoLostWakeup, MustWait
    <2> QED  BY <2>1, <2>2
  <1>9. ASSUME NEW r \in Requests, OnOther(r) PROVE NoLostWakeup'
    BY <1>9 DEF OnOther, On, StreamInv, NoLostWakeup, MustWait
  <1>10. ASSUME NEW r \in Requests, TimerFires(r) PROVE NoLostWakeup'
    BY <1>10 DEF TimerFires, Fail, Notified, StreamInv, NoLostWakeup, MustWait, TypeOK
  <1>11. ASSUME NEW r \in Requests, PullStarts(r) PROVE NoLostWakeup'
    BY <1>11, PullFacts DEF Pull, NoLostWakeup, MustWait
  <1>12. ASSUME NEW r \in Requests, PullWakes(r) PROVE NoLostWakeup'
    BY <1>12, PullFacts DEF Pull, NoLostWakeup, MustWait
  <1>13. ASSUME NEW r \in Requests, Read(r) PROVE NoLostWakeup'
    BY <1>13 DEF Read, StreamInv, NoLostWakeup, MustWait, TypeOK
  <1>14. ASSUME NEW r \in Requests, Cancel(r) PROVE NoLostWakeup'
    BY <1>14 DEF Cancel, StreamInv, NoLostWakeup, MustWait, TypeOK
  <1>15. ASSUME NEW e \in CloseArgs, Close(e) PROVE NoLostWakeup'
    BY <1>15 DEF Close, Fail, Notified, StreamInv, NoLostWakeup, MustWait, TypeOK
  <1>16. CASE UNCHANGED vars
    BY <1>16 DEF vars, StreamInv, NoLostWakeup, MustWait
  <1> QED
    BY <1>1, <1>2, <1>3, <1>4, <1>5, <1>6, <1>7, <1>8,
       <1>9, <1>10, <1>11, <1>12, <1>13, <1>14, <1>15, <1>16 DEF Next, Message, Pull

\* NoLostWakeup is an invariant: pull() never sleeps on a chunk, an error or an
\* end, whatever runs between its test and the await.
THEOREM WakeupNeverLost == SafeSpec => []NoLostWakeup
  <1>1. Init => StreamInv /\ NoLostWakeup
    BY DEF Init, StreamInv, NoLostWakeup, None
  <1>2. TypeOK /\ StreamInv /\ NoLostWakeup /\ [Next]_vars => (StreamInv /\ NoLostWakeup)'
    BY StreamStep, WakeupStep
  <1> QED  BY <1>1, <1>2, TypeCorrect, PTL DEF SafeSpec

-------------------------------------------------------------------------------
\* Entries, and the end of a body.

\* Every step makes an entry only for a request that is being made, and none
\* after close().
LEMMA EntryStep ==
    ASSUME TypeOK, EntryInv, [Next]_vars
    PROVE  EntryInv'
  <1> USE DEF entryVars, bufferVars, streamVars, wireVars
  <1>1. ASSUME NEW r \in Requests, Request(r) PROVE EntryInv'
    <2>1. promise'[r] # "none" /\ \A q \in Requests \ {r} : promise'[q] = promise[q]
      BY <1>1 DEF Request, TypeOK
    <2> QED  BY <1>1, <2>1 DEF Request, EntryInv, TypeOK
  <1>2. ASSUME NEW r \in Requests, RequestRejected(r) PROVE EntryInv'
    BY <1>2 DEF RequestRejected, EntryInv, TypeOK
  <1>3. ASSUME NEW r \in Requests, OnNobody(r) PROVE EntryInv'
    BY <1>3 DEF OnNobody, EntryInv
  <1>4. ASSUME NEW r \in Requests, OnResponse(r) PROVE EntryInv'
    BY <1>4 DEF OnResponse, On, Forget, Settled, EntryInv, TypeOK
  <1>5. ASSUME NEW r \in Requests, OnStart(r) PROVE EntryInv'
    BY <1>5 DEF OnStart, On, Settled, EntryInv, TypeOK
  <1>6. ASSUME NEW r \in Requests, OnChunk(r) PROVE EntryInv'
    BY <1>6 DEF OnChunk, On, EntryInv
  <1>7. ASSUME NEW r \in Requests, OnEnd(r) PROVE EntryInv'
    BY <1>7 DEF OnEnd, On, Forget, EntryInv
  <1>8. ASSUME NEW r \in Requests, OnError(r) PROVE EntryInv'
    <2>1. \A q \in Requests : promise[q] # "none" => promise'[q] # "none"
      BY <1>8 DEF OnError, Fail
    <2> QED  BY <1>8, <2>1 DEF OnError, On, Forget, EntryInv, TypeOK
  <1>9. ASSUME NEW r \in Requests, OnOther(r) PROVE EntryInv'
    BY <1>9 DEF OnOther, On, EntryInv
  <1>10. ASSUME NEW r \in Requests, TimerFires(r) PROVE EntryInv'
    <2>1. \A q \in Requests : promise[q] # "none" => promise'[q] # "none"
      BY <1>10 DEF TimerFires, Fail, ReadTimeoutError
    <2> QED  BY <1>10, <2>1 DEF TimerFires, Forget, EntryInv, TypeOK
  <1>11. ASSUME NEW r \in Requests, Pull(r) PROVE EntryInv'
    BY <1>11 DEF Pull, PullStarts, PullWakes, EntryInv
  <1>12. ASSUME NEW r \in Requests, Read(r) PROVE EntryInv'
    BY <1>12 DEF Read, EntryInv
  <1>13. ASSUME NEW r \in Requests, Cancel(r) PROVE EntryInv'
    BY <1>13 DEF Cancel, Forget, EntryInv
  <1>14. ASSUME NEW e \in CloseArgs, Close(e) PROVE EntryInv'
    BY <1>14 DEF Close, EntryInv
  <1>15. CASE UNCHANGED vars
    BY <1>15 DEF vars, EntryInv
  <1> QED
    BY <1>1, <1>2, <1>3, <1>4, <1>5, <1>6, <1>7, <1>8,
       <1>9, <1>10, <1>11, <1>12, <1>13, <1>14, <1>15 DEF Next, Message

\* Every step but OnEnd leaves the ends of the streams alone, and after OnEnd the
\* entry is gone.
LEMMA EndStep ==
    ASSUME TypeOK, EntryInv, EndInv, [Next]_vars
    PROVE  EndInv'
  <1> USE DEF entryVars, bufferVars, streamVars, wireVars
  <1>1. ASSUME NEW r \in Requests, Request(r) PROVE EndInv'
    BY <1>1 DEF Request, EndInv, TypeOK
  <1>2. ASSUME NEW r \in Requests, RequestRejected(r) PROVE EndInv'
    BY <1>2 DEF RequestRejected, EndInv, TypeOK
  <1>3. ASSUME NEW r \in Requests, OnNobody(r) PROVE EndInv'
    BY <1>3 DEF OnNobody, Receive, EndInv
  <1>4. ASSUME NEW r \in Requests, OnResponse(r) PROVE EndInv'
    BY <1>4 DEF OnResponse, On, Receive, Forget, Settled, EndInv, TypeOK
  <1>5. ASSUME NEW r \in Requests, OnStart(r) PROVE EndInv'
    BY <1>5 DEF OnStart, On, Receive, Settled, EndInv, TypeOK
  <1>6. ASSUME NEW r \in Requests, OnChunk(r) PROVE EndInv'
    BY <1>6 DEF OnChunk, On, Receive, EndInv, TypeOK
  <1>7. ASSUME NEW r \in Requests, OnEnd(r) PROVE EndInv'
    <2>1. heard'[r] = arrived[r] + 1 /\ script[r][arrived[r] + 1].kind = "End"
      BY <1>7 DEF OnEnd, On, TypeOK
    <2> QED  BY <1>7, <2>1 DEF OnEnd, On, Receive, Forget, EntryInv, EndInv, TypeOK
  <1>8. ASSUME NEW r \in Requests, OnError(r) PROVE EndInv'
    <2>1. \A q \in Requests : promise[q] # "none" => promise'[q] # "none"
      BY <1>8 DEF OnError, Fail
    <2> QED  BY <1>8, <2>1 DEF OnError, On, Receive, Forget, EndInv, TypeOK
  <1>9. ASSUME NEW r \in Requests, OnOther(r) PROVE EndInv'
    BY <1>9 DEF OnOther, On, Receive, EndInv, TypeOK
  <1>10. ASSUME NEW r \in Requests, TimerFires(r) PROVE EndInv'
    <2>1. \A q \in Requests : promise[q] # "none" => promise'[q] # "none"
      BY <1>10 DEF TimerFires, Fail, ReadTimeoutError
    <2> QED  BY <1>10, <2>1 DEF TimerFires, Forget, EndInv
  <1>11. ASSUME NEW r \in Requests, Pull(r) PROVE EndInv'
    <2>1. \A q \in Requests : stream'[q] = "closed" => stream[q] = "closed" \/ q \in terminalClose
      BY <1>11, PullFacts
    <2> QED  BY <1>11, <2>1 DEF Pull, PullStarts, PullWakes, EndInv
  <1>12. ASSUME NEW r \in Requests, Read(r) PROVE EndInv'
    BY <1>12 DEF Read, EndInv
  <1>13. ASSUME NEW r \in Requests, Cancel(r) PROVE EndInv'
    BY <1>13 DEF Cancel, Forget, EndInv, TypeOK
  <1>14. ASSUME NEW e \in CloseArgs, Close(e) PROVE EndInv'
    <2>1. closedErr' # "none"
      BY <1>14, TsCallerAssumption DEF Close, None, TransportClosed
    <2>2. \A q \in Requests : promise[q] # "none" => promise'[q] # "none"
      BY <1>14, <2>1 DEF Close, Fail
    <2> QED  BY <1>14, <2>2 DEF Close, EndInv
  <1>15. CASE UNCHANGED vars
    BY <1>15 DEF vars, EndInv
  <1> QED
    BY <1>1, <1>2, <1>3, <1>4, <1>5, <1>6, <1>7, <1>8,
       <1>9, <1>10, <1>11, <1>12, <1>13, <1>14, <1>15 DEF Next, Message

\* CleanEofMeansEnd is an invariant: whatever times out, fails or is closed, a
\* body that closes has been closed by HTTPResponseEnd, and nothing the entry
\* could hear comes after it.
THEOREM EofIsEnd == SafeSpec => []CleanEofMeansEnd
  <1>1. Init => EntryInv /\ EndInv
    BY DEF Init, EntryInv, EndInv
  <1>2. TypeOK /\ EntryInv /\ EndInv /\ [Next]_vars => (EntryInv /\ EndInv)'
    BY EntryStep, EndStep
  <1>3. EndInv => CleanEofMeansEnd
    BY DEF EndInv, CleanEofMeansEnd
  <1> QED  BY <1>1, <1>2, <1>3, TypeCorrect, PTL DEF SafeSpec

-------------------------------------------------------------------------------
\* Peers that keep to the protocol.

\* What a conforming reply has at its beginning, and after it.
LEMMA ConformingFrame ==
    ASSUME NEW s \in Seq(Reply), Conforming(s), NEW n \in Nat, n < Len(s)
    PROVE  /\ s[n + 1].ok
           /\ n = 0 => s[n + 1].kind \in {"Response", "Start", "Error"}
           /\ n > 0 => s[n + 1].kind \in {"Chunk", "End", "Error"}
  <1>1. n + 1 \in 1..Len(s) /\ s # <<>>
    OBVIOUS
  <1>2. n > 0 => n + 1 \in 2..Len(s)
    BY <1>1
  <1> QED  BY <1>1, <1>2 DEF Conforming

\* Which frame of a conforming reply finds the entry of r, and what the entry has.
LEMMA Heard ==
    ASSUME TypeOK, EntryInv, ServedInv, NEW r \in Requests, NEW k, On(r, k),
           Conforming(script[r]), promise[r] # "sendError"
    PROVE  /\ Decodes(r) /\ promise[r] # "none" /\ arrived'[r] > 0
           /\ \/ /\ promise[r] = "pending" /\ hooks[r] = None
                 /\ k \in {"Response", "Start", "Error"}
              \/ /\ promise[r] # "pending" /\ hooks[r] = "own"
                 /\ stream[r] = "readable" /\ Unfinished(r)
                 /\ k \in {"Chunk", "End", "Error"}
  <1>1. /\ script[r] \in Seq(Reply) /\ arrived[r] \in Nat /\ arrived[r] < Len(script[r])
        /\ arrived'[r] = arrived[r] + 1 /\ r \in pending /\ promise[r] # "none"
        /\ script[r][arrived[r] + 1].kind = k
    BY DEF On, Receive, EntryInv, TypeOK
  <1>2. /\ script[r][arrived[r] + 1].ok
        /\ arrived[r] = 0 => k \in {"Response", "Start", "Error"}
        /\ arrived[r] > 0 => k \in {"Chunk", "End", "Error"}
    BY <1>1, ConformingFrame
  <1>3. Served(r)
    BY DEF ServedInv
  <1>4. arrived'[r] > 0
    BY OnType
  <1>5. CASE promise[r] = "pending"
    <2>1. arrived[r] = 0 /\ hooks[r] = None
      BY <1>3, <1>5 DEF Served
    <2> QED  BY <1>1, <1>2, <1>4, <1>5, <2>1 DEF Decodes
  <1>6. CASE promise[r] # "pending"
    <2>1. arrived[r] > 0 /\ hooks[r] = "own" /\ stream[r] = "readable" /\ Unfinished(r)
      BY <1>1, <1>3, <1>6 DEF Served
    <2> QED  BY <1>1, <1>2, <1>4, <1>6, <2>1 DEF Decodes
  <1> QED  BY <1>5, <1>6

\* Nothing changes for a request whose part of the state stays as it is.
LEMMA ServedKept ==
    ASSUME NEW r \in Requests, Served(r),
           promise'[r] = promise[r], script'[r] = script[r], arrived'[r] = arrived[r],
           hooks'[r] = hooks[r], stream'[r] = stream[r], terminalErr'[r] = terminalErr[r],
           r \in pending' <=> r \in pending, r \in terminalClose' <=> r \in terminalClose
    PROVE  Served(r)'
  BY DEF Served, Unfinished, Conforming

\* Every step keeps the entry of a request with the promise or the stream that it
\* serves.
LEMMA ServedStep ==
    ASSUME TypeOK, EntryInv, StreamInv, ServedInv, [Next]_vars
    PROVE  ServedInv'
  <1> USE DEF entryVars, bufferVars, streamVars, wireVars
  <1> DEFINE Others(q) == \A r \in Requests \ {q} : Served(r)'
  <1>1. ASSUME NEW q \in Requests, Request(q) PROVE ServedInv'
    <2>1. Served(q)'
      BY <1>1 DEF Request, ServedInv, Served, StreamInv, Unfinished, TypeOK
    <2>2. Others(q)
      BY <1>1, ServedKept DEF Request, ServedInv, TypeOK
    <2> QED  BY <2>1, <2>2 DEF ServedInv
  <1>2. ASSUME NEW q \in Requests, RequestRejected(q) PROVE ServedInv'
    <2>1. Served(q)'
      BY <1>2, TsCallerAssumption
         DEF RequestRejected, ServedInv, Served, StreamInv, EntryInv, Unfinished, TypeOK,
             CloseErrors, TransportClosed, None
    <2>2. Others(q)
      BY <1>2, ServedKept DEF RequestRejected, ServedInv, TypeOK
    <2> QED  BY <2>1, <2>2 DEF ServedInv
  <1>3. ASSUME NEW q \in Requests, OnNobody(q) PROVE ServedInv'
    <2>1. Served(q)'
      <3>1. script[q] # <<>> /\ Served(q)
        <4>1. arrived[q] \in Nat /\ arrived[q] < Len(script[q])
          BY <1>3 DEF OnNobody, Receive, TypeOK
        <4> QED  BY <4>1 DEF ServedInv
      <3>2. promise[q] # "none"
        BY <3>1 DEF Served
      <3>3. UNCHANGED <<promise, script, hooks, stream, pending, terminalErr, terminalClose>>
        BY <1>3 DEF OnNobody, Receive
      <3>4. q \notin pending
        BY <1>3 DEF OnNobody
      <3>5. Conforming(script[q])' = Conforming(script[q])
        BY <3>3
      <3>6. Conforming(script[q]) /\ promise[q] # "sendError" =>
               promise[q] # "pending" /\ ~(stream[q] = "readable" /\ Unfinished(q))
        BY <3>1, <3>2, <3>4 DEF Served
      <3> QED  BY <3>2, <3>3, <3>4, <3>5, <3>6 DEF Served, Unfinished
    <2>2. Others(q)
      BY <1>3, ServedKept DEF OnNobody, Receive, ServedInv, TypeOK
    <2> QED  BY <2>1, <2>2 DEF ServedInv
  <1>4. ASSUME NEW q \in Requests, OnResponse(q) PROVE ServedInv'
    <2>1. On(q, "Response")
      BY <1>4 DEF OnResponse
    <2>2. Served(q)'
      <3>1. q \notin pending' /\ stream' = stream /\ script' = script /\ promise[q] # "none"
        BY <1>4, <2>1 DEF OnResponse, On, Receive, Forget, EntryInv
      <3>2. /\ promise'[q] # "none"
            /\ promise[q] # "pending" => promise'[q] = promise[q]
            /\ promise[q] = "pending" /\ Decodes(q) => promise'[q] = "response"
        BY <1>4, <3>1 DEF OnResponse, Settled, TypeOK
      <3>3. CASE Conforming(script[q]) /\ promise[q] # "sendError"
        <4>1. promise'[q] = "response" /\ stream[q] # "readable"
          BY <2>1, <3>2, <3>3, Heard DEF StreamInv
        <4> QED  BY <3>1, <4>1 DEF Served
      <3>4. CASE ~(Conforming(script[q]) /\ promise[q] # "sendError")
        BY <3>1, <3>2, <3>4 DEF Served
      <3> QED  BY <3>3, <3>4
    <2>3. Others(q)
      BY <1>4, ServedKept DEF OnResponse, On, Receive, Forget, Settled, ServedInv, TypeOK
    <2> QED  BY <2>2, <2>3 DEF ServedInv
  <1>5. ASSUME NEW q \in Requests, OnStart(q) PROVE ServedInv'
    <2>1. On(q, "Start")
      BY <1>5 DEF OnStart
    <2>2. Served(q)'
      <3>1. /\ q \in pending' /\ script' = script /\ promise[q] # "none"
            /\ UNCHANGED <<terminalErr, terminalClose>>
        BY <1>5, <2>1 DEF OnStart, On, Receive, EntryInv
      <3>2. /\ promise'[q] # "none"
            /\ promise[q] # "pending" => promise'[q] = promise[q]
        BY <1>5, <3>1 DEF OnStart, Settled, TypeOK
      <3>3. CASE Conforming(script[q]) /\ promise[q] # "sendError"
        <4>1. Decodes(q) /\ promise[q] = "pending" /\ arrived'[q] > 0
          BY <2>1, <3>3, Heard
        <4>2. promise'[q] = "stream" /\ hooks'[q] = "own" /\ stream'[q] = "readable"
          BY <1>5, <4>1 DEF OnStart, Settled, TypeOK
        <4>3. Unfinished(q)'
          BY <3>1, <4>1 DEF StreamInv, Unfinished
        <4> QED  BY <3>1, <4>1, <4>2, <4>3 DEF Served
      <3>4. CASE ~(Conforming(script[q]) /\ promise[q] # "sendError")
        BY <3>1, <3>2, <3>4 DEF Served
      <3> QED  BY <3>3, <3>4
    <2>3. Others(q)
      BY <1>5, ServedKept DEF OnStart, On, Receive, Settled, ServedInv, TypeOK
    <2> QED  BY <2>2, <2>3 DEF ServedInv
  <1>6. ASSUME NEW q \in Requests, OnChunk(q) PROVE ServedInv'
    <2>1. On(q, "Chunk")
      BY <1>6 DEF OnChunk
    <2>2. Served(q)'
      BY <1>6, <2>1, Heard
         DEF OnChunk, On, Receive, ServedInv, Served, EntryInv, Unfinished, TypeOK
    <2>3. Others(q)
      BY <1>6, ServedKept DEF OnChunk, On, Receive, ServedInv, TypeOK
    <2> QED  BY <2>2, <2>3 DEF ServedInv
  <1>7. ASSUME NEW q \in Requests, OnEnd(q) PROVE ServedInv'
    <2>1. On(q, "End")
      BY <1>7 DEF OnEnd
    <2>2. Served(q)'
      BY <1>7, <2>1, Heard
         DEF OnEnd, On, Receive, Forget, ServedInv, Served, EntryInv, Unfinished, TypeOK
    <2>3. Others(q)
      BY <1>7, ServedKept DEF OnEnd, On, Receive, Forget, ServedInv, TypeOK
    <2> QED  BY <2>2, <2>3 DEF ServedInv
  <1>8. ASSUME NEW q \in Requests, OnError(q) PROVE ServedInv'
    <2>1. On(q, "Error")
      BY <1>8 DEF OnError
    <2>2. Served(q)'
      <3> DEFINE conforming == Conforming(script[q]) /\ promise[q] # "sendError"
      <3>1. CASE conforming
        <4>1. Decodes(q) /\ Fail({q}, "remoteError")
          BY <1>8, <2>1, <3>1, Heard DEF OnError
        <4>2. CASE promise[q] = "pending"
          <5>1. promise'[q] = "remoteError"
            BY <2>1, <3>1, <4>1, <4>2, Heard DEF Fail
          <5>2. stream[q] # "readable" /\ stream' = stream
            BY <1>8, <4>2 DEF OnError, StreamInv
          <5>3. q \notin pending'
            BY <1>8 DEF OnError, Forget
          <5> QED  BY <5>1, <5>2, <5>3 DEF Served
        <4>3. CASE promise[q] # "pending"
          <5>1. promise'[q] = promise[q] /\ terminalErr'[q] = "remoteError"
            BY <2>1, <3>1, <4>1, <4>3, Heard DEF Fail
          <5>2. q \notin pending' /\ promise[q] # "none"
            BY <1>8, <2>1, <3>1, Heard DEF OnError, Forget
          <5> QED  BY <4>3, <5>1, <5>2 DEF Served, Unfinished, None
        <4> QED  BY <4>2, <4>3
      <3>2. CASE ~conforming
        <4>1. promise[q] # "none" /\ script' = script
          BY <2>1 DEF On, Receive, EntryInv
        <4>2. promise'[q] # "none" /\ (promise[q] = "sendError" => promise'[q] = "sendError")
          BY <1>8, <4>1 DEF OnError, Fail
        <4>3. ~Conforming(script[q])' \/ promise'[q] = "sendError"
          BY <3>2, <4>1, <4>2
        <4> QED  BY <4>2, <4>3 DEF Served
      <3> QED  BY <3>1, <3>2
    <2>3. Others(q)
      <3>1. \A r \in Requests \ {q} :
               promise'[r] = promise[r] /\ terminalErr'[r] = terminalErr[r]
        BY <1>8 DEF OnError, Fail
      <3> QED  BY <1>8, <3>1, ServedKept DEF OnError, On, Receive, Forget, ServedInv, TypeOK
    <2> QED  BY <2>2, <2>3 DEF ServedInv
  <1>9. ASSUME NEW q \in Requests, OnOther(q) PROVE ServedInv'
    <2>1. On(q, "Other")
      BY <1>9 DEF OnOther
    <2>2. Served(q)'
      BY <1>9, <2>1, Heard
         DEF OnOther, On, Receive, ServedInv, Served, EntryInv, Unfinished, TypeOK
    <2>3. Others(q)
      BY <1>9, ServedKept DEF OnOther, On, Receive, ServedInv, TypeOK
    <2> QED  BY <2>2, <2>3 DEF ServedInv
  <1>10. ASSUME NEW q \in Requests, TimerFires(q) PROVE ServedInv'
    <2>1. Served(q)'
      BY <1>10 DEF TimerFires, Fail, Forget, ServedInv, Served, StreamInv, Unfinished, TypeOK,
                   None, ReadTimeoutError
    <2>2. Others(q)
      <3>1. \A r \in Requests \ {q} :
               promise'[r] = promise[r] /\ terminalErr'[r] = terminalErr[r]
        BY <1>10 DEF TimerFires, Fail
      <3> QED  BY <1>10, <3>1, ServedKept DEF TimerFires, Forget, ServedInv, TypeOK
    <2> QED  BY <2>1, <2>2 DEF ServedInv
  <1>11. ASSUME NEW q \in Requests, Pull(q) PROVE ServedInv'
    <2>1. Served(q)'
      BY <1>11, PullFacts DEF Pull, PullStarts, PullWakes, ServedInv, Served, Unfinished
    <2>2. Others(q)
      BY <1>11, PullFacts, ServedKept DEF Pull, PullStarts, PullWakes, ServedInv
    <2> QED  BY <2>1, <2>2 DEF ServedInv
  <1>12. ASSUME NEW q \in Requests, Read(q) PROVE ServedInv'
    BY <1>12, ServedKept DEF Read, ServedInv
  <1>13. ASSUME NEW q \in Requests, Cancel(q) PROVE ServedInv'
    <2>1. Served(q)'
      BY <1>13 DEF Cancel, Forget, ServedInv, Served, StreamInv, Unfinished, TypeOK
    <2>2. Others(q)
      BY <1>13, ServedKept DEF Cancel, Forget, ServedInv, TypeOK
    <2> QED  BY <2>1, <2>2 DEF ServedInv
  <1>14. ASSUME NEW e \in CloseArgs, Close(e) PROVE ServedInv'
    <2>1. closedErr' \notin {"none", "pending", "sendError"}
      BY <1>14, TsCallerAssumption DEF Close, None, TransportClosed
    <2>2. ASSUME NEW r \in Requests PROVE Served(r)'
      BY <1>14, <2>1
         DEF Close, Fail, ServedInv, Served, StreamInv, Unfinished, TypeOK, None
    <2> QED  BY <2>2 DEF ServedInv
  <1>15. CASE UNCHANGED vars
    BY <1>15, ServedKept DEF vars, ServedInv
  <1> QED
    BY <1>1, <1>2, <1>3, <1>4, <1>5, <1>6, <1>7, <1>8,
       <1>9, <1>10, <1>11, <1>12, <1>13, <1>14, <1>15 DEF Next, Message

\* The facts about conforming peers hold together from the start.
THEOREM ServedAlways == SafeSpec => [](EntryInv /\ StreamInv /\ ServedInv)
  <1>1. Init => EntryInv /\ StreamInv /\ ServedInv
    BY DEF Init, EntryInv, StreamInv, ServedInv, Served, None
  <1>2. TypeOK /\ EntryInv /\ StreamInv /\ ServedInv /\ [Next]_vars
        => (EntryInv /\ StreamInv /\ ServedInv)'
    BY EntryStep, StreamStep, ServedStep
  <1> QED  BY <1>1, <1>2, TypeCorrect, PTL DEF SafeSpec

\* SlotIffServed is an invariant: of a conforming peer, an entry is in the map
\* exactly as long as a promise or an unfinished body can be served through it.
THEOREM SlotsServe == SafeSpec => []SlotIffServed
  <1>1. EntryInv /\ StreamInv /\ ServedInv => SlotIffServed
    BY DEF EntryInv, StreamInv, ServedInv, Served, Unfinished, SlotIffServed
  <1> QED  BY <1>1, ServedAlways, PTL

\* CloseSettlesConforming is an invariant: close() leaves no promise of a
\* conforming peer pending.
THEOREM CloseSettles == SafeSpec => []CloseSettlesConforming
  <1>1. EntryInv /\ ServedInv => CloseSettlesConforming
    BY DEF EntryInv, ServedInv, Served, CloseSettlesConforming
  <1> QED  BY <1>1, ServedAlways, PTL

-------------------------------------------------------------------------------
\* Peers that do not.

\* A Start has found the entry of r, and another frame after it that spec.md
\* does not allow there.
HadStart(r) == \E i \in 1..heard[r] : script[r][i].kind = "Start"

Broken(r) ==
    \E i \in 1..heard[r] : \E j \in (i + 1)..heard[r] :
        /\ script[r][i].kind = "Start"
        /\ script[r][j].kind \in {"Start", "Response"} \/ script[r][j] = Bad("Error")

\* A body exists after a Start; while the peer has not broken the protocol, the
\* entry's callbacks are its own, and the entry stays until the body ends.
Fed(r) ==
    /\ heard[r] <= arrived[r]
    /\ stream[r] = "readable" =>
          /\ HadStart(r)
          /\ hooks[r] # "own" => Broken(r)
          /\ Unfinished(r) /\ r \notin pending => Broken(r)

FedInv == \A r \in Requests : Fed(r)

\* A body stays fed when it loses its entry only by being ended.
LEMMA FedKept ==
    ASSUME NEW r \in Requests, Fed(r),
           script'[r] = script[r], heard'[r] = heard[r],
           arrived'[r] \in Nat, arrived[r] \in Nat, heard[r] \in Nat, arrived'[r] >= arrived[r],
           stream'[r] = "readable" =>
               /\ stream[r] = "readable" /\ hooks'[r] = hooks[r]
               /\ Unfinished(r)' /\ r \notin pending' =>
                     (Unfinished(r) /\ r \notin pending) \/ hooks[r] # "own"
    PROVE  Fed(r)'
  <1>1. HadStart(r)' = HadStart(r) /\ Broken(r)' = Broken(r)
    BY DEF HadStart, Broken
  <1> QED  BY <1>1 DEF Fed

\* What a frame adds to what the entry of r has heard.
LEMMA FrameHeard ==
    ASSUME TypeOK, NEW r \in Requests, Fed(r), NEW k, On(r, k)
    PROVE  /\ heard'[r] <= arrived'[r]
           /\ HadStart(r) => HadStart(r)'
           /\ Broken(r) => Broken(r)'
           /\ k = "Start" => HadStart(r)'
           /\ HadStart(r) /\ (k \in {"Start", "Response"} \/ (k = "Error" /\ ~Decodes(r)))
                 => Broken(r)'
  <1> DEFINE n == arrived[r] + 1
  <1>1. /\ script' = script /\ heard'[r] = n /\ arrived'[r] = n /\ script[r][n].kind = k
        /\ arrived[r] \in Nat /\ heard[r] \in Nat /\ heard[r] < n
        /\ script[r] \in Seq(Reply) /\ n \in 1..Len(script[r])
    BY DEF On, Receive, Fed, TypeOK
  <1>2. script[r][n] \in Reply
    BY <1>1
  <1>3. k = "Error" /\ ~Decodes(r) => script[r][n] = Bad("Error")
    BY <1>1, <1>2 DEF Decodes, Reply, Bad
  <1>4. \A i \in 1..heard[r] : i \in 1..n /\ n \in (i + 1)..n
    BY <1>1
  <1>5. (HadStart(r) => HadStart(r)') /\ (k = "Start" => HadStart(r)')
    BY <1>1, <1>4 DEF HadStart
  <1>6. Broken(r) => Broken(r)'
    <2> SUFFICES ASSUME NEW i \in 1..heard[r], NEW j \in (i + 1)..heard[r],
                        script[r][i].kind = "Start",
                        script[r][j].kind \in {"Start", "Response"} \/ script[r][j] = Bad("Error")
                 PROVE  Broken(r)'
      BY DEF Broken
    <2>1. i \in 1..n /\ j \in (i + 1)..n
      BY <1>1
    <2> QED  BY <1>1, <2>1 DEF Broken
  <1>7. ASSUME HadStart(r), k \in {"Start", "Response"} \/ (k = "Error" /\ ~Decodes(r))
        PROVE  Broken(r)'
    <2>1. PICK i \in 1..heard[r] : script[r][i].kind = "Start"
      BY <1>7 DEF HadStart
    <2>2. script[r][n].kind \in {"Start", "Response"} \/ script[r][n] = Bad("Error")
      BY <1>1, <1>3, <1>7
    <2> QED  BY <1>1, <1>4, <2>1, <2>2 DEF Broken
  <1> QED  BY <1>1, <1>5, <1>6, <1>7

\* Every step that takes an entry away ends its body, unless a frame does that
\* the peer should not have sent.
LEMMA FedStep ==
    ASSUME TypeOK, StreamInv, FedInv, [Next]_vars
    PROVE  FedInv'
  <1> USE DEF entryVars, bufferVars, streamVars, wireVars
  <1> DEFINE Others(q) == \A r \in Requests \ {q} : Fed(r)'
  <1>0. \A r \in Requests : arrived[r] \in Nat /\ heard[r] \in Nat /\ Fed(r)
    BY DEF TypeOK, FedInv
  <1>1. ASSUME NEW q \in Requests, Request(q) PROVE FedInv'
    <2>1. Fed(q)'
      <3>1. stream[q] # "readable" /\ stream' = stream /\ UNCHANGED <<arrived, heard>>
        BY <1>1 DEF Request, StreamInv
      <3> QED  BY <1>0, <3>1 DEF Fed
    <2>2. /\ \A r \in Requests \ {q} : script'[r] = script[r] /\ (r \in pending' <=> r \in pending)
          /\ UNCHANGED <<hooks, bufferVars, stream, arrived, heard>>
      BY <1>1 DEF Request, TypeOK
    <2>3. Others(q)
      BY <1>0, <2>2, FedKept DEF Unfinished
    <2> QED  BY <2>1, <2>3 DEF FedInv
  <1>2. ASSUME NEW q \in Requests, RequestRejected(q) PROVE FedInv'
    BY <1>0, <1>2, FedKept DEF RequestRejected, FedInv, Unfinished
  <1>3. ASSUME NEW q \in Requests, OnNobody(q) PROVE FedInv'
    <2>1. \A r \in Requests : arrived'[r] \in Nat /\ arrived'[r] >= arrived[r]
      BY <1>0, <1>3 DEF OnNobody, Receive, TypeOK
    <2> QED  BY <1>0, <1>3, <2>1, FedKept DEF OnNobody, Receive, FedInv, Unfinished
  <1>4. ASSUME NEW q \in Requests, NEW k, On(q, k),
               \A r \in Requests \ {q} :
                   /\ stream'[r] = stream[r] /\ hooks'[r] = hooks[r]
                   /\ terminalErr'[r] = terminalErr[r] /\ (r \in terminalClose' <=> r \in terminalClose)
                   /\ (r \in pending' <=> r \in pending)
        PROVE  Others(q)
    <2>1. ASSUME NEW r \in Requests \ {q} PROVE Fed(r)'
      <3>1. script' = script /\ heard'[r] = heard[r] /\ arrived'[r] = arrived[r]
        BY <1>4 DEF On, Receive, TypeOK
      <3> QED  BY <1>0, <1>4, <3>1, FedKept DEF Unfinished
    <2> QED  BY <2>1
  <1>5. ASSUME NEW q \in Requests, OnResponse(q) PROVE FedInv'
    <2>1. Fed(q)'
      BY <1>0, <1>5, FrameHeard DEF OnResponse, Fed
    <2>2. Others(q)
      BY <1>4, <1>5 DEF OnResponse, Forget
    <2> QED  BY <2>1, <2>2 DEF FedInv
  <1>6. ASSUME NEW q \in Requests, OnStart(q) PROVE FedInv'
    <2>1. Fed(q)'
      <3>1. On(q, "Start") /\ q \in pending' /\ UNCHANGED <<terminalErr, terminalClose>>
        BY <1>6 DEF OnStart, On
      <3>2. heard'[q] <= arrived'[q] /\ HadStart(q)' /\ (HadStart(q) => Broken(q)')
        BY <1>0, <3>1, FrameHeard
      <3>3. hooks'[q] # "own" => stream'[q] = stream[q]
        BY <1>6 DEF OnStart, TypeOK
      <3> QED  BY <1>0, <3>1, <3>2, <3>3 DEF Fed
    <2>2. Others(q)
      <3>1. On(q, "Start") /\ UNCHANGED <<pending, bufferVars>>
            /\ \A r \in Requests \ {q} : stream'[r] = stream[r] /\ hooks'[r] = hooks[r]
        BY <1>6 DEF OnStart, TypeOK
      <3> QED  BY <1>4, <3>1
    <2> QED  BY <2>1, <2>2 DEF FedInv
  <1>7. ASSUME NEW q \in Requests, OnChunk(q) PROVE FedInv'
    <2>1. On(q, "Chunk") /\ UNCHANGED <<pending, hooks, terminalErr, terminalClose, stream>>
      BY <1>7 DEF OnChunk
    <2>2. Fed(q)'
      BY <1>0, <2>1, FrameHeard DEF Fed, Unfinished
    <2> QED  BY <1>4, <2>1, <2>2 DEF FedInv
  <1>8. ASSUME NEW q \in Requests, OnEnd(q) PROVE FedInv'
    <2>1. /\ On(q, "End") /\ pending' = pending \ {q}
          /\ terminalClose' = IF hooks[q] = "own" THEN terminalClose \cup {q} ELSE terminalClose
          /\ UNCHANGED <<hooks, terminalErr, stream>>
      BY <1>8 DEF OnEnd, Forget
    <2>2. Fed(q)'
      BY <1>0, <2>1, FrameHeard DEF Fed, Unfinished
    <2> QED  BY <1>4, <2>1, <2>2 DEF FedInv
  <1>9. ASSUME NEW q \in Requests, OnError(q) PROVE FedInv'
    <2>1. On(q, "Error") /\ pending' = pending \ {q} /\ UNCHANGED <<hooks, terminalClose, stream>>
      BY <1>9 DEF OnError, Forget
    <2>2. /\ Decodes(q) /\ hooks[q] = "own" => terminalErr'[q] # None
          /\ \A r \in Requests \ {q} : terminalErr'[r] = terminalErr[r]
      BY <1>9 DEF OnError, Fail, None
    <2>3. ~Decodes(q) => terminalErr' = terminalErr
      BY <1>9 DEF OnError
    <2>4. Fed(q)'
      BY <1>0, <2>1, <2>2, <2>3, FrameHeard DEF Fed, Unfinished
    <2> QED  BY <1>4, <2>1, <2>2, <2>4 DEF FedInv
  <1>10. ASSUME NEW q \in Requests, OnOther(q) PROVE FedInv'
    <2>1. On(q, "Other") /\ UNCHANGED <<pending, hooks, terminalErr, terminalClose, stream>>
      BY <1>10 DEF OnOther
    <2>2. Fed(q)'
      BY <1>0, <2>1, FrameHeard DEF Fed, Unfinished
    <2> QED  BY <1>4, <2>1, <2>2 DEF FedInv
  <1>11. ASSUME NEW q \in Requests, TimerFires(q) PROVE FedInv'
    <2>1. pending' = pending \ {q} /\ UNCHANGED <<hooks, terminalClose, stream, wireVars>>
      BY <1>11 DEF TimerFires, Forget
    <2>2. /\ hooks[q] = "own" => terminalErr'[q] # None
          /\ \A r \in Requests \ {q} : terminalErr'[r] = terminalErr[r]
      BY <1>11 DEF TimerFires, Fail, None, ReadTimeoutError
    <2> QED  BY <1>0, <2>1, <2>2, FedKept DEF FedInv, Unfinished
  <1>12. ASSUME NEW q \in Requests, Pull(q) PROVE FedInv'
    <2>1. /\ \A r \in Requests : stream'[r] = "readable" => stream[r] = "readable"
          /\ UNCHANGED <<entryVars, terminalErr, terminalClose, wireVars>>
      BY <1>12, PullFacts
    <2> QED  BY <1>0, <2>1, FedKept DEF FedInv, Unfinished
  <1>13. ASSUME NEW q \in Requests, Read(q) PROVE FedInv'
    BY <1>0, <1>13, FedKept DEF Read, FedInv, Unfinished
  <1>14. ASSUME NEW q \in Requests, Cancel(q) PROVE FedInv'
    <2>1. /\ stream'[q] # "readable" /\ pending' = pending \ {q}
          /\ \A r \in Requests \ {q} : stream'[r] = stream[r] /\ hooks'[r] = hooks[r]
          /\ UNCHANGED <<terminalErr, terminalClose, wireVars>>
      BY <1>14 DEF Cancel, Forget, TypeOK
    <2> QED  BY <1>0, <2>1, FedKept DEF FedInv, Unfinished
  <1>15. ASSUME NEW e \in CloseArgs, Close(e) PROVE FedInv'
    <2>1. closedErr' # None
      BY <1>15, TsCallerAssumption DEF Close, None, TransportClosed
    <2>2. /\ pending' = {} /\ UNCHANGED <<hooks, terminalClose, stream, wireVars>>
          /\ \A r \in Requests :
                terminalErr'[r] = IF r \in pending /\ hooks[r] = "own" THEN closedErr' ELSE terminalErr[r]
      BY <1>15 DEF Close, Fail
    <2> QED  BY <1>0, <2>1, <2>2, FedKept DEF FedInv, Unfinished
  <1>16. CASE UNCHANGED vars
    BY <1>0, <1>16, FedKept DEF vars, FedInv, Unfinished
  <1> QED
    BY <1>1, <1>2, <1>3, <1>5, <1>6, <1>7, <1>8, <1>9, <1>10,
       <1>11, <1>12, <1>13, <1>14, <1>15, <1>16 DEF Next, Message

\* OrphanedOnlyByPeer is an invariant: timers, close() and cancel() never leave a
\* body that nothing feeds and nothing ends, whatever they race with.
THEOREM OnlyPeersOrphan == SafeSpec => []OrphanedOnlyByPeer
  <1>1. Init => StreamInv /\ FedInv
    BY DEF Init, StreamInv, FedInv, Fed, None
  <1>2. TypeOK /\ StreamInv /\ FedInv /\ [Next]_vars => (StreamInv /\ FedInv)'
    BY StreamStep, FedStep
  <1>3. FedInv => OrphanedOnlyByPeer
    BY DEF FedInv, Fed, Unfinished, Broken, Orphaned, OrphanedOnlyByPeer
  <1> QED  BY <1>1, <1>2, <1>3, TypeCorrect, PTL DEF SafeSpec

-------------------------------------------------------------------------------
\* The chunks of a body.

\* How many chunks of r are with the reader, in the ReadableStream, in the
\* buffer, and how many the caller has taken in all.
Given(r) == Len(got[r])
Inside(r) == Len(inner[r])
Buffered(r) == Len(buffer[r])
Total(r) == Given(r) + Inside(r) + Buffered(r)

\* They are the frames from the second on, in order: those the reader has been
\* given, the one inside the ReadableStream, those in the buffer.  While the
\* body is not cancelled the entry has heard no others, except for an End or
\* Error after the last.
Chained(r) ==
    /\ script[r][1].kind = "Start"
    /\ \A i \in 2..(Total(r) + 1) : script[r][i].kind = "Chunk"
    /\ Total(r) + 1 <= heard[r]
    /\ \A i \in 1..Len(got[r]) : got[r][i] = i + 1
    /\ \A i \in 1..Len(inner[r]) : inner[r][i] = Len(got[r]) + i + 1
    /\ \A i \in 1..Len(buffer[r]) : buffer[r][i] = Len(got[r]) + Len(inner[r]) + i + 1
    /\ stream[r] # "cancelled" =>
          \/ heard[r] = Total(r) + 1
          \/ heard[r] = Total(r) + 2 /\ script[r][heard[r]].kind \in {"End", "Error"}
    /\ stream[r] \in {"closed", "errored"} => inner[r] = <<>> /\ buffer[r] = <<>>

Chain(r) ==
    /\ heard[r] <= arrived[r] /\ arrived[r] <= Len(script[r])
    /\ r \in pending => heard[r] = arrived[r]
    /\ stream[r] = "none" => got[r] = <<>>
    /\ Conforming(script[r]) /\ stream[r] # "none" => Chained(r)

ChainInv == \A r \in Requests : Chain(r)

\* The invariants that a step of the chain starts from.
Ready == TypeOK /\ PullInv /\ EntryInv /\ StreamInv /\ ServedInv /\ ChainInv

\* A body whose entry hears nothing stays as it is.
LEMMA ChainKept ==
    ASSUME NEW r \in Requests, Chain(r), script'[r] = script[r], heard'[r] = heard[r],
           got'[r] = got[r], inner'[r] = inner[r], buffer'[r] = buffer[r], stream'[r] = stream[r],
           heard[r] <= arrived'[r], arrived'[r] <= Len(script[r]),
           r \in pending' => r \in pending /\ arrived'[r] = arrived[r]
    PROVE  Chain(r)'
  <1>1. Total(r)' = Total(r)
    BY DEF Total, Given, Inside, Buffered
  <1>2. Conforming(script[r])' <=> Conforming(script[r])
    BY DEF Conforming
  <1>3. ASSUME Chained(r) PROVE Chained(r)'
    BY <1>1, <1>3 DEF Chained
  <1> QED  BY <1>2, <1>3 DEF Chain

\* The lengths and numbers that a body consists of.
LEMMA ChainType ==
    ASSUME TypeOK, NEW r \in Requests
    PROVE  /\ got[r] \in Seq(Nat) /\ inner[r] \in Seq(Nat) /\ buffer[r] \in Seq(Nat)
           /\ Len(got[r]) \in Nat /\ Len(inner[r]) \in Nat /\ Len(buffer[r]) \in Nat
           /\ Total(r) \in Nat /\ heard[r] \in Nat /\ arrived[r] \in Nat
           /\ script[r] \in Seq(Reply) /\ Len(script[r]) \in Nat
  <1>1. Given(r) \in Nat /\ Inside(r) \in Nat /\ Buffered(r) \in Nat
    BY DEF TypeOK, Given, Inside, Buffered
  <1>2. Total(r) \in Nat
    BY <1>1 DEF Total
  <1> QED  BY <1>2 DEF TypeOK

\* The parts of the total are numbers.
LEMMA Parts ==
    ASSUME TypeOK, NEW r \in Requests
    PROVE  Given(r) \in Nat /\ Inside(r) \in Nat /\ Buffered(r) \in Nat
  BY ChainType DEF Given, Inside, Buffered

\* What a frame that finds the entry of r does to its numbers.
LEMMA FrameNumbers ==
    ASSUME Ready, NEW r \in Requests, NEW k, On(r, k)
    PROVE  /\ script' = script /\ heard'[r] = heard[r] + 1 /\ arrived'[r] = heard[r] + 1
           /\ heard[r] + 1 <= Len(script[r]) /\ heard[r] = arrived[r]
           /\ script[r][heard[r] + 1].kind = k
           /\ \A q \in Requests \ {r} : heard'[q] = heard[q] /\ arrived'[q] = arrived[q]
  <1>1. Chain(r) /\ r \in pending
    BY DEF Ready, ChainInv, On
  <1>2. heard[r] = arrived[r] /\ arrived[r] < Len(script[r])
    BY <1>1 DEF Chain, On, Receive
  <1>3. arrived[r] \in Nat /\ Len(script[r]) \in Nat
    BY ChainType DEF Ready
  <1> QED  BY <1>2, <1>3 DEF On, Receive, Ready, TypeOK

\* A frame that finds the entry of a stream continues its chunks.
LEMMA StreamHears ==
    ASSUME Ready, NEW r \in Requests, NEW k, On(r, k), Conforming(script[r]), stream[r] # "none"
    PROVE  /\ Chained(r) /\ heard[r] = Total(r) + 1 /\ stream[r] = "readable"
           /\ hooks[r] = "own" /\ Decodes(r) /\ k \in {"Chunk", "End", "Error"}
  <1>1. promise[r] = "stream"
    BY DEF Ready, StreamInv
  <1>2. /\ Decodes(r) /\ hooks[r] = "own" /\ stream[r] = "readable"
        /\ k \in {"Chunk", "End", "Error"}
    BY <1>1, Heard DEF Ready
  <1>3. Chained(r)
    BY DEF Ready, ChainInv, Chain
  <1>4. script[r][heard[r]].kind \notin Terminal
    <2>1. heard[r] + 1 \in 2..Len(script[r]) /\ (heard[r] + 1) - 1 = heard[r]
      <3>1. Total(r) + 1 <= heard[r] /\ Total(r) \in Nat /\ heard[r] \in Nat
        BY <1>3, ChainType DEF Chained, Ready
      <3>2. heard[r] + 1 <= Len(script[r]) /\ Len(script[r]) \in Nat
        BY FrameNumbers, ChainType DEF Ready
      <3> QED  BY <3>1, <3>2
    <2> QED  BY <2>1 DEF Conforming
  <1>5. heard[r] = Total(r) + 1
    BY <1>2, <1>3, <1>4 DEF Chained, Terminal
  <1> QED  BY <1>2, <1>3, <1>5

\* A frame that leaves the chunks alone: on a stream, only End and Error do.
LEMMA OtherFrame ==
    ASSUME Ready, NEW r \in Requests, NEW k, On(r, k), k # "Chunk",
           got'[r] = got[r], inner'[r] = inner[r], buffer'[r] = buffer[r], stream'[r] = stream[r]
    PROVE  Chain(r)'
  <1>1. Chain(r) /\ heard[r] \in Nat /\ Total(r) \in Nat
    BY ChainType DEF Ready, ChainInv
  <1>2. /\ heard'[r] <= arrived'[r] /\ arrived'[r] <= Len(script'[r])
        /\ heard'[r] = arrived'[r]
        /\ stream'[r] = "none" => got'[r] = <<>>
    BY <1>1, FrameNumbers DEF Chain
  <1>3. ASSUME Conforming(script[r]), stream[r] # "none" PROVE Chained(r)'
    <2>1. /\ Chained(r) /\ heard[r] = Total(r) + 1 /\ stream[r] = "readable"
          /\ k \in {"End", "Error"}
      BY <1>3, StreamHears
    <2>4. Total(r)' = Total(r)
      BY DEF Total, Given, Inside, Buffered
    <2>2. /\ heard'[r] = Total(r) + 2 /\ script' = script
          /\ script[r][heard'[r]].kind = k /\ Total(r)' = Total(r)
      BY <1>1, <2>1, <2>4, FrameNumbers
    <2>3. Total(r)' + 1 <= heard'[r]
      BY <1>1, <2>2
    <2> QED  BY <2>1, <2>2, <2>3 DEF Chained
  <1>4. Conforming(script[r])' => Conforming(script[r])
    BY FrameNumbers DEF Conforming
  <1> QED  BY <1>2, <1>3, <1>4 DEF Chain

\* A Start begins the body.
LEMMA StartChains ==
    ASSUME Ready, NEW r \in Requests, OnStart(r)
    PROVE  Chain(r)'
  <1> USE DEF entryVars, bufferVars, streamVars, wireVars
  <1>1. On(r, "Start") /\ buffer' = buffer /\ inner' = inner /\ got' = got
    BY DEF OnStart
  <1>2. CASE stream'[r] = stream[r]
    BY <1>1, <1>2, OtherFrame
  <1>3. CASE stream'[r] # stream[r]
    <2>1. promise[r] = "pending" /\ stream'[r] = "readable"
      BY <1>3 DEF OnStart, Ready, TypeOK
    <2>2. /\ stream[r] = "none" /\ inner[r] = <<>> /\ buffer[r] = <<>>
          /\ got[r] = <<>>
      BY <2>1 DEF Ready, StreamInv, ChainInv, Chain
    <2>3. Total(r)' = 0 /\ Len(got'[r]) = 0 /\ Len(inner'[r]) = 0 /\ Len(buffer'[r]) = 0
      <3>1. Given(r)' = 0 /\ Inside(r)' = 0 /\ Buffered(r)' = 0
        BY <1>1, <2>2, EmptySeq DEF Given, Inside, Buffered
      <3>2. Total(r)' = 0
        BY <3>1 DEF Total
      <3> QED  BY <3>1, <3>2 DEF Given, Inside, Buffered
    <2>4. /\ script' = script /\ heard'[r] = heard[r] + 1 /\ arrived'[r] = heard[r] + 1
          /\ heard[r] + 1 <= Len(script[r]) /\ heard[r] = arrived[r] /\ heard[r] \in Nat
          /\ script[r][heard[r] + 1].kind = "Start"
      BY <1>1, FrameNumbers, ChainType DEF Ready
    <2>5. ASSUME Conforming(script[r]) PROVE Chained(r)'
      <3>1. arrived[r] = 0
        BY <2>1, <2>5 DEF Ready, ServedInv, Served
      <3>2. heard'[r] = 1 /\ script'[r][1].kind = "Start"
        BY <2>4, <3>1
      <3>3. \A i \in 2..(Total(r)' + 1) : FALSE
        BY <2>3
      <3> QED  BY <2>1, <2>3, <3>2, <3>3 DEF Chained
    <2>6. heard'[r] <= arrived'[r] /\ arrived'[r] <= Len(script'[r]) /\ heard'[r] = arrived'[r]
      BY <2>4
    <2>7. Conforming(script[r])' => Conforming(script[r])
      BY <2>4 DEF Conforming
    <2> QED  BY <2>1, <2>5, <2>6, <2>7 DEF Chain
  <1> QED  BY <1>2, <1>3

\* A chunk is appended to the buffer, behind all others.
LEMMA ChunkChains ==
    ASSUME Ready, NEW r \in Requests, OnChunk(r)
    PROVE  Chain(r)'
  <1> USE DEF entryVars, bufferVars, streamVars, wireVars
  <1>1. On(r, "Chunk") /\ inner' = inner /\ got' = got /\ stream' = stream
    BY DEF OnChunk
  <1>2. /\ script' = script /\ heard'[r] = heard[r] + 1 /\ arrived'[r] = heard[r] + 1
        /\ heard[r] + 1 <= Len(script[r]) /\ script[r][heard[r] + 1].kind = "Chunk"
    BY <1>1, FrameNumbers
  <1>3. /\ Chain(r) /\ heard[r] \in Nat /\ Total(r) \in Nat /\ buffer[r] \in Seq(Nat)
        /\ Len(got[r]) \in Nat /\ Len(inner[r]) \in Nat /\ Len(buffer[r]) \in Nat
    BY ChainType DEF Ready, ChainInv
  <1>4. ASSUME Conforming(script[r]), stream[r] # "none" PROVE Chained(r)'
    <2>1. /\ Chained(r) /\ heard[r] = Total(r) + 1 /\ stream[r] = "readable"
          /\ hooks[r] = "own" /\ Decodes(r)
      BY <1>1, <1>4, StreamHears
    <2>2. buffer'[r] = Append(buffer[r], heard'[r])
      BY <2>1 DEF OnChunk, Ready, TypeOK
    <2>3. /\ Len(buffer'[r]) = Len(buffer[r]) + 1
          /\ \A i \in 1..Len(buffer[r]) : buffer'[r][i] = buffer[r][i]
          /\ buffer'[r][Len(buffer[r]) + 1] = heard'[r]
      BY <1>2, <1>3, <2>2
    <2>4. /\ Total(r)' = Total(r) + 1 /\ heard'[r] = Total(r)' + 1
          /\ heard'[r] = Len(got[r]) + Len(inner[r]) + (Len(buffer[r]) + 1) + 1
          /\ Total(r)' + 1 <= heard'[r]
      <3>1. Given(r) \in Nat /\ Inside(r) \in Nat /\ Buffered(r) \in Nat
        BY Parts DEF Ready
      <3>2. Given(r)' = Given(r) /\ Inside(r)' = Inside(r) /\ Buffered(r)' = Buffered(r) + 1
        BY <1>1, <2>3 DEF Given, Inside, Buffered
      <3>3. Total(r)' = Total(r) + 1
        BY <3>1, <3>2 DEF Total
      <3>4. heard'[r] = Given(r) + Inside(r) + (Buffered(r) + 1) + 1
        BY <1>2, <2>1, <3>1 DEF Total
      <3>5. heard'[r] = Total(r)' + 1 /\ Total(r)' + 1 <= heard'[r]
        BY <1>2, <1>3, <2>1, <3>3
      <3> QED  BY <3>3, <3>4, <3>5 DEF Given, Inside, Buffered
    <2>5. \A i \in 2..(Total(r)' + 1) : script'[r][i].kind = "Chunk"
      <3>1. \A i \in 2..(Total(r)' + 1) : i \in 2..(Total(r) + 1) \/ i = heard[r] + 1
        BY <1>3, <2>1, <2>4
      <3> QED  BY <1>2, <2>1, <3>1 DEF Chained
    <2>6. \A i \in 1..Len(buffer'[r]) : buffer'[r][i] = Len(got[r]) + Len(inner[r]) + i + 1
      <3>1. \A i \in 1..Len(buffer'[r]) : i \in 1..Len(buffer[r]) \/ i = Len(buffer[r]) + 1
        BY <1>3, <2>3
      <3> QED  BY <2>1, <2>3, <2>4, <3>1 DEF Chained
    <2> QED  BY <1>1, <1>2, <2>1, <2>4, <2>5, <2>6 DEF Chained
  <1>5. heard'[r] <= arrived'[r] /\ arrived'[r] <= Len(script'[r]) /\ heard'[r] = arrived'[r]
    BY <1>2, <1>3
  <1>6. stream'[r] = "none" => got'[r] = <<>>
    BY <1>1, <1>3 DEF Chain
  <1>7. Conforming(script[r])' => Conforming(script[r])
    BY <1>2 DEF Conforming
  <1> QED  BY <1>1, <1>4, <1>5, <1>6, <1>7 DEF Chain

\* pull() takes the first chunk of the buffer, or ends the body when there is none.
LEMMA PullChains ==
    ASSUME Ready, NEW r \in Requests, Pull(r)
    PROVE  Chain(r)'
  <1> USE DEF entryVars, bufferVars, streamVars, wireVars
  <1>1. /\ stream[r] = "readable" /\ inner[r] = <<>>
        /\ UNCHANGED <<pending, got, wireVars>>
    BY DEF Pull, PullStarts, PullWakes, Ready, PullInv
  <1>2. /\ Chain(r) /\ buffer[r] \in Seq(Nat) /\ Len(inner[r]) = 0
        /\ Len(got[r]) \in Nat /\ Len(buffer[r]) \in Nat
        /\ Len(got'[r]) = Len(got[r])
    BY <1>1, ChainType, EmptySeq DEF Ready, ChainInv
  <1>3. CASE inner'[r] = inner[r] /\ buffer'[r] = buffer[r] /\ stream'[r] = stream[r]
    BY <1>1, <1>2, <1>3, ChainKept DEF Chain
  <1>4. CASE PullFinishes(r) /\ buffer[r] # <<>>
    <2>1. /\ inner'[r] = Append(<<>>, Head(buffer[r])) /\ buffer'[r] = Tail(buffer[r])
          /\ stream'[r] = stream[r]
      BY <1>1, <1>4 DEF PullFinishes, Ready, TypeOK
    <2>2. /\ Len(inner'[r]) = 1 /\ inner'[r][1] = buffer[r][1]
          /\ Len(buffer'[r]) = Len(buffer[r]) - 1 /\ Len(buffer[r]) > 0
          /\ \A i \in 1..Len(buffer'[r]) : buffer'[r][i] = buffer[r][i + 1]
      BY <1>2, <1>4, <2>1
    <2>3. Total(r)' = Total(r)
      <3>1. Given(r) \in Nat /\ Inside(r) \in Nat /\ Buffered(r) \in Nat
        BY Parts DEF Ready
      <3>2. /\ Given(r)' = Given(r) /\ Inside(r) = 0 /\ Inside(r)' = 1
            /\ Buffered(r)' = Buffered(r) - 1
        BY <1>2, <2>2 DEF Given, Inside, Buffered
      <3> QED  BY <3>1, <3>2 DEF Total
    <2>4. ASSUME Conforming(script[r]) PROVE Chained(r)'
      <3>1. Chained(r)
        BY <1>1, <1>2, <2>4 DEF Chain
      <3>2. \A i \in 1..Len(inner'[r]) : inner'[r][i] = Len(got'[r]) + i + 1
        <4>1. buffer[r][1] = Len(got[r]) + 0 + 1 + 1
          BY <1>2, <2>2, <3>1 DEF Chained
        <4> QED  BY <1>1, <1>2, <2>2, <4>1
      <3>3. ASSUME NEW i \in 1..Len(buffer'[r])
            PROVE  buffer'[r][i] = Len(got'[r]) + Len(inner'[r]) + i + 1
        <4>1. i + 1 \in 1..Len(buffer[r])
          BY <1>2, <2>2
        <4>2. buffer[r][i + 1] = Len(got[r]) + 0 + (i + 1) + 1
          <5>1. \A j \in 1..Len(buffer[r]) : buffer[r][j] = Len(got[r]) + Len(inner[r]) + j + 1
            BY <3>1 DEF Chained
          <5> QED  BY <1>2, <4>1, <5>1
        <4>3. buffer'[r][i] = Len(got[r]) + 0 + (i + 1) + 1
          BY <2>2, <4>2
        <4>4. Len(got'[r]) + Len(inner'[r]) + i + 1 = Len(got[r]) + 1 + i + 1
          BY <1>2, <2>2
        <4>5. Len(got[r]) + 0 + (i + 1) + 1 = Len(got[r]) + 1 + i + 1
          <5>1. Given(r) \in Nat /\ i \in Int
            BY <4>1, Parts DEF Ready
          <5>2. Given(r) + 0 + (i + 1) + 1 = Given(r) + 1 + i + 1
            BY <5>1
          <5> QED  BY <5>2 DEF Given
        <4> QED  BY <4>3, <4>4, <4>5
      <3> QED  BY <1>1, <2>1, <2>3, <3>1, <3>2, <3>3 DEF Chained
    <2>5. Conforming(script[r])' => Conforming(script[r])
      BY <1>1 DEF Conforming
    <2> QED  BY <1>1, <1>2, <2>1, <2>4, <2>5 DEF Chain
  <1>5. CASE PullFinishes(r) /\ buffer[r] = <<>>
    <2>1. inner' = inner /\ buffer' = buffer /\ stream'[r] \in {"closed", "errored"}
      BY <1>5 DEF PullFinishes, Ready, TypeOK
    <2>2. Total(r)' = Total(r)
      BY <1>1, <2>1 DEF Total, Given, Inside, Buffered
    <2>3. Conforming(script[r])' => Conforming(script[r])
      BY <1>1 DEF Conforming
    <2>4. ASSUME Conforming(script[r]) PROVE Chained(r)'
      <3>1. Chained(r)
        BY <1>1, <1>2, <2>4 DEF Chain
      <3> QED  BY <1>1, <1>5, <2>1, <2>2, <3>1 DEF Chained
    <2> QED  BY <1>1, <1>2, <2>1, <2>3, <2>4 DEF Chain
  <1> QED  BY <1>3, <1>4, <1>5 DEF Pull, PullStarts, PullWakes

\* A read takes the chunk inside the ReadableStream.
LEMMA ReadChains ==
    ASSUME Ready, NEW r \in Requests, Read(r)
    PROVE  Chain(r)'
  <1> USE DEF entryVars, bufferVars, streamVars, wireVars
  <1>1. /\ stream[r] = "readable" /\ inner[r] # <<>> /\ buffer' = buffer /\ stream' = stream
        /\ got'[r] = Append(got[r], Head(inner[r])) /\ inner'[r] = Tail(inner[r])
        /\ UNCHANGED <<pending, wireVars>>
    BY DEF Read, Ready, TypeOK
  <1>2. /\ Chain(r) /\ inner[r] \in Seq(Nat) /\ got[r] \in Seq(Nat) /\ Len(inner[r]) <= 1
        /\ Len(got[r]) \in Nat /\ Len(buffer[r]) \in Nat
    BY ChainType DEF Ready, ChainInv, TypeOK
  <1>3. Len(inner[r]) = 1 /\ Head(inner[r]) = inner[r][1]
    <2>1. Inside(r) \in Nat /\ Inside(r) # 0 /\ Inside(r) <= 1
      BY <1>1, <1>2, EmptySeq, Parts DEF Inside, Ready
    <2>2. Inside(r) = 1
      BY <2>1
    <2>3. Head(inner[r]) = inner[r][1]
      BY <1>1, <1>2
    <2> QED  BY <2>2, <2>3 DEF Inside
  <1>4. /\ Len(got'[r]) = Len(got[r]) + 1 /\ Len(inner'[r]) = 0
        /\ \A i \in 1..Len(got[r]) : got'[r][i] = got[r][i]
        /\ got'[r][Len(got[r]) + 1] = inner[r][1]
    BY <1>1, <1>2, <1>3
  <1>5. Total(r)' = Total(r) /\ Len(buffer'[r]) = Len(buffer[r])
    <2>1. Given(r) \in Nat /\ Inside(r) \in Nat /\ Buffered(r) \in Nat
      BY Parts DEF Ready
    <2>2. /\ Given(r)' = Given(r) + 1 /\ Inside(r) = 1 /\ Inside(r)' = 0
          /\ Buffered(r)' = Buffered(r)
      BY <1>1, <1>3, <1>4 DEF Given, Inside, Buffered
    <2>3. Total(r)' = Total(r)
      BY <2>1, <2>2 DEF Total
    <2> QED  BY <1>1, <2>3
  <1>6. ASSUME Conforming(script[r]) PROVE Chained(r)'
    <2>1. Chained(r)
      BY <1>1, <1>2, <1>6 DEF Chain
    <2>2. \A i \in 1..Len(got'[r]) : got'[r][i] = i + 1
      <3>1. inner[r][1] = Len(got[r]) + 1 + 1
        BY <1>3, <2>1 DEF Chained
      <3>2. \A i \in 1..Len(got'[r]) : i \in 1..Len(got[r]) \/ i = Len(got[r]) + 1
        BY <1>2, <1>4
      <3> QED  BY <1>4, <2>1, <3>1, <3>2 DEF Chained
    <2>3. ASSUME NEW i \in 1..Len(buffer'[r])
          PROVE  buffer'[r][i] = Len(got'[r]) + Len(inner'[r]) + i + 1
      <3>1. buffer[r][i] = Len(got[r]) + 1 + i + 1
        BY <1>3, <1>5, <2>1 DEF Chained
      <3>2. (Len(got[r]) + 1) + 0 + i + 1 = Len(got[r]) + 1 + i + 1
        BY <1>2
      <3> QED  BY <1>1, <1>4, <3>1, <3>2
    <2>4. \A i \in 1..Len(inner'[r]) : FALSE
      BY <1>4
    <2> QED  BY <1>1, <1>5, <2>1, <2>2, <2>3, <2>4 DEF Chained
  <1>7. Conforming(script[r])' => Conforming(script[r])
    BY <1>1 DEF Conforming
  <1> QED  BY <1>1, <1>2, <1>6, <1>7 DEF Chain

\* cancel() drops what the reader has not been given.
LEMMA CancelChains ==
    ASSUME Ready, NEW r \in Requests, Cancel(r)
    PROVE  Chain(r)'
  <1> USE DEF entryVars, bufferVars, streamVars, wireVars
  <1>1. /\ stream[r] = "readable" /\ stream'[r] = "cancelled" /\ inner'[r] = <<>>
        /\ buffer'[r] = <<>> /\ r \notin pending' /\ UNCHANGED <<got, wireVars>>
    BY DEF Cancel, Forget, Ready, TypeOK
  <1>2. /\ Chain(r) /\ Len(got[r]) \in Nat /\ Len(inner[r]) \in Nat /\ Len(buffer[r]) \in Nat
        /\ heard[r] \in Nat
    BY ChainType DEF Ready, ChainInv
  <1>3. Len(inner'[r]) = 0 /\ Len(buffer'[r]) = 0
    BY <1>1, EmptySeq
  <1>4. Total(r)' <= Total(r) /\ Total(r)' \in Nat /\ Total(r) \in Nat
    <2>1. Given(r) \in Nat /\ Inside(r) \in Nat /\ Buffered(r) \in Nat
      BY Parts DEF Ready
    <2>2. Given(r)' = Given(r) /\ Inside(r)' = 0 /\ Buffered(r)' = 0
      BY <1>1, <1>3 DEF Given, Inside, Buffered
    <2> QED  BY <2>1, <2>2 DEF Total
  <1>5. ASSUME Conforming(script[r]) PROVE Chained(r)'
    <2>1. Chained(r)
      BY <1>1, <1>2, <1>5 DEF Chain
    <2>2. Total(r)' + 1 <= heard'[r] /\ \A i \in 2..(Total(r)' + 1) : i \in 2..(Total(r) + 1)
      BY <1>1, <1>2, <1>4, <2>1 DEF Chained
    <2> QED  BY <1>1, <1>3, <2>1, <2>2 DEF Chained
  <1>6. Conforming(script[r])' => Conforming(script[r])
    BY <1>1 DEF Conforming
  <1> QED  BY <1>1, <1>2, <1>5, <1>6 DEF Chain

\* Every step keeps every chain.
LEMMA ChainStep ==
    ASSUME Ready, [Next]_vars, NEW r \in Requests
    PROVE  Chain(r)'
  <1> USE DEF entryVars, bufferVars, streamVars, wireVars
  <1>0. Chain(r) /\ TypeOK /\ heard[r] \in Nat /\ arrived[r] \in Nat /\ Len(script[r]) \in Nat
    BY ChainType DEF Ready, ChainInv
  <1>1. CASE Request(r)
    <2>1. /\ promise[r] = "none" /\ arrived[r] = 0 /\ stream[r] = "none" /\ got[r] = <<>>
      BY <1>1, <1>0 DEF Request, Ready, ServedInv, Served, StreamInv, Chain
    <2>2. heard[r] = 0
      BY <1>0, <2>1 DEF Chain
    <2>3. Len(script'[r]) \in Nat
      <3>1. PICK s \in Replies : script' = [script EXCEPT ![r] = s]
        BY <1>1 DEF Request
      <3> QED  BY <1>0, <3>1, TsCallerAssumption DEF TypeOK
    <2>4. UNCHANGED <<stream, got, arrived, heard>>
      BY <1>1 DEF Request
    <2> QED  BY <2>1, <2>2, <2>3, <2>4 DEF Chain
  <1>2. ASSUME NEW q \in Requests, q # r,
               \/ Request(q) \/ Message(q) \/ TimerFires(q) \/ Pull(q) \/ Read(q) \/ Cancel(q)
        PROVE  Chain(r)'
    <2>1. /\ script'[r] = script[r] /\ heard'[r] = heard[r] /\ arrived'[r] = arrived[r]
          /\ got'[r] = got[r]
          /\ r \in pending' => r \in pending
      BY <1>0, <1>2
      DEF Request, Message, OnNobody, OnResponse, OnStart, OnChunk, OnEnd, OnError, OnOther, On,
          Receive, Forget, TimerFires, Pull, PullStarts, PullWakes, Read, Cancel, TypeOK
    <2>2. inner'[r] = inner[r] /\ buffer'[r] = buffer[r] /\ stream'[r] = stream[r]
      <3>1. CASE Request(q) \/ TimerFires(q) \/ Read(q) \/ Cancel(q)
        BY <1>0, <1>2, <3>1 DEF Request, TimerFires, Read, Cancel, TypeOK
      <3>2. CASE Message(q)
        <4>1. CASE OnStart(q)
          BY <1>0, <1>2, <4>1 DEF OnStart, TypeOK
        <4>2. CASE OnChunk(q)
          BY <1>0, <1>2, <4>2 DEF OnChunk, TypeOK
        <4>3. CASE OnNobody(q) \/ OnResponse(q) \/ OnEnd(q) \/ OnError(q) \/ OnOther(q)
          BY <4>3 DEF OnNobody, OnResponse, OnEnd, OnError, OnOther
        <4> QED  BY <3>2, <4>1, <4>2, <4>3 DEF Message
      <3>3. CASE Pull(q)
        <4>1. CASE UNCHANGED <<inner, buffer, stream>>
          BY <4>1
        <4>2. CASE PullFinishes(q)
          BY <1>0, <1>2, <4>2 DEF PullFinishes, TypeOK
        <4> QED  BY <3>3, <4>1, <4>2 DEF Pull, PullStarts, PullWakes
      <3> QED  BY <1>2, <3>1, <3>2, <3>3
    <2>3. /\ heard[r] <= arrived'[r] /\ arrived'[r] <= Len(script[r])
          /\ r \in pending' => r \in pending /\ arrived'[r] = arrived[r]
      BY <1>0, <2>1 DEF Chain
    <2> QED  BY <1>0, <2>1, <2>2, <2>3, ChainKept
  <1>3. CASE OnNobody(r)
    <2>1. /\ arrived'[r] = arrived[r] + 1 /\ arrived[r] < Len(script[r]) /\ r \notin pending'
          /\ UNCHANGED <<script, heard, got, inner, buffer, stream>>
      BY <1>0, <1>3 DEF OnNobody, Receive, TypeOK
    <2>2. heard[r] <= arrived'[r] /\ arrived'[r] <= Len(script[r])
      BY <1>0, <2>1 DEF Chain
    <2> QED  BY <1>0, <2>1, <2>2, ChainKept
  <1>4. CASE OnResponse(r) \/ OnEnd(r) \/ OnError(r) \/ OnOther(r)
    <2>1. \E k \in {"Response", "End", "Error", "Other"} : On(r, k)
      BY <1>4 DEF OnResponse, OnEnd, OnError, OnOther
    <2>2. UNCHANGED <<got, inner, buffer, stream>>
      BY <1>4 DEF OnResponse, OnEnd, OnError, OnOther
    <2> QED  BY <2>1, <2>2, OtherFrame
  <1>5. CASE TimerFires(r) \/ RequestRejected(r)
    <2>1. /\ UNCHANGED <<script, heard, arrived, got, inner, buffer, stream>>
          /\ r \in pending' => r \in pending
      BY <1>5 DEF TimerFires, Forget, RequestRejected
    <2> QED  BY <1>0, <2>1, ChainKept DEF Chain
  <1>6. ASSUME NEW q \in Requests, RequestRejected(q) PROVE Chain(r)'
    BY <1>0, <1>6, ChainKept DEF RequestRejected, Chain
  <1>7. ASSUME NEW e \in CloseArgs, Close(e) PROVE Chain(r)'
    BY <1>0, <1>7, ChainKept DEF Close, Chain
  <1>8. CASE UNCHANGED vars
    BY <1>0, <1>8, ChainKept DEF vars, Chain
  <1> QED
    BY <1>1, <1>2, <1>3, <1>4, <1>5, <1>6, <1>7, <1>8,
       StartChains, ChunkChains, PullChains, ReadChains, CancelChains DEF Next, Message

\* DrainsBeforeItEnds is an invariant: of a conforming peer, the reader is given
\* the chunks in order, and all that the caller has received before its body
\* ends in whatever way.
THEOREM BodiesDrain == SafeSpec => []DrainsBeforeItEnds
  <1>1. Init => ChainInv
    <2> SUFFICES ASSUME Init, NEW r \in Requests PROVE Chain(r)
      BY DEF ChainInv
    <2>1. /\ heard[r] = 0 /\ arrived[r] = 0 /\ script[r] = <<>> /\ pending = {}
          /\ stream[r] = "none" /\ got[r] = <<>>
      BY DEF Init
    <2> QED  BY <2>1, EmptySeq DEF Chain
  <1>2. ASSUME TypeOK, ChainInv PROVE DrainsBeforeItEnds
    <2> SUFFICES ASSUME NEW r \in Requests, Conforming(script[r])
                 PROVE  /\ \A i \in 1..Len(got[r]) :
                              /\ got[r][i] \in Chunks(r, heard[r])
                              /\ i > 1 => got[r][i] = got[r][i - 1] + 1
                              /\ i = 1 => got[r][i] = 2
                        /\ stream[r] \in {"closed", "errored"} =>
                              Chunks(r, heard[r]) = {got[r][i] : i \in 1..Len(got[r])}
      BY DEF DrainsBeforeItEnds
    <2>1. /\ Chain(r) /\ heard[r] <= Len(script[r])
      BY <1>2, ChainType DEF ChainInv, Chain
    <2>2. CASE stream[r] = "none"
      BY <2>1, <2>2, EmptySeq DEF Chain
    <2>3. CASE stream[r] # "none"
      <3>1. Chained(r) /\ Total(r) \in Nat /\ heard[r] \in Nat /\ Len(script[r]) \in Nat
        BY <1>2, <2>1, <2>3, ChainType DEF Chain
      <3>2. \A i \in 2..(Total(r) + 1) : i \in Chunks(r, heard[r])
        <4>1. \A i \in 2..(Total(r) + 1) : i \in 1..Len(script[r]) /\ i <= heard[r]
          BY <2>1, <3>1 DEF Chained
        <4>2. \A i \in 1..Len(script[r]) : script[r][i] \in Reply /\ script[r][i].ok
          BY <1>2 DEF TypeOK, Conforming
        <4>3. \A i \in 1..Len(script[r]) : script[r][i].kind = "Chunk" => script[r][i] = Good("Chunk")
          BY <4>2 DEF Reply, Good
        <4> QED  BY <3>1, <4>1, <4>3 DEF Chained, Chunks
      <3>6. Given(r) \in Nat /\ Inside(r) \in Nat /\ Buffered(r) \in Nat
        BY <1>2, Parts
      <3>3. Len(got[r]) <= Total(r) /\ Len(got[r]) \in Nat
        <4>1. Given(r) <= Total(r)
          BY <3>6 DEF Total
        <4> QED  BY <3>6, <4>1 DEF Given
      <3>4. ASSUME NEW i \in 1..Len(got[r])
            PROVE  /\ got[r][i] \in Chunks(r, heard[r])
                   /\ i > 1 => got[r][i] = got[r][i - 1] + 1
                   /\ i = 1 => got[r][i] = 2
        <4>1. got[r][i] = i + 1 /\ i + 1 \in 2..(Total(r) + 1)
          BY <3>1, <3>3 DEF Chained
        <4>2. ASSUME i > 1 PROVE got[r][i - 1] = i
          <5>1. i - 1 \in 1..Len(got[r]) /\ (i - 1) + 1 = i
            BY <3>3, <4>2
          <5> QED  BY <3>1, <5>1 DEF Chained
        <4> QED  BY <3>2, <4>1, <4>2
      <3>5. ASSUME stream[r] \in {"closed", "errored"}
            PROVE  Chunks(r, heard[r]) \subseteq {got[r][i] : i \in 1..Len(got[r])}
        <4>1. Total(r) = Len(got[r])
          <5>1. Inside(r) = 0 /\ Buffered(r) = 0
            BY <3>1, <3>5, EmptySeq DEF Chained, Inside, Buffered
          <5>2. Total(r) = Given(r)
            BY <3>6, <5>1 DEF Total
          <5> QED  BY <5>2 DEF Given
        <4>2. ASSUME NEW i \in Chunks(r, heard[r]) PROVE i \in 2..(Total(r) + 1)
          <5>1. i \in 1..Len(script[r]) /\ i <= heard[r] /\ script[r][i].kind = "Chunk"
            BY DEF Chunks, Good
          <5> QED  BY <3>1, <3>5, <5>1 DEF Chained
        <4>3. \A i \in 2..(Total(r) + 1) : i - 1 \in 1..Len(got[r]) /\ got[r][i - 1] = i
          BY <3>1, <3>3, <4>1 DEF Chained
        <4> QED  BY <4>2, <4>3
      <3> QED  BY <3>4, <3>5
    <2> QED  BY <2>2, <2>3
  <1>3. Ready /\ [Next]_vars => ChainInv'
    BY ChainStep DEF ChainInv
  <1>4. TypeOK /\ PullInv /\ [Next]_vars => (TypeOK /\ PullInv)'
    BY TypeStep
  <1> QED  BY <1>1, <1>2, <1>3, <1>4, TypeInit, ServedAlways, PTL DEF SafeSpec, Ready

-------------------------------------------------------------------------------
\* The chunks of a body, whatever the peer does.

\* A sequence of numbers that rises, and two of which one ends before the other
\* begins.
Rising(s) == \A i, j \in 1..Len(s) : i < j => s[i] < s[j]
Below(s, t) == \A i \in 1..Len(s), j \in 1..Len(t) : s[i] < t[j]

\* Frame n has found the entry of r, and it is a chunk with its payload.
HeardChunk(r, n) == n \in 1..heard[r] /\ script[r][n] = Good("Chunk")

\* What the reader has, what the ReadableStream holds and what is buffered are
\* chunks that were heard, in the order of the peer, each once: frames may be
\* left out, but never reordered, repeated or made up.
InLine(r) ==
    /\ Rising(got[r]) /\ \A i \in 1..Len(got[r]) : HeardChunk(r, got[r][i])
    /\ Rising(inner[r]) /\ \A i \in 1..Len(inner[r]) : HeardChunk(r, inner[r][i])
    /\ Rising(buffer[r]) /\ \A i \in 1..Len(buffer[r]) : HeardChunk(r, buffer[r][i])
    /\ Below(got[r], inner[r]) /\ Below(got[r], buffer[r]) /\ Below(inner[r], buffer[r])

Line == \A r \in Requests : InLine(r)

\* The first of a sequence, and the rest.
LEMMA Rest ==
    ASSUME NEW t \in Seq(Nat), t # <<>>
    PROVE  /\ Head(t) = t[1] /\ 1 \in 1..Len(t) /\ Tail(t) \in Seq(Nat)
           /\ Len(t) \in Nat /\ Len(Tail(t)) \in Nat
           /\ \A i \in 1..Len(Tail(t)) : i \in Nat /\ i + 1 \in 1..Len(t) /\ Tail(t)[i] = t[i + 1]
  <1>1. Len(t) \in Nat \ {0} /\ Len(Tail(t)) = Len(t) - 1
    OBVIOUS
  <1>2. \A i \in 1..Len(Tail(t)) : Tail(t)[i] = t[i + 1]
    OBVIOUS
  <1> QED  BY <1>1, <1>2

\* A rising sequence without its first number rises, and all of it is above
\* that number.
LEMMA RestRises ==
    ASSUME NEW t \in Seq(Nat), t # <<>>, Rising(t)
    PROVE  Rising(Tail(t)) /\ \A j \in 1..Len(Tail(t)) : Head(t) < Tail(t)[j]
  <1>1. ASSUME NEW i \in 1..Len(Tail(t)), NEW j \in 1..Len(Tail(t)), i < j
        PROVE  Tail(t)[i] < Tail(t)[j]
    <2>1. i + 1 \in 1..Len(t) /\ j + 1 \in 1..Len(t) /\ i + 1 < j + 1
      BY <1>1, Rest
    <2> QED  BY <2>1, Rest DEF Rising
  <1>2. ASSUME NEW j \in 1..Len(Tail(t)) PROVE Head(t) < Tail(t)[j]
    <2>1. j + 1 \in 1..Len(t) /\ 1 < j + 1 /\ 1 \in 1..Len(t)
      BY Rest
    <2> QED  BY <2>1, Rest DEF Rising
  <1> QED  BY <1>1, <1>2 DEF Rising

\* What is below a sequence is below its first number and below the rest.
LEMMA BelowRest ==
    ASSUME NEW s, NEW t \in Seq(Nat), t # <<>>, Below(s, t)
    PROVE  Below(s, Tail(t)) /\ \A i \in 1..Len(s) : s[i] < Head(t)
  BY Rest DEF Below

\* A number above all of a sequence continues it, ...
LEMMA AppendRises ==
    ASSUME NEW s \in Seq(Nat), Rising(s), NEW n \in Nat, \A i \in 1..Len(s) : s[i] < n
    PROVE  Rising(Append(s, n)) /\ Append(s, n) \in Seq(Nat)
  <1> DEFINE t == Append(s, n)
  <1>1. /\ t \in Seq(Nat) /\ Len(s) \in Nat /\ Len(t) = Len(s) + 1 /\ t[Len(s) + 1] = n
        /\ \A i \in 1..Len(s) : t[i] = s[i]
    OBVIOUS
  <1> HIDE DEF t
  <1>2. ASSUME NEW i \in 1..Len(t), NEW j \in 1..Len(t), i < j
        PROVE  t[i] < t[j]
    <2>1. i \in 1..Len(s) /\ t[i] = s[i]
      BY <1>1, <1>2
    <2>2. CASE j \in 1..Len(s)
      BY <1>1, <1>2, <2>1, <2>2 DEF Rising
    <2>3. CASE j = Len(s) + 1
      BY <1>1, <2>1, <2>3
    <2> QED  BY <1>1, <2>2, <2>3
  <1>3. Rising(t)
    BY <1>2 DEF Rising
  <1> QED  BY <1>1, <1>3 DEF t

\* adding nothing but itself, ...
LEMMA AppendIs ==
    ASSUME NEW s \in Seq(Nat), NEW n \in Nat
    PROVE  \A i \in 1..Len(Append(s, n)) :
              Append(s, n)[i] = n \/ (i \in 1..Len(s) /\ Append(s, n)[i] = s[i])
  OBVIOUS

\* ... and what is below both is below the two together.
LEMMA BelowAppend ==
    ASSUME NEW s \in Seq(Nat), NEW n \in Nat, NEW u, NEW t
    PROVE  /\ Below(u, s) /\ (\A i \in 1..Len(u) : u[i] < n) => Below(u, Append(s, n))
           /\ Below(s, t) /\ (\A j \in 1..Len(t) : n < t[j]) => Below(Append(s, n), t)
  <1>1. Len(s) \in Nat /\ Len(Append(s, n)) = Len(s) + 1 /\ Append(s, n)[Len(s) + 1] = n
        /\ \A i \in 1..Len(s) : Append(s, n)[i] = s[i]
    OBVIOUS
  <1>2. \A i \in 1..Len(Append(s, n)) : i \in 1..Len(s) \/ i = Len(s) + 1
    BY <1>1
  <1> QED  BY <1>1, <1>2 DEF Below

\* An empty sequence rises, and is below everything and above it.
LEMMA EmptyLine == Rising(<<>>) /\ \A s : Below(<<>>, s) /\ Below(s, <<>>)
  BY EmptySeq DEF Rising, Below

\* A body stays in line while the entry hears, at most, more.
LEMMA LineKept ==
    ASSUME TypeOK, NEW r \in Requests, InLine(r), script'[r] = script[r],
           heard'[r] \in Nat, heard[r] <= heard'[r],
           got'[r] = got[r], inner'[r] = inner[r], buffer'[r] = buffer[r]
    PROVE  InLine(r)'
  <1>1. \A n : HeardChunk(r, n) => HeardChunk(r, n)'
    BY DEF HeardChunk, TypeOK
  <1> QED  BY <1>1 DEF InLine, Rising, Below

\* A body that has nothing is in line.
LEMMA NothingInLine ==
    ASSUME NEW r \in Requests, got'[r] = <<>>, inner'[r] = <<>>, buffer'[r] = <<>>
    PROVE  InLine(r)'
  <1>1. \A i : ~(i \in 1..Len(<<>>))
    BY EmptySeq
  <1> QED  BY <1>1 DEF InLine, Rising, Below

\* A chunk that comes in is behind all others.
LEMMA ChunkInLine ==
    ASSUME Ready, Line, NEW r \in Requests, OnChunk(r)
    PROVE  InLine(r)'
  <1>1. /\ TypeOK /\ On(r, "Chunk") /\ InLine(r)
        /\ script' = script /\ heard'[r] = heard[r] + 1 /\ heard[r] \in Nat
        /\ heard[r] + 1 <= Len(script[r]) /\ script[r][heard[r] + 1].kind = "Chunk"
        /\ heard[r] = arrived[r]
    BY FrameNumbers, ChainType DEF OnChunk, Ready, Line
  <1>2. got' = got /\ inner' = inner
    BY DEF OnChunk
  <1>3. CASE buffer'[r] = buffer[r]
    BY <1>1, <1>2, <1>3, LineKept
  <1>4. CASE Decodes(r) /\ hooks[r] = "own"
    <2> PICK n \in Nat : n = heard[r] + 1
      BY <1>1
    <2>1. buffer'[r] = Append(buffer[r], n)
      BY <1>1, <1>4 DEF OnChunk, TypeOK
    <2>2. /\ got[r] \in Seq(Nat) /\ inner[r] \in Seq(Nat) /\ buffer[r] \in Seq(Nat)
      BY <1>1 DEF TypeOK
    <2>3. HeardChunk(r, n)'
      <3>1. n \in 1..Len(script[r]) /\ script[r][n] \in Reply
        BY <1>1, ChainType
      <3>2. script[r][n] = Good("Chunk")
        BY <1>1, <1>4, <3>1 DEF Decodes, Reply, Good
      <3>3. n \in 1..heard'[r]
        BY <1>1
      <3> QED  BY <1>1, <3>2, <3>3 DEF HeardChunk
    <2>4. \A k : HeardChunk(r, k) => HeardChunk(r, k)' /\ k < n
      BY <1>1 DEF HeardChunk
    <2>5. Rising(buffer'[r])
      BY <1>1, <2>1, <2>2, <2>4, AppendRises DEF InLine
    <2>6. Below(got[r], buffer'[r]) /\ Below(inner[r], buffer'[r])
      BY <1>1, <2>1, <2>2, <2>4, BelowAppend DEF InLine
    <2>7. \A i \in 1..Len(buffer'[r]) : HeardChunk(r, buffer[r][i])'
      <3> SUFFICES ASSUME NEW i \in 1..Len(buffer'[r]) PROVE HeardChunk(r, buffer[r][i])'
        OBVIOUS
      <3>1. buffer'[r][i] = n \/ (i \in 1..Len(buffer[r]) /\ buffer'[r][i] = buffer[r][i])
        BY <2>1, <2>2, AppendIs
      <3> QED  BY <1>1, <2>3, <2>4, <3>1 DEF InLine
    <2> QED  BY <1>1, <1>2, <2>4, <2>5, <2>6, <2>7 DEF InLine
  <1> QED  BY <1>3, <1>4 DEF OnChunk

\* pull() moves the first chunk of the buffer into the ReadableStream.
LEMMA PullInLine ==
    ASSUME Ready, Line, NEW r \in Requests, Pull(r)
    PROVE  InLine(r)'
  <1>1. /\ TypeOK /\ InLine(r) /\ inner[r] = <<>> /\ UNCHANGED <<got, script, heard>>
        /\ heard[r] \in Nat
    BY ChainType DEF Pull, PullStarts, PullWakes, Ready, PullInv, Line, wireVars
  <1>2. CASE inner'[r] = inner[r] /\ buffer'[r] = buffer[r]
    BY <1>1, <1>2, LineKept
  <1>3. CASE PullFinishes(r) /\ buffer[r] # <<>>
    <2> DEFINE n == Head(buffer[r])
    <2>1. inner'[r] = Append(<<>>, n) /\ buffer'[r] = Tail(buffer[r])
      BY <1>1, <1>3 DEF PullFinishes, TypeOK
    <2>2. buffer[r] \in Seq(Nat) /\ got[r] \in Seq(Nat) /\ n \in Nat
      BY <1>1, <1>3, Rest DEF TypeOK
    <2>3. inner'[r] = <<n>>
      BY <2>1
    <2>4. /\ Rising(Tail(buffer[r])) /\ Below(got[r], Tail(buffer[r]))
          /\ \A j \in 1..Len(Tail(buffer[r])) : n < Tail(buffer[r])[j]
          /\ \A i \in 1..Len(got[r]) : got[r][i] < n
      BY <1>1, <1>3, <2>2, RestRises, BelowRest DEF InLine
    <2>5. HeardChunk(r, n) /\ \A i \in 1..Len(Tail(buffer[r])) : HeardChunk(r, Tail(buffer[r])[i])
      BY <1>1, <1>3, <2>2, Rest DEF InLine
    <2>6. /\ Rising(<<n>>) /\ Below(got[r], <<n>>) /\ Below(<<n>>, Tail(buffer[r]))
          /\ \A i \in 1..Len(<<n>>) : <<n>>[i] = n
      BY <2>4 DEF Rising, Below
    <2>7. \A k : HeardChunk(r, k)' <=> HeardChunk(r, k)
      BY <1>1 DEF HeardChunk
    <2> QED  BY <1>1, <2>1, <2>3, <2>4, <2>5, <2>6, <2>7 DEF InLine
  <1>4. CASE PullFinishes(r) /\ buffer[r] = <<>>
    BY <1>1, <1>4, LineKept DEF PullFinishes
  <1> QED  BY <1>2, <1>3, <1>4 DEF Pull, PullStarts, PullWakes

\* A read moves the chunk on to the reader.
LEMMA ReadInLine ==
    ASSUME Ready, Line, NEW r \in Requests, Read(r)
    PROVE  InLine(r)'
  <1> DEFINE n == Head(inner[r])
  <1>1. /\ TypeOK /\ InLine(r) /\ inner[r] # <<>> /\ UNCHANGED <<buffer, script, heard>>
        /\ got'[r] = Append(got[r], n) /\ inner'[r] = Tail(inner[r])
    BY DEF Read, Ready, Line, TypeOK, bufferVars, wireVars
  <1>2. /\ inner[r] \in Seq(Nat) /\ got[r] \in Seq(Nat) /\ buffer[r] \in Seq(Nat)
        /\ n \in Nat /\ n = inner[r][1] /\ 1 \in 1..Len(inner[r])
    BY <1>1, Rest DEF TypeOK
  <1>3. /\ \A i \in 1..Len(got[r]) : got[r][i] < n
        /\ \A j \in 1..Len(buffer[r]) : n < buffer[r][j]
        /\ HeardChunk(r, n)
    BY <1>1, <1>2 DEF InLine, Below
  <1>4. /\ Rising(Tail(inner[r])) /\ Below(got[r], Tail(inner[r]))
        /\ \A j \in 1..Len(Tail(inner[r])) : n < Tail(inner[r])[j]
    BY <1>1, <1>2, RestRises, BelowRest DEF InLine
  <1>5. Rising(got'[r])
    BY <1>1, <1>2, <1>3, AppendRises DEF InLine
  <1>6. Below(got'[r], Tail(inner[r])) /\ Below(got'[r], buffer[r])
    BY <1>1, <1>2, <1>3, <1>4, BelowAppend DEF InLine
  <1>7. /\ \A i \in 1..Len(Tail(inner[r])) : HeardChunk(r, Tail(inner[r])[i])
        /\ Below(Tail(inner[r]), buffer[r])
    BY <1>1, <1>2, Rest DEF InLine, Below
  <1>8. \A i \in 1..Len(got'[r]) : HeardChunk(r, got'[r][i])
    <2> SUFFICES ASSUME NEW i \in 1..Len(got'[r]) PROVE HeardChunk(r, got'[r][i])
      OBVIOUS
    <2>1. got'[r][i] = n \/ (i \in 1..Len(got[r]) /\ got'[r][i] = got[r][i])
      BY <1>1, <1>2, AppendIs
    <2> QED  BY <1>1, <1>3, <2>1 DEF InLine
  <1>9. \A k : HeardChunk(r, k)' <=> HeardChunk(r, k)
    BY <1>1 DEF HeardChunk
  <1> QED  BY <1>1, <1>4, <1>5, <1>6, <1>7, <1>8, <1>9 DEF InLine

\* A cancelled stream keeps what it gave, and nothing else.
LEMMA CancelInLine ==
    ASSUME Ready, Line, NEW r \in Requests, Cancel(r)
    PROVE  InLine(r)'
  <1>1. /\ TypeOK /\ InLine(r) /\ UNCHANGED <<got, script, heard>>
        /\ inner'[r] = <<>> /\ buffer'[r] = <<>>
    BY DEF Cancel, Ready, Line, TypeOK, wireVars
  <1>2. \A k : HeardChunk(r, k)' <=> HeardChunk(r, k)
    BY <1>1 DEF HeardChunk
  <1>3. \A i : ~(i \in 1..Len(<<>>))
    BY EmptySeq
  <1> QED  BY <1>1, <1>2, <1>3, EmptyLine DEF InLine

\* Every step keeps every body in line.
LEMMA LineStep ==
    ASSUME Ready, Line, [Next]_vars, NEW r \in Requests
    PROVE  InLine(r)'
  <1> USE DEF entryVars, bufferVars, streamVars, wireVars
  <1>0. InLine(r) /\ TypeOK /\ heard[r] \in Nat /\ Chain(r)
    BY ChainType DEF Ready, Line, ChainInv
  <1>1. CASE Request(r)
    <2>1. promise[r] = "none" /\ UNCHANGED <<got, inner, buffer>>
      BY <1>1 DEF Request
    <2>2. got[r] = <<>> /\ inner[r] = <<>> /\ buffer[r] = <<>>
      BY <1>0, <2>1 DEF Ready, StreamInv, Chain
    <2> QED  BY <2>1, <2>2, NothingInLine
  <1>2. ASSUME NEW q \in Requests, q # r,
               \/ Request(q) \/ Message(q) \/ TimerFires(q) \/ Pull(q) \/ Read(q) \/ Cancel(q)
        PROVE  InLine(r)'
    <2>1. script'[r] = script[r] /\ heard'[r] = heard[r] /\ got'[r] = got[r]
      BY <1>0, <1>2
      DEF Request, Message, OnNobody, OnResponse, OnStart, OnChunk, OnEnd, OnError, OnOther, On,
          Receive, TimerFires, Pull, PullStarts, PullWakes, Read, Cancel, TypeOK
    <2>2. inner'[r] = inner[r] /\ buffer'[r] = buffer[r]
      <3>1. CASE Request(q) \/ TimerFires(q) \/ Read(q) \/ Cancel(q)
        BY <1>0, <1>2, <3>1 DEF Request, TimerFires, Read, Cancel, TypeOK
      <3>2. CASE Message(q)
        BY <1>0, <1>2, <3>2
        DEF Message, OnNobody, OnResponse, OnStart, OnChunk, OnEnd, OnError, OnOther, TypeOK
      <3>3. CASE Pull(q)
        BY <1>0, <1>2, <3>3, PullFacts
      <3> QED  BY <1>2, <3>1, <3>2, <3>3
    <2> QED  BY <1>0, <2>1, <2>2, LineKept
  <1>3. CASE OnResponse(r) \/ OnStart(r) \/ OnEnd(r) \/ OnError(r) \/ OnOther(r)
    <2>1. \E k \in {"Response", "Start", "End", "Error", "Other"} : On(r, k)
      BY <1>3 DEF OnResponse, OnStart, OnEnd, OnError, OnOther
    <2>2. UNCHANGED <<got, inner, buffer>>
      BY <1>3 DEF OnResponse, OnStart, OnEnd, OnError, OnOther
    <2>3. script' = script /\ heard'[r] = heard[r] + 1
      BY <2>1, FrameNumbers
    <2> QED  BY <1>0, <2>2, <2>3, LineKept
  <1>4. CASE OnNobody(r) \/ TimerFires(r) \/ (\E q \in Requests : RequestRejected(q))
             \/ (\E e \in CloseArgs : Close(e)) \/ UNCHANGED vars
    BY <1>0, <1>4, LineKept DEF OnNobody, Receive, TimerFires, RequestRejected, Close, vars
  <1> QED
    BY <1>1, <1>2, <1>3, <1>4, ChunkInLine, PullInLine, ReadInLine, CancelInLine DEF Next, Message

-------------------------------------------------------------------------------
\* What the user of a caller is promised.

\* What a promise and a stream tell the user, before and after a step.
LEMMA UserFacts ==
    ASSUME NEW r \in Requests
    PROVE  /\ promise[r] \in {"none", "pending"} => Outcomes[r] = "none"
           /\ promise[r] = "response" => Outcomes[r] = "Response"
           /\ promise[r] = "stream" => Outcomes[r] = "Start"
           /\ promise[r] \notin {"none", "pending", "response", "stream"} => Outcomes[r] = "failed"
           /\ stream[r] \in {"none", "readable"} => BodyEnds[r] = "open"
           /\ stream[r] = "closed" => BodyEnds[r] = "eof"
           /\ stream[r] = "errored" => BodyEnds[r] = "error"
           /\ stream[r] = "cancelled" => BodyEnds[r] = "left"
  BY DEF Outcomes, BodyEnds, OutcomeOf, EndOf

LEMMA UserFactsNext ==
    ASSUME NEW r \in Requests
    PROVE  /\ promise'[r] \in {"none", "pending"} => Outcomes'[r] = "none"
           /\ promise'[r] = "response" => Outcomes'[r] = "Response"
           /\ promise'[r] = "stream" => Outcomes'[r] = "Start"
           /\ promise'[r] \notin {"none", "pending", "response", "stream"} => Outcomes'[r] = "failed"
           /\ stream'[r] \in {"none", "readable"} => BodyEnds'[r] = "open"
           /\ stream'[r] = "closed" => BodyEnds'[r] = "eof"
           /\ stream'[r] = "errored" => BodyEnds'[r] = "error"
           /\ stream'[r] = "cancelled" => BodyEnds'[r] = "left"
  BY DEF Outcomes, BodyEnds, OutcomeOf, EndOf

\* Promises, and streams, that stay as they are look as they did.
LEMMA SameViewOf ==
    ASSUME NEW r \in Requests
    PROVE  /\ promise'[r] = promise[r] => Outcomes'[r] = Outcomes[r]
           /\ stream'[r] = stream[r] => BodyEnds'[r] = BodyEnds[r]
  BY DEF Outcomes, BodyEnds, OutcomeOf, EndOf

LEMMA SameView ==
    /\ promise' = promise => Outcomes' = Outcomes
    /\ stream' = stream => BodyEnds' = BodyEnds
  BY SameViewOf DEF Outcomes, BodyEnds

\* The replies at most grow when they stay, or when one is given where there
\* was none.
LEMMA RepliesGrow ==
    ASSUME TypeOK, TypeOK', BodyEnds' = BodyEnds, got' = got,
           \A r \in Requests : script'[r] = script[r] \/ script[r] = <<>>
    PROVE  User!Grows
  <1>1. script' \in [Requests -> Seq(User!Reply)]
    BY DEF TypeOK, Reply, Kinds, User!Reply, User!Kinds
  <1>2. ASSUME NEW r \in Requests
        PROVE  /\ Len(script[r]) <= Len(script'[r])
               /\ \A i \in 1..Len(script[r]) : script'[r][i] = script[r][i]
    <2>1. Len(script[r]) \in Nat /\ Len(script'[r]) \in Nat
      BY DEF TypeOK
    <2>2. script[r] = <<>> => Len(script[r]) = 0
      BY EmptySeq
    <2> QED  BY <2>1, <2>2
  <1> QED  BY <1>1, <1>2 DEF User!Grows

\* A step that at most fails promises that are not settled, and at most gives a
\* reply where there was none.
LEMMA UserFails ==
    ASSUME TypeOK, TypeOK', stream' = stream, got' = got,
           \A r \in Requests : script'[r] = script[r] \/ script[r] = <<>>,
           \A r \in Requests :
              \/ promise'[r] = promise[r]
              \/ /\ promise[r] \in {"none", "pending"}
                 /\ promise'[r] \notin {"none", "response", "stream"}
    PROVE  User!Next
  <1> DEFINE R == {r \in Requests : Outcomes'[r] # Outcomes[r]}
  <1>1. BodyEnds' = BodyEnds
    BY SameView
  <1>2. ASSUME NEW r \in Requests, promise'[r] = promise[r] PROVE Outcomes'[r] = Outcomes[r]
    BY <1>2, SameViewOf
  <1>3. ASSUME NEW r \in Requests
        PROVE  \/ Outcomes'[r] = Outcomes[r]
               \/ Outcomes[r] = "none" /\ Outcomes'[r] = "failed"
    BY <1>2, UserFacts, UserFactsNext
  <1>4. Outcomes' = [r \in Requests |-> IF r \in R THEN "failed" ELSE Outcomes[r]]
    BY <1>3 DEF Outcomes
  <1>5. User!Grows
    BY <1>1, RepliesGrow
  <1>6. User!Fail(R)
    BY <1>3, <1>4, <1>5 DEF User!Fail
  <1> QED  BY <1>6 DEF User!Next

\* A frame that settles the promise of r.
LEMMA UserResolves ==
    ASSUME TypeOK, NEW r \in Requests, NEW k \in {"Response", "Start"}, On(r, k), Decodes(r),
           promise[r] = "pending",
           promise' = [promise EXCEPT ![r] = IF k = "Response" THEN "response" ELSE "stream"],
           BodyEnds' = BodyEnds, got' = got
    PROVE  User!Next
  <1> DEFINE n == arrived[r] + 1
  <1>1. n \in 1..Len(script[r]) /\ script[r][n].kind = k /\ script[r][n].ok /\ script' = script
    BY DEF On, Receive, Decodes, TypeOK
  <1>2. script[r][n] \in Reply
    BY <1>1 DEF TypeOK
  <1>3. script[r][n] = User!Good(k)
    BY <1>1, <1>2 DEF Reply, User!Good
  <1>4. Outcomes[r] = "none" /\ Outcomes'[r] = k
    <2>1. promise'[r] = IF k = "Response" THEN "response" ELSE "stream"
      BY DEF TypeOK
    <2> QED  BY <2>1, UserFacts, UserFactsNext
  <1>5. \A q \in Requests \ {r} : Outcomes'[q] = Outcomes[q]
    BY SameViewOf DEF TypeOK
  <1>6. Outcomes' = [Outcomes EXCEPT ![r] = k]
    BY <1>4, <1>5 DEF Outcomes
  <1>7. User!Resolve(r, k)
    BY <1>1, <1>3, <1>4, <1>6 DEF User!Resolve
  <1> QED  BY <1>7 DEF User!Next

\* Messages.
LEMMA MessageImplements ==
    ASSUME TypeOK, TypeOK', StreamInv, NEW r \in Requests, Message(r)
    PROVE  [User!Next]_User!vars
  <1> USE DEF streamVars, wireVars
  <1>0. script' = script /\ got' = got
    BY DEF Message, OnNobody, OnResponse, OnStart, OnChunk, OnEnd, OnError, OnOther, On, Receive
  <1>1. CASE OnNobody(r) \/ OnChunk(r) \/ OnEnd(r) \/ OnOther(r)
    <2>1. promise' = promise /\ stream' = stream
      BY <1>1 DEF OnNobody, OnChunk, OnEnd, OnOther, entryVars
    <2> QED  BY <1>0, <2>1, SameView DEF User!vars
  <1>2. CASE OnResponse(r)
    <2>1. On(r, "Response") /\ stream' = stream /\ BodyEnds' = BodyEnds
      BY <1>2, SameView DEF OnResponse
    <2>2. CASE Decodes(r) /\ promise[r] = "pending"
      <3>1. promise' = [promise EXCEPT ![r] = "response"]
        BY <1>2, <2>2 DEF OnResponse, Settled
      <3> QED  BY <1>0, <2>1, <2>2, <3>1, UserResolves
    <2>3. CASE ~(Decodes(r) /\ promise[r] = "pending")
      <3>1. promise' = promise
        BY <1>2, <2>3 DEF OnResponse, Settled
      <3> QED  BY <1>0, <2>1, <3>1, SameView DEF User!vars
    <2> QED  BY <2>2, <2>3
  <1>3. CASE OnStart(r)
    <2>1. On(r, "Start")
      BY <1>3 DEF OnStart
    <2>2. CASE Decodes(r) /\ promise[r] = "pending"
      <3>1. /\ promise' = [promise EXCEPT ![r] = "stream"]
            /\ stream' = [stream EXCEPT ![r] = "readable"] /\ stream[r] = "none"
        BY <1>3, <2>2 DEF OnStart, Settled, StreamInv
      <3>2. \A q \in Requests : BodyEnds'[q] = BodyEnds[q]
        BY <3>1, SameViewOf, UserFacts, UserFactsNext DEF TypeOK
      <3>3. BodyEnds' = BodyEnds
        BY <3>2 DEF BodyEnds
      <3> QED  BY <1>0, <2>1, <2>2, <3>1, <3>3, UserResolves
    <2>3. CASE ~(Decodes(r) /\ promise[r] = "pending")
      <3>1. promise' = promise /\ stream' = stream
        BY <1>3, <2>3 DEF OnStart, Settled
      <3> QED  BY <1>0, <3>1, SameView DEF User!vars
    <2> QED  BY <2>2, <2>3
  <1>4. CASE OnError(r)
    <2>1. stream' = stream
      BY <1>4 DEF OnError
    <2>2. CASE Decodes(r)
      <3>1. Fail({r}, "remoteError")
        BY <1>4, <2>2 DEF OnError
      <3>2. \A q \in Requests : \/ promise'[q] = promise[q]
                                \/ promise[q] = "pending" /\ promise'[q] = "remoteError"
        BY <3>1 DEF Fail
      <3>3. User!Next
        BY <1>0, <2>1, <3>2, UserFails
      <3> QED  BY <3>3
    <2>3. CASE ~Decodes(r)
      <3>1. promise' = promise
        BY <1>4, <2>3 DEF OnError
      <3> QED  BY <1>0, <2>1, <3>1, SameView DEF User!vars
    <2> QED  BY <2>2, <2>3
  <1> QED  BY <1>1, <1>2, <1>3, <1>4 DEF Message

\* The end of one body.
LEMMA UserEnds ==
    ASSUME TypeOK, NEW r \in Requests, NEW e, BodyEnds'[r] = e,
           \A q \in Requests \ {r} : stream'[q] = stream[q],
           promise' = promise, got' = got, script' = script
    PROVE  User!Ends(r, e)
  <1>1. \A q \in Requests \ {r} : BodyEnds'[q] = BodyEnds[q]
    BY SameViewOf
  <1>2. BodyEnds' = [BodyEnds EXCEPT ![r] = e]
    BY <1>1 DEF BodyEnds
  <1> QED  BY <1>2, SameView DEF User!Ends

\* Of a conforming peer, the chunks ahead of the next one are with the reader.
LEMMA GotAll ==
    ASSUME TypeOK, NEW r \in Requests, Chained(r), NEW n \in Nat, n <= Given(r) + 2
    PROVE  User!CaughtUp(r, n)
  <1> SUFFICES ASSUME NEW k \in User!Chunks(r), k < n
               PROVE  \E i \in 1..Len(got[r]) : got[r][i] = k
    BY DEF User!CaughtUp
  <1>1. k \in Nat /\ k # 0 /\ script[r][k].kind = "Chunk" /\ script[r][1].kind = "Start"
    BY ChainType DEF User!Chunks, User!Good, Chained
  <1>2. k # 1 /\ Given(r) \in Nat
    BY <1>1, Parts
  <1>3. k - 1 \in 1..Given(r) /\ (k - 1) + 1 = k
    BY <1>1, <1>2
  <1>4. got[r][k - 1] = k
    BY <1>3 DEF Chained, Given
  <1> QED  BY <1>3, <1>4 DEF Given

\* The reader is given a chunk.
LEMMA ReadImplements ==
    ASSUME Ready, Line, NEW r \in Requests, Read(r)
    PROVE  User!Next
  <1> DEFINE n == Head(inner[r])
  <1>1. /\ TypeOK /\ InLine(r) /\ inner[r] # <<>> /\ stream[r] = "readable" /\ Chain(r)
        /\ UNCHANGED <<promise, stream, script>>
        /\ got' = [got EXCEPT ![r] = Append(@, n)]
    BY DEF Read, Ready, Line, ChainInv, entryVars, wireVars
  <1>2. /\ inner[r] \in Seq(Nat) /\ n \in Nat /\ n = inner[r][1] /\ 1 \in 1..Len(inner[r])
    BY <1>1, Rest DEF TypeOK
  <1>3. User!Streaming(r)
    <2>1. promise[r] = "stream"
      BY <1>1 DEF Ready, StreamInv
    <2> QED  BY <1>1, <2>1, UserFacts DEF User!Streaming
  <1>4. \A i \in 1..Len(got[r]) : got[r][i] < n
    BY <1>1, <1>2 DEF InLine, Below
  <1>5. n \in User!Chunks(r)
    <2>1. HeardChunk(r, n) /\ heard[r] <= Len(script[r]) /\ Len(script[r]) \in Nat /\ heard[r] \in Nat
      <3>1. heard[r] <= arrived[r] /\ arrived[r] <= Len(script[r])
        BY <1>1 DEF Chain
      <3> QED  BY <1>1, <1>2, <3>1, ChainType DEF InLine
    <2>2. n \in 1..Len(script[r])
      BY <1>2, <2>1 DEF HeardChunk
    <2> QED  BY <2>1, <2>2 DEF HeardChunk, User!Chunks, User!Good, Good
  <1>6. ASSUME User!Conforming(script[r]) PROVE User!CaughtUp(r, n)
    <2>1. Conforming(script[r])
      BY <1>6 DEF User!Conforming, Conforming, User!Terminal, Terminal
    <2>2. Chained(r)
      BY <1>1, <2>1 DEF Chain
    <2>3. n = Len(got[r]) + 1 + 1
      BY <1>2, <2>2 DEF Chained
    <2>4. n = Given(r) + 1 + 1 /\ Given(r) \in Nat
      BY <1>1, <2>3, Parts DEF Given
    <2>5. n <= Given(r) + 2
      BY <2>4
    <2> QED  BY <1>1, <1>2, <2>2, <2>5, GotAll
  <1>7. User!Give(r, n)
    BY <1>1, <1>3, <1>4, <1>6, SameView DEF User!Give
  <1> QED  BY <1>5, <1>7 DEF User!Next

\* pull() ends the body, or the user is not concerned.
LEMMA PullImplements ==
    ASSUME Ready, FedInv, EndInv, NEW r \in Requests, Pull(r)
    PROVE  [User!Next]_User!vars
  <1>1. /\ TypeOK /\ Chain(r) /\ stream[r] = "readable" /\ inner[r] = <<>>
        /\ UNCHANGED <<promise, got, script>>
    BY DEF Pull, PullStarts, PullWakes, Ready, ChainInv, PullInv, entryVars, wireVars
  <1>2. /\ \A q \in Requests \ {r} : stream'[q] = stream[q]
        /\ stream'[r] \in {"readable", "closed", "errored"}
        /\ stream'[r] = "closed" => r \in terminalClose
    BY <1>1, PullFacts
  <1>3. User!Streaming(r)
    <2>1. promise[r] = "stream"
      BY <1>1 DEF Ready, StreamInv
    <2> QED  BY <1>1, <2>1, UserFacts DEF User!Streaming
  <1>4. CASE stream'[r] = "readable"
    <2>1. stream' = stream
      <3>1. stream' \in [Requests -> {"none", "readable", "closed", "errored", "cancelled"}]
        BY <1>1, PullType DEF Pull, PullStarts, PullWakes, PullFinishes, TypeOK
      <3> QED  BY <1>1, <1>2, <1>4, <3>1 DEF TypeOK
    <2> QED  BY <1>1, <2>1, SameView DEF User!vars
  <1>5. CASE stream'[r] = "errored"
    <2>1. User!Ends(r, "error")
      BY <1>1, <1>2, <1>5, UserEnds, UserFactsNext
    <2> QED  BY <1>3, <2>1 DEF User!Break, User!Next
  <1>6. CASE stream'[r] = "closed"
    <2>1. User!Ends(r, "eof")
      BY <1>1, <1>2, <1>6, UserEnds, UserFactsNext
    <2>2. script[r][heard[r]].kind = "End" /\ buffer[r] = <<>>
      <3>1. buffer[r] = <<>>
        BY <1>1, <1>6 DEF Pull, PullStarts, PullWakes, PullFinishes
      <3> QED  BY <1>2, <1>6, <3>1 DEF EndInv
    <2>3. heard[r] \in 1..Len(script[r])
      <3>1. \E i \in 1..heard[r] : TRUE
        BY <1>1 DEF FedInv, Fed, HadStart
      <3>2. heard[r] \in Nat /\ arrived[r] \in Nat /\ Len(script[r]) \in Nat
        BY <1>1, ChainType
      <3> QED  BY <1>1, <3>1, <3>2 DEF Chain
    <2>4. ASSUME User!Conforming(script[r]) PROVE User!CaughtUp(r, heard[r])
      <3>1. Conforming(script[r])
        BY <2>4 DEF User!Conforming, Conforming, User!Terminal, Terminal
      <3>2. Chained(r)
        BY <1>1, <3>1 DEF Chain
      <3>3. Total(r) = Given(r) /\ Given(r) \in Nat
        <4>1. Inside(r) = 0 /\ Buffered(r) = 0
          BY <1>1, <2>2, EmptySeq DEF Inside, Buffered
        <4> QED  BY <1>1, <4>1, Parts DEF Total
      <3>4. heard[r] <= Given(r) + 2 /\ heard[r] \in Nat
        BY <1>1, <3>2, <3>3, ChainType DEF Chained
      <3> QED  BY <1>1, <3>2, <3>4, GotAll
    <2>5. User!Finish(r)
      BY <1>3, <2>1, <2>2, <2>3, <2>4 DEF User!Finish
    <2> QED  BY <2>5 DEF User!Next
  <1> QED  BY <1>2, <1>4, <1>5, <1>6

\* Every step of the caller is one that ResponseStream allows, or is hidden
\* from the user.
LEMMA CallerImplements ==
    ASSUME {"response", "stream"} \cap CloseArgs = {},
           Ready, FedInv, EndInv, Line, TypeOK', [Next]_vars
    PROVE  [User!Next]_User!vars
  <1> USE DEF entryVars, bufferVars, streamVars, wireVars
  <1>0. TypeOK /\ StreamInv
    BY DEF Ready
  <1>1. \A e \in CloseErrors : e \notin {"none", "response", "stream"}
    BY TsCallerAssumption DEF CloseErrors, TransportClosed, None
  <1>2. ASSUME NEW r \in Requests, Request(r) PROVE [User!Next]_User!vars
    <2>1. promise[r] = "none" /\ stream' = stream /\ got' = got
      BY <1>2 DEF Request
    <2>2. script[r] = <<>>
      BY <2>1 DEF Ready, ServedInv, Served
    <2>3. \A q \in Requests : script'[q] = script[q] \/ script[q] = <<>>
      BY <1>0, <1>2, <2>2 DEF Request, TypeOK
    <2>4. \A q \in Requests : \/ promise'[q] = promise[q]
                              \/ /\ promise[q] = "none" /\ promise'[q] \in {"pending", "sendError"}
      BY <1>0, <1>2, <2>1 DEF Request, TypeOK
    <2>5. User!Next
      BY <1>0, <2>1, <2>3, <2>4, UserFails
    <2> QED  BY <2>5
  <1>3. ASSUME NEW r \in Requests, RequestRejected(r) PROVE [User!Next]_User!vars
    <2>1. closedErr \in CloseErrors /\ promise[r] = "none"
      BY <1>0, <1>3 DEF RequestRejected, TypeOK
    <2>2. stream' = stream /\ got' = got /\ script' = script
      BY <1>3 DEF RequestRejected
    <2>3. \A q \in Requests : \/ promise'[q] = promise[q]
                              \/ promise[q] = "none" /\ promise'[q] = closedErr
      BY <1>0, <1>3, <2>1 DEF RequestRejected, TypeOK
    <2>4. User!Next
      BY <1>0, <1>1, <2>1, <2>2, <2>3, UserFails
    <2> QED  BY <2>4
  <1>4. ASSUME NEW r \in Requests, Message(r) PROVE [User!Next]_User!vars
    BY <1>0, <1>4, MessageImplements
  <1>5. ASSUME NEW R, NEW e, e \in CloseErrors \cup {ReadTimeoutError}, Fail(R, e),
               stream' = stream, got' = got, script' = script
        PROVE  [User!Next]_User!vars
    <2>1. \A q \in Requests : \/ promise'[q] = promise[q]
                              \/ promise[q] = "pending" /\ promise'[q] = e
      BY <1>5 DEF Fail
    <2>2. e \notin {"none", "response", "stream"}
      BY <1>1, <1>5 DEF ReadTimeoutError
    <2>3. User!Next
      BY <1>0, <1>5, <2>1, <2>2, UserFails
    <2> QED  BY <2>3
  <1>6. ASSUME NEW r \in Requests, TimerFires(r) PROVE [User!Next]_User!vars
    BY <1>5, <1>6 DEF TimerFires
  <1>7. ASSUME NEW e \in CloseArgs, Close(e) PROVE [User!Next]_User!vars
    <2>1. closedErr' \in CloseErrors
      BY <1>7 DEF Close, CloseErrors
    <2> QED  BY <1>5, <1>7, <2>1 DEF Close
  <1>8. ASSUME NEW r \in Requests, Pull(r) PROVE [User!Next]_User!vars
    BY <1>8, PullImplements
  <1>9. ASSUME NEW r \in Requests, Read(r) PROVE [User!Next]_User!vars
    BY <1>9, ReadImplements
  <1>10. ASSUME NEW r \in Requests, Cancel(r) PROVE [User!Next]_User!vars
    <2>1. /\ stream[r] = "readable" /\ stream' = [stream EXCEPT ![r] = "cancelled"]
          /\ UNCHANGED <<promise, got, script>>
      BY <1>10 DEF Cancel
    <2>2. BodyEnds'[r] = "left" /\ \A q \in Requests \ {r} : stream'[q] = stream[q]
      BY <1>0, <2>1, UserFactsNext DEF TypeOK
    <2>3. User!Ends(r, "left")
      BY <1>0, <2>1, <2>2, UserEnds
    <2>4. Outcomes[r] = "Start"
      BY <1>0, <2>1, UserFacts DEF StreamInv
    <2> QED  BY <2>3, <2>4 DEF User!Leave, User!Next
  <1>11. CASE UNCHANGED vars
    BY <1>11, SameView DEF vars, User!vars
  <1> QED  BY <1>2, <1>3, <1>4, <1>6, <1>7, <1>8, <1>9, <1>10, <1>11 DEF Next

\* The TypeScript caller implements ResponseStream: for any number of requests,
\* any replies and any order of messages, timers, close(), reads and cancels,
\* as long as close() is not given "response" or "stream" for an error.
THEOREM CallerImplementsStream ==
    ASSUME {"response", "stream"} \cap CloseArgs = {}
    PROVE  SafeSpec => ImplementsStream
  <1>1. Init => Line /\ FedInv /\ EndInv /\ ChainInv
    <2> SUFFICES ASSUME Init, NEW r \in Requests PROVE InLine(r) /\ Fed(r) /\ Chain(r)
      BY DEF Init, Line, FedInv, EndInv, ChainInv
    <2>1. /\ heard[r] = 0 /\ arrived[r] = 0 /\ script[r] = <<>> /\ pending = {}
          /\ stream[r] = "none" /\ got[r] = <<>> /\ inner[r] = <<>> /\ buffer[r] = <<>>
      BY DEF Init
    <2>2. InLine(r)
      <3>1. \A i : ~(i \in 1..Len(<<>>))
        BY EmptySeq
      <3> QED  BY <2>1, <3>1, EmptyLine DEF InLine
    <2> QED  BY <2>1, <2>2, EmptySeq DEF Chain, Fed
  <1>2. Init => User!Init
    BY DEF Init, User!Init, Outcomes, BodyEnds, OutcomeOf, EndOf
  <1>3. TypeOK /\ StreamInv /\ FedInv /\ [Next]_vars => FedInv'
    BY FedStep
  <1>4. TypeOK /\ EntryInv /\ EndInv /\ [Next]_vars => EndInv'
    BY EndStep
  <1>5. Ready /\ [Next]_vars => ChainInv'
    BY ChainStep DEF ChainInv
  <1>6. Ready /\ Line /\ [Next]_vars => Line'
    BY LineStep DEF Line
  <1>7. Ready /\ FedInv /\ EndInv /\ Line /\ TypeOK' /\ [Next]_vars => [User!Next]_User!vars
    BY CallerImplements
  <1>8. Ready <=> TypeOK /\ PullInv /\ EntryInv /\ StreamInv /\ ServedInv /\ ChainInv
    BY DEF Ready
  <1>9. SafeSpec => [](TypeOK /\ PullInv)
    BY TypeInit, TypeStep, PTL DEF SafeSpec
  <1> QED
    BY <1>1, <1>2, <1>3, <1>4, <1>5, <1>6, <1>7, <1>8, <1>9, ServedAlways, PTL
    DEF SafeSpec, ImplementsStream, User!Spec

-------------------------------------------------------------------------------
\* Waiting readers: what of ReaderNeverHangs is no matter of fairness.

\* The reader of r waits for a chunk of a peer that keeps to the protocol.
Starved(r) == stream[r] = "readable" /\ inner[r] = <<>> /\ Conforming(script[r])

\* Something is due for a reader that waits: a pull() that has not looked yet,
\* or else the entry whose callbacks wake pull(), with its timer running.
Attended(r) ==
    \/ pull[r] # "waiting"
    \/ r \in pending /\ hooks[r] = "own" /\ (TimerOn => r \in timer)

\* A step of pull() that leaves the reader waiting has found nothing for it.
Supplied(r) ==
    Pull(r) => \/ stream'[r] # "readable"
               \/ inner'[r] # <<>>
               \/ pull'[r] = "waiting" /\ MustWait(r)

\* The timer ends the wait: pull() is woken, and has an error to report.
Relieved(r) == TimerFires(r) => pull'[r] = "woken" /\ terminalErr'[r] = ReadTimeoutError

\* What a step does for the readers that wait.
AllRelieved ==
    \A r \in Requests : Starved(r) => Supplied(r) /\ (pull[r] = "waiting" => Relieved(r))

\* What ReaderNeverHangs needs of the code besides an event loop that runs: of a
\* peer that keeps to the protocol and then falls silent, no reader is ever left
\* without a pull() that is due or an entry, and a timer if there are any, that
\* wakes it; pull() goes back to sleep only for want of everything; and the
\* timer wakes it with an error.
THEOREM ReadersAreAttended ==
    SafeSpec => /\ [](\A r \in Requests : Starved(r) => Attended(r))
                /\ [][AllRelieved]_vars
  <1>1. StreamInv /\ ServedInv /\ NoLostWakeup /\ TimerIffSlot
        => \A r \in Requests : Starved(r) => Attended(r)
    <2> SUFFICES ASSUME StreamInv, ServedInv, NoLostWakeup, TimerIffSlot,
                        NEW r \in Requests, Starved(r), pull[r] = "waiting"
                 PROVE  r \in pending /\ hooks[r] = "own" /\ (TimerOn => r \in timer)
      BY DEF Attended
    <2>1. stream[r] = "readable" /\ promise[r] = "stream"
      BY DEF Starved, StreamInv
    <2>2. Unfinished(r)
      BY <2>1 DEF NoLostWakeup, MustWait, Unfinished
    <2>3. r \in pending /\ hooks[r] = "own"
      BY <2>1, <2>2 DEF ServedInv, Served, Starved
    <2> QED  BY <2>3 DEF TimerIffSlot
  <1>2. TypeOK /\ (\A r \in Requests : Starved(r) => Attended(r)) /\ [Next]_vars
        => [AllRelieved]_vars
    <2> SUFFICES ASSUME TypeOK, NEW r \in Requests, Starved(r), Attended(r)
                 PROVE  Supplied(r) /\ (pull[r] = "waiting" => Relieved(r))
      BY DEF AllRelieved
    <2>1. Supplied(r)
      <3> SUFFICES ASSUME Pull(r), ~MustWait(r) \/ pull'[r] # "waiting"
                   PROVE  stream'[r] # "readable" \/ inner'[r] # <<>>
        BY DEF Supplied
      <3>1. /\ pull \in [Requests -> {"idle", "waiting", "woken"}]
            /\ stream \in [Requests -> {"none", "readable", "closed", "errored", "cancelled"}]
            /\ inner \in [Requests -> Seq(Nat)] /\ buffer \in [Requests -> Seq(Nat)]
        BY DEF TypeOK
      <3>2. PullFinishes(r)
        BY <3>1 DEF Pull, PullStarts, PullWakes
      <3>3. CASE buffer[r] # <<>>
        <4>1. Head(buffer[r]) \in Nat
          BY <3>1, <3>3, HeadTail
        <4>2. inner'[r] = Append(inner[r], Head(buffer[r]))
          BY <3>1, <3>2, <3>3 DEF PullFinishes
        <4>3. Len(inner'[r]) = Len(inner[r]) + 1 /\ Len(inner[r]) \in Nat
          BY <3>1, <4>1, <4>2, AppendProperties, LenProperties
        <4> QED  BY <4>3, EmptySeq
      <3>4. CASE buffer[r] = <<>>
        BY <3>1, <3>2, <3>4 DEF PullFinishes
      <3> QED  BY <3>3, <3>4
    <2>2. ASSUME pull[r] = "waiting", TimerFires(r)
          PROVE  pull'[r] = "woken" /\ terminalErr'[r] = ReadTimeoutError
      BY <2>2 DEF Attended, TimerFires, Fail, Notified
    <2> QED  BY <2>1, <2>2 DEF Relieved
  <1> QED
    BY <1>1, <1>2, TypeCorrect, ServedAlways, WakeupNeverLost, TimersFollowSlots, PTL
    DEF SafeSpec

===============================================================================
