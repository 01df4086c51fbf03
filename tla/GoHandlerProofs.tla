---------------------------- MODULE GoHandlerProofs ----------------------------
(***************************************************************************)
(* Theorems about the Go HOWHandler, for any number of requests, every     *)
(* kind of handler and bodies of any length.                               *)
(***************************************************************************)
EXTENDS GoHandler, WireRepliesProofs

-------------------------------------------------------------------------------
\* The inductive invariant.

InStream == {"streaming", "closing", "failing"}

\* Nothing has been offered before the first send; the stream is open, with one
\* frame for each chunk after its header, until the last one.
Answer(r) ==
    /\ place[r] \in {"none", "dispatched"} =>
          offered[r] = <<>> /\ ~started[r] /\ produced[r] = 0
    /\ place[r] \in InStream =>
          Open(offered[r]) /\ started[r] /\ Len(offered[r]) = produced[r] + 1
    /\ Len(offered[r]) <= produced[r] + 2

Domains ==
    /\ handler \in Handlers
    /\ place \in [Requests -> Places]
    /\ started \in [Requests -> BOOLEAN]
    /\ source \in [Requests -> {"open", "ended", "broken"}]
    /\ produced \in [Requests -> 0..MaxChunks]
    /\ offered \in [Requests -> Seq(Kinds)]
    /\ sent \in [Requests -> Seq(Kinds)]

IInv == Domains /\ \A r \in Requests : Answer(r)

-------------------------------------------------------------------------------
\* Sends.

\* What a send does to the frames that are offered and sent.
LEMMA SendType ==
    ASSUME Domains, NEW r \in Requests, NEW k \in Kinds, NEW ok \in BOOLEAN, Send(r, k, ok)
    PROVE  /\ offered' \in [Requests -> Seq(Kinds)] /\ sent' \in [Requests -> Seq(Kinds)]
           /\ offered'[r] = Append(offered[r], k)
           /\ Len(offered'[r]) = Len(offered[r]) + 1
           /\ \A q \in Requests \ {r} : offered'[q] = offered[q]
  <1>1. /\ offered \in [Requests -> Seq(Kinds)] /\ sent \in [Requests -> Seq(Kinds)]
        /\ offered[r] \in Seq(Kinds) /\ sent[r] \in Seq(Kinds)
    BY DEF Domains
  <1>2. /\ Append(offered[r], k) \in Seq(Kinds) /\ Append(sent[r], k) \in Seq(Kinds)
        /\ Len(Append(offered[r], k)) = Len(offered[r]) + 1
    BY <1>1, Appended
  <1> QED  BY <1>1, <1>2 DEF Send

\* A send that the protocol allows is a step of the protocol.
LEMMA SendEmits ==
    ASSUME NEW r \in Requests, NEW k \in Kinds, NEW ok \in BOOLEAN, Send(r, k, ok),
           Conforming(Frames(Append(offered[r], k)))
    PROVE  [Response!Next]_offered
  <1>1. Response!Emit(r, k)
    BY DEF Send, Response!Emit, Response!Conforming, Response!Frames, Response!Good,
           Response!Terminal, Conforming, Frames, Good, Terminal
  <1>2. k \in Response!Kinds
    BY DEF Kinds, Response!Kinds
  <1> QED  BY <1>1, <1>2 DEF Response!Next

\* The first frame of an answer.
LEMMA FirstSend ==
    ASSUME IInv, NEW r \in Requests, offered[r] = <<>>,
           NEW k \in {"Response", "Start", "Error"}, SendAnyway(r, k)
    PROVE  /\ offered' \in [Requests -> Seq(Kinds)] /\ sent' \in [Requests -> Seq(Kinds)]
           /\ offered'[r] = Append(<<>>, k) /\ Len(offered'[r]) = 1
           /\ \A q \in Requests \ {r} : offered'[q] = offered[q]
           /\ [Response!Next]_offered
  <1>1. PICK ok \in BOOLEAN : Send(r, k, ok)
    BY DEF SendAnyway
  <1>2. k \in Kinds
    BY DEF Kinds
  <1>3. Conforming(Frames(Append(offered[r], k)))
    BY FirstFrame
  <1>4. [Response!Next]_offered
    BY <1>1, <1>2, <1>3, SendEmits
  <1>5. /\ offered' \in [Requests -> Seq(Kinds)] /\ sent' \in [Requests -> Seq(Kinds)]
        /\ offered'[r] = Append(offered[r], k) /\ Len(offered'[r]) = Len(offered[r]) + 1
        /\ \A q \in Requests \ {r} : offered'[q] = offered[q]
    BY <1>1, <1>2, SendType DEF IInv
  <1>6. Len(offered[r]) + 1 = 1
    OBVIOUS
  <1> QED  BY <1>4, <1>5, <1>6

\* A later one.
LEMMA NextSend ==
    ASSUME IInv, NEW r \in Requests, place[r] \in InStream,
           NEW k \in {"Chunk", "End", "Error"}, NEW ok \in BOOLEAN, Send(r, k, ok)
    PROVE  /\ offered' \in [Requests -> Seq(Kinds)] /\ sent' \in [Requests -> Seq(Kinds)]
           /\ offered'[r] = Append(offered[r], k) /\ Len(offered'[r]) = produced[r] + 2
           /\ k = "Chunk" => Open(offered'[r])
           /\ \A q \in Requests \ {r} : offered'[q] = offered[q]
           /\ [Response!Next]_offered
  <1>1. k \in Kinds
    BY DEF Kinds
  <1>2. /\ offered[r] \in Seq(Kinds) /\ Open(offered[r])
        /\ produced[r] \in Nat /\ Len(offered[r]) = produced[r] + 1
    BY DEF IInv, Domains, Answer
  <1>3. [Response!Next]_offered
    BY <1>1, <1>2, NextFrame, SendEmits
  <1>4. k = "Chunk" => Open(Append(offered[r], k))
    BY <1>2, StaysOpen
  <1>5. /\ offered' \in [Requests -> Seq(Kinds)] /\ sent' \in [Requests -> Seq(Kinds)]
        /\ offered'[r] = Append(offered[r], k) /\ Len(offered'[r]) = Len(offered[r]) + 1
        /\ \A q \in Requests \ {r} : offered'[q] = offered[q]
    BY <1>1, <1>2, SendType DEF IInv
  <1>6. Len(offered[r]) + 1 = produced[r] + 2
    BY <1>2
  <1> QED  BY <1>3, <1>4, <1>5, <1>6

-------------------------------------------------------------------------------
\* Steps.

\* The answers to other requests stay as they are.
LEMMA AnswerKept ==
    ASSUME NEW q \in Requests, Answer(q),
           place'[q] = place[q], started'[q] = started[q], produced'[q] = produced[q],
           offered'[q] = offered[q]
    PROVE  Answer(q)'
  BY DEF Answer

\* Every step keeps the invariant, and is a step of the protocol or none.
LEMMA HandlerStep ==
    ASSUME IInv, [Next]_vars
    PROVE  IInv' /\ [Response!Next]_offered
  <1> USE GoHandlerAssumption
  <1> DEFINE Goal == IInv' /\ [Response!Next]_offered
             Others(r) == \A q \in Requests \ {r} : Answer(q)'
  <1>1. ASSUME NEW r \in Requests, HandleBad(r) PROVE Goal
    <2>1. offered[r] = <<>> /\ SendAnyway(r, "Error") /\ produced[r] = 0
      BY <1>1 DEF HandleBad, IInv, Answer
    <2>2. Domains'
      BY <1>1, <2>1, FirstSend DEF HandleBad, Go, IInv, Domains, Places
    <2>3. Answer(r)'
      <3>1. place'[r] = "done" /\ produced'[r] = 0 /\ Len(offered'[r]) = 1
        BY <1>1, <2>1, FirstSend DEF HandleBad, Go, IInv, Domains
      <3> QED  BY <3>1 DEF Answer, InStream
    <2>4. Others(r)
      BY <1>1, <2>1, FirstSend, AnswerKept DEF HandleBad, Go, IInv, Domains
    <2> QED  BY <2>1, <2>2, <2>3, <2>4, FirstSend DEF IInv
  <1>2. ASSUME NEW r \in Requests, HandleGood(r) PROVE Goal
    <2>1. Domains'
      BY <1>2 DEF HandleGood, Go, IInv, Domains, Places
    <2>2. Answer(r)'
      BY <1>2 DEF HandleGood, Go, IInv, Domains, Answer, InStream
    <2>3. Others(r)
      BY <1>2, AnswerKept DEF HandleGood, Go, IInv, Domains
    <2> QED  BY <1>2, <2>1, <2>2, <2>3 DEF HandleGood, IInv
  <1>3. ASSUME NEW r \in Requests, ServeBuffered(r) \/ ServeFails(r) PROVE Goal
    <2>1. offered[r] = <<>> /\ SendAnyway(r, "Response") /\ produced[r] = 0
      BY <1>3 DEF ServeBuffered, ServeFails, IInv, Answer
    <2>2. Domains'
      BY <1>3, <2>1, FirstSend DEF ServeBuffered, ServeFails, Go, IInv, Domains, Places
    <2>3. Answer(r)'
      <3>1. place'[r] = "done" /\ produced'[r] = 0 /\ Len(offered'[r]) = 1
        BY <1>3, <2>1, FirstSend DEF ServeBuffered, ServeFails, Go, IInv, Domains
      <3> QED  BY <3>1 DEF Answer, InStream
    <2>4. Others(r)
      BY <1>3, <2>1, FirstSend, AnswerKept DEF ServeBuffered, ServeFails, Go, IInv, Domains
    <2> QED  BY <2>1, <2>2, <2>3, <2>4, FirstSend DEF IInv
  <1>4. ASSUME NEW r \in Requests, WriteHeader(r) PROVE Goal
    <2>1. CASE started[r]
      BY <1>4, <2>1, AnswerKept DEF WriteHeader, IInv, Domains
    <2>2. CASE ~started[r]
      <3>1. /\ offered[r] = <<>> /\ SendAnyway(r, "Start") /\ produced[r] = 0
            /\ started' = [started EXCEPT ![r] = TRUE] /\ Go(r, "streaming")
            /\ UNCHANGED <<handler, source, produced>>
        BY <1>4, <2>2 DEF WriteHeader, IInv, Answer, InStream
      <3>2. Domains'
        BY <3>1, FirstSend DEF Go, IInv, Domains, Places
      <3>3. Answer(r)'
        <4>1. /\ Open(offered'[r]) /\ Len(offered'[r]) = 1
              /\ place'[r] = "streaming" /\ started'[r] /\ produced'[r] = 0
          BY <3>1, FirstSend, StaysOpen DEF Go, IInv, Domains
        <4> QED  BY <4>1 DEF Answer
      <3>4. Others(r)
        BY <3>1, FirstSend, AnswerKept DEF Go, IInv, Domains
      <3> QED  BY <3>1, <3>2, <3>3, <3>4, FirstSend DEF IInv
    <2> QED  BY <2>1, <2>2
  <1>5. ASSUME NEW r \in Requests, Write(r) PROVE Goal
    <2>1. PICK ok \in BOOLEAN : Send(r, "Chunk", ok)
      BY <1>5 DEF Write
    <2>2. place[r] \in InStream
      BY <1>5 DEF Write, InStream
    <2>3. /\ produced' = [produced EXCEPT ![r] = @ + 1]
          /\ produced[r] \in 0..MaxChunks /\ produced[r] < MaxChunks
      BY <1>5 DEF Write, IInv, Domains
    <2>4. /\ place'[r] \in InStream /\ place' \in [Requests -> Places]
          /\ \A q \in Requests \ {r} : place'[q] = place[q]
      BY <1>5, <2>2 DEF Write, Go, IInv, Domains, InStream, Places
    <2>5. Domains'
      <3>1. produced' \in [Requests -> 0..MaxChunks]
        BY <2>3 DEF IInv, Domains
      <3>2. source' \in [Requests -> {"open", "ended", "broken"}]
        BY <1>5 DEF Write, IInv, Domains
      <3> QED  BY <1>5, <2>1, <2>2, <2>4, <3>1, <3>2, NextSend DEF Write, IInv, Domains
    <2>6. Answer(r)'
      <3>1. Open(offered'[r]) /\ Len(offered'[r]) = produced[r] + 2
        BY <2>1, <2>2, NextSend
      <3>2. started'[r]
        BY <1>5, <2>2 DEF Write, IInv, Answer
      <3>3. produced'[r] = produced[r] + 1
        BY <2>3 DEF IInv, Domains
      <3> QED  BY <2>3, <2>4, <3>1, <3>2, <3>3 DEF Answer, InStream
    <2>7. Others(r)
      BY <1>5, <2>1, <2>2, <2>3, <2>4, NextSend, AnswerKept DEF Write, IInv, Domains
    <2> QED  BY <2>1, <2>2, <2>5, <2>6, <2>7, NextSend DEF IInv
  <1>6. ASSUME NEW r \in Requests, SourceEnds(r) \/ SourceBreaks(r) PROVE Goal
    <2>1. /\ place[r] \in InStream /\ place'[r] \in InStream
          /\ place' \in [Requests -> Places]
          /\ \A q \in Requests \ {r} : place'[q] = place[q]
          /\ UNCHANGED <<handler, started, produced, offered, sent>>
      BY <1>6 DEF SourceEnds, SourceBreaks, Go, IInv, Domains, Places, InStream
    <2>2. source' \in [Requests -> {"open", "ended", "broken"}]
      BY <1>6 DEF SourceEnds, SourceBreaks, IInv, Domains
    <2>3. Answer(r)'
      BY <2>1 DEF IInv, Answer, InStream
    <2>4. Others(r)
      BY <2>1, AnswerKept DEF IInv
    <2> QED  BY <2>1, <2>2, <2>3, <2>4 DEF IInv, Domains
  <1>7. ASSUME NEW r \in Requests, CloseStream(r) \/ Fail(r) PROVE Goal
    <2>1. PICK k \in {"End", "Error"}, ok \in BOOLEAN : Send(r, k, ok)
      BY <1>7 DEF CloseStream, Fail, SendAnyway
    <2>2. /\ place[r] \in InStream /\ Go(r, "done")
          /\ UNCHANGED <<handler, started, source, produced>>
      BY <1>7 DEF CloseStream, Fail, InStream
    <2>3. Domains'
      BY <2>1, <2>2, NextSend DEF Go, IInv, Domains, Places
    <2>4. Answer(r)'
      <3>1. Len(offered'[r]) = produced'[r] + 2 /\ produced'[r] \in Nat /\ place'[r] = "done"
        BY <2>1, <2>2, NextSend DEF Go, IInv, Domains
      <3> QED  BY <3>1 DEF Answer, InStream
    <2>5. Others(r)
      BY <2>1, <2>2, NextSend, AnswerKept DEF Go, IInv, Domains
    <2> QED  BY <2>1, <2>2, <2>3, <2>4, <2>5, NextSend DEF IInv
  <1>8. CASE UNCHANGED vars
    BY <1>8, AnswerKept DEF vars, IInv, Domains
  <1> QED
    BY <1>1, <1>2, <1>3, <1>4, <1>5, <1>6, <1>7, <1>8 DEF Next, Dispatch

\* A handler starts with nothing offered.
LEMMA HandlerInit == Init => IInv /\ Response!Init
  <1> SUFFICES ASSUME Init PROVE IInv /\ Response!Init
    OBVIOUS
  <1>1. Domains
    BY GoHandlerAssumption DEF Init, Domains, Places
  <1>2. ASSUME NEW r \in Requests PROVE Answer(r)
    BY DEF Init, Answer, InStream
  <1>3. Response!Init
    BY DEF Init, Response!Init
  <1> QED  BY <1>1, <1>2, <1>3 DEF IInv

\* TypeOK is an invariant: whatever sends fail, no variable leaves its domain and
\* no answer has more frames than a header, its chunks and an end.
THEOREM TypeCorrect == SafeSpec => []TypeOK
  <1>1. IInv /\ [Next]_vars => IInv'
    BY HandlerStep
  <1>2. IInv => TypeOK
    <2> SUFFICES ASSUME IInv, NEW r \in Requests PROVE Len(offered[r]) <= MaxChunks + 2
      BY DEF IInv, Domains, TypeOK
    <2>1. /\ Len(offered[r]) <= produced[r] + 2 /\ produced[r] \in 0..MaxChunks
          /\ Len(offered[r]) \in Nat
      BY DEF IInv, Domains, Answer
    <2> QED  BY <2>1, GoHandlerAssumption
  <1> QED  BY <1>1, <1>2, HandlerInit, PTL DEF SafeSpec

\* ImplementsResponse holds of every behaviour: each frame that the handler
\* offers to the Sendable is one that spec.md 8 allows after those before it.
THEOREM HandlerImplementsResponse == SafeSpec => ImplementsResponse
  <1>1. IInv /\ [Next]_vars => IInv' /\ [Response!Next]_offered
    BY HandlerStep
  <1> QED  BY <1>1, HandlerInit, PTL DEF SafeSpec, ImplementsResponse, Response!Spec

-------------------------------------------------------------------------------
\* The end of a body.

\* As long as the answer goes on there is no End on the wire.  Unless it is an
\* http.Handler that writes, a stream that goes on or is about to be closed has
\* all that was produced on the wire.  It is closed when its source ended or broke
\* off; of a StreamingHandler, only when it ended.
BodyOK(r) ==
    /\ place[r] # "done" => ~Has(r, "End")
    /\ place[r] \in {"none", "dispatched"} => sent[r] = <<>>
    /\ place[r] \in {"streaming", "closing"} /\ handler # "adapter" => Carries(sent[r], produced[r])
    /\ place[r] = "closing" => /\ source[r] # "open"
                               /\ handler = "custom" => source[r] = "ended"
    /\ Has(r, "End") => /\ handler = "adapter" \/ CarriesAll(sent[r], produced[r])
                        /\ source[r] # "open"
                        /\ handler = "custom" => source[r] = "ended"

\* What a send leaves on the wire.
LEMMA SentNext ==
    ASSUME Domains, NEW r \in Requests, NEW k, NEW ok, Send(r, k, ok)
    PROVE  /\ sent'[r] = IF ok THEN Append(sent[r], k) ELSE sent[r]
           /\ \A q \in Requests \ {r} : sent'[q] = sent[q]
  BY DEF Send, Domains

\* A request that is left alone keeps its body.
LEMMA SameBody ==
    ASSUME NEW q \in Requests, BodyOK(q), place'[q] = place[q], source'[q] = source[q],
           produced'[q] = produced[q], sent'[q] = sent[q], handler' = handler
    PROVE  BodyOK(q)'
  BY DEF BodyOK, Has

\* So does one that sends a last frame which is no End.
LEMMA LastFrame ==
    ASSUME Domains, NEW q \in Requests, BodyOK(q), place[q] # "done", place'[q] = "done",
           NEW k \in Kinds, k # "End", SendAnyway(q, k)
    PROVE  BodyOK(q)'
  <1>1. sent[q] \in Seq(Kinds) /\ \A i \in 1..Len(sent[q]) : sent[q][i] # "End"
    BY DEF Domains, BodyOK, Has
  <1>2. sent'[q] = Append(sent[q], k) \/ sent'[q] = sent[q]
    BY SentNext DEF SendAnyway
  <1>3. \A i \in 1..Len(sent'[q]) : sent'[q][i] # "End"
    <2>1. \A i \in 1..Len(Append(sent[q], k)) : Append(sent[q], k)[i] # "End"
      BY <1>1, NoEndYet
    <2> QED  BY <1>1, <1>2, <2>1
  <1> QED  BY <1>3 DEF BodyOK, Has

\* A header, sent or lost, begins a body.
LEMMA HeaderFrame ==
    ASSUME IInv, NEW q \in Requests, BodyOK(q), WriteHeader(q)
    PROVE  BodyOK(q)'
  <1>1. Domains /\ Answer(q)
    BY DEF IInv
  <1>2. CASE started[q]
    BY <1>2, SameBody DEF WriteHeader
  <1>3. CASE ~started[q]
    <2>1. /\ SendAnyway(q, "Start") /\ Go(q, "streaming") /\ handler' = handler
          /\ produced' = produced /\ place[q] = "dispatched"
      BY <1>1, <1>3 DEF WriteHeader, Answer, InStream
    <2>2. sent[q] = <<>> /\ produced[q] = 0 /\ place'[q] = "streaming"
      BY <1>1, <2>1 DEF BodyOK, Answer, Go, Domains
    <2>3. sent'[q] = <<>> \/ sent'[q] = Append(<<>>, "Start")
      BY <1>1, <2>1, <2>2, SentNext DEF SendAnyway
    <2>4. /\ Len(sent'[q]) \in 0..1
          /\ \A i \in 1..Len(sent'[q]) : sent'[q][i] # "End"
      <3>1. Len(<<>>) = 0
        OBVIOUS
      <3>2. Append(<<>>, "Start") = <<"Start">> /\ Len(<<"Start">>) = 1 /\ <<"Start">>[1] = "Start"
        OBVIOUS
      <3> QED  BY <2>3, <3>1, <3>2
    <2>5. Carries(sent'[q], 0)
      BY <2>4 DEF Carries
    <2> QED  BY <2>1, <2>2, <2>4, <2>5 DEF BodyOK, Has
  <1> QED  BY <1>2, <1>3

\* Every chunk of the body is on the wire, or the handler gives up, unless it is
\* an http.Handler.
LEMMA ChunkFrames ==
    ASSUME IInv, NEW q \in Requests, BodyOK(q), Write(q)
    PROVE  BodyOK(q)'
  <1>1. PICK ok \in BOOLEAN : Send(q, "Chunk", ok)
    BY DEF Write
  <1>2. /\ Domains /\ handler' = handler /\ "Chunk" \in Kinds /\ place[q] = "streaming"
        /\ produced'[q] = produced[q] + 1 /\ produced[q] \in Nat /\ sent[q] \in Seq(Kinds)
    BY DEF IInv, Domains, Write, Kinds
  <1>3. \A i \in 1..Len(sent[q]) : sent[q][i] # "End"
    BY <1>2 DEF BodyOK, Has
  <1>4. sent'[q] = Append(sent[q], "Chunk") \/ sent'[q] = sent[q]
    BY <1>1, <1>2, SentNext
  <1>5. \A i \in 1..Len(sent'[q]) : sent'[q][i] # "End"
    <2>1. \A i \in 1..Len(Append(sent[q], "Chunk")) : Append(sent[q], "Chunk")[i] # "End"
      BY <1>2, <1>3, NoEndYet
    <2> QED  BY <1>3, <1>4, <2>1
  <1>6. CASE handler = "adapter"
    <2>1. /\ place'[q] \in {"streaming", "closing"}
          /\ place'[q] = "closing" => source'[q] = "broken"
      BY <1>2, <1>6 DEF Write, Go, Domains
    <2> QED  BY <1>2, <1>5, <1>6, <2>1 DEF BodyOK, Has
  <1>7. CASE handler # "adapter"
    <2>1. \/ Send(q, "Chunk", TRUE) /\ place' = place
          \/ place'[q] = "failing"
      BY <1>2, <1>7 DEF Write, Go, Domains
    <2>2. CASE Send(q, "Chunk", TRUE) /\ place' = place
      <3>1. sent'[q] = Append(sent[q], "Chunk")
        BY <1>2, <2>2, SentNext
      <3>2. Carries(sent'[q], produced'[q])
        BY <1>2, <1>7, <3>1, CarriesMore DEF BodyOK
      <3> QED  BY <1>2, <1>5, <2>2, <3>2 DEF BodyOK, Has
    <2>3. CASE place'[q] = "failing"
      BY <1>5, <2>3 DEF BodyOK, Has
    <2> QED  BY <2>1, <2>2, <2>3
  <1> QED  BY <1>6, <1>7

\* An End closes it.
LEMMA EndFrame ==
    ASSUME IInv, NEW q \in Requests, BodyOK(q), CloseStream(q)
    PROVE  BodyOK(q)'
  <1>1. /\ Domains /\ place[q] = "closing" /\ handler' = handler /\ source' = source
        /\ produced' = produced /\ produced[q] \in Nat /\ place'[q] = "done"
        /\ sent[q] \in Seq(Kinds) /\ "End" \in Kinds
    BY DEF IInv, Domains, CloseStream, Go, Kinds
  <1>2. sent'[q] = Append(sent[q], "End") \/ sent'[q] = sent[q]
    BY <1>1, SentNext DEF CloseStream, SendAnyway
  <1>3. CASE sent'[q] = Append(sent[q], "End")
    <2>1. handler = "adapter" \/ CarriesAll(sent'[q], produced[q])
      BY <1>1, <1>3, CarriesMore DEF BodyOK
    <2> QED  BY <1>1, <2>1 DEF BodyOK
  <1>4. CASE sent'[q] = sent[q]
    BY <1>1, <1>4 DEF BodyOK, Has
  <1> QED  BY <1>2, <1>3, <1>4

\* Every step keeps every body.
LEMMA BodyStep ==
    ASSUME IInv, \A r \in Requests : BodyOK(r), [Next]_vars, NEW q \in Requests
    PROVE  BodyOK(q)'
  <1>0. Domains /\ Answer(q) /\ BodyOK(q) /\ {"Response", "Error"} \subseteq Kinds
    BY DEF IInv, Kinds
  <1>1. ASSUME NEW r \in Requests, r # q,
               HandleBad(r) \/ HandleGood(r) \/ WriteHeader(r) \/ Dispatch(r)
        PROVE  BodyOK(q)'
    <2>1. /\ place'[q] = place[q] /\ source'[q] = source[q] /\ produced'[q] = produced[q]
          /\ sent'[q] = sent[q] /\ handler' = handler
      BY <1>0, <1>1
      DEF HandleBad, HandleGood, WriteHeader, Dispatch, ServeBuffered, ServeFails, Write,
          SourceEnds, SourceBreaks, CloseStream, Fail, SendAnyway, Send, Go, Domains
    <2> QED  BY <1>0, <2>1, SameBody
  <1>2. CASE HandleBad(q) \/ ServeBuffered(q) \/ ServeFails(q) \/ Fail(q)
    <2>1. /\ SendAnyway(q, "Response") \/ SendAnyway(q, "Error")
          /\ place[q] # "done" /\ place'[q] = "done"
      BY <1>0, <1>2 DEF HandleBad, ServeBuffered, ServeFails, Fail, Go, Domains
    <2> QED  BY <1>0, <2>1, LastFrame
  <1>3. CASE HandleGood(q) \/ SourceEnds(q) \/ SourceBreaks(q)
    BY <1>0, <1>3 DEF HandleGood, SourceEnds, SourceBreaks, Go, Domains, BodyOK, Has
  <1>4. CASE WriteHeader(q)
    BY <1>0, <1>4, HeaderFrame
  <1>5. CASE Write(q)
    BY <1>0, <1>5, ChunkFrames
  <1>6. CASE CloseStream(q)
    BY <1>0, <1>6, EndFrame
  <1>7. CASE UNCHANGED vars
    BY <1>0, <1>7, SameBody DEF vars
  <1> QED  BY <1>1, <1>2, <1>3, <1>4, <1>5, <1>6, <1>7 DEF Next, Dispatch

\* An End on the wire stands after every chunk that was produced, but for an
\* http.Handler that ignores failed writes; and one that a StreamingHandler
\* sends, after a body that is complete.
THEOREM EndIsWholeBody == SafeSpec => []EndMeansWholeBody
  <1> DEFINE Bodies == \A r \in Requests : BodyOK(r)
  <1>1. Init => Bodies
    BY DEF Init, BodyOK, Has
  <1>2. IInv /\ Bodies /\ [Next]_vars => Bodies'
    BY BodyStep
  <1>3. IInv /\ [Next]_vars => IInv'
    BY HandlerStep
  <1>4. Bodies => EndMeansWholeBody
    BY DEF BodyOK, EndMeansWholeBody
  <1> QED  BY <1>1, <1>2, <1>3, <1>4, HandlerInit, PTL DEF SafeSpec

-------------------------------------------------------------------------------
\* What a send may be, for what is composed with a handler.

\* The frame k, accepted or not, is the first one, a chunk, an End or an Error.
Sends(r, k, ok) ==
    /\ Send(r, k, ok)
    /\ \/ /\ k \in {"Response", "Start", "Error"} /\ offered[r] = <<>> /\ sent[r] = <<>>
          /\ place[r] # "done" /\ produced'[r] = produced[r]
          /\ k = "Start" => place'[r] # "done"
       \/ /\ k = "Chunk" /\ place[r] = "streaming" /\ place'[r] # "done"
          /\ produced'[r] = produced[r] + 1
       \/ /\ k \in {"End", "Error"} /\ place[r] \in {"closing", "failing"} /\ place'[r] = "done"
          /\ k = "End" => place[r] = "closing"
          /\ produced'[r] = produced[r]

\* A step of the goroutine of r sends one frame of r, or nothing.
LEMMA Sending ==
    ASSUME IInv, NEW r \in Requests, BodyOK(r),
           HandleBad(r) \/ HandleGood(r) \/ WriteHeader(r) \/ Dispatch(r)
    PROVE  \/ /\ UNCHANGED <<offered, sent>> /\ produced'[r] = produced[r] /\ place[r] # "done"
              /\ place'[r] # "none" /\ place'[r] # "done"
           \/ (\E k \in Kinds, ok \in BOOLEAN : Sends(r, k, ok)) /\ place'[r] # "none"
  <1>0. /\ Domains /\ Answer(r) /\ {"Response", "Start", "Chunk", "End", "Error"} \subseteq Kinds
        /\ TRUE \in BOOLEAN /\ FALSE \in BOOLEAN
    BY DEF IInv, Kinds
  <1>1. CASE place[r] \in {"none", "dispatched"}
    <2>1. offered[r] = <<>> /\ sent[r] = <<>> /\ place[r] # "done" /\ ~started[r]
      BY <1>0, <1>1 DEF Answer, BodyOK
    <2>2. CASE HandleGood(r)
      BY <1>0, <2>1, <2>2 DEF HandleGood, Go, Domains
    <2>3. CASE HandleBad(r) \/ ServeBuffered(r) \/ ServeFails(r) \/ WriteHeader(r)
      <3>1. /\ \E k \in {"Response", "Start", "Error"} :
                  SendAnyway(r, k) /\ (k = "Start" => place'[r] # "done")
            /\ produced' = produced /\ place'[r] # "none"
        BY <1>0, <2>1, <2>3
        DEF HandleBad, ServeBuffered, ServeFails, WriteHeader, Go, Domains
      <3> QED  BY <1>0, <2>1, <3>1 DEF SendAnyway, Sends
    <2> QED  BY <1>1, <2>2, <2>3
             DEF Dispatch, Write, SourceEnds, SourceBreaks, CloseStream, Fail
  <1>2. CASE place[r] \notin {"none", "dispatched"}
    <2>1. CASE WriteHeader(r)
      BY <1>0, <1>2, <2>1 DEF WriteHeader, Answer, InStream
    <2>2. CASE Write(r)
      <3>1. \E ok \in BOOLEAN : Send(r, "Chunk", ok)
        BY <2>2 DEF Write
      <3>2. /\ place[r] = "streaming" /\ produced'[r] = produced[r] + 1
            /\ place'[r] # "done" /\ place'[r] # "none"
        BY <1>0, <2>2 DEF Write, Go, Domains
      <3> QED  BY <1>0, <3>1, <3>2 DEF Sends
    <2>3. CASE SourceEnds(r) \/ SourceBreaks(r)
      BY <1>0, <2>3 DEF SourceEnds, SourceBreaks, Go, Domains
    <2>4. CASE CloseStream(r)
      <3>1. SendAnyway(r, "End") /\ place[r] = "closing" /\ place'[r] = "done" /\ produced' = produced
        BY <1>0, <2>4 DEF CloseStream, Go, Domains
      <3> QED  BY <1>0, <3>1 DEF SendAnyway, Sends
    <2>5. CASE Fail(r)
      <3>1. SendAnyway(r, "Error") /\ place[r] = "failing" /\ place'[r] = "done" /\ produced' = produced
        BY <1>0, <2>5 DEF Fail, Go, Domains
      <3> QED  BY <1>0, <3>1 DEF SendAnyway, Sends
    <2> QED  BY <1>2, <2>1, <2>2, <2>3, <2>4, <2>5
             DEF HandleBad, HandleGood, Dispatch, ServeBuffered, ServeFails
  <1> QED  BY <1>1, <1>2

\* What is offered is allowed, its End is the last frame of a whole body, and
\* what is sent after a header belongs to its body.
Offers(r) ==
    /\ Conforming(Frames(offered[r]))
    /\ \A i \in 1..Len(offered[r]) :
          offered[r][i] = "End" => place[r] = "done" /\ i = produced[r] + 2
    /\ \A i \in 2..Len(sent[r]) : sent[r][i] \in {"Chunk", "End", "Error"}

\* Every step keeps the offers.
LEMMA OffersStep ==
    ASSUME IInv, \A r \in Requests : BodyOK(r) /\ Offers(r), [Next]_vars, NEW q \in Requests
    PROVE  Offers(q)'
  <1>0. /\ Domains /\ Answer(q) /\ BodyOK(q) /\ Offers(q) /\ produced[q] \in Nat
        /\ offered[q] \in Seq(Kinds) /\ sent[q] \in Seq(Kinds)
    BY GoHandlerAssumption DEF IInv, Domains
  <1>1. Conforming(Frames(offered[q]))'
    <2>1. [Response!Next]_offered
      BY HandlerStep
    <2>2. offered' = offered => Conforming(Frames(offered'[q]))
      BY <1>0 DEF Offers
    <2>3. ASSUME NEW r \in Requests, NEW k \in Kinds, Response!Emit(r, k)
          PROVE  Conforming(Frames(offered'[q]))
      <3>1. CASE r = q
        <4>1. Response!Conforming(Response!Frames(Append(offered[r], k)))
              /\ offered' = [offered EXCEPT ![r] = Append(@, k)]
          BY <2>3 DEF Response!Emit
        <4>2. Conforming(Frames(Append(offered[r], k)))
          BY <4>1 DEF Response!Conforming, Response!Frames, Response!Good, Response!Terminal,
             Conforming, Frames, Good, Terminal
        <4>3. offered'[q] = Append(offered[r], k)
          BY <1>0, <3>1, <4>1 DEF Domains
        <4> QED  BY <4>2, <4>3
      <3>2. CASE r # q
        BY <1>0, <2>3, <3>2 DEF Domains, Offers, Response!Emit
      <3> QED  BY <3>1, <3>2
    <2>4. Conforming(Frames(offered'[q])) => Conforming(Frames(offered[q]))'
      BY DEF Conforming, Frames
    <2> QED  BY <2>1, <2>2, <2>3, <2>4 DEF Response!Next, Response!Kinds, Kinds
  <1>2. CASE offered'[q] = offered[q] /\ sent'[q] = sent[q] /\ produced'[q] = produced[q]
             /\ (place[q] = "done" => place'[q] = "done")
    BY <1>0, <1>1, <1>2 DEF Offers
  <1>3. ASSUME NEW k \in Kinds, NEW ok \in BOOLEAN, Sends(q, k, ok) PROVE Offers(q)'
    <2>1. /\ offered'[q] = Append(offered[q], k)
          /\ sent'[q] = sent[q] \/ sent'[q] = Append(sent[q], k)
      BY <1>0, <1>3 DEF Sends, Send, Domains
    <2>2. ASSUME NEW i \in 1..Len(offered'[q]), offered'[q][i] = "End"
          PROVE  place'[q] = "done" /\ i = produced'[q] + 2
      <3>1. i \in 1..Len(offered[q]) \/ i = Len(offered[q]) + 1
        BY <1>0, <2>1, Appended
      <3>2. CASE i \in 1..Len(offered[q])
        <4>1. offered[q][i] = "End"
          BY <1>0, <2>1, <2>2, <3>2, Appended
        <4>2. place[q] = "done" /\ offered[q] # <<>>
          BY <1>0, <3>2, <4>1 DEF Offers
        <4> QED  BY <1>3, <4>2 DEF Sends
      <3>3. CASE i = Len(offered[q]) + 1
        <4>1. k = "End"
          BY <1>0, <2>1, <2>2, <3>3, Appended
        <4>2. place[q] = "closing" /\ place'[q] = "done" /\ produced'[q] = produced[q]
          BY <1>3, <4>1 DEF Sends
        <4>3. Len(offered[q]) = produced[q] + 1
          BY <1>0, <4>2 DEF Answer, InStream
        <4> QED  BY <1>0, <3>3, <4>2, <4>3
      <3> QED  BY <3>1, <3>2, <3>3
    <2>3. ASSUME NEW i \in 2..Len(sent'[q]) PROVE sent'[q][i] \in {"Chunk", "End", "Error"}
      <3>1. CASE sent'[q] = sent[q]
        BY <1>0, <2>3, <3>1 DEF Offers
      <3>2. CASE sent'[q] = Append(sent[q], k)
        <4>1. i \in 2..Len(sent[q]) \/ (i = Len(sent[q]) + 1 /\ Len(sent[q]) > 0)
          BY <1>0, <2>3, <3>2, Appended
        <4>2. CASE i \in 2..Len(sent[q])
          <5>1. sent'[q][i] = sent[q][i]
            BY <1>0, <3>2, <4>2, Appended
          <5> QED  BY <1>0, <4>2, <5>1 DEF Offers
        <4>3. CASE i = Len(sent[q]) + 1 /\ Len(sent[q]) > 0
          <5>1. sent'[q][i] = k
            BY <1>0, <3>2, <4>3, Appended
          <5>2. sent[q] # <<>>
            BY <4>3
          <5> QED  BY <1>3, <5>1, <5>2 DEF Sends
        <4> QED  BY <4>1, <4>2, <4>3
      <3> QED  BY <2>1, <3>1, <3>2
    <2> QED  BY <1>1, <2>2, <2>3 DEF Offers
  <1>4. ASSUME NEW r \in Requests, r # q,
               HandleBad(r) \/ HandleGood(r) \/ WriteHeader(r) \/ Dispatch(r)
        PROVE  Offers(q)'
    <2>1. /\ place'[q] = place[q] /\ produced'[q] = produced[q]
          /\ sent'[q] = sent[q] /\ offered'[q] = offered[q]
      BY <1>0, <1>4
      DEF HandleBad, HandleGood, WriteHeader, Dispatch, ServeBuffered, ServeFails, Write,
          SourceEnds, SourceBreaks, CloseStream, Fail, SendAnyway, Send, Go, Domains
    <2> QED  BY <1>2, <2>1
  <1>5. ASSUME HandleBad(q) \/ HandleGood(q) \/ WriteHeader(q) \/ Dispatch(q) PROVE Offers(q)'
    BY <1>0, <1>2, <1>3, <1>5, Sending
  <1>6. CASE UNCHANGED vars
    BY <1>2, <1>6 DEF vars
  <1> QED  BY <1>4, <1>5, <1>6 DEF Next

\* Together, these are an inductive invariant of the handler.
Conduct == IInv /\ \A r \in Requests : BodyOK(r) /\ Offers(r)

LEMMA ConductInit == Init => Conduct
  <1> SUFFICES ASSUME Init, NEW r \in Requests PROVE BodyOK(r) /\ Offers(r)
    BY HandlerInit DEF Conduct
  <1>1. offered[r] = <<>> /\ sent[r] = <<>> /\ place[r] = "none"
    BY DEF Init
  <1>2. Len(offered[r]) = 0 /\ Len(sent[r]) = 0
    BY <1>1
  <1>3. Frames(offered[r]) = <<>>
    BY <1>2 DEF Frames
  <1>4. Conforming(<<>>)
    BY DEF Conforming
  <1>5. Conforming(Frames(offered[r]))
    BY <1>3, <1>4
  <1> QED  BY <1>1, <1>2, <1>5 DEF Init, BodyOK, Has, Offers

LEMMA ConductStep == Conduct /\ [Next]_vars => Conduct'
  BY HandlerStep, BodyStep, OffersStep DEF Conduct

-------------------------------------------------------------------------------
\* Every request is answered: what of it is no matter of fairness.

\* A goroutine that has finished has given a last frame to the Sendable.
DoneIsAnswered ==
    \A r \in Requests : place[r] = "done" =>
        offered[r] # <<>> /\ offered[r][Len(offered[r])] \in Terminal

\* How many steps a goroutine has at most left.
Left(r) ==
    CASE place[r] = "none" -> MaxChunks + 4
      [] place[r] = "dispatched" -> MaxChunks + 3
      [] place[r] = "streaming" -> MaxChunks - produced[r] + 2
      [] place[r] \in {"closing", "failing"} -> 1
      [] OTHER -> 0

\* Every step brings one answer nearer its end and leaves the others where they
\* are.
Hurries ==
    \E r \in Requests : /\ Left(r)' < Left(r)
                        /\ \A q \in Requests \ {r} : Left(q)' = Left(q)

LEMMA LeftFacts ==
    ASSUME NEW r \in Requests
    PROVE  /\ place[r] = "none" => Left(r) = MaxChunks + 4
           /\ place[r] = "dispatched" => Left(r) = MaxChunks + 3
           /\ place[r] = "streaming" => Left(r) = MaxChunks - produced[r] + 2
           /\ place[r] \in {"closing", "failing"} => Left(r) = 1
           /\ place[r] = "done" => Left(r) = 0
  BY DEF Left

LEMMA LeftFactsNext ==
    ASSUME NEW r \in Requests
    PROVE  /\ place'[r] = "none" => Left(r)' = MaxChunks + 4
           /\ place'[r] = "dispatched" => Left(r)' = MaxChunks + 3
           /\ place'[r] = "streaming" => Left(r)' = MaxChunks - produced'[r] + 2
           /\ place'[r] \in {"closing", "failing"} => Left(r)' = 1
           /\ place'[r] = "done" => Left(r)' = 0
  BY DEF Left

\* What the goroutine of r does is nothing to those of other requests.
LEMMA OthersStay ==
    ASSUME IInv, NEW r \in Requests, NEW q \in Requests \ {r},
           HandleBad(r) \/ HandleGood(r) \/ WriteHeader(r) \/ Dispatch(r)
    PROVE  place'[q] = place[q] /\ produced'[q] = produced[q] /\ offered'[q] = offered[q]
  BY DEF HandleBad, HandleGood, WriteHeader, Dispatch, ServeBuffered, ServeFails, Write,
         SourceEnds, SourceBreaks, CloseStream, Fail, SendAnyway, Send, Go, IInv, Domains

\* Every step of a goroutine but a second WriteHeader, which does nothing,
\* brings it nearer its end.
LEMMA Advances ==
    ASSUME IInv, NEW r \in Requests,
           HandleBad(r) \/ HandleGood(r) \/ WriteHeader(r) \/ Dispatch(r)
    PROVE  Left(r)' < Left(r) \/ UNCHANGED vars
  <1>0. Domains /\ Answer(r) /\ MaxChunks \in Nat /\ produced[r] \in 0..MaxChunks
    BY GoHandlerAssumption DEF IInv, Domains
  <1>1. CASE HandleBad(r) \/ HandleGood(r)
    <2>1. place[r] = "none" /\ place'[r] \in {"dispatched", "done"}
      BY <1>0, <1>1 DEF HandleBad, HandleGood, Go, Domains
    <2> QED  BY <1>0, <2>1, LeftFacts, LeftFactsNext
  <1>2. CASE WriteHeader(r)
    <2>1. CASE started[r]
      BY <1>2, <2>1 DEF WriteHeader, vars
    <2>2. CASE ~started[r]
      <3>1. place[r] = "dispatched" /\ place'[r] = "streaming" /\ produced'[r] = 0
        BY <1>0, <1>2, <2>2 DEF WriteHeader, Answer, InStream, Go, Domains
      <3> QED  BY <1>0, <3>1, LeftFacts, LeftFactsNext
    <2> QED  BY <2>1, <2>2
  <1>3. CASE Write(r)
    <2>1. /\ place[r] = "streaming" /\ produced[r] < MaxChunks /\ produced'[r] = produced[r] + 1
          /\ place'[r] \in {"streaming", "closing", "failing"}
      BY <1>0, <1>3 DEF Write, Go, Domains
    <2> QED  BY <1>0, <2>1, LeftFacts, LeftFactsNext
  <1>4. CASE SourceEnds(r) \/ SourceBreaks(r)
    <2>1. place[r] = "streaming" /\ place'[r] \in {"closing", "failing"}
      BY <1>0, <1>4 DEF SourceEnds, SourceBreaks, Go, Domains
    <2> QED  BY <1>0, <2>1, LeftFacts, LeftFactsNext
  <1>5. CASE ServeBuffered(r) \/ ServeFails(r) \/ CloseStream(r) \/ Fail(r)
    <2>1. place[r] \in {"dispatched", "closing", "failing"} /\ place'[r] = "done"
      BY <1>0, <1>5 DEF ServeBuffered, ServeFails, CloseStream, Fail, Go, Domains
    <2> QED  BY <1>0, <2>1, LeftFacts, LeftFactsNext
  <1> QED  BY <1>1, <1>2, <1>3, <1>4, <1>5 DEF Dispatch

\* What is appended is last.
LEMMA LastAppended ==
    ASSUME NEW s \in Seq(Kinds), NEW k \in Kinds
    PROVE  Append(s, k) # <<>> /\ Append(s, k)[Len(Append(s, k))] = k
  BY Appended

LEMMA DoneStep == Conduct /\ DoneIsAnswered /\ [Next]_vars => DoneIsAnswered'
  <1> SUFFICES ASSUME Conduct, DoneIsAnswered, [Next]_vars, NEW r \in Requests,
                      place'[r] = "done"
               PROVE  offered'[r] # <<>> /\ offered'[r][Len(offered'[r])] \in Terminal
    BY DEF DoneIsAnswered
  <1>0. /\ IInv /\ BodyOK(r) /\ offered[r] \in Seq(Kinds) /\ offered \in [Requests -> Seq(Kinds)]
    BY DEF Conduct, IInv, Domains
  <1>1. CASE place'[r] = place[r] /\ offered'[r] = offered[r]
    BY <1>1 DEF DoneIsAnswered
  <1>3. CASE \E q \in Requests \ {r} : \/ HandleBad(q) \/ HandleGood(q)
                                       \/ WriteHeader(q) \/ Dispatch(q)
    BY <1>0, <1>1, <1>3, OthersStay
  <1>2. CASE HandleBad(r) \/ HandleGood(r) \/ WriteHeader(r) \/ Dispatch(r)
    <2>1. PICK k \in Kinds, ok \in BOOLEAN : Sends(r, k, ok)
      BY <1>0, <1>2, Sending
    <2>2. k \in Terminal /\ offered'[r] = Append(offered[r], k)
      BY <1>0, <2>1 DEF Sends, Send, Terminal
    <2>3. offered[r] \in Seq(Kinds) /\ k \in Kinds
      BY <1>0
    <2>4. Append(offered[r], k) # <<>> /\ Append(offered[r], k)[Len(Append(offered[r], k))] = k
      BY <2>3, LastAppended
    <2> QED  BY <2>2, <2>4
  <1> QED  BY <1>1, <1>2, <1>3 DEF Next, vars

\* Whichever sends fail, no goroutine leaves its request without a last frame
\* given to the Sendable: a response, an End or an Error.
THEOREM DoneAreAnswered == SafeSpec => []DoneIsAnswered
  <1>1. Init => DoneIsAnswered
    BY DEF Init, DoneIsAnswered
  <1> QED  BY <1>1, ConductInit, ConductStep, DoneStep, PTL DEF SafeSpec

\* No answer goes on for ever: Left is a natural number, zero when the goroutine
\* is done, and every step of the handler lowers it for one request and for no
\* other raises it.  None takes more than MaxChunks + 4 steps, whatever fails.
THEOREM AnswersHurry ==
    SafeSpec => []( \A r \in Requests : Left(r) \in Nat /\ (Left(r) = 0 <=> place[r] = "done") )
                /\ [][Hurries]_vars
  <1>1. ASSUME IInv, NEW r \in Requests
        PROVE  Left(r) \in Nat /\ (Left(r) = 0 <=> place[r] = "done")
    <2>1. MaxChunks \in Nat /\ produced[r] \in 0..MaxChunks /\ place[r] \in Places
      BY <1>1, GoHandlerAssumption DEF IInv, Domains
    <2> QED  BY <2>1, LeftFacts DEF Places
  <1>2. ASSUME IInv, Next, ~UNCHANGED vars PROVE Hurries
    <2>1. PICK r \in Requests : HandleBad(r) \/ HandleGood(r) \/ WriteHeader(r) \/ Dispatch(r)
      BY <1>2 DEF Next
    <2>2. ASSUME NEW q \in Requests \ {r} PROVE Left(q)' = Left(q)
      BY <1>2, <2>1, OthersStay DEF Left
    <2> QED  BY <1>2, <2>1, <2>2, Advances DEF Hurries
  <1>3. IInv /\ [Next]_vars => IInv'
    BY HandlerStep
  <1> DEFINE Counts == \A r \in Requests : Left(r) \in Nat /\ (Left(r) = 0 <=> place[r] = "done")
  <1>4. IInv => Counts
    BY <1>1
  <1>5. IInv /\ [Next]_vars => [Hurries]_vars
    BY <1>2
  <1> HIDE DEF Counts
  <1>6. SafeSpec => []Counts /\ [][Hurries]_vars
    BY <1>3, <1>4, <1>5, HandlerInit, PTL DEF SafeSpec
  <1> QED  BY <1>6 DEF Counts

===============================================================================
