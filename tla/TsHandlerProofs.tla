---------------------------- MODULE TsHandlerProofs ----------------------------
(***************************************************************************)
(* Theorems about the TypeScript handler, for any number of requests,      *)
(* every kind of handler and bodies of any length.                         *)
(***************************************************************************)
EXTENDS TsHandler, WireRepliesProofs

-------------------------------------------------------------------------------
\* The inductive invariant.

\* Where what is on the wire may still grow: nothing before the header, an open
\* stream after it, and in the catch block what `started' says or, when the send
\* of the header threw, nothing.
Answer(r) ==
    /\ place[r] \in {"none", "serving"} => sent[r] = <<>> /\ ~started[r]
    /\ place[r] = "streaming" => Open(sent[r]) /\ started[r]
    /\ place[r] = "failing" => sent[r] = <<>> \/ (started[r] /\ Open(sent[r]))

IInv == TypeOK /\ \A r \in Requests : Answer(r)

-------------------------------------------------------------------------------
\* Sends.

\* A frame that goes out and that the protocol allows is a step of the protocol.
LEMMA SendEmits ==
    ASSUME TypeOK, NEW r \in Requests, NEW k \in Kinds, Sends(r, k),
           Conforming(Frames(Append(sent[r], k)))
    PROVE  /\ sent' \in [Requests -> Seq(Kinds)]
           /\ sent'[r] = Append(sent[r], k)
           /\ \A q \in Requests \ {r} : sent'[q] = sent[q]
           /\ [Response!Next]_sent
  <1>1. sent \in [Requests -> Seq(Kinds)] /\ Append(sent[r], k) \in Seq(Kinds)
    BY Appended DEF TypeOK
  <1>2. Response!Emit(r, k)
    BY DEF Sends, Response!Emit, Response!Conforming, Response!Frames, Response!Good,
           Response!Terminal, Conforming, Frames, Good, Terminal
  <1>3. k \in Response!Kinds
    BY DEF Kinds, Response!Kinds
  <1> QED  BY <1>1, <1>2, <1>3 DEF Sends, Response!Next

\* Which frames the protocol allows where, and what they leave.
LEMMA Allowed ==
    ASSUME TypeOK, NEW r \in Requests
    PROVE  /\ sent[r] = <<>> =>
                 /\ \A k \in {"Response", "Start", "Error"} :
                       Conforming(Frames(Append(sent[r], k)))
                 /\ Open(Append(sent[r], "Start"))
           /\ Open(sent[r]) =>
                 /\ \A k \in {"Chunk", "End", "Error"} :
                       Conforming(Frames(Append(sent[r], k)))
                 /\ Open(Append(sent[r], "Chunk"))
  <1>1. sent[r] \in Seq(Kinds)
    BY DEF TypeOK
  <1> QED  BY <1>1, FirstFrame, NextFrame, StaysOpen

\* sendEnv, where the protocol allows the frame: it goes out, or the throw takes
\* handleRequest elsewhere and the wire stays as it is.
LEMMA SendEnvStep ==
    ASSUME TypeOK, NEW r \in Requests, NEW k \in Kinds, NEW p, NEW q, SendEnv(r, k, p, q),
           Conforming(Frames(Append(sent[r], k)))
    PROVE  /\ sent' \in [Requests -> Seq(Kinds)] /\ threw' \in SUBSET Requests
           /\ \/ sent'[r] = Append(sent[r], k) /\ Goes(r, p)
              \/ sent'[r] = sent[r] /\ Goes(r, q)
           /\ \A s \in Requests \ {r} : sent'[s] = sent[s]
           /\ [Response!Next]_sent
  <1>1. CASE Sends(r, k) /\ Goes(r, p) /\ UNCHANGED threw
    BY <1>1, SendEmits DEF TypeOK
  <1>2. CASE threw' = threw \cup {r} /\ Goes(r, q) /\ UNCHANGED sent
    BY <1>2 DEF TypeOK
  <1> QED  BY <1>1, <1>2 DEF SendEnv

-------------------------------------------------------------------------------
\* Steps.

Places == {"none", "serving", "streaming", "failing", "done"}

\* What the places of the others need to stay as they are.
LEMMA AnswerKept ==
    ASSUME NEW q \in Requests, Answer(q),
           place'[q] = place[q], started'[q] = started[q], sent'[q] = sent[q]
    PROVE  Answer(q)'
  BY DEF Answer

\* Where handleRequest goes.
LEMMA GoesType ==
    ASSUME TypeOK, NEW r \in Requests, NEW p \in Places, Goes(r, p)
    PROVE  /\ place' \in [Requests -> Places] /\ place'[r] = p
           /\ \A q \in Requests \ {r} : place'[q] = place[q]
  BY DEF Goes, TypeOK, Places

\* Every step keeps the invariant, and is a step of the protocol or none.
LEMMA HandlerStep ==
    ASSUME IInv, [Next]_vars
    PROVE  IInv' /\ [Response!Next]_sent
  <1> USE TsHandlerAssumption
  <1> DEFINE Goal == IInv' /\ [Response!Next]_sent
             Others(r) == \A q \in Requests \ {r} : Answer(q)'
  <1>0. TypeOK /\ \A r \in Requests : Answer(r)
    BY DEF IInv
  <1>k. \A k \in {"Response", "Start", "Chunk", "End", "Error"} : k \in Kinds
    BY DEF Kinds
  <1>1. ASSUME NEW r \in Requests, Handle(r) PROVE Goal
    <2>1. Goes(r, "serving") /\ "serving" \in Places
      BY <1>1 DEF Handle, Places
    <2>2. TypeOK'
      BY <1>0, <1>1, <2>1, GoesType DEF Handle, TypeOK, Places
    <2>3. Answer(r)' /\ Others(r)
      <3>1. Answer(r)'
        BY <1>0, <1>1, <2>1, GoesType DEF Handle, Answer
      <3>2. Others(r)
        BY <1>0, <1>1, <2>1, GoesType, AnswerKept DEF Handle
      <3> QED  BY <3>1, <3>2
    <2> QED  BY <1>1, <2>2, <2>3 DEF Handle, IInv
  <1>2. ASSUME NEW r \in Requests, ServeBuffered(r) PROVE Goal
    <2>1. sent[r] = <<>> /\ SendEnv(r, "Response", "done", "failing")
      BY <1>0, <1>2 DEF ServeBuffered, Answer
    <2>2. /\ sent' \in [Requests -> Seq(Kinds)] /\ threw' \in SUBSET Requests
          /\ \/ sent'[r] = Append(sent[r], "Response") /\ Goes(r, "done")
             \/ sent'[r] = sent[r] /\ Goes(r, "failing")
          /\ \A s \in Requests \ {r} : sent'[s] = sent[s]
          /\ [Response!Next]_sent
      BY <1>0, <1>k, <2>1, Allowed, SendEnvStep
    <2>3. {"done", "failing"} \subseteq Places
      BY DEF Places
    <2>4. TypeOK'
      BY <1>0, <1>2, <2>2, <2>3, GoesType DEF ServeBuffered, TypeOK, Places
    <2>5. Answer(r)' /\ Others(r)
      <3>1. Answer(r)'
        <4>1. place'[r] = "done" \/ (place'[r] = "failing" /\ sent'[r] = <<>>)
          BY <1>0, <2>1, <2>2, <2>3, GoesType
        <4> QED  BY <4>1 DEF Answer
      <3>2. Others(r)
        BY <1>0, <1>2, <2>1, <2>2, <2>3, GoesType, AnswerKept DEF ServeBuffered
      <3> QED  BY <3>1, <3>2
    <2> QED  BY <2>2, <2>4, <2>5 DEF IInv
  <1>3. ASSUME NEW r \in Requests, ServeFails(r) \/ SourceBreaks(r) PROVE Goal
    <2>1. Goes(r, "failing") /\ "failing" \in Places
      BY <1>3 DEF ServeFails, SourceBreaks, Places
    <2>2. /\ UNCHANGED <<handler, started, produced, sent, threw>>
          /\ source' \in [Requests -> {"open", "ended", "broken"}]
      BY <1>0, <1>3 DEF ServeFails, SourceBreaks, TypeOK
    <2>3. TypeOK'
      BY <1>0, <2>1, <2>2, GoesType DEF TypeOK, Places
    <2>4. Answer(r)' /\ Others(r)
      <3>1. Answer(r)'
        <4>1. place'[r] = "failing" /\ sent'[r] = sent[r] /\ started'[r] = started[r]
          BY <1>0, <2>1, <2>2, GoesType
        <4>2. sent[r] = <<>> \/ (started[r] /\ Open(sent[r]))
          BY <1>0, <1>3 DEF ServeFails, SourceBreaks, Answer
        <4> QED  BY <4>1, <4>2 DEF Answer
      <3>2. Others(r)
        BY <1>0, <1>3, <2>1, <2>2, GoesType, AnswerKept DEF ServeFails, SourceBreaks
      <3> QED  BY <3>1, <3>2
    <2> QED  BY <2>2, <2>3, <2>4 DEF IInv
  <1>4. ASSUME NEW r \in Requests, WriteHeader(r) PROVE Goal
    <2>1. sent[r] = <<>> /\ SendEnv(r, "Start", "streaming", "failing")
      BY <1>0, <1>4 DEF WriteHeader, Answer
    <2>2. /\ sent' \in [Requests -> Seq(Kinds)] /\ threw' \in SUBSET Requests
          /\ \/ sent'[r] = Append(sent[r], "Start") /\ Goes(r, "streaming")
             \/ sent'[r] = sent[r] /\ Goes(r, "failing")
          /\ \A s \in Requests \ {r} : sent'[s] = sent[s]
          /\ [Response!Next]_sent
      BY <1>0, <1>k, <2>1, Allowed, SendEnvStep
    <2>3. {"streaming", "failing"} \subseteq Places
      BY DEF Places
    <2>4. started' = [started EXCEPT ![r] = TRUE] /\ started \in [Requests -> BOOLEAN]
      BY <1>0, <1>4 DEF WriteHeader, TypeOK
    <2>5. TypeOK'
      BY <1>0, <1>4, <2>2, <2>3, <2>4, GoesType DEF WriteHeader, TypeOK, Places
    <2>6. Answer(r)' /\ Others(r)
      <3>1. Answer(r)'
        <4>1. /\ started'[r]
              /\ \/ place'[r] = "streaming" /\ Open(sent'[r])
                 \/ place'[r] = "failing" /\ sent'[r] = <<>>
          BY <1>0, <2>1, <2>2, <2>3, <2>4, GoesType, Allowed
        <4> QED  BY <4>1 DEF Answer
      <3>2. Others(r)
        BY <1>0, <2>1, <2>2, <2>3, <2>4, GoesType, AnswerKept
      <3> QED  BY <3>1, <3>2
    <2> QED  BY <2>2, <2>5, <2>6 DEF IInv
  <1>5. ASSUME NEW r \in Requests, Write(r) PROVE Goal
    <2>1. Open(sent[r]) /\ started[r] /\ SendEnv(r, "Chunk", "streaming", "failing")
      BY <1>0, <1>5 DEF Write, Answer
    <2>2. /\ sent' \in [Requests -> Seq(Kinds)] /\ threw' \in SUBSET Requests
          /\ \/ sent'[r] = Append(sent[r], "Chunk") /\ Goes(r, "streaming")
             \/ sent'[r] = sent[r] /\ Goes(r, "failing")
          /\ \A s \in Requests \ {r} : sent'[s] = sent[s]
          /\ [Response!Next]_sent
      BY <1>0, <1>k, <2>1, Allowed, SendEnvStep
    <2>3. {"streaming", "failing"} \subseteq Places
      BY DEF Places
    <2>4. produced' \in [Requests -> 0..MaxChunks]
      BY <1>0, <1>5 DEF Write, TypeOK
    <2>5. TypeOK'
      BY <1>0, <1>5, <2>1, <2>2, <2>3, <2>4, GoesType DEF Write, TypeOK, Places
    <2>6. Answer(r)' /\ Others(r)
      <3>1. Answer(r)'
        BY <1>0, <1>5, <2>1, <2>2, <2>3, GoesType, Allowed DEF Write, Answer
      <3>2. Others(r)
        BY <1>0, <1>5, <2>1, <2>2, <2>3, GoesType, AnswerKept DEF Write
      <3> QED  BY <3>1, <3>2
    <2> QED  BY <2>2, <2>5, <2>6 DEF IInv
  <1>6. ASSUME NEW r \in Requests, SourceEnds(r) PROVE Goal
    <2>1. Open(sent[r]) /\ started[r] /\ SendEnv(r, "End", "done", "failing")
      BY <1>0, <1>6 DEF SourceEnds, Answer
    <2>2. /\ sent' \in [Requests -> Seq(Kinds)] /\ threw' \in SUBSET Requests
          /\ \/ sent'[r] = Append(sent[r], "End") /\ Goes(r, "done")
             \/ sent'[r] = sent[r] /\ Goes(r, "failing")
          /\ \A s \in Requests \ {r} : sent'[s] = sent[s]
          /\ [Response!Next]_sent
      BY <1>0, <1>k, <2>1, Allowed, SendEnvStep
    <2>3. {"done", "failing"} \subseteq Places
      BY DEF Places
    <2>4. source' \in [Requests -> {"open", "ended", "broken"}]
      BY <1>0, <1>6 DEF SourceEnds, TypeOK
    <2>5. TypeOK'
      BY <1>0, <1>6, <2>2, <2>3, <2>4, GoesType DEF SourceEnds, TypeOK, Places
    <2>6. Answer(r)' /\ Others(r)
      <3>1. Answer(r)'
        BY <1>0, <1>6, <2>1, <2>2, <2>3, GoesType DEF SourceEnds, Answer
      <3>2. Others(r)
        BY <1>0, <1>6, <2>1, <2>2, <2>3, GoesType, AnswerKept DEF SourceEnds
      <3> QED  BY <3>1, <3>2
    <2> QED  BY <2>2, <2>5, <2>6 DEF IInv
  <1>7. ASSUME NEW r \in Requests, Fails(r) PROVE Goal
    <2> DEFINE k == IF started[r] THEN "Error" ELSE "Response"
    <2>1. /\ k \in Kinds /\ Conforming(Frames(Append(sent[r], k)))
          /\ SendEnv(r, k, "done", "done")
      <3>1. sent[r] = <<>> \/ (started[r] /\ Open(sent[r]))
        BY <1>0, <1>7 DEF Fails, Answer
      <3> QED  BY <1>0, <1>7, <1>k, <3>1, Allowed DEF Fails
    <2> HIDE DEF k
    <2>2. /\ sent' \in [Requests -> Seq(Kinds)] /\ threw' \in SUBSET Requests
          /\ Goes(r, "done")
          /\ \A s \in Requests \ {r} : sent'[s] = sent[s]
          /\ [Response!Next]_sent
      BY <1>0, <2>1, SendEnvStep
    <2>3. "done" \in Places
      BY DEF Places
    <2>4. TypeOK'
      BY <1>0, <1>7, <2>2, <2>3, GoesType DEF Fails, TypeOK, Places
    <2>5. Answer(r)' /\ Others(r)
      <3>1. Answer(r)'
        BY <1>0, <1>7, <2>2, <2>3, GoesType DEF Fails, Answer
      <3>2. Others(r)
        BY <1>0, <1>7, <2>2, <2>3, GoesType, AnswerKept DEF Fails
      <3> QED  BY <3>1, <3>2
    <2> QED  BY <2>2, <2>4, <2>5 DEF IInv
  <1>8. CASE UNCHANGED vars
    BY <1>0, <1>8, AnswerKept DEF vars, IInv, TypeOK
  <1> QED
    BY <1>1, <1>2, <1>3, <1>4, <1>5, <1>6, <1>7, <1>8 DEF Next, Serve

\* A handler starts with nothing on the wire.
LEMMA HandlerInit == Init => IInv /\ Response!Init
  <1> SUFFICES ASSUME Init PROVE IInv /\ Response!Init
    OBVIOUS
  <1>1. TypeOK
    BY TsHandlerAssumption DEF Init, TypeOK
  <1>2. ASSUME NEW r \in Requests PROVE Answer(r)
    BY DEF Init, Answer
  <1>3. Response!Init
    BY DEF Init, Response!Init
  <1> QED  BY <1>1, <1>2, <1>3 DEF IInv

\* TypeOK is an invariant: whatever throws, no variable leaves its domain, and
\* nothing is streamed without a header.
THEOREM TypeCorrect == SafeSpec => []TypeOK
  <1>1. IInv /\ [Next]_vars => IInv'
    BY HandlerStep
  <1>2. IInv => TypeOK
    BY DEF IInv
  <1> QED  BY <1>1, <1>2, HandlerInit, PTL DEF SafeSpec

\* ImplementsResponse holds of every behaviour: each frame that reaches the wire
\* is one that spec.md 8 allows after those before it, whichever sends throw.
THEOREM HandlerImplementsResponse == SafeSpec => ImplementsResponse
  <1>1. IInv /\ [Next]_vars => IInv' /\ [Response!Next]_sent
    BY HandlerStep
  <1> QED  BY <1>1, HandlerInit, PTL DEF SafeSpec, ImplementsResponse, Response!Spec

-------------------------------------------------------------------------------
\* The end of a body.

\* As long as the answer goes on there is no End on the wire; a stream is a
\* header and the chunks that the source has produced, until a send throws.
BodyOK(r) ==
    /\ place[r] # "done" => ~Has(r, "End")
    /\ place[r] \in {"none", "serving"} => produced[r] = 0
    /\ place[r] = "streaming" => Len(sent[r]) = produced[r] + 1
    /\ Has(r, "End") => source[r] = "ended" /\ CarriesAll(sent[r], produced[r])

\* A frame after the chunks leaves them all there.
LEMMA AfterChunks ==
    ASSUME NEW s \in Seq(Kinds), NEW k \in Kinds, NEW n \in Nat, Open(s), Len(s) = n + 1
    PROVE  CarriesAll(Append(s, k), n)
  <1>1. Carries(s, n)
    <2>1. \A i \in 1..n : 1 + i \in 2..Len(s)
      OBVIOUS
    <2>2. Len(s) = 1 + n
      OBVIOUS
    <2> QED  BY <2>1, <2>2 DEF Open, Carries
  <1> QED  BY <1>1, CarriesMore

\* A request that is left alone keeps its body.
LEMMA SameBody ==
    ASSUME NEW q \in Requests, BodyOK(q), place'[q] = place[q], source'[q] = source[q],
           produced'[q] = produced[q], sent'[q] = sent[q]
    PROVE  BodyOK(q)'
  BY DEF BodyOK, Has

\* Every step keeps every body.
LEMMA BodyStep ==
    ASSUME IInv, \A r \in Requests : BodyOK(r), [Next]_vars, NEW q \in Requests
    PROVE  BodyOK(q)'
  <1>0. TypeOK /\ Answer(q) /\ BodyOK(q)
    BY DEF IInv
  <1>1. ASSUME NEW r \in Requests, r # q, Handle(r) \/ Serve(r) PROVE BodyOK(q)'
    <2>1. /\ place'[q] = place[q] /\ source'[q] = source[q]
          /\ produced'[q] = produced[q] /\ sent'[q] = sent[q]
      BY <1>0, <1>1 DEF Handle, Serve, ServeBuffered, ServeFails, WriteHeader, Write, SourceEnds,
                        SourceBreaks, Fails, SendEnv, Sends, Goes, TypeOK
    <2> QED  BY <1>0, <2>1, SameBody
  <1>2. CASE Handle(q) \/ ServeFails(q) \/ SourceBreaks(q)
    BY <1>0, <1>2 DEF Handle, ServeFails, SourceBreaks, Goes, TypeOK, BodyOK, Has
  <1>3. ASSUME place[q] # "done"
        PROVE  sent[q] \in Seq(Kinds) /\ \A i \in 1..Len(sent[q]) : sent[q][i] # "End"
    BY <1>0, <1>3 DEF BodyOK, Has, TypeOK
  <1>k. \A k \in {"Response", "Start", "Chunk", "End", "Error"} : k \in Kinds
    BY DEF Kinds
  <1>4. ASSUME NEW k \in {"Response", "Start", "Chunk", "Error"}, NEW p, NEW t,
               SendEnv(q, k, p, t), place[q] # "done",
               p = "streaming" => Len(Append(sent[q], k)) = produced'[q] + 1,
               p \notin {"none", "serving"}, t \notin {"none", "serving", "streaming"}
        PROVE  BodyOK(q)'
    <2>1. ~Has(q, "End")'
      <3>1. \A i \in 1..Len(Append(sent[q], k)) : Append(sent[q], k)[i] # "End"
        BY <1>k, <1>3, <1>4, NoEndYet
      <3>2. sent'[q] = Append(sent[q], k) \/ sent'[q] = sent[q]
        BY <1>0, <1>4 DEF SendEnv, Sends, TypeOK
      <3>3. \A i \in 1..Len(sent'[q]) : sent'[q][i] # "End"
        BY <1>3, <1>4, <3>1, <3>2
      <3> QED  BY <3>3 DEF Has
    <2>2. /\ place'[q] \in {p, t}
          /\ place'[q] = "streaming" => sent'[q] = Append(sent[q], k)
      BY <1>0, <1>4 DEF SendEnv, Sends, Goes, TypeOK
    <2> QED  BY <1>4, <2>1, <2>2 DEF BodyOK
  <1>5. CASE ServeBuffered(q) \/ Fails(q)
    <2>1. PICK k \in {"Response", "Error"}, t \in {"failing", "done"} : SendEnv(q, k, "done", t)
      BY <1>5 DEF ServeBuffered, Fails
    <2>2. place[q] # "done"
      BY <1>5 DEF ServeBuffered, Fails
    <2> QED  BY <1>4, <2>1, <2>2
  <1>6. CASE WriteHeader(q)
    <2>1. sent[q] = <<>> /\ produced'[q] = 0
      BY <1>0, <1>6 DEF WriteHeader, Answer, BodyOK
    <2>2. Len(Append(<<>>, "Start")) = 0 + 1
      OBVIOUS
    <2> QED  BY <1>4, <1>6, <2>1, <2>2 DEF WriteHeader
  <1>7. CASE Write(q)
    <2>1. /\ Len(sent[q]) = produced[q] + 1 /\ produced'[q] = produced[q] + 1
          /\ produced[q] \in Nat /\ sent[q] \in Seq(Kinds)
      BY <1>0, <1>7 DEF Write, BodyOK, TypeOK
    <2>2. Len(Append(sent[q], "Chunk")) = produced'[q] + 1
      BY <1>k, <2>1, Appended
    <2> QED  BY <1>4, <1>7, <2>2 DEF Write
  <1>8. CASE SourceEnds(q)
    <2>1. /\ Len(sent[q]) = produced[q] + 1 /\ produced[q] \in Nat /\ Open(sent[q])
          /\ produced' = produced /\ source'[q] = "ended" /\ place[q] # "done"
      BY <1>0, <1>8 DEF SourceEnds, BodyOK, Answer, TypeOK
    <2>2. CASE sent'[q] = Append(sent[q], "End") /\ place'[q] = "done"
      <3>1. CarriesAll(sent'[q], produced[q])
        BY <1>k, <1>3, <2>1, <2>2, AfterChunks
      <3> QED  BY <2>1, <2>2, <3>1 DEF BodyOK
    <2>3. CASE sent'[q] = sent[q] /\ place'[q] = "failing"
      BY <1>3, <2>1, <2>3 DEF BodyOK, Has
    <2> QED  BY <1>0, <1>8, <2>2, <2>3 DEF SourceEnds, SendEnv, Sends, Goes, TypeOK
  <1>9. CASE UNCHANGED vars
    BY <1>0, <1>9, SameBody DEF vars
  <1> QED  BY <1>1, <1>2, <1>5, <1>6, <1>7, <1>8, <1>9 DEF Next, Serve

\* An End on the wire stands after the whole of a body that is complete, for
\* bodies of any length and whichever sends throw.
THEOREM EndIsWholeBody == SafeSpec => []EndMeansWholeBody
  <1> DEFINE Bodies == \A r \in Requests : BodyOK(r)
  <1>1. Init => Bodies
    BY DEF Init, BodyOK, Has
  <1>2. IInv /\ Bodies /\ [Next]_vars => Bodies'
    BY BodyStep
  <1>3. IInv /\ [Next]_vars => IInv'
    BY HandlerStep
  <1>4. Bodies => EndMeansWholeBody
    BY DEF BodyOK, EndMeansWholeBody
  <1> QED  BY <1>1, <1>2, <1>3, <1>4, HandlerInit, PTL DEF SafeSpec

-------------------------------------------------------------------------------
\* Every request is answered: what of it is no matter of fairness.

\* A handleRequest that is over has put a last frame on the wire, unless one of
\* its sends threw.
DoneIsAnswered ==
    \A r \in Requests : place[r] = "done" => r \in threw \/ \E k \in Terminal : Has(r, k)

\* How many steps handleRequest has at most left.
Left(r) ==
    CASE place[r] = "none" -> MaxChunks + 4
      [] place[r] = "serving" -> MaxChunks + 3
      [] place[r] = "streaming" -> MaxChunks - produced[r] + 2
      [] place[r] = "failing" -> 1
      [] OTHER -> 0

\* Every step brings one answer nearer its end and leaves the others where they
\* are.
Hurries ==
    \E r \in Requests : /\ Left(r)' < Left(r)
                        /\ \A q \in Requests \ {r} : Left(q)' = Left(q)

LEMMA LeftFacts ==
    ASSUME NEW r \in Requests
    PROVE  /\ place[r] = "none" => Left(r) = MaxChunks + 4
           /\ place[r] = "serving" => Left(r) = MaxChunks + 3
           /\ place[r] = "streaming" => Left(r) = MaxChunks - produced[r] + 2
           /\ place[r] = "failing" => Left(r) = 1
           /\ place[r] = "done" => Left(r) = 0
  BY DEF Left

LEMMA LeftFactsNext ==
    ASSUME NEW r \in Requests
    PROVE  /\ place'[r] = "none" => Left(r)' = MaxChunks + 4
           /\ place'[r] = "serving" => Left(r)' = MaxChunks + 3
           /\ place'[r] = "streaming" => Left(r)' = MaxChunks - produced'[r] + 2
           /\ place'[r] = "failing" => Left(r)' = 1
           /\ place'[r] = "done" => Left(r)' = 0
  BY DEF Left

\* What handleRequest does for r is nothing to other requests.
LEMMA OthersStay ==
    ASSUME TypeOK, NEW r \in Requests, NEW q \in Requests \ {r}, Handle(r) \/ Serve(r)
    PROVE  /\ place'[q] = place[q] /\ produced'[q] = produced[q] /\ sent'[q] = sent[q]
           /\ q \in threw => q \in threw'
  BY DEF Handle, Serve, ServeBuffered, ServeFails, WriteHeader, Write, SourceEnds, SourceBreaks,
         Fails, SendEnv, Sends, Goes, TypeOK

\* Every step of handleRequest brings it nearer its end.
LEMMA Advances ==
    ASSUME TypeOK, NEW r \in Requests, Handle(r) \/ Serve(r)
    PROVE  Left(r)' < Left(r)
  <1>0. MaxChunks \in Nat /\ produced[r] \in 0..MaxChunks
    BY TsHandlerAssumption DEF TypeOK
  <1>1. CASE Handle(r)
    <2>1. place[r] = "none" /\ place'[r] = "serving"
      BY <1>1 DEF Handle, Goes, TypeOK
    <2> QED  BY <1>0, <2>1, LeftFacts, LeftFactsNext
  <1>2. CASE ServeBuffered(r) \/ ServeFails(r)
    <2>1. place[r] = "serving" /\ place'[r] \in {"done", "failing"}
      BY <1>2 DEF ServeBuffered, ServeFails, SendEnv, Goes, TypeOK
    <2> QED  BY <1>0, <2>1, LeftFacts, LeftFactsNext
  <1>3. CASE WriteHeader(r)
    <2>1. /\ place[r] = "serving" /\ place'[r] \in {"streaming", "failing"}
          /\ produced'[r] = produced[r]
      BY <1>3 DEF WriteHeader, SendEnv, Goes, TypeOK
    <2> QED  BY <1>0, <2>1, LeftFacts, LeftFactsNext
  <1>4. CASE Write(r)
    <2>1. /\ place[r] = "streaming" /\ place'[r] \in {"streaming", "failing"}
          /\ produced[r] < MaxChunks /\ produced'[r] = produced[r] + 1
      BY <1>0, <1>4 DEF Write, SendEnv, Goes, TypeOK
    <2> QED  BY <1>0, <2>1, LeftFacts, LeftFactsNext
  <1>5. CASE SourceEnds(r) \/ SourceBreaks(r)
    <2>1. place[r] = "streaming" /\ place'[r] \in {"done", "failing"}
      BY <1>5 DEF SourceEnds, SourceBreaks, SendEnv, Goes, TypeOK
    <2> QED  BY <1>0, <2>1, LeftFacts, LeftFactsNext
  <1>6. CASE Fails(r)
    <2>1. place[r] = "failing" /\ place'[r] = "done"
      BY <1>6 DEF Fails, SendEnv, Goes, TypeOK
    <2> QED  BY <1>0, <2>1, LeftFacts, LeftFactsNext
  <1> QED  BY <1>1, <1>2, <1>3, <1>4, <1>5, <1>6 DEF Serve

\* Where handleRequest ends, its last frame has gone out or a send has thrown.
LEMMA DoneStep == TypeOK /\ DoneIsAnswered /\ [Next]_vars => DoneIsAnswered'
  <1> SUFFICES ASSUME TypeOK, DoneIsAnswered, [Next]_vars, NEW r \in Requests, place'[r] = "done"
               PROVE  r \in threw' \/ \E k \in Terminal : Has(r, k)'
    BY DEF DoneIsAnswered
  <1>0. sent[r] \in Seq(Kinds)
    BY DEF TypeOK
  <1>1. CASE /\ place'[r] = place[r] /\ sent'[r] = sent[r]
             /\ r \in threw => r \in threw'
    BY <1>1 DEF DoneIsAnswered, Has
  <1>2. CASE \E q \in Requests \ {r} : Handle(q) \/ Serve(q)
    BY <1>1, <1>2, OthersStay
  <1>3. CASE Handle(r) \/ Serve(r)
    <2>1. PICK k \in Terminal : SendEnv(r, k, "done", "done") \/ SendEnv(r, k, "done", "failing")
      BY <1>3
      DEF Handle, Serve, ServeBuffered, ServeFails, WriteHeader, Write, SourceEnds, SourceBreaks,
          Fails, SendEnv, Goes, TypeOK, Terminal
    <2>2. k \in Kinds
      BY DEF Terminal, Kinds
    <2>3. CASE r \in threw'
      BY <2>3
    <2>4. CASE sent'[r] = Append(sent[r], k)
      <3>1. /\ Len(Append(sent[r], k)) \in 1..Len(Append(sent[r], k))
            /\ Append(sent[r], k)[Len(Append(sent[r], k))] = k
        BY <1>0, <2>2, Appended
      <3> QED  BY <2>4, <3>1 DEF Has
    <2> QED  BY <2>1, <2>3, <2>4 DEF SendEnv, Sends, TypeOK
  <1> QED  BY <1>1, <1>2, <1>3 DEF Next, vars

\* No handleRequest is over without a last frame on the wire, unless one of its
\* sends threw: the safety side of AnsweredUnlessSendThrows.
THEOREM DoneAreAnswered == SafeSpec => []DoneIsAnswered
  <1>1. Init => DoneIsAnswered
    BY DEF Init, DoneIsAnswered
  <1>2. IInv /\ [Next]_vars => IInv'
    BY HandlerStep
  <1>3. IInv => TypeOK
    BY DEF IInv
  <1> QED  BY <1>1, <1>2, <1>3, HandlerInit, DoneStep, PTL DEF SafeSpec

\* No answer goes on for ever: Left is a natural number, zero when handleRequest
\* is over, and every step of the handler lowers it for one request and for no
\* other raises it.  None takes more than MaxChunks + 4 steps, whatever throws.
THEOREM AnswersHurry ==
    SafeSpec => []( \A r \in Requests : Left(r) \in Nat /\ (Left(r) = 0 <=> place[r] = "done") )
                /\ [][Hurries]_vars
  <1>1. ASSUME IInv, NEW r \in Requests
        PROVE  Left(r) \in Nat /\ (Left(r) = 0 <=> place[r] = "done")
    <2>1. /\ MaxChunks \in Nat /\ produced[r] \in 0..MaxChunks
          /\ place[r] \in {"none", "serving", "streaming", "failing", "done"}
      BY <1>1, TsHandlerAssumption DEF IInv, TypeOK
    <2> QED  BY <2>1, LeftFacts
  <1>2. ASSUME IInv, Next PROVE Hurries
    <2>1. PICK r \in Requests : Handle(r) \/ Serve(r)
      BY <1>2 DEF Next
    <2>2. ASSUME NEW q \in Requests \ {r} PROVE Left(q)' = Left(q)
      BY <1>2, <2>1, OthersStay DEF Left, IInv
    <2> QED  BY <1>2, <2>1, <2>2, Advances DEF Hurries, IInv
  <1>3. IInv /\ [Next]_vars => IInv'
    BY HandlerStep
  <1> DEFINE Counts == \A r \in Requests : Left(r) \in Nat /\ (Left(r) = 0 <=> place[r] = "done")
  <1>4. IInv => Counts
    BY <1>1
  <1>5. IInv /\ [Next]_vars => [Hurries]_vars
    BY <1>2
  <1> HIDE DEF Counts
  <1>6. SafeSpec => []Counts /\ [][Hurries]_vars
    BY <1>3, <1>4, <1>5, HandlerInit, PTL DEF SafeSpec
  <1> QED  BY <1>6 DEF Counts

===============================================================================
