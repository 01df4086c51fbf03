---------------------------- MODULE ExchangeProofs ----------------------------
(***************************************************************************)
(* Theorems about a Caller and a HOWHandler at the two ends of one         *)
(* connection, for any number of requests and bodies of any length.  What  *)
(* GoCallerProofs and GoHandlerProofs show of the steps of each end is     *)
(* used here; what is new is how the connection and howclient tie what the *)
(* Caller has received to what the handler has offered.                    *)
(***************************************************************************)
EXTENDS Exchange, WireRepliesProofs

CallerP == INSTANCE GoCallerProofs WITH
               script <- wire, Replies <- {<<>>}, CloseArgs <- {"readError"}, ReadTimeout <- 0

HandlerP == INSTANCE GoHandlerProofs

-------------------------------------------------------------------------------
\* What the peer has put on the wire, frame by frame.

LEMMA WireFacts ==
    ASSUME NEW s \in Seq(Kinds)
    PROVE  /\ Frames(s) \in Seq(Reply) /\ Len(Frames(s)) = Len(s)
           /\ \A i \in 1..Len(s) : Frames(s)[i] = Good(s[i]) /\ Frames(s)[i].kind = s[i]
  <1>1. \A i \in 1..Len(s) : Good(s[i]) \in Reply
    BY DEF Good, Reply
  <1>2. Len(s) \in Nat
    OBVIOUS
  <1>3. Frames(s) \in Seq(Reply) /\ Len(Frames(s)) = Len(s)
    BY <1>1, <1>2 DEF Frames
  <1>4. \A i \in 1..Len(s) : Frames(s)[i] = Good(s[i])
    BY DEF Frames
  <1>5. \A i \in 1..Len(s) : Frames(s)[i].kind = s[i]
    <2>1. ASSUME NEW k PROVE Good(k).kind = k
      BY DEF Good
    <2> QED  BY <1>4, <2>1
  <1> QED  BY <1>3, <1>4, <1>5

\* The assumptions of the two ends hold.
LEMMA EndsAssumptions ==
    /\ CallerP!None \notin Requests
    /\ \A s \in {<<>>} : s \in Seq(Reply)
    /\ 0 \in Nat
    /\ {CallerP!None, CallerP!ErrReadTimeout, CallerP!CtxErr} \cap {"readError"} = {}
    /\ Handlers \subseteq HandlerP!HandlerKinds /\ MaxChunks \in Nat
  <1>1. CallerP!None \notin Requests /\ Handlers \subseteq HandlerP!HandlerKinds
    BY ExchangeAssumption
    DEF CallerP!None, Caller!None, HandlerP!HandlerKinds, Handler!HandlerKinds
  <1>2. "readError" \notin {CallerP!None, CallerP!ErrReadTimeout, CallerP!CtxErr}
    BY DEF CallerP!None, CallerP!ErrReadTimeout, CallerP!CtxErr
  <1> QED  BY <1>1, <1>2, ExchangeAssumption

-------------------------------------------------------------------------------
\* The steps of the two ends are steps of a Caller and of a HOWHandler.

\* The goroutine of Request.
LEMMA RequestSteps ==
    ASSUME NEW r \in Requests,
           Caller!Register(r) \/ Caller!Transmit(r) \/ Caller!SendReturns(r) \/
           Caller!SendFails(r) \/ Caller!FirstFrameEnds(r) \/
           Caller!FirstFrameStarts(r) \/ Caller!RequestStops(r) \/
           Caller!RequestGivesUp(r)
    PROVE  CallerP!RequestStep(r)
  <1> USE DEF CallerP!RequestStep, Caller!callerVars, CallerP!callerVars,
              Caller!loopVars, CallerP!loopVars, Caller!requestVars,
              CallerP!requestVars, Caller!bodyVars, CallerP!bodyVars,
              Caller!clockVars, CallerP!clockVars, Caller!Return, CallerP!Return,
              Caller!Remove, CallerP!Remove, Caller!Pop, CallerP!Pop, Caller!Content,
              CallerP!Content, Caller!None, CallerP!None, Caller!NoFrame,
              CallerP!NoFrame, Caller!Frame, CallerP!Frame, Caller!Closed,
              CallerP!Closed
  <1>1. CASE Caller!Register(r)
    BY <1>1 DEF Caller!Register, CallerP!Register
  <1>2. CASE Caller!Transmit(r)
    BY <1>2 DEF Caller!Transmit, CallerP!Transmit
  <1>3. CASE Caller!SendReturns(r)
    BY <1>3 DEF Caller!SendReturns, CallerP!SendReturns, Caller!NewTimer,
       CallerP!NewTimer, Caller!Off, CallerP!Off
  <1>4. CASE Caller!SendFails(r)
    BY <1>4 DEF Caller!SendFails, CallerP!SendFails
  <1>5. CASE Caller!FirstFrameEnds(r)
    BY <1>5 DEF Caller!FirstFrameEnds, CallerP!FirstFrameEnds, Caller!Off, CallerP!Off
  <1>6. CASE Caller!FirstFrameStarts(r)
    BY <1>6 DEF Caller!FirstFrameStarts, CallerP!FirstFrameStarts, Caller!Off,
       CallerP!Off
  <1>7. CASE Caller!RequestStops(r)
    BY <1>7 DEF Caller!RequestStops, CallerP!RequestStops, Caller!MustStop,
       CallerP!MustStop
  <1>8. CASE Caller!RequestGivesUp(r)
    BY <1>8 DEF Caller!RequestGivesUp, CallerP!RequestGivesUp, Caller!StopReasons,
       CallerP!StopReasons, Caller!CtxErr, CallerP!CtxErr, Caller!ErrReadTimeout,
       CallerP!ErrReadTimeout, Caller!Off, CallerP!Off
  <1> QED  BY <1>1, <1>2, <1>3, <1>4, <1>5, <1>6, <1>7, <1>8

\* The pump.
LEMMA PumpSteps ==
    ASSUME NEW r \in Requests,
           Caller!PumpStarts(r) \/ Caller!PumpTakes(r) \/ Caller!WriteFails(r) \/
           Caller!PumpStops(r) \/ Caller!PumpGivesUp(r) \/ Caller!PumpReturns(r)
    PROVE  CallerP!PumpStep(r)
  <1> USE DEF CallerP!PumpStep, Caller!callerVars, CallerP!callerVars,
              Caller!loopVars, CallerP!loopVars, Caller!requestVars,
              CallerP!requestVars, Caller!bodyVars, CallerP!bodyVars,
              Caller!clockVars, CallerP!clockVars, Caller!Return, CallerP!Return,
              Caller!Remove, CallerP!Remove, Caller!Pop, CallerP!Pop, Caller!Content,
              CallerP!Content, Caller!None, CallerP!None, Caller!NoFrame,
              CallerP!NoFrame, Caller!Frame, CallerP!Frame, Caller!Closed,
              CallerP!Closed
  <1>1. CASE Caller!PumpStarts(r)
    BY <1>1 DEF Caller!PumpStarts, CallerP!PumpStarts, Caller!NewTimer, CallerP!NewTimer,
       Caller!Off, CallerP!Off
  <1>2. CASE Caller!PumpTakes(r)
    BY <1>2 DEF Caller!PumpTakes, CallerP!PumpTakes, Caller!ResetTimer,
       CallerP!ResetTimer, Caller!NewTimer, CallerP!NewTimer, Caller!Off, CallerP!Off,
       Caller!PumpSwitch, CallerP!PumpSwitch, Caller!PumpEnds, CallerP!PumpEnds,
       Caller!EOF, CallerP!EOF
  <1>3. CASE Caller!WriteFails(r)
    BY <1>3 DEF Caller!WriteFails, CallerP!WriteFails
  <1>4. CASE Caller!PumpStops(r)
    BY <1>4 DEF Caller!PumpStops, CallerP!PumpStops, Caller!MustStop, CallerP!MustStop,
       Caller!PumpCtxDone, CallerP!PumpCtxDone
  <1>5. CASE Caller!PumpGivesUp(r)
    BY <1>5 DEF Caller!PumpGivesUp, CallerP!PumpGivesUp, Caller!StopReasons,
       CallerP!StopReasons, Caller!CtxErr, CallerP!CtxErr, Caller!ErrReadTimeout,
       CallerP!ErrReadTimeout, Caller!PumpCtxDone, CallerP!PumpCtxDone, Caller!PumpEnds,
       CallerP!PumpEnds
  <1>6. CASE Caller!PumpReturns(r)
    BY <1>6 DEF Caller!PumpReturns, CallerP!PumpReturns, Caller!Off, CallerP!Off
  <1> QED  BY <1>1, <1>2, <1>3, <1>4, <1>5, <1>6

\* The read loop, the user and the finalizer.
LEMMA OtherSteps ==
    ASSUME NEW r \in Requests,
           Caller!LookUp(r) \/ Caller!Read(r) \/ Caller!Call(r) \/ Caller!Cancel(r) \/
           Caller!CloseBody(r) \/ Caller!DropBody(r) \/ Caller!Finalize(r) \/
           Caller!ClosePipe(r)
    PROVE  CallerP!Next
  <1> USE DEF CallerP!Next, CallerP!BodyStep, Caller!callerVars, CallerP!callerVars,
              Caller!loopVars, CallerP!loopVars, Caller!requestVars,
              CallerP!requestVars, Caller!bodyVars, CallerP!bodyVars,
              Caller!clockVars, CallerP!clockVars, Caller!Return, CallerP!Return,
              Caller!Remove, CallerP!Remove, Caller!Pop, CallerP!Pop, Caller!Content,
              CallerP!Content, Caller!None, CallerP!None, Caller!NoFrame,
              CallerP!NoFrame, Caller!Frame, CallerP!Frame, Caller!Closed,
              CallerP!Closed
  <1>1. CASE Caller!LookUp(r)
    BY <1>1 DEF Caller!LookUp, CallerP!LookUp
  <1>2. CASE Caller!Read(r)
    BY <1>2 DEF Caller!Read, CallerP!Read
  <1>3. CASE Caller!Call(r)
    BY <1>3 DEF Caller!Call, CallerP!Call
  <1>4. CASE Caller!Cancel(r)
    BY <1>4 DEF Caller!Cancel, CallerP!Cancel
  <1>5. CASE Caller!CloseBody(r)
    BY <1>5 DEF Caller!CloseBody, CallerP!CloseBody, Caller!SetBody, CallerP!SetBody
  <1>6. CASE Caller!DropBody(r)
    BY <1>6 DEF Caller!DropBody, CallerP!DropBody, Caller!SetBody, CallerP!SetBody
  <1>7. CASE Caller!Finalize(r)
    BY <1>7 DEF Caller!Finalize, CallerP!Finalize, Caller!SetBody, CallerP!SetBody
  <1>8. CASE Caller!ClosePipe(r)
    BY <1>8 DEF Caller!ClosePipe, CallerP!ClosePipe, Caller!SetBody, CallerP!SetBody
  <1> QED  BY <1>1, <1>2, <1>3, <1>4, <1>5, <1>6, <1>7, <1>8

\* Steps of no request in particular, and none.
LEMMA SharedSteps ==
    /\ Caller!CloseSets("readError") => CallerP!Next
    /\ Caller!Push => CallerP!Next
    /\ Caller!CloseDone => CallerP!Next
    /\ UNCHANGED <<callerVars, handlerVars>> => UNCHANGED CallerP!vars /\ UNCHANGED HandlerP!vars
  <1> USE DEF CallerP!Next, Caller!callerVars, CallerP!callerVars, Caller!loopVars,
              CallerP!loopVars, Caller!requestVars, CallerP!requestVars, Caller!bodyVars,
              CallerP!bodyVars, Caller!clockVars, CallerP!clockVars
  <1>1. ASSUME Caller!CloseSets("readError") PROVE CallerP!Next
    <2>1. CallerP!CloseSets("readError")
      BY <1>1 DEF Caller!CloseSets, CallerP!CloseSets, Caller!NilErr, CallerP!NilErr,
         Caller!ErrTransportClosed, CallerP!ErrTransportClosed
    <2> QED  BY <2>1
  <1>2. ASSUME Caller!Push PROVE CallerP!Next
    BY <1>2 DEF Caller!Push, CallerP!Push, Caller!NoFrame, CallerP!NoFrame,
       Caller!Frame, CallerP!Frame, Caller!None, CallerP!None
  <1>3. ASSUME Caller!CloseDone PROVE CallerP!Next
    BY <1>3 DEF Caller!CloseDone, CallerP!CloseDone
  <1>4. ASSUME UNCHANGED <<callerVars, handlerVars>>
        PROVE  UNCHANGED CallerP!vars /\ UNCHANGED HandlerP!vars
    BY <1>4 DEF callerVars, handlerVars, CallerP!vars, HandlerP!vars, wire
  <1> QED  BY <1>1, <1>2, <1>3, <1>4

\* A step of the handler's goroutine for r.
HandlerMoves(r) ==
    \/ HandlerP!HandleBad(r) \/ HandlerP!HandleGood(r)
    \/ HandlerP!WriteHeader(r) \/ HandlerP!Dispatch(r)

LEMMA HandlerSteps ==
    ASSUME NEW r \in Requests, Takes(r) \/ Answers(r)
    PROVE  HandlerMoves(r) /\ UNCHANGED callerVars
  <1> USE DEF HandlerMoves, HandlerP!Dispatch, Handler!Go, HandlerP!Go, Handler!Send,
              HandlerP!Send, Handler!SendAnyway, HandlerP!SendAnyway
  <1>1. CASE Takes(r)
    BY <1>1 DEF Takes, Handler!HandleGood, HandlerP!HandleGood
  <1>2. CASE Answers(r)
    <2>1. CASE Handler!ServeBuffered(r) \/ Handler!ServeFails(r)
      BY <1>2, <2>1 DEF Answers, Handler!ServeBuffered, HandlerP!ServeBuffered,
         Handler!ServeFails, HandlerP!ServeFails
    <2>2. CASE Handler!WriteHeader(r)
      BY <1>2, <2>2 DEF Answers, Handler!WriteHeader, HandlerP!WriteHeader
    <2>3. CASE Handler!Write(r)
      BY <1>2, <2>3 DEF Answers, Handler!Write, HandlerP!Write
    <2>4. CASE Handler!SourceEnds(r) \/ Handler!SourceBreaks(r)
      BY <1>2, <2>4 DEF Answers, Handler!SourceEnds, HandlerP!SourceEnds,
         Handler!SourceBreaks, HandlerP!SourceBreaks
    <2>5. CASE Handler!CloseStream(r) \/ Handler!Fail(r)
      BY <1>2, <2>5 DEF Answers, Handler!CloseStream, HandlerP!CloseStream,
         Handler!Fail, HandlerP!Fail
    <2> QED  BY <1>2, <2>1, <2>2, <2>3, <2>4, <2>5 DEF Answers, Handler!Dispatch
  <1> QED  BY <1>1, <1>2

\* Both ends start as they do alone.
LEMMA EndsInit ==
    ASSUME Init
    PROVE  CallerP!Init /\ HandlerP!Init
  <1>1. HandlerP!Init
    BY DEF Init, Handler!Init, HandlerP!Init
  <1>2. CallerP!Init
    BY DEF Init, Caller!Init, CallerP!Init, Caller!None, CallerP!None, Caller!NoFrame,
       CallerP!NoFrame, Caller!Frame, CallerP!Frame, Caller!Off, CallerP!Off
  <1> QED  BY <1>1, <1>2

-------------------------------------------------------------------------------
\* The inductive invariant.

\* Before a request is sent nobody answers it.
Early(r) == pc[r] \in {"idle", "checked", "registered"} => place[r] = "none" /\ r \notin asked

\* Without a hiccup, what the Caller has received is what the handler offered
\* first: when the connection goes down nothing more is received, and when a
\* signal comes, nothing is sent after a frame that was not.
Linked(r) ==
    ~hiccup =>
        /\ arrived[r] <= Len(offered[r])
        /\ \A i \in 1..arrived[r] : sent[r][i] = offered[r][i]
        /\ link # "down" => /\ Len(sent[r]) <= Len(offered[r])
                            /\ \A i \in 1..Len(sent[r]) : sent[r][i] = offered[r][i]
        /\ link = "up" /\ host = "running" => sent[r] = offered[r]

Expected(r) == hiccup \/ result[r] # "unexpectedType"

IInv ==
    /\ TypeOK /\ (link = "draining" => host = "exited")
    /\ HandlerP!Conduct
    /\ CallerP!FlowInv
    /\ \A r \in Requests : CallerP!Counted(r) /\ Early(r) /\ Linked(r) /\ Expected(r)

\* The domains of what the two ends share.
LEMMA SharedTypes ==
    ASSUME IInv, NEW r \in Requests
    PROVE  /\ sent[r] \in Seq(Kinds) /\ offered[r] \in Seq(Kinds)
           /\ wire[r] = Frames(sent[r]) /\ Len(wire[r]) = Len(sent[r])
           /\ \A i \in 1..Len(sent[r]) : wire[r][i].kind = sent[r][i]
           /\ arrived[r] \in Nat /\ arrived[r] <= Len(sent[r])
           /\ CallerP!BodyBehind(wire[r])
  <1>1. sent[r] \in Seq(Kinds) /\ offered[r] \in Seq(Kinds)
    BY DEF IInv, HandlerP!Conduct, HandlerP!IInv, HandlerP!Domains, HandlerP!Kinds, Kinds
  <1>2. wire[r] = Frames(sent[r])
    BY DEF wire
  <1>3. Len(wire[r]) = Len(sent[r]) /\ \A i \in 1..Len(sent[r]) : wire[r][i].kind = sent[r][i]
    BY <1>1, <1>2, WireFacts
  <1>4. arrived[r] \in Nat /\ arrived[r] <= Len(wire[r])
    BY DEF IInv, CallerP!FlowInv, CallerP!SlotInv, CallerP!TypeOK, CallerP!Flow, CallerP!FlowOK
  <1>5. \A i \in 2..Len(sent[r]) : sent[r][i] \in {"Chunk", "End", "Error"}
    <2>1. HandlerP!Offers(r)
      BY DEF IInv, HandlerP!Conduct
    <2> QED  BY <2>1, Zenon DEF HandlerP!Offers
  <1>6. CallerP!BodyBehind(wire[r])
    <2>1. \A i \in 2..Len(sent[r]) : i \in 1..Len(sent[r])
      BY <1>1
    <2> QED  BY <1>3, <1>5, <2>1, Zenon DEF CallerP!BodyBehind
  <1> QED  BY <1>1, <1>2, <1>3, <1>4, <1>6

-------------------------------------------------------------------------------
\* Steps of the handler.

\* What a goroutine of the handler does to what it offers and sends.
LEMMA HandlerEffect ==
    ASSUME IInv, NEW r \in Requests, HandlerMoves(r)
    PROVE  /\ sent \in [Requests -> Seq(Kinds)] /\ sent' \in [Requests -> Seq(Kinds)]
           /\ \A q \in Requests : sent'[q] \in Seq(Kinds) /\ offered'[q] \in Seq(Kinds)
           /\ place'[r] # "none"
           /\ \A q \in Requests \ {r} : /\ place'[q] = place[q] /\ source'[q] = source[q]
                                        /\ sent'[q] = sent[q] /\ offered'[q] = offered[q]
           /\ \/ sent'[r] = sent[r] /\ offered'[r] = offered[r]
              \/ \E k \in Kinds : /\ offered'[r] = Append(offered[r], k)
                                  /\ sent'[r] = sent[r] \/ sent'[r] = Append(sent[r], k)
           /\ HandlerP!Conduct' /\ handler' = handler
  <1>1. HandlerP!Next
    BY DEF HandlerMoves, HandlerP!Next
  <1>2. HandlerP!Conduct /\ HandlerP!IInv /\ HandlerP!Domains /\ HandlerP!BodyOK(r)
    BY DEF IInv, HandlerP!Conduct, HandlerP!IInv
  <1>3. HandlerP!Conduct'
    BY <1>1, <1>2, EndsAssumptions, HandlerP!ConductStep, Zenon DEF HandlerP!GoHandlerAssumption
  <1>4. /\ sent \in [Requests -> Seq(Kinds)] /\ sent' \in [Requests -> Seq(Kinds)]
        /\ offered' \in [Requests -> Seq(Kinds)]
    BY <1>2, <1>3 DEF HandlerP!Conduct, HandlerP!IInv, HandlerP!Domains, HandlerP!Kinds, Kinds
  <1>5. /\ handler' = handler
        /\ \A q \in Requests \ {r} : /\ place'[q] = place[q] /\ source'[q] = source[q]
                                     /\ sent'[q] = sent[q] /\ offered'[q] = offered[q]
    BY <1>2 DEF HandlerMoves, HandlerP!HandleBad, HandlerP!HandleGood, HandlerP!WriteHeader,
       HandlerP!Dispatch, HandlerP!ServeBuffered, HandlerP!ServeFails, HandlerP!Write,
       HandlerP!SourceEnds, HandlerP!SourceBreaks, HandlerP!CloseStream, HandlerP!Fail,
       HandlerP!SendAnyway, HandlerP!Send, HandlerP!Go, HandlerP!Domains
  <1>6. /\ place'[r] # "none"
        /\ \/ UNCHANGED <<offered, sent>>
           \/ \E k \in HandlerP!Kinds, ok \in BOOLEAN : HandlerP!Send(r, k, ok)
    BY <1>2, EndsAssumptions, HandlerP!Sending
    DEF HandlerP!GoHandlerAssumption, HandlerMoves, HandlerP!Sends
  <1>7. ASSUME NEW k \in HandlerP!Kinds, NEW ok \in BOOLEAN, HandlerP!Send(r, k, ok)
        PROVE  /\ k \in Kinds /\ offered'[r] = Append(offered[r], k)
               /\ sent'[r] = sent[r] \/ sent'[r] = Append(sent[r], k)
    BY <1>2, <1>7 DEF HandlerP!Send, HandlerP!Domains, HandlerP!Kinds, Kinds
  <1> QED  BY <1>3, <1>4, <1>5, <1>6, <1>7

\* What is on the wire stays there.
LEMMA WireGrows ==
    ASSUME IInv, NEW r \in Requests, HandlerMoves(r)
    PROVE  /\ wire' \in [Requests -> Seq(Reply)]
           /\ \A q \in Requests :
                /\ Len(wire[q]) \in Nat /\ Len(wire'[q]) \in Nat /\ Len(wire[q]) <= Len(wire'[q])
                /\ \A i \in 1..Len(wire[q]) : wire'[q][i] = wire[q][i]
                /\ q # r => wire'[q] = wire[q]
  <1>1. wire' = [q \in Requests |-> Frames(sent'[q])]
    BY DEF wire, Frames, Good
  <1>2. \A q \in Requests : sent'[q] \in Seq(Kinds)
    BY HandlerEffect
  <1>3. wire' \in [Requests -> Seq(Reply)]
    BY <1>1, <1>2, WireFacts
  <1>4. ASSUME NEW q \in Requests
        PROVE  /\ Len(wire[q]) \in Nat /\ Len(wire'[q]) \in Nat /\ Len(wire[q]) <= Len(wire'[q])
               /\ \A i \in 1..Len(wire[q]) : wire'[q][i] = wire[q][i]
               /\ q # r => wire'[q] = wire[q]
    <2>1. /\ wire[q] = Frames(sent[q]) /\ wire'[q] = Frames(sent'[q]) /\ sent[q] \in Seq(Kinds)
      BY <1>1, SharedTypes
    <2>2. q # r => wire'[q] = wire[q]
      BY <2>1, HandlerEffect
    <2>3. sent'[q] = sent[q] \/ \E k \in Kinds : sent'[q] = Append(sent[q], k)
      BY HandlerEffect
    <2>4. CASE sent'[q] = sent[q]
      <3>1. wire'[q] = wire[q] /\ Len(wire[q]) = Len(sent[q]) /\ Len(sent[q]) \in Nat
        BY <2>1, <2>4, WireFacts
      <3> QED  BY <2>2, <3>1
    <2>5. ASSUME NEW k \in Kinds, sent'[q] = Append(sent[q], k)
          PROVE  /\ Len(wire[q]) \in Nat /\ Len(wire'[q]) \in Nat /\ Len(wire[q]) <= Len(wire'[q])
                 /\ \A i \in 1..Len(wire[q]) : wire'[q][i] = wire[q][i]
      <3>1. /\ Len(sent'[q]) = Len(sent[q]) + 1 /\ Len(sent[q]) \in Nat
            /\ \A i \in 1..Len(sent[q]) : sent'[q][i] = sent[q][i]
        BY <2>1, <2>5, Appended
      <3>2. /\ Len(wire[q]) = Len(sent[q]) /\ Len(wire'[q]) = Len(sent'[q])
            /\ \A i \in 1..Len(sent[q]) : wire[q][i] = Good(sent[q][i])
            /\ \A i \in 1..Len(sent'[q]) : wire'[q][i] = Good(sent'[q][i])
        BY <1>2, <2>1, WireFacts
      <3> QED  BY <3>1, <3>2
    <2> QED  BY <2>2, <2>3, <2>4, <2>5
  <1> QED  BY <1>3, <1>4

\* The goroutine of r that sends is that of a request which was sent.
LEMMA AnswersAsked ==
    ASSUME IInv, NEW r \in Requests, Takes(r) \/ Answers(r)
    PROVE  /\ pc[r] \notin {"idle", "checked", "registered"}
           /\ asked' \subseteq asked /\ r \notin asked'
           /\ UNCHANGED <<callerVars, link, host>>
           /\ hiccup' \in BOOLEAN /\ (hiccup => hiccup')
           /\ Alive
  <1>1. Early(r) /\ TypeOK
    BY DEF IInv
  <1>2. CASE Takes(r)
    BY <1>1, <1>2 DEF Takes, Early, TypeOK, Alive
  <1>3. CASE Answers(r)
    <2>1. place[r] # "none"
      BY <1>1, <1>3
      DEF Answers, Handler!ServeBuffered, Handler!ServeFails, Handler!WriteHeader, Handler!Write,
          Handler!SourceEnds, Handler!SourceBreaks, Handler!CloseStream, Handler!Fail,
          Handler!Dispatch
    <2>2. UNCHANGED <<callerVars, link, host, asked>> /\ Alive
      BY <1>3, Zenon DEF Answers
    <2>3. hiccup' = hiccup \/ Accepts(r) \/ Rejects
      BY <1>3, Zenon DEF Answers
    <2>4. hiccup' \in BOOLEAN /\ (hiccup => hiccup')
      BY <1>1, <2>3, Zenon DEF Accepts, Rejects, TypeOK
    <2> QED  BY <1>1, <2>1, <2>2, <2>4 DEF Early, TypeOK
  <1> QED  BY <1>2, <1>3

\* It offers nothing, or its frame is accepted, or it is lost.
LEMMA AcceptsOrRejects ==
    ASSUME NEW r \in Requests, Takes(r) \/ Answers(r)
    PROVE  offered' = offered \/ (sent' # sent /\ Accepts(r)) \/ (sent' = sent /\ Rejects)
  <1>1. CASE Takes(r)
    BY <1>1 DEF Takes, Handler!HandleGood
  <1>2. CASE Answers(r)
    BY <1>2, Zenon DEF Answers
  <1> QED  BY <1>1, <1>2

\* A send keeps what has been received, and what is on its way, in line with
\* what has been offered.
LEMMA SendsLinked ==
    ASSUME IInv, NEW r \in Requests, Takes(r) \/ Answers(r), NEW q \in Requests
    PROVE  Linked(q)'
  <1>1. /\ Linked(q) /\ TypeOK /\ (link = "draining" => host = "exited")
        /\ sent[q] \in Seq(Kinds) /\ offered[q] \in Seq(Kinds)
        /\ arrived[q] \in Nat /\ arrived[q] <= Len(sent[q])
    BY SharedTypes DEF IInv
  <1>2. /\ UNCHANGED <<arrived, link, host>> /\ (hiccup => hiccup') /\ Alive
    BY AnswersAsked DEF callerVars
  <1>3. CASE sent'[q] = sent[q] /\ offered'[q] = offered[q]
    BY <1>1, <1>2, <1>3 DEF Linked
  <1>4. ASSUME NEW k \in Kinds, q = r, offered'[r] = Append(offered[r], k),
               sent'[r] = sent[r] \/ sent'[r] = Append(sent[r], k)
        PROVE  Linked(q)'
    <2> SUFFICES ASSUME ~hiccup' PROVE Linked(q)'
      BY DEF Linked
    <2>1. /\ Len(offered'[q]) = Len(offered[q]) + 1 /\ Len(offered[q]) \in Nat
          /\ \A i \in 1..Len(offered[q]) : offered'[q][i] = offered[q][i]
          /\ offered'[q] # offered[q]
      BY <1>1, <1>4, Appended
    <2>2. /\ arrived[q] <= Len(offered[q])
          /\ \A i \in 1..arrived[q] : sent[q][i] = offered[q][i]
      BY <1>1, <1>2 DEF Linked
    <2>3. (sent' # sent /\ Accepts(r)) \/ (sent' = sent /\ Rejects)
      <3>1. offered' # offered
        BY <1>4, <2>1
      <3> QED  BY <3>1, AcceptsOrRejects
    <2>4. CASE sent' # sent /\ Accepts(r)
      <3>1. link # "draining" /\ (link = "up" => sent[q] = offered[q])
        <4>1. hiccup' = (hiccup \/ (link = "up" /\ sent[r] # offered[r]))
          BY <2>4, Zenon DEF Accepts
        <4> QED  BY <1>1, <1>2, <1>4, <4>1 DEF Alive
      <3>2. sent'[q] = Append(sent[q], k)
        <4> SUFFICES ASSUME sent'[r] = sent[r] PROVE FALSE
          BY <1>4
        <4>1. \A p \in Requests : sent'[p] = sent[p]
          BY HandlerEffect, HandlerSteps
        <4>2. sent' = sent
          BY <4>1, HandlerEffect, HandlerSteps
        <4> QED  BY <2>4, <4>2
      <3>3. /\ Len(sent'[q]) = Len(sent[q]) + 1 /\ Len(sent[q]) \in Nat
            /\ \A i \in 1..Len(sent[q]) : sent'[q][i] = sent[q][i]
        BY <1>1, <3>2, Appended
      <3>4. arrived'[q] = arrived[q] /\ link' = link /\ host' = host
        BY <1>2
      <3>5. CASE link = "up"
        <4>1. sent[q] = offered[q]
          BY <3>1, <3>5
        <4>2. sent'[q] = offered'[q]
          BY <1>4, <3>2, <4>1
        <4>3. arrived'[q] <= Len(offered'[q])
          BY <1>1, <2>1, <2>2, <3>4
        <4>4. Len(sent'[q]) <= Len(offered'[q])
          BY <2>1, <4>2
        <4> QED  BY <4>2, <4>3, <4>4, Zenon DEF Linked
      <3>6. CASE link = "down"
        BY <1>1, <2>1, <2>2, <3>3, <3>4, <3>6 DEF Linked
      <3> QED  BY <1>1, <3>1, <3>5, <3>6 DEF TypeOK
    <2>5. CASE sent' = sent /\ Rejects
      <3>1. ~(host = "running" /\ link = "up")
        BY <2>5 DEF Rejects
      <3>2. link # "down" => /\ Len(sent[q]) <= Len(offered[q])
                             /\ \A i \in 1..Len(sent[q]) : sent[q][i] = offered[q][i]
        BY <1>1, <1>2 DEF Linked
      <3>3. /\ arrived'[q] = arrived[q] /\ sent'[q] = sent[q]
            /\ link' = link /\ host' = host
        BY <1>2, <2>5
      <3> QED  BY <1>1, <2>1, <2>2, <3>1, <3>2, <3>3 DEF Linked
    <2> QED  BY <2>3, <2>4, <2>5
  <1> QED  BY <1>3, <1>4, HandlerEffect, HandlerSteps

\* A step of the handler keeps the invariant.
LEMMA HandlerKeeps ==
    ASSUME IInv, NEW r \in Requests, Takes(r) \/ Answers(r)
    PROVE  IInv'
  <1>1. HandlerMoves(r)
    BY HandlerSteps
  <1>2. /\ pc[r] \notin {"idle", "checked", "registered"}
        /\ asked' \subseteq asked /\ r \notin asked'
        /\ UNCHANGED <<closing, closeErr, pending, queue, hold, pc, result, pump, msg, timer,
                       ended, body, got, ctxDone, arrived, quiet, link, host>>
        /\ hiccup' \in BOOLEAN /\ (hiccup => hiccup')
    BY AnswersAsked DEF callerVars
  <1>3. /\ TypeOK /\ (link = "draining" => host = "exited") /\ CallerP!FlowInv
        /\ \A q \in Requests :
             CallerP!Counted(q) /\ Early(q) /\ Expected(q)
    BY DEF IInv
  <1>4. /\ HandlerP!Conduct' /\ handler' = handler
        /\ \A q \in Requests \ {r} :
             place'[q] = place[q] /\ source'[q] = source[q] /\ sent'[q] = sent[q]
    BY <1>1, HandlerEffect
  <1>5. TypeOK' /\ (link = "draining" => host = "exited")'
    BY <1>2, <1>3, <1>4 DEF TypeOK
  <1>6. CallerP!FlowInv'
    <2>1. ASSUME NEW q \in Requests, pc[q] \in {"idle", "checked", "registered"}
          PROVE  wire'[q] = <<>>
      <3>1. CallerP!FlowOK(q) /\ q # r
        BY <1>2, <1>3, <2>1 DEF CallerP!FlowInv, CallerP!Flow
      <3> QED  BY <1>1, <2>1, <3>1, WireGrows DEF CallerP!FlowOK
    <2>2. UNCHANGED <<CallerP!callerVars, CallerP!loopVars, pc, result, CallerP!bodyVars,
                      CallerP!clockVars, msg, ctxDone>>
      BY <1>2 DEF CallerP!callerVars, CallerP!loopVars, CallerP!bodyVars, CallerP!clockVars
    <2>3. /\ wire' \in [Requests -> Seq(CallerP!Reply)]
          /\ \A q \in Requests : Len(wire[q]) <= Len(wire'[q])
      BY <1>1, WireGrows DEF Reply, CallerP!Reply, Kinds, CallerP!Kinds
    <2> QED  BY <1>3, <2>1, <2>2, <2>3, EndsAssumptions, CallerP!FlowGrows
             DEF CallerP!CallerAssumption
  <1>7. ASSUME NEW q \in Requests PROVE CallerP!Counted(q)'
    BY <1>1, <1>2, <1>3, <1>7, WireGrows, EndsAssumptions, CallerP!SameCount
    DEF CallerP!CallerAssumption
  <1>8. ASSUME NEW q \in Requests PROVE Early(q)' /\ Expected(q)'
    BY <1>2, <1>3, <1>4, <1>8 DEF Early, Expected
  <1>9. ASSUME NEW q \in Requests PROVE Linked(q)'
    BY <1>9, SendsLinked
  <1> QED  BY <1>4, <1>5, <1>6, <1>7, <1>8, <1>9 DEF IInv

-------------------------------------------------------------------------------
\* Steps of the Caller.

\* What the Caller receives first is what the handler offered first.
LEMMA FirstReceived ==
    ASSUME IInv, NEW r \in Requests, ~hiccup, arrived[r] > 0
    PROVE  wire[r][1].kind \in {"Response", "Start", "Error"}
  <1>1. /\ sent[r] \in Seq(Kinds) /\ offered[r] \in Seq(Kinds) /\ arrived[r] \in Nat
        /\ arrived[r] <= Len(sent[r]) /\ \A i \in 1..Len(sent[r]) : wire[r][i].kind = sent[r][i]
    BY SharedTypes
  <1>2. Linked(r) /\ HandlerP!Offers(r)
    BY DEF IInv, HandlerP!Conduct
  <1>3. sent[r][1] = offered[r][1] /\ arrived[r] <= Len(offered[r])
    BY <1>1, <1>2 DEF Linked
  <1>4. wire[r][1].kind = sent[r][1]
    BY <1>1
  <1>5. offered[r][1] \in {"Response", "Start", "Error"}
    <2>1. /\ Len(Frames(offered[r])) = Len(offered[r]) /\ Frames(offered[r])[1].kind = offered[r][1]
          /\ Frames(offered[r]) # <<>>
      BY <1>1, <1>3, WireFacts
    <2>2. Conforming(Frames(offered[r]))
      BY <1>2 DEF HandlerP!Offers, HandlerP!Conforming, HandlerP!Frames, HandlerP!Good,
         HandlerP!Terminal, Conforming, Frames, Good, Terminal
    <2> QED  BY <2>1, <2>2 DEF Conforming
  <1> QED  BY <1>3, <1>4, <1>5

\* A step of the Caller that receives nothing over a connection that is down,
\* and transmits only what was not asked before, keeps the invariant.
LEMMA CallerKeeps ==
    ASSUME IInv, UNCHANGED <<handlerVars, link, host, hiccup>>,
           [CallerP!Next]_(CallerP!vars),
           asked' \in SUBSET Requests, \A r \in asked' : place[r] = "none",
           link # "down" \/ arrived' = arrived,
           \A r \in Requests : Early(r)'
    PROVE  IInv'
  <1>1. /\ CallerP!FlowInv /\ HandlerP!Conduct /\ TypeOK
        /\ \A q \in Requests : CallerP!Counted(q) /\ Linked(q) /\ Expected(q)
    BY DEF IInv
  <1>2. CallerP!FlowInv'
    BY <1>1, EndsAssumptions, CallerP!FlowKept DEF CallerP!CallerAssumption
  <1>3. CallerP!EOF \notin {"readError"} /\ "unexpectedType" \notin {"readError"}
    BY DEF CallerP!EOF
  <1>4. ASSUME NEW q \in Requests PROVE CallerP!Counted(q)'
    BY <1>1, <1>3, <1>4, SharedTypes, EndsAssumptions, CallerP!CountStep
    DEF CallerP!CallerAssumption
  <1>5. ASSUME NEW q \in Requests PROVE Expected(q)'
    BY <1>1, <1>3, <1>5, FirstReceived, EndsAssumptions, CallerP!ExpectedStep
    DEF CallerP!CallerAssumption, Expected
  <1>6. UNCHANGED <<handler, place, started, source, produced, offered, sent, link, host, hiccup>>
    BY DEF handlerVars
  <1>7. HandlerP!Conduct'
    BY <1>1, <1>6, EndsAssumptions, HandlerP!ConductStep
    DEF HandlerP!GoHandlerAssumption, HandlerP!vars
  <1>8. ASSUME NEW q \in Requests PROVE Linked(q)'
    <2>1. wire' = wire
      BY <1>6 DEF wire
    <2>2. arrived'[q] \in Nat /\ arrived'[q] <= Len(wire[q])
      BY <1>2, <2>1
      DEF CallerP!FlowInv, CallerP!SlotInv, CallerP!TypeOK, CallerP!Flow, CallerP!FlowOK
    <2>3. /\ sent[q] \in Seq(Kinds) /\ offered[q] \in Seq(Kinds) /\ Len(wire[q]) = Len(sent[q])
      BY SharedTypes
    <2>4. /\ Linked(q) /\ sent'[q] = sent[q] /\ offered'[q] = offered[q]
          /\ link' = link /\ host' = host /\ hiccup' = hiccup
      BY <1>1, <1>6
    <2> SUFFICES ASSUME ~hiccup PROVE Linked(q)'
      BY <2>4 DEF Linked
    <2>5. /\ arrived[q] <= Len(offered[q]) /\ \A i \in 1..arrived[q] : sent[q][i] = offered[q][i]
          /\ link # "down" => /\ Len(sent[q]) <= Len(offered[q])
                              /\ \A i \in 1..Len(sent[q]) : sent[q][i] = offered[q][i]
          /\ link = "up" /\ host = "running" => sent[q] = offered[q]
      BY <2>4 DEF Linked
    <2>6. arrived'[q] <= Len(offered[q]) /\ \A i \in 1..arrived'[q] : sent[q][i] = offered[q][i]
      <3>1. CASE arrived' = arrived
        BY <2>5, <3>1
      <3>2. CASE link # "down"
        BY <2>2, <2>3, <2>5, <3>2
      <3> QED  BY <3>1, <3>2
    <2> QED  BY <2>4, <2>5, <2>6 DEF Linked
  <1>9. TypeOK' /\ (link = "draining" => host = "exited")'
    BY <1>6 DEF IInv, TypeOK
  <1> QED  BY <1>2, <1>4, <1>5, <1>7, <1>8, <1>9 DEF IInv

\* What the caller's program does; only its read loop receives.
CallerActs(r) == Asks(r) \/ Runs(r) \/ Reads(r) \/ Uses(r)

LEMMA OnlyReceives ==
    ASSUME (\E r \in Requests : CallerActs(r)) \/ ReadFails \/ Hands
    PROVE  arrived' = arrived
  <1> USE DEF Caller!loopVars
  <1>1. ASSUME NEW r \in Requests, Asks(r) \/ Reads(r) \/ Uses(r) PROVE arrived' = arrived
    BY <1>1
    DEF Asks, Reads, Uses, Caller!Transmit, Caller!Read, Caller!Call, Caller!Cancel,
        Caller!CloseBody, Caller!DropBody, Caller!SetBody
  <1>2. ASSUME NEW r \in Requests, Runs(r) PROVE arrived' = arrived
    BY <1>2
    DEF Runs, Caller!Register, Caller!SendReturns, Caller!SendFails, Caller!FirstFrameEnds,
        Caller!FirstFrameStarts, Caller!RequestStops, Caller!RequestGivesUp, Caller!PumpStep,
        Caller!PumpStarts, Caller!PumpTakes, Caller!WriteFails, Caller!PumpStops,
        Caller!PumpGivesUp, Caller!PumpReturns, Caller!Finalize, Caller!ClosePipe,
        Caller!SetBody
  <1>3. CASE ReadFails \/ Hands
    BY <1>3 DEF ReadFails, Hands, Caller!CloseSets, Caller!Push, Caller!CloseDone
  <1> QED  BY <1>1, <1>2, <1>3 DEF CallerActs

\* Each of its steps is a step of a Caller.
LEMMA CallerActsNext ==
    ASSUME (\E r \in Requests : CallerActs(r) \/ Receives(r)) \/ ReadFails \/ Hands
    PROVE  CallerP!Next
  <1>1. ASSUME NEW r \in Requests, Asks(r) \/ Runs(r) PROVE CallerP!Next
    <2>1. CASE Caller!Finalize(r) \/ Caller!ClosePipe(r)
      BY <2>1, OtherSteps
    <2>2. CallerP!RequestStep(r) \/ CallerP!PumpStep(r) => CallerP!Next
      BY DEF CallerP!Next
    <2> QED  BY <1>1, <2>1, <2>2, RequestSteps, PumpSteps DEF Asks, Runs, Caller!PumpStep
  <1>2. ASSUME NEW r \in Requests, Receives(r) \/ Reads(r) \/ Uses(r) PROVE CallerP!Next
    BY <1>2, OtherSteps DEF Receives, Reads, Uses
  <1>3. CASE ReadFails \/ Hands
    BY <1>3, SharedSteps DEF ReadFails, Hands
  <1> QED  BY <1>1, <1>2, <1>3 DEF CallerActs

\* Only a request that is sent gets under way.
LEMMA OnlyAsksStart ==
    ASSUME CallerP!TypeOK, NEW q \in Requests, ~Asks(q),
           (\E r \in Requests : CallerActs(r) \/ Receives(r)) \/ ReadFails \/ Hands,
           pc'[q] \in {"sending", "waiting", "stopping"} \/ pump'[q] # "none"
    PROVE  pc[q] \in {"sending", "waiting", "stopping"} \/ pump[q] # "none"
  <1> USE DEF CallerP!TypeOK, Caller!callerVars, Caller!loopVars, Caller!requestVars,
              Caller!bodyVars, Caller!Return, Caller!PumpEnds
  <1>1. ASSUME NEW r \in Requests, r # q, Asks(r) PROVE pc'[q] = pc[q] /\ pump'[q] = pump[q]
    BY <1>1 DEF Asks, Caller!Transmit
  <1>2. CASE \E r \in Requests : Reads(r) \/ Uses(r) \/ Receives(r)
    BY <1>2
    DEF Reads, Uses, Receives, Caller!Read, Caller!Call, Caller!Cancel, Caller!CloseBody,
        Caller!DropBody, Caller!SetBody, Caller!LookUp
  <1>3. CASE \E r \in Requests : Runs(r)
    BY <1>3
    DEF Runs, Caller!Register, Caller!SendReturns, Caller!SendFails, Caller!FirstFrameEnds,
        Caller!FirstFrameStarts, Caller!RequestStops, Caller!RequestGivesUp, Caller!PumpStep,
        Caller!PumpStarts, Caller!PumpTakes, Caller!PumpSwitch, Caller!WriteFails,
        Caller!PumpStops, Caller!PumpGivesUp, Caller!PumpReturns, Caller!Finalize,
        Caller!ClosePipe, Caller!SetBody
  <1>4. CASE ReadFails \/ Hands
    BY <1>4 DEF ReadFails, Hands, Caller!CloseSets, Caller!Push, Caller!CloseDone
  <1> QED  BY <1>1, <1>2, <1>3, <1>4 DEF CallerActs

\* Every step of the caller's program keeps the invariant.
LEMMA CallerActsKeep ==
    ASSUME IInv, (\E r \in Requests : CallerActs(r) \/ Receives(r)) \/ ReadFails \/ Hands
    PROVE  IInv'
  <1>1. /\ TypeOK /\ CallerP!TypeOK /\ \A q \in Requests : Early(q)
    BY DEF IInv, CallerP!FlowInv, CallerP!SlotInv
  <1>2. /\ UNCHANGED <<handlerVars, link, host, hiccup>>
        /\ asked' = asked \/ \E r \in Requests : Asks(r) /\ asked' = asked \cup {r}
    BY DEF CallerActs, Asks, Receives, Runs, Reads, Uses, ReadFails, Hands, linkVars
  <1>3. CallerP!Next
    BY CallerActsNext
  <1>4. link # "down" \/ arrived' = arrived
    BY OnlyReceives DEF Receives
  <1>5. ASSUME NEW r \in Requests, Asks(r) PROVE pc[r] = "registered" /\ pc'[r] = "sending"
    BY <1>1, <1>5 DEF Asks, Caller!Transmit, CallerP!TypeOK
  <1>6. place' = place
    BY <1>2 DEF handlerVars
  <1>7. ASSUME NEW q \in Requests PROVE Early(q)'
    <2>1. pc'[q] \in {"idle", "checked", "registered"}
          => pc[q] \in {"idle", "checked", "registered"}
      BY <1>1, <1>3, <1>7, EndsAssumptions, CallerP!SentIsSent DEF CallerP!CallerAssumption
    <2> QED  BY <1>1, <1>2, <1>5, <1>6, <2>1 DEF Early
  <1>8. asked' \in SUBSET Requests /\ \A q \in asked' : place[q] = "none"
    BY <1>1, <1>2, <1>5 DEF TypeOK, Early
  <1> QED  BY <1>2, <1>3, <1>4, <1>7, <1>8, CallerKeeps

-------------------------------------------------------------------------------
\* Steps of the connection and of the process, and the invariant.

LEMMA LinkKeeps ==
    ASSUME IInv, \/ (\E r \in Requests : Panics(r)) \/ Signal \/ LoopEnds \/ Breaks \/ Drains
                 \/ UNCHANGED vars
    PROVE  IInv'
  <1>1. /\ UNCHANGED <<callerVars, handlerVars, asked, hiccup>>
        /\ link' = link \/ link' = "down" \/ (link' = "draining" /\ link = "up" /\ host' = "exited")
        /\ host' = host \/ (host' = "signalled" /\ host = "running") \/ host' = "exited"
    BY DEF Panics, Signal, LoopEnds, Exit, Breaks, Drains, vars, linkVars
  <1>2. UNCHANGED <<closing, closeErr, pending, queue, hold, pc, result, pump, msg, timer, ended,
                    body, got, ctxDone, arrived, quiet, handler, place, started, source,
                    produced, offered, sent, asked, hiccup>>
    BY <1>1 DEF callerVars, handlerVars
  <1>3. UNCHANGED CallerP!vars /\ UNCHANGED HandlerP!vars
    BY <1>1, SharedSteps
  <1>4. TypeOK' /\ (link = "draining" => host = "exited")'
    BY <1>1, <1>2 DEF IInv, TypeOK
  <1>5. CallerP!FlowInv' /\ HandlerP!Conduct'
    BY <1>3, EndsAssumptions, CallerP!FlowKept, HandlerP!ConductStep
    DEF IInv, CallerP!CallerAssumption, HandlerP!GoHandlerAssumption
  <1>6. ASSUME NEW q \in Requests
        PROVE  CallerP!Counted(q)' /\ Early(q)' /\ Linked(q)' /\ Expected(q)'
    <2>1. CallerP!Counted(q) /\ Early(q) /\ Linked(q) /\ Expected(q)
      BY DEF IInv
    <2>2. CallerP!Counted(q)'
      BY <1>3, <2>1, SharedTypes, EndsAssumptions, CallerP!CountStep
      DEF IInv, CallerP!CallerAssumption, CallerP!EOF
    <2>3. Early(q)' /\ Expected(q)'
      BY <1>1, <1>2, <2>1 DEF Early, Expected
    <2>4. Linked(q)'
      BY <1>1, <1>2, <2>1 DEF Linked
    <2> QED  BY <2>1, <2>2, <2>3, <2>4
  <1> QED  BY <1>4, <1>5, <1>6 DEF IInv

LEMMA IInvStep == IInv /\ [Next]_vars => IInv'
  BY HandlerKeeps, CallerActsKeep, LinkKeeps DEF Next, CallerActs

LEMMA IInvInit == Init => IInv
  <1> SUFFICES ASSUME Init PROVE IInv
    OBVIOUS
  <1>1. CallerP!Init /\ HandlerP!Init
    BY EndsInit
  <1>2. CallerP!FlowInv /\ (\A r \in Requests : CallerP!Counted(r)) /\ HandlerP!Conduct
    BY <1>1, EndsAssumptions, CallerP!FlowInit, CallerP!CountInit, HandlerP!ConductInit
    DEF CallerP!CallerAssumption, HandlerP!GoHandlerAssumption
  <1>3. TypeOK /\ (link = "draining" => host = "exited")
    BY DEF Init, TypeOK
  <1>4. ASSUME NEW r \in Requests PROVE Early(r) /\ Linked(r) /\ Expected(r)
    <2>1. /\ place[r] = "none" /\ sent[r] = <<>> /\ offered[r] = <<>> /\ arrived[r] = 0
          /\ asked = {} /\ result[r] = CallerP!None
      BY <1>1 DEF Init, HandlerP!Init, CallerP!Init
    <2>2. Len(sent[r]) = 0 /\ Len(offered[r]) = 0
      BY <2>1
    <2> QED  BY <2>1, <2>2
             DEF Early, Linked, Expected, CallerP!None
  <1> QED  BY <1>2, <1>3, <1>4 DEF IInv

-------------------------------------------------------------------------------
\* Theorems.

\* The variables of the composition stay in their domains; in particular no
\* request is answered before it is taken off the wire.
THEOREM TypeCorrect == SafeSpec => []TypeOK
  <1>1. IInv => TypeOK
    BY DEF IInv
  <1> QED  BY <1>1, IInvInit, IInvStep, PTL DEF SafeSpec

\* The beginning of an answer that is allowed is allowed.
LEMMA BeginningConforms ==
    ASSUME NEW s \in Seq(Kinds), NEW t \in Seq(Kinds), NEW n \in Nat,
           n <= Len(s), n <= Len(t), \A i \in 1..n : s[i] = t[i], Conforming(Frames(t))
    PROVE  Conforming(SubSeq(Frames(s), 1, n))
  <1> DEFINE p == SubSeq(Frames(s), 1, n)
  <1>1. /\ Frames(s) \in Seq(Reply) /\ Len(Frames(s)) = Len(s)
        /\ \A i \in 1..Len(s) : Frames(s)[i] = Good(s[i])
        /\ Frames(t) \in Seq(Reply) /\ Len(Frames(t)) = Len(t)
        /\ \A i \in 1..Len(t) : Frames(t)[i] = Good(t[i])
    BY WireFacts
  <1>2. /\ Len(p) = n /\ \A i \in 1..n : p[i] = Frames(t)[i]
        /\ p # <<>> => n > 0 /\ Frames(t) # <<>>
    BY <1>1
  <1> HIDE DEF p
  <1>3. /\ \A i \in 1..n : Frames(t)[i].ok
        /\ n > 0 => Frames(t)[1].kind \in {"Response", "Start", "Error"}
        /\ \A i \in 2..n : /\ Frames(t)[i].kind \in {"Chunk", "End", "Error"}
                           /\ Frames(t)[i - 1].kind \notin Terminal
    BY <1>1 DEF Conforming
  <1>4. \A i \in 2..n : i \in 1..n /\ i - 1 \in 1..n
    OBVIOUS
  <1>5. /\ \A i \in 1..n : p[i].ok
        /\ p # <<>> => p[1].kind \in {"Response", "Start", "Error"}
        /\ \A i \in 2..n : /\ p[i].kind \in {"Chunk", "End", "Error"}
                           /\ p[i - 1].kind \notin Terminal
    <2>1. n > 0 => 1 \in 1..n
      OBVIOUS
    <2> QED  BY <1>2, <1>3, <1>4, <2>1
  <1>6. Conforming(p)
    BY <1>2, <1>5 DEF Conforming
  <1> QED  BY <1>6 DEF p

\* Whatever becomes of howclient and the connection: unless there was a hiccup,
\* what the Caller has received of an answer is the beginning of one that
\* Conforming allows, and no Request meets an unexpected frame.
THEOREM CallerIsNeverConfused == SafeSpec => []NeverConfused
  <1>1. IInv => NeverConfused
    <2> SUFFICES ASSUME IInv, NEW r \in Requests, ~hiccup
                 PROVE  /\ Conforming(SubSeq(wire[r], 1, arrived[r]))
                        /\ result[r] # "unexpectedType"
      BY DEF NeverConfused
    <2>1. result[r] # "unexpectedType"
      BY DEF IInv, Expected
    <2>2. Conforming(Frames(offered[r]))
      BY DEF IInv, HandlerP!Conduct, HandlerP!Offers, HandlerP!Conforming, HandlerP!Frames,
         HandlerP!Good, HandlerP!Terminal, Conforming, Frames, Good, Terminal
    <2>3. arrived[r] <= Len(offered[r]) /\ \A i \in 1..arrived[r] : sent[r][i] = offered[r][i]
      BY DEF IInv, Linked
    <2> QED  BY <2>1, <2>2, <2>3, SharedTypes, BeginningConforms
  <1> QED  BY <1>1, IInvInit, IInvStep, PTL DEF SafeSpec

\* In a body that begins with its header and carries n chunks, an End stands
\* behind all of them.
LEMMA EndIsAfterAll ==
    ASSUME NEW s \in Seq(Kinds), NEW n \in Nat, CarriesAll(s, n), s[1] = "Start",
           NEW e \in 2..Len(s), s[e] = "End"
    PROVE  e = n + 2
  <1>1. PICK h \in 0..1 : Len(s) = h + n + 1 /\ \A i \in 1..n : s[h + i] = "Chunk"
    BY DEF CarriesAll
  <1>2. h = 1
    <2> SUFFICES ASSUME h = 0 PROVE FALSE
      OBVIOUS
    <2>1. 1 \in 1..n
      BY <1>1
    <2> QED  BY <1>1, <2>1
  <1>3. \A i \in 2..(n + 1) : s[i] = "Chunk"
    <2> SUFFICES ASSUME NEW i \in 2..(n + 1) PROVE s[i] = "Chunk"
      OBVIOUS
    <2>1. i - 1 \in 1..n /\ h + (i - 1) = i
      BY <1>2
    <2> QED  BY <1>1, <2>1
  <1> QED  BY <1>1, <1>2, <1>3

\* For any number of requests and chunks, with bodies that break off, signals,
\* panics, broken connections, Close and cancellation at any moment: a body that
\* ends with a clean EOF is all that the handler produced, and the handler was
\* done with its source, which of a StreamingHandler has ended; unless sends
\* failed under an http.Handler that did not heed it.
THEOREM EofLosesNothing == SafeSpec => []CleanEofLosesNothing
  <1>1. IInv => CleanEofLosesNothing
    <2> SUFFICES ASSUME IInv, NEW r \in Requests, ended[r] = Caller!EOF,
                        ~(hiccup /\ handler = "adapter")
                 PROVE  /\ Len(got[r]) = produced[r] /\ source[r] # "open"
                        /\ handler = "custom" => source[r] = "ended"
      BY DEF CleanEofLosesNothing
    <2> DEFINE n == msg[r].n
    <2>1. /\ CallerP!Counted(r) /\ Linked(r) /\ HandlerP!BodyOK(r)
          /\ HandlerP!Offers(r) /\ produced[r] \in Nat
      BY EndsAssumptions DEF IInv, HandlerP!Conduct, HandlerP!IInv, HandlerP!Domains
    <2>2. /\ n \in 1..Len(wire[r]) /\ wire[r][1].kind = "Start" /\ wire[r][n].kind = "End"
          /\ CallerP!Given(r) + 2 = n
      BY <2>1 DEF CallerP!Counted, Caller!EOF, CallerP!EOF
    <2>3. CallerP!Given(r) \in Nat /\ n <= arrived[r] /\ n \in Nat
      <3>1. CallerP!TypeOK /\ CallerP!FlowOK(r)
        BY DEF IInv, CallerP!FlowInv, CallerP!SlotInv, CallerP!Flow
      <3>2. CallerP!Given(r) \in Nat /\ Len(queue[r]) \in Nat
        BY <3>1 DEF CallerP!TypeOK, CallerP!Given
      <3>3. n \in Nat /\ arrived[r] \in Nat /\ CallerP!Held(r) \in Nat
        BY <3>1 DEF CallerP!TypeOK, CallerP!AllFrames, CallerP!Held
      <3>4. n + Len(queue[r]) + CallerP!Held(r) <= arrived[r]
        BY <3>1 DEF CallerP!FlowOK
      <3> QED  BY <3>2, <3>3, <3>4
    <2>4. /\ n \in 2..Len(sent[r]) /\ sent[r][1] = "Start" /\ sent[r][n] = "End"
      BY <2>2, <2>3, SharedTypes
    <2>5. n = produced[r] + 2
      <3>1. CASE handler # "adapter"
        <4>1. HandlerP!Has(r, "End")
          BY <2>4 DEF HandlerP!Has
        <4>2. CarriesAll(sent[r], produced[r])
          BY <2>1, <3>1, <4>1 DEF HandlerP!BodyOK, HandlerP!CarriesAll, CarriesAll
        <4> QED  BY <2>1, <2>4, <4>2, SharedTypes, EndIsAfterAll
      <3>2. CASE ~hiccup
        <4>1. n \in 1..Len(offered[r]) /\ offered[r][n] = "End"
          BY <2>1, <2>3, <2>4, <3>2, SharedTypes DEF Linked
        <4> QED  BY <2>1, <4>1 DEF HandlerP!Offers
      <3> QED  BY <3>1, <3>2
    <2>6. CallerP!Given(r) = produced[r]
      BY <2>1, <2>2, <2>3, <2>5
    <2>7. HandlerP!Has(r, "End")
      BY <2>4 DEF HandlerP!Has
    <2> QED  BY <2>1, <2>6, <2>7 DEF HandlerP!BodyOK, CallerP!Given
  <1> QED  BY <1>1, IInvInit, IInvStep, PTL DEF SafeSpec

-------------------------------------------------------------------------------
\* No standstill.

\* A request that is on a connection which is up is on its way to howclient, or
\* has a goroutine there.
Carried(r) ==
    link = "up" /\ (pc[r] \in {"sending", "waiting", "stopping"} \/ pump[r] # "none") =>
        r \in asked \/ place[r] # "none"

\* What IInv leaves open: a process that has ended leaves no connection behind,
\* a goroutine that is done has given its last frame, and a pump that goes on
\* has not seen it.
Moving ==
    /\ host = "exited" => link # "up"
    /\ HandlerP!DoneIsAnswered
    /\ \A r \in Requests : Carried(r) /\ CallerP!GoesOn(r)

LEMMA MovingInit == Init => Moving
  <1> SUFFICES ASSUME Init PROVE Moving
    OBVIOUS
  <1>1. CallerP!Init /\ HandlerP!Init
    BY EndsInit
  <1>2. \A r \in Requests : CallerP!GoesOn(r)
    BY <1>1, EndsAssumptions, CallerP!GoesOnInit DEF CallerP!CallerAssumption
  <1>3. HandlerP!DoneIsAnswered
    BY <1>1 DEF HandlerP!Init, HandlerP!DoneIsAnswered
  <1>4. \A r \in Requests : Carried(r)
    BY <1>1 DEF CallerP!Init, Carried
  <1> QED  BY <1>2, <1>3, <1>4 DEF Init, Moving

\* The handler's steps.
LEMMA HandlerMoving ==
    ASSUME IInv, Moving, NEW r \in Requests, Takes(r) \/ Answers(r)
    PROVE  Moving'
  <1>1. HandlerMoves(r) /\ HandlerP!Next
    BY HandlerSteps DEF HandlerMoves, HandlerP!Next
  <1>2. UNCHANGED <<pc, pump, msg, link, host>>
    BY AnswersAsked DEF callerVars
  <1>3. HandlerP!DoneIsAnswered'
    BY <1>1, EndsAssumptions, HandlerP!DoneStep DEF IInv, Moving, HandlerP!GoHandlerAssumption
  <1>4. ASSUME NEW q \in Requests PROVE Carried(q)'
    <2>1. Carried(q)
      BY DEF Moving
    <2>2. q = r \/ (place'[q] = place[q] /\ (q \in asked => q \in asked'))
      BY <1>1, HandlerEffect DEF Takes, Answers
    <2>3. place'[r] # "none"
      BY <1>1, HandlerEffect
    <2> QED  BY <1>2, <2>1, <2>2, <2>3 DEF Carried
  <1>5. ASSUME NEW q \in Requests PROVE CallerP!GoesOn(q)'
    <2>1. CallerP!GoesOn(q) /\ CallerP!Counted(q)
      BY DEF Moving, IInv
    <2>2. pump[q] # "none" => wire'[q][msg[q].n] = wire[q][msg[q].n]
      BY <1>1, <2>1, WireGrows DEF CallerP!Counted
    <2> QED  BY <1>2, <2>1, <2>2, EndsAssumptions, CallerP!SameGoesOn DEF CallerP!CallerAssumption
  <1> QED  BY <1>2, <1>3, <1>4, <1>5 DEF Moving

\* The caller's.
LEMMA CallerMoving ==
    ASSUME IInv, Moving,
           (\E r \in Requests : CallerActs(r) \/ Receives(r)) \/ ReadFails \/ Hands
    PROVE  Moving'
  <1>1. CallerP!TypeOK /\ CallerP!FlowInv /\ TypeOK
    BY DEF IInv, CallerP!FlowInv, CallerP!SlotInv
  <1>2. CallerP!Next
    BY CallerActsNext
  <1>3. /\ UNCHANGED <<place, offered, link, host>>
        /\ asked' = asked \/ \E r \in Requests : Asks(r) /\ asked' = asked \cup {r}
    BY DEF CallerActs, Asks, Receives, Runs, Reads, Uses, ReadFails, Hands, linkVars, handlerVars
  <1>4. ASSUME NEW q \in Requests PROVE CallerP!GoesOn(q)'
    BY <1>1, <1>2, EndsAssumptions, CallerP!GoesOnStep DEF Moving, CallerP!CallerAssumption
  <1>5. ASSUME NEW q \in Requests, ~Asks(q) PROVE Carried(q)'
    <2> DEFINE On  == pc[q] \in {"sending", "waiting", "stopping"} \/ pump[q] # "none"
               On2 == pc'[q] \in {"sending", "waiting", "stopping"} \/ pump'[q] # "none"
    <2>1. On2 => On
      BY <1>1, <1>5, OnlyAsksStart
    <2>2. asked \subseteq asked'
      BY <1>3
    <2>3. Carried(q)
      BY DEF Moving
    <2> QED  BY <1>3, <2>1, <2>2, <2>3 DEF Carried
  <1>6. ASSUME NEW q \in Requests, Asks(q) PROVE Carried(q)'
    BY <1>3, <1>6 DEF Asks, Carried
  <1>7. HandlerP!DoneIsAnswered'
    BY <1>3 DEF Moving, HandlerP!DoneIsAnswered
  <1> QED  BY <1>3, <1>4, <1>5, <1>6, <1>7 DEF Moving

\* Those of the connection and of the process.
LEMMA LinkMoving ==
    ASSUME IInv, Moving, \/ (\E r \in Requests : Panics(r)) \/ Signal \/ LoopEnds \/ Breaks \/ Drains
                         \/ UNCHANGED vars
    PROVE  Moving'
  <1>1. /\ UNCHANGED <<callerVars, handlerVars, asked>>
        /\ link' = "up" => link = "up" /\ host' # "exited"
    BY DEF Panics, Signal, LoopEnds, Exit, Breaks, Drains, vars, linkVars, Moving
  <1>2. UNCHANGED <<pc, pump, msg, place, offered, wire>>
    BY <1>1 DEF callerVars, handlerVars, wire
  <1>3. HandlerP!DoneIsAnswered'
    BY <1>2 DEF Moving, HandlerP!DoneIsAnswered
  <1>4. ASSUME NEW q \in Requests PROVE Carried(q)' /\ CallerP!GoesOn(q)'
    BY <1>1, <1>2 DEF Moving, Carried, CallerP!GoesOn
  <1> QED  BY <1>1, <1>3, <1>4 DEF Moving

LEMMA MovingStep == IInv /\ Moving /\ [Next]_vars => Moving'
  BY HandlerMoving, CallerMoving, LinkMoving DEF Next, CallerActs

\* A consumer that waits on an empty queue, with nothing on its way to it, has
\* taken all that was received, and the last frame of it is not a last frame.
LEMMA WaitsForMore ==
    ASSUME IInv, Moving, NEW r \in pending, ~hiccup, queue[r] = <<>>, hold = Caller!NoFrame,
           pc[r] = "waiting" \/ pump[r] = "waiting", arrived[r] > 0
    PROVE  wire[r][arrived[r]].kind \notin Terminal
  <1>0. /\ CallerP!TypeOK /\ CallerP!FlowOK(r) /\ CallerP!Counted(r) /\ CallerP!GoesOn(r)
        /\ CallerP!Handover /\ r \in Requests /\ CallerP!BodyBehind(wire[r])
    <2>1. r \in Requests
      BY DEF IInv, CallerP!FlowInv, CallerP!SlotInv, CallerP!TypeOK
    <2> QED  BY <2>1, SharedTypes
             DEF IInv, Moving, CallerP!FlowInv, CallerP!SlotInv, CallerP!Flow
  <1>1. msg[r].n = arrived[r] /\ arrived[r] \in Nat
    <2>1. CallerP!Held(r) = 0
      BY <1>0, ExchangeAssumption DEF CallerP!Held, Caller!NoFrame, Caller!Frame
    <2>2. Len(queue[r]) = 0
      BY <1>0
    <2>3. msg[r].n \in Nat /\ arrived[r] \in Nat
      BY <1>0 DEF CallerP!TypeOK, CallerP!AllFrames
    <2> QED  BY <1>0, <2>1, <2>2, <2>3 DEF CallerP!FlowOK
  <1>2. pump[r] = "waiting"
    BY <1>0, <1>1 DEF CallerP!FlowOK
  <1>3. /\ msg[r].n \in 1..Len(wire[r]) /\ wire[r][1].kind = "Start"
        /\ wire[r][msg[r].n].kind \notin {"End", "Error"}
    BY <1>0, <1>2 DEF CallerP!Counted, CallerP!GoesOn
  <1>4. CASE msg[r].n = 1
    BY <1>1, <1>3, <1>4 DEF Terminal
  <1>5. CASE msg[r].n \in 2..Len(wire[r])
    BY <1>0, <1>1, <1>3, <1>5 DEF CallerP!BodyBehind, Terminal
  <1> QED  BY <1>3, <1>4, <1>5

\* Without a timeout, and whatever signals, panics, broken connections and
\* cancellations come when: as long as a request has a pending slot, something
\* at the caller's end, at the handler's or between them has a step to take for
\* it.  Nobody waits for somebody who waits.
THEOREM NobodyIsStuck == SafeSpec => []NeverStuck
  <1>1. IInv /\ Moving => NeverStuck
    <2> SUFFICES ASSUME IInv, Moving, NEW r \in pending, ~hiccup, ~CallerDue(r), ~HandlerDue(r),
                        ~LinkDue(r)
                 PROVE  FALSE
      BY DEF NeverStuck
    <2>1. /\ TypeOK /\ CallerP!TypeOK /\ CallerP!SlotIffConsumer /\ Linked(r) /\ Carried(r)
          /\ HandlerP!DoneIsAnswered /\ HandlerP!Domains /\ r \in Requests
      <3>1. CallerP!TypeOK /\ CallerP!SlotIffConsumer
        BY DEF IInv, CallerP!FlowInv, CallerP!SlotInv
      <3>2. r \in Requests
        BY <3>1 DEF CallerP!TypeOK
      <3> QED  BY <3>1, <3>2 DEF IInv, Moving, HandlerP!Conduct, HandlerP!IInv
    <2>2. /\ pc[r] = "waiting" \/ pump[r] = "waiting"
          /\ queue[r] = <<>> /\ hold = Caller!NoFrame /\ closing # "setting" /\ closing # "closed"
      <3>1. CallerP!HasConsumer(r)
        BY <2>1 DEF CallerP!SlotIffConsumer
      <3>2. pc[r] = "waiting" \/ pump[r] = "waiting"
        BY <2>1, <3>1 DEF CallerP!HasConsumer, CallerDue, CallerP!TypeOK, CallerP!PumpPlaces
      <3>3. queue[r] = <<>> /\ hold = Caller!NoFrame /\ closing # "setting"
        BY <3>2 DEF CallerDue
      <3>4. closing # "closed"
        BY <3>2, <3>3 DEF CallerDue, Caller!MustStop, Caller!Closed
      <3> QED  BY <3>2, <3>3, <3>4
    <2>3. link = "up" /\ host = "running"
      <3>1. closing = "open"
        BY <2>1, <2>2 DEF CallerP!TypeOK
      <3>2. link = "up"
        BY <2>1, <3>1 DEF LinkDue, TypeOK
      <3> QED  BY <2>1, <3>2 DEF HandlerDue, Moving, TypeOK
    <2>4. place[r] = "done"
      <3>1. r \in asked \/ place[r] # "none"
        BY <2>2, <2>3 , <2>1 DEF Carried
      <3> QED  BY <2>3, <3>1 DEF HandlerDue, Alive
    <2>5. offered[r] # <<>> /\ offered[r][Len(offered[r])] \in Terminal
      BY <2>1, <2>4 DEF HandlerP!DoneIsAnswered, HandlerP!Terminal, Terminal
    <2>6. /\ sent[r] = offered[r] /\ offered[r] \in Seq(Kinds) /\ arrived[r] = Len(sent[r])
          /\ arrived[r] \in Nat
          /\ \A i \in 1..Len(sent[r]) : wire[r][i].kind = sent[r][i]
      <3>1. arrived[r] >= Len(wire[r])
        <4>1. ~(arrived[r] < Len(wire[r]))
          BY <2>3 DEF LinkDue
        <4>2. arrived[r] \in Nat /\ Len(wire[r]) = Len(sent[r]) /\ Len(sent[r]) \in Nat
          BY <2>1, SharedTypes
        <4> QED  BY <4>1, <4>2
      <3> QED  BY <2>1, <2>3, <3>1, SharedTypes DEF Linked
    <2>7. arrived[r] > 0 /\ wire[r][arrived[r]].kind \in Terminal
      BY <2>5, <2>6
    <2> QED  BY <2>2, <2>7, WaitsForMore
  <1> QED  BY <1>1, IInvInit, IInvStep, MovingInit, MovingStep, PTL DEF SafeSpec

-------------------------------------------------------------------------------
\* Each end keeps what it promises alone.

\* What howclient and the connection do to the handler is at most to stop it.
LEMMA HandlerActs == [Next]_vars => [HandlerP!Next]_(HandlerP!vars)
  <1> SUFFICES ASSUME [Next]_vars PROVE [HandlerP!Next]_(HandlerP!vars)
    OBVIOUS
  <1>1. ASSUME NEW r \in Requests, Takes(r) \/ Answers(r) PROVE HandlerP!Next
    BY <1>1, HandlerSteps DEF HandlerMoves, HandlerP!Next
  <1>2. CASE (\E r \in Requests : CallerActs(r) \/ Receives(r)) \/ ReadFails \/ Hands
    BY <1>2
    DEF CallerActs, Asks, Receives, Runs, Reads, Uses, ReadFails, Hands, handlerVars, HandlerP!vars
  <1>3. CASE \/ (\E r \in Requests : Panics(r)) \/ Signal \/ LoopEnds \/ Breaks \/ Drains
             \/ UNCHANGED vars
    BY <1>3
    DEF Panics, Signal, LoopEnds, Exit, Breaks, Drains, vars, handlerVars, HandlerP!vars
  <1> QED  BY <1>1, <1>2, <1>3 DEF Next, CallerActs

\* In howclient, under signals, panics and broken connections, the handler is
\* the HOWHandler of GoHandler: all that is proved of its safety there holds.
THEOREM HandlerIsHandler == SafeSpec => HandlerP!SafeSpec
  <1>1. Init => HandlerP!Init
    BY EndsInit
  <1> QED  BY <1>1, HandlerActs, PTL DEF SafeSpec, HandlerP!SafeSpec

\* So every answer that howclient offers to its connection is one of spec.md 8.
THEOREM AnswersConform == SafeSpec => HandlerP!ImplementsResponse
  <1>1. HandlerP!SafeSpec => HandlerP!ImplementsResponse
    BY EndsAssumptions, HandlerP!HandlerImplementsResponse DEF HandlerP!GoHandlerAssumption
  <1> QED  BY <1>1, HandlerIsHandler

\* What the user of the Caller has seen, as GoCallerProofs puts it.
UserInv == CallerP!Seen /\ CallerP!Delivered /\ CallerP!Agreed

\* The error of the only Close here is none of the Caller's own.
LEMMA ReadErrorIsNotOwn == CallerP!OwnOutcomes \cap CallerP!CloseErrors = {}
  BY DEF CallerP!OwnOutcomes, CallerP!CloseErrors, CallerP!None, CallerP!CtxErr,
     CallerP!ErrReadTimeout, CallerP!EOF, CallerP!NilErr, CallerP!ErrTransportClosed

\* The Caller's own steps, and those that it does not notice.
LEMMA CallerServes ==
    ASSUME IInv, UserInv, [CallerP!Next]_(CallerP!vars)
    PROVE  UserInv' /\ [CallerP!User!Next]_(CallerP!User!vars)
  <1>1. CallerP!FlowInv /\ CallerP!TypeOK
    BY DEF IInv, CallerP!FlowInv, CallerP!SlotInv
  <1>2. CallerP!Seen' /\ CallerP!Delivered' /\ CallerP!Agreed'
    BY <1>1, EndsAssumptions, CallerP!SeenStep, CallerP!DeliveredStep, CallerP!AgreedStep
    DEF UserInv, CallerP!CallerAssumption
  <1>3. [CallerP!User!Next]_(CallerP!User!vars)
    BY <1>1, EndsAssumptions, ReadErrorIsNotOwn, CallerP!CallerImplements
    DEF UserInv, CallerP!CallerAssumption
  <1> QED  BY <1>2, <1>3 DEF UserInv

\* A frame from the handler: the reply grows.
LEMMA HandlerServes ==
    ASSUME IInv, UserInv, NEW r \in Requests, Takes(r) \/ Answers(r)
    PROVE  UserInv' /\ [CallerP!User!Next]_(CallerP!User!vars)
  <1>1. HandlerMoves(r) /\ CallerP!TypeOK
    BY HandlerSteps DEF IInv, CallerP!FlowInv, CallerP!SlotInv
  <1>2. UNCHANGED <<closing, closeErr, pc, result, pump, msg, ended, body, got>>
    BY HandlerSteps DEF callerVars
  <1>3. \A q \in Requests : CallerP!Grown(q)
    BY <1>1, WireGrows DEF CallerP!Grown
  <1>4. ASSUME NEW q \in Requests PROVE CallerP!SeenOK(q)' /\ CallerP!DeliveredOK(q)'
    <2>1. CallerP!SeenOK(q) /\ CallerP!DeliveredOK(q)
      BY DEF UserInv, CallerP!Seen, CallerP!Delivered
    <2>2. pump[q] = "writing" => wire'[q][msg[q].n] = wire[q][msg[q].n]
      BY <1>1, <2>1, WireGrows DEF CallerP!DeliveredOK
    <2>3. CallerP!SeenOK(q)'
      BY <1>2, <2>1, <2>2, EndsAssumptions, CallerP!SameSeen DEF CallerP!CallerAssumption
    <2>4. CallerP!DeliveredOK(q)'
      BY <1>2, <1>3, <2>1, EndsAssumptions, CallerP!BodyGrows DEF CallerP!CallerAssumption
    <2> QED  BY <2>3, <2>4
  <1>5. CallerP!Agreed'
    BY <1>2 DEF UserInv, CallerP!Agreed, CallerP!AgreedOK, CallerP!CloseOK
  <1>6. CallerP!User!Next
    <2>1. wire' \in [Requests -> Seq(CallerP!Reply)]
      BY <1>1, WireGrows DEF Reply, CallerP!Reply, Kinds, CallerP!Kinds
    <2> QED  BY <1>1, <1>2, <1>3, <2>1, EndsAssumptions, CallerP!UserGrows
             DEF CallerP!CallerAssumption
  <1> QED  BY <1>4, <1>5, <1>6 DEF UserInv, CallerP!Seen, CallerP!Delivered

\* The user of a Caller whose peer is howclient, behind a connection that breaks
\* at any moment, is promised what ResponseStream says of what is on the wire:
\* one outcome per request, every chunk once and in order, a clean end only
\* behind all of them.
THEOREM CallerKeepsPromise == SafeSpec => CallerP!ImplementsStream
  <1>1. Init => UserInv /\ CallerP!User!Init
    BY EndsInit, EndsAssumptions, CallerP!UserInit
    DEF CallerP!CallerAssumption, UserInv
  <1>2. IInv /\ UserInv /\ [Next]_vars => UserInv' /\ [CallerP!User!Next]_(CallerP!User!vars)
    <2> SUFFICES ASSUME IInv, UserInv, [Next]_vars
                 PROVE  UserInv' /\ [CallerP!User!Next]_(CallerP!User!vars)
      OBVIOUS
    <2>1. CASE (\E r \in Requests : CallerActs(r) \/ Receives(r)) \/ ReadFails \/ Hands
      BY <2>1, CallerActsNext, CallerServes
    <2>2. CASE \E r \in Requests : Takes(r) \/ Answers(r)
      BY <2>2, HandlerServes
    <2>3. CASE \/ (\E r \in Requests : Panics(r)) \/ Signal \/ LoopEnds \/ Breaks \/ Drains
               \/ UNCHANGED vars
      <3>1. UNCHANGED <<callerVars, handlerVars>>
        BY <2>3 DEF Panics, Signal, LoopEnds, Exit, Breaks, Drains, vars
      <3> QED  BY <3>1, SharedSteps, CallerServes
    <2> QED  BY <2>1, <2>2, <2>3 DEF Next, CallerActs
  <1> QED
    BY <1>1, <1>2, IInvInit, IInvStep, PTL
    DEF SafeSpec, CallerP!ImplementsStream, CallerP!User!Spec

===============================================================================
