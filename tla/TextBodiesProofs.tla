--------------------------- MODULE TextBodiesProofs ---------------------------
(***************************************************************************)
(* What the text codecs promise, for bytes quoted to any depth and chains  *)
(* of codecs of any length.  Each promise about what arrives is inductive  *)
(* only together with one about what is on the wire.                       *)
(***************************************************************************)
EXTENDS TextBodies, TLAPS

\* An encoder makes a JSON document of any field.
LEMMA EncodersMakeJson ==
    ASSUME NEW f \in Field
    PROVE  /\ GoMarshal(f) \in Field /\ IsJson(GoMarshal(f))
           /\ TsEncode(f) \in Field /\ IsJson(TsEncode(f))
<1> USE DEF Field, PlainCores, JsonCores, IsJson
<1>1. GoMarshal(f) \in Field /\ IsJson(GoMarshal(f))
    BY DEF GoMarshal, Nothing, Null, Quote, Patch, Respell, GoSpelling
<1>2. Text(f) \in Field
    BY DEF Text, Patch
<1>3. TsEncode(f) \in Field /\ IsJson(TsEncode(f))
    BY <1>2 DEF TsEncode, Quote, Respell, JsSpelling
<1> QED BY <1>1, <1>3

\* A decoder makes a field of any JSON document.
LEMMA DecodersMakeFields ==
    ASSUME NEW w \in Field
    PROVE  GoUnmarshal(w) \in Field /\ TsDecode(w) \in Field
BY DEF Field, PlainCores, JsonCores, GoUnmarshal, TsDecode, Null, Nothing, Unquote, Patch,
       Respell, Revive, JsSpelling

\* No body makes a frame that does not parse.
THEOREM TypeCorrect == Spec => []TypeOK
<1>1. Init => TypeOK
    BY DEF Init, TypeOK, Field
<1>2. TypeOK /\ [Next]_vars => TypeOK'
    <2> SUFFICES ASSUME TypeOK, [Next]_vars PROVE TypeOK'
        OBVIOUS
    <2>1. CASE MarshalText
        BY <2>1, EncodersMakeJson DEF MarshalText, Pass, TypeOK
    <2>2. CASE UnmarshalText
        BY <2>2, DecodersMakeFields DEF UnmarshalText, Pass, TypeOK
    <2>3. CASE marshalText
        BY <2>3, EncodersMakeJson DEF marshalText, Pass, TypeOK
    <2>4. CASE unmarshalText
        BY <2>4, DecodersMakeFields DEF unmarshalText, Pass, TypeOK
    <2>5. CASE UNCHANGED vars
        BY <2>5 DEF vars, TypeOK
    <2> QED BY <2>1, <2>2, <2>3, <2>4, <2>5 DEF Next
<1> QED BY <1>1, <1>2, PTL DEF Spec

-------------------------------------------------------------------------------

\* On the wire there is at most the one layer of quotes that makes a string of
\* something that was not JSON.
QuotesInv ==
    /\ NeverRequoted
    /\ at = "wire" => now.quotes <= original.quotes \/ now.quotes = 1

\* An encoder quotes only what is not quoted, a decoder takes a layer away.
LEMMA QuotesOfCodecs ==
    ASSUME NEW f \in Field
    PROVE  /\ GoMarshal(f).quotes \in {f.quotes, 1} /\ TsEncode(f).quotes \in {f.quotes, 1}
           /\ f.quotes > 0 => GoUnmarshal(f).quotes = f.quotes - 1 /\ TsDecode(f).quotes = f.quotes - 1
           /\ f.quotes = 0 => GoUnmarshal(f).quotes = 0 /\ TsDecode(f).quotes = 0
<1> USE DEF Field, PlainCores, JsonCores
<1>1. GoMarshal(f).quotes \in {f.quotes, 1}
    BY DEF GoMarshal, IsJson, Nothing, Null, Quote, Patch, Respell, GoSpelling
<1>2. TsEncode(f).quotes \in {f.quotes, 1}
    <2>1. Text(f) \in Field /\ Text(f).quotes = f.quotes
        BY DEF Text, Patch
    <2> QED BY <2>1 DEF TsEncode, IsJson, Quote, Respell, JsSpelling
<1>3. /\ f.quotes > 0 => GoUnmarshal(f).quotes = f.quotes - 1 /\ TsDecode(f).quotes = f.quotes - 1
      /\ f.quotes = 0 => GoUnmarshal(f).quotes = 0 /\ TsDecode(f).quotes = 0
    BY DEF GoUnmarshal, TsDecode, Null, Nothing, Unquote, Patch, Respell, Revive, JsSpelling
<1> QED BY <1>1, <1>2, <1>3

\* No chain of codecs adds a layer of quotes.
THEOREM NoLayerAdded == Spec => []NeverRequoted
<1>1. Init => QuotesInv
    BY QuotesAssumption DEF Init, QuotesInv, NeverRequoted
<1>2. TypeOK /\ QuotesInv /\ [Next]_vars => QuotesInv'
    <2> SUFFICES ASSUME TypeOK, QuotesInv, [Next]_vars PROVE QuotesInv'
        OBVIOUS
    <2> USE DEF QuotesInv, NeverRequoted
    <2>0. now \in Field /\ original.quotes \in Nat /\ now.quotes \in Nat
        BY QuotesAssumption DEF TypeOK, Field
    <2>1. CASE MarshalText
        BY <2>0, <2>1, QuotesOfCodecs DEF MarshalText, Pass
    <2>2. CASE UnmarshalText
        BY <2>0, <2>2, QuotesOfCodecs DEF UnmarshalText, Pass
    <2>3. CASE marshalText
        BY <2>0, <2>3, QuotesOfCodecs DEF marshalText, Pass
    <2>4. CASE unmarshalText
        BY <2>0, <2>4, QuotesOfCodecs DEF unmarshalText, Pass
    <2>5. CASE UNCHANGED vars
        BY <2>5 DEF vars
    <2> QED BY <2>1, <2>2, <2>3, <2>4, <2>5 DEF Next
<1> QED BY <1>1, <1>2, TypeCorrect, PTL DEF Spec, QuotesInv

-------------------------------------------------------------------------------

\* Nothing, a null and what they are quoted to come from nothing or a null.
Hollow(f) == f.core \in {"empty", "null"}

HollowInv == Hollow(now) => Hollow(original)

\* No codec empties a field that has something in it.
LEMMA CodecsDoNotHollow ==
    ASSUME NEW f \in Field
    PROVE  /\ Hollow(GoMarshal(f)) => Hollow(f)
           /\ Hollow(GoUnmarshal(f)) => Hollow(f)
           /\ Hollow(TsEncode(f)) => Hollow(f)
           /\ Hollow(TsDecode(f)) => Hollow(f)
<1> USE DEF Field, PlainCores, JsonCores, Hollow
<1>1. Hollow(GoMarshal(f)) => Hollow(f)
    BY DEF GoMarshal, IsJson, Nothing, Null, Quote, Patch, Respell, GoSpelling
<1>2. Hollow(TsEncode(f)) => Hollow(f)
    <2>1. Text(f) \in Field /\ (Hollow(Text(f)) => Hollow(f))
        BY DEF Text, Patch
    <2> QED BY <2>1 DEF TsEncode, IsJson, Quote, Respell, JsSpelling
<1>3. Hollow(GoUnmarshal(f)) => Hollow(f)
    BY DEF GoUnmarshal, Null, Nothing, Unquote, Patch
<1>4. Hollow(TsDecode(f)) => Hollow(f)
    <2>1. CASE f = Null \/ f.quotes > 0
        BY <2>1 DEF TsDecode, Null, Nothing, Unquote, Patch
    <2>2. CASE f # Null /\ f.quotes = 0
        BY <2>2 DEF TsDecode, Null, Respell, Revive, JsSpelling
    <2> QED BY <2>1, <2>2
<1> QED BY <1>1, <1>2, <1>3, <1>4

\* A body that has something in it never arrives empty.
THEOREM NothingIsLost == Spec => []NothingVanishes
<1>1. Init => HollowInv
    BY DEF Init, HollowInv
<1>2. TypeOK /\ HollowInv /\ [Next]_vars => HollowInv'
    <2> SUFFICES ASSUME TypeOK, HollowInv, [Next]_vars PROVE HollowInv'
        OBVIOUS
    <2> USE DEF HollowInv
    <2>0. now \in Field
        BY DEF TypeOK
    <2>1. CASE MarshalText
        BY <2>0, <2>1, CodecsDoNotHollow DEF MarshalText, Pass
    <2>2. CASE UnmarshalText
        BY <2>0, <2>2, CodecsDoNotHollow DEF UnmarshalText, Pass
    <2>3. CASE marshalText
        BY <2>0, <2>3, CodecsDoNotHollow DEF marshalText, Pass
    <2>4. CASE unmarshalText
        BY <2>0, <2>4, CodecsDoNotHollow DEF unmarshalText, Pass
    <2>5. CASE UNCHANGED vars
        BY <2>5 DEF vars
    <2> QED BY <2>1, <2>2, <2>3, <2>4, <2>5 DEF Next
<1>3. HollowInv => NothingVanishes
    BY DEF HollowInv, Hollow, NothingVanishes
<1> QED BY <1>1, <1>2, <1>3, TypeCorrect, PTL DEF Spec

-------------------------------------------------------------------------------

\* The documents that stand for f on the wire, if f is kept.
Docs(f) ==
    IF f = Nothing THEN {Null, Quote(Nothing)} ELSE IF IsJson(f) THEN {f} ELSE {Quote(f)}

\* Bytes that all codecs so far keep are still there, or stand on the wire.
IntactInv ==
    original.quotes = 0 /\ original.core \in Kept(coders) =>
        /\ at = "endpoint" => now = original
        /\ at = "wire" => now \in Docs(original)

\* One more codec keeps no more.
LEMMA KeptShrinks ==
    ASSUME NEW c, NEW x, NEW core \in Kept(c \cup {x})
    PROVE  core \in Kept(c) /\ core \in Kept({x})
BY DEF Kept

\* What a codec keeps, an encoder writes and a decoder reads.
LEMMA CodecsKeep ==
    ASSUME NEW f \in Field, f.quotes = 0
    PROVE  /\ f.core \in Kept({"MarshalText"}) => GoMarshal(f) \in Docs(f)
           /\ f.core \in Kept({"marshalText"}) => TsEncode(f) \in Docs(f)
           /\ f.core \in Kept({"UnmarshalText"}) => \A w \in Docs(f) : GoUnmarshal(w) = f
           /\ f.core \in Kept({"unmarshalText"}) => \A w \in Docs(f) : TsDecode(w) = f
<1> USE DEF Field, PlainCores, JsonCores, Kept, Docs, IsJson, Nothing, Null, Quote, Patch, Respell
<1>1. f.core \in Kept({"MarshalText"}) => GoMarshal(f) \in Docs(f)
    BY DEF GoMarshal, GoSpelling
<1>2. ASSUME f.core \in Kept({"marshalText"}) PROVE TsEncode(f) \in Docs(f)
    <2>1. Text(f) = f
        BY <1>2 DEF Text
    <2> QED BY <1>2, <2>1 DEF TsEncode, JsSpelling
<1>3. f.core \in Kept({"UnmarshalText"}) => \A w \in Docs(f) : GoUnmarshal(w) = f
    BY DEF GoUnmarshal, Unquote
<1>4. f.core \in Kept({"unmarshalText"}) => \A w \in Docs(f) : TsDecode(w) = f
    BY DEF TsDecode, Unquote, Revive, JsSpelling
<1> QED BY <1>1, <1>2, <1>3, <1>4

\* Text and compact JSON arrive byte for byte after any chain of codecs, and
\* whatever else no codec of the chain respells.
THEOREM KeptArrivesIntact == Spec => []Intact
<1>1. Init => IntactInv
    BY DEF Init, IntactInv
<1>2. TypeOK /\ IntactInv /\ [Next]_vars => IntactInv'
    <2> SUFFICES ASSUME TypeOK, IntactInv, [Next]_vars,
                        (original.quotes = 0 /\ original.core \in Kept(coders))'
                 PROVE  (/\ at = "endpoint" => now = original
                         /\ at = "wire" => now \in Docs(original))'
        BY DEF IntactInv
    <2>0. original \in Field
        BY QuotesAssumption DEF TypeOK, Field
    <2>1. CASE MarshalText
        <3>1. original.core \in Kept(coders) /\ original.core \in Kept({"MarshalText"})
            BY <2>1, KeptShrinks DEF MarshalText, Pass
        <3> QED BY <2>0, <2>1, <3>1, CodecsKeep DEF MarshalText, Pass, IntactInv
    <2>2. CASE UnmarshalText
        <3>1. original.core \in Kept(coders) /\ original.core \in Kept({"UnmarshalText"})
            BY <2>2, KeptShrinks DEF UnmarshalText, Pass
        <3> QED BY <2>0, <2>2, <3>1, CodecsKeep DEF UnmarshalText, Pass, IntactInv
    <2>3. CASE marshalText
        <3>1. original.core \in Kept(coders) /\ original.core \in Kept({"marshalText"})
            BY <2>3, KeptShrinks DEF marshalText, Pass
        <3> QED BY <2>0, <2>3, <3>1, CodecsKeep DEF marshalText, Pass, IntactInv
    <2>4. CASE unmarshalText
        <3>1. original.core \in Kept(coders) /\ original.core \in Kept({"unmarshalText"})
            BY <2>4, KeptShrinks DEF unmarshalText, Pass
        <3> QED BY <2>0, <2>4, <3>1, CodecsKeep DEF unmarshalText, Pass, IntactInv
    <2>5. CASE UNCHANGED vars
        BY <2>5 DEF vars, IntactInv
    <2> QED BY <2>1, <2>2, <2>3, <2>4, <2>5 DEF Next
<1>3. IntactInv => Intact
    BY DEF IntactInv, Intact
<1> QED BY <1>1, <1>2, <1>3, TypeCorrect, PTL DEF Spec

-------------------------------------------------------------------------------
\* Relays, which decode what they receive and encode it again.

GoRelay(f) == GoUnmarshal(GoMarshal(f))
TsRelay(f) == TsDecode(TsEncode(f))

\* A relay of either language takes one layer of quotes away and adds none.
LEMMA RelaysUnquote ==
    ASSUME NEW f \in Field
    PROVE  /\ GoRelay(f) \in Field /\ TsRelay(f) \in Field
           /\ GoRelay(f).quotes = IF f.quotes = 0 THEN 0 ELSE f.quotes - 1
           /\ TsRelay(f).quotes = IF f.quotes = 0 THEN 0 ELSE f.quotes - 1
<1> USE DEF Field, PlainCores, JsonCores, IsJson
<1>1. GoRelay(f) \in Field /\ TsRelay(f) \in Field
    BY EncodersMakeJson, DecodersMakeFields DEF GoRelay, TsRelay
<1>2. f.quotes > 0 => GoMarshal(f).quotes = f.quotes /\ TsEncode(f).quotes = f.quotes
    <2> SUFFICES ASSUME f.quotes > 0 PROVE GoMarshal(f) = f /\ TsEncode(f) = Text(f) /\ Text(f).quotes = f.quotes
        OBVIOUS
    <2>1. Text(f).quotes = f.quotes
        BY DEF Text, Patch
    <2>2. GoMarshal(f) = f
        BY DEF GoMarshal, Nothing, Respell
    <2> QED BY <2>1, <2>2 DEF TsEncode, Respell
<1>3. /\ GoMarshal(f) \in Field /\ TsEncode(f) \in Field
      /\ f.quotes = 0 => GoMarshal(f).quotes \in {0, 1} /\ TsEncode(f).quotes \in {0, 1}
    BY EncodersMakeJson, QuotesOfCodecs
<1>4. ASSUME NEW w \in Field
      PROVE  /\ GoUnmarshal(w).quotes = IF w.quotes = 0 THEN 0 ELSE w.quotes - 1
             /\ TsDecode(w).quotes = IF w.quotes = 0 THEN 0 ELSE w.quotes - 1
    BY <1>4, QuotesOfCodecs
<1> QED BY <1>1, <1>2, <1>3, <1>4 DEF GoRelay, TsRelay

\* Whatever a relay makes of bytes that are no JSON string, it does at once:
\* passing them on again, through a relay of the same language or through both
\* in turn, changes nothing more.  Of a JSON string, each relay takes a layer
\* of quotes, until it is none.
THEOREM RelayingAgainIsHarmless ==
    ASSUME NEW f \in Field
    PROVE  /\ f.quotes = 0 =>
                 /\ GoRelay(GoRelay(f)) = GoRelay(f)
                 /\ TsRelay(TsRelay(f)) = TsRelay(f)
                 /\ GoRelay(TsRelay(GoRelay(TsRelay(f)))) = GoRelay(TsRelay(f))
                 /\ TsRelay(GoRelay(TsRelay(GoRelay(f)))) = TsRelay(GoRelay(f))
           /\ f.quotes > 0 =>
                 GoRelay(f).quotes = f.quotes - 1 /\ TsRelay(f).quotes = f.quotes - 1
<1> DEFINE Go(c) == CASE c = "bytes" -> "patched" [] c = "null" -> "empty" [] c = "spaced" -> "compact"
                      [] c = "angled" -> "escaped" [] OTHER -> c
           Ts(c) == CASE c = "bytes" -> "patched" [] c = "null" -> "empty" [] c = "spaced" -> "compact"
                      [] c = "bom" -> "text" [] c = "escaped" -> "angled" [] c = "exact" -> "rounded"
                      [] c = "member" -> "mangled" [] OTHER -> c
           F(c) == [quotes |-> 0, core |-> c]
<1>1. ASSUME NEW c \in PlainCores \cup JsonCores
      PROVE  GoRelay(F(c)) = F(Go(c)) /\ TsRelay(F(c)) = F(Ts(c))
    <2>1. CASE c = "empty"
        <3>1. F(c) = Nothing /\ F(Go(c)) = Nothing /\ F(Ts(c)) = Nothing
            BY <2>1 DEF Nothing
        <3>2. GoRelay(Nothing) = Nothing
            BY DEF GoRelay, GoMarshal, GoUnmarshal, Null
        <3>3. TsEncode(Nothing) = Quote(Nothing)
            BY DEF TsEncode, Text, Patch, IsJson, JsonCores, Nothing
        <3>4. TsDecode(Quote(Nothing)) = Nothing
            <4>1. Quote(Nothing) = [quotes |-> 1, core |-> "empty"]
                BY DEF Quote, Nothing
            <4>2. Patch(Quote(Nothing)) = Quote(Nothing)
                BY <4>1 DEF Patch
            <4>3. TsDecode(Quote(Nothing)) = Unquote(Quote(Nothing))
                BY <4>1, <4>2 DEF TsDecode, Null
            <4> QED BY <4>1, <4>3 DEF Unquote, Nothing
        <3> QED BY <3>1, <3>2, <3>3, <3>4 DEF TsRelay
    <2>2. CASE c = "null"
        BY <2>2 DEF GoRelay, GoMarshal, GoUnmarshal, TsRelay, TsEncode, TsDecode, Text, Patch,
                    IsJson, JsonCores, Null, Nothing, Respell, GoSpelling, JsSpelling
    <2>3. CASE c \in PlainCores \ {"empty"}
        <3>1. ~IsJson(F(c)) /\ ~IsJson(Text(F(c))) /\ F(c) # Nothing
            BY <2>3 DEF PlainCores, JsonCores, IsJson, Text, Patch, Nothing
        <3>2. GoRelay(F(c)) = Unquote(Patch(Quote(Patch(F(c)))))
            BY <3>1 DEF GoRelay, GoMarshal, GoUnmarshal, Null, Quote, Patch
        <3>3. TsRelay(F(c)) = Unquote(Patch(Quote(Text(F(c)))))
            BY <3>1 DEF TsRelay, TsEncode, TsDecode, Null, Quote, Text, Patch
        <3> QED BY <2>3, <3>2, <3>3 DEF PlainCores, Quote, Unquote, Patch, Text
    <2>4. CASE c \in JsonCores \ {"null"}
        <3>1. IsJson(F(c)) /\ F(c) # Nothing /\ Text(F(c)) = F(c)
            BY <2>4 DEF JsonCores, IsJson, Nothing, Text, Patch
        <3>2. GoRelay(F(c)) = Respell(F(c), GoSpelling)
            BY <2>4, <3>1 DEF GoRelay, GoMarshal, GoUnmarshal, Null, Respell, GoSpelling, JsonCores
        <3>3. TsRelay(F(c)) = Revive(Respell(Respell(F(c), JsSpelling), JsSpelling))
            BY <2>4, <3>1 DEF TsRelay, TsEncode, TsDecode, Null, Respell, JsSpelling, JsonCores
        <3>4. GoRelay(F(c)) = F(Go(c))
            BY <2>4, <3>2 DEF JsonCores, Respell, GoSpelling
        <3>5. TsRelay(F(c)) = F(Ts(c))
            BY <2>4, <3>3 DEF JsonCores, Respell, Revive, JsSpelling
        <3> QED BY <3>4, <3>5
    <2> QED BY <1>1, <2>1, <2>2, <2>3, <2>4 DEF PlainCores, JsonCores
<1>2. ASSUME NEW c \in PlainCores \cup JsonCores
      PROVE  /\ Go(c) \in PlainCores \cup JsonCores /\ Ts(c) \in PlainCores \cup JsonCores
             /\ Go(Go(c)) = Go(c) /\ Ts(Ts(c)) = Ts(c)
             /\ Go(Ts(Go(Ts(c)))) = Go(Ts(c)) /\ Ts(Go(Ts(Go(c)))) = Ts(Go(c))
    <2>1. /\ \A d \in PlainCores \cup JsonCores : Go(d) \in PlainCores \cup JsonCores
          /\ \A d \in PlainCores \cup JsonCores : Ts(d) \in PlainCores \cup JsonCores
        BY DEF PlainCores, JsonCores
    <2>2. CASE c \in {"bytes", "null", "spaced"}
        BY <2>2 DEF PlainCores, JsonCores
    <2>3. CASE c \in {"bom", "exact", "member"}
        BY <2>3 DEF PlainCores, JsonCores
    <2>4. CASE c \in {"angled", "escaped"}
        BY <2>4 DEF PlainCores, JsonCores
    <2>5. CASE c \notin {"bytes", "null", "spaced", "bom", "exact", "member", "angled", "escaped"}
        <3>1. Go(c) = c /\ Ts(c) = c
            BY <2>5
        <3> QED BY <1>2, <3>1
    <2> QED BY <2>2, <2>3, <2>4, <2>5
<1>3. ASSUME f.quotes = 0
      PROVE  \E c \in PlainCores \cup JsonCores : f = F(c)
    BY <1>3 DEF Field
<1> HIDE DEF Go, Ts, F
<1>4. ASSUME f.quotes = 0
      PROVE  /\ GoRelay(GoRelay(f)) = GoRelay(f)
             /\ TsRelay(TsRelay(f)) = TsRelay(f)
             /\ GoRelay(TsRelay(GoRelay(TsRelay(f)))) = GoRelay(TsRelay(f))
             /\ TsRelay(GoRelay(TsRelay(GoRelay(f)))) = TsRelay(GoRelay(f))
    <2>1. PICK c \in PlainCores \cup JsonCores : f = F(c)
        BY <1>3, <1>4
    <2>2. GoRelay(f) = F(Go(c)) /\ TsRelay(f) = F(Ts(c))
        BY <1>1, <2>1
    <2>3. /\ GoRelay(GoRelay(f)) = F(Go(Go(c))) /\ TsRelay(TsRelay(f)) = F(Ts(Ts(c)))
          /\ GoRelay(TsRelay(f)) = F(Go(Ts(c))) /\ TsRelay(GoRelay(f)) = F(Ts(Go(c)))
        BY <1>1, <1>2, <2>2
    <2>4. /\ Go(Ts(c)) \in PlainCores \cup JsonCores /\ Ts(Go(c)) \in PlainCores \cup JsonCores
        BY <1>2
    <2>5. /\ TsRelay(GoRelay(TsRelay(f))) = F(Ts(Go(Ts(c))))
          /\ GoRelay(TsRelay(GoRelay(f))) = F(Go(Ts(Go(c))))
        BY <1>1, <2>3, <2>4
    <2>6. /\ Ts(Go(Ts(c))) \in PlainCores \cup JsonCores /\ Go(Ts(Go(c))) \in PlainCores \cup JsonCores
        BY <1>2, <2>4
    <2>7. /\ GoRelay(TsRelay(GoRelay(TsRelay(f)))) = F(Go(Ts(Go(Ts(c)))))
          /\ TsRelay(GoRelay(TsRelay(GoRelay(f)))) = F(Ts(Go(Ts(Go(c)))))
        BY <1>1, <2>5, <2>6
    <2> QED BY <1>2, <2>2, <2>3, <2>7
<1> QED BY <1>4, RelaysUnquote

===============================================================================
