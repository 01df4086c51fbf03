------------------------------ MODULE TextBodies ------------------------------
(***************************************************************************)
(* Text mode: how the bytes of a `body' or `data' field cross JSON, by     *)
(* RawBody and TextEnvelope of golang/protocol/message.go and by           *)
(* marshalText and unmarshalText of typescript/src/protocol/message.ts.    *)
(* The two codecs are meant to match, and whoever relays what it received  *)
(* (a HOW server before howclient, say) chains them: a field may pass      *)
(* through any number of them, in any order.                               *)
(*                                                                         *)
(* Bytes are told apart by what the codecs make of them: a core, written   *)
(* as a JSON string literal `quotes' times over.  [quotes |-> 1, core |->  *)
(* "text"] is a JSON string that holds the text.  The rest of an envelope  *)
(* (type, request_id, headers) is left out; binary mode carries the bytes  *)
(* as they are.                                                            *)
(***************************************************************************)
EXTENDS Integers

CONSTANT MaxQuotes   \* how deeply the bytes a sender starts from are quoted

ASSUME QuotesAssumption == MaxQuotes \in Nat

\* Not JSON: nothing at all; text; text that starts with a byte order mark;
\* bytes that are not UTF-8, such as a character torn by a chunk boundary, and
\* those with U+FFFD for what is wrong in them.
PlainCores == {"empty", "text", "bom", "bytes", "patched"}

\* JSON: null; a value with white space and without; one with a character that
\* json.Marshal escapes, raw and escaped; one with numbers or duplicate keys
\* that JavaScript cannot hold, and what it makes of them; an object with a
\* member `body' or `data' somewhere in it, and the same with that member as a
\* table of bytes.
JsonCores == {"null", "spaced", "compact", "angled", "escaped", "exact", "rounded",
              "member", "mangled"}

Field == [quotes : Nat, core : PlainCores \cup JsonCores]

\* json.Valid, which does not mind bytes that are not UTF-8 inside a string, or
\* JSON.parse does not throw.
IsJson(f) == f.quotes > 0 \/ f.core \in JsonCores

Null == [quotes |-> 0, core |-> "null"]
Nothing == [quotes |-> 0, core |-> "empty"]

Quote(f) == [f EXCEPT !.quotes = @ + 1]
Unquote(f) == [f EXCEPT !.quotes = @ - 1]

\* Conversions of bytes to a string put U+FFFD where they are not UTF-8.
Patch(f) == IF f.core = "bytes" THEN [f EXCEPT !.core = "patched"] ELSE f

\* A TextDecoder takes a byte order mark away as well, if that comes first.
Text(f) == IF f = [quotes |-> 0, core |-> "bom"] THEN [f EXCEPT !.core = "text"] ELSE Patch(f)

\* What a string literal holds is the same in every spelling.
Respell(f, spelling) ==
    IF f.quotes = 0 /\ f.core \in DOMAIN spelling THEN [f EXCEPT !.core = spelling[f.core]] ELSE f

\* json.Marshal compacts and HTML-escapes what a MarshalJSON returns.
GoSpelling == [c \in {"spaced", "angled"} |-> IF c = "spaced" THEN "compact" ELSE "escaped"]

\* JSON.stringify(JSON.parse(s)).
JsSpelling == [c \in {"spaced", "escaped", "exact"} |->
                  CASE c = "spaced" -> "compact" [] c = "escaped" -> "angled" [] c = "exact" -> "rounded"]

\* The reviver of unmarshalText, which meets every key, those of embedded JSON
\* too, and innermost first: Uint8Arrays are then stringified with the rest.
Revive(f) == Respell(f, [c \in {"member"} |-> "mangled"])

-------------------------------------------------------------------------------
\* The codecs, for one field.

\* Mutant: json.Valid is not asked.
GoMarshalRaw(f) == IF f = Nothing THEN Null ELSE Respell(f, GoSpelling)

\* RawBody.MarshalJSON, inside json.Marshal.
GoMarshal(f) ==
    CASE f = Nothing -> Null
      [] f # Nothing /\ IsJson(f) -> Respell(f, GoSpelling)
      [] f # Nothing /\ ~IsJson(f) -> Quote(Patch(f))

\* Mutant: the bytes are kept as they are, JSON strings too.
GoUnmarshalVerbatim(w) == IF w = Null THEN Nothing ELSE Patch(w)

\* Mutant: only a JSON string is taken for a body.
GoUnmarshalStrings(w) == IF w.quotes > 0 THEN Unquote(Patch(w)) ELSE Nothing

\* RawBody.UnmarshalJSON.
GoUnmarshal(w) ==
    CASE w = Null -> Nothing
      [] w.quotes > 0 -> Unquote(Patch(w))
      [] w # Null /\ w.quotes = 0 -> w

\* encodeBinaryFields, and the JSON.stringify of marshalText.
TsEncode(f) == LET t == Text(f) IN IF IsJson(t) THEN Respell(t, JsSpelling) ELSE Quote(t)

\* Mutant: a string is stringified like any other value.
TsDecodeStringify(w) == IF w = Null THEN Nothing ELSE Revive(Respell(Patch(w), JsSpelling))

\* unmarshalText.
TsDecode(w) ==
    CASE w = Null -> Nothing
      [] w.quotes > 0 -> Unquote(Patch(w))
      [] w # Null /\ w.quotes = 0 -> Revive(Respell(w, JsSpelling))

-------------------------------------------------------------------------------
\* A field on its way.

VARIABLES
    original,   \* the bytes it had at first
    now,        \* the bytes it has now, or the JSON that stands for them
    at,         \* where it is: at an "endpoint", or on the "wire"
    coders      \* the codecs it has been through

vars == <<original, now, at, coders>>

Init ==
    /\ original \in [quotes : 0..MaxQuotes, core : PlainCores \cup JsonCores]
    /\ now = original
    /\ at = "endpoint"
    /\ coders = {}

Pass(from, to, coder, result) ==
    /\ at = from /\ at' = to
    /\ now' = result
    /\ coders' = coders \cup {coder}
    /\ UNCHANGED original

MarshalText == Pass("endpoint", "wire", "MarshalText", GoMarshal(now))
UnmarshalText == Pass("wire", "endpoint", "UnmarshalText", GoUnmarshal(now))
marshalText == Pass("endpoint", "wire", "marshalText", TsEncode(now))
unmarshalText == Pass("wire", "endpoint", "unmarshalText", TsDecode(now))

Next == MarshalText \/ UnmarshalText \/ marshalText \/ unmarshalText

Spec == Init /\ [][Next]_vars

-------------------------------------------------------------------------------
\* Properties.

\* Every variable stays in its domain, and what is on the wire is always a JSON
\* document: no body makes a frame that does not parse.
TypeOK ==
    /\ original \in [quotes : 0..MaxQuotes, core : PlainCores \cup JsonCores]
    /\ now \in Field
    /\ at \in {"endpoint", "wire"}
    /\ at = "wire" => IsJson(now)
    /\ coders \subseteq {"MarshalText", "UnmarshalText", "marshalText", "unmarshalText"}

\* The bytes that the codecs of set c hand on as they are: text that is not
\* JSON, compact JSON, and whatever else none of these codecs respells.
Kept(c) ==
    {"empty", "text", "patched", "compact", "rounded"}
    \cup (IF "MarshalText" \in c THEN {} ELSE {"angled"})
    \cup (IF "marshalText" \in c THEN {} ELSE {"bom"})
    \cup (IF "unmarshalText" \in c THEN {} ELSE {"member"})
    \cup (IF c \cap {"marshalText", "unmarshalText"} # {} THEN {} ELSE {"escaped", "exact"})

\* Text and compact JSON arrive byte for byte after any chain of Go and
\* TypeScript codecs, and other JSON after a chain that has no codec that
\* rewrites it: what one side embeds or quotes, both sides take out again.
Intact ==
    at = "endpoint" /\ original.quotes = 0 /\ original.core \in Kept(coders) => now = original

\* No chain of codecs adds a layer of quotes: a body that one side sent as a
\* string is never taken for JSON by the other and quoted once more.
NeverRequoted == at = "endpoint" => now.quotes <= original.quotes

\* A body that has something in it never arrives empty, but for a null or an
\* empty string, each possibly quoted.
NothingVanishes ==
    at = "endpoint" /\ now.core = "empty" => original.core \in {"empty", "null"}

\* message.ts: "valid JSON is embedded as-is", and embedded objects "are
\* stringified" on arrival: an object is still the same object then.
EmbeddedJsonKept ==
    at = "endpoint" /\ original = [quotes |-> 0, core |-> "member"] => now.core = "member"

===============================================================================
