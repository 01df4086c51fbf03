------------------------------ MODULE WireReplies ------------------------------
(***************************************************************************)
(* The vocabulary of HOW (golang/protocol/message.go,                      *)
(* typescript/src/protocol/message.ts): what a peer may answer to one      *)
(* HTTPRequest.  A frame is its Envelope.Type and whether its payload      *)
(* decodes; what the payload says is not told apart.                       *)
(***************************************************************************)
EXTENDS Integers, Sequences

Kinds == {"Response", "Start", "Chunk", "End", "Error", "Other"}

\* ok: the payload decodes.
Reply == [kind : Kinds, ok : BOOLEAN]

Good(kind) == [kind |-> kind, ok |-> TRUE]
Bad(kind) == [kind |-> kind, ok |-> FALSE]

Terminal == {"Response", "End", "Error"}

\* An exchange as the two programs have it, or a prefix of it: one HTTPResponse,
\* or Start Chunk* End, and an Error in place of what is missing.  spec.md 8.2
\* allows an Error instead of the HTTPResponse and 10.2 says what it does to a
\* request, but 8.3 prefers an End after a Start, where dispatchRequest and
\* handleRequest send an Error.  Nor need there be a chunk, though 8.3 speaks
\* of "one or more": an empty body has none.
Conforming(s) ==
    /\ \A i \in 1..Len(s) : s[i].ok
    /\ s # <<>> => s[1].kind \in {"Response", "Start", "Error"}
    /\ \A i \in 2..Len(s) : /\ s[i].kind \in {"Chunk", "End", "Error"}
                            /\ s[i - 1].kind \notin Terminal

\* Kinds that carry a body of n chunks and end: a header, unless it got lost,
\* all of the chunks, and one frame more.
CarriesAll(s, n) ==
    \E h \in 0..1 : Len(s) = h + n + 1 /\ \A i \in 1..n : s[h + i] = "Chunk"

\* A sequence of kinds, as frames that all decode.
Frames(s) == [i \in 1..Len(s) |-> Good(s[i])]

===============================================================================
