--------------------------- MODULE ResponseProtocol ---------------------------
(***************************************************************************)
(* What a HOW handler promises for each HTTPRequest: one HTTPResponse, or  *)
(* HTTPResponseStart, chunks and HTTPResponseEnd (spec.md 8.2 and 8.3), or *)
(* an Error that breaks either off (10.2); frame by frame, and nothing     *)
(* after the last.  The handlers of the two languages implement it.  On a  *)
(* failure after the header it leaves them the choice of Error and End,    *)
(* where 8.3 prefers End and the code mostly sends Error.                  *)
(***************************************************************************)
EXTENDS WireReplies

CONSTANTS Requests

VARIABLES out   \* out[r]: the kinds of the frames of the answer to r

Init == out = [r \in Requests |-> <<>>]

Emit(r, k) ==
    /\ Conforming(Frames(Append(out[r], k)))
    /\ out' = [out EXCEPT ![r] = Append(@, k)]

Next == \E r \in Requests, k \in Kinds : Emit(r, k)

Spec == Init /\ [][Next]_out

===============================================================================
