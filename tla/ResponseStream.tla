---------------------------- MODULE ResponseStream ----------------------------
(***************************************************************************)
(* What a HOW caller promises the user of its requests (spec.md 8.2, 8.3   *)
(* and 10): a request is settled once, with what the peer did answer or    *)
(* with an error; the chunks of a streamed answer are given to the reader  *)
(* in the order of the peer; and a body that ends cleanly was ended by the *)
(* peer, after all of its chunks were read.  The callers of the two        *)
(* languages implement it.                                                 *)
(*                                                                         *)
(* A peer that breaks the protocol is promised less: its frames may be     *)
(* left out, but not made up, reordered or repeated.                       *)
(***************************************************************************)
EXTENDS WireReplies

CONSTANT Requests

VARIABLES
    answer,    \* answer[r]: the frames the peer gives to r, as far as it has
    outcome,   \* "none", "failed", or the kind of the frame that settled r
    read,      \* read[r]: the places in answer[r] of the chunks read so far
    end        \* the body of r is "open", or ended in "eof" or an "error", or
               \* its reader has "left"

vars == <<answer, outcome, read, end>>

Init ==
    /\ answer = [r \in Requests |-> <<>>]
    /\ outcome = [r \in Requests |-> "none"]
    /\ read = [r \in Requests |-> <<>>]
    /\ end = [r \in Requests |-> "open"]

Chunks(r) == {n \in 1..Len(answer[r]) : answer[r][n] = Good("Chunk")}

\* The reader has every chunk ahead of frame n.
CaughtUp(r, n) ==
    \A k \in Chunks(r) : k < n => \E i \in 1..Len(read[r]) : read[r][i] = k

Streaming(r) == outcome[r] = "Start" /\ end[r] = "open"

\* The peer goes on.
Grows ==
    /\ answer' \in [Requests -> Seq(Reply)]
    /\ \A r \in Requests :
          /\ Len(answer[r]) <= Len(answer'[r])
          /\ \A i \in 1..Len(answer[r]) : answer'[r][i] = answer[r][i]
    /\ UNCHANGED <<read, end>>

Resolve(r, k) ==
    /\ outcome[r] = "none"
    /\ \E n \in 1..Len(answer[r]) : answer[r][n] = Good(k)
    /\ outcome' = [outcome EXCEPT ![r] = k]
    /\ UNCHANGED <<answer, read, end>>

\* A closing caller fails all that is pending at once; a send that throws may
\* fail a request while its peer answers it.
Fail(R) ==
    /\ \A r \in R : outcome[r] = "none"
    /\ outcome' = [r \in Requests |-> IF r \in R THEN "failed" ELSE outcome[r]]
    /\ Grows

Give(r, n) ==
    /\ Streaming(r)
    /\ \A i \in 1..Len(read[r]) : read[r][i] < n
    /\ Conforming(answer[r]) => CaughtUp(r, n)
    /\ read' = [read EXCEPT ![r] = Append(@, n)]
    /\ UNCHANGED <<answer, outcome, end>>

Ends(r, e) ==
    /\ end' = [end EXCEPT ![r] = e]
    /\ UNCHANGED <<answer, outcome, read>>

Finish(r) ==
    /\ Streaming(r)
    /\ \E n \in 1..Len(answer[r]) :
          answer[r][n].kind = "End" /\ (Conforming(answer[r]) => CaughtUp(r, n))
    /\ Ends(r, "eof")

Break(r) == Streaming(r) /\ Ends(r, "error")

Leave(r) == outcome[r] = "Start" /\ Ends(r, "left")

Next ==
    \/ \E R \in SUBSET Requests : Fail(R)
    \/ \E r \in Requests :
          \/ \E k \in {"Response", "Start"} : Resolve(r, k)
          \/ \E n \in Chunks(r) : Give(r, n)
          \/ Finish(r) \/ Break(r) \/ Leave(r)

Spec == Init /\ [][Next]_vars

===============================================================================
