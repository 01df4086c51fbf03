------------------------------ MODULE MCTsCaller ------------------------------
(***************************************************************************)
(* Instances of TsCaller.  `Shapes' has the exchanges of spec.md 8, whole  *)
(* and cut short, and one reply for every other way through the switch of  *)
(* processEnvelope: missing payloads, frames that come too early, twice or *)
(* after the end.                                                          *)
(***************************************************************************)
EXTENDS TsCaller

CONSTANT r1

Stream == <<Good("Start"), Good("Chunk"), Good("Chunk"), Good("End")>>
Truncated == <<Good("Start"), Good("Chunk"), Good("Chunk"), Good("Error")>>

Exchanges ==
    {<<>>, <<Good("Response")>>, <<Good("Error")>>, Stream, Truncated,
     <<Good("Start"), Good("Chunk"), Good("Chunk")>>}

Shapes ==
    Exchanges \cup
    {<<Bad("Response")>>, <<Bad("Error")>>, <<Good("End")>>, <<Bad("Start"), Good("Start")>>,
     <<Good("Start"), Bad("Error")>>,
     <<Good("Start"), Good("Chunk"), Good("Response"), Good("End")>>,
     <<Good("Start"), Good("Chunk"), Bad("Chunk"), Good("End"), Good("Chunk")>>,
     <<Good("Chunk"), Good("Other"), Good("Start"), Good("Chunk"), Good("Start"),
       Good("Chunk"), Good("End")>>}

\* What a Go handler leaves on the wire when the send of its Start fails.
LostStart == {<<Good("Chunk"), Good("End")>>}

OneRequest == {r1}

AllCloseArgs == {Undefined, "netError"}
===============================================================================
