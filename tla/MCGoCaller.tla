------------------------------ MODULE MCGoCaller ------------------------------
(***************************************************************************)
(* Instances of GoCaller.  `Shapes' has one reply for every branch of the  *)
(* two switches over Envelope.Type; `LiveReplies' serves the instance with *)
(* two requests and no clock.                                              *)
(***************************************************************************)
EXTENDS GoCaller

CONSTANTS r1, r2

Whole == <<Good("Response")>>
Stream == <<Good("Start"), Good("Chunk"), Good("Chunk"), Good("End")>>
Truncated == <<Good("Start"), Good("Chunk"), Good("Error")>>
Quiet == <<Good("Start"), Good("Chunk")>>

Shapes ==
    {<<>>, Whole, <<Bad("Response")>>, <<Good("Error")>>, <<Bad("Error")>>, <<Good("End")>>,
     <<Bad("Start"), Good("Chunk")>>, Stream, Truncated, Quiet,
     <<Good("Start"), Bad("Error")>>,
     <<Good("Start"), Bad("Chunk"), Good("Chunk"), Good("End")>>,
     <<Good("Start"), Good("Other"), Good("Chunk"), Good("Start"), Good("Response"),
       Good("Chunk"), Good("End"), Good("Chunk")>>}

OneRequest == {r1}
TwoRequests == {r1, r2}
LiveReplies == {Quiet, Whole}

AllCloseArgs == {NilErr, "netError"}
OneCloseArg == {"netError"}
EofCloseArg == {EOF}
===============================================================================
