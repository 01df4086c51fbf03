----------------------------- MODULE MCFrameQueue -----------------------------
(***************************************************************************)
(* frameQueue with two concurrent pushers, two distinguishable frames, the *)
(* three stop channels and at most three frames queued.                    *)
(***************************************************************************)
EXTENDS FrameQueue, TLC

CONSTANTS p1, p2, a, b

MCPushers == {p1, p2}
MCFrames == {a, b}
MCStops == {"done", "ctx", "timer"}
===============================================================================
