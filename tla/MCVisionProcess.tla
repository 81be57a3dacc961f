--------------------------- MODULE MCVisionProcess ---------------------------
(* Instances of VisionProcess for TLC.                                     *)
EXTENDS VisionProcess, TLC

CONSTANTS llvs, client

(* One thread that makes every call, one after the other.                  *)
OneCaller == {llvs}
AllCalls == llvs :> Ops

(* The server: the frame loop on the LLVS thread and the calls of clients. *)
LoopAndClient == {llvs, client}
ServerCalls == llvs :> {"Realize"} @@ client :> {"Initialize", "Start", "Stop", "CleanUp"}

=============================================================================
