----------------------------- MODULE MCShutdown -----------------------------
(* Instances of Shutdown, and with it of FrameGrabber, for TLC.            *)
EXTENDS Shutdown

CONSTANTS client
MainAndClient == {Main, client}
=============================================================================
