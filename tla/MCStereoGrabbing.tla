-------------------------- MODULE MCStereoGrabbing --------------------------
(* Instances of StereoGrabbing for TLC.                                    *)
EXTENDS StereoGrabbing

CONSTANTS c1, c2, c3

TwoClients == {c1, c2}
ThreeClients == {c1, c2, c3}
=============================================================================
