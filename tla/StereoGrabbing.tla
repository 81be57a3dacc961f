--------------------------- MODULE StereoGrabbing ---------------------------
(***************************************************************************)
(* StereoVision_impl (src/Corba/StereoVision_impl.cpp): the servant that   *)
(* hands the cameras to external scripts.  Each of its calls stops the     *)
(* process "IEEE1394 Image grabbing", opens its script, gives the script   *)
(* the time to take its images, restores the grabbing and reads the        *)
(* script's result.  The status to restore is kept in one member of the    *)
(* servant, shared by the calls the ORB's threads run at the same time.    *)
(*                                                                         *)
(* rbt2scmCalibStart, rbt2scmCalibEnd, detectCrossMark, getObjectPosition  *)
(* and StartProcess differ in the script, its arguments and the duration   *)
(* of the sleeps only.  The life cycle of the grabbing process itself is   *)
(* VisionProcess.                                                          *)
(***************************************************************************)
EXTENDS Naturals

CONSTANT Clients   \* the ORB threads that call the servant

VARIABLES
  grabbing,             \* the status of the grabbing process
  m_LLVSGrabbingStatus, \* the member of the servant
  at,                   \* where in its call each client is
  ret,                  \* what the last call of each client returned
  before,               \* history: the status of the grabbing before the calls in progress
  clean                 \* history: of these calls none overlapped and none failed

vars == <<grabbing, m_LLVSGrabbingStatus, at, ret, before, clean>>

AtRest == \A c \in Clients : at[c] = "idle"

Init ==
  /\ grabbing \in {0, 1}
  /\ m_LLVSGrabbingStatus \in {0, 1}   \* the constructor leaves it uninitialised
  /\ at = [c \in Clients |-> "idle"]
  /\ ret = [c \in Clients |-> FALSE]
  /\ before = grabbing
  /\ clean = TRUE

-----------------------------------------------------------------------------

Moves(c, from, to) == at[c] = from /\ at' = [at EXCEPT ![c] = to]

(* A client starts or stops the grabbing by name, between the calls.       *)
SteerGrabbing ==
  /\ AtRest
  /\ grabbing' = 1 - grabbing
  /\ before' = grabbing'
  /\ clean' = TRUE
  /\ UNCHANGED <<m_LLVSGrabbingStatus, at, ret>>

Call(c) ==
  /\ Moves(c, "idle", "save")
  /\ before' = IF AtRest THEN grabbing ELSE before
  /\ clean' = AtRest
  /\ UNCHANGED <<grabbing, m_LLVSGrabbingStatus, ret>>

(* StopLLVSGrabbing: the status is saved, and the grabbing stopped if it   *)
(* was on.                                                                 *)
SaveStatus(c) ==
  /\ Moves(c, "save", "stop")
  /\ m_LLVSGrabbingStatus' = grabbing
  /\ UNCHANGED <<grabbing, ret, before, clean>>

StopGrabbing(c) ==
  /\ Moves(c, "stop", "open")
  /\ grabbing' = IF m_LLVSGrabbingStatus = 1 THEN 0 ELSE grabbing
  /\ UNCHANGED <<m_LLVSGrabbingStatus, ret, before, clean>>

OpenScript(c) ==
  /\ Moves(c, "open", "script")
  /\ UNCHANGED <<grabbing, m_LLVSGrabbingStatus, ret, before, clean>>

(* A call whose script cannot be opened returns at once.                   *)
OpenFails(c) ==
  /\ Moves(c, "open", "idle")
  /\ ret' = [ret EXCEPT ![c] = FALSE]
  /\ clean' = FALSE
  /\ UNCHANGED <<grabbing, m_LLVSGrabbingStatus, before>>

RestoreForgotten(c) ==
  /\ Moves(c, "script", "read")
  /\ UNCHANGED <<grabbing, m_LLVSGrabbingStatus, ret, before, clean>>

RestoreGrabbing(c) ==
  /\ Moves(c, "script", "read")
  /\ grabbing' = IF m_LLVSGrabbingStatus = 1 THEN 1 ELSE grabbing
  /\ UNCHANGED <<m_LLVSGrabbingStatus, ret, before, clean>>

(* The result is what the script prints: true for a number other than 0.   *)
ReadResult(c) ==
  /\ Moves(c, "read", "idle")
  /\ \E val \in {0, 1} : ret' = [ret EXCEPT ![c] = val # 0]
  /\ UNCHANGED <<grabbing, m_LLVSGrabbingStatus, before, clean>>

Next ==
  \/ SteerGrabbing
  \/ \E c \in Clients :
       \/ Call(c) \/ SaveStatus(c) \/ StopGrabbing(c)
       \/ OpenScript(c) \/ OpenFails(c) \/ RestoreGrabbing(c) \/ ReadResult(c)

Spec == Init /\ [][Next]_vars

-----------------------------------------------------------------------------
(* Properties.                                                             *)

TypeOK ==
  /\ grabbing \in {0, 1} /\ m_LLVSGrabbingStatus \in {0, 1} /\ before \in {0, 1}
  /\ at \in [Clients -> {"idle", "save", "stop", "open", "script", "read"}]
  /\ ret \in [Clients -> BOOLEAN]
  /\ clean \in BOOLEAN

(* "Restore the previous grabbing status": once no call is in progress,    *)
(* the grabbing is on if and only if it was before them.                   *)
GrabbingRestored == AtRest => grabbing = before

(* What holds of it: the grabbing is restored by a call that overlapped no *)
(* other and whose script could be opened, whatever calls came before it.  *)
CleanCallRestores == clean => GrabbingRestored

(* The script of such a call has the cameras for itself while it takes its *)
(* images.                                                                 *)
ScriptAlone == clean /\ (\E c \in Clients : at[c] = "script") => grabbing = 0

(* However many calls overlap and fail, none of them turns on a grabbing   *)
(* that was off when they began: the status a call restores is one that a  *)
(* call in progress has read.                                              *)
NeverTurnedOn == before = 0 => grabbing = 0

(* What a client may rely on: both of these.                               *)
GrabbingPromise == CleanCallRestores /\ NeverTurnedOn
=============================================================================
