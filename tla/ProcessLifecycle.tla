-------------------------- MODULE ProcessLifecycle --------------------------
(***************************************************************************)
(* What HRP2VisionBasicProcess promises to its user: a process that is     *)
(* uninitialised, idle or running, whose status is 1 only while it runs    *)
(* ("0 : not running, 1 : running", VisionBasicProcess.h) and which        *)
(* computes a frame only while its status is 1.                            *)
(***************************************************************************)
EXTENDS Naturals

VARIABLES
  phase,      \* "uninitialised", "idle" or "running"
  status,     \* what GetStatus returns
  computing   \* pRealizeTheProcess is under way

lvars == <<phase, status, computing>>

LTypeOK ==
  /\ phase \in {"uninitialised", "idle", "running"}
  /\ status \in {0, 1}
  /\ computing \in BOOLEAN

LInit == phase = "uninitialised" /\ status = 0 /\ computing = FALSE

Still == status = 0 /\ ~computing

Initialise == Still /\ phase = "uninitialised" /\ phase' = "idle" /\ UNCHANGED <<status, computing>>
Start == Still /\ phase = "idle" /\ phase' = "running" /\ UNCHANGED <<status, computing>>
Stop == Still /\ phase = "running" /\ phase' = "idle" /\ UNCHANGED <<status, computing>>
CleanUp == Still /\ phase = "idle" /\ phase' = "uninitialised" /\ UNCHANGED <<status, computing>>

RaiseStatus == ~computing /\ phase = "running" /\ status' = 1 /\ UNCHANGED <<phase, computing>>
ClearStatus == ~computing /\ status' = 0 /\ UNCHANGED <<phase, computing>>

Compute == phase = "running" /\ status = 1 /\ computing' = TRUE /\ UNCHANGED <<phase, status>>
Computed == computing' = FALSE /\ UNCHANGED <<phase, status>>

LNext ==
  \/ Initialise \/ Start \/ Stop \/ CleanUp
  \/ RaiseStatus \/ ClearStatus \/ Compute \/ Computed

LSpec == LInit /\ [][LNext]_lvars

=============================================================================
