----------------------------- MODULE BoardShot -----------------------------
(***************************************************************************)
(* The board of HRP2IEEE1394ImagesInputMethod, m_Board: the loop creates   *)
(* and deletes it as m_Computing says, in GetSingleImage, and a client's   *)
(* thread does in StartProcess, with no lock.  Deleting a board another    *)
(* thread is in, or using one that is deleted or is not there, ends the    *)
(* server.                                                                 *)
(***************************************************************************)
EXTENDS Naturals

CONSTANT MaxImages      \* bound: images counted after a stop

ASSUME ShotAssumption == MaxImages \in Nat \ {0}

Actors == {"loop", "client"}

VARIABLES
  m_Board,              \* "null", "live", or "deleted" and still pointed to
  transmitting,         \* its cameras send images
  shotComputing, shotState,     \* m_Computing and m_State of the process
  shotpc,               \* where each thread is
  lmComputing,          \* local of OpenBoard
  running,              \* the server has not died
  late,                 \* history: images grabbed since the client's stop
  restarted             \* history: the loop raised m_Computing since then

shotVars == <<m_Board, transmitting, shotComputing, shotState, shotpc, lmComputing, running,
              late, restarted>>
shotHistory == <<late, restarted>>

StepOf(a, from, to) == running /\ shotpc[a] = from /\ shotpc' = [shotpc EXCEPT ![a] = to]

(* A thread is in a grab of the board's.                                   *)
Used == \E a \in Actors : shotpc[a] = "snap"

-----------------------------------------------------------------------------
(* StartProcess, of either thread.                                         *)

(* The process's own StartProcess may refuse; the result is not looked at. *)
BaseStart(a) ==
  /\ IF shotState \in {"LIMBO", "STOPPED"}
     THEN StepOf(a, "start", "starting") /\ shotState' = "STARTING"
     ELSE StepOf(a, "start", "initialize") /\ UNCHANGED shotState
  /\ UNCHANGED <<m_Board, transmitting, shotComputing, lmComputing, running, shotHistory>>

BaseStarted(a) ==
  /\ StepOf(a, "starting", "initialize")
  /\ shotState' = "STARTED" /\ shotComputing' = 1
  /\ restarted' = (a = "loop")
  /\ late' = IF a = "client" THEN 0 ELSE late
  /\ UNCHANGED <<m_Board, transmitting, lmComputing, running>>

(* A board that is there is deleted, m_Computing 0 meanwhile.              *)
OpenBoard(a) ==
  /\ IF m_Board = "null"
     THEN StepOf(a, "initialize", "new") /\ UNCHANGED <<lmComputing, shotComputing>>
     ELSE /\ StepOf(a, "initialize", "delete")
          /\ lmComputing' = [lmComputing EXCEPT ![a] = shotComputing]
          /\ shotComputing' = 0
  /\ UNCHANGED <<m_Board, transmitting, shotState, running, shotHistory>>

DeleteOldBoard(a) ==
  /\ StepOf(a, "delete", "new")
  /\ running' = (m_Board = "null" \/ (m_Board = "live" /\ ~Used))
  /\ m_Board' = IF m_Board = "null" THEN "null" ELSE "deleted"
  /\ transmitting' = FALSE
  /\ shotComputing' = lmComputing[a]
  /\ restarted' = (restarted \/ a = "loop")
  /\ UNCHANGED <<shotState, lmComputing, late>>

(* An exception of the board leaves m_Board as it is.                      *)
NewBoard(a, opened) ==
  /\ StepOf(a, "new", "shot")
  /\ m_Board' = IF opened THEN "live" ELSE m_Board
  /\ transmitting' = IF opened THEN FALSE ELSE transmitting
  /\ UNCHANGED <<shotComputing, shotState, lmComputing, running, shotHistory>>

AfterShot(a) == IF a = "loop" THEN "grab" ELSE "idle"
StartShot(a) ==
  /\ StepOf(a, "shot", AfterShot(a))
  /\ running' = (m_Board = "live")
  /\ transmitting' = (m_Board = "live")
  /\ UNCHANGED <<m_Board, shotComputing, shotState, lmComputing, shotHistory>>

ProcessStarts(a) ==
  \/ BaseStart(a) \/ BaseStarted(a) \/ OpenBoard(a) \/ DeleteOldBoard(a) \/ StartShot(a)
  \/ \E opened \in BOOLEAN : NewBoard(a, opened)

-----------------------------------------------------------------------------
(* GetSingleImage, of the loop.                                            *)

MustStop == shotComputing = 1
MustBeStopped == shotComputing = 0

(* Before and after the grab, a stopped process deletes its board.         *)
TestStopped ==
  /\ \/ StepOf("loop", "idle", IF MustBeStopped /\ m_Board # "null" THEN "stop" ELSE "started?")
     \/ StepOf("loop", "end", IF MustBeStopped THEN "stop at end" ELSE "idle")
  /\ UNCHANGED <<m_Board, transmitting, shotComputing, shotState, lmComputing, running, shotHistory>>

CloseBoard ==
  /\ StepOf("loop", "stop", "started?") \/ StepOf("loop", "stop at end", "idle")
  /\ running' = (m_Board # "deleted")
  /\ m_Board' = "null" /\ transmitting' = FALSE
  /\ UNCHANGED <<shotComputing, shotState, lmComputing, shotHistory>>

TestStarted ==
  /\ StepOf("loop", "started?", IF shotComputing = 1 /\ m_Board = "null" THEN "start" ELSE "grab")
  /\ UNCHANGED <<m_Board, transmitting, shotComputing, shotState, lmComputing, running, shotHistory>>

(* Without a board there is no image, and no error.                        *)
BeginSnap ==
  /\ StepOf("loop", "grab", IF m_Board = "null" THEN "end" ELSE "snap")
  /\ UNCHANGED <<m_Board, transmitting, shotComputing, shotState, lmComputing, running, shotHistory>>

EndSnap ==
  /\ StepOf("loop", "snap", "end")
  /\ running' = (m_Board = "live")
  /\ late' = IF late < MaxImages THEN late + 1 ELSE late
  /\ UNCHANGED <<m_Board, transmitting, shotComputing, shotState, lmComputing, restarted>>

GetSingleBoardImage == TestStopped \/ CloseBoard \/ TestStarted \/ BeginSnap \/ EndSnap

-----------------------------------------------------------------------------
(* The client's calls.                                                     *)

CallStart ==
  /\ StepOf("client", "idle", "start")
  /\ UNCHANGED <<m_Board, transmitting, shotComputing, shotState, lmComputing, running, shotHistory>>

StopShotProcess ==
  /\ StepOf("client", "idle", "idle")
  /\ shotState \in {"STARTING", "STARTED"}
  /\ shotState' = "STOPPED" /\ shotComputing' = 0
  /\ late' = 0 /\ restarted' = FALSE
  /\ UNCHANGED <<m_Board, transmitting, lmComputing, running>>

(* A feature of a camera is set while the cameras do not transmit.         *)
SetBoardFeature ==
  /\ \/ /\ m_Board # "null" /\ StepOf("client", "idle", "stop shot")
        /\ UNCHANGED <<running, transmitting>>
     \/ /\ StepOf("client", "stop shot", "feature") \/ StepOf("client", "feature", "shot")
        /\ running' = (m_Board = "live") /\ transmitting' = FALSE
  /\ UNCHANGED <<m_Board, shotComputing, shotState, lmComputing, shotHistory>>

-----------------------------------------------------------------------------
(* The constructor opens the board and starts it; nobody called            *)
(* StartProcess.                                                           *)
ShotInit ==
  /\ m_Board = "live" /\ transmitting = TRUE
  /\ shotComputing = 1 /\ shotState = "LIMBO"
  /\ shotpc = [a \in Actors |-> "idle"] /\ lmComputing = [a \in Actors |-> 0]
  /\ running = TRUE /\ late = 0 /\ restarted = FALSE

ShotNext ==
  \/ \E a \in Actors : ProcessStarts(a)
  \/ GetSingleBoardImage
  \/ CallStart \/ StopShotProcess \/ SetBoardFeature

ShotSpec == ShotInit /\ [][ShotNext]_shotVars

-----------------------------------------------------------------------------
(* Properties.                                                             *)

(* As long as the server lives, however its starts, stops and settings     *)
(* fall into a grab: at most one image is grabbed after a client's stop,   *)
(* unless the loop, which had seen the process started, starts it again;   *)
(* and between the calls a board that is there transmits.                  *)
BoardFollowsCalls ==
  running =>
    /\ shotState = "STOPPED" /\ ~restarted => late <= 1
    /\ (\A a \in Actors : shotpc[a] = "idle") /\ m_Board # "null" => m_Board = "live" /\ transmitting
=============================================================================
