------------------------------ MODULE Shutdown ------------------------------
(***************************************************************************)
(* Start-up and shutdown (MainEntryPoint.cpp), composed with FrameGrabber. *)
(* The main thread creates the LLVS thread and waits for a mutex it holds  *)
(* itself; the handler of SIGINT unlocks it.  Then main stops the main     *)
(* process, ends the LLVS thread by a second SIGINT, whose handler calls   *)
(* pthread_exit wherever that thread is, joins it and cleans the grabber   *)
(* up.  A thread that ends so keeps the mutexes it holds.                  *)
(*                                                                         *)
(* Main is one of the Threads of FrameGrabber, whose StopProcess it calls. *)
(* The other threads are the ORB's; they run until the process ends.       *)
(***************************************************************************)
EXTENDS FrameGrabber

CONSTANTS Main, MaxSigints   \* the main thread; bound: the SIGINTs sent

ASSUME MainAssumption == Main \in Threads /\ MaxSigints \in Nat

VARIABLES
  mainpc,      \* where main is
  ExitMutex,   \* ExitApplicationMutex: TRUE if locked
  computing,   \* m_Computing of LowLevelVisionServer
  llvs,        \* the LLVS thread: "created", "running", "killed", "ended"
  sigints,     \* the SIGINTs sent so far
  started      \* history: a start of the grabber was under way at or after a SIGINT

server == <<mainpc, ExitMutex, computing, llvs, sigints>>
allVars == <<vars, server, started>>

(* Line 379: the LLVS thread is created and main about to wait.            *)
ServerInit ==
  /\ Init
  /\ mainpc = "wait"
  /\ ExitMutex = TRUE
  /\ computing = 0
  /\ llvs = "created"
  /\ sigints = 0
  /\ started = FALSE

Ended == mainpc \in {"exited", "aborted"}
Starting == \E t \in Threads : pc[t] \in {"start", "setup", "on", "on_locked", "started"}

MainGoto(from, to) == mainpc = from /\ mainpc' = to

-----------------------------------------------------------------------------
(* LLVSThread: StartMainProcess whenever it is first scheduled, then       *)
(* ApplyingProcess for ever, which returns at once while computing is 0.   *)
LLVSThreadBegins ==
  /\ llvs = "created"
  /\ llvs' = "running"
  /\ computing' = 1
  /\ UNCHANGED <<vars, mainpc, ExitMutex, sigints, started>>

LLVSThread ==
  /\ llvs \in {"running", "killed"}
  /\ pc[Loop] = "idle" => computing = 1
  /\ GetImageFromFrameGrabber
  /\ UNCHANGED <<server, started>>

(* The handler in the LLVS thread: pthread_exit, with what it holds.       *)
LLVSThreadExits ==
  /\ llvs = "killed"
  /\ llvs' = "ended"
  /\ UNCHANGED <<vars, mainpc, ExitMutex, computing, sigints, started>>

(* A signal to the process reaches the main thread, the kernel's first     *)
(* choice, as main does not block it.  The handler unlocks the mutex it    *)
(* finds locked, and otherwise ends the process.                           *)
SIGINT_handler ==
  /\ ~Ended
  /\ sigints < MaxSigints
  /\ sigints' = sigints + 1
  /\ IF ExitMutex
     THEN ExitMutex' = FALSE /\ UNCHANGED mainpc
     ELSE mainpc' = "aborted" /\ UNCHANGED ExitMutex
  /\ started' = (started \/ Starting)
  /\ UNCHANGED <<vars, computing, llvs>>

-----------------------------------------------------------------------------
(* The end of main.                                                        *)

LockExit ==
  /\ ~ExitMutex
  /\ MainGoto("wait", "locked")
  /\ ExitMutex' = TRUE
  /\ UNCHANGED <<vars, computing, llvs, sigints, started>>

(* main with the thread killed before StopMainProcess.                     *)
KillFirst ==
  /\ MainGoto("locked", "stop")
  /\ ExitMutex' = FALSE
  /\ llvs' = "ended"
  /\ UNCHANGED <<vars, computing, sigints, started>>

UnlockExit ==
  /\ MainGoto("locked", "stop")
  /\ ExitMutex' = FALSE
  /\ UNCHANGED <<vars, computing, llvs, sigints, started>>

(* StopMainProcess: of the processes it stops, the grabber takes a mutex.  *)
StopMainProcess ==
  /\ MainGoto("stop", "stopping")
  /\ computing' = 0
  /\ \/ StopProcess(Main)
     \/ m_State \in {"STOPPING", "STOPPED"} /\ UNCHANGED vars
  /\ UNCHANGED <<ExitMutex, llvs, sigints, started>>

NotKilled ==
  /\ MainGoto("stopping", "join")
  /\ pc[Main] = "idle"
  /\ UNCHANGED <<vars, ExitMutex, computing, llvs, sigints, started>>

KillThread ==
  /\ MainGoto("stopping", "join")
  /\ pc[Main] = "idle"
  /\ llvs' = "killed"
  /\ UNCHANGED <<vars, ExitMutex, computing, sigints, started>>

JoinThread ==
  /\ MainGoto("join", "cleanup")
  /\ llvs = "ended"
  /\ UNCHANGED <<vars, ExitMutex, computing, llvs, sigints, started>>

CleanUpGrabbing ==
  /\ MainGoto("cleanup", "cleaning")
  /\ \/ StopProcess(Main)
     \/ m_State \in {"STOPPING", "STOPPED"} /\ UNCHANGED vars
  /\ UNCHANGED <<ExitMutex, computing, llvs, sigints, started>>

Exit ==
  /\ MainGoto("cleaning", "exited")
  /\ pc[Main] = "idle"
  /\ UNCHANGED <<vars, ExitMutex, computing, llvs, sigints, started>>

MainStep ==
  \/ LockExit \/ UnlockExit \/ StopMainProcess \/ KillThread \/ JoinThread
  \/ CleanUpGrabbing \/ Exit
  \/ ~Ended /\ Proceed(Main) /\ UNCHANGED <<server, started>>

-----------------------------------------------------------------------------
(* The ORB's threads.                                                      *)

Starts(t) ==
  /\ StartProcess(t)
  /\ started' = (started \/ sigints > 0)
  /\ UNCHANGED server

Calls(t) ==
  /\ StopProcess(t) \/ GetCameraFeatureValue(t) \/ SetCameraFeatureValue(t)
  /\ UNCHANGED <<server, started>>

Proceeds(t) == ~Ended /\ Proceed(t) /\ UNCHANGED <<server, started>>

Clients == \E t \in Threads \ {Main} : ~Ended /\ (Starts(t) \/ Calls(t) \/ Proceeds(t))

Frames == ~Ended /\ (\E c \in Cameras : FrameArrives(c)) /\ UNCHANGED <<server, started>>

LLVS == ~Ended /\ (LLVSThreadBegins \/ LLVSThread \/ LLVSThreadExits)

ServerNext == SIGINT_handler \/ MainStep \/ LLVS \/ Clients \/ Frames

ServerSpec == ServerInit /\ [][ServerNext]_allVars

(* Threads run, calls under way go on, cameras that transmit send frames,  *)
(* and a free mutex asked for again and again is obtained.                 *)
Fairness ==
  /\ WF_allVars(MainStep) /\ WF_allVars(LLVS) /\ WF_allVars(Frames)
  /\ SF_allVars(LLVSThread /\ m_mutex_device' = Loop)
  /\ \A t \in Threads :
       /\ WF_allVars(Proceeds(t))
       /\ SF_allVars(Proceeds(t) /\ m_mutex_device' = t)

FairServerSpec == ServerSpec /\ Fairness

-----------------------------------------------------------------------------
(* Properties.                                                             *)

ServerTypeOK ==
  /\ TypeOK
  /\ mainpc \in {"wait", "locked", "stop", "stopping", "join", "cleanup", "cleaning",
                 "exited", "aborted"}
  /\ ExitMutex \in BOOLEAN /\ started \in BOOLEAN
  /\ computing \in {0, 1} /\ sigints \in 0 .. MaxSigints
  /\ llvs \in {"created", "running", "killed", "ended"}

(* Main never waits for m_mutex_device once the LLVS thread was ended with *)
(* it in hand: StopMainProcess comes before pthread_kill, and the later    *)
(* CleanUpGrabbing finds the grabber stopped, unless a client has started  *)
(* it again meanwhile.                                                     *)
MainNeverOrphaned ==
  llvs = "ended" /\ m_mutex_device = Loop /\ ~started =>
    pc[Main] \notin {"off", "free", "on"}

(* The properties below are about a grabber that one client at a time may  *)
(* start and stop.  With two, a start that overlaps the stop of the other  *)
(* leaves cameras open in a stopped process, forgets a dequeued frame, and *)
(* may hold up the stop for ever.                                          *)
OneClient == \A t, u \in Threads \ {Main} : t = u

(* A normal exit leaves no camera open and none transmitting, unless the   *)
(* client starts the grabber during the shutdown, or is itself in the      *)
(* middle of a stop: main's own StopProcess is then refused and main does  *)
(* not wait for the client's.                                              *)
ExitReleasesCameras ==
  /\ OneClient
  /\ mainpc = "exited" /\ ~started
  /\ \A t \in Threads : pc[t] \notin {"off", "off_locked", "free", "free_locked"}
  =>
    /\ \A c \in Cameras : handle[c] # "open"
    /\ transmission = {}

(* GetImageSingle* gives every frame it dequeued back: one frame at most   *)
(* is out, that of the camera the loop is at.  Frames that stay out would  *)
(* starve the camera after NUM_BUFFERS grabs.                              *)
NoBufferLost ==
  OneClient /\ ~started /\ llvs # "ended" =>
    \A c \in Cameras :
      out[c] > 0 => /\ out[c] = 1 /\ cam[Loop] = c
                    /\ pc[Loop] \in {"convert", "relock", "enqueue"}

(* SIGINT ends the server, through the handler, the two mutexes, the last  *)
(* frame of the loop and the join, unless the client starts the grabber    *)
(* during the shutdown.                                                    *)
SigintEndsServer == OneClient => ((sigints > 0) ~> (Ended \/ started))

(* The client's StopProcess returns, while the LLVS thread lives: the loop *)
(* holds the mutex for a frame at most, as the cameras transmit or their   *)
(* captures are stopped.  StartProcess may not: a loop that tested the     *)
(* status before a stop and dequeues after the next set-up waits, with the *)
(* mutex, for a camera that this start has yet to turn on.                 *)
StopsReturn ==
  OneClient =>
    \A t \in Threads \ {Main} :
      pc[t] \in {"off", "free"} ~> (pc[t] = "idle" \/ sigints > 0)
=============================================================================
