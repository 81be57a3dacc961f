--------------------------- MODULE VisionProcess ---------------------------
(***************************************************************************)
(* HRP2VisionBasicProcess (src/VisionBasicProcess.cpp): the life cycle     *)
(* every vision process of the server goes through.  Five operations check *)
(* m_State, write it, call a hook of the subclass and write it again; no   *)
(* operation takes a lock.  The frame loop calls RealizeTheProcess on the  *)
(* LLVS thread, the ORB's threads call the others, so an operation is the  *)
(* sequence of its reads and writes of m_State and m_Computing, and the    *)
(* operations of several threads interleave.                               *)
(***************************************************************************)
EXTENDS Naturals

CONSTANTS
  Threads,   \* the threads that call the process
  Calls      \* the operations each of them calls

Ops == {"Initialize", "Start", "Stop", "Realize", "CleanUp"}

ASSUME CallsAssumption == Calls \in [Threads -> SUBSET Ops]

(* The state an operation enters before its hook, and the one after it.    *)
Doing ==
  [Initialize |-> "INITIALIZE", Start |-> "START_PROCESS", Stop |-> "STOP_PROCESS",
   Realize |-> "EXECUTE_PROCESS", CleanUp |-> "CLEANUP"]

Finished ==
  [Initialize |-> "INITIALIZE_FINISHED", Start |-> "START_PROCESS_FINISHED",
   Stop |-> "STOP_PROCESS_FINISHED", Realize |-> "EXECUTE_PROCESS_FINISHED",
   CleanUp |-> "CLEANUP_FINISHED"]

Transient == {Doing[o] : o \in Ops}
Settled == {"LIMBO"} \cup {Finished[o] : o \in Ops}
States == Transient \cup Settled

AcceptedNotFromStart ==
  [Initialize |-> {"LIMBO", "CLEANUP_FINISHED"},
   Start |-> {"INITIALIZE_FINISHED", "STOP_PROCESS_FINISHED"},
   Stop |-> {"EXECUTE_PROCESS_FINISHED", "EXECUTE_PROCESS", "START_PROCESS",
             "START_PROCESS_FINISHED", "INITIALIZE", "INITIALIZE_FINISHED"},
   Realize |-> {"EXECUTE_PROCESS_FINISHED"},
   CleanUp |-> {"STOP_PROCESS_FINISHED"}]

AcceptedCleanUpRunning ==
  [Initialize |-> {"LIMBO", "CLEANUP_FINISHED"},
   Start |-> {"INITIALIZE_FINISHED", "STOP_PROCESS_FINISHED"},
   Stop |-> {"EXECUTE_PROCESS_FINISHED", "EXECUTE_PROCESS", "START_PROCESS",
             "START_PROCESS_FINISHED", "INITIALIZE", "INITIALIZE_FINISHED"},
   Realize |-> {"START_PROCESS_FINISHED", "EXECUTE_PROCESS_FINISHED"},
   CleanUp |-> {"STOP_PROCESS_FINISHED", "START_PROCESS_FINISHED"}]

(* The states from which each operation goes ahead.                        *)
Accepted ==
  [Initialize |-> {"LIMBO", "CLEANUP_FINISHED"},
   Start |-> {"INITIALIZE_FINISHED", "STOP_PROCESS_FINISHED"},
   Stop |-> {"EXECUTE_PROCESS_FINISHED", "EXECUTE_PROCESS", "START_PROCESS",
             "START_PROCESS_FINISHED", "INITIALIZE", "INITIALIZE_FINISHED"},
   Realize |-> {"START_PROCESS_FINISHED", "EXECUTE_PROCESS_FINISHED"},
   CleanUp |-> {"STOP_PROCESS_FINISHED"}]

VARIABLES
  m_State,         \* the internal state
  m_Computing,     \* what GetStatus returns
  INTERNAL_STATE,  \* the parameter of that name, what clients see of m_State
  op,              \* the operation a thread is in
  at,              \* where in the operation the thread is
  startNext,       \* the Initialize of a thread was called by its StartProcess
  aValue,          \* the local of SetStateParameter
  refused,         \* history: the last start hook of the subclass refused
  late             \* history: frames a thread began with m_Computing at 0

procVars == <<m_State, m_Computing, INTERNAL_STATE>>
vars == <<m_State, m_Computing, INTERNAL_STATE, op, at, startNext, aValue, refused, late>>

Points == {"idle", "status", "check", "clear", "enter", "nameDoing", "storeDoing",
           "hook", "leave", "nameFinished", "storeFinished", "raise"}

Init ==
  /\ m_State = "LIMBO"
  /\ m_Computing = 0
  /\ INTERNAL_STATE = "LIMBO"
  /\ op = [t \in Threads |-> "Realize"]
  /\ at = [t \in Threads |-> "idle"]
  /\ startNext = [t \in Threads |-> FALSE]
  /\ aValue = [t \in Threads |-> "LIMBO"]
  /\ refused = FALSE
  /\ late = [t \in Threads |-> 0]

-----------------------------------------------------------------------------

Moves(t, from, to) == at[t] = from /\ at' = [at EXCEPT ![t] = to]

(* RealizeTheProcess looks at m_Computing before m_State.                  *)
Call(t, o) ==
  /\ Moves(t, "idle", IF o = "Realize" THEN "status" ELSE "check")
  /\ op' = [op EXCEPT ![t] = o]
  /\ startNext' = [startNext EXCEPT ![t] = FALSE]
  /\ UNCHANGED <<procVars, aValue, refused, late>>

StatusUnread(t) ==
  /\ Moves(t, "status", "check")
  /\ UNCHANGED <<procVars, op, startNext, aValue, refused, late>>

ReadStatus(t) ==
  /\ Moves(t, "status", IF m_Computing = 1 THEN "check" ELSE "idle")
  /\ UNCHANGED <<procVars, op, startNext, aValue, refused, late>>

(* StopProcess is the one that has something to do before m_State.         *)
CheckAccepted(t) ==
  /\ m_State \in Accepted[op[t]]
  /\ Moves(t, "check", IF op[t] = "Stop" THEN "clear" ELSE "enter")
  /\ UNCHANGED <<procVars, op, startNext, aValue, refused, late>>

(* StartProcess from STATE_LIMBO calls InitializeTheProcess, which looks   *)
(* at m_State again.                                                       *)
CheckStartFromLimbo(t) ==
  /\ op[t] = "Start" /\ m_State = "LIMBO"
  /\ at[t] = "check"
  /\ op' = [op EXCEPT ![t] = "Initialize"]
  /\ startNext' = [startNext EXCEPT ![t] = TRUE]
  /\ UNCHANGED <<procVars, at, aValue, refused, late>>

(* DisplayError; within a StartProcess only InitializeTheProcess gives up. *)
CheckRefused(t) ==
  /\ m_State \notin Accepted[op[t]]
  /\ ~ (op[t] = "Start" /\ m_State = "LIMBO")
  /\ Moves(t, "check", IF startNext[t] THEN "enter" ELSE "idle")
  /\ op' = [op EXCEPT ![t] = IF startNext[t] THEN "Start" ELSE @]
  /\ startNext' = [startNext EXCEPT ![t] = FALSE]
  /\ UNCHANGED <<procVars, aValue, refused, late>>

ClearComputing(t) ==
  /\ Moves(t, "clear", "enter")
  /\ m_Computing' = 0
  /\ UNCHANGED <<m_State, INTERNAL_STATE, op, startNext, aValue, refused, late>>

Enter(t) ==
  /\ Moves(t, "enter", "nameDoing")
  /\ m_State' = Doing[op[t]]
  /\ UNCHANGED <<m_Computing, INTERNAL_STATE, op, startNext, aValue, refused, late>>

(* SetStateParameter: the value is named from m_State, then stored.        *)
NameState(t) ==
  /\ \/ Moves(t, "nameDoing", "storeDoing")
     \/ Moves(t, "nameFinished", "storeFinished")
  /\ aValue' = [aValue EXCEPT ![t] = m_State]
  /\ UNCHANGED <<procVars, op, startNext, refused, late>>

(* The next thing pRealizeTheProcess does is to compute a frame.           *)
StoreDoing(t) ==
  /\ Moves(t, "storeDoing", "hook")
  /\ INTERNAL_STATE' = aValue[t]
  /\ late' = [late EXCEPT ![t] =
                IF op[t] = "Realize" /\ m_Computing = 0 THEN @ + 1 ELSE @]
  /\ UNCHANGED <<m_State, m_Computing, op, startNext, aValue, refused>>

HookReturns(t) ==
  /\ Moves(t, "hook", "leave")
  /\ refused' = IF op[t] = "Start" THEN FALSE ELSE refused
  /\ UNCHANGED <<procVars, op, startNext, aValue, late>>

(* A hook that cannot do its work clears m_Computing and returns -1: the   *)
(* start of the control law without cdMo, the initialisation of the Kalman *)
(* tracker without a timestamp.  The caller ignores the -1.                *)
HookRefuses(t) ==
  /\ op[t] \in {"Initialize", "Start"}
  /\ Moves(t, "hook", "leave")
  /\ m_Computing' = 0
  /\ refused' = IF op[t] = "Start" THEN TRUE ELSE refused
  /\ UNCHANGED <<m_State, INTERNAL_STATE, op, startNext, aValue, late>>

LeaveTooEarly(t) ==
  /\ Moves(t, "leave", "nameFinished")
  /\ m_State' = IF op[t] = "Stop" THEN Doing[op[t]] ELSE Finished[op[t]]
  /\ UNCHANGED <<m_Computing, INTERNAL_STATE, op, startNext, aValue, refused, late>>

Leave(t) ==
  /\ Moves(t, "leave", "nameFinished")
  /\ m_State' = Finished[op[t]]
  /\ UNCHANGED <<m_Computing, INTERNAL_STATE, op, startNext, aValue, refused, late>>

AfterFinished(t) ==
  IF op[t] = "Start" THEN "raise" ELSE IF startNext[t] THEN "enter" ELSE "idle"

StoreFinished(t) ==
  /\ Moves(t, "storeFinished", AfterFinished(t))
  /\ INTERNAL_STATE' = aValue[t]
  /\ op' = [op EXCEPT ![t] = IF startNext[t] THEN "Start" ELSE @]
  /\ startNext' = [startNext EXCEPT ![t] = FALSE]
  /\ UNCHANGED <<m_State, m_Computing, aValue, refused, late>>

(* The last act of StartProcess, whatever its hook answered.               *)
RaiseComputing(t) ==
  /\ Moves(t, "raise", "idle")
  /\ m_Computing' = 1
  /\ late' = [u \in Threads |-> 0]
  /\ UNCHANGED <<m_State, INTERNAL_STATE, op, startNext, aValue, refused>>

Step(t) ==
  \/ ReadStatus(t) \/ CheckAccepted(t) \/ CheckStartFromLimbo(t) \/ CheckRefused(t)
  \/ ClearComputing(t) \/ Enter(t) \/ NameState(t) \/ StoreDoing(t)
  \/ HookReturns(t) \/ HookRefuses(t) \/ Leave(t) \/ StoreFinished(t) \/ RaiseComputing(t)

-----------------------------------------------------------------------------

Next == \E t \in Threads : Step(t) \/ \E o \in Calls[t] : Call(t, o)

Spec == Init /\ [][Next]_vars

(* A thread that is in an operation gets on with it, and the frame loop    *)
(* calls RealizeTheProcess again and again.                                *)
Fairness ==
  \A t \in Threads :
    WF_vars(Step(t)) /\ ("Realize" \in Calls[t] => WF_vars(Call(t, "Realize")))

FairSpec == Spec /\ Fairness

-----------------------------------------------------------------------------
(* Properties.                                                             *)

TypeOK ==
  /\ m_State \in States
  /\ m_Computing \in {0, 1}
  /\ INTERNAL_STATE \in States
  /\ op \in [Threads -> Ops]
  /\ at \in [Threads -> Points]
  /\ startNext \in [Threads -> BOOLEAN]
  /\ aValue \in [Threads -> States]
  /\ refused \in BOOLEAN
  /\ late \in [Threads -> Nat]

InHook(t, o) == op[t] = o /\ at[t] = "hook"
AtRest == \A t \in Threads : at[t] = "idle"

(* However the calls interleave, a thread of the frame loop computes at    *)
(* most one frame of a process whose m_Computing is 0: the frame whose     *)
(* RealizeTheProcess was past its first test when StopProcess came.        *)
AtMostOneLateFrame == \A t \in Threads : late[t] <= 1

(* However the calls interleave, no process is left in the middle of an    *)
(* operation: when no call is in progress m_State is LIMBO or a _FINISHED  *)
(* state, from which some operation is accepted.                           *)
SettledAtRest == AtRest => m_State \in Settled

(* A process whose status is 1 gets its frames computed, or is stopped.    *)
RunningIsComputed ==
  m_Computing = 1 ~> (m_Computing = 0 \/ \E t \in Threads : InHook(t, "Realize"))

(* A start the subclass refused leaves the process not running: "cdMo must *)
(* be set to start the compute controle law process".                      *)
RefusedStartIsNotRunning == AtRest /\ refused => m_Computing = 0

(* With one caller at a time the process is the simple machine of          *)
(* ProcessLifecycle.                                                       *)
Lifecycle == INSTANCE ProcessLifecycle WITH
  phase <- IF m_State \in {"LIMBO", "INITIALIZE", "CLEANUP_FINISHED"} THEN "uninitialised"
           ELSE IF m_State \in {"START_PROCESS_FINISHED", "EXECUTE_PROCESS",
                                "EXECUTE_PROCESS_FINISHED"} THEN "running"
           ELSE "idle",
  status <- m_Computing,
  computing <- \E t \in Threads : InHook(t, "Realize")

ImplementsLifecycle == Lifecycle!LSpec

=============================================================================
