------------------------- MODULE VisionProcessProofs -------------------------
(***************************************************************************)
(* Theorems about VisionProcess: what holds for any number of threads      *)
(* making any calls, and the refinement of ProcessLifecycle when the calls *)
(* come one at a time.                                                     *)
(***************************************************************************)
EXTENDS VisionProcess, TLAPS

(* A thread between its two writes of m_State.                             *)
Within(t) == at[t] \in {"nameDoing", "storeDoing", "hook", "leave"}

(* A thread of the frame loop past its look at m_Computing.                *)
Committed(t) ==
  op[t] = "Realize" /\ at[t] \in {"check", "enter", "nameDoing", "storeDoing"}

LateInv ==
  /\ m_Computing = 1 => \A t \in Threads : late[t] = 0
  /\ \A t \in Threads : late[t] <= 1 /\ (Committed(t) => late[t] = 0)

(* StartProcess in its Initialize; where only one operation can be.        *)
ControlInv ==
  \A t \in Threads :
    /\ startNext[t] => op[t] = "Initialize"
    /\ at[t] = "status" => op[t] = "Realize"
    /\ at[t] = "raise" => op[t] = "Start"
    /\ at[t] = "clear" => op[t] = "Stop"

SettledInv == m_State \in Settled \/ \E t \in Threads : Within(t)

IInv == TypeOK /\ ControlInv /\ LateInv /\ SettledInv

-----------------------------------------------------------------------------

LEMMA StatesOfOps ==
  /\ \A o \in Ops : Doing[o] \in States /\ Finished[o] \in Settled
  /\ Settled \subseteq States /\ "LIMBO" \in Settled
<1>1. ASSUME NEW o \in Ops PROVE Doing[o] \in Transient /\ Finished[o] \in Settled
  BY DEF Settled, Transient
<1>2. Settled \subseteq States /\ Transient \subseteq States
  BY DEF States
<1>3. "LIMBO" \in Settled
  BY DEF Settled
<1>4. QED
  BY <1>1, <1>2, <1>3

LEMMA TypeInit == Init => TypeOK
<1>1. "LIMBO" \in States
  BY StatesOfOps
<1>2. ASSUME Init PROVE startNext \in [Threads -> BOOLEAN] /\ refused \in BOOLEAN
  BY <1>2, Zenon DEF Init
<1>3. ASSUME Init PROVE /\ m_State \in States /\ INTERNAL_STATE \in States
                        /\ aValue \in [Threads -> States]
  BY <1>1, <1>3 DEF Init
<1>4. ASSUME Init PROVE /\ m_Computing \in {0, 1} /\ late \in [Threads -> Nat]
                        /\ op \in [Threads -> Ops] /\ at \in [Threads -> Points]
  BY <1>4 DEF Init, Ops, Points
<1>5. QED
  BY <1>2, <1>3, <1>4 DEF TypeOK

LEMMA TypeStep == TypeOK /\ [Next]_vars => TypeOK'
<1> SUFFICES ASSUME TypeOK, [Next]_vars PROVE TypeOK'
  OBVIOUS
<1> USE DEF TypeOK, Moves, procVars
<1>1. ASSUME NEW t \in Threads, NEW o \in Calls[t], Call(t, o) PROVE TypeOK'
  <2>1. o \in Ops
    BY CallsAssumption
  <2>2. QED
    BY <1>1, <2>1 DEF Call, Points
<1>2. ASSUME NEW t \in Threads, Step(t) PROVE TypeOK'
  <2>1. CASE ReadStatus(t)
    BY <2>1 DEF ReadStatus, Points
  <2>2. CASE CheckAccepted(t)
    BY <2>2 DEF CheckAccepted, Points
  <2>3. CASE CheckStartFromLimbo(t)
    BY <2>3 DEF CheckStartFromLimbo, Ops
  <2>4. CASE CheckRefused(t)
    BY <2>4 DEF CheckRefused, Points, Ops
  <2>5. CASE ClearComputing(t)
    BY <2>5 DEF ClearComputing, Points
  <2>6. CASE Enter(t)
    BY <2>6, StatesOfOps DEF Enter, Points
  <2>7. CASE NameState(t)
    BY <2>7 DEF NameState, Points
  <2>8. CASE StoreDoing(t)
    BY <2>8 DEF StoreDoing, Points
  <2>9. CASE HookReturns(t)
    BY <2>9 DEF HookReturns, Points
  <2>10. CASE HookRefuses(t)
    BY <2>10 DEF HookRefuses, Points
  <2>11. CASE Leave(t)
    BY <2>11, StatesOfOps DEF Leave, Points
  <2>12. CASE StoreFinished(t)
    BY <2>12 DEF StoreFinished, AfterFinished, Points, Ops
  <2>13. CASE RaiseComputing(t)
    BY <2>13 DEF RaiseComputing, Points
  <2>14. QED
    BY <1>2, <2>1, <2>2, <2>3, <2>4, <2>5, <2>6, <2>7, <2>8, <2>9, <2>10, <2>11,
       <2>12, <2>13 DEF Step
<1>3. CASE UNCHANGED vars
  BY <1>3 DEF vars
<1>4. QED
  BY <1>1, <1>2, <1>3 DEF Next

LEMMA ControlStep == TypeOK /\ ControlInv /\ [Next]_vars => ControlInv'
<1> SUFFICES ASSUME TypeOK, ControlInv, [Next]_vars PROVE ControlInv'
  OBVIOUS
<1>1. ASSUME NEW t \in Threads, NEW o \in Calls[t], Call(t, o) PROVE ControlInv'
  BY <1>1 DEF Call, Moves, ControlInv, TypeOK
<1>2. ASSUME NEW t \in Threads, Step(t) PROVE ControlInv'
  BY <1>2 DEF Step, ReadStatus, CheckAccepted, CheckStartFromLimbo, CheckRefused,
     ClearComputing, Enter, NameState, StoreDoing, HookReturns, HookRefuses, Leave,
     StoreFinished, AfterFinished, RaiseComputing, Moves, ControlInv, TypeOK, procVars
<1>3. CASE UNCHANGED vars
  BY <1>3 DEF vars, ControlInv
<1>4. QED
  BY <1>1, <1>2, <1>3 DEF Next

-----------------------------------------------------------------------------
(* late[t] moves only in StoreDoing of t, and to 0 in RaiseComputing.      *)
LEMMA LateStep == TypeOK /\ ControlInv /\ LateInv /\ [Next]_vars => LateInv'
<1> SUFFICES ASSUME TypeOK, ControlInv, LateInv, [Next]_vars PROVE LateInv'
  OBVIOUS
<1>1. ASSUME NEW t \in Threads, NEW o \in Calls[t], Call(t, o) PROVE LateInv'
  BY <1>1 DEF Call, Moves, LateInv, Committed, TypeOK, procVars
<1>2. ASSUME NEW t \in Threads, StoreDoing(t) PROVE LateInv'
  <2>1. /\ m_Computing' = m_Computing /\ op' = op
        /\ at' = [at EXCEPT ![t] = "hook"] /\ at[t] = "storeDoing"
        /\ late' = [late EXCEPT ![t] =
                     IF op[t] = "Realize" /\ m_Computing = 0 THEN @ + 1 ELSE @]
    BY <1>2 DEF StoreDoing, Moves
  <2>2. op[t] = "Realize" => late[t] = 0
    BY <2>1 DEF LateInv, Committed
  <2>3. QED
    BY <2>1, <2>2 DEF LateInv, Committed, TypeOK
<1>3. ASSUME NEW t \in Threads, RaiseComputing(t) PROVE LateInv'
  BY <1>3 DEF RaiseComputing, LateInv, TypeOK
<1>4. ASSUME NEW t \in Threads, Step(t), ~StoreDoing(t), ~RaiseComputing(t)
      PROVE  LateInv'
  <2>1. late' = late /\ (m_Computing' = m_Computing \/ m_Computing' = 0)
    BY <1>4 DEF Step, ReadStatus, CheckAccepted, CheckStartFromLimbo, CheckRefused,
       ClearComputing, Enter, NameState, HookReturns, HookRefuses, Leave,
       StoreFinished, procVars
  <2>2. ASSUME NEW u \in Threads, Committed(u)' PROVE Committed(u) \/ m_Computing = 1
    BY <1>4, <2>2 DEF Step, ReadStatus, CheckAccepted, CheckStartFromLimbo, CheckRefused,
       ClearComputing, Enter, NameState, HookReturns, HookRefuses, Leave,
       StoreFinished, AfterFinished, Committed, Moves, ControlInv, TypeOK
  <2>3. QED
    BY <2>1, <2>2 DEF LateInv
<1>5. CASE UNCHANGED vars
  BY <1>5 DEF vars, LateInv, Committed
<1>6. QED
  BY <1>1, <1>2, <1>3, <1>4, <1>5 DEF Next

(* A _FINISHED state stays until some thread enters, and a thread that     *)
(* entered is Within until it has written a _FINISHED state.               *)
LEMMA SettledStep == TypeOK /\ SettledInv /\ [Next]_vars => SettledInv'
<1> SUFFICES ASSUME TypeOK, SettledInv, [Next]_vars PROVE SettledInv'
  OBVIOUS
<1>1. ASSUME NEW t \in Threads, NEW o \in Calls[t], Call(t, o) PROVE SettledInv'
  BY <1>1 DEF Call, Moves, SettledInv, Within, TypeOK, procVars
<1>2. ASSUME NEW t \in Threads, Enter(t) PROVE SettledInv'
  BY <1>2 DEF Enter, Moves, SettledInv, Within, TypeOK
<1>3. ASSUME NEW t \in Threads, Leave(t) PROVE SettledInv'
  BY <1>3, StatesOfOps DEF Leave, SettledInv, TypeOK
<1>4. ASSUME NEW t \in Threads, Step(t), ~Enter(t), ~Leave(t) PROVE SettledInv'
  <2>1. m_State' = m_State
    BY <1>4 DEF Step, ReadStatus, CheckAccepted, CheckStartFromLimbo, CheckRefused,
       ClearComputing, NameState, StoreDoing, HookReturns, HookRefuses,
       StoreFinished, RaiseComputing, procVars
  <2>2. ASSUME NEW u \in Threads, Within(u) PROVE Within(u)'
    BY <1>4, <2>2 DEF Step, ReadStatus, CheckAccepted, CheckStartFromLimbo, CheckRefused,
       ClearComputing, NameState, StoreDoing, HookReturns, HookRefuses,
       StoreFinished, RaiseComputing, AfterFinished, Moves, Within, TypeOK
  <2>3. QED
    BY <2>1, <2>2 DEF SettledInv
<1>5. CASE UNCHANGED vars
  BY <1>5 DEF vars, SettledInv, Within
<1>6. QED
  BY <1>1, <1>2, <1>3, <1>4, <1>5 DEF Next

(* Types, and what control calls and the loop know of each other.          *)
THEOREM Invariant == Spec => []IInv
<1>1. Init => IInv
  BY TypeInit, StatesOfOps DEF Init, IInv, ControlInv, LateInv, Committed, SettledInv
<1>2. IInv /\ [Next]_vars => IInv'
  BY TypeStep, ControlStep, LateStep, SettledStep DEF IInv
<1>3. QED
  BY <1>1, <1>2, PTL DEF Spec

(* For any threads and any calls: each variable keeps its type.            *)
THEOREM TypeCorrect == Spec => []TypeOK
<1>1. IInv => TypeOK
  BY DEF IInv
<1>2. QED
  BY Invariant, <1>1, PTL

(* For any threads and any calls, a thread computes at most one frame of a *)
(* process between two moments when its GetStatus was 1.                   *)
THEOREM LateFrames == Spec => []AtMostOneLateFrame
<1>1. IInv => AtMostOneLateFrame
  BY DEF IInv, LateInv, AtMostOneLateFrame
<1>2. QED
  BY Invariant, <1>1, PTL

(* For any threads and any calls, no process is left in a transient state. *)
THEOREM NeverStuckInTransition == Spec => []SettledAtRest
<1>1. IInv => SettledAtRest
  BY DEF IInv, SettledInv, SettledAtRest, AtRest, Within
<1>2. QED
  BY Invariant, <1>1, PTL

-----------------------------------------------------------------------------
(* One caller at a time.                                                   *)
OneThread == \A t, u \in Threads : t = u

Uninitialised == {"LIMBO", "CLEANUP_FINISHED"}
Idle == {"INITIALIZE_FINISHED", "STOP_PROCESS_FINISHED"}
Running == {"START_PROCESS_FINISHED", "EXECUTE_PROCESS_FINISHED"}

(* Between two operations the status says whether the process runs.        *)
Rest ==
  \/ m_State \in Uninitialised \cup Idle /\ m_Computing = 0
  \/ m_State \in Running /\ m_Computing = 1

(* The states a single caller finds itself in, point by point.             *)
PointInv(t) ==
  /\ at[t] \in {"idle", "status", "check", "clear"} => Rest
  /\ at[t] = "check" /\ op[t] = "Realize" => m_Computing = 1
  /\ at[t] = "check" /\ startNext[t] => m_State = "LIMBO"
  /\ at[t] = "clear" => m_State \in Accepted["Stop"]
  /\ at[t] = "enter" =>
       CASE op[t] = "Initialize" -> m_State \in Uninitialised /\ m_Computing = 0
         [] op[t] = "Start" -> m_State \in Idle /\ m_Computing = 0
         [] op[t] = "Stop" -> m_State \in Running \cup Idle /\ m_Computing = 0
         [] op[t] = "Realize" -> m_State \in Running /\ m_Computing = 1
         [] op[t] = "CleanUp" -> m_State \in Idle /\ m_Computing = 0
  /\ at[t] \in {"nameDoing", "storeDoing", "hook", "leave"} =>
       m_State = Doing[op[t]] /\ m_Computing = IF op[t] = "Realize" THEN 1 ELSE 0
  /\ at[t] \in {"nameFinished", "storeFinished", "raise"} =>
       m_State = Finished[op[t]] /\ m_Computing = IF op[t] = "Realize" THEN 1 ELSE 0

SeqInv == TypeOK /\ ControlInv /\ \A t \in Threads : PointInv(t)

LEMMA AcceptedStates ==
  ASSUME NEW s
  PROVE  /\ s \in Accepted["Initialize"] <=> s \in Uninitialised
         /\ s \in Accepted["Start"] <=> s \in Idle
         /\ s \in Accepted["Realize"] <=> s \in Running
         /\ s \in Accepted["CleanUp"] => s \in Idle
         /\ s \in Accepted["Stop"] /\ (s \in Uninitialised \cup Idle \cup Running) =>
              s \in Running \cup Idle
  BY DEF Accepted, Uninitialised, Idle, Running

LEMMA FinishedStates ==
  /\ Finished["Initialize"] = "INITIALIZE_FINISHED"
  /\ Finished["Start"] = "START_PROCESS_FINISHED"
  /\ Finished["Stop"] = "STOP_PROCESS_FINISHED"
  /\ Finished["Realize"] = "EXECUTE_PROCESS_FINISHED"
  /\ Finished["CleanUp"] = "CLEANUP_FINISHED"
  BY DEF Finished

LEMMA SeqInit == Init => SeqInv
  BY TypeInit DEF Init, SeqInv, ControlInv, PointInv, Rest, Uninitialised

LEMMA SeqStep == OneThread /\ SeqInv /\ [Next]_vars => SeqInv'
<1> SUFFICES ASSUME OneThread, SeqInv, [Next]_vars PROVE SeqInv'
  OBVIOUS
<1>1. TypeOK' /\ ControlInv'
  BY TypeStep, ControlStep DEF SeqInv
<1>2. ASSUME NEW t \in Threads, NEW o \in Calls[t], Call(t, o) PROVE PointInv(t)'
  BY <1>2 DEF Call, Moves, SeqInv, PointInv, Rest, TypeOK, procVars
<1>3. ASSUME NEW t \in Threads, Step(t) PROVE PointInv(t)'
  <2> USE DEF Moves, SeqInv, PointInv, Rest, TypeOK, procVars, Uninitialised, Idle, Running
  <2>1. CASE ReadStatus(t)
    BY <2>1 DEF ReadStatus, ControlInv
  <2>2. CASE CheckAccepted(t)
    <3>1. /\ m_State \in Accepted[op[t]] /\ at[t] = "check" /\ op[t] \in Ops
          /\ at'[t] = IF op[t] = "Stop" THEN "clear" ELSE "enter"
          /\ UNCHANGED <<m_State, m_Computing, op, startNext>>
      BY <2>2 DEF CheckAccepted
    <3>2. Rest /\ (op[t] = "Realize" => m_Computing = 1)
      BY <3>1
    <3>3. QED
      BY <3>1, <3>2, AcceptedStates DEF Ops
  <2>3. CASE CheckStartFromLimbo(t)
    BY <2>3 DEF CheckStartFromLimbo
  <2>4. CASE CheckRefused(t)
    <3>1. CASE startNext[t]
      <4>1. op[t] = "Initialize" /\ m_State = "LIMBO"
        BY <2>4, <3>1 DEF CheckRefused, ControlInv
      <4>2. QED
        BY <2>4, <4>1, AcceptedStates DEF CheckRefused
    <3>2. CASE ~startNext[t]
      BY <2>4, <3>2 DEF CheckRefused
    <3>3. QED
      BY <3>1, <3>2
  <2>5. CASE ClearComputing(t)
    BY <2>5 DEF ClearComputing, Accepted, ControlInv
  <2>6. CASE Enter(t)
    BY <2>6 DEF Enter, Ops
  <2>7. CASE NameState(t)
    BY <2>7 DEF NameState
  <2>8. CASE StoreDoing(t)
    BY <2>8 DEF StoreDoing
  <2>9. CASE HookReturns(t)
    BY <2>9 DEF HookReturns
  <2>10. CASE HookRefuses(t)
    BY <2>10 DEF HookRefuses
  <2>11. CASE Leave(t)
    BY <2>11 DEF Leave
  <2>12. CASE StoreFinished(t)
    <3>1. /\ at[t] = "storeFinished" /\ op[t] \in Ops
          /\ at'[t] = AfterFinished(t) /\ startNext'[t] = FALSE
          /\ op'[t] = IF startNext[t] THEN "Start" ELSE op[t]
          /\ UNCHANGED <<m_State, m_Computing>>
      BY <2>12 DEF StoreFinished
    <3>2. /\ m_State = Finished[op[t]]
          /\ m_Computing = IF op[t] = "Realize" THEN 1 ELSE 0
          /\ startNext[t] => op[t] = "Initialize"
      BY <3>1 DEF ControlInv
    <3>3. CASE op[t] = "Start" \/ startNext[t]
      BY <3>1, <3>2, <3>3, FinishedStates DEF AfterFinished
    <3>4. CASE op[t] # "Start" /\ ~startNext[t]
      BY <3>1, <3>2, <3>4, FinishedStates DEF AfterFinished, Ops
    <3>5. QED
      BY <3>3, <3>4
  <2>13. CASE RaiseComputing(t)
    <3>1. /\ at[t] = "raise" /\ op[t] = "Start" /\ at'[t] = "idle"
          /\ m_State' = m_State /\ m_Computing' = 1 /\ UNCHANGED startNext
      BY <2>13 DEF RaiseComputing, ControlInv
    <3>2. m_State = "START_PROCESS_FINISHED"
      BY <3>1, FinishedStates
    <3>3. QED
      BY <3>1, <3>2
  <2>14. QED
    BY <1>3, <2>1, <2>2, <2>3, <2>4, <2>5, <2>6, <2>7, <2>8, <2>9, <2>10, <2>11,
       <2>12, <2>13 DEF Step
<1>4. CASE UNCHANGED vars
  BY <1>1, <1>4 DEF vars, SeqInv, PointInv, Rest
<1>5. QED
  BY <1>1, <1>2, <1>3, <1>4 DEF Next, SeqInv, OneThread

-----------------------------------------------------------------------------
(* The refinement.  phase is the expression substituted in Lifecycle.      *)
MappedPhase ==
  IF m_State \in {"LIMBO", "INITIALIZE", "CLEANUP_FINISHED"} THEN "uninitialised"
  ELSE IF m_State \in {"START_PROCESS_FINISHED", "EXECUTE_PROCESS",
                       "EXECUTE_PROCESS_FINISHED"} THEN "running"
  ELSE "idle"

Computing == \E t \in Threads : InHook(t, "Realize")

LEMMA DoingStates ==
  /\ Doing["Initialize"] = "INITIALIZE" /\ Doing["Start"] = "START_PROCESS"
  /\ Doing["Stop"] = "STOP_PROCESS" /\ Doing["Realize"] = "EXECUTE_PROCESS"
  /\ Doing["CleanUp"] = "CLEANUP"
  BY DEF Doing

LEMMA LifecycleInit == Init => Lifecycle!LInit
  BY DEF Init, Lifecycle!LInit, InHook

LEMMA LifecycleStep ==
  OneThread /\ SeqInv /\ [Next]_vars => [Lifecycle!LNext]_(Lifecycle!lvars)
<1> SUFFICES ASSUME OneThread, SeqInv, [Next]_vars
             PROVE  [Lifecycle!LNext]_(Lifecycle!lvars)
  OBVIOUS
<1>1. ASSUME MappedPhase' = MappedPhase, m_Computing' = m_Computing, Computing' = Computing
      PROVE  UNCHANGED Lifecycle!lvars
  BY <1>1 DEF Lifecycle!lvars, MappedPhase, Computing
<1>0. ASSUME m_State' = m_State, m_Computing' = m_Computing, Computing' = Computing
      PROVE  UNCHANGED Lifecycle!lvars
  BY <1>0, <1>1 DEF MappedPhase
<1>2. ASSUME NEW t \in Threads, NEW o \in Calls[t], Call(t, o)
      PROVE  UNCHANGED Lifecycle!lvars
  <2>1. m_State' = m_State /\ m_Computing' = m_Computing /\ Computing = FALSE /\ Computing' = FALSE
    BY <1>2 DEF Call, Moves, procVars, SeqInv, TypeOK, OneThread, Computing, InHook
  <2>2. QED
    BY <2>1, <1>0
<1>3. ASSUME NEW t \in Threads, Step(t) PROVE [Lifecycle!LNext]_(Lifecycle!lvars)
  <2>1. /\ op[t] \in Ops /\ PointInv(t) /\ OneThread
        /\ Computing = (op[t] = "Realize" /\ at[t] = "hook")
        /\ Computing' = (op'[t] = "Realize" /\ at'[t] = "hook")
    BY DEF SeqInv, TypeOK, OneThread, Computing, InHook
  <2>2. CASE ReadStatus(t) \/ CheckAccepted(t) \/ CheckStartFromLimbo(t)
             \/ CheckRefused(t) \/ NameState(t)
    <3>1. m_State' = m_State /\ m_Computing' = m_Computing /\ Computing = FALSE /\ Computing' = FALSE
      BY <2>1, <2>2 DEF ReadStatus, CheckAccepted, CheckStartFromLimbo, CheckRefused,
         NameState, Moves, procVars, SeqInv, TypeOK
    <3>2. QED
      BY <3>1, <1>0
  <2>3. CASE ClearComputing(t)
    <3>1. /\ m_State' = m_State /\ m_Computing' = 0 /\ Computing = FALSE /\ Computing' = FALSE
      BY <2>1, <2>3 DEF ClearComputing, Moves, SeqInv, TypeOK
    <3>2. QED
      BY <3>1 DEF Lifecycle!LNext, Lifecycle!ClearStatus, Computing
  <2>4. CASE Enter(t)
    <3>1. /\ at[t] = "enter" /\ m_State' = Doing[op[t]] /\ m_Computing' = m_Computing
          /\ Computing = FALSE /\ Computing' = FALSE
      BY <2>1, <2>4 DEF Enter, Moves, SeqInv, TypeOK
    <3>2. CASE op[t] = "Stop" /\ m_State \in Running
      BY <2>1, <3>1, <3>2, DoingStates
      DEF PointInv, Running, Computing, Lifecycle!LNext, Lifecycle!Stop, Lifecycle!Still
    <3>3. CASE ~(op[t] = "Stop" /\ m_State \in Running)
      <4>1. MappedPhase' = MappedPhase
        BY <2>1, <3>1, <3>3, DoingStates
        DEF PointInv, Running, Idle, Uninitialised, MappedPhase, Ops
      <4>2. QED
        BY <3>1, <4>1, <1>1
    <3>4. QED
      BY <3>2, <3>3
  <2>5. CASE StoreDoing(t)
    <3>1. /\ at[t] = "storeDoing" /\ at'[t] = "hook" /\ op' = op
          /\ m_State' = m_State /\ m_Computing' = m_Computing
      BY <2>5 DEF StoreDoing, Moves, SeqInv, TypeOK
    <3>2. CASE op[t] = "Realize"
      <4>1. m_State = "EXECUTE_PROCESS" /\ m_Computing = 1
        BY <2>1, <3>1, <3>2, DoingStates DEF PointInv
      <4>2. Computing'
        BY <2>1, <3>1, <3>2
      <4>3. QED
        BY <3>1, <4>1, <4>2 DEF Computing, Lifecycle!LNext, Lifecycle!Compute
    <3>3. CASE op[t] # "Realize"
      <4>1. Computing' = Computing
        BY <2>1, <3>1, <3>3
      <4>2. QED
        BY <3>1, <4>1, <1>0
    <3>4. QED
      BY <3>2, <3>3
  <2>6. CASE HookReturns(t) \/ HookRefuses(t)
    <3>1. /\ at[t] = "hook" /\ at'[t] = "leave" /\ op' = op /\ m_State' = m_State
          /\ m_Computing' = m_Computing
      BY <2>1, <2>6 DEF HookReturns, HookRefuses, Moves, procVars, SeqInv, TypeOK, PointInv
    <3>2. ~Computing'
      BY <2>1, <3>1
    <3>3. QED
      BY <3>1, <3>2 DEF Computing, Lifecycle!LNext, Lifecycle!Computed
  <2>7. CASE Leave(t)
    <3>1. /\ at[t] = "leave" /\ at'[t] = "nameFinished" /\ op' = op
          /\ m_State' = Finished[op[t]] /\ m_Computing' = m_Computing
          /\ Computing = FALSE /\ Computing' = FALSE
      BY <2>1, <2>7 DEF Leave, Moves, SeqInv, TypeOK
    <3>2. m_State = Doing[op[t]] /\ m_Computing = IF op[t] = "Realize" THEN 1 ELSE 0
      BY <2>1, <3>1 DEF PointInv
    <3>3. CASE op[t] = "Initialize"
      BY <3>1, <3>2, <3>3, DoingStates, FinishedStates
      DEF Computing, Lifecycle!LNext, Lifecycle!Initialise, Lifecycle!Still
    <3>4. CASE op[t] = "Start"
      BY <3>1, <3>2, <3>4, DoingStates, FinishedStates
      DEF Computing, Lifecycle!LNext, Lifecycle!Start, Lifecycle!Still
    <3>5. CASE op[t] = "CleanUp"
      BY <3>1, <3>2, <3>5, DoingStates, FinishedStates
      DEF Computing, Lifecycle!LNext, Lifecycle!CleanUp, Lifecycle!Still
    <3>6. CASE op[t] \in {"Stop", "Realize"}
      <4>1. MappedPhase' = MappedPhase
        BY <3>1, <3>2, <3>6, DoingStates, FinishedStates DEF MappedPhase
      <4>2. QED
        BY <3>1, <4>1, <1>1
    <3>7. QED
      BY <2>1, <3>3, <3>4, <3>5, <3>6 DEF Ops
  <2>8. CASE StoreFinished(t)
    <3>1. m_State' = m_State /\ m_Computing' = m_Computing /\ Computing = FALSE /\ Computing' = FALSE
      BY <2>1, <2>8 DEF StoreFinished, AfterFinished, Moves, SeqInv, TypeOK
    <3>2. QED
      BY <3>1, <1>0
  <2>9. CASE RaiseComputing(t)
    <3>1. /\ at[t] = "raise" /\ m_State' = m_State /\ m_Computing' = 1
          /\ Computing = FALSE /\ Computing' = FALSE
      BY <2>1, <2>9 DEF RaiseComputing, Moves, SeqInv, TypeOK
    <3>2. m_State = "START_PROCESS_FINISHED"
      BY <2>1, <3>1, FinishedStates DEF PointInv, SeqInv, ControlInv
    <3>3. QED
      BY <3>1, <3>2 DEF Computing, Lifecycle!LNext, Lifecycle!RaiseStatus
  <2>10. QED
    BY <1>3, <2>2, <2>3, <2>4, <2>5, <2>6, <2>7, <2>8, <2>9 DEF Step
<1>4. CASE UNCHANGED vars
  BY <1>4 DEF vars, Lifecycle!lvars, InHook
<1>5. QED
  BY <1>2, <1>3, <1>4 DEF Next

(* When the calls come one at a time the process is the machine that       *)
(* ProcessLifecycle promises, whatever the hooks answer.                   *)
THEOREM SequentialCallsImplementLifecycle ==
  ASSUME OneThread
  PROVE  Spec => ImplementsLifecycle
<1>1. SeqInv /\ [Next]_vars => SeqInv' /\ [Lifecycle!LNext]_(Lifecycle!lvars)
  BY SeqStep, LifecycleStep
<1>2. QED
  BY SeqInit, LifecycleInit, <1>1, PTL DEF Spec, ImplementsLifecycle, Lifecycle!LSpec

=============================================================================
