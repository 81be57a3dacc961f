---------------------------- MODULE MotionLimits ----------------------------
(***************************************************************************)
(* The limits of the visual servoing: which motion of the object           *)
(* TestObjectMotion accepts, and how VelocitySaturation keeps the velocity *)
(* in the limits of VEL_MAX.  A thread of the ORB sets the parameters one  *)
(* number at a time while the loop is in a frame of the law, and neither   *)
(* takes a lock.  Speeds, angles and heights are integers in one unit, a   *)
(* factor is a fraction <<numerator, denominator>>.  That a refused motion *)
(* stops the robot is in ControlLaw.                                       *)
(***************************************************************************)
EXTENDS Integers, Sequences

CONSTANTS
  Numbers,      \* the values of a parameter: sequences of numbers, ":" between
  Heights,      \* the heights of the object over the ground
  Motions,      \* motions of the object, <<height, Rx, Ry>>
  Speeds,       \* velocities before their saturation, <<Vx, Vy, Rz>>
  MaxCalls      \* bound: calls of the ORB's thread

ASSUME LimitsAssumption ==
  /\ Numbers \subseteq Seq(Nat) \ {<<>>}
  /\ \A n \in Numbers : \A k \in DOMAIN n : n[k] % 20 = 0
  /\ Heights \subseteq Int /\ MaxCalls \in Nat
  /\ Motions \union Speeds \subseteq Int \X Int \X Int

VARIABLES
  setting,          \* the members of the law that hold its limits
  todo, calls,      \* the assignments the call in progress still makes
  where,            \* where the frame is
  tested,           \* the test of TestObjectMotion it chose
  motion, raw,      \* the motion and the velocity of the frame
  axis, Vinf, Vsup, fac,    \* locals of VelocitySaturation
  seen              \* history: the settings since the frame began

limitVars == <<setting, todo, calls, where, tested, motion, raw, axis, Vinf, Vsup, fac, seen>>
limitFrame == <<where, tested, motion, raw, axis, Vinf, Vsup, fac>>

Abs(n) == IF n < 0 THEN -n ELSE n
Axes == <<"Vx", "Vy", "Rz">>

-----------------------------------------------------------------------------
(* The calls of the ORB's thread.                                          *)

(* A value is cut at each ":"; the last number is never taken away, and    *)
(* what is missing is read from it.                                        *)
Field(numbers, k) == numbers[IF k <= Len(numbers) THEN k ELSE Len(numbers)]

(* SetMotionTest sets the test before the limits it goes with.             *)
SetMotionTest(test, limits) ==
  <<<<"m_MotionTested", test>>>> \o
    CASE test = "FREE" -> <<>>
      [] test = "HEIGHT_LIMITED" -> <<<<"m_ModelHeightLimit", Field(limits, 1)>>>>
      [] test \in {"ON_GROUND", "PLAN_MOTION"} ->
           <<<<"m_ModelHeightLimit", Field(limits, 1)>>, <<"m_RxLimit", Field(limits, 2)>>,
             <<"m_RyLimit", Field(limits, 3)>>>>

SetVelmax(limits) == [k \in 1 .. 3 |-> <<Axes[k], Field(limits, k)>>]

(* The height the object shall have at the target, from the head's         *)
(* position.                                                               *)
SetInitialHeight(height) == <<<<"m_IninitHeight", height>>>>

SetLimits(assignments) ==
  /\ todo = <<>> /\ calls < MaxCalls
  /\ todo' = assignments
  /\ calls' = calls + 1
  /\ UNCHANGED <<setting, limitFrame, seen>>

Assign ==
  /\ todo # <<>>
  /\ setting' = [setting EXCEPT ![Head(todo)[1]] = Head(todo)[2]]
  /\ todo' = Tail(todo)
  /\ seen' = IF where = "idle" THEN {} ELSE seen \cup {setting'}
  /\ UNCHANGED <<calls, limitFrame>>

-----------------------------------------------------------------------------
(* The frame of the law.                                                   *)

FrameGoto(from, to) == where = from /\ where' = to
LawFrameBegins ==
  /\ FrameGoto("idle", "free")
  /\ motion' \in Motions /\ raw' \in Speeds
  /\ seen' = {setting}
  /\ UNCHANGED <<setting, todo, calls, tested, axis, Vinf, Vsup, fac>>

(* The test is read anew for each kind; a motion no kind tests is refused. *)
Refused == "idle"
TestObjectMotion ==
  /\ \/ FrameGoto("free", IF setting.m_MotionTested = "FREE" THEN "copy" ELSE "height limited")
     \/ FrameGoto("height limited",
             IF setting.m_MotionTested = "HEIGHT_LIMITED" THEN "height" ELSE "on ground")
     \/ FrameGoto("on ground", IF setting.m_MotionTested = "ON_GROUND" THEN "height" ELSE Refused)
  /\ tested' = CASE where = "free" -> "FREE"
                 [] where = "height limited" -> "HEIGHT_LIMITED"
                 [] where = "on ground" -> "ON_GROUND"
  /\ UNCHANGED <<setting, todo, calls, motion, raw, axis, Vinf, Vsup, fac, seen>>

heightInLimit ==
  /\ FrameGoto("height",
          IF Abs(motion[1] - setting.m_IninitHeight) >= setting.m_ModelHeightLimit THEN Refused
          ELSE IF tested = "ON_GROUND" THEN "Rx" ELSE "copy")
  /\ UNCHANGED <<setting, todo, calls, tested, motion, raw, axis, Vinf, Vsup, fac, seen>>

objectOnGround ==
  /\ \/ FrameGoto("Rx", IF Abs(motion[2]) < setting.m_RxLimit THEN "Ry" ELSE Refused)
     \/ FrameGoto("Ry", IF Abs(motion[3]) < setting.m_RyLimit THEN "copy" ELSE Refused)
  /\ UNCHANGED <<setting, todo, calls, tested, motion, raw, axis, Vinf, Vsup, fac, seen>>

dv(k) == setting[Axes[k]] \div 20
CopyLimits ==
  /\ FrameGoto("copy", "bound")
  /\ axis' = 1 /\ fac' = <<1, 1>>
  /\ Vinf' = [k \in 1 .. 3 |-> setting[Axes[k]] - dv(k)]
  /\ Vsup' = [k \in 1 .. 3 |-> setting[Axes[k]] + dv(k)]
  /\ UNCHANGED <<setting, todo, calls, tested, motion, raw, seen>>

(* The code's min: of a factor that is not a number, <<0, 0>>, and another *)
(* it is the second one, since no comparison with it holds.                *)
Lesser(f, g) == IF f[1] * g[2] < g[1] * f[2] THEN f ELSE g

(* The least unit stands for what the code adds to the speed it divides by.*)
AxisFactor(k) == <<setting[Axes[k]], IF raw[k] = 0 THEN 1 ELSE Abs(raw[k])>>

BoundLast ==
  /\ FrameGoto("bound", "smooth")
  /\ fac' = IF AxisFactor(axis)[1] < AxisFactor(axis)[2] THEN AxisFactor(axis) ELSE fac
  /\ UNCHANGED <<setting, todo, calls, tested, motion, raw, axis, Vinf, Vsup, seen>>

Bound ==
  /\ FrameGoto("bound", "smooth")
  /\ fac' = Lesser(fac, AxisFactor(axis))
  /\ UNCHANGED <<setting, todo, calls, tested, motion, raw, axis, Vinf, Vsup, seen>>

(* Near the limit the factor goes from that of Vinf to that of the limit;  *)
(* of no speed and no limit it is not a number.                            *)
Smoothed(k) ==
  LET speed == Abs(raw[k]) IN
  <<(speed - Vinf[k]) * setting[Axes[k]] + (Vsup[k] - speed) * Vinf[k],
    (Vsup[k] - Vinf[k]) * speed>>

(* A factor that is not a number takes the place of what was found so far, *)
(* and the next axis takes its place.                                      *)
Smooth ==
  /\ FrameGoto("smooth", IF axis < 3 THEN "bound" ELSE "write")
  /\ fac' = IF Abs(raw[axis]) \in Vinf[axis] .. Vsup[axis]
            THEN Lesser(fac, Smoothed(axis)) ELSE fac
  /\ axis' = IF axis < 3 THEN axis + 1 ELSE axis
  /\ UNCHANGED <<setting, todo, calls, tested, motion, raw, Vinf, Vsup, seen>>

(* The velocity of each axis is raw times the one factor.                  *)
Write ==
  /\ FrameGoto("write", "idle")
  /\ motion' = <<0, 0, 0>> /\ raw' = <<0, 0, 0>>
  /\ axis' = 1 /\ Vinf' = <<0, 0, 0>> /\ Vsup' = <<0, 0, 0>> /\ fac' = <<1, 1>>
  /\ tested' = "FREE"
  /\ UNCHANGED <<setting, todo, calls, seen>>

LawFrame ==
  \/ LawFrameBegins \/ TestObjectMotion \/ heightInLimit \/ objectOnGround
  \/ CopyLimits \/ Bound \/ Smooth \/ Write

-----------------------------------------------------------------------------
(* init: any motion, 0.1 for each axis; the initial height is not set      *)
(* before SetcdMo.                                                         *)
LimitsInit ==
  /\ \E height \in Heights :
       setting = [m_MotionTested |-> "FREE", m_ModelHeightLimit |-> 180, m_RxLimit |-> 0,
                  m_RyLimit |-> 0, m_IninitHeight |-> height, Vx |-> 20, Vy |-> 20, Rz |-> 20]
  /\ todo = <<>> /\ calls = 0
  /\ where = "idle" /\ tested = "FREE" /\ motion = <<0, 0, 0>> /\ raw = <<0, 0, 0>>
  /\ axis = 1 /\ Vinf = <<0, 0, 0>> /\ Vsup = <<0, 0, 0>> /\ fac = <<1, 1>>
  /\ seen = {}

LimitsNext ==
  \/ \E numbers \in Numbers : SetLimits(SetVelmax(numbers))
  \/ \E test \in {"FREE", "HEIGHT_LIMITED", "ON_GROUND", "PLAN_MOTION"}, numbers \in Numbers :
       SetLimits(SetMotionTest(test, numbers))
  \/ \E height \in Heights : SetLimits(SetInitialHeight(height))
  \/ Assign
  \/ LawFrame

LimitsSpec == LimitsInit /\ [][LimitsNext]_limitVars

-----------------------------------------------------------------------------
(* Properties.                                                             *)

WithinLimit(k) == \E s \in seen : Abs(raw[k]) * fac[1] <= s[Axes[k]] * fac[2]

(* An axis that is at rest and may not move: its factor near the limit is  *)
(* not a number.                                                           *)
AtRestAtZero(k) == raw[k] = 0 /\ Vsup[k] = 0

(* However a thread changes the parameters in the middle of a frame, the   *)
(* robot is given no speed on an axis over every limit this axis had since *)
(* the frame began, in the direction the law computed, where no axis from  *)
(* this one on is at rest with a limit of zero; and only for a motion of   *)
(* the object that tests and limits in force since then accept.            *)
SpeedWithinLimits ==
  where = "write" =>
    /\ \A k \in 1 .. 3 : (\A j \in k .. 3 : ~AtRestAtZero(j)) => WithinLimit(k)
    /\ ~AtRestAtZero(3) => fac[1] >= 0 /\ fac[2] > 0
    /\ \/ \E s \in seen : s.m_MotionTested = "FREE"
       \/ /\ \E s \in seen : s.m_MotionTested \in {"HEIGHT_LIMITED", "ON_GROUND"}
          /\ \E s \in seen : Abs(motion[1] - s.m_IninitHeight) < s.m_ModelHeightLimit
          /\ (\A s \in seen : s.m_MotionTested # "HEIGHT_LIMITED") =>
               /\ \E s \in seen : Abs(motion[2]) < s.m_RxLimit
               /\ \E s \in seen : Abs(motion[3]) < s.m_RyLimit
=============================================================================
