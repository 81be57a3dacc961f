----------------------------- MODULE SlamSensors -----------------------------
(***************************************************************************)
(* The measurements that HRP2SingleCameraSLAMProcess gives to the filter   *)
(* of MonoSLAM besides the image: the plugin GGAA of the robot keeps its   *)
(* latest samples of the gyrometer, the waist's velocity and the head's    *)
(* height and orientation, and a step uses those of the sample nearest to  *)
(* an instant that two corrections set off from that of its image.  Four   *)
(* flags, which a client may set, say which of them the filter uses.       *)
(*                                                                         *)
(* A measurement is kept as where it comes from.  Instants are on the      *)
(* server's clock, Offset behind the plugin's, and a call to the plugin    *)
(* takes an even number of them.                                           *)
(***************************************************************************)
EXTENDS Integers

CONSTANTS
  Samples,      \* the samples the plugin keeps, 60 in the code
  Instants,     \* when a sample or an image may be taken
  Halves,       \* half the durations a call to the plugin may take
  Second,       \* a sample further from the instant looked for is not used
  FrameLag,     \* how long before the step its image is taken to be from, 33 ms
  SensorDelay,  \* "The 60 ms delay" of the samples
  Offset

ASSUME SensorAssumption ==
  /\ Samples \in Nat \ {0} /\ {Second, FrameLag, SensorDelay, Offset} \subseteq Nat
  /\ Instants \subseteq Nat /\ Halves \subseteq Nat

Flags == {"Gyro", "WaistVelocity", "CameraHeight", "Orientation"}

VARIABLES
  m_cxt,          \* whether there is a naming context to look the plugin up in
  connected,      \* whether m_GyroAndAccelerometer is not nil
  flag,           \* m_GyroFlag, m_WaistVelocityFlag, ...
  raised,         \* history: the flags a client has raised since they were cleared
  measurement,    \* of the last step: where each comes from
  reading         \* history: of the last step that read a sample

slamVars == <<m_cxt, connected, flag, raised, measurement, reading>>

NoReading == [chosen |-> 0]
All(from) == [f \in Flags |-> from]

-----------------------------------------------------------------------------
(* GetCorbaConnectionToGGAAplugin, and the clearing of two of the flags if *)
(* there is no plugin.                                                     *)

FlagsKept(found) ==
  /\ m_cxt
  /\ connected' = found
  /\ UNCHANGED <<m_cxt, flag, raised, measurement, reading>>

ConnectToGGAA(found) ==
  /\ m_cxt
  /\ connected' = found
  /\ flag' = IF found THEN flag
             ELSE [flag EXCEPT !["Gyro"] = FALSE, !["WaistVelocity"] = FALSE]
  /\ raised' = IF found THEN raised ELSE raised \ {"Gyro", "WaistVelocity"}
  /\ UNCHANGED <<m_cxt, measurement, reading>>

SetFlag(f, value) ==
  /\ flag' = [flag EXCEPT ![f] = value]
  /\ raised' = IF value THEN raised \union {f} ELSE raised \ {f}
  /\ UNCHANGED <<m_cxt, connected, measurement, reading>>

-----------------------------------------------------------------------------
(* GetGyroAcceleroFromTimeStamp.                                           *)

(* How much the plugin's clock is ahead, its stamp taken to be from the    *)
(* middle of the call.                                                     *)
ClockDelay(begin, end, stamp) == stamp - (end - begin) \div 2 - begin

Distance(a, b) == IF a < b THEN b - a ELSE a - b

(* The first of the samples that are nearest, if they are near enough; 0   *)
(* is none.                                                                *)
Nearest(stamps, timeref) ==
  LET timediff(j) == Distance(stamps[j], timeref)
      near == {j \in 1 .. Samples : timediff(j) < Second}
      nearest == {j \in near : \A k \in near : timediff(j) <= timediff(k)}
  IN  IF near = {} THEN 0 ELSE CHOOSE j \in nearest : \A k \in nearest : j <= k

(* The instant the sample is looked for at, of a step that begins at time1.*)
InstantOf(time1) == time1 - FrameLag + SensorDelay

(* The plugin answers with its samples and its clock, at some moment of    *)
(* the call.                                                               *)
ReadSample ==
  \E stamps \in [1 .. Samples -> Instants], time1 \in Instants, half \in Halves :
    \E moment \in 0 .. 2 * half :
      LET delay == ClockDelay(time1, time1 + 2 * half, time1 + moment + Offset)
          onPlugin == [j \in 1 .. Samples |-> stamps[j] + Offset]
          chosen == Nearest(onPlugin, InstantOf(time1) + delay)
      IN  /\ reading' = [chosen |-> chosen, stamps |-> stamps, time1 |-> time1, half |-> half]
          /\ measurement' = All(IF chosen = 0 THEN "zero" ELSE "sample")

(* An exception of the call leaves zeros.                                  *)
ReadFails == reading' = NoReading /\ measurement' = All("zero")

(* A step without the plugin uses vectors that nothing has set.            *)
pRealizeTheProcess ==
  /\ \/ connected /\ (ReadSample \/ ReadFails)
     \/ ~connected /\ reading' = NoReading /\ measurement' = All("unset")
  /\ UNCHANGED <<m_cxt, connected, flag, raised>>

(* The constructor raises the flags and looks for the plugin, once.        *)
SlamInit ==
  /\ m_cxt \in BOOLEAN /\ connected \in BOOLEAN /\ (connected => m_cxt)
  /\ flag = [f \in Flags |-> f \in {"CameraHeight", "Orientation"} \/ connected \/ ~m_cxt]
  /\ raised = {} /\ reading = NoReading /\ measurement = All("none")

SlamNext ==
  \/ pRealizeTheProcess
  \/ \E found \in BOOLEAN : ConnectToGGAA(found)
  \/ \E f \in Flags, value \in BOOLEAN : SetFlag(f, value)

SlamSpec == SlamInit /\ [][SlamNext]_slamVars

-----------------------------------------------------------------------------
(* Properties.                                                             *)

(* The filter does not use a rotation or a velocity that was never read:   *)
(* the loss of the plugin takes the two flags down.  A client may raise    *)
(* them all the same, there may be no naming context, and of the height    *)
(* and the orientation nothing of the kind is done.                        *)
UnsetIsNotUsed ==
  [][ \A f \in {"Gyro", "WaistVelocity"} :
        measurement' # measurement /\ measurement'[f] = "unset" /\ flag[f] => f \in raised \/ ~m_cxt
    ]_slamVars

(* A step's measurements are of the sample nearest to the instant 27 ms    *)
(* after the step took its image (33 ms back, 60 ms on), as near as the    *)
(* duration of the call allows, whatever the plugin's clock says.          *)
NearestSampleUsed ==
  reading.chosen # 0 =>
    LET wanted == InstantOf(reading.time1)
    IN  \A j \in 1 .. Samples :
          Distance(reading.stamps[reading.chosen], wanted)
            <= Distance(reading.stamps[j], wanted) + 2 * reading.half

SlamMeasurements == UnsetIsNotUsed /\ []NearestSampleUsed
=============================================================================
