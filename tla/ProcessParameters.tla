-------------------------- MODULE ProcessParameters --------------------------
(***************************************************************************)
(* The parameters of a vision process: the list every process keeps of     *)
(* their names and values (HRP2VisionBasicProcess::SetParameter), and what *)
(* the model tracker does with one, a setting of its moving edges          *)
(* (HRP2nmbtTrackingProcess::pSetParameter).  A setting is applied at once *)
(* while the tracker is stopped and otherwise left to the end of its next  *)
(* frame.  Threads of the ORB set parameters, the loop runs the frames,    *)
(* and no lock protects the list, m_me or the flag.                        *)
(*                                                                         *)
(* The loop sets INTERNAL_STATE too, which is first in the list since the  *)
(* process was constructed: it is overwritten and never inserted, and its  *)
(* values are not told apart.                                              *)
(***************************************************************************)
EXTENDS Integers, Sequences, SequencesExt, FiniteSets

CONSTANTS
  Setters,        \* the threads of the ORB that set parameters
  EdgeSettings,   \* VPME_RANGE, VPME_THRESHOLD, ...
  Settings,       \* the values they are given
  Garbage         \* what m_ParametersSize, not initialised, may hold at first

ASSUME ParameterAssumption ==
  /\ IsFiniteSet(Setters) /\ Garbage \subseteq Int
  /\ "INTERNAL_STATE" \notin EdgeSettings /\ "default" \notin Settings

VARIABLES
  m_VectorOfParameters, m_VectorOfValuesForParameters,
  m_ParametersSize,
  m_me,            \* the tracker process's moving edge settings
  edgesInUse,      \* and those the tracker works with
  m_me_modified,
  trackerRuns,     \* m_Computing
  setter,          \* the call of each thread: where it is, the name and the value
  trackerAt,       \* where the loop is in the tracker's frame
  counted,         \* history: m_ParametersSize started at 0 or more
  lastValue,       \* history: the value each setting was given last
  insertRaced,     \* history: a call overlapped one that inserts
  applyRaced       \* history: a setting was made between the two steps of a frame
                   \* that apply the settings

list == <<m_VectorOfParameters, m_VectorOfValuesForParameters, m_ParametersSize>>
edges == <<m_me, edgesInUse, m_me_modified>>
setHistories == <<counted, lastValue, insertRaced, applyRaced>>
parameterVars == <<list, edges, trackerRuns, setter, trackerAt, setHistories>>

NoCall == [at |-> "idle"]
Inserting == {"insert value", "count"}
SetterAt(c, at) == setter[c].at = at
SetterGoes(c, at) == setter' = [setter EXCEPT ![c].at = at]
Positions(name) == {i \in DOMAIN m_VectorOfParameters : m_VectorOfParameters[i] = name}

-----------------------------------------------------------------------------
(* SetParameter of the basic process.                                      *)

(* The list is searched; a name that is found has its value overwritten,   *)
(* wherever it occurs, a new one is inserted.                              *)
SetParameter(c, name, value) ==
  /\ SetterAt(c, "idle")
  /\ LET found == Positions(name) IN
     /\ m_VectorOfParameters' =
          IF found = {} THEN Append(m_VectorOfParameters, name) ELSE m_VectorOfParameters
     /\ m_VectorOfValuesForParameters' =
          [i \in DOMAIN m_VectorOfValuesForParameters |->
             IF i \in found THEN value ELSE m_VectorOfValuesForParameters[i]]
     /\ setter' = [setter EXCEPT ![c] = [at |-> IF found = {} THEN "insert value" ELSE "set",
                                         name |-> name, value |-> value]]
     /\ insertRaced' = \/ insertRaced
                       \/ \E d \in Setters \ {c} : setter[d].at \in Inserting
                       \/ found = {} /\ \E d \in Setters \ {c} : setter[d].at # "idle"
  /\ lastValue' = [lastValue EXCEPT ![name] = value]
  /\ UNCHANGED <<m_ParametersSize, edges, trackerRuns, trackerAt, counted, applyRaced>>

InsertValue(c) ==
  /\ SetterAt(c, "insert value") /\ SetterGoes(c, "count")
  /\ m_VectorOfValuesForParameters' = Append(m_VectorOfValuesForParameters, setter[c].value)
  /\ UNCHANGED <<m_VectorOfParameters, m_ParametersSize, edges, trackerRuns, trackerAt,
                 setHistories>>

CountParameter(c) ==
  /\ SetterAt(c, "count") /\ SetterGoes(c, "set")
  /\ m_ParametersSize' = m_ParametersSize + 1
  /\ UNCHANGED <<m_VectorOfParameters, m_VectorOfValuesForParameters, edges, trackerRuns,
                 trackerAt, setHistories>>

-----------------------------------------------------------------------------
(* pSetParameter of the model tracker.                                     *)

(* m_me gets the setting, and m_Computing is tested.                       *)
SetEdge(c) ==
  /\ SetterAt(c, "set")
  /\ m_me' = [m_me EXCEPT ![setter[c].name] = setter[c].value]
  /\ SetterGoes(c, IF trackerRuns THEN "postpone" ELSE "apply")
  /\ applyRaced' = (applyRaced \/ trackerAt = "applied")
  /\ UNCHANGED <<list, edgesInUse, m_me_modified, trackerRuns, trackerAt, counted, lastValue,
                 insertRaced>>

ApplyNow(c) ==
  /\ SetterAt(c, "apply") /\ setter' = [setter EXCEPT ![c] = NoCall]
  /\ edgesInUse' = m_me
  /\ UNCHANGED <<list, m_me, m_me_modified, trackerRuns, trackerAt, setHistories>>

(* The frame that clears the flag after this has applied another setting.  *)
Postpone(c) ==
  /\ SetterAt(c, "postpone") /\ setter' = [setter EXCEPT ![c] = NoCall]
  /\ m_me_modified' = TRUE
  /\ applyRaced' = (applyRaced \/ trackerAt = "applied")
  /\ UNCHANGED <<list, m_me, edgesInUse, trackerRuns, trackerAt, counted, lastValue, insertRaced>>

-----------------------------------------------------------------------------
(* The tracker's frame, and its start and stop.                            *)

TrackFrame ==
  /\ trackerAt = "idle" /\ trackerRuns
  /\ trackerAt' = "tracking"
  /\ UNCHANGED <<list, edges, trackerRuns, setter, setHistories>>

(* The image is tracked; a setting that was postponed is applied ...       *)
ApplyEdges ==
  /\ trackerAt = "tracking"
  /\ edgesInUse' = IF m_me_modified THEN m_me ELSE edgesInUse
  /\ trackerAt' = IF m_me_modified THEN "applied" ELSE "idle"
  /\ UNCHANGED <<list, m_me, m_me_modified, trackerRuns, setter, setHistories>>

(* ... and then the flag cleared.                                          *)
ClearModified ==
  /\ trackerAt = "applied"
  /\ m_me_modified' = FALSE
  /\ trackerAt' = "idle"
  /\ UNCHANGED <<list, m_me, edgesInUse, trackerRuns, setter, setHistories>>

StartOrStopTracker ==
  /\ trackerRuns' = ~trackerRuns
  /\ UNCHANGED <<list, edges, setter, trackerAt, setHistories>>

-----------------------------------------------------------------------------
(* The names of the list are searched up to m_ParametersSize: "none" is -1.*)
GetValueOfParameter(name) ==
  LET found == {i \in Positions(name) : i <= m_ParametersSize} IN
  IF found = {} THEN "none"
  ELSE m_VectorOfValuesForParameters[CHOOSE i \in found : \A j \in found : i <= j]

(* GetProcessParameters replies with as many values as there are names.    *)
GetProcessParameters ==
  [i \in DOMAIN m_VectorOfParameters |->
     IF i \in DOMAIN m_VectorOfValuesForParameters
     THEN <<m_VectorOfParameters[i], m_VectorOfValuesForParameters[i]>> ELSE <<"past the end">>]

ParametersInit ==
  /\ \E first \in Garbage : m_ParametersSize = first + 1 /\ counted = (first >= 0)
  /\ m_VectorOfParameters = <<"INTERNAL_STATE">>
  /\ m_VectorOfValuesForParameters = <<"default">>
  /\ m_me = [name \in EdgeSettings |-> "default"] /\ edgesInUse = m_me
  /\ m_me_modified = FALSE /\ trackerRuns = FALSE
  /\ setter = [c \in Setters |-> NoCall] /\ trackerAt = "idle"
  /\ lastValue = m_me /\ insertRaced = FALSE /\ applyRaced = FALSE

ParametersNext ==
  \/ \E c \in Setters :
       \/ \E name \in EdgeSettings, value \in Settings : SetParameter(c, name, value)
       \/ InsertValue(c) \/ CountParameter(c) \/ SetEdge(c) \/ ApplyNow(c) \/ Postpone(c)
  \/ TrackFrame \/ ApplyEdges \/ ClearModified \/ StartOrStopTracker

ParametersSpec == ParametersInit /\ [][ParametersNext]_parameterVars

-----------------------------------------------------------------------------
(* Properties.                                                             *)

NoCalls == setter = [c \in Setters |-> NoCall]

(* A parameter that was set is found, by its name and in the list of all,  *)
(* with the value it was given last, and the two lists pair up, unless two *)
(* calls overlapped of which one inserts a name.  Found by name it is only *)
(* if m_ParametersSize, which nothing initialises, was not negative.       *)
ParametersFound ==
  NoCalls /\ ~insertRaced =>
    \A name \in {n \in EdgeSettings : lastValue[n] # "default"} :
      /\ <<name, lastValue[name]>> \in ToSet(GetProcessParameters)
      /\ counted => GetValueOfParameter(name) = lastValue[name]

(* "Otherwise it is left to the time where the tracker can makes the       *)
(* parameter changes": a setting the tracker does not work with yet is one *)
(* it still knows to be new.  It is lost for good if it was made while a   *)
(* frame had applied the settings and not cleared the flag.                *)
SettingsReachTracker ==
  NoCalls /\ trackerAt # "applied" /\ ~applyRaced =>
    edgesInUse = m_me \/ m_me_modified

(* Both: what a call sets is found again and takes effect.                 *)
SettingsKept == ParametersFound /\ SettingsReachTracker
=============================================================================
