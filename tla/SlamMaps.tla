------------------------------ MODULE SlamMaps ------------------------------
(***************************************************************************)
(* The map requests of HRP2BtlSlamProcess: clients ask for the engine's    *)
(* map to be saved at once or before the process stops, and a request that *)
(* turns out to be wrong at its end is taken back.  Requests and the stop  *)
(* run in threads of the ORB and share two members without a lock.         *)
(***************************************************************************)
EXTENDS FiniteSets

CONSTANTS
  Askers,     \* threads of the ORB
  Maps,       \* names of files for maps
  DefaultMap, \* BTL_SLAM_DEFAULT_MAP_LOCATION
  NoMap       \* no file

ASSUME MapsAssumption == NoMap \notin Maps \cup {DefaultMap}

VARIABLES
  m_saveMapBeforeStop, m_saveMapLocation,
  asking,     \* a request: the next step, what it says, and the values it found
  slamRuns,   \* whether the process is started
  stopping,   \* the next step of pStopProcess, or "no"
  saved,      \* history: the file of the stop's map
  lastAsked,  \* history: the file of the last request that was accepted
  planned,    \* history: a save before the stop was accepted since the last one
  crowded,    \* history: the operation under way has met another one
  unsure      \* history: what a meeting may have left otherwise than was asked

mapVars == <<m_saveMapBeforeStop, m_saveMapLocation, asking, slamRuns, stopping, saved,
             lastAsked, planned, crowded, unsure>>
members == <<m_saveMapBeforeStop, m_saveMapLocation>>
accepted == <<lastAsked, planned>>
meetings == <<crowded, unsure>>

Steps == {"none", "note wish", "note file", "save", "end", "take back wish"}
Options == {"save", "saveBeforeStop"}
Requests == [step : Steps, option : Options, file : Maps \cup {NoMap}, more : BOOLEAN,
             oldMapLocation : Maps \cup {DefaultMap}, oldSaveMapBeforeStop : BOOLEAN,
             into : Maps \cup {DefaultMap, NoMap}]

NoRequest == [step |-> "none", option |-> "save", file |-> NoMap, more |-> FALSE,
              oldMapLocation |-> DefaultMap, oldSaveMapBeforeStop |-> FALSE, into |-> NoMap]

Asks(t) == asking[t].step # "none"
Stops == stopping # "no"
Busy == Stops \/ \E t \in Askers : Asks(t)
At(t, step) == asking[t].step = step
EndsCall(t) == asking' = [asking EXCEPT ![t] = NoRequest]
Then(t, step) == asking' = [asking EXCEPT ![t].step = step]

(* An operation begins, maybe while another is under way.                  *)
Meet ==
  /\ crowded' = Busy
  /\ unsure' = IF Busy THEN {"wish", "file"} ELSE unsure
(* One that met no other ends and has settled something.                   *)
Settle(what) ==
  /\ unsure' = IF crowded THEN unsure ELSE unsure \ what
  /\ UNCHANGED crowded

-----------------------------------------------------------------------------
(* setMapRequest: the option is followed by a blank, by the name of a file *)
(* or by a file and more.                                                  *)

ReceiveRequest(t, option, file, more) ==
  /\ ~Asks(t)
  /\ asking' = [asking EXCEPT ![t] =
       [step |-> IF option = "saveBeforeStop" THEN "note wish" ELSE "note file",
        option |-> option, file |-> file, more |-> more,
        oldMapLocation |-> m_saveMapLocation, oldSaveMapBeforeStop |-> m_saveMapBeforeStop,
        into |-> NoMap]]
  /\ Meet
  /\ UNCHANGED <<members, slamRuns, stopping, saved, accepted>>

NoteWish(t) ==
  /\ At(t, "note wish") /\ Then(t, "note file")
  /\ m_saveMapBeforeStop' = TRUE
  /\ UNCHANGED <<m_saveMapLocation, slamRuns, stopping, saved, accepted, meetings>>

(* After a blank the end is met before a name: the file noted last stands. *)
NoteFile(t) ==
  /\ At(t, "note file") /\ Then(t, IF asking[t].option = "save" THEN "save" ELSE "end")
  /\ m_saveMapLocation' = IF asking[t].file = NoMap THEN m_saveMapLocation ELSE asking[t].file
  /\ UNCHANGED <<m_saveMapBeforeStop, slamRuns, stopping, saved, accepted, meetings>>

SaveNow(t) ==
  /\ At(t, "save")
  /\ asking' = [asking EXCEPT ![t].step = "end", ![t].into = m_saveMapLocation]
  /\ UNCHANGED <<members, slamRuns, stopping, saved, accepted, meetings>>

(* What follows the file is found out when the request has been carried    *)
(* out: what was noted of it is taken back.                                *)
TakeBackFile(t) ==
  /\ At(t, "end") /\ asking[t].more /\ Then(t, "take back wish")
  /\ m_saveMapLocation' = asking[t].oldMapLocation
  /\ UNCHANGED <<m_saveMapBeforeStop, slamRuns, stopping, saved, accepted, meetings>>

KeepWish(t) ==
  /\ At(t, "take back wish") /\ EndsCall(t)
  /\ UNCHANGED <<members, slamRuns, stopping, saved, accepted, meetings>>
TakeBackWish(t) ==
  /\ At(t, "take back wish") /\ EndsCall(t)
  /\ m_saveMapBeforeStop' = asking[t].oldSaveMapBeforeStop
  /\ UNCHANGED <<m_saveMapLocation, slamRuns, stopping, saved, accepted, meetings>>

AcceptRequest(t) ==
  LET request == asking[t]
      wish == request.option = "saveBeforeStop"
      named == request.file # NoMap
  IN  /\ At(t, "end") /\ ~request.more /\ EndsCall(t)
      /\ lastAsked' = IF named THEN request.file ELSE lastAsked
      /\ planned' = (planned \/ wish)
      /\ Settle((IF named THEN {"file"} ELSE {}) \cup (IF wish THEN {"wish"} ELSE {}))
      /\ UNCHANGED <<members, slamRuns, stopping, saved>>

-----------------------------------------------------------------------------
(* StartProcess and pStopProcess: the wish is read, the map saved, the     *)
(* wish cleared.                                                           *)

StartWithMaps ==
  /\ ~slamRuns /\ slamRuns' = TRUE
  /\ UNCHANGED <<members, asking, stopping, saved, accepted, meetings>>

BeginStopOfSlam ==
  /\ slamRuns /\ ~Stops
  /\ stopping' = IF m_saveMapBeforeStop THEN "save" ELSE "exit"
  /\ saved' = NoMap
  /\ Meet
  /\ UNCHANGED <<members, asking, slamRuns, accepted>>

SaveBeforeStop ==
  /\ stopping = "save" /\ stopping' = "clear"
  /\ saved' = m_saveMapLocation
  /\ UNCHANGED <<members, asking, slamRuns, accepted, meetings>>

ClearWish ==
  /\ stopping = "clear" /\ stopping' = "exit"
  /\ m_saveMapBeforeStop' = FALSE
  /\ UNCHANGED <<m_saveMapLocation, asking, slamRuns, saved, accepted, meetings>>

EndStopOfSlam ==
  /\ stopping = "exit" /\ stopping' = "no"
  /\ slamRuns' = FALSE
  /\ planned' = FALSE
  /\ Settle({"wish"})
  /\ UNCHANGED <<members, asking, saved, lastAsked>>

-----------------------------------------------------------------------------
MapsInit ==
  /\ m_saveMapBeforeStop = FALSE /\ m_saveMapLocation = DefaultMap
  /\ asking = [t \in Askers |-> NoRequest]
  /\ slamRuns = FALSE /\ stopping = "no" /\ saved = NoMap
  /\ lastAsked = DefaultMap /\ planned = FALSE /\ crowded = FALSE /\ unsure = {}

RequestStep(t) ==
  \/ NoteWish(t) \/ NoteFile(t) \/ SaveNow(t)
  \/ TakeBackFile(t) \/ TakeBackWish(t) \/ AcceptRequest(t)

MapsNext ==
  \/ \E t \in Askers :
       \/ \E option \in Options :
            \/ ReceiveRequest(t, option, NoMap, FALSE)
            \/ \E file \in Maps, more \in BOOLEAN : ReceiveRequest(t, option, file, more)
       \/ RequestStep(t)
  \/ StartWithMaps \/ BeginStopOfSlam \/ SaveBeforeStop \/ ClearWish \/ EndStopOfSlam

MapsSpec == MapsInit /\ [][MapsNext]_mapVars

-----------------------------------------------------------------------------
(* Properties.                                                             *)

(* Between operations the process is to save its map before it stops       *)
(* exactly if a request for it was accepted since the last stop, and to    *)
(* the file of the request accepted last; and so a stop does.  A request   *)
(* to save at once does it in its own file.  One that is refused has no    *)
(* effect on this.  An operation that meets another may leave all this     *)
(* otherwise, until one that meets none settles it again.                  *)
MapSavedAsAsked ==
  /\ ~Busy => /\ "wish" \notin unsure => m_saveMapBeforeStop = planned
              /\ "file" \notin unsure => m_saveMapLocation = lastAsked
  /\ stopping = "exit" /\ ~crowded /\ unsure = {} => saved = IF planned THEN lastAsked ELSE NoMap
  /\ \A t \in Askers :
       At(t, "end") /\ ~crowded /\ asking[t].option = "save" /\ asking[t].file # NoMap =>
         asking[t].into = asking[t].file
=============================================================================
