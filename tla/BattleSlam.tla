----------------------------- MODULE BattleSlam -----------------------------
(***************************************************************************)
(* HRP2BtlSlamProcess (src/BtlSlam/BtlSlamProcess.cpp): the frame loop     *)
(* copies the wide image to memory it shares with the SLAM engine          *)
(* (VSLAM_App, external), while the calls of clients make that memory      *)
(* again, and start and exit the engine.  Nothing deletes the process.     *)
(* What they ask of the engine's map is in SlamMaps.                       *)
(***************************************************************************)
EXTENDS SlamMaps, Naturals, Sequences, SequencesExt

CONSTANTS
  SlamConfigs    \* configurations: sequences of words

(* A word that names the shared memory, "shared:.../server.camera", is     *)
(* <<server, camera>>; "bad" has no such names and "plain" is another word. *)
SlamWords == {w \in UNION {ToSet(c) : c \in SlamConfigs} : w \notin {<<"bad">>, <<"plain">>}}
Servers == {w[1] : w \in SlamWords}

ASSUME SlamAssumption ==
  \A c \in SlamConfigs : c # <<>> /\ \A i \in DOMAIN c : c[i] \in Seq(STRING)

VARIABLES
  m_slamConfig,         \* how many options, and the names of the shared memory
  m_pSharedSegment,     \* the names it was made with, or NoSegment
  objects,              \* the shared memory objects the system has
  m_isAlreadyStarted,
  engine,               \* of VSLAM_App: "off", "ready", "running", "paused"
  slamState,            \* of the base process: "limbo", "running", "stopped"; or "dead"
  pushing,              \* of the frame loop: "idle", "tested", "locked", "lost"
  renamed               \* history: a configuration has renamed memory in use

battleVars == <<m_slamConfig, m_pSharedSegment, objects, m_isAlreadyStarted, engine, slamState,
                pushing, renamed>>

NoSegment == <<>>
Alive == slamState # "dead"

-----------------------------------------------------------------------------
(* The hooks, on what they change: memory and engine.                      *)

SlamMemory == [segment |-> m_pSharedSegment, objects |-> objects, engine |-> engine,
               pushing |-> pushing, ok |-> TRUE]
SetMemory(s) ==
  /\ m_pSharedSegment' = s.segment /\ objects' = s.objects
  /\ engine' = s.engine /\ pushing' = s.pushing

(* A copy under way goes on with the memory and the mutex just deleted.    *)
LosesItsMemory(copy) == IF copy = "locked" THEN "lost" ELSE copy

(* The segment goes, and the object that has the name configured now.      *)
CleanUpSharedMemory(s) ==
  [s EXCEPT !.objects = @ \ {m_slamConfig.server},
            !.pushing = IF s.segment = NoSegment THEN @ ELSE LosesItsMemory(@)]

(* The object made and then removed by its name.                           *)
MakeThenRemove(s, initFails) ==
  IF m_slamConfig.size = 0 THEN [s EXCEPT !.ok = FALSE]
  ELSE [CleanUpSharedMemory(s) EXCEPT !.segment = <<m_slamConfig.server, m_slamConfig.camera>>,
                                      !.engine = IF initFails THEN "off" ELSE "ready",
                                      !.ok = ~initFails]

(* Without a configuration the memory of an earlier one stays.  When the   *)
(* engine's init throws the engine is exited, and the memory stays.        *)
InitializeTheSlam(s, initFails) ==
  IF m_slamConfig.size = 0 THEN [s EXCEPT !.ok = FALSE]
  ELSE LET clean == CleanUpSharedMemory(s)
       IN  [clean EXCEPT !.segment = <<m_slamConfig.server, m_slamConfig.camera>>,
                         !.objects = @ \cup {m_slamConfig.server},
                         !.engine = IF initFails THEN "off" ELSE "ready",
                         !.ok = ~initFails]

-----------------------------------------------------------------------------
(* StartProcess and StopProcess of the base process.                       *)

(* pStartProcess initialises once more what the base process has           *)
(* initialised when it starts from STATE_LIMBO, and the base process takes *)
(* a start that fails for one that does not.                               *)
StartSlam(firstFails, secondFails) ==
  /\ slamState \in {"limbo", "stopped"}
  /\ LET first == IF slamState = "limbo" THEN InitializeTheSlam(SlamMemory, firstFails)
                  ELSE SlamMemory
         second == InitializeTheSlam(first, secondFails)
         started == ~m_isAlreadyStarted /\ second.ok
     IN  /\ SetMemory(IF started THEN [second EXCEPT !.engine = "running"]
                      ELSE IF m_isAlreadyStarted THEN first ELSE second)
         /\ m_isAlreadyStarted' = (m_isAlreadyStarted \/ started)
  /\ slamState' = "running"
  /\ UNCHANGED <<m_slamConfig, renamed>>

(* The system refuses the memory, the one before it removed: the exception *)
(* is thrown again, and no caller up to the ORB catches it.                *)
NoSharedMemory ==
  /\ slamState \in {"limbo", "stopped"}
  /\ m_slamConfig.size > 0 /\ ~m_isAlreadyStarted
  /\ slamState' = "dead" /\ objects' = objects \ {m_slamConfig.server}
  /\ UNCHANGED <<m_slamConfig, m_pSharedSegment, m_isAlreadyStarted, engine, pushing,
                 renamed>>

StopSlam ==
  /\ slamState = "running"
  /\ m_isAlreadyStarted' = FALSE
  /\ engine' = "off"
  /\ slamState' = "stopped"
  /\ UNCHANGED <<m_slamConfig, m_pSharedSegment, objects, pushing, renamed>>

-----------------------------------------------------------------------------
(* A frame: the flag is read, then the buffer for its mutex.               *)

BeginPush ==
  /\ slamState = "running" /\ m_isAlreadyStarted
  /\ pushing = "idle" /\ pushing' = "tested"
  /\ UNCHANGED <<m_slamConfig, m_pSharedSegment, objects, m_isAlreadyStarted, engine, slamState,
                 renamed>>

LockBuffer ==
  /\ Alive
  /\ pushing = "tested" /\ pushing' = "locked"
  /\ UNCHANGED <<m_slamConfig, m_pSharedSegment, objects, m_isAlreadyStarted, engine, slamState,
                 renamed>>

PushImage ==
  /\ Alive /\ pushing \in {"locked", "lost"}
  /\ slamState' = IF pushing = "lost" THEN "dead" ELSE slamState
  /\ pushing' = "idle"
  /\ UNCHANGED <<m_slamConfig, m_pSharedSegment, objects, m_isAlreadyStarted, engine, renamed>>

-----------------------------------------------------------------------------
(* Parameters.                                                             *)

(* The first bad word ends the parsing and takes the options away; the     *)
(* names a word before it gave stay, as do those of an earlier             *)
(* configuration that has none of its own.                                 *)
SetSlamConfig(words) ==
  LET bad == {i \in DOMAIN words : words[i] = <<"bad">>}
      parsed == IF bad = {} THEN words
                ELSE SubSeq(words, 1, (CHOOSE i \in bad : \A j \in bad : i <= j) - 1)
      names == SelectSeq(parsed, LAMBDA w : w \in SlamWords)
      name == IF names = <<>> THEN <<m_slamConfig.server, m_slamConfig.camera>> ELSE Last(names)
  IN  /\ Alive
      /\ m_slamConfig' = [size |-> IF bad = {} THEN Len(words) ELSE 0,
                          server |-> name[1], camera |-> name[2]]
      /\ renamed' = (renamed \/ (m_pSharedSegment # NoSegment /\ name[1] # m_pSharedSegment[1]))
      /\ UNCHANGED <<m_pSharedSegment, objects, m_isAlreadyStarted, engine, slamState, pushing>>

(* "engine", "process": the engine is told, whatever it does then.         *)
SetEngineState(state) ==
  /\ Alive /\ engine' = state
  /\ UNCHANGED <<m_slamConfig, m_pSharedSegment, objects, m_isAlreadyStarted, slamState, pushing,
                 renamed>>

BattleInit ==
  /\ m_slamConfig = [size |-> 0, server |-> "", camera |-> ""]
  /\ m_pSharedSegment = NoSegment /\ objects = {}
  /\ m_isAlreadyStarted = FALSE /\ engine = "off" /\ slamState = "limbo" /\ pushing = "idle"
  /\ renamed = FALSE

BattleNext ==
  \/ \E first, second \in BOOLEAN : StartSlam(first, second)
  \/ NoSharedMemory \/ StopSlam
  \/ BeginPush \/ LockBuffer \/ PushImage
  \/ \E words \in SlamConfigs : SetSlamConfig(words)
  \/ \E state \in {"running", "paused"} : SetEngineState(state)

BattleSpec == BattleInit /\ [][BattleNext]_battleVars

-----------------------------------------------------------------------------
(* Properties.                                                             *)

(* While the process is started the shared memory it copies to is there,   *)
(* whatever was configured, refused or started again; and the living       *)
(* server has no other, unless a configuration gave another name while     *)
(* memory was in use.                                                      *)
SharedMemoryKept ==
  /\ m_isAlreadyStarted => m_pSharedSegment # NoSegment /\ m_pSharedSegment[1] \in objects
  /\ Alive /\ ~renamed => objects = IF m_pSharedSegment = NoSegment THEN {} ELSE {m_pSharedSegment[1]}

(* What clients ask of the process, its memory and its map, they get.      *)
BattleSlamOK == SharedMemoryKept /\ MapSavedAsAsked
=============================================================================
