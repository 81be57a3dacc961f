---------------------------- MODULE StereoProofs ----------------------------
(***************************************************************************)
(* Proofs about the stereo vision: the servant that takes the grabbing     *)
(* over for an external program (StereoGrabbing), for any number of        *)
(* clients, and the range map of a pair of images (StereoVision), for any  *)
(* pairs, sizes, calibrations and parameters.                              *)
(***************************************************************************)
EXTENDS StereoGrabbing, StereoVision, BoardShot, Disparity, SelectionProofs

-----------------------------------------------------------------------------
(* The servant's grabbing (Spec of StereoGrabbing).                        *)

Step(c) ==
  \/ Call(c) \/ SaveStatus(c) \/ StopGrabbing(c)
  \/ OpenScript(c) \/ OpenFails(c) \/ RestoreGrabbing(c) \/ ReadResult(c)

(* The variables keep their types (StereoVision_impl's member is 0 or 1).  *)
LEMMA TypeCorrect == Spec => []TypeOK
<1>1. Init => TypeOK
  BY DEF Init, TypeOK
<1>2. TypeOK /\ [Next]_vars => TypeOK'
  <2> SUFFICES ASSUME TypeOK, [Next]_vars
               PROVE  TypeOK'
    OBVIOUS
  <2> USE DEF TypeOK
  <2>1. CASE SteerGrabbing
    BY <2>1 DEF SteerGrabbing
  <2>2. ASSUME NEW c \in Clients, Step(c)
        PROVE  TypeOK'
    <3>1. CASE Call(c)
      BY <3>1 DEF Call, Moves, AtRest
    <3>2. CASE ~Call(c)
      BY <2>2, <3>2 DEF Step, SaveStatus, StopGrabbing, OpenScript, OpenFails,
                        RestoreGrabbing, ReadResult, Moves
    <3> QED
      BY <3>1, <3>2
  <2>3. CASE UNCHANGED vars
    BY <2>3 DEF vars
  <2> QED
    BY <2>1, <2>2, <2>3 DEF Next, Step
<1> QED
  BY <1>1, <1>2, PTL DEF Spec

-----------------------------------------------------------------------------
(* Overlapping calls.                                                      *)

(* A client between the save and the restore of its status.                *)
Holding(c) == at[c] \in {"stop", "open", "script"}

OffInv ==
  before = 0 =>
    /\ grabbing = 0
    /\ \A c \in Clients : Holding(c) => m_LLVSGrabbingStatus = 0

(* However many calls of the servant overlap and fail, none turns on a     *)
(* grabbing that was off when they began.                                  *)
THEOREM GrabbingStaysOff == Spec => []NeverTurnedOn
<1>1. Init => OffInv
  BY DEF Init, OffInv, Holding
<1>2. TypeOK /\ OffInv /\ [Next]_vars => OffInv'
  <2> SUFFICES ASSUME TypeOK, OffInv, [Next]_vars
               PROVE  OffInv'
    OBVIOUS
  <2> USE DEF TypeOK, OffInv, Holding
  <2>1. CASE SteerGrabbing
    BY <2>1 DEF SteerGrabbing, AtRest
  <2>2. ASSUME NEW c \in Clients, Step(c)
        PROVE  OffInv'
    <3>1. CASE Call(c)
      BY <3>1 DEF Call, Moves, AtRest
    <3>2. CASE SaveStatus(c)
      BY <3>2 DEF SaveStatus, Moves
    <3>3. CASE StopGrabbing(c)
      BY <3>3 DEF StopGrabbing, Moves
    <3>4. CASE OpenScript(c)
      BY <3>4 DEF OpenScript, Moves
    <3>5. CASE OpenFails(c)
      BY <3>5 DEF OpenFails, Moves
    <3>6. CASE RestoreGrabbing(c)
      BY <3>6 DEF RestoreGrabbing, Moves
    <3>7. CASE ReadResult(c)
      BY <3>7 DEF ReadResult, Moves
    <3> QED
      BY <2>2, <3>1, <3>2, <3>3, <3>4, <3>5, <3>6, <3>7 DEF Step
  <2>3. CASE UNCHANGED vars
    BY <2>3 DEF vars
  <2> QED
    BY <2>1, <2>2, <2>3 DEF Next, Step
<1>3. TypeOK /\ OffInv => NeverTurnedOn
  BY DEF OffInv, NeverTurnedOn
<1> QED
  BY <1>1, <1>2, <1>3, TypeCorrect, PTL DEF Spec

-----------------------------------------------------------------------------
(* Calls that overlap no other, and whose scripts can be opened.           *)

CleanInv ==
  clean =>
    /\ \A c, d \in Clients : at[c] # "idle" /\ at[d] # "idle" => c = d
    /\ \A c \in Clients :
         /\ at[c] = "save" => grabbing = before
         /\ at[c] = "stop" => grabbing = before /\ m_LLVSGrabbingStatus = before
         /\ at[c] \in {"open", "script"} => grabbing = 0 /\ m_LLVSGrabbingStatus = before
         /\ at[c] = "read" => grabbing = before
    /\ AtRest => grabbing = before

(* A call of the servant that overlaps no other and whose popen succeeds   *)
(* gives its script the cameras for itself and restores the grabbing.      *)
THEOREM CleanCalls == Spec => [](CleanCallRestores /\ ScriptAlone)
<1>1. Init => CleanInv
  BY DEF Init, CleanInv, AtRest
<1>2. TypeOK /\ CleanInv /\ [Next]_vars => CleanInv'
  <2> SUFFICES ASSUME TypeOK, CleanInv, [Next]_vars
               PROVE  CleanInv'
    OBVIOUS
  <2> USE DEF TypeOK, CleanInv, AtRest
  <2>1. CASE SteerGrabbing
    BY <2>1 DEF SteerGrabbing
  <2>2. ASSUME NEW c \in Clients, Step(c)
        PROVE  CleanInv'
    <3>1. CASE Call(c)
      BY <3>1 DEF Call, Moves
    <3>2. CASE SaveStatus(c)
      BY <3>2 DEF SaveStatus, Moves
    <3>3. CASE StopGrabbing(c)
      BY <3>3 DEF StopGrabbing, Moves
    <3>4. CASE OpenScript(c)
      BY <3>4 DEF OpenScript, Moves
    <3>5. CASE OpenFails(c)
      BY <3>5 DEF OpenFails, Moves
    <3>6. CASE RestoreGrabbing(c)
      BY <3>6 DEF RestoreGrabbing, Moves
    <3>7. CASE ReadResult(c)
      BY <3>7 DEF ReadResult, Moves
    <3> QED
      BY <2>2, <3>1, <3>2, <3>3, <3>4, <3>5, <3>6, <3>7 DEF Step
  <2>3. CASE UNCHANGED vars
    BY <2>3 DEF vars
  <2> QED
    BY <2>1, <2>2, <2>3 DEF Next, Step
<1>3. CleanInv => CleanCallRestores /\ ScriptAlone
  BY DEF CleanInv, CleanCallRestores, GrabbingRestored, ScriptAlone
<1> QED
  BY <1>1, <1>2, <1>3, TypeCorrect, PTL DEF Spec

(* What the servant promises about the grabbing, as far as it keeps it:    *)
(* a call that nothing disturbed restores it, and no call turns it on.     *)
THEOREM GrabbingPromised == Spec => []GrabbingPromise
<1>1. CleanCallRestores /\ ScriptAlone /\ NeverTurnedOn => GrabbingPromise
  BY DEF GrabbingPromise
<1> QED
  BY <1>1, CleanCalls, GrabbingStaysOff, PTL

-----------------------------------------------------------------------------
(* The range map (StereoVisionSpec).                                       *)

(* What each flag of the process says of the images and of the maps: how   *)
(* often the images were rectified, what the range map was computed from,  *)
(* and whose the size is that the next calibration will be for.            *)
FlagsOfTheImages ==
  /\ m_inputImagesLoaded => m_InputImages \in [pair : ImagePairs, times : 0 .. 2]
  /\ m_inputImagesLoaded /\ ~rectifiedAgain =>
       m_InputImages.times = IF m_imgRectified THEN 1 ELSE 0
  /\ m_rangeMapComputed =>
       /\ m_inputImagesLoaded /\ m_OutputImage.pair = m_InputImages.pair
       /\ m_OutputImage.times = 1 \/ rectifiedAgain

SizeOfTheImages ==
  /\ resized \in BOOLEAN
  /\ m_inputImagesLoaded /\ ~resized => m_imgSize = m_InputImages.pair.left
  /\ m_inputImagesLoaded /\ loadedSince => m_rectifyMap.size = m_InputImages.pair.left

(* All matchers are there, whichever are released.                         *)
MatcherInv ==
  /\ m_StereoAlgo \in Algorithms
  /\ DOMAIN matchers = {MatcherOf(b) : b \in Algorithms}
  /\ MatcherAsSet

(* Whatever is set of the process, in whatever order, a range map that can *)
(* be had is of the images set last, and these were rectified once unless  *)
(* the user had them rectified again; the calibration is for their size,   *)
(* and the matcher that computes has the parameters set last.              *)
THEOREM RangeMapRight == StereoVisionSpec => []StereoVisionOK
<1> DEFINE Inv == FlagsOfTheImages /\ SizeOfTheImages /\ MatcherInv
<1>1. StereoVisionInit => Inv
  <2> SUFFICES ASSUME StereoVisionInit
               PROVE  Inv
    OBVIOUS
  <2>1. FlagsOfTheImages /\ SizeOfTheImages
    BY DEF StereoVisionInit, FlagsOfTheImages, SizeOfTheImages
  <2>2. MatcherInv
    BY DEF StereoVisionInit, MatcherInv, MatcherAsSet, MatcherOf, Algorithms
  <2> QED
    BY <2>1, <2>2
<1>2. Inv /\ [StereoVisionNext]_stereoVisionVars => Inv'
  <2> SUFFICES ASSUME Inv, [StereoVisionNext]_stereoVisionVars
               PROVE  Inv'
    OBVIOUS
  <2>1. ASSUME NEW algo \in Algorithms, NEW settings,
               ApplyAlgorithm(algo, settings)
        PROVE  Inv'
    <3>1. FlagsOfTheImages' /\ SizeOfTheImages'
      BY <2>1 DEF ApplyAlgorithm, FlagsOfTheImages, SizeOfTheImages,
                  calibrationVars, pairVars, rangeVars, userHistories
    <3>2. MatcherOf(algo) \in DOMAIN matchers
      BY DEF MatcherInv
    <3>3. MatcherInv'
      BY <2>1, <3>2 DEF ApplyAlgorithm, MatcherInv, MatcherAsSet, Configured
    <3> QED
      BY <3>1, <3>3
  <2>2. ASSUME NEW size \in PairSizes, setImageSize(size)
        PROVE  Inv'
    BY <2>2 DEF setImageSize, FlagsOfTheImages, SizeOfTheImages, MatcherInv, MatcherAsSet,
                algorithmVars, pairVars, rangeVars
  <2>3. ASSUME NEW calibration \in CameraFiles, loadCameraParameters(calibration)
        PROVE  Inv'
    BY <2>3 DEF loadCameraParameters, FlagsOfTheImages, SizeOfTheImages, MatcherInv, MatcherAsSet,
                algorithmVars, pairVars, rangeVars
  <2>4. ASSUME NEW pair \in ImagePairs, NEW rectified \in BOOLEAN,
               SetInputImages(pair, rectified)
        PROVE  Inv'
    <3>1. MatcherInv'
      BY <2>4 DEF SetInputImages, MatcherInv, MatcherAsSet, algorithmVars
    <3>2. /\ ~m_rangeMapComputed'
          /\ resized' = FALSE /\ loadedSince' = FALSE
      BY <2>4 DEF SetInputImages, FreeImages
    <3>3. CASE pair.left = pair.right
      <4>1. m_InputImages' = [pair |-> pair, times |-> IF rectified THEN 1 ELSE 0]
        BY <2>4, <3>3 DEF SetInputImages
      <4>2. (m_imgRectified' <=> rectified) /\ m_imgSize' = pair.left
        BY <2>4, <3>3 DEF SetInputImages
      <4>3. FlagsOfTheImages'
        BY <3>2, <4>1, <4>2 DEF FlagsOfTheImages
      <4> QED
        BY <3>1, <3>2, <4>1, <4>2, <4>3 DEF SizeOfTheImages
    <3>4. CASE pair.left # pair.right
      <4>1. ~m_inputImagesLoaded'
        BY <2>4, <3>4 DEF SetInputImages
      <4> QED
        BY <3>1, <3>2, <4>1 DEF FlagsOfTheImages, SizeOfTheImages
    <3> QED
      BY <3>3, <3>4
  <2>5. ASSUME CanRectify, m_InputImages' = Rectified
        PROVE  /\ m_InputImages' \in [pair : ImagePairs, times : 0 .. 2]
               /\ m_InputImages'.pair = m_InputImages.pair
               /\ m_InputImages.times = 0 => m_InputImages'.times = 1
    BY <2>5 DEF CanRectify, Rectified, FlagsOfTheImages
  <2>6. CASE stereoRectifyImages
    BY <2>5, <2>6 DEF stereoRectifyImages, CanRectify, FlagsOfTheImages, SizeOfTheImages,
       MatcherInv,
                MatcherAsSet, algorithmVars, calibrationVars, rangeVars, userHistories
  <2>7. CASE ComputeRangeMap
    BY <2>5, <2>7 DEF ComputeRangeMap, CanRectify, FlagsOfTheImages, SizeOfTheImages, MatcherInv,
                MatcherAsSet, algorithmVars, calibrationVars, userHistories
  <2>8. CASE UNCHANGED stereoVisionVars
    BY <2>8 DEF stereoVisionVars, FlagsOfTheImages, SizeOfTheImages, MatcherInv, MatcherAsSet,
                algorithmVars, calibrationVars, pairVars, rangeVars, userHistories
  <2> QED
    BY <2>1, <2>2, <2>3, <2>4, <2>6, <2>7, <2>8
       DEF StereoVisionNext, setStereoAlgorithmType, setAlgoParameters, MatcherInv
<1>3. Inv => StereoVisionOK
  BY DEF FlagsOfTheImages, SizeOfTheImages, MatcherInv, StereoVisionOK, RangeMapOfTheImages
<1> QED
  BY <1>1, <1>2, <1>3, PTL DEF StereoVisionSpec

-----------------------------------------------------------------------------
(* The board that two threads create and delete (ShotSpec).                *)

ShotPlaces == {"idle", "start", "starting", "initialize", "delete", "new", "shot", "grab", "snap",
               "end", "stop", "stop at end", "started?", "stop shot", "feature"}

ShotTypes ==
  /\ m_Board \in {"null", "live", "deleted"}
  /\ transmitting \in BOOLEAN /\ restarted \in BOOLEAN
  /\ shotComputing \in {0, 1} /\ lmComputing \in [Actors -> {0, 1}]
  /\ shotState \in {"LIMBO", "STARTING", "STARTED", "STOPPED"}
  /\ shotpc \in [Actors -> ShotPlaces]

(* The loop is past the grab, or finds no board any more.                  *)
PastTheGrab ==
  \/ shotpc["loop"] \in {"end", "stop at end"}
  \/ m_Board = "null" /\ shotpc["loop"] \in {"idle", "started?", "grab"}

(* After a stop that stands nobody makes a board but the loop, in a start  *)
(* it was in; and the one image it may still grab takes it to the end,     *)
(* where it deletes the board.                                             *)
StopStands ==
  shotState = "STOPPED" /\ ~restarted =>
    /\ shotComputing = 0
    /\ shotpc["client"] \notin {"starting", "initialize", "delete", "new"}
    /\ late = 0 \/ (late = 1 /\ PastTheGrab)

(* A board is deleted and pointed to, or does not transmit, only while a   *)
(* thread is on its way to start it.                                       *)
BoardMended ==
  /\ m_Board = "deleted" => \E a \in Actors : shotpc[a] \in {"new", "shot"}
  /\ m_Board = "live" /\ ~transmitting =>
       \E a \in Actors : shotpc[a] \in {"feature", "shot"}

ShotInv == running => ShotTypes /\ StopStands /\ BoardMended

(* Starts, stops and settings of the board by two threads without a lock   *)
(* are, as long as the server lives, followed by the images: at most one   *)
(* after a stop that stands, and a board at rest transmits.                *)
THEOREM BoardFollows == ShotSpec => []BoardFollowsCalls
<1>1. ShotInit => ShotInv
  BY DEF ShotInit, ShotInv, ShotTypes, ShotPlaces, StopStands, BoardMended, Actors
<1>2. ShotInv /\ [ShotNext]_shotVars => ShotInv'
  <2>1. CASE ~running
    <3>1. ASSUME ShotNext
          PROVE  FALSE
      BY <2>1, <3>1 DEF ShotNext, ProcessStarts, BaseStart, BaseStarted, OpenBoard, DeleteOldBoard,
                        NewBoard, StartShot, GetSingleBoardImage, TestStopped, CloseBoard,
                        TestStarted, BeginSnap, EndSnap, CallStart, StopShotProcess,
                        SetBoardFeature, StepOf
    <3> QED
      BY <2>1, <3>1 DEF shotVars, ShotInv
  <2> SUFFICES ASSUME ShotTypes, StopStands, BoardMended, running, [ShotNext]_shotVars, running'
               PROVE  ShotInv'
    BY <2>1 DEF ShotInv
  <2> "loop" \in Actors /\ "client" \in Actors
    BY DEF Actors
  <2> USE DEF StepOf, shotHistory
  <2>2. ASSUME NEW a \in Actors, ProcessStarts(a)
        PROVE  ShotInv'
    <3>1. CASE BaseStart(a)
      <4>1. ShotTypes'
        BY <3>1 DEF BaseStart, ShotTypes, ShotPlaces
      <4>2. StopStands'
        BY <3>1 DEF BaseStart, ShotTypes, StopStands, PastTheGrab, Actors, ShotPlaces
      <4>3. BoardMended'
        BY <3>1 DEF BaseStart, ShotTypes, BoardMended, ShotPlaces
      <4> QED
        BY <4>1, <4>2, <4>3 DEF ShotInv
    <3>2. CASE BaseStarted(a)
      <4>1. ShotTypes'
        BY <3>2 DEF BaseStarted, ShotTypes, ShotPlaces
      <4>2. StopStands'
        BY <3>2 DEF BaseStarted, ShotTypes, StopStands, PastTheGrab, Actors, ShotPlaces
      <4>3. BoardMended'
        BY <3>2 DEF BaseStarted, ShotTypes, BoardMended, ShotPlaces
      <4> QED
        BY <4>1, <4>2, <4>3 DEF ShotInv
    <3>3. CASE OpenBoard(a)
      <4>1. ShotTypes'
        BY <3>3 DEF OpenBoard, ShotTypes, ShotPlaces
      <4>2. StopStands'
        BY <3>3 DEF OpenBoard, ShotTypes, StopStands, PastTheGrab, Actors, ShotPlaces
      <4>3. BoardMended'
        BY <3>3 DEF OpenBoard, ShotTypes, BoardMended, ShotPlaces
      <4> QED
        BY <4>1, <4>2, <4>3 DEF ShotInv
    <3>4. CASE DeleteOldBoard(a)
      <4>1. ShotTypes'
        BY <3>4 DEF DeleteOldBoard, Used, ShotTypes, ShotPlaces
      <4>2. StopStands'
        BY <3>4 DEF DeleteOldBoard, Used, ShotTypes, StopStands, PastTheGrab, Actors, ShotPlaces
      <4>3. BoardMended'
        BY <3>4 DEF DeleteOldBoard, Used, ShotTypes, BoardMended, ShotPlaces
      <4> QED
        BY <4>1, <4>2, <4>3 DEF ShotInv
    <3>5. ASSUME NEW opened \in BOOLEAN, NewBoard(a, opened)
          PROVE  ShotInv'
      <4>1. ShotTypes'
        BY <3>5 DEF NewBoard, ShotTypes, ShotPlaces
      <4>2. StopStands'
        BY <3>5 DEF NewBoard, ShotTypes, StopStands, PastTheGrab, Actors, ShotPlaces
      <4>3. BoardMended'
        BY <3>5 DEF NewBoard, ShotTypes, BoardMended, ShotPlaces
      <4> QED
        BY <4>1, <4>2, <4>3 DEF ShotInv
    <3>6. CASE StartShot(a)
      <4>1. ShotTypes'
        BY <3>6 DEF StartShot, AfterShot, ShotTypes, ShotPlaces
      <4>2. StopStands'
        BY <3>6 DEF StartShot, AfterShot, ShotTypes, StopStands, PastTheGrab, Actors, ShotPlaces
      <4>3. BoardMended'
        BY <3>6 DEF StartShot, AfterShot, ShotTypes, BoardMended, ShotPlaces
      <4> QED
        BY <4>1, <4>2, <4>3 DEF ShotInv
    <3> QED
      BY <2>2, <3>1, <3>2, <3>3, <3>4, <3>5, <3>6 DEF ProcessStarts
  <2>3. CASE GetSingleBoardImage
    <3>1. CASE TestStopped
      <4>1. ShotTypes'
        BY <3>1 DEF TestStopped, MustBeStopped, ShotTypes, ShotPlaces
      <4>2. StopStands'
        BY <3>1 DEF TestStopped, MustBeStopped, ShotTypes, StopStands, PastTheGrab, Actors,
           ShotPlaces
      <4>3. BoardMended'
        BY <3>1 DEF TestStopped, MustBeStopped, ShotTypes, BoardMended, ShotPlaces
      <4> QED
        BY <4>1, <4>2, <4>3 DEF ShotInv
    <3>2. CASE CloseBoard
      <4>1. ShotTypes'
        BY <3>2 DEF CloseBoard, ShotTypes, ShotPlaces
      <4>2. StopStands'
        BY <3>2 DEF CloseBoard, ShotTypes, StopStands, PastTheGrab, Actors, ShotPlaces
      <4>3. BoardMended'
        BY <3>2 DEF CloseBoard, ShotTypes, BoardMended, ShotPlaces
      <4> QED
        BY <4>1, <4>2, <4>3 DEF ShotInv
    <3>3. CASE TestStarted
      <4>1. ShotTypes'
        BY <3>3 DEF TestStarted, ShotTypes, ShotPlaces
      <4>2. StopStands'
        BY <3>3 DEF TestStarted, ShotTypes, StopStands, PastTheGrab, Actors, ShotPlaces
      <4>3. BoardMended'
        BY <3>3 DEF TestStarted, ShotTypes, BoardMended, ShotPlaces
      <4> QED
        BY <4>1, <4>2, <4>3 DEF ShotInv
    <3>4. CASE BeginSnap
      <4>1. ShotTypes'
        BY <3>4 DEF BeginSnap, ShotTypes, ShotPlaces
      <4>2. StopStands'
        BY <3>4 DEF BeginSnap, ShotTypes, StopStands, PastTheGrab, Actors, ShotPlaces
      <4>3. BoardMended'
        BY <3>4 DEF BeginSnap, ShotTypes, BoardMended, ShotPlaces
      <4> QED
        BY <4>1, <4>2, <4>3 DEF ShotInv
    <3>5. CASE EndSnap
      <4>1. ShotTypes'
        BY <3>5 DEF EndSnap, ShotTypes, ShotPlaces
      <4>2. StopStands'
        <5>1. late = 0 => late' = 1
          BY <3>5, ShotAssumption DEF EndSnap
        <5>2. shotpc["loop"] = "snap" /\ shotpc'["loop"] = "end" /\ shotpc'["client"] = shotpc["client"]
          BY <3>5 DEF EndSnap, ShotTypes, Actors
        <5>3. UNCHANGED <<shotComputing, shotState, restarted>>
          BY <3>5 DEF EndSnap
        <5> QED
          BY <5>1, <5>2, <5>3 DEF StopStands, PastTheGrab
      <4>3. BoardMended'
        BY <3>5 DEF EndSnap, ShotTypes, BoardMended, ShotPlaces
      <4> QED
        BY <4>1, <4>2, <4>3 DEF ShotInv
    <3> QED
      BY <2>3, <3>1, <3>2, <3>3, <3>4, <3>5 DEF GetSingleBoardImage
  <2>4. CASE CallStart
    <3>1. ShotTypes'
      BY <2>4 DEF CallStart, ShotTypes, ShotPlaces
    <3>2. StopStands'
      BY <2>4 DEF CallStart, ShotTypes, StopStands, PastTheGrab, Actors, ShotPlaces
    <3>3. BoardMended'
      BY <2>4 DEF CallStart, ShotTypes, BoardMended, ShotPlaces
    <3> QED
      BY <3>1, <3>2, <3>3 DEF ShotInv
  <2>5. CASE StopShotProcess
    <3>1. ShotTypes'
      BY <2>5 DEF StopShotProcess, ShotTypes, ShotPlaces
    <3>2. StopStands'
      BY <2>5 DEF StopShotProcess, ShotTypes, StopStands
    <3>3. BoardMended'
      BY <2>5 DEF StopShotProcess, ShotTypes, BoardMended, ShotPlaces
    <3> QED
      BY <3>1, <3>2, <3>3 DEF ShotInv
  <2>6. CASE SetBoardFeature
    <3>1. ShotTypes'
      BY <2>6 DEF SetBoardFeature, ShotTypes, ShotPlaces
    <3>2. StopStands'
      BY <2>6 DEF SetBoardFeature, ShotTypes, StopStands, PastTheGrab, Actors, ShotPlaces
    <3>3. BoardMended'
      BY <2>6 DEF SetBoardFeature, ShotTypes, BoardMended, ShotPlaces
    <3> QED
      BY <3>1, <3>2, <3>3 DEF ShotInv
  <2>7. CASE UNCHANGED shotVars
    BY <2>7 DEF shotVars, ShotInv, ShotTypes, StopStands, PastTheGrab, BoardMended
  <2> QED
    BY <2>2, <2>3, <2>4, <2>5, <2>6, <2>7 DEF ShotNext
<1>3. ShotInv => BoardFollowsCalls
  <2> SUFFICES ASSUME ShotTypes, StopStands, BoardMended
               PROVE  BoardFollowsCalls
    BY DEF ShotInv, BoardFollowsCalls
  <2>1. shotState = "STOPPED" /\ ~restarted => late <= 1
    BY DEF StopStands
  <2>2. (\A a \in Actors : shotpc[a] = "idle") /\ m_Board # "null" => m_Board = "live" /\ transmitting
    BY DEF ShotTypes, BoardMended
  <2> QED
    BY <2>1, <2>2 DEF BoardFollowsCalls
<1> QED
  BY <1>1, <1>2, <1>3, PTL DEF ShotSpec

-----------------------------------------------------------------------------
(* The points of a disparity image, their boxes and their rows             *)
(* (DisparitySpec).                                                        *)

Names == {"-w", "-Tmask", "dump_mode", "error_model"}
Values == {"31", "", "ply", "intervals", "hz", "unknown"}
Settings == [name : Names, value : Values]

Points == [frame : Nat, pixel : Nat]
Boxes == [center : Points, extent : Points]
FloatsOf(model) == CASE model = "intervals" -> 6 [] model = "hz" -> 12 [] OTHER -> 0

(* The range data lists pixels of the image in their order, some of them   *)
(* dark.                                                                   *)
RangeInOrder ==
  /\ m_rng.frame \in Nat
  /\ \E matched \in SUBSET (1 .. count) :
       m_rng.pixels = InOrder(matched) /\ m_rng.dark \in SUBSET matched

(* There are boxes for every pixel, of the format of the error model.      *)
BoxesOfModel ==
  /\ m_PointsInImage \in [1 .. count -> Points]
  /\ m_BoundingBox \in [floats : {FloatsOf(m_ErrorModel)}, boxes : [1 .. count -> Boxes]]

(* The box at the place of each point in the list is the point's.          *)
FramedBoxes ==
  framed => \A k \in DOMAIN m_rng.pixels :
    /\ m_ErrorModel = "intervals" =>
         m_BoundingBox.boxes[k] =
           [center |-> PointOf(m_rng.pixels[k]), extent |-> PointOf(m_rng.pixels[k])]
    /\ m_ErrorModel = "hz" => m_BoundingBox.boxes[k].center = PointOf(m_rng.pixels[k])

DisparityInv ==
  /\ parameters \in Seq(Settings) /\ count \in Nat
  /\ RangeInOrder
  /\ BoxesOfModel
  /\ FramedBoxes
  /\ DumpAndArgumentsAgree

(* The second pass makes as many words as the first counted.               *)
LEMMA WordsCounted ==
  ASSUME NEW S, NEW list \in Seq(S)
  PROVE  Len(Arguments(list)) = Counted(list)
<1> DEFINE N == Named(list)
           V == Valued(list)
           odd == {2 * k - 1 : k \in N}
           even == {2 * k : k \in V}
           W == odd \union even
           f == [k \in N |-> 2 * k - 1]
           g == [k \in V |-> 2 * k]
<1>1. N \subseteq Nat /\ V \subseteq Nat /\ IsFiniteSet(N) /\ IsFiniteSet(V) /\ \A k \in N : k > 0
  <2>1. Len(list) \in Nat /\ DOMAIN list = 1 .. Len(list)
    OBVIOUS
  <2>2. IsFiniteSet(1 .. Len(list))
    BY <2>1, UpTo
  <2>3. N \in SUBSET (1 .. Len(list)) /\ V \in SUBSET (1 .. Len(list))
    BY <2>1 DEF Named, Valued
  <2> HIDE DEF N, V
  <2>4. IsFiniteSet(N) /\ IsFiniteSet(V)
    BY <2>2, <2>3, FS_Subset
  <2> QED
    BY <2>1, <2>3, <2>4
<1>2. Words(list) = W
  BY DEF Words
<1>3. Arguments(list) =
        <<"Disparity">> \o [n \in 1 .. Cardinality(W) |-> WordOf(list, InOrder(W)[n])]
  BY <1>2 DEF Arguments
<1>4. Counted(list) = 1 + Cardinality(N) + Cardinality(V)
  BY DEF Counted
<1> HIDE DEF N, V
<1>5. IsFiniteSet(odd) /\ Cardinality(odd) = Cardinality(N)
  <2>1. f \in [N -> odd] /\ \A k \in N : f[k] = 2 * k - 1
    OBVIOUS
  <2>2. \A t \in odd : \E k \in N : f[k] = t
    OBVIOUS
  <2> HIDE DEF f, odd
  <2>3. \A k, l \in N : f[k] = f[l] => k = l
    BY <1>1, <2>1
  <2> QED
    BY <1>1, <2>1, <2>2, <2>3, SameNumber
<1>6. IsFiniteSet(even) /\ Cardinality(even) = Cardinality(V)
  <2>1. g \in [V -> even] /\ \A k \in V : g[k] = 2 * k
    OBVIOUS
  <2>2. \A t \in even : \E k \in V : g[k] = t
    OBVIOUS
  <2> HIDE DEF g, even
  <2>3. \A k, l \in V : g[k] = g[l] => k = l
    BY <1>1, <2>1
  <2> QED
    BY <1>1, <2>1, <2>2, <2>3, SameNumber
<1>7. odd \intersect even = {}
  <2>1. \A k \in N, l \in V : 2 * k - 1 # 2 * l
    BY <1>1
  <2> QED
    BY <2>1
<1>8. /\ Cardinality(W) = Cardinality(N) + Cardinality(V)
      /\ Cardinality(N) \in Nat /\ Cardinality(V) \in Nat
  <2> HIDE DEF odd, even
  <2>1. Cardinality(W) = Cardinality(odd) + Cardinality(even) - Cardinality(odd \intersect even)
    BY <1>5, <1>6, FS_Union
  <2>2. Cardinality(odd \intersect even) = 0
    BY <1>7, FS_EmptySet
  <2>3. Cardinality(N) \in Nat /\ Cardinality(V) \in Nat
    BY <1>1, FS_CardinalityType
  <2> QED
    BY <1>5, <1>6, <2>1, <2>2, <2>3
<1> HIDE DEF W
<1>9. ASSUME NEW n \in Nat, NEW words, words = [k \in 1 .. n |-> words[k]]
      PROVE  Len(<<"Disparity">> \o words) = 1 + n
  <2> DEFINE E == {"Disparity"} \union {words[k] : k \in 1 .. n}
  <2>1. words \in [1 .. n -> E]
    BY <1>9
  <2>2. <<"Disparity">> \in Seq(E) /\ Len(<<"Disparity">>) = 1
    OBVIOUS
  <2> HIDE DEF E
  <2>3. words \in Seq(E) /\ Len(words) = n
    BY <2>1
  <2> QED
    BY <2>2, <2>3, ConcatProperties
<1>10. Len(Arguments(list)) = 1 + Cardinality(W)
  <2> DEFINE words == [n \in 1 .. Cardinality(W) |-> WordOf(list, InOrder(W)[n])]
  <2>1. words = [k \in 1 .. Cardinality(W) |-> words[k]]
    OBVIOUS
  <2>2. Cardinality(W) \in Nat
    BY <1>8
  <2>3. Arguments(list) = <<"Disparity">> \o words
    BY <1>3
  <2> HIDE DEF words
  <2> QED
    BY <1>9, <2>1, <2>2, <2>3
<1> QED
  BY <1>8, <1>4, <1>10

(* What the order of the pixels gives: as many as were matched, and none   *)
(* beyond the image.                                                       *)
LEMMA PixelsInOrder ==
  ASSUME NEW n \in Nat, NEW matched \in SUBSET (1 .. n)
  PROVE  /\ IsFiniteSet(matched) /\ Cardinality(matched) \in 0 .. n
         /\ InOrder(matched) \in [1 .. Cardinality(matched) -> matched]
         /\ DOMAIN InOrder(matched) = 1 .. Cardinality(matched)
         /\ InOrder(matched) \in Seq(1 .. n) /\ Len(InOrder(matched)) = Cardinality(matched)
<1>1. IsFiniteSet(1 .. n) /\ Cardinality(1 .. n) = n
  BY UpTo
<1>2. IsFiniteSet(matched) /\ Cardinality(matched) <= n
  BY <1>1, FS_Subset
<1> DEFINE m == Cardinality(matched)
           pixels == InOrder(matched)
<1>3. m \in Nat /\ pixels \in [1 .. m -> matched]
  <2>1. matched \in SUBSET Nat
    OBVIOUS
  <2> QED
    BY <1>2, <2>1, OrderOfNumbers
<1>4. m <= n
  BY <1>2
<1> HIDE DEF m, pixels
<1>5. m \in 0 .. n /\ DOMAIN pixels = 1 .. m
  BY <1>3, <1>4
<1>6. pixels \in Seq(1 .. n) /\ Len(pixels) = m
  <2>1. pixels \in [1 .. m -> 1 .. n]
    BY <1>3
  <2> QED
    BY <1>3, <2>1, LenProperties
<1> QED
  BY <1>2, <1>3, <1>5, <1>6 DEF m, pixels

(* The rows of the file are the dark points in the order of their pixels,  *)
(* so that the grid, which counts the dark pixels, names the right ones.   *)
LEMMA DarkInOrder ==
  ASSUME RangeInOrder, count \in Nat
  PROVE  /\ IsFiniteSet(m_rng.dark) /\ m_rng.dark \in SUBSET Nat
         /\ DarkPoints = InOrder(m_rng.dark)
<1>1. PICK matched \in SUBSET (1 .. count) :
        m_rng.pixels = InOrder(matched) /\ m_rng.dark \in SUBSET matched
  BY DEF RangeInOrder
<1> DEFINE pixels == m_rng.pixels
           dark == m_rng.dark
           A == PlacesOf(pixels, dark)
           f == [i \in A |-> pixels[i]]
           n == Cardinality(matched)
<1>2. /\ matched \in SUBSET Nat /\ IsFiniteSet(matched) /\ n \in Nat
      /\ pixels \in [1 .. n -> matched] /\ DOMAIN pixels = 1 .. n
      /\ \A k, l \in 1 .. n : k < l => pixels[k] < pixels[l]
      /\ \A i \in matched : Before(matched, i) + 1 \in 1 .. n /\ pixels[Before(matched, i) + 1] = i
  <2>1. matched \in SUBSET Nat /\ IsFiniteSet(matched)
    BY PixelsInOrder
  <2> QED
    BY <1>1, <2>1, OrderOfNumbers
<1>3. DarkPoints = [k \in DOMAIN InOrder(A) |-> pixels[InOrder(A)[k]]]
  BY DEF DarkPoints, Selected
<1>4. dark \in SUBSET matched
  BY <1>1
<1> HIDE DEF pixels, dark, n
<1>5. A \in SUBSET (1 .. n) /\ \A i \in 1 .. n : i \in A <=> pixels[i] \in dark
  BY <1>2 DEF PlacesOf
<1> HIDE DEF A
<1>6. IsFiniteSet(A) /\ A \in SUBSET Nat
  <2>1. IsFiniteSet(1 .. n)
    BY <1>2, UpTo
  <2>2. IsFiniteSet(A)
    BY <1>5, <2>1, FS_Subset
  <2> QED
    BY <1>2, <1>5, <2>2
<1>7. dark \in SUBSET Nat /\ IsFiniteSet(dark)
  BY <1>2, <1>4, FS_Subset
<1>8. f \in [A -> dark] /\ \A i \in A : f[i] = pixels[i]
  BY <1>5
<1> HIDE DEF f
<1>9. \A i, j \in A : i < j => f[i] < f[j]
  BY <1>2, <1>5, <1>8
<1>10. \A t \in dark : \E i \in A : f[i] = t
  <2> TAKE t \in dark
  <2> DEFINE i == Before(matched, t) + 1
  <2>1. i \in 1 .. n /\ pixels[i] = t
    BY <1>2, <1>4
  <2> HIDE DEF i
  <2> QED
    BY <1>5, <1>8, <2>1
<1>11. Cardinality(dark) = Cardinality(A) /\ \A k \in 1 .. Cardinality(A) : InOrder(dark)[k] = f[InOrder(A)[k]]
  BY <1>6, <1>7, <1>8, <1>9, <1>10, OrderKept
<1>12. InOrder(A) \in [1 .. Cardinality(A) -> A] /\ InOrder(dark) \in [1 .. Cardinality(dark) -> dark]
  BY <1>6, <1>7, OrderOfNumbers
<1>13. DarkPoints = [k \in 1 .. Cardinality(A) |-> pixels[InOrder(A)[k]]]
  BY <1>3, <1>12
<1>14. \A k \in 1 .. Cardinality(A) : pixels[InOrder(A)[k]] = InOrder(dark)[k]
  BY <1>8, <1>11, <1>12
<1>15. DarkPoints = InOrder(dark)
  BY <1>11, <1>12, <1>13, <1>14
<1> QED
  BY <1>7, <1>15 DEF dark

(* No points, and new boxes, for an image of any size.                     *)
LEMMA NothingInRange ==
  \A n : {} \in SUBSET (1 .. n) /\ <<>> = InOrder({})
<1>1. Cardinality({}) = 0
  BY FS_EmptySet
<1>2. InOrder({}) = [k \in 1 .. 0 |-> CHOOSE i \in {} : Before({}, i) = k - 1]
  BY <1>1 DEF InOrder
<1>3. 1 .. 0 = {}
  OBVIOUS
<1> QED
  BY <1>2, <1>3

LEMMA NewBoxes ==
  \A n \in Nat : \A model :
    /\ NoMatches(n) \in [1 .. n -> Points]
    /\ NoBoxes(model, n) \in [floats : {FloatsOf(model)}, boxes : [1 .. n -> Boxes]]
<1>1. None \in Points
  BY DEF None, Points
<1>2. [center |-> None, extent |-> None] \in Boxes
  BY <1>1 DEF Boxes
<1> QED
  BY <1>1, <1>2 DEF NoMatches, NoBoxes, FloatsOf

LEMMA DisparityStart == DisparityInit => DisparityInv
<1> SUFFICES ASSUME DisparityInit PROVE DisparityInv
  OBVIOUS
<1>1. count \in Nat /\ count = FirstCount
  BY DisparityAssumption DEF DisparityInit
<1>2. parameters \in Seq(Settings)
  <2>1. [name |-> "-w", value |-> "31"] \in Settings
    BY DEF Settings, Names, Values
  <2> QED
    BY <2>1 DEF DisparityInit
<1>3. RangeInOrder
  BY NothingInRange DEF DisparityInit, RangeInOrder, NoRange
<1>4. BoxesOfModel
  BY <1>1, NewBoxes DEF DisparityInit, BoxesOfModel
<1>5. FramedBoxes
  BY DEF DisparityInit, FramedBoxes
<1>6. DumpAndArgumentsAgree
  <2>1. passed = [argc |-> Counted(parameters), argv |-> Arguments(parameters)]
    BY DEF DisparityInit
  <2>2. Len(Arguments(parameters)) = Counted(parameters)
    BY <1>2, WordsCounted
  <2>3. ply.grid = <<>>
    BY DEF DisparityInit, NoPly
  <2> QED
    BY <2>1, <2>2, <2>3 DEF DumpAndArgumentsAgree
<1> QED
  BY <1>1, <1>2, <1>3, <1>4, <1>5, <1>6 DEF DisparityInv

(* SetParameter: the error model changes only if the boxes are new.        *)
LEMMA ParameterKeepsBoxes ==
  ASSUME DisparityInv, NEW name \in Names, NEW value \in Values,
         SetDisparityParameter(name, value)
  PROVE  DisparityInv'
<1> DEFINE p == [name |-> name, value |-> value]
<1>1. parameters' \in Seq(Settings)
  <2>1. p \in Settings
    BY DEF Settings
  <2>2. parameters \in Seq(Settings)
    BY DEF DisparityInv
  <2> HIDE DEF p
  <2>3. Append(parameters, p) \in Seq(Settings)
    BY <2>1, <2>2, AppendProperties
  <2>4. [k \in DOMAIN parameters |-> IF k \in Found(name) THEN p ELSE parameters[k]] \in Seq(Settings)
    <3>1. DOMAIN parameters = 1 .. Len(parameters) /\ Len(parameters) \in Nat
      BY <2>2
    <3>2. \A k \in 1 .. Len(parameters) : parameters[k] \in Settings
      BY <2>2
    <3> DEFINE new == [k \in DOMAIN parameters |-> IF k \in Found(name) THEN p ELSE parameters[k]]
    <3>3. new \in [1 .. Len(parameters) -> Settings]
      BY <2>1, <3>1, <3>2
    <3> HIDE DEF new
    <3>4. new \in Seq(Settings)
      BY <3>1, <3>3
    <3> QED
      BY <3>4 DEF new
  <2> QED
    BY <2>3, <2>4 DEF SetDisparityParameter, p
<1> HIDE DEF p
<1>2. /\ passed' = [argc |-> Counted(parameters'), argv |-> Arguments(parameters')]
      /\ UNCHANGED <<count, m_rng, m_PointsInImage, ply>>
      /\ m_ErrorModel' = LastKnown(parameters', "error_model", Models, m_ErrorModel)
  BY DEF SetDisparityParameter
<1>3. DumpAndArgumentsAgree'
  <2>1. Len(Arguments(parameters')) = Counted(parameters')
    BY <1>1, WordsCounted
  <2> QED
    BY <1>2, <2>1 DEF DumpAndArgumentsAgree, DisparityInv
<1>4. RangeInOrder'
  BY <1>2 DEF RangeInOrder, DisparityInv
<1> DEFINE asked == \E q \in ToSet(parameters') : q.name = "error_model" /\ q.value # ""
<1>5. CASE asked
  <2>1. m_BoundingBox' = NoBoxes(m_ErrorModel', count) /\ framed' = FALSE
    BY <1>5 DEF SetDisparityParameter, InitializeErrorModel
  <2>2. BoxesOfModel'
    BY <1>2, <2>1, NewBoxes DEF BoxesOfModel, DisparityInv
  <2> QED
    BY <1>1, <1>2, <1>3, <1>4, <2>1, <2>2 DEF DisparityInv, FramedBoxes
<1>6. CASE ~asked
  <2>1. UNCHANGED <<m_BoundingBox, framed>>
    BY <1>6 DEF SetDisparityParameter
  <2>2. m_ErrorModel' = m_ErrorModel
    <3>1. \A k \in DOMAIN parameters' :
            ~(parameters'[k].name = "error_model" /\ parameters'[k].value \in Models)
      <4>1. "" \notin Models
        BY DEF Models
      <4> QED
        BY <1>6, <4>1 DEF ToSet
    <3>2. {k \in DOMAIN parameters' :
             parameters'[k].name = "error_model" /\ parameters'[k].value \in Models} = {}
      BY <3>1
    <3> QED
      BY <1>2, <3>2 DEF LastKnown
  <2>3. BoxesOfModel' /\ FramedBoxes'
    BY <1>2, <2>1, <2>2 DEF BoxesOfModel, FramedBoxes, DisparityInv, PointOf
  <2> QED
    BY <1>1, <1>2, <1>3, <1>4, <2>3 DEF DisparityInv
<1> QED
  BY <1>5, <1>6

(* The boxes the error models fill are those at the places of the points.  *)
LEMMA BoxesFilled ==
  ASSUME DisparityInv, ErrorOfModel PROVE DisparityInv'
<1>1. /\ UNCHANGED <<inputVars, count, m_rng, ply, alive>>
      /\ \/ ComputeIntervalError \/ ComputeHZError
         \/ m_ErrorModel \notin Models /\ UNCHANGED <<m_PointsInImage, m_BoundingBox>>
  BY DEF ErrorOfModel
<1>2. /\ UNCHANGED <<parameters, m_ErrorModel, passed>>
      /\ RangeInOrder' /\ DumpAndArgumentsAgree'
  BY <1>1 DEF inputVars, RangeInOrder, DumpAndArgumentsAgree, DisparityInv
<1> DEFINE N == Len(m_rng.pixels)
           boxes == m_BoundingBox.boxes
<1>3. /\ m_rng.frame \in Nat /\ count \in Nat
      /\ N \in 0 .. count /\ DOMAIN m_rng.pixels = 1 .. N
      /\ \A k \in 1 .. N : PointOf(m_rng.pixels[k]) \in Points
  <2>1. PICK matched \in SUBSET (1 .. count) : m_rng.pixels = InOrder(matched)
    BY DEF DisparityInv, RangeInOrder
  <2>2. count \in Nat /\ m_rng.frame \in Nat
    BY DEF DisparityInv, RangeInOrder
  <2>3. N \in 0 .. count /\ DOMAIN m_rng.pixels = 1 .. N /\ \A k \in 1 .. N : m_rng.pixels[k] \in 1 .. count
    BY <2>1, <2>2, PixelsInOrder
  <2>4. \A k \in 1 .. N : m_rng.pixels[k] \in Nat
    BY <2>3
  <2> QED
    BY <2>2, <2>3, <2>4 DEF PointOf, Points
<1>4. /\ m_PointsInImage \in [1 .. count -> Points] /\ boxes \in [1 .. count -> Boxes]
      /\ m_BoundingBox = [floats |-> FloatsOf(m_ErrorModel), boxes |-> boxes]
  BY DEF DisparityInv, BoxesOfModel
<1> HIDE DEF N, boxes
<1>5. CASE ComputeIntervalError
  <2>1. /\ m_PointsInImage' = [k \in 1 .. count |-> IF k <= N THEN PointOf(m_rng.pixels[k])
                                                    ELSE m_PointsInImage[k]]
        /\ m_ErrorModel = "intervals"
    BY <1>5 DEF ComputeIntervalError, FindMatchingInImagesCoordinates, Packed, N
  <2>2. m_PointsInImage' \in [1 .. count -> Points]
    BY <1>3, <1>4, <2>1
  <2> DEFINE filled == [k \in 1 .. count |->
                          IF k <= N THEN [center |-> m_PointsInImage'[k], extent |-> m_PointsInImage'[k]]
                          ELSE boxes[k]]
  <2>3. m_BoundingBox' = [floats |-> FloatsOf(m_ErrorModel), boxes |-> filled]
    <3>1. m_BoundingBox' = [m_BoundingBox EXCEPT !.boxes =
                             [k \in DOMAIN boxes |->
                               IF k <= N THEN [center |-> m_PointsInImage'[k], extent |-> m_PointsInImage'[k]]
                               ELSE boxes[k]]]
      BY <1>5 DEF ComputeIntervalError, N, boxes
    <3> QED
      BY <1>4, <3>1
  <2>4. filled \in [1 .. count -> Boxes]
    BY <1>4, <2>2 DEF Boxes
  <2>5. \A k \in 1 .. N : k \in 1 .. count /\ k <= N
    BY <1>3
  <2>6. \A k \in 1 .. N :
          filled[k] = [center |-> PointOf(m_rng.pixels[k]), extent |-> PointOf(m_rng.pixels[k])]
    BY <2>1, <2>5
  <2> HIDE DEF filled
  <2>7. m_BoundingBox'.boxes = filled
    BY <2>3
  <2>8. FramedBoxes'
    BY <1>1, <1>2, <1>3, <2>1, <2>6, <2>7 DEF FramedBoxes, PointOf
  <2>9. BoxesOfModel'
    BY <1>1, <1>2, <2>2, <2>3, <2>4 DEF BoxesOfModel
  <2> QED
    BY <1>1, <1>2, <2>8, <2>9 DEF DisparityInv
<1>6. CASE ComputeHZError
  <2> DEFINE filled == [k \in 1 .. count |->
                          IF k <= N THEN [center |-> PointOf(m_rng.pixels[k]), extent |-> m_PointsInImage[k]]
                          ELSE boxes[k]]
  <2>1. m_PointsInImage' = m_PointsInImage /\ m_ErrorModel = "hz"
    BY <1>6 DEF ComputeHZError
  <2>3. m_BoundingBox' = [floats |-> FloatsOf(m_ErrorModel), boxes |-> filled]
    <3>1. m_BoundingBox' = [m_BoundingBox EXCEPT !.boxes =
                             [k \in DOMAIN boxes |->
                               IF k <= N THEN [center |-> PointOf(m_rng.pixels[k]), extent |-> m_PointsInImage[k]]
                               ELSE boxes[k]]]
      BY <1>6 DEF ComputeHZError, N, boxes
    <3> QED
      BY <1>4, <3>1
  <2>4. filled \in [1 .. count -> Boxes]
    <3>1. \A k \in 1 .. count : k <= N => k \in 1 .. N
      BY <1>3
    <3> QED
      BY <1>3, <1>4, <3>1 DEF Boxes
  <2>5. \A k \in 1 .. N : k \in 1 .. count /\ k <= N
    BY <1>3
  <2>6. \A k \in 1 .. N : filled[k].center = PointOf(m_rng.pixels[k])
    BY <2>5
  <2> HIDE DEF filled
  <2>7. m_BoundingBox'.boxes = filled
    BY <2>3
  <2>8. FramedBoxes'
    BY <1>1, <1>2, <1>3, <2>1, <2>6, <2>7 DEF FramedBoxes, PointOf
  <2>9. BoxesOfModel'
    BY <1>1, <1>2, <1>4, <2>1, <2>3, <2>4 DEF BoxesOfModel
  <2> QED
    BY <1>1, <1>2, <2>8, <2>9 DEF DisparityInv
<1>7. CASE m_ErrorModel \notin Models /\ UNCHANGED <<m_PointsInImage, m_BoundingBox>>
  BY <1>1, <1>2, <1>7 DEF DisparityInv, BoxesOfModel, FramedBoxes, Models
<1> QED
  BY <1>1, <1>5, <1>6, <1>7

(* The file written after a frame, and the rest of what changes points.    *)
LEMMA FileOfDarkPoints ==
  ASSUME DisparityInv, WriteToPlyFormat PROVE DisparityInv'
<1>1. /\ UNCHANGED <<inputVars, count, pointVarsOfFrame, alive, framed>>
      /\ \/ ply' = ply
         \/ /\ ply'.rows = DarkPoints
            /\ ply'.grid = [pixel \in 1 .. count |-> Row(pixel)]
  BY DEF WriteToPlyFormat
<1>2. DisparityInv /\ UNCHANGED <<parameters, m_ErrorModel, passed, count, m_rng, m_PointsInImage,
                                  m_BoundingBox, framed>>
  BY <1>1 DEF inputVars, pointVarsOfFrame
<1>3. \A pixel \in DOMAIN ply'.grid :
        IF ply'.grid[pixel] = 0 THEN pixel \notin ToSet(ply'.rows)
        ELSE ply'.rows[ply'.grid[pixel]] = pixel
  <2>1. CASE ply' = ply
    BY <2>1 DEF DisparityInv, DumpAndArgumentsAgree
  <2>2. CASE ply'.rows = DarkPoints /\ ply'.grid = [pixel \in 1 .. count |-> Row(pixel)]
    <3> DEFINE dark == m_rng.dark
    <3>1. dark \in SUBSET Nat /\ IsFiniteSet(dark) /\ DarkPoints = InOrder(dark)
      BY DarkInOrder DEF DisparityInv
    <3> HIDE DEF dark
    <3>2. /\ Cardinality(dark) \in Nat
          /\ InOrder(dark) \in [1 .. Cardinality(dark) -> dark]
          /\ \A i \in dark : /\ Before(dark, i) + 1 \in 1 .. Cardinality(dark)
                             /\ InOrder(dark)[Before(dark, i) + 1] = i
      BY <3>1, OrderOfNumbers
    <3>3. \A pixel : pixel \in dark => Row(pixel) = Before(dark, pixel) + 1 /\ Row(pixel) # 0
      BY <3>2 DEF Row, dark
    <3>4. \A pixel : pixel \notin dark => Row(pixel) = 0 /\ pixel \notin ToSet(InOrder(dark))
      BY <3>2 DEF Row, dark, ToSet
    <3> QED
      BY <2>2, <3>1, <3>2, <3>3, <3>4
  <2> QED
    BY <1>1, <2>1, <2>2
<1>4. DumpAndArgumentsAgree'
  BY <1>2, <1>3 DEF DisparityInv, DumpAndArgumentsAgree
<1> QED
  BY <1>2, <1>4 DEF DisparityInv, RangeInOrder, BoxesOfModel, FramedBoxes, PointOf

LEMMA DisparityStep ==
  ASSUME DisparityInv, [DisparityNext]_disparityVars PROVE DisparityInv'
<1>1. ASSUME NEW name \in Names, NEW value \in Values, SetDisparityParameter(name, value)
      PROVE  DisparityInv'
  BY <1>1, ParameterKeepsBoxes
<1>2. ASSUME NEW n \in PixelCounts, InitializeTheProcess(n) PROVE DisparityInv'
  <2>1. /\ count' = n /\ m_rng' = NoRange /\ m_PointsInImage' = NoMatches(n) /\ framed' = FALSE
        /\ m_BoundingBox' = NoBoxes(m_ErrorModel', n)
        /\ UNCHANGED <<parameters, m_ErrorModel, passed, ply>>
    BY <1>2 DEF InitializeTheProcess, InitializeErrorModel, inputVars
  <2>2. n \in Nat
    BY DisparityAssumption
  <2>3. RangeInOrder'
    BY <2>1, NothingInRange DEF RangeInOrder, NoRange
  <2>4. BoxesOfModel'
    BY <2>1, <2>2, NewBoxes DEF BoxesOfModel
  <2> QED
    BY <2>1, <2>2, <2>3, <2>4 DEF DisparityInv, FramedBoxes, DumpAndArgumentsAgree
<1>3. ASSUME NEW matched \in SUBSET (1 .. count), NEW dark \in SUBSET matched,
             compute_disparity_map(matched, dark)
      PROVE  DisparityInv'
  <2>1. /\ m_rng' = [frame |-> m_rng.frame + 1, pixels |-> InOrder(matched), dark |-> dark]
        /\ framed' = FALSE
        /\ UNCHANGED <<parameters, m_ErrorModel, passed, count, m_PointsInImage, m_BoundingBox, ply>>
    BY <1>3 DEF compute_disparity_map, inputVars
  <2>2. RangeInOrder'
    BY <2>1 DEF RangeInOrder, DisparityInv
  <2> QED
    BY <2>1, <2>2 DEF DisparityInv, BoxesOfModel, FramedBoxes, DumpAndArgumentsAgree
<1>4. ASSUME UNCHANGED <<parameters, m_ErrorModel, passed, count, m_rng, m_PointsInImage,
                         m_BoundingBox, ply, framed>>
      PROVE  DisparityInv'
  BY <1>4 DEF DisparityInv, RangeInOrder, BoxesOfModel, FramedBoxes, DumpAndArgumentsAgree, PointOf
<1>5. CASE ErrorBegins
  BY <1>4, <1>5 DEF ErrorBegins, inputVars, pointVarsOfFrame
<1>6. ASSUME NEW format, getRangeMap(format) PROVE DisparityInv'
  BY <1>4, <1>6 DEF getRangeMap, inputVars, pointVarsOfFrame
<1>7. CASE UNCHANGED disparityVars
  BY <1>4, <1>7 DEF disparityVars, inputVars, pointVarsOfFrame
<1>8. ASSUME DisparityNext PROVE DisparityInv'
  <2>1. CASE SetDisparityParameter("dump_mode", "ply")
    BY <1>1, <2>1 DEF Names, Values
  <2>2. CASE \E model \in Models \union {"unknown"} : SetDisparityParameter("error_model", model)
    <3>1. PICK model \in Models \union {"unknown"} : SetDisparityParameter("error_model", model)
      BY <2>2
    <3>2. model \in Values /\ "error_model" \in Names
      BY DEF Models, Values, Names
    <3> QED
      BY <1>1, <3>1, <3>2
  <2>3. CASE SetDisparityParameter("-Tmask", "")
    BY <1>1, <2>3 DEF Names, Values
  <2>4. CASE \E format \in {"PointsAndBBError", "PointsAndHZError", "XYZGrayScaleChar"} :
               getRangeMap(format)
    BY <1>6, <2>4
  <2> QED
    BY <1>2, <1>3, <1>5, <1>8, <2>1, <2>2, <2>3, <2>4, BoxesFilled, FileOfDarkPoints
    DEF DisparityNext
<1> QED
  BY <1>7, <1>8

LEMMA BoxesAreRight ==
  ASSUME DisparityInv PROVE BoxesOfTheirPoints
<1> DEFINE N == Len(m_rng.pixels)
<1>1. N \in Nat /\ N <= count /\ count \in Nat /\ DOMAIN m_rng.pixels = 1 .. N
  <2>1. PICK matched \in SUBSET (1 .. count) : m_rng.pixels = InOrder(matched)
    BY DEF DisparityInv, RangeInOrder
  <2>2. count \in Nat
    BY DEF DisparityInv
  <2> QED
    BY <2>1, <2>2, PixelsInOrder
<1>2. /\ m_BoundingBox.floats = FloatsOf(m_ErrorModel)
      /\ m_BoundingBox.boxes \in [1 .. count -> Boxes]
  BY DEF DisparityInv, BoxesOfModel
<1>3. Len(m_BoundingBox.boxes) = count
  BY <1>1, <1>2
<1> HIDE DEF N
<1>4. m_ErrorModel \in Models =>
        ~RangeMapOutOfBoxes(IF m_ErrorModel = "hz" THEN 12 ELSE 6)
  <2>1. m_ErrorModel = "hz" => ~(12 * N > 12 * count)
    BY <1>1
  <2>2. m_ErrorModel = "intervals" => ~(6 * N > 6 * count)
    BY <1>1
  <2> QED
    BY <1>2, <1>3, <2>1, <2>2 DEF RangeMapOutOfBoxes, FloatsOf, Models, N
<1>5. ASSUME framed, NEW entry \in ToSet(PointsAndBBError)
      PROVE  /\ m_ErrorModel = "intervals" =>
                  entry.box = [center |-> entry.color, extent |-> entry.color]
             /\ m_ErrorModel = "hz" => entry.box.center = entry.color
  <2>1. PICK k \in DOMAIN m_rng.pixels :
          entry = [color |-> PointOf(m_rng.pixels[k]), box |-> m_BoundingBox.boxes[k]]
    BY DEF ToSet, PointsAndBBError
  <2>2. entry.color = PointOf(m_rng.pixels[k]) /\ entry.box = m_BoundingBox.boxes[k]
    BY <2>1
  <2> QED
    BY <1>5, <2>2 DEF DisparityInv, FramedBoxes
<1> QED
  BY <1>4, <1>5 DEF BoxesOfTheirPoints

(* Every point of a range map comes with its own box, every dark point is  *)
(* in the row of the file its pixel names, and the library gets the words  *)
(* that were counted for it, for images of any size, any points of them    *)
(* and any parameters set at any time.                                     *)
THEOREM PointsRight == DisparitySpec => []PointsKeepTheirData
<1>1. DisparityInv => PointsKeepTheirData
  BY BoxesAreRight DEF DisparityInv, PointsKeepTheirData
<1> QED
  BY <1>1, DisparityStart, DisparityStep, PTL DEF DisparitySpec
=============================================================================
