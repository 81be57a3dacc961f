---------------------------- MODULE StereoVision ----------------------------
(***************************************************************************)
(* HRP2StereoVisionProcess (src/OpenCV/StereoVisionProcess.cpp): a range   *)
(* map of two images, and the points it shows.  The library's user sets    *)
(* the images, the calibration and the algorithm in any order; flags tell  *)
(* which of the steps have been taken for the images of the moment.        *)
(***************************************************************************)
EXTENDS Naturals

CONSTANTS
  ImagePairs,      \* pairs of images: [left, right: sizes, channels]
  PairSizes,       \* sizes setImageSize may be given
  CameraFiles,     \* calibrations that can be loaded
  AlgoParameters   \* what the user may give for m_parameters

Algorithms == {"STEREO_BM", "STEREO_SGBM", "STEREO_HH", "STEREO_GC"}

ASSUME StereoVisionAssumption ==
  /\ \A pair \in ImagePairs : pair.left \in PairSizes /\ pair.right \in PairSizes
  /\ "default" \notin AlgoParameters

VARIABLES
  m_StereoAlgo, m_parameters,
  matchers,             \* m_stereoBM, m_stereoSGBM, m_stereoGCstate: their settings, or Released
  m_imgSize, m_imgSizeKnown,
  m_cameraParamLoaded, m_rectifyMap,  \* the maps: the calibration and the size they are for; m_Q too
  m_inputImagesLoaded, m_InputImages, \* the pair, and how often it was rectified
  m_imgRectified,
  m_rangeMapComputed, m_OutputImage,  \* the images it was computed from
  rectifiedAgain,       \* history: the user has the images rectified that are so already
  resized,              \* history: setImageSize was called since the images were set
  loadedSince           \* history: and the calibration loaded, without that

algorithmVars == <<m_StereoAlgo, m_parameters, matchers>>
calibrationVars == <<m_imgSize, m_imgSizeKnown, m_cameraParamLoaded, m_rectifyMap>>
pairVars == <<m_inputImagesLoaded, m_InputImages, m_imgRectified, rectifiedAgain>>
userHistories == <<resized, loadedSince>>
rangeVars == <<m_rangeMapComputed, m_OutputImage>>
stereoVisionVars == <<algorithmVars, calibrationVars, pairVars, rangeVars, userHistories>>

Released == [pair |-> "none"]
NoMaps == [calibration |-> "none", size |-> 0]

-----------------------------------------------------------------------------
(* The algorithm.                                                          *)

(* STEREO_SGBM and STEREO_HH share a matcher, with fullDP or without.  Its *)
(* penalties are for the channels of the images loaded at that time.       *)
MatcherOf(algo) == IF algo = "STEREO_HH" THEN "STEREO_SGBM" ELSE algo
Channels == IF m_inputImagesLoaded THEN m_InputImages.pair.channels ELSE 1
Configured(algo, parameters) ==
  [parameters |-> parameters, fullDP |-> algo = "STEREO_HH",
   channels |-> IF MatcherOf(algo) = "STEREO_SGBM" THEN Channels ELSE 0]

ApplyAlgorithm(algo, parameters) ==
  /\ m_StereoAlgo' = algo
  /\ m_parameters' = parameters
  /\ matchers' = [matchers EXCEPT ![MatcherOf(algo)] = Configured(algo, parameters)]
  /\ UNCHANGED <<calibrationVars, pairVars, rangeVars, userHistories>>

(* Another algorithm is given the parameters set for the one before it,    *)
(* whose meanings are others; parameters are applied to the algorithm of   *)
(* the moment.                                                             *)
setStereoAlgorithmType(algo) == ApplyAlgorithm(algo, m_parameters)
setAlgoParameters(parameters) == ApplyAlgorithm(m_StereoAlgo, parameters)

-----------------------------------------------------------------------------
(* Images and calibration.                                                 *)

setImageSize(size) ==
  /\ m_imgSize' = size /\ m_imgSizeKnown' = TRUE
  /\ resized' = TRUE /\ loadedSince' = FALSE
  /\ UNCHANGED <<algorithmVars, m_cameraParamLoaded, m_rectifyMap, pairVars, rangeVars>>

(* A file that is missing changes nothing; both are there here.            *)
loadCameraParameters(calibration) ==
  /\ m_imgSizeKnown
  /\ m_rectifyMap' = [calibration |-> calibration, size |-> m_imgSize]
  /\ m_cameraParamLoaded' = TRUE
  /\ loadedSince' = ~resized
  /\ UNCHANGED <<algorithmVars, m_imgSize, m_imgSizeKnown, pairVars, rangeVars, resized>>

(* Two images of different sizes are refused; those before them are gone,  *)
(* and so is what was known of their size.                                 *)
RangeMapKept == UNCHANGED rangeVars
FreeImages == m_rangeMapComputed' = FALSE /\ m_OutputImage' = Released
SetInputImages(pair, rectified) ==
  /\ FreeImages
  /\ m_inputImagesLoaded' = (pair.left = pair.right)
  /\ m_imgSizeKnown' = (pair.left = pair.right)
  /\ IF pair.left = pair.right
     THEN /\ m_InputImages' = [pair |-> pair, times |-> IF rectified THEN 1 ELSE 0]
          /\ m_imgSize' = pair.left
          /\ m_imgRectified' = rectified
     ELSE m_InputImages' = Released /\ m_imgRectified' = FALSE /\ UNCHANGED m_imgSize
  /\ rectifiedAgain' = FALSE /\ resized' = FALSE /\ loadedSince' = FALSE
  /\ UNCHANGED <<algorithmVars, m_cameraParamLoaded, m_rectifyMap>>

(* An image that is rectified has the size of the maps, whatever its own   *)
(* was.  The images are not looked at for being rectified already.         *)
Rectified == [m_InputImages EXCEPT !.times = IF @ = 2 THEN 2 ELSE @ + 1]
CanRectify == m_cameraParamLoaded /\ m_inputImagesLoaded
stereoRectifyImages ==
  /\ CanRectify
  /\ m_InputImages' = Rectified
  /\ m_imgRectified' = TRUE
  /\ rectifiedAgain' = (rectifiedAgain \/ m_imgRectified)
  /\ UNCHANGED <<algorithmVars, calibrationVars, m_inputImagesLoaded, rangeVars, userHistories>>

-----------------------------------------------------------------------------
(* pRealizeTheProcess, and ComputeRangeMap called by the user.             *)

ComputeRangeMap ==
  /\ m_inputImagesLoaded
  /\ IF m_imgRectified THEN UNCHANGED m_InputImages ELSE CanRectify /\ m_InputImages' = Rectified
  /\ m_imgRectified' = TRUE
  /\ m_OutputImage' = m_InputImages'
  /\ m_rangeMapComputed' = TRUE
  /\ UNCHANGED <<algorithmVars, calibrationVars, m_inputImagesLoaded, rectifiedAgain, userHistories>>

StereoVisionInit ==
  /\ m_StereoAlgo = "STEREO_SGBM" /\ m_parameters = "default"
  /\ m_InputImages = Released /\ m_inputImagesLoaded = FALSE /\ m_imgRectified = FALSE
  /\ matchers = [a \in {MatcherOf(b) : b \in Algorithms} |->
                   IF a = "STEREO_SGBM" THEN [parameters |-> "default", fullDP |-> FALSE, channels |-> 1]
                   ELSE Released]
  /\ m_imgSize = 0 /\ m_imgSizeKnown = FALSE
  /\ m_cameraParamLoaded = FALSE /\ m_rectifyMap = NoMaps
  /\ m_rangeMapComputed = FALSE /\ m_OutputImage = Released
  /\ rectifiedAgain = FALSE /\ resized = FALSE /\ loadedSince = FALSE

StereoVisionNext ==
  \/ \E algo \in Algorithms : setStereoAlgorithmType(algo)
  \/ \E parameters \in AlgoParameters : setAlgoParameters(parameters)
  \/ \E size \in PairSizes : setImageSize(size)
  \/ \E calibration \in CameraFiles : loadCameraParameters(calibration)
  \/ \E pair \in ImagePairs, rectified \in BOOLEAN : SetInputImages(pair, rectified)
  \/ stereoRectifyImages
  \/ ComputeRangeMap

StereoVisionSpec == StereoVisionInit /\ [][StereoVisionNext]_stereoVisionVars

-----------------------------------------------------------------------------
(* Properties.                                                             *)

(* A range map that can be had is of the images set last, each rectified   *)
(* once unless the user rectified them again; and a calibration loaded     *)
(* after them is for their size, as the comment in SetInputImages asks.    *)
RangeMapOfTheImages ==
  /\ m_rangeMapComputed =>
       /\ m_inputImagesLoaded /\ m_OutputImage.pair = m_InputImages.pair
       /\ m_OutputImage.times = 1 \/ rectifiedAgain
  /\ m_inputImagesLoaded /\ loadedSince => m_rectifyMap.size = m_InputImages.pair.left

(* The matcher of the algorithm has the parameters that were set last, and *)
(* goes over all directions for STEREO_HH alone.                           *)
MatcherAsSet ==
  LET matcher == matchers[MatcherOf(m_StereoAlgo)] IN
  /\ matcher.parameters = m_parameters
  /\ matcher.fullDP = (m_StereoAlgo = "STEREO_HH")

StereoVisionOK == RangeMapOfTheImages /\ MatcherAsSet
=============================================================================
