--------------------------- MODULE ClientSettings ---------------------------
(***************************************************************************)
(* What clients set of a tracker, by either way: as parameters of the list *)
(* every process keeps and of the moving edges (ProcessParameters), and    *)
(* as the calibration of its camera (CameraCalibration).                   *)
(***************************************************************************)
EXTENDS ProcessParameters, CameraCalibration

(* What a client sets of a process is found again and takes effect: the    *)
(* parameters of the list, the moving edges and the camera's calibration.  *)
SettingsTakeEffect ==
  SettingsKept /\ CalibrationOfTheSettings /\ PoseOfOneCalibration
=============================================================================
