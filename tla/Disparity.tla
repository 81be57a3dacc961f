------------------------------ MODULE Disparity ------------------------------
(***************************************************************************)
(* The 3D points of HRP2DisparityProcess, the boxes of its error model,    *)
(* and getRangeMap, which puts both in one reply.  The range data lists    *)
(* the points in the order of their pixels; the boxes are found by the     *)
(* place of a point in this list.  A client's thread sets parameters and   *)
(* the size of the images, and asks for the range map, while the loop is   *)
(* in a frame, with no lock.                                               *)
(***************************************************************************)
EXTENDS Naturals, SequencesExt, Selection

CONSTANTS
  PixelCounts,      \* the sizes of an image, width times height
  FirstCount,       \* the size at the start
  MaxFrame,         \* bound: frames told apart
  MaxParameters     \* bound: parameters set

ASSUME DisparityAssumption ==
  /\ PixelCounts \subseteq Nat \ {0} /\ FirstCount \in PixelCounts
  /\ MaxFrame \in Nat \ {0} /\ MaxParameters \in Nat

None == [frame |-> 0, pixel |-> 0]      \* of no frame: what memory held before
Models == {"intervals", "hz"}
DumpModes == {"off", "matching", "ply", "rangedata", "rd_ply"}

VARIABLES
  parameters,           \* m_VectorOfParameters and -OfValuesForParameters, in order
  m_UseErrorModel, m_ErrorModel, m_ModeToDumpMatching3DPoints,
  passed,               \* what the last SetParameter gave to the library
  count,                \* m_Depbm.Width * m_Depbm.Height, as of m_InputImage
  m_rng,                \* the range data: its points, and the dark ones of them
  m_PointsInImage,      \* m_PointsInImageLeft and -Right
  m_BoundingBox,        \* its points, and the floats of each
  loop,                 \* where the frame is
  ply,                  \* the last file of WriteToPlyFormat
  alive,                \* the server has not died
  framed                \* history: the boxes of the last frame are untouched

inputVars == <<parameters, m_UseErrorModel, m_ErrorModel, m_ModeToDumpMatching3DPoints, passed>>
pointVarsOfFrame == <<m_rng, m_PointsInImage, m_BoundingBox>>
disparityVars == <<inputVars, count, pointVarsOfFrame, loop, ply, alive, framed>>

NoMatches(n) == [k \in 1 .. n |-> None]
NoRange == [frame |-> 0, pixels |-> <<>>, dark |-> {}]
NoPly == [header |-> 0, rows |-> <<>>, grid |-> <<>>]

(* A box has a center and the extent around it, of one point each.         *)
NoBoxes(model, n) ==
  [floats |-> CASE model = "intervals" -> 6 [] model = "hz" -> 12 [] OTHER -> 0,
   boxes |-> [k \in 1 .. n |-> [center |-> None, extent |-> None]]]

-----------------------------------------------------------------------------
(* SetParameter.                                                           *)

Found(name) == {k \in DOMAIN parameters : parameters[k].name = name}

(* What the process does not keep for itself goes to the library, a name   *)
(* and then its value; a first pass over the parameters counts them.       *)
Own == {"dump_mode", "error_model"}
Named(list) == {k \in DOMAIN list : list[k].name \notin Own}
Valued(list) == {k \in Named(list) : list[k].value # ""}
Counted(list) == 1 + Cardinality(Named(list)) + Cardinality(Valued(list))

(* The name of a parameter has an odd number, its value the next one.      *)
Words(list) == {2 * k - 1 : k \in Named(list)} \cup {2 * k : k \in Valued(list)}
WordOf(list, w) == IF w % 2 = 1 THEN list[(w + 1) \div 2].name ELSE list[w \div 2].value
Arguments(list) ==
  <<"Disparity">> \o [n \in 1 .. Cardinality(Words(list)) |-> WordOf(list, InOrder(Words(list))[n])]

(* Every parameter is read again, also those set before; a value the       *)
(* process does not know leaves what there was.                            *)
LastKnown(list, name, known, old) ==
  LET places == {k \in DOMAIN list : list[k].name = name /\ list[k].value \in known}
  IN  IF places = {} THEN old
      ELSE list[CHOOSE k \in places : \A l \in places : l <= k].value

(* InitializeErrorModel deletes the boxes and allocates new ones, though   *)
(* the loop may be writing to them.                                        *)
InitializeErrorModel(model, n) ==
  /\ m_BoundingBox' = NoBoxes(model, n)
  /\ alive' = (loop # "boxing")

SetDisparityParameter(name, value) ==
  /\ alive
  /\ Found(name) = {} => Len(parameters) < MaxParameters
  /\ LET p == [name |-> name, value |-> value] IN
     parameters' = IF Found(name) = {} THEN Append(parameters, p)
                   ELSE [k \in DOMAIN parameters |-> IF k \in Found(name) THEN p ELSE parameters[k]]
  /\ m_ModeToDumpMatching3DPoints' =
       LastKnown(parameters', "dump_mode", DumpModes, m_ModeToDumpMatching3DPoints)
  /\ m_ErrorModel' = LastKnown(parameters', "error_model", Models, m_ErrorModel)
  /\ passed' = [argc |-> Counted(parameters'), argv |-> Arguments(parameters')]
  /\ IF \E p \in ToSet(parameters') : p.name = "error_model" /\ p.value # ""
     THEN /\ m_UseErrorModel' = TRUE
          /\ InitializeErrorModel(m_ErrorModel', count)
          /\ framed' = FALSE
     ELSE UNCHANGED <<m_UseErrorModel, m_BoundingBox, alive, framed>>
  /\ UNCHANGED <<count, m_rng, m_PointsInImage, loop, ply>>

(* SetImagesGrabbedSize makes the process begin anew for its images.       *)
InitializeTheProcess(n) ==
  /\ alive
  /\ count' = n
  /\ m_rng' = NoRange
  /\ m_PointsInImage' = NoMatches(n)
  /\ InitializeErrorModel(m_ErrorModel, n)
  /\ framed' = FALSE
  /\ UNCHANGED <<inputVars, loop, ply>>

-----------------------------------------------------------------------------
(* RealizeTheProcess.                                                      *)

(* compute_disparity_map finds some of the pixels in the other image, and  *)
(* makes the list of their points.                                         *)
compute_disparity_map(matched, dark) ==
  /\ alive /\ loop = "idle" /\ m_rng.frame < MaxFrame
  /\ m_rng' = [frame |-> m_rng.frame + 1, pixels |-> InOrder(matched), dark |-> dark]
  /\ loop' = IF m_UseErrorModel THEN "model" ELSE "dump"
  /\ framed' = FALSE
  /\ UNCHANGED <<inputVars, count, m_PointsInImage, m_BoundingBox, ply, alive>>

(* The loops over the boxes take the pointer when they begin.              *)
ErrorBegins ==
  /\ alive /\ loop = "model"
  /\ loop' = "boxing"
  /\ UNCHANGED <<inputVars, count, pointVarsOfFrame, ply, alive, framed>>

PointOf(pixel) == [frame |-> m_rng.frame, pixel |-> pixel]

(* FindMatchingInImagesCoordinates goes over the disparity image itself,   *)
(* which has the same pixels, and leaves no gap for those without.         *)
Packed ==
  [k \in 1 .. count |-> IF k <= Len(m_rng.pixels) THEN PointOf(m_rng.pixels[k]) ELSE m_PointsInImage[k]]
AtTheirPixels ==
  [k \in 1 .. count |-> IF k \in ToSet(m_rng.pixels) THEN PointOf(k) ELSE m_PointsInImage[k]]
FindMatchingInImagesCoordinates == Packed

ComputeIntervalError ==
  /\ m_ErrorModel = "intervals"
  /\ m_PointsInImage' = FindMatchingInImagesCoordinates
  /\ m_BoundingBox' = [m_BoundingBox EXCEPT !.boxes =
       [k \in DOMAIN @ |-> IF k <= Len(m_rng.pixels)
                           THEN [center |-> m_PointsInImage'[k], extent |-> m_PointsInImage'[k]]
                           ELSE @[k]]]

(* The covariance comes from the points of the last frame of the other     *)
(* model.                                                                  *)
ComputeHZError ==
  /\ m_ErrorModel = "hz"
  /\ m_BoundingBox' = [m_BoundingBox EXCEPT !.boxes =
       [k \in DOMAIN @ |-> IF k <= Len(m_rng.pixels)
                           THEN [center |-> PointOf(m_rng.pixels[k]), extent |-> m_PointsInImage[k]]
                           ELSE @[k]]]
  /\ UNCHANGED m_PointsInImage

ErrorOfModel ==
  /\ alive /\ loop = "boxing"
  /\ loop' = "dump"
  /\ \/ ComputeIntervalError \/ ComputeHZError
     \/ m_ErrorModel \notin Models /\ UNCHANGED <<m_PointsInImage, m_BoundingBox>>
  /\ framed' = TRUE
  /\ UNCHANGED <<inputVars, count, m_rng, ply, alive>>

(* The file's header counts every point, its rows are the dark ones, and   *)
(* its grid has the number of its row for each dark point.                 *)
DarkPoints == Selected(m_rng.pixels, m_rng.dark)
Row(pixel) == IF pixel \in m_rng.dark THEN Before(m_rng.dark, pixel) + 1 ELSE 0
WriteToPlyFormat ==
  /\ alive /\ loop = "dump"
  /\ loop' = "idle"
  /\ ply' = IF m_ModeToDumpMatching3DPoints \in {"ply", "rd_ply"}
            THEN [header |-> Len(m_rng.pixels), rows |-> DarkPoints,
                  grid |-> [pixel \in 1 .. count |-> Row(pixel)]]
            ELSE ply
  /\ UNCHANGED <<inputVars, count, pointVarsOfFrame, alive, framed>>

-----------------------------------------------------------------------------
(* getRangeMap, of the server: each entry is the color of a point and the  *)
(* box at its place.                                                       *)
PointsAndBBError ==
  [k \in DOMAIN m_rng.pixels |->
     [color |-> PointOf(m_rng.pixels[k]), box |-> m_BoundingBox.boxes[k]]]

(* The floats the format reads for each point; there may be fewer.         *)
RangeMapOutOfBoxes(floats) ==
  floats * Len(m_rng.pixels) > m_BoundingBox.floats * Len(m_BoundingBox.boxes)

getRangeMap(format) ==
  /\ alive
  /\ alive' = ~RangeMapOutOfBoxes(CASE format = "PointsAndBBError" -> 6
                                    [] format = "PointsAndHZError" -> 12
                                    [] OTHER -> 0)
  /\ UNCHANGED <<inputVars, count, pointVarsOfFrame, loop, ply, framed>>

-----------------------------------------------------------------------------
(* The constructor sets three parameters of the library's; the error model *)
(* is whatever was there.                                                  *)
DisparityInit ==
  /\ parameters = <<[name |-> "-w", value |-> "31"]>>
  /\ m_UseErrorModel = FALSE /\ m_ErrorModel \in Models \cup {"unknown"}
  /\ m_ModeToDumpMatching3DPoints = "off"
  /\ passed = [argc |-> Counted(parameters), argv |-> Arguments(parameters)]
  /\ count = FirstCount
  /\ m_rng = NoRange
  /\ m_PointsInImage = NoMatches(FirstCount)
  /\ m_BoundingBox = NoBoxes(m_ErrorModel, FirstCount)
  /\ loop = "idle" /\ ply = NoPly /\ alive = TRUE /\ framed = FALSE

DisparityNext ==
  \/ SetDisparityParameter("dump_mode", "ply")
  \/ \E model \in Models \cup {"unknown"} : SetDisparityParameter("error_model", model)
  \/ SetDisparityParameter("-Tmask", "")
  \/ \E n \in PixelCounts : InitializeTheProcess(n)
  \/ \E matched \in SUBSET (1 .. count) : \E dark \in SUBSET matched : compute_disparity_map(matched, dark)
  \/ ErrorBegins \/ ErrorOfModel \/ WriteToPlyFormat
  \/ \E format \in {"PointsAndBBError", "PointsAndHZError", "XYZGrayScaleChar"} : getRangeMap(format)

DisparitySpec == DisparityInit /\ [][DisparityNext]_disparityVars

-----------------------------------------------------------------------------
(* Properties.                                                             *)

(* A reply of getRangeMap never gives a point the box of another: the box  *)
(* of a point is its own, of its own frame, unless a frame is under way    *)
(* or the boxes were allocated anew since.  The boxes of one model are     *)
(* never read past their end for its own format.                           *)
BoxesOfTheirPoints ==
  alive /\ m_ErrorModel \in Models =>
    /\ ~RangeMapOutOfBoxes(IF m_ErrorModel = "hz" THEN 12 ELSE 6)
    /\ framed /\ m_ErrorModel = "intervals" =>
         \A entry \in ToSet(PointsAndBBError) :
           entry.box = [center |-> entry.color, extent |-> entry.color]
    /\ framed /\ m_ErrorModel = "hz" =>
         \A entry \in ToSet(PointsAndBBError) : entry.box.center = entry.color

(* The library is given as many arguments as the first pass counted, and a *)
(* dark point is in the row of the file its pixel of the grid names.       *)
DumpAndArgumentsAgree ==
  /\ Len(passed.argv) = passed.argc
  /\ \A pixel \in DOMAIN ply.grid :
       IF ply.grid[pixel] = 0 THEN pixel \notin ToSet(ply.rows) ELSE ply.rows[ply.grid[pixel]] = pixel

(* What is kept of a point, its box and its row, stays with it.            *)
PointsKeepTheirData == BoxesOfTheirPoints /\ DumpAndArgumentsAgree
=============================================================================
