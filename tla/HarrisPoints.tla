---------------------------- MODULE HarrisPoints ----------------------------
(***************************************************************************)
(* The feature points of HRP2OpticalFlowProcess.  The Harris image of a    *)
(* frame is divided into square tiles; its points are taken from the       *)
(* strongest on, and one is accepted if its tile has room and no point     *)
(* accepted before is too near.  The optical flow then leads from each     *)
(* point of the frame before to a tile of this one, where its match is     *)
(* looked for.                                                             *)
(*                                                                         *)
(* The strengths only give the order of the points and which pairs may     *)
(* match: points are considered in every order and every pair may match.   *)
(* The Harris image, the flow and the allocation of the tiles are libmmx's:*)
(* as many tiles as are whole in the image, is what is assumed of it.  The *)
(* rest of an image that is no whole number of tiles has no tiles of its   *)
(* own: the number of a point there is a tile's of the next row, or is     *)
(* past the end of the array.                                              *)
(***************************************************************************)
EXTENDS Integers, FiniteSets

CONSTANTS
  HarrisWidth, HarrisHeight,   \* of the Harris image
  Border,                      \* how much wider and higher the image itself is
  Ratios,                      \* the sizes of a tile a client may set
  SeparationSpace,
  MaxNbOfFeaturesByTile,
  MaxNumberOfPoints,
  Flows                        \* the displacements <<x, y>> of the optical flow

ASSUME HarrisAssumption ==
  /\ {HarrisWidth, HarrisHeight, MaxNbOfFeaturesByTile} \subseteq Nat \ {0}
  /\ {Border, SeparationSpace, MaxNumberOfPoints} \subseteq Nat
  /\ Ratios \subseteq Int
  /\ Flows \subseteq Int \X Int

Points == (0 .. HarrisWidth - 1) \X (0 .. HarrisHeight - 1)

VARIABLES
  m_SizeOfTheImage,       \* the size of a tile as set last
  TilingDownSize,         \* and as the tiles were allocated
  m_ImageOfTiles,         \* the points of each tile
  NbAcceptedPoints,
  m_PreviousImageOfTiles

harrisVars == <<m_SizeOfTheImage, TilingDownSize, m_ImageOfTiles, NbAcceptedPoints,
                m_PreviousImageOfTiles>>

TilesWide == HarrisWidth \div TilingDownSize
TilesHigh == HarrisHeight \div TilingDownSize
TileOf(x, y) == (y \div TilingDownSize) * TilesWide + x \div TilingDownSize
EmptyTiles(size) ==
  [t \in 0 .. (HarrisWidth \div size) * (HarrisHeight \div size) - 1 |-> {}]
PointsIn(tiles) == UNION {tiles[t] : t \in DOMAIN tiles}

InWholeTile(p) ==
  p \in Points /\ p[1] \div TilingDownSize < TilesWide /\ p[2] \div TilingDownSize < TilesHigh

Distance2(p, q) == (p[1] - q[1]) * (p[1] - q[1]) + (p[2] - q[2]) * (p[2] - q[2])
TooNear(p, q) == Distance2(p, q) <= SeparationSpace * SeparationSpace

-----------------------------------------------------------------------------
OwnTileOnly(p) ==
  TileOf(p[1], p[2]) \in DOMAIN m_ImageOfTiles =>
    \A q \in m_ImageOfTiles[TileOf(p[1], p[2])] : ~TooNear(p, q)

(* The tiles up to SeparationSpace / TilingDownSize away are looked at.    *)
HarrisAdmitPointBasedOnNeighbor(p) ==
  LET w == SeparationSpace \div TilingDownSize
      tx == p[1] \div TilingDownSize
      ty == p[2] \div TilingDownSize
      Within(n, t, last) == n >= t - w /\ n <= t + w /\ n \in 0 .. last - 1
  IN  \A m \in 0 .. TilesWide - 1, n \in 0 .. TilesHigh - 1 :
        Within(m, tx, TilesWide) /\ Within(n, ty, TilesHigh) =>
          \A q \in m_ImageOfTiles[n * TilesWide + m] : ~TooNear(p, q)

(* HarrisFilterFeaturePoints accepts its next point; it ends only when     *)
(* there is one point more than MaxNumberOfPoints.                         *)
HarrisFilterFeaturePoints(p) ==
  LET t == TileOf(p[1], p[2]) IN
  /\ NbAcceptedPoints <= MaxNumberOfPoints /\ t \in DOMAIN m_ImageOfTiles
  /\ Cardinality(m_ImageOfTiles[t]) < MaxNbOfFeaturesByTile
  /\ HarrisAdmitPointBasedOnNeighbor(p)
  /\ m_ImageOfTiles' = [m_ImageOfTiles EXCEPT ![t] = @ \union {p}]
  /\ NbAcceptedPoints' = NbAcceptedPoints + 1
  /\ UNCHANGED <<m_SizeOfTheImage, TilingDownSize, m_PreviousImageOfTiles>>

(* Past the end of the array it is counted, if what lies there lets it be  *)
(* accepted, and no tile has it; what it is written over is not modelled.  *)
AcceptPastTheTiles(p) ==
  /\ NbAcceptedPoints <= MaxNumberOfPoints /\ TileOf(p[1], p[2]) \notin DOMAIN m_ImageOfTiles
  /\ HarrisAdmitPointBasedOnNeighbor(p)
  /\ NbAcceptedPoints' = NbAcceptedPoints + 1
  /\ UNCHANGED <<m_SizeOfTheImage, TilingDownSize, m_ImageOfTiles, m_PreviousImageOfTiles>>

(* The frame's points are those of the frame before from now on.           *)
FilteringHarrisPoint ==
  /\ m_PreviousImageOfTiles' = m_ImageOfTiles
  /\ m_ImageOfTiles' = EmptyTiles(TilingDownSize) /\ NbAcceptedPoints' = 0
  /\ UNCHANGED <<m_SizeOfTheImage, TilingDownSize>>

-----------------------------------------------------------------------------
(* CreateMatchingBetween2ConsequentViews, for a flow of the whole image.   *)

(* The flow must lead into the image, which is larger than the Harris one. *)
InTheImage(x, y) == x \in 0 .. HarrisWidth + Border - 1 /\ y \in 0 .. HarrisHeight + Border - 1

(* The points of the tile it leads to, in an array of rows of tiles.  Past *)
(* the array's end there may be anything, and no match is modelled.        *)
Candidates(x, y) ==
  IF InTheImage(x, y) /\ TileOf(x, y) \in DOMAIN m_ImageOfTiles
  THEN m_ImageOfTiles[TileOf(x, y)] ELSE {}

(* The matches, each with where the flow led.                              *)
Matches(flow) ==
  UNION {LET target == <<p[1] + flow[1], p[2] + flow[2]>>
         IN  {<<target, q>> : q \in Candidates(target[1], target[2])}
         : p \in PointsIn(m_PreviousImageOfTiles)}

-----------------------------------------------------------------------------
(* SetParameter("RatioHarrisImage"), of any integer but -1, and the next   *)
(* initialisation or clean-up allocates the tiles.  Of a size that is not  *)
(* positive there are none, and the first division by it ends the server.  *)
SetRatioHarrisImage(size) ==
  /\ size # -1
  /\ m_SizeOfTheImage' = size
  /\ UNCHANGED <<TilingDownSize, m_ImageOfTiles, NbAcceptedPoints, m_PreviousImageOfTiles>>

AllocateOpticalFlowStructures ==
  /\ m_SizeOfTheImage > 0
  /\ TilingDownSize' = m_SizeOfTheImage
  /\ m_ImageOfTiles' = EmptyTiles(m_SizeOfTheImage) /\ NbAcceptedPoints' = 0
  /\ m_PreviousImageOfTiles' = EmptyTiles(m_SizeOfTheImage)
  /\ UNCHANGED m_SizeOfTheImage

HarrisInit ==
  /\ m_SizeOfTheImage \in Ratios /\ m_SizeOfTheImage > 0 /\ TilingDownSize = m_SizeOfTheImage
  /\ m_ImageOfTiles = EmptyTiles(m_SizeOfTheImage) /\ NbAcceptedPoints = 0
  /\ m_PreviousImageOfTiles = m_ImageOfTiles

HarrisNext ==
  \/ FilteringHarrisPoint \/ AllocateOpticalFlowStructures
  \/ \E p \in Points : HarrisFilterFeaturePoints(p) \/ AcceptPastTheTiles(p)
  \/ \E size \in Ratios : SetRatioHarrisImage(size)

HarrisSpec == HarrisInit /\ [][HarrisNext]_harrisVars

-----------------------------------------------------------------------------
(* Properties.                                                             *)

(* The points of a frame that are in whole tiles are more than             *)
(* SeparationSpace from each other, across the borders of the tiles too,   *)
(* if a whole number of tiles makes up that distance: w is rounded down.   *)
(* The size of a tile is the client's, the separation is not.              *)
PointsSeparated ==
  SeparationSpace % TilingDownSize = 0 =>
    \A p, q \in PointsIn(m_ImageOfTiles) :
      InWholeTile(p) /\ InWholeTile(q) /\ p # q => ~TooNear(p, q)

(* A match is less than a tile away from where the flow led, if both are   *)
(* in whole tiles: beyond them, in the border the Harris image has not     *)
(* too, the tile is one of the next row, at the other side of the image.   *)
MatchesWhereFlowLeads ==
  \A flow \in Flows : \A m \in Matches(flow) :
    InWholeTile(m[1]) /\ InWholeTile(m[2]) =>
      /\ m[1][1] - m[2][1] < TilingDownSize /\ m[2][1] - m[1][1] < TilingDownSize
      /\ m[1][2] - m[2][2] < TilingDownSize /\ m[2][2] - m[1][2] < TilingDownSize

HarrisPointsOK == PointsSeparated /\ MatchesWhereFlowLeads
=============================================================================
