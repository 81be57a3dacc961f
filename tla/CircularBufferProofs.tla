------------------------ MODULE CircularBufferProofs ------------------------
(***************************************************************************)
(* Theorems about CircularBuffer, for every ring size, every set of        *)
(* readers and every number of frames.                                     *)
(*                                                                         *)
(* The argument is one sum.  While nobody writes it, slot i holds frame    *)
(* Held(i), which depends only on the index and on the number of saved     *)
(* frames; a reader's slot still holds the frame it came for as long as    *)
(* fewer than Size frames were saved since, and is not being overwritten   *)
(* as long as fewer than Size - 1 were.                                    *)
(***************************************************************************)
EXTENDS CircularBuffer, TLAPS

(* The frame in slot i; not positive for a slot never written yet.         *)
Held(i) == Saved - m_IndexBuffer + 1 + i - (IF i < m_IndexBuffer THEN 0 ELSE Size)

Content(i) == IF Held(i) > 0 THEN Held(i) ELSE 0

SlotInv(i) ==
  IF i = m_IndexBuffer /\ wpc = "cMo" THEN slot[i].image = m_Datum
  ELSE IF i = m_IndexBuffer /\ wpc \in {"unlock", "index"} THEN slot[i] = Whole(m_Datum)
  ELSE slot[i] = Whole(Content(i))

Unlapped(r, now) == now - seen[r] < Size - 1

ReaderInv(r) ==
  /\ rpc[r] \in {"lock", "image", "cMo"} =>
       /\ seen[r] <= Saved
       /\ Saved - seen[r] < Size => Held(lSlot[r]) = seen[r]
  /\ rpc[r] = "cMo" /\ Unlapped(r, Saved) => m_CBTD[Servant[r]].image = seen[r]
  /\ rpc[r] \in {"unlock", "replyImage", "replyPose"} /\ Unlapped(r, until[r]) =>
       m_CBTD[Servant[r]] = Whole(seen[r])
  /\ rpc[r] = "replyPose" /\ Unlapped(r, until[r]) => reply[r].image = seen[r]
  /\ rpc[r] = "idle" /\ Unlapped(r, until[r]) => reply[r] = Whole(seen[r])

TypeInv == TypeOK /\ WriterIndexInRing /\ (wpc # "idle" => m_Datum > 0)

IInv ==
  /\ TypeInv
  /\ \A i \in Slots : SlotInv(i)
  /\ \A r \in Readers : ReaderInv(r)

(* One call at a time on each servant.                                     *)
ServantOfItsOwn == \A q, r \in Readers : Servant[q] = Servant[r] => q = r

-----------------------------------------------------------------------------

LEMMA TypeInit == Init => TypeInv
  BY SizeAssumption, ThreadAssumption
  DEF Init, TypeInv, TypeOK, WriterIndexInRing, Slots, Datum, Whole

LEMMA SavedType == TypeInv => Saved \in Nat
  BY DEF TypeInv, TypeOK, Saved

LEMMA TypeStep == TypeInv /\ [Next]_vars => TypeInv'
<1> SUFFICES ASSUME TypeInv, [Next]_vars PROVE TypeInv'
  OBVIOUS
<1>0. Saved \in Nat
  BY SavedType
<1> USE SizeAssumption, ThreadAssumption, MaxFramesAssumption
    DEF TypeInv, TypeOK, WriterIndexInRing, Slots, Datum, WriterAt, ReaderAt,
        writerVars, readerVars
<1>1. CASE Realize
  BY <1>1 DEF Realize
<1>2. CASE SaveData
  <2>1. CASE TryLock
    BY <2>1 DEF TryLock
  <2>2. CASE SaveImage
    BY <2>2 DEF SaveImage
  <2>3. CASE SavePose
    BY <2>3 DEF SavePose
  <2>4. CASE SaveUnlock
    BY <2>4 DEF SaveUnlock
  <2>5. CASE NextIndex
    BY <2>5 DEF NextIndex
  <2>6. CASE Wrap
    BY <2>6 DEF Wrap
  <2>7. QED
    BY <1>2, <2>1, <2>2, <2>3, <2>4, <2>5, <2>6 DEF SaveData
<1>3. ASSUME NEW r \in Readers, TakeIndex(r) PROVE TypeInv'
  BY <1>0, <1>3, SMTT(30) DEF TakeIndex, SlotBefore
<1>4. ASSUME NEW r \in Readers, ReadData(r) PROVE TypeInv'
  <2>1. CASE Lock(r)
    BY <2>1 DEF Lock
  <2>2. CASE ReadImage(r)
    BY <2>2 DEF ReadImage
  <2>3. CASE ReadPose(r)
    <3>1. until' \in [Readers -> Nat]
      BY <1>0, <2>3 DEF ReadPose
    <3>2. m_CBTD' \in [Servants -> Datum]
      BY <2>3 DEF ReadPose
    <3>3. QED
      BY <2>3, <3>1, <3>2 DEF ReadPose
  <2>4. CASE Unlock(r)
    BY <2>4 DEF Unlock
  <2>5. CASE ReplyImage(r)
    BY <2>5 DEF ReplyImage
  <2>6. CASE ReplyPose(r)
    BY <2>6 DEF ReplyPose
  <2>7. QED
    BY <1>4, <2>1, <2>2, <2>3, <2>4, <2>5, <2>6 DEF ReadData
<1>5. CASE UNCHANGED vars
  BY <1>5 DEF vars
<1>6. QED
  BY <1>1, <1>2, <1>3, <1>4, <1>5 DEF Next

(* Every variable keeps its type, and SaveData writes inside the ring.     *)
THEOREM TypeCorrect == Spec => [](TypeOK /\ WriterIndexInRing)
<1>1. TypeInv => TypeOK /\ WriterIndexInRing
  BY DEF TypeInv
<1>2. QED
  BY TypeInit, TypeStep, <1>1, PTL DEF Spec

-----------------------------------------------------------------------------
(* A step of a reader leaves the writer and the slots alone.               *)
LEMMA ReaderKeepsSlots ==
  ASSUME NEW r \in Readers, TakeIndex(r) \/ ReadData(r)
  PROVE  UNCHANGED <<m_IndexBuffer, m_Datum, wpc, slot>>
  BY DEF TakeIndex, ReadData, Lock, ReadImage, ReadPose, Unlock, ReplyImage,
         ReplyPose, writerVars

LEMMA HeldAfterNextIndex ==
  ASSUME TypeInv, NextIndex, NEW i \in Slots
  PROVE  /\ Saved = m_Datum - 1 /\ Saved' = Saved + 1
         /\ i # m_IndexBuffer => Held(i)' = Held(i)
         /\ i = m_IndexBuffer => Held(i)' = m_Datum /\ Held(i) = m_Datum - Size
<1>1. /\ m_Datum \in Nat /\ m_Datum' = m_Datum
      /\ m_IndexBuffer \in 0 .. Size - 1 /\ m_IndexBuffer' = m_IndexBuffer + 1
      /\ wpc = "index" /\ wpc' = "wrap"
  BY DEF NextIndex, WriterAt, TypeInv, TypeOK, WriterIndexInRing, Slots
<1>2. Saved = m_Datum - 1 /\ Saved' = m_Datum
  BY <1>1 DEF Saved
<1>3. QED
  BY <1>1, <1>2, SizeAssumption DEF Held, Slots

LEMMA HeldAfterWrap ==
  ASSUME TypeInv, Wrap, NEW i \in Slots
  PROVE  Saved' = Saved /\ Held(i)' = Held(i)
<1>1. /\ m_Datum \in Nat /\ m_Datum' = m_Datum
      /\ m_IndexBuffer \in 0 .. Size
      /\ m_IndexBuffer' = IF m_IndexBuffer = Size THEN 0 ELSE m_IndexBuffer
      /\ wpc = "wrap" /\ wpc' = "idle"
  BY DEF Wrap, WriterAt, TypeInv, TypeOK
<1>2. Saved = m_Datum /\ Saved' = m_Datum
  BY <1>1 DEF Saved
<1>3. QED
  BY <1>1, <1>2, SizeAssumption DEF Held, Slots

LEMMA SlotStep ==
  ASSUME TypeInv, \A i \in Slots : SlotInv(i), [Next]_vars, NEW i \in Slots
  PROVE  SlotInv(i)'
<1>1. CASE NextIndex
  <2>1. /\ wpc = "index" /\ wpc' = "wrap" /\ UNCHANGED <<slot, m_Datum>>
        /\ m_Datum > 0 /\ m_Datum \in Nat
    BY <1>1 DEF NextIndex, WriterAt, TypeInv, TypeOK
  <2>2. CASE i = m_IndexBuffer
    BY <1>1, <2>1, <2>2, HeldAfterNextIndex DEF SlotInv, Content, Whole
  <2>3. CASE i # m_IndexBuffer
    BY <1>1, <2>1, <2>3, HeldAfterNextIndex DEF SlotInv, Content, Whole
  <2>4. QED
    BY <2>2, <2>3
<1>2. CASE Wrap
  <2>1. wpc = "wrap" /\ wpc' = "idle" /\ UNCHANGED slot
    BY <1>2 DEF Wrap, WriterAt
  <2>2. QED
    BY <1>2, <2>1, HeldAfterWrap DEF SlotInv, Content, Whole
<1> USE SizeAssumption DEF TypeInv, TypeOK, WriterIndexInRing, Slots, Datum, Whole,
        SlotInv, Content, Held, Saved, WriterAt
<1>3. CASE Realize
  BY <1>3 DEF Realize
<1>4. CASE TryLock
  BY <1>4 DEF TryLock
<1>5. CASE SaveImage
  BY <1>5 DEF SaveImage
<1>6. CASE SavePose
  BY <1>6 DEF SavePose
<1>7. CASE SaveUnlock
  BY <1>7 DEF SaveUnlock
<1>8. ASSUME NEW r \in Readers, TakeIndex(r) \/ ReadData(r) PROVE SlotInv(i)'
  BY <1>8, ReaderKeepsSlots
<1>9. CASE UNCHANGED vars
  BY <1>9 DEF vars
<1>10. QED
  BY <1>1, <1>2, <1>3, <1>4, <1>5, <1>6, <1>7, <1>8, <1>9 DEF Next, SaveData

(* A reader close behind the writer has in its slot the frame it came for. *)
LEMMA SlotOfReader ==
  ASSUME TypeInv, NEW r \in Readers, SlotInv(lSlot[r]), ReaderInv(r),
         rpc[r] \in {"image", "cMo"}, Unlapped(r, Saved)
  PROVE  slot[lSlot[r]] = Whole(seen[r])
<1>1. Held(lSlot[r]) = seen[r]
  BY SavedType, SizeAssumption DEF ReaderInv, Unlapped, TypeInv, TypeOK
<1>2. CASE lSlot[r] = m_IndexBuffer
  <2>1. Saved \in Nat /\ lSlot[r] \in 0 .. Size - 1 /\ seen[r] \in Nat
    BY SavedType DEF TypeInv, TypeOK, Slots
  <2>2. Saved - seen[r] = Size - 1
    BY <1>1, <1>2, <2>1, SizeAssumption DEF Held
  <2>3. QED
    BY <2>1, <2>2, SizeAssumption DEF Unlapped
<1>3. CASE lSlot[r] # m_IndexBuffer
  BY <1>1, <1>3 DEF SlotInv, Content, TypeInv, TypeOK
<1>4. QED
  BY <1>2, <1>3

LEMMA ReaderWriterStep ==
  ASSUME TypeInv, NEW r \in Readers, ReaderInv(r), Realize \/ SaveData
  PROVE  ReaderInv(r)'
<1>1. /\ UNCHANGED readerVars /\ lSlot[r] \in Slots
      /\ Saved \in Nat /\ seen[r] \in Nat
  BY SavedType DEF SaveData, Realize, TryLock, SaveImage, SavePose, SaveUnlock,
     NextIndex, Wrap, TypeInv, TypeOK
<1>2. CASE NextIndex
  <2>1. Saved' = Saved + 1
    BY <1>2, <1>1, HeldAfterNextIndex
  <2>2. CASE lSlot[r] = m_IndexBuffer
    <3>1. Held(lSlot[r]) = Saved' - Size
      BY <1>1, <1>2, <2>1, <2>2, HeldAfterNextIndex, SizeAssumption DEF TypeInv, TypeOK
    <3>2. QED
      BY <1>1, <2>1, <3>1, SizeAssumption DEF ReaderInv, Unlapped, readerVars
  <2>3. CASE lSlot[r] # m_IndexBuffer
    <3>1. Held(lSlot[r])' = Held(lSlot[r])
      BY <1>1, <1>2, <2>3, HeldAfterNextIndex DEF readerVars
    <3>2. QED
      BY <1>1, <2>1, <3>1, SizeAssumption DEF ReaderInv, Unlapped, readerVars
  <2>4. QED
    BY <2>2, <2>3
<1>3. CASE Realize \/ (SaveData /\ ~NextIndex)
  <2>1. Saved' = Saved /\ Held(lSlot[r])' = Held(lSlot[r])
    <3>1. CASE Wrap
      BY <1>1, <3>1, HeldAfterWrap DEF readerVars
    <3>2. CASE Realize
      BY <1>1, <3>2 DEF Realize, WriterAt, Held, Saved, readerVars, TypeInv, TypeOK
    <3>3. CASE TryLock \/ SaveImage \/ SavePose \/ SaveUnlock
      BY <1>1, <3>3 DEF TryLock, SaveImage, SavePose, SaveUnlock, WriterAt, Held, Saved,
         readerVars
    <3>4. QED
      BY <1>3, <3>1, <3>2, <3>3 DEF SaveData
  <2>2. QED
    BY <1>1, <2>1 DEF ReaderInv, Unlapped, readerVars
<1>4. QED
  BY <1>2, <1>3

-----------------------------------------------------------------------------
(* A step of reader q for reader r, which is q or works on another servant.*)
LEMMA OtherReaderStep ==
  ASSUME TypeInv, ServantOfItsOwn, NEW q \in Readers, NEW r \in Readers, q # r,
         ReaderInv(r), TakeIndex(q) \/ ReadData(q)
  PROVE  ReaderInv(r)'
<1>1. /\ Saved' = Saved /\ Held(lSlot[r])' = Held(lSlot[r])
      /\ lSlot'[r] = lSlot[r] /\ rpc'[r] = rpc[r] /\ seen'[r] = seen[r]
      /\ until'[r] = until[r] /\ reply'[r] = reply[r]
  <2>1. /\ UNCHANGED <<m_IndexBuffer, m_Datum, wpc>>
        /\ lSlot'[r] = lSlot[r] /\ rpc'[r] = rpc[r] /\ seen'[r] = seen[r]
        /\ until'[r] = until[r] /\ reply'[r] = reply[r]
    BY DEF TakeIndex, ReadData, Lock, ReadImage, ReadPose, Unlock, ReplyImage,
       ReplyPose, ReaderAt, writerVars, TypeInv, TypeOK
  <2>2. QED
    BY <2>1 DEF Saved, Held
<1>2. m_CBTD'[Servant[r]] = m_CBTD[Servant[r]]
  BY ThreadAssumption DEF ServantOfItsOwn, TakeIndex, ReadData, Lock, ReadImage,
     ReadPose, Unlock, ReplyImage, ReplyPose, TypeInv, TypeOK
<1>3. QED
  BY <1>1, <1>2 DEF ReaderInv, Unlapped

LEMMA OwnReaderStep ==
  ASSUME TypeInv, NEW r \in Readers, SlotInv(lSlot[r]), ReaderInv(r),
         TakeIndex(r) \/ ReadData(r)
  PROVE  ReaderInv(r)'
<1>1. /\ Saved \in Nat /\ Saved' = Saved
      /\ lSlot[r] \in Slots /\ seen[r] \in Nat /\ until[r] \in Nat
      /\ r \in DOMAIN rpc /\ r \in DOMAIN seen /\ r \in DOMAIN until
      /\ r \in DOMAIN reply /\ Servant[r] \in DOMAIN m_CBTD
      /\ reply[r] \in Datum /\ m_CBTD[Servant[r]] \in Datum
  BY SavedType, ReaderKeepsSlots, ThreadAssumption DEF Saved, TypeInv, TypeOK
<1>2. CASE TakeIndex(r)
  <2>1. /\ rpc'[r] = "lock" /\ seen'[r] = Saved
        /\ lSlot'[r] = SlotBefore(m_IndexBuffer)
        /\ UNCHANGED <<m_IndexBuffer, m_Datum, wpc>>
    BY <1>2 DEF TakeIndex, ReaderAt, writerVars, TypeInv, TypeOK
  <2>2. m_IndexBuffer \in 0 .. Size
    BY DEF TypeInv, TypeOK
  <2>3. Held(lSlot'[r]) = Saved
    BY <1>1, <2>1, <2>2, SizeAssumption DEF Held, SlotBefore
  <2>4. Held(lSlot[r])' = Held(lSlot'[r])
    BY <2>1, <1>1 DEF Held
  <2>5. QED
    BY <1>1, <2>1, <2>3, <2>4 DEF ReaderInv
<1>3. CASE ReadData(r)
  <2>1. Held(lSlot[r])' = Held(lSlot[r])
    BY <1>1, <1>3, ReaderKeepsSlots DEF Held, ReadData, Lock, ReadImage, ReadPose,
       Unlock, ReplyImage, ReplyPose
  <2>2. CASE Lock(r)
    BY <1>1, <2>1, <2>2 DEF Lock, ReaderAt, ReaderInv, Unlapped
  <2>3. CASE ReadImage(r)
    <3>1. rpc[r] = "image" /\ rpc'[r] = "cMo" /\ UNCHANGED <<seen, lSlot>>
      BY <1>1, <2>3 DEF ReadImage, ReaderAt
    <3>2. m_CBTD'[Servant[r]].image = slot[lSlot[r]].image
      BY <1>1, <2>3 DEF ReadImage, Datum
    <3>3. ASSUME Unlapped(r, Saved) PROVE m_CBTD'[Servant[r]].image = seen[r]
      <4>1. slot[lSlot[r]] = Whole(seen[r])
        BY <3>1, <3>3, SlotOfReader
      <4>2. QED
        BY <3>2, <4>1 DEF Whole
    <3>4. QED
      BY <1>1, <2>1, <3>1, <3>3 DEF ReaderInv, Unlapped
  <2>4. CASE ReadPose(r)
    <3>1. /\ rpc[r] = "cMo" /\ rpc'[r] = "unlock" /\ UNCHANGED <<seen, lSlot>>
          /\ until'[r] = Saved
      BY <1>1, <2>4 DEF ReadPose, ReaderAt
    <3>2. m_CBTD'[Servant[r]] = [m_CBTD[Servant[r]] EXCEPT !.cMo = slot[lSlot[r]].cMo]
      BY <1>1, <2>4 DEF ReadPose
    <3>3. Unlapped(r, Saved) => m_CBTD'[Servant[r]] = Whole(seen[r])
      BY <1>1, <3>1, <3>2, SlotOfReader DEF ReaderInv, Whole, Datum
    <3>4. QED
      BY <1>1, <2>1, <3>1, <3>3 DEF ReaderInv, Unlapped
  <2>5. CASE Unlock(r)
    BY <1>1, <2>1, <2>5 DEF Unlock, ReaderAt, ReaderInv, Unlapped
  <2>6. CASE ReplyImage(r)
    BY <1>1, <2>1, <2>6 DEF ReplyImage, ReaderAt, ReaderInv, Unlapped, Whole, Datum
  <2>7. CASE ReplyPose(r)
    <3>1. /\ rpc[r] = "replyPose" /\ rpc'[r] = "idle"
          /\ UNCHANGED <<m_CBTD, seen, until>>
          /\ reply'[r] = [reply[r] EXCEPT !.cMo = m_CBTD[Servant[r]].cMo]
      BY <1>1, <2>7 DEF ReplyPose, ReaderAt
    <3>2. ASSUME Unlapped(r, until[r]) PROVE reply'[r] = Whole(seen[r])
      <4>1. reply[r].image = seen[r] /\ m_CBTD[Servant[r]].cMo = seen[r]
        BY <3>1, <3>2 DEF ReaderInv, Whole
      <4>2. QED
        BY <1>1, <3>1, <4>1 DEF Whole, Datum
    <3>3. QED
      BY <1>1, <3>1, <3>2 DEF ReaderInv, Unlapped
  <2>8. QED
    BY <1>3, <2>2, <2>3, <2>4, <2>5, <2>6, <2>7 DEF ReadData
<1>4. QED
  BY <1>2, <1>3

LEMMA IInvInit == Init => IInv
<1> SUFFICES ASSUME Init PROVE IInv
  OBVIOUS
<1>1. TypeInv
  BY TypeInit
<1>2. ASSUME NEW i \in Slots PROVE SlotInv(i)
  <2>1. Held(i) = 1 + i - Size
    BY SizeAssumption DEF Init, Held, Saved, Slots
  <2>2. Content(i) = 0
    BY <2>1, SizeAssumption DEF Content, Slots
  <2>3. slot[i] = Whole(0) /\ wpc = "idle"
    BY DEF Init
  <2>4. QED
    BY <2>2, <2>3 DEF SlotInv
<1>3. ASSUME NEW r \in Readers PROVE ReaderInv(r)
  BY DEF Init, ReaderInv
<1>4. QED
  BY <1>1, <1>2, <1>3 DEF IInv

LEMMA IInvStep == ServantOfItsOwn /\ IInv /\ [Next]_vars => IInv'
<1> SUFFICES ASSUME ServantOfItsOwn, IInv, [Next]_vars PROVE IInv'
  OBVIOUS
<1>1. TypeInv'
  BY TypeStep DEF IInv
<1>2. ASSUME NEW i \in Slots PROVE SlotInv(i)'
  BY SlotStep DEF IInv
<1>3. ASSUME NEW r \in Readers PROVE ReaderInv(r)'
  <2>1. lSlot[r] \in Slots
    BY DEF IInv, TypeInv, TypeOK
  <2>2. CASE Realize \/ SaveData
    BY <2>2, ReaderWriterStep DEF IInv
  <2>3. ASSUME NEW q \in Readers, TakeIndex(q) \/ ReadData(q) PROVE ReaderInv(r)'
    BY <2>1, <2>3, OwnReaderStep, OtherReaderStep DEF IInv
  <2>4. CASE UNCHANGED vars
    BY <2>4 DEF vars, IInv, ReaderInv, Held, Saved, Unlapped
  <2>5. QED
    BY <2>2, <2>3, <2>4 DEF Next
<1>4. QED
  BY <1>1, <1>2, <1>3 DEF IInv, Slots

(* However slow the reader and whatever the mutexes do, a call that is     *)
(* alone on its servant and during which fewer than Size - 1 frames were   *)
(* saved gets one datum, the last one saved when ReadData read the index.  *)
THEOREM UnlappedReplies ==
  ASSUME ServantOfItsOwn
  PROVE  Spec => []UnlappedReplyIsLatest
<1>1. IInv => UnlappedReplyIsLatest
  BY DEF IInv, ReaderInv, Unlapped, UnlappedReplyIsLatest
<1>2. IInv /\ [Next]_vars => IInv'
  BY IInvStep
<1>3. QED
  BY IInvInit, <1>1, <1>2, PTL DEF Spec

-----------------------------------------------------------------------------
(* The age of a reply, lapped or not: a slot is never older than Held, and *)
(* Held never decreases.                                                   *)
SlotAge(i) == slot[i].image >= Held(i) /\ slot[i].cMo >= Held(i)

ReaderAge(r) ==
  /\ rpc[r] \in {"lock", "image", "cMo"} => seen[r] <= Held(lSlot[r])
  /\ rpc[r] = "cMo" => m_CBTD[Servant[r]].image >= seen[r]
  /\ rpc[r] \in {"unlock", "replyImage", "replyPose"} =>
       m_CBTD[Servant[r]].image >= seen[r] /\ m_CBTD[Servant[r]].cMo >= seen[r]
  /\ rpc[r] = "replyPose" => reply[r].image >= seen[r]
  /\ rpc[r] = "idle" => reply[r].image >= seen[r] /\ reply[r].cMo >= seen[r]

AgeInv ==
  /\ IInv
  /\ \A i \in Slots : SlotAge(i)
  /\ \A r \in Readers : ReaderAge(r)

LEMMA HeldType == ASSUME TypeInv, NEW i \in Slots PROVE Held(i) \in Int
BY SavedType, SizeAssumption DEF Held, TypeInv, TypeOK, Slots

LEMMA HeldGrows ==
  ASSUME TypeInv, [Next]_vars, NEW i \in Slots
  PROVE  Held(i) <= Held(i)'
<1>1. Held(i) \in Int
  BY HeldType
<1>2. CASE NextIndex
  BY <1>1, <1>2, HeldAfterNextIndex, SizeAssumption DEF TypeInv, TypeOK
<1>3. CASE Wrap
  BY <1>1, <1>3, HeldAfterWrap
<1>4. CASE Realize \/ TryLock \/ SaveImage \/ SavePose \/ SaveUnlock
  <2>1. UNCHANGED m_IndexBuffer /\ Saved' = Saved
    BY <1>4 DEF Realize, TryLock, SaveImage, SavePose, SaveUnlock, WriterAt, Saved,
       TypeInv, TypeOK
  <2>2. Held(i)' = Held(i)
    BY <2>1 DEF Held
  <2>3. QED
    BY <1>1, <2>2
<1>5. ASSUME UNCHANGED <<m_IndexBuffer, m_Datum, wpc>> PROVE Held(i) <= Held(i)'
  <2>1. Held(i)' = Held(i)
    BY <1>5 DEF Held, Saved
  <2>2. QED
    BY <1>1, <2>1
<1>6. QED
  BY <1>2, <1>3, <1>4, <1>5, ReaderKeepsSlots DEF Next, SaveData, vars

LEMMA SlotAgeStep ==
  ASSUME IInv, [Next]_vars, NEW i \in Slots, SlotAge(i)
  PROVE  SlotAge(i)'
<1>1. /\ Held(i) \in Int /\ Held(i)' \in Int /\ Held(i) <= Held(i)'
      /\ TypeInv /\ TypeInv' /\ slot[i] \in Datum /\ m_Datum \in Nat
  <2>1. TypeInv /\ TypeInv' /\ i \in Slots'
    BY TypeStep DEF IInv, Slots
  <2>2. Held(i) \in Int /\ Held(i) <= Held(i)'
    BY <2>1, HeldType, HeldGrows
  <2>3. Held(i)' \in Int
    <3>1. (Saved \in Nat)'
      BY <2>1, SavedType, PTL
    <3>2. m_IndexBuffer' \in 0 .. Size
      BY <2>1 DEF TypeInv, TypeOK
    <3>3. QED
      BY <3>1, <3>2, SizeAssumption DEF Held, Slots
  <2>4. QED
    BY <2>1, <2>2, <2>3 DEF TypeInv, TypeOK
<1>2. CASE NextIndex
  <2>1. CASE i = m_IndexBuffer
    <3>1. slot[i] = Whole(m_Datum) /\ slot' = slot /\ Held(i)' = m_Datum
      BY <1>1, <1>2, <2>1, HeldAfterNextIndex DEF IInv, SlotInv, NextIndex, WriterAt
    <3>2. QED
      BY <1>1, <3>1 DEF SlotAge, Whole
  <2>2. CASE i # m_IndexBuffer
    BY <1>1, <1>2, <2>2, HeldAfterNextIndex DEF SlotAge, NextIndex
  <2>3. QED
    BY <2>1, <2>2
<1>3. CASE Wrap
  BY <1>1, <1>3, HeldAfterWrap DEF SlotAge, Wrap
<1>4. CASE SaveImage \/ SavePose
  <2>1. UNCHANGED m_IndexBuffer /\ Saved' = Saved /\ Saved = m_Datum - 1
    BY <1>1, <1>4 DEF SaveImage, SavePose, WriterAt, Saved
  <2>2. Held(i)' = Held(i)
    BY <2>1 DEF Held
  <2>3. i = m_IndexBuffer => Held(i) <= m_Datum
    BY <1>1, <2>1, SizeAssumption DEF Held, TypeInv, TypeOK
  <2>4. /\ slot'[i].image = slot[i].image \/ (slot'[i].image = m_Datum /\ i = m_IndexBuffer)
        /\ slot'[i].cMo = slot[i].cMo \/ (slot'[i].cMo = m_Datum /\ i = m_IndexBuffer)
    <3>1. CASE i = m_IndexBuffer
      <4>1. i \in DOMAIN slot
        BY <1>1 DEF TypeInv, TypeOK
      <4>2. \/ slot'[i] = [slot[i] EXCEPT !.image = m_Datum]
            \/ slot'[i] = [slot[i] EXCEPT !.cMo = m_Datum]
        BY <1>4, <3>1, <4>1 DEF SaveImage, SavePose
      <4>3. QED
        BY <1>1, <3>1, <4>2 DEF Datum
    <3>2. CASE i # m_IndexBuffer
      BY <1>1, <1>4, <3>2 DEF SaveImage, SavePose, TypeInv, TypeOK
    <3>3. QED
      BY <3>1, <3>2
  <2>5. QED
    BY <1>1, <2>2, <2>3, <2>4 DEF SlotAge
<1>5. ASSUME UNCHANGED slot, Held(i)' = Held(i) PROVE SlotAge(i)'
  BY <1>5 DEF SlotAge
<1>6. CASE Realize \/ TryLock \/ SaveUnlock
  <2>1. UNCHANGED <<slot, m_IndexBuffer>> /\ Saved' = Saved
    BY <1>1, <1>6 DEF Realize, TryLock, SaveUnlock, WriterAt, Saved
  <2>2. QED
    BY <1>5, <2>1 DEF Held
<1>7. ASSUME UNCHANGED <<slot, m_IndexBuffer, m_Datum, wpc>> PROVE SlotAge(i)'
  BY <1>5, <1>7 DEF Held, Saved
<1>8. QED
  BY <1>2, <1>3, <1>4, <1>6, <1>7, ReaderKeepsSlots DEF Next, SaveData, vars

LEMMA ReaderAgeStep ==
  ASSUME ServantOfItsOwn, AgeInv, [Next]_vars, NEW r \in Readers
  PROVE  ReaderAge(r)'
<1>1. /\ TypeInv /\ ReaderAge(r) /\ lSlot[r] \in Slots /\ Servant[r] \in Servants
      /\ seen[r] \in Nat /\ Held(lSlot[r]) \in Int /\ SlotAge(lSlot[r])
      /\ slot[lSlot[r]] \in Datum /\ m_CBTD[Servant[r]] \in Datum /\ reply[r] \in Datum
  BY HeldType, ThreadAssumption DEF AgeInv, IInv, TypeInv, TypeOK
<1>2. ASSUME UNCHANGED <<rpc[r], lSlot[r], seen[r], reply[r], m_CBTD[Servant[r]]>>,
             Held(lSlot[r])' \in Int
      PROVE  ReaderAge(r)'
  <2>1. Held(lSlot[r]) <= Held(lSlot[r])'
    <3>1. \A i \in Slots : Held(i) <= Held(i)'
      BY <1>1, HeldGrows
    <3>2. QED
      BY <1>1, <1>2, <3>1 DEF Held
  <2>2. QED
    BY <1>1, <1>2, <2>1 DEF ReaderAge
<1>3. (Held(lSlot[r]) \in Int)'
  <2>1. TypeInv' /\ (TypeInv => Saved \in Nat)'
    BY <1>1, TypeStep, SavedType, PTL
  <2>2. lSlot'[r] \in Slots /\ m_IndexBuffer' \in 0 .. Size /\ Saved' \in Nat
    BY <2>1 DEF TypeInv, TypeOK, Slots
  <2>3. QED
    BY <2>2, SizeAssumption DEF Held, Slots
<1>4. CASE Realize \/ SaveData
  <2>1. UNCHANGED readerVars
    BY <1>4 DEF SaveData, Realize, TryLock, SaveImage, SavePose, SaveUnlock, NextIndex, Wrap
  <2>2. QED
    BY <1>2, <1>3, <2>1 DEF readerVars
<1>5. ASSUME NEW q \in Readers, q # r, TakeIndex(q) \/ ReadData(q) PROVE ReaderAge(r)'
  <2>1. UNCHANGED <<rpc[r], lSlot[r], seen[r], reply[r]>>
    BY <1>1, <1>5 DEF TakeIndex, ReadData, Lock, ReadImage, ReadPose, Unlock, ReplyImage,
       ReplyPose, ReaderAt, TypeInv, TypeOK
  <2>2. m_CBTD'[Servant[r]] = m_CBTD[Servant[r]]
    BY <1>1, <1>5 DEF ServantOfItsOwn, TakeIndex, ReadData, Lock, ReadImage,
       ReadPose, Unlock, ReplyImage, ReplyPose, TypeInv, TypeOK
  <2>3. QED
    BY <1>2, <1>3, <2>1, <2>2
<1>6. CASE TakeIndex(r) \/ ReadData(r)
  <2>1. /\ r \in DOMAIN rpc /\ r \in DOMAIN seen /\ r \in DOMAIN lSlot
        /\ r \in DOMAIN reply /\ Servant[r] \in DOMAIN m_CBTD
    BY <1>1 DEF TypeInv, TypeOK
  <2>2. UNCHANGED <<m_IndexBuffer, m_Datum, wpc, slot>>
    BY <1>6, ReaderKeepsSlots
  <2>3. CASE TakeIndex(r)
    <3>1. /\ rpc'[r] = "lock" /\ seen'[r] = Saved
          /\ lSlot'[r] = SlotBefore(m_IndexBuffer)
      BY <2>1, <2>3 DEF TakeIndex, ReaderAt
    <3>2. m_IndexBuffer \in 0 .. Size /\ Saved \in Nat
      BY <1>1, SavedType DEF TypeInv, TypeOK
    <3>3. Held(lSlot'[r]) = Saved
      BY <3>1, <3>2, SizeAssumption DEF Held, SlotBefore
    <3>4. Held(lSlot[r])' = Held(lSlot'[r])
      BY <2>2 DEF Held, Saved
    <3>5. QED
      BY <3>1, <3>2, <3>3, <3>4 DEF ReaderAge
  <2>4. ASSUME UNCHANGED lSlot PROVE Held(lSlot[r])' = Held(lSlot[r])
    BY <2>2, <2>4 DEF Held, Saved
  <2>5. CASE Lock(r)
    BY <1>1, <2>1, <2>4, <2>5 DEF Lock, ReaderAt, ReaderAge
  <2>6. CASE ReadImage(r)
    <3>1. /\ rpc[r] = "image" /\ rpc'[r] = "cMo" /\ UNCHANGED <<seen, lSlot>>
          /\ m_CBTD'[Servant[r]].image = slot[lSlot[r]].image
      BY <1>1, <2>1, <2>6 DEF ReadImage, ReaderAt, Datum
    <3>2. slot[lSlot[r]].image >= seen[r]
      BY <1>1, <3>1 DEF ReaderAge, SlotAge, Datum
    <3>3. QED
      BY <1>1, <2>4, <3>1, <3>2 DEF ReaderAge
  <2>7. CASE ReadPose(r)
    <3>1. /\ rpc[r] = "cMo" /\ rpc'[r] = "unlock" /\ UNCHANGED seen
          /\ m_CBTD'[Servant[r]] = [m_CBTD[Servant[r]] EXCEPT !.cMo = slot[lSlot[r]].cMo]
      BY <2>1, <2>7 DEF ReadPose, ReaderAt
    <3>2. slot[lSlot[r]].cMo >= seen[r] /\ m_CBTD[Servant[r]].image >= seen[r]
      BY <1>1, <3>1 DEF ReaderAge, SlotAge, Datum
    <3>3. QED
      BY <1>1, <3>1, <3>2 DEF ReaderAge, Datum
  <2>8. CASE Unlock(r)
    BY <1>1, <2>1, <2>8 DEF Unlock, ReaderAt, ReaderAge
  <2>9. CASE ReplyImage(r)
    BY <1>1, <2>1, <2>9 DEF ReplyImage, ReaderAt, ReaderAge, Datum
  <2>10. CASE ReplyPose(r)
    <3>1. /\ rpc[r] = "replyPose" /\ rpc'[r] = "idle" /\ UNCHANGED seen
          /\ reply'[r] = [reply[r] EXCEPT !.cMo = m_CBTD[Servant[r]].cMo]
      BY <2>1, <2>10 DEF ReplyPose, ReaderAt
    <3>2. reply[r].image >= seen[r] /\ m_CBTD[Servant[r]].cMo >= seen[r]
      BY <1>1, <3>1 DEF ReaderAge
    <3>3. QED
      BY <1>1, <3>1, <3>2 DEF ReaderAge, Datum
  <2>11. QED
    BY <1>6, <2>3, <2>5, <2>6, <2>7, <2>8, <2>9, <2>10 DEF ReadData
<1>7. CASE UNCHANGED vars
  BY <1>2, <1>3, <1>7 DEF vars
<1>8. QED
  BY <1>4, <1>5, <1>6, <1>7 DEF Next

(* However often the writer laps a reader and whatever the mutexes do, no  *)
(* part of the reply of a call that is alone on its servant is older than  *)
(* the last datum saved when ReadData read the index.                      *)
THEOREM RepliesNeverStale ==
  ASSUME ServantOfItsOwn
  PROVE  Spec => []ReplyNeverStale
<1>1. Init => AgeInv
  <2> SUFFICES ASSUME Init PROVE AgeInv
    OBVIOUS
  <2>1. IInv
    BY IInvInit
  <2>2. \A i \in Slots : SlotAge(i)
    <3> SUFFICES ASSUME NEW i \in Slots PROVE SlotAge(i)
      OBVIOUS
    <3>1. Held(i) = 1 + i - Size /\ Held(i) <= 0
      BY SizeAssumption DEF Init, Held, Saved, Slots
    <3>2. slot[i].image = 0 /\ slot[i].cMo = 0
      BY DEF Init, Whole
    <3>3. QED
      BY <3>1, <3>2, SizeAssumption DEF SlotAge, Slots
  <2>3. \A r \in Readers : ReaderAge(r)
    BY DEF Init, ReaderAge, Whole
  <2>4. QED
    BY <2>1, <2>2, <2>3 DEF AgeInv
<1>2. AgeInv /\ [Next]_vars => AgeInv'
  <2> SUFFICES ASSUME AgeInv, [Next]_vars PROVE AgeInv'
    OBVIOUS
  <2>1. IInv'
    BY IInvStep DEF AgeInv
  <2>2. \A i \in Slots : SlotAge(i)'
    BY SlotAgeStep DEF AgeInv
  <2>3. \A r \in Readers : ReaderAge(r)'
    BY ReaderAgeStep
  <2>4. QED
    BY <2>1, <2>2, <2>3 DEF AgeInv, Slots
<1>3. AgeInv => ReplyNeverStale
  BY DEF AgeInv, ReaderAge, ReplyNeverStale
<1>4. QED
  BY <1>1, <1>2, <1>3, PTL DEF Spec

=============================================================================
