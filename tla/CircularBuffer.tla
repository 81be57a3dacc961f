--------------------------- MODULE CircularBuffer ---------------------------
(***************************************************************************)
(* CircularBuffer<T> (include/llvs/CircularBuffer.t.h): the ring of        *)
(* Size slots through which the frame loop hands the tracker's result to   *)
(* the CORBA servants.                                                     *)
(*                                                                         *)
(* One writer, the LLVS thread, saves a datum per frame: it is the only    *)
(* caller of SaveData, through pRealizeTheProcess of the tracker's buffer. *)
(* The readers are calls of ModelTrackerInterface_impl, one ORB thread     *)
(* each: a call reads the ring into the member m_CBTD of its servant and   *)
(* then fills its reply from m_CBTD.                                       *)
(*                                                                         *)
(* A datum is the number of the frame it was computed from, kept twice:    *)
(* "image" stands for the image and the timestamp, "cMo" for the pose and  *)
(* the centre of gravity.  CBTrackerData::operator= copies them in that    *)
(* order and nothing makes the copy atomic, so each is a step of its own.  *)
(***************************************************************************)
EXTENDS Integers

CONSTANTS
  Size,       \* the number of slots, 3 in LowLevelVisionServer
  Readers,    \* the calls of the servants that may be in progress
  Servants,   \* the servant objects, each with its member m_CBTD
  Servant,    \* the servant a call runs on
  Writer,     \* the LLVS thread
  Free,       \* the owner of a mutex that nobody holds
  MaxFrames   \* bound: the number of frames the writer saves

ASSUME SizeAssumption == Size \in Nat \ {0}
ASSUME ThreadAssumption ==
  /\ Writer \notin Readers
  /\ Free \notin Readers \cup {Writer}
  /\ Servant \in [Readers -> Servants]
ASSUME MaxFramesAssumption == MaxFrames \in Nat

Slots == 0 .. Size - 1
Datum == [image : Nat, cMo : Nat]
Whole(frame) == [image |-> frame, cMo |-> frame]

VARIABLES
  m_IndexBuffer,  \* the slot the next SaveData writes
  slot,           \* m_CircularBuffer[i].onedatum
  mutex,          \* the thread that holds m_CircularBuffer[i].amutex
  m_Datum,        \* the frame m_Datum was last computed from
  wpc,            \* where the writer is
  rpc,            \* where each reader is
  lSlot,          \* the slot a reader computed from its lIndexBuffer
  m_CBTD,         \* the datum of each servant
  reply,          \* the last reply of each reader
  seen,           \* history: the frames saved when the reader took its index
  until           \* history: the frames saved when its copy ended

writerVars == <<m_IndexBuffer, m_Datum, wpc>>
readerVars == <<rpc, lSlot, m_CBTD, reply, seen, until>>
vars == <<m_IndexBuffer, slot, mutex, m_Datum, wpc, rpc, lSlot, m_CBTD, reply, seen, until>>

(* The frames whose SaveData has moved the index past its slot.            *)
Saved == IF wpc \in {"idle", "wrap"} THEN m_Datum ELSE m_Datum - 1

Init ==
  /\ m_IndexBuffer = 0
  /\ slot = [i \in Slots |-> Whole(0)]
  /\ mutex = [i \in Slots |-> Free]
  /\ m_Datum = 0
  /\ wpc = "idle"
  /\ rpc = [r \in Readers |-> "idle"]
  /\ lSlot = [r \in Readers |-> 0]
  /\ m_CBTD = [s \in Servants |-> Whole(0)]
  /\ reply = [r \in Readers |-> Whole(0)]
  /\ seen = [r \in Readers |-> 0]
  /\ until = [r \in Readers |-> 0]

-----------------------------------------------------------------------------
(* The writer: pRealizeTheProcess and SaveData.                            *)

WriterAt(from, to) == wpc = from /\ wpc' = to

(* The tracker's result goes into m_Datum and SaveData is called.          *)
Realize ==
  /\ WriterAt("idle", "lock")
  /\ m_Datum < MaxFrames
  /\ m_Datum' = m_Datum + 1
  /\ UNCHANGED <<m_IndexBuffer, slot, mutex, readerVars>>

TryLockWaiting ==
  /\ WriterAt("lock", "image")
  /\ mutex[m_IndexBuffer] = Free
  /\ mutex' = [mutex EXCEPT ![m_IndexBuffer] = Writer]
  /\ UNCHANGED <<m_IndexBuffer, slot, m_Datum, readerVars>>

(* pthread_mutex_trylock reports a held mutex with EBUSY, a positive       *)
(* number; the loop repeats only for r < 0, so the writer goes on without  *)
(* the mutex.                                                              *)
TryLock ==
  /\ WriterAt("lock", "image")
  /\ mutex' = [mutex EXCEPT ![m_IndexBuffer] = IF @ = Free THEN Writer ELSE @]
  /\ UNCHANGED <<m_IndexBuffer, slot, m_Datum, readerVars>>

SaveImage ==
  /\ WriterAt("image", "cMo")
  /\ slot' = [slot EXCEPT ![m_IndexBuffer].image = m_Datum]
  /\ UNCHANGED <<m_IndexBuffer, mutex, m_Datum, readerVars>>

SavePose ==
  /\ WriterAt("cMo", "unlock")
  /\ slot' = [slot EXCEPT ![m_IndexBuffer].cMo = m_Datum]
  /\ UNCHANGED <<m_IndexBuffer, mutex, m_Datum, readerVars>>

(* The default mutex does not check its owner: the unlock frees it whoever *)
(* holds it.                                                               *)
SaveUnlock ==
  /\ WriterAt("unlock", "index")
  /\ mutex' = [mutex EXCEPT ![m_IndexBuffer] = Free]
  /\ UNCHANGED <<m_IndexBuffer, slot, m_Datum, readerVars>>

NextIndex ==
  /\ WriterAt("index", "wrap")
  /\ m_IndexBuffer' = m_IndexBuffer + 1
  /\ UNCHANGED <<slot, mutex, m_Datum, readerVars>>

Wrap ==
  /\ WriterAt("wrap", "idle")
  /\ m_IndexBuffer' = IF m_IndexBuffer = Size THEN 0 ELSE m_IndexBuffer
  /\ UNCHANGED <<slot, mutex, m_Datum, readerVars>>

SaveData == TryLock \/ SaveImage \/ SavePose \/ SaveUnlock \/ NextIndex \/ Wrap

-----------------------------------------------------------------------------
(* A reader: ReadData into m_CBTD, then the reply from m_CBTD.             *)

ReaderAt(r, from, to) == rpc[r] = from /\ rpc' = [rpc EXCEPT ![r] = to]

SlotBeforeNotWrapped(index) == IF index > 0 THEN index - 1 ELSE 0

SlotAtIndex(index) == IF index < Size THEN index ELSE 0

(* The slot written last: the one before the index, or the last of the     *)
(* ring when the index is 0.                                               *)
SlotBefore(index) == IF index > 0 THEN index - 1 ELSE Size - 1

(* lIndexBuffer is read without any mutex.                                 *)
TakeIndex(r) ==
  /\ ReaderAt(r, "idle", "lock")
  /\ lSlot' = [lSlot EXCEPT ![r] = SlotBefore(m_IndexBuffer)]
  /\ seen' = [seen EXCEPT ![r] = Saved]
  /\ UNCHANGED <<writerVars, slot, mutex, m_CBTD, reply, until>>

Lock(r) ==
  /\ ReaderAt(r, "lock", "image")
  /\ mutex[lSlot[r]] = Free
  /\ mutex' = [mutex EXCEPT ![lSlot[r]] = r]
  /\ UNCHANGED <<writerVars, slot, lSlot, m_CBTD, reply, seen, until>>

ReadImage(r) ==
  /\ ReaderAt(r, "image", "cMo")
  /\ m_CBTD' = [m_CBTD EXCEPT ![Servant[r]].image = slot[lSlot[r]].image]
  /\ UNCHANGED <<writerVars, slot, mutex, lSlot, reply, seen, until>>

ReadPose(r) ==
  /\ ReaderAt(r, "cMo", "unlock")
  /\ m_CBTD' = [m_CBTD EXCEPT ![Servant[r]].cMo = slot[lSlot[r]].cMo]
  /\ until' = [until EXCEPT ![r] = Saved]
  /\ UNCHANGED <<writerVars, slot, mutex, lSlot, reply, seen>>

UnlockForgotten(r) ==
  /\ ReaderAt(r, "unlock", "replyImage")
  /\ UNCHANGED <<writerVars, slot, mutex, lSlot, m_CBTD, reply, seen, until>>

Unlock(r) ==
  /\ ReaderAt(r, "unlock", "replyImage")
  /\ mutex' = [mutex EXCEPT ![lSlot[r]] = Free]
  /\ UNCHANGED <<writerVars, slot, lSlot, m_CBTD, reply, seen, until>>

(* GetDebugInfoObject copies the timestamp and the image, then the pose.   *)
ReplyImage(r) ==
  /\ ReaderAt(r, "replyImage", "replyPose")
  /\ reply' = [reply EXCEPT ![r].image = m_CBTD[Servant[r]].image]
  /\ UNCHANGED <<writerVars, slot, mutex, lSlot, m_CBTD, seen, until>>

ReplyPose(r) ==
  /\ ReaderAt(r, "replyPose", "idle")
  /\ reply' = [reply EXCEPT ![r].cMo = m_CBTD[Servant[r]].cMo]
  /\ UNCHANGED <<writerVars, slot, mutex, lSlot, m_CBTD, seen, until>>

ReadData(r) ==
  \/ Lock(r) \/ ReadImage(r) \/ ReadPose(r) \/ Unlock(r)
  \/ ReplyImage(r) \/ ReplyPose(r)

-----------------------------------------------------------------------------

Next ==
  \/ Realize
  \/ SaveData
  \/ \E r \in Readers : TakeIndex(r) \/ ReadData(r)

Spec == Init /\ [][Next]_vars

(* The LLVS thread runs SaveData to its end whatever the clients do.       *)
WriterFairness == WF_vars(SaveData)

(* A reader runs once called.  A thread blocked on a slot's mutex is woken *)
(* at each unlock, and a copy is far shorter than the frame period, so a   *)
(* mutex that is free again and again is obtained.                         *)
ReaderFairness ==
  \A r \in Readers : WF_vars(ReadData(r)) /\ SF_vars(Lock(r))

WriterSpec == Spec /\ WriterFairness

-----------------------------------------------------------------------------
(* Properties.                                                             *)

TypeOK ==
  /\ m_IndexBuffer \in 0 .. Size
  /\ slot \in [Slots -> Datum]
  /\ mutex \in [Slots -> Readers \cup {Writer, Free}]
  /\ m_Datum \in Nat
  /\ wpc \in {"idle", "lock", "image", "cMo", "unlock", "index", "wrap"}
  /\ rpc \in [Readers -> {"idle", "lock", "image", "cMo", "unlock", "replyImage", "replyPose"}]
  /\ lSlot \in [Readers -> Slots]
  /\ m_CBTD \in [Servants -> Datum]
  /\ reply \in [Readers -> Datum]
  /\ seen \in [Readers -> Nat]
  /\ until \in [Readers -> Nat]

(* SaveData never dereferences past the end of the ring: between the       *)
(* increment and the wrap the index is one too large, and only there       *)
(* (CircularBuffer.t.h, m_IndexBuffer++ and the test after it).            *)
WriterIndexInRing == wpc # "wrap" => m_IndexBuffer \in Slots

(* What the ring really gives a servant that nobody else is using: if      *)
(* fewer than Size - 1 frames were saved between taking the index and the  *)
(* end of the copy, the reply is one datum, and the one that was last when *)
(* the call began - although the writer ignores the slot's mutex.          *)
UnlappedReplyIsLatest ==
  \A r \in Readers :
    rpc[r] = "idle" /\ until[r] - seen[r] < Size - 1 => reply[r] = Whole(seen[r])

(* A reply is never older than the call: each part of it is at least as    *)
(* recent as the last datum saved when ReadData took its index.            *)
ReplyNeverStale ==
  \A r \in Readers :
    rpc[r] = "idle" => reply[r].image >= seen[r] /\ reply[r].cMo >= seen[r]

(* The protection the template announces: a slot is never written while a  *)
(* reader that locked it is copying it.                                    *)
SlotProtected ==
  \A r \in Readers :
    ~ /\ rpc[r] \in {"image", "cMo"}
      /\ wpc \in {"image", "cMo"}
      /\ lSlot[r] = m_IndexBuffer

(* The frame loop never waits for a client: a save that has begun ends,    *)
(* even if the readers stop where they are, a slot's mutex in hand.        *)
SaveAlwaysEnds == wpc # "idle" ~> wpc = "idle"

(* If the readers run too, a client's call returns: no reader waits for    *)
(* ever on a slot's mutex.                                                 *)
CallsReturn == ReaderFairness => \A r \in Readers : rpc[r] # "idle" ~> rpc[r] = "idle"

=============================================================================
