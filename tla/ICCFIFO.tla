-------------------------------- MODULE ICCFIFO --------------------------------
(***************************************************************************)
(* The FIFOs between the CPUs of the SoC (OSAL, ICCFIFO.c): a ring of      *)
(* frames in uncached memory, written by one CPU and read by the other     *)
(* without a lock.  Each access to the shared memory is a step; a frame    *)
(* being copied is Torn in between.                                        *)
(*                                                                         *)
(* Offsets and sizes are bytes in the code, and multiples of m_FrameSize;  *)
(* here they count frames.                                                 *)
(***************************************************************************)
EXTENDS Integers, Sequences

CONSTANTS
  Fifos,
  Frames,
  FrameNMax,    \* the frames there is room for, one of which stays free
  Torn          \* a part of one frame and a part of another, or zeros

ASSUME FifoAssumption == FrameNMax \in Nat /\ FrameNMax >= 2
ASSUME TornAssumption == Torn \notin Frames

VARIABLES
  ring,         \* the memory behind the head
  m_RdOffset, m_WrOffset,
  rd, wr,       \* how far the reader and the writer have come
  got           \* the frame that was read last

fifoVars == <<ring, m_RdOffset, m_WrOffset, rd, wr, got>>

Places == 0..(FrameNMax - 1)
Reader == [at: {"idle", "begun", "copied"}, frame: Frames \cup {Torn}]
Writer == [at: {"idle", "begun", "torn", "copied"}, frame: Frames \cup {Torn}]
Resting == [at |-> "idle", frame |-> Torn]

\* MV_CC_ICCFIFOInit() by the master.
FifoInit ==
  /\ ring = [f \in Fifos |-> [i \in Places |-> Torn]]
  /\ m_RdOffset = [f \in Fifos |-> 0]
  /\ m_WrOffset = [f \in Fifos |-> 0]
  /\ rd = [f \in Fifos |-> Resting]
  /\ wr = [f \in Fifos |-> Resting]
  /\ got = [f \in Fifos |-> Torn]

-----------------------------------------------------------------------------
Wrapped(offset) == IF offset >= FrameNMax THEN offset - FrameNMax ELSE offset

\* MV_CC_ICCFIFOReadGetAvailData()
AvailData(f) ==
  LET DataSize == m_WrOffset[f] - m_RdOffset[f] IN
  IF DataSize < 0 THEN DataSize + FrameNMax ELSE DataSize

\* Slip: no frame is set apart.
AvailSpace_All(f) ==
  LET SpaceSize == m_RdOffset[f] - m_WrOffset[f] IN
  IF SpaceSize <= 0 THEN SpaceSize + FrameNMax ELSE SpaceSize

\* MV_CC_ICCFIFOWriteGetAvailSpace(): one frame is set apart.
AvailSpace(f) ==
  LET SpaceSize == m_RdOffset[f] - m_WrOffset[f] IN
  (IF SpaceSize <= 0 THEN SpaceSize + FrameNMax ELSE SpaceSize) - 1

-----------------------------------------------------------------------------
(* MV_CC_ICCFIFORead(): a look at the offsets, the copy, the new offset.   *)
(* E_EMPTY changes nothing.                                                *)
ReadBegin(f) ==
  /\ rd[f].at = "idle" /\ AvailData(f) > 0
  /\ rd' = [rd EXCEPT ![f].at = "begun"]
  /\ UNCHANGED <<ring, m_RdOffset, m_WrOffset, wr, got>>

ReadCopy(f) ==
  /\ rd[f].at = "begun"
  /\ rd' = [rd EXCEPT ![f] = [at |-> "copied", frame |-> ring[f][m_RdOffset[f]]]]
  /\ UNCHANGED <<ring, m_RdOffset, m_WrOffset, wr, got>>

ReadAdvance(f) ==
  /\ rd[f].at = "copied"
  /\ m_RdOffset' = [m_RdOffset EXCEPT ![f] = Wrapped(@ + 1)]
  /\ got' = [got EXCEPT ![f] = rd[f].frame]
  /\ rd' = [rd EXCEPT ![f] = Resting]
  /\ UNCHANGED <<ring, m_WrOffset, wr>>

\* MV_CC_ICCFIFOWrite(); E_FULL changes nothing.
WriteBegin(f, x) ==
  /\ wr[f].at = "idle" /\ AvailSpace(f) > 0
  /\ wr' = [wr EXCEPT ![f] = [at |-> "begun", frame |-> x]]
  /\ UNCHANGED <<ring, m_RdOffset, m_WrOffset, rd, got>>

WriteTear(f) ==
  /\ wr[f].at = "begun"
  /\ ring' = [ring EXCEPT ![f][m_WrOffset[f]] = Torn]
  /\ wr' = [wr EXCEPT ![f].at = "torn"]
  /\ UNCHANGED <<m_RdOffset, m_WrOffset, rd, got>>

WriteCopy(f) ==
  /\ wr[f].at = "torn"
  /\ ring' = [ring EXCEPT ![f][m_WrOffset[f]] = wr[f].frame]
  /\ wr' = [wr EXCEPT ![f].at = "copied"]
  /\ UNCHANGED <<m_RdOffset, m_WrOffset, rd, got>>

WriteAdvance(f) ==
  /\ wr[f].at = "copied"
  /\ m_WrOffset' = [m_WrOffset EXCEPT ![f] = Wrapped(@ + 1)]
  /\ wr' = [wr EXCEPT ![f] = Resting]
  /\ UNCHANGED <<ring, m_RdOffset, rd, got>>

FifoStep(f) ==
  \/ ReadBegin(f) \/ ReadCopy(f) \/ ReadAdvance(f)
  \/ WriteTear(f) \/ WriteCopy(f) \/ WriteAdvance(f)
  \/ \E x \in Frames : WriteBegin(f, x)

FifoNext == \E f \in Fifos : FifoStep(f)

FifoSpec == FifoInit /\ [][FifoNext]_fifoVars

-----------------------------------------------------------------------------
\* The frames between the offsets, oldest first.
Queue(f) == [i \in 1..AvailData(f) |-> ring[f][Wrapped(m_RdOffset[f] + i - 1)]]

FifoTypeOK ==
  /\ ring \in [Fifos -> [Places -> Frames \cup {Torn}]]
  /\ m_RdOffset \in [Fifos -> Places] /\ m_WrOffset \in [Fifos -> Places]
  /\ rd \in [Fifos -> Reader] /\ wr \in [Fifos -> Writer]
  /\ got \in [Fifos -> Frames \cup {Torn}]

\* No torn frame is between the offsets.
QueueIsWhole ==
  \A f \in Fifos : \A i \in 1..AvailData(f) :
    ring[f][Wrapped(m_RdOffset[f] + i - 1)] \in Frames

\* What the reader and the writer saw of the offsets still holds.
LocalsAreFresh ==
  \A f \in Fifos :
    /\ rd[f].at # "idle" => AvailData(f) > 0
    /\ rd[f].at = "copied" => rd[f].frame = ring[f][m_RdOffset[f]]
    /\ wr[f].at # "idle" => AvailSpace(f) > 0 /\ wr[f].frame \in Frames
    /\ wr[f].at = "copied" => ring[f][m_WrOffset[f]] = wr[f].frame

FifoInv == FifoTypeOK /\ QueueIsWhole /\ LocalsAreFresh

Abstract(f) == INSTANCE BoundedQueue
  WITH queue <- Queue(f), got <- got[f], Capacity <- FrameNMax - 1, NoFrame <- Torn

(* Each FIFO implements a bounded queue, with the two CPUs at any point of *)
(* a read and of a write: the order in which ICCFIFO.c:57-69 and 180-191   *)
(* access the frame and the offset.                                        *)
FifosAreQueues ==
  /\ \A f \in Fifos : Abstract(f)!Init
  /\ [][\A f \in Fifos : Abstract(f)!Next \/ UNCHANGED <<Queue(f), got[f]>>]_fifoVars
=============================================================================
