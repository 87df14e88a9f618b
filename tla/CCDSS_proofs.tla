----------------------------- MODULE CCDSS_proofs -----------------------------
(***************************************************************************)
(* The FIFOs between the CPUs, for any number of FIFOs, any frames and any *)
(* size of the ring: FifoInv is an inductive invariant of FifoSpec, and    *)
(* from it each FIFO implements a bounded queue.  The service directory    *)
(* uses its FIFOs as their specification allows, so each is a bounded      *)
(* queue in every behaviour of the two CPUs, and when the queues are empty *)
(* and no message was lost the two tables agree, for any number of tasks   *)
(* and services.                                                           *)
(***************************************************************************)
EXTENDS CCDSS, FiniteSetTheorems, TLAPS

-----------------------------------------------------------------------------
(* The FIFOs by themselves.                                                *)
USE FifoAssumption, TornAssumption

\* The place of the i-th frame between the offsets.
Slot(f, i) == Wrapped(m_RdOffset[f] + i - 1)

(* The offsets give the number of frames in the ring, and of the places    *)
(* left beside the one set apart.                                          *)
LEMMA Counts ==
  ASSUME FifoTypeOK, NEW f \in Fifos
  PROVE  /\ AvailData(f) \in 0..(FrameNMax - 1)
         /\ AvailSpace(f) = FrameNMax - 1 - AvailData(f)
<1>1. m_RdOffset[f] \in 0..(FrameNMax - 1) /\ m_WrOffset[f] \in 0..(FrameNMax - 1)
  BY DEF FifoTypeOK, Places
<1> QED
  BY <1>1 DEF AvailData, AvailSpace

(* The frames between the offsets have places of their own, and the writer *)
(* writes to none of them.                                                 *)
LEMMA Slots ==
  ASSUME FifoTypeOK, NEW f \in Fifos, NEW i \in 1..AvailData(f)
  PROVE  Slot(f, i) \in Places /\ Slot(f, i) # m_WrOffset[f]
<1>1. m_RdOffset[f] \in 0..(FrameNMax - 1) /\ m_WrOffset[f] \in 0..(FrameNMax - 1)
  BY DEF FifoTypeOK, Places
<1> QED
  BY <1>1 DEF AvailData, Slot, Wrapped, Places

(* The first of them is at the read offset, and the place after the last   *)
(* of them is at the write offset.                                         *)
LEMMA Ends ==
  ASSUME FifoTypeOK, NEW f \in Fifos
  PROVE  Slot(f, 1) = m_RdOffset[f] /\ Slot(f, AvailData(f) + 1) = m_WrOffset[f]
<1>1. m_RdOffset[f] \in 0..(FrameNMax - 1) /\ m_WrOffset[f] \in 0..(FrameNMax - 1)
  BY DEF FifoTypeOK, Places
<1> QED
  BY <1>1 DEF AvailData, Slot, Wrapped, Places

-----------------------------------------------------------------------------
(* Empty FIFOs.                                                            *)
LEMMA FifoInitInv == FifoInit => FifoInv
<1> SUFFICES ASSUME FifoInit PROVE FifoInv
  OBVIOUS
<1>1. FifoTypeOK
  BY DEF FifoInit, FifoTypeOK, Places, Reader, Writer, Resting
<1>2. QueueIsWhole
  BY DEF FifoInit, QueueIsWhole, AvailData
<1>3. LocalsAreFresh
  BY DEF FifoInit, LocalsAreFresh, Resting
<1> QED
  BY <1>1, <1>2, <1>3 DEF FifoInv

-----------------------------------------------------------------------------
(* What a step leaves of one FIFO.                                         *)
Same(f) ==
  /\ ring'[f] = ring[f] /\ m_RdOffset'[f] = m_RdOffset[f] /\ m_WrOffset'[f] = m_WrOffset[f]
  /\ rd'[f] = rd[f] /\ wr'[f] = wr[f] /\ got'[f] = got[f]

(* FifoInv, FIFO by FIFO.                                                  *)
Whole(f) == \A i \in 1..AvailData(f) : ring[f][Slot(f, i)] \in Frames
Fresh(f) ==
  /\ rd[f].at # "idle" => AvailData(f) > 0
  /\ rd[f].at = "copied" => rd[f].frame = ring[f][m_RdOffset[f]]
  /\ wr[f].at # "idle" => AvailSpace(f) > 0 /\ wr[f].frame \in Frames
  /\ wr[f].at = "copied" => ring[f][m_WrOffset[f]] = wr[f].frame

LEMMA InvByFifo == FifoInv <=> FifoTypeOK /\ \A f \in Fifos : Whole(f) /\ Fresh(f)
  BY DEF FifoInv, QueueIsWhole, LocalsAreFresh, Whole, Fresh, Slot

LEMMA InvByFifoPrime == FifoInv' <=> FifoTypeOK' /\ \A f \in Fifos : Whole(f)' /\ Fresh(f)'
  BY DEF FifoInv, QueueIsWhole, LocalsAreFresh, Whole, Fresh, Slot

(* A step of one FIFO is no step of another.                               *)
LEMMA OthersStay ==
  ASSUME FifoTypeOK, NEW f \in Fifos, FifoStep(f), NEW g \in Fifos, g # f
  PROVE  Same(g)
  BY DEF FifoTypeOK, FifoStep, ReadBegin, ReadCopy, ReadAdvance, WriteBegin, WriteTear,
         WriteCopy, WriteAdvance, Same

LEMMA SameKeeps ==
  ASSUME NEW f \in Fifos, Same(f)
  PROVE  /\ AvailData(f)' = AvailData(f)
         /\ Whole(f) => Whole(f)'
         /\ Fresh(f) => Fresh(f)'
  BY DEF Same, Whole, Fresh, AvailData, AvailSpace, Slot

(* Every variable stays in its range.                                      *)
LEMMA TypeStep ==
  ASSUME FifoInv, NEW f \in Fifos, FifoStep(f)
  PROVE  FifoTypeOK'
<1> USE DEF FifoInv, FifoTypeOK, Reader, Writer, Resting
<1>1. m_RdOffset[f] \in Places /\ Wrapped(m_RdOffset[f] + 1) \in Places
  BY DEF Places, Wrapped
<1>2. m_WrOffset[f] \in Places /\ Wrapped(m_WrOffset[f] + 1) \in Places
  BY DEF Places, Wrapped
<1>3. CASE ReadBegin(f)
  BY <1>3 DEF ReadBegin
<1>4. CASE ReadCopy(f)
  BY <1>1, <1>4 DEF ReadCopy
<1>5. CASE ReadAdvance(f)
  BY <1>1, <1>5 DEF ReadAdvance
<1>6. CASE WriteTear(f)
  BY <1>2, <1>6 DEF WriteTear
<1>7. CASE WriteCopy(f)
  BY <1>2, <1>7 DEF WriteCopy
<1>8. CASE WriteAdvance(f)
  BY <1>2, <1>8 DEF WriteAdvance
<1>9. ASSUME NEW x \in Frames, WriteBegin(f, x) PROVE FifoTypeOK'
  BY <1>9 DEF WriteBegin
<1> QED
  BY <1>3, <1>4, <1>5, <1>6, <1>7, <1>8, <1>9 DEF FifoStep
-----------------------------------------------------------------------------
(* What each step does to the frames between the offsets of its FIFO.      *)
Keeps(f) ==
  /\ AvailData(f)' = AvailData(f)
  /\ \A i \in 1..AvailData(f) : ring'[f][Slot(f, i)'] = ring[f][Slot(f, i)]
  /\ got'[f] = got[f]

Puts(f, x) ==
  /\ AvailData(f) < FrameNMax - 1 /\ AvailData(f)' = AvailData(f) + 1
  /\ \A i \in 1..(AvailData(f) + 1) :
       ring'[f][Slot(f, i)'] = IF i = AvailData(f) + 1 THEN x ELSE ring[f][Slot(f, i)]
  /\ got'[f] = got[f]

Gets(f) ==
  /\ AvailData(f) > 0 /\ AvailData(f)' = AvailData(f) - 1
  /\ \A i \in 1..(AvailData(f) - 1) : ring'[f][Slot(f, i)'] = ring[f][Slot(f, i + 1)]
  /\ got'[f] = ring[f][Slot(f, 1)]

(* The copy into the free place is not seen until the offset moves, and    *)
(* the copy out of the ring is over before the place is given back.        *)
LEMMA StepShape ==
  ASSUME FifoInv, NEW f \in Fifos, FifoStep(f)
  PROVE  /\ Keeps(f) \/ Gets(f) \/ \E x \in Frames : Puts(f, x)
         /\ Fresh(f)'
<1>1. FifoTypeOK /\ Whole(f) /\ Fresh(f)
  BY InvByFifo
<1>2. /\ AvailData(f) \in 0..(FrameNMax - 1)
      /\ AvailSpace(f) = FrameNMax - 1 - AvailData(f)
  BY <1>1, Counts
<1>3. /\ m_RdOffset[f] \in 0..(FrameNMax - 1) /\ m_WrOffset[f] \in 0..(FrameNMax - 1)
      /\ Wrapped(m_RdOffset[f] + 1) \in Places /\ Wrapped(m_WrOffset[f] + 1) \in Places
  BY <1>1 DEF FifoTypeOK, Places, Wrapped
<1>4. \A i \in 1..AvailData(f) : Slot(f, i) \in Places /\ Slot(f, i) # m_WrOffset[f]
  BY <1>1, Slots
<1>5. Slot(f, 1) = m_RdOffset[f] /\ Slot(f, AvailData(f) + 1) = m_WrOffset[f]
  BY <1>1, Ends
<1>6. rd[f] \in Reader /\ wr[f] \in Writer
  BY <1>1 DEF FifoTypeOK
<1>7. CASE ReadBegin(f)
<2>1. AvailData(f)' = AvailData(f) /\ AvailSpace(f)' = AvailSpace(f) /\ AvailData(f) > 0
  BY <1>7 DEF ReadBegin, AvailData, AvailSpace
<2>2. Keeps(f)
  BY <1>7, <2>1 DEF ReadBegin, Keeps, Slot
<2>3. rd'[f].at = "begun" /\ UNCHANGED <<ring, m_RdOffset, m_WrOffset, wr>>
  BY <1>1, <1>6, <1>7 DEF ReadBegin, FifoTypeOK, Reader
<2>4. Fresh(f)'
  BY <1>1, <2>1, <2>3 DEF Fresh
<2> QED
  BY <2>2, <2>4
<1>8. CASE ReadCopy(f)
<2>1. AvailData(f)' = AvailData(f) /\ AvailSpace(f)' = AvailSpace(f) /\ AvailData(f) > 0
  BY <1>1, <1>8 DEF ReadCopy, AvailData, AvailSpace, Fresh
<2>2. Keeps(f)
  BY <1>8, <2>1 DEF ReadCopy, Keeps, Slot
<2>3. rd'[f].frame = ring[f][m_RdOffset[f]] /\ UNCHANGED <<ring, m_RdOffset, m_WrOffset, wr>>
  BY <1>1, <1>8 DEF ReadCopy, FifoTypeOK
<2>4. Fresh(f)'
  BY <1>1, <2>1, <2>3 DEF Fresh
<2> QED
  BY <2>2, <2>4
<1>9. CASE ReadAdvance(f)
<2>1. m_RdOffset'[f] = Wrapped(m_RdOffset[f] + 1) /\ AvailData(f) > 0
  BY <1>1, <1>9 DEF ReadAdvance, FifoTypeOK, Fresh
<2>2. /\ UNCHANGED <<ring, m_WrOffset, wr>> /\ rd'[f] = Resting
      /\ got'[f] = ring[f][m_RdOffset[f]]
  BY <1>1, <1>9 DEF ReadAdvance, FifoTypeOK, Fresh
<2>3. AvailData(f)' = AvailData(f) - 1 /\ AvailSpace(f)' = AvailSpace(f) + 1
  BY <1>3, <2>1, <2>2 DEF AvailData, AvailSpace, Wrapped
<2>4. ASSUME NEW i \in 1..(AvailData(f) - 1) PROVE Slot(f, i)' = Slot(f, i + 1)
  BY <1>2, <1>3, <2>1, <2>4 DEF Slot, Wrapped
<2>5. Gets(f)
  BY <1>5, <2>1, <2>2, <2>3, <2>4 DEF Gets
<2>6. Fresh(f)'
  BY <1>1, <1>2, <2>2, <2>3 DEF Fresh, Resting
<2> QED
  BY <2>5, <2>6
<1>10. ASSUME NEW x \in Frames, WriteBegin(f, x)
       PROVE  Keeps(f) /\ Fresh(f)'
<2>1. AvailData(f)' = AvailData(f) /\ AvailSpace(f)' = AvailSpace(f) /\ AvailSpace(f) > 0
  BY <1>10 DEF WriteBegin, AvailData, AvailSpace
<2>2. Keeps(f)
  BY <1>10, <2>1 DEF WriteBegin, Keeps, Slot
<2>3. wr'[f] = [at |-> "begun", frame |-> x] /\ UNCHANGED <<ring, m_RdOffset, m_WrOffset, rd>>
  BY <1>1, <1>10 DEF WriteBegin, FifoTypeOK
<2>4. Fresh(f)'
  BY <1>1, <2>1, <2>3 DEF Fresh
<2> QED
  BY <2>2, <2>4
<1>11. ASSUME NEW y, ring' = [ring EXCEPT ![f][m_WrOffset[f]] = y],
              UNCHANGED <<m_RdOffset, m_WrOffset, rd, got>>
       PROVE  /\ Keeps(f) /\ AvailSpace(f)' = AvailSpace(f)
              /\ ring'[f][m_WrOffset[f]] = y
              /\ AvailData(f) > 0 => ring'[f][m_RdOffset[f]] = ring[f][m_RdOffset[f]]
<2>1. AvailData(f)' = AvailData(f) /\ AvailSpace(f)' = AvailSpace(f)
  BY <1>11 DEF AvailData, AvailSpace
<2>2. \A p \in Places : ring'[f][p] = IF p = m_WrOffset[f] THEN y ELSE ring[f][p]
  BY <1>1, <1>11 DEF FifoTypeOK
<2>3. \A i \in 1..AvailData(f) : Slot(f, i)' = Slot(f, i)
  BY <1>11 DEF Slot
<2>4. Keeps(f)
  BY <1>4, <1>11, <2>1, <2>2, <2>3 DEF Keeps
<2>5. AvailData(f) > 0 => m_RdOffset[f] \in Places /\ m_RdOffset[f] # m_WrOffset[f]
  BY <1>2, <1>4, <1>5
<2> QED
  BY <1>3, <2>1, <2>2, <2>4, <2>5 DEF Places
<1>12. CASE WriteTear(f)
<2>1. wr'[f].at = "torn" /\ wr'[f].frame = wr[f].frame
  BY <1>1, <1>6, <1>12 DEF WriteTear, FifoTypeOK, Writer
<2>2. /\ Keeps(f) /\ AvailSpace(f)' = AvailSpace(f) /\ UNCHANGED <<m_RdOffset, rd>>
      /\ AvailData(f) > 0 => ring'[f][m_RdOffset[f]] = ring[f][m_RdOffset[f]]
  BY <1>11, <1>12 DEF WriteTear
<2>3. Fresh(f)'
  BY <1>1, <1>12, <2>1, <2>2 DEF Fresh, Keeps, WriteTear
<2> QED
  BY <2>2, <2>3
<1>13. CASE WriteCopy(f)
<2>1. wr'[f].frame = wr[f].frame
  BY <1>1, <1>6, <1>13 DEF WriteCopy, FifoTypeOK, Writer
<2>2. /\ Keeps(f) /\ AvailSpace(f)' = AvailSpace(f) /\ UNCHANGED <<m_RdOffset, m_WrOffset, rd>>
      /\ ring'[f][m_WrOffset[f]] = wr[f].frame
      /\ AvailData(f) > 0 => ring'[f][m_RdOffset[f]] = ring[f][m_RdOffset[f]]
  BY <1>11, <1>13 DEF WriteCopy
<2>3. Fresh(f)'
  BY <1>1, <1>13, <2>1, <2>2 DEF Fresh, Keeps, WriteCopy
<2> QED
  BY <2>2, <2>3
<1>14. CASE WriteAdvance(f)
<2>1. m_WrOffset'[f] = Wrapped(m_WrOffset[f] + 1) /\ AvailSpace(f) > 0
  BY <1>1, <1>14 DEF WriteAdvance, FifoTypeOK, Fresh
<2>2. /\ UNCHANGED <<ring, m_RdOffset, rd, got>> /\ wr'[f] = Resting
      /\ ring[f][m_WrOffset[f]] = wr[f].frame /\ wr[f].frame \in Frames
  BY <1>1, <1>14 DEF WriteAdvance, FifoTypeOK, Fresh
<2>3. AvailData(f)' = AvailData(f) + 1
  BY <1>2, <1>3, <2>1, <2>2 DEF AvailData, Wrapped
<2>4. \A i \in 1..(AvailData(f) + 1) : Slot(f, i)' = Slot(f, i)
  BY <2>2 DEF Slot
<2>6. Puts(f, wr[f].frame)
  BY <1>2, <1>5, <2>1, <2>2, <2>3, <2>4 DEF Puts
<2>7. Fresh(f)'
  BY <1>1, <1>2, <2>2, <2>3 DEF Fresh, Resting
<2> QED
  BY <2>2, <2>6, <2>7
<1> QED
  BY <1>7, <1>8, <1>9, <1>10, <1>12, <1>13, <1>14 DEF FifoStep
-----------------------------------------------------------------------------
(* FifoInv is inductive.                                                   *)
LEMMA FifoStepInv == FifoInv /\ [FifoNext]_fifoVars => FifoInv'
<1> SUFFICES ASSUME FifoInv, [FifoNext]_fifoVars PROVE FifoInv'
  OBVIOUS
<1>1. FifoTypeOK /\ \A f \in Fifos : Whole(f) /\ Fresh(f)
  BY InvByFifo
<1>2. CASE UNCHANGED fifoVars
  BY <1>2 DEF fifoVars, FifoInv, FifoTypeOK, QueueIsWhole, LocalsAreFresh, AvailData, AvailSpace
<1>3. ASSUME NEW f \in Fifos, FifoStep(f)
      PROVE  FifoInv'
<2>1. FifoTypeOK'
  BY <1>3, TypeStep
<2>2. Fresh(f)' /\ (Keeps(f) \/ Gets(f) \/ \E x \in Frames : Puts(f, x))
  BY <1>3, StepShape
<2>3. AvailData(f) \in Nat
  BY <1>1, Counts
<2>4. ASSUME Keeps(f) PROVE Whole(f)'
  BY <1>1, <2>4 DEF Whole, Keeps, Slot
<2>5. ASSUME Gets(f) PROVE Whole(f)'
<3>1. ASSUME NEW i \in 1..(AvailData(f) - 1) PROVE ring'[f][Slot(f, i)'] \in Frames
<4>1. i + 1 \in 1..AvailData(f) /\ ring'[f][Slot(f, i)'] = ring[f][Slot(f, i + 1)]
  BY <2>3, <2>5, <3>1 DEF Gets
<4> QED
  BY <1>1, <4>1 DEF Whole
<3>2. AvailData(f)' = AvailData(f) - 1
  BY <2>5 DEF Gets
<3> QED
  BY <3>1, <3>2 DEF Whole, Slot
<2>6. ASSUME NEW x \in Frames, Puts(f, x) PROVE Whole(f)'
<3>1. AvailData(f)' = AvailData(f) + 1
  BY <2>6 DEF Puts
<3>2. \A i \in 1..(AvailData(f) + 1) : ring'[f][Slot(f, i)'] \in Frames
  BY <1>1, <2>3, <2>6 DEF Puts, Whole
<3> QED
  BY <3>1, <3>2 DEF Whole, Slot
<2>7. Whole(f)'
  BY <2>2, <2>4, <2>5, <2>6
<2>8. ASSUME NEW g \in Fifos PROVE Whole(g)' /\ Fresh(g)'
<3>1. CASE g = f
  BY <2>2, <2>7, <3>1
<3>2. CASE g # f
  BY <1>1, <1>3, <3>2, OthersStay, SameKeeps
<3> QED
  BY <3>1, <3>2
<2> QED
  BY <2>1, <2>8, InvByFifoPrime
<1> QED
  BY <1>2, <1>3 DEF FifoNext

(* No torn frame is between the offsets, and what the reader and the       *)
(* writer saw of the offsets holds while they copy (ICCFIFO.c:50-71,       *)
(* 173-193).                                                               *)
THEOREM FifoSpecInv == FifoSpec => []FifoInv
<1>1. FifoInit => FifoInv
  BY FifoInitInv
<1>2. FifoInv /\ [FifoNext]_fifoVars => FifoInv'
  BY FifoStepInv
<1> QED
  BY <1>1, <1>2, PTL DEF FifoSpec

-----------------------------------------------------------------------------
(* Two sequences told apart by their length and their elements.            *)
LEMMA AppendIs ==
  ASSUME NEW S, NEW q \in Seq(S), NEW r \in Seq(S), NEW x \in S, Len(r) = Len(q) + 1,
         \A i \in 1..Len(q) : r[i] = q[i], r[Len(q) + 1] = x
  PROVE  r = Append(q, x)
  OBVIOUS

LEMMA TailIs ==
  ASSUME NEW S, NEW q \in Seq(S), NEW r \in Seq(S), q # <<>>, Len(r) = Len(q) - 1,
         \A i \in 1..Len(r) : r[i] = q[i + 1]
  PROVE  r = Tail(q) /\ Head(q) = q[1]
<1>1. Tail(q) \in Seq(S) /\ Len(Tail(q)) = Len(q) - 1
  OBVIOUS
<1>2. \A i \in 1..Len(r) : Tail(q)[i] = q[i + 1]
  OBVIOUS
<1> QED
  BY <1>1, <1>2

LEMMA QueueTypes ==
  ASSUME FifoInv, NEW f \in Fifos
  PROVE  /\ Queue(f) \in Seq(Frames) /\ Len(Queue(f)) = AvailData(f)
         /\ \A i \in 1..AvailData(f) : Queue(f)[i] = ring[f][Slot(f, i)]
<1>1. AvailData(f) \in Nat /\ Whole(f)
  BY InvByFifo, Counts
<1> QED
  BY <1>1 DEF Queue, Whole, Slot

LEMMA QueueTypesPrime ==
  ASSUME FifoInv', NEW f \in Fifos
  PROVE  /\ Queue(f)' \in Seq(Frames) /\ Len(Queue(f)') = AvailData(f)'
         /\ \A i \in 1..AvailData(f)' : Queue(f)'[i] = ring'[f][Slot(f, i)']
<1>1. AvailData(f)' \in Nat
  BY FifoAssumption DEF FifoInv, FifoTypeOK, AvailData, Places
<1>2. Whole(f)'
  BY InvByFifoPrime
<1> QED
  BY <1>1, <1>2 DEF Queue, Whole, Slot

(* What a step does to the queue of its FIFO.                              *)
LEMMA QueueIs ==
  ASSUME FifoInv, FifoInv', NEW f \in Fifos
  PROVE  /\ Keeps(f) => Queue(f)' = Queue(f)
         /\ Gets(f) => /\ Queue(f) # <<>> /\ Queue(f)' = Tail(Queue(f))
                       /\ Head(Queue(f)) = got'[f]
         /\ \A x \in Frames : Puts(f, x) => Queue(f)' = Append(Queue(f), x)
<1>1. /\ Queue(f) \in Seq(Frames) /\ Len(Queue(f)) = AvailData(f)
      /\ \A i \in 1..AvailData(f) : Queue(f)[i] = ring[f][Slot(f, i)]
  BY QueueTypes
<1>2. /\ Queue(f)' \in Seq(Frames) /\ Len(Queue(f)') = AvailData(f)'
      /\ \A i \in 1..AvailData(f)' : Queue(f)'[i] = ring'[f][Slot(f, i)']
  BY QueueTypesPrime
<1>3. AvailData(f) \in Nat
  BY InvByFifo, Counts
<1> DEFINE q == Queue(f)
           r == Queue(f)'
<1>4. ASSUME Keeps(f) PROVE r = q
  BY <1>4 DEF Keeps, Queue, Slot
<1>5. ASSUME Gets(f) PROVE q # <<>> /\ r = Tail(q) /\ Head(q) = got'[f]
<2>1. q # <<>> /\ Len(r) = Len(q) - 1 /\ q[1] = got'[f]
  BY <1>1, <1>2, <1>3, <1>5 DEF Gets
<2>2. \A i \in 1..Len(r) : r[i] = q[i + 1]
  BY <1>1, <1>2, <1>3, <1>5 DEF Gets
<2> HIDE DEF q, r
<2>3. q \in Seq(Frames) /\ r \in Seq(Frames)
  BY <1>1, <1>2 DEF q, r
<2> QED
  BY <2>1, <2>2, <2>3, TailIs
<1>6. ASSUME NEW x \in Frames, Puts(f, x) PROVE r = Append(q, x)
<2>1. Len(r) = Len(q) + 1 /\ r[Len(q) + 1] = x
  BY <1>1, <1>2, <1>3, <1>6 DEF Puts
<2>2. \A i \in 1..Len(q) : r[i] = q[i]
  BY <1>1, <1>2, <1>3, <1>6 DEF Puts
<2> HIDE DEF q, r
<2>3. q \in Seq(Frames) /\ r \in Seq(Frames)
  BY <1>1, <1>2 DEF q, r
<2> QED
  BY <2>1, <2>2, <2>3, AppendIs
<1> QED
  BY <1>4, <1>5, <1>6

(* The queue of a FIFO that a step left alone, and of the FIFO it changed. *)
LEMMA QueueStep ==
  ASSUME FifoInv, FifoInv', NEW f \in Fifos, FifoStep(f)
  PROVE  Abstract(f)!Next \/ UNCHANGED <<Queue(f), got[f]>>
<1>1. ASSUME Keeps(f) PROVE UNCHANGED <<Queue(f), got[f]>>
  BY <1>1, QueueIs DEF Keeps
<1>2. ASSUME Gets(f) PROVE Abstract(f)!Get
  BY <1>2, QueueIs DEF Abstract!Get
<1>3. ASSUME NEW x \in Frames, Puts(f, x) PROVE Abstract(f)!Put(x)
<2>1. Len(Queue(f)) < FrameNMax - 1 /\ got'[f] = got[f]
  BY <1>3, QueueTypes DEF Puts
<2> QED
  BY <1>3, <2>1, QueueIs DEF Abstract!Put
<1> QED
  BY <1>1, <1>2, <1>3, StepShape DEF Abstract!Next

(* Each FIFO hands its reader the frames of its writer whole, in order and *)
(* each once (ICCFIFO.c:57-69, 180-191).                                   *)
THEOREM FifoRefinement == FifoSpec => FifosAreQueues
<1>1. FifoInit => \A f \in Fifos : Abstract(f)!Init
<2> SUFFICES ASSUME FifoInit, NEW f \in Fifos PROVE Abstract(f)!Init
  OBVIOUS
<2>1. AvailData(f) = 0 /\ got[f] = Torn
  BY DEF FifoInit, AvailData
<2>2. Queue(f) = <<>>
  BY <2>1 DEF Queue
<2> QED
  BY <2>1, <2>2 DEF Abstract!Init
<1>2. ASSUME FifoInv, [FifoNext]_fifoVars
      PROVE  [\A f \in Fifos : Abstract(f)!Next \/ UNCHANGED <<Queue(f), got[f]>>]_fifoVars
<2>1. CASE UNCHANGED fifoVars
  BY <2>1
<2>2. ASSUME NEW f \in Fifos, FifoStep(f), NEW g \in Fifos
      PROVE  Abstract(g)!Next \/ UNCHANGED <<Queue(g), got[g]>>
<3>1. CASE g = f
<4>1. FifoInv'
  BY <1>2, FifoStepInv
<4> QED
  BY <1>2, <2>2, <3>1, <4>1, QueueStep
<3>2. CASE g # f
<4>1. Same(g)
  BY <1>2, <2>2, <3>2, OthersStay DEF FifoInv
<4> QED
  BY <4>1 DEF Same, Queue, AvailData
<3> QED
  BY <3>1, <3>2
<2> QED
  BY <1>2, <2>1, <2>2 DEF FifoNext
<1> QED
  BY <1>1, <1>2, FifoSpecInv, PTL DEF FifoSpec, FifosAreQueues

-----------------------------------------------------------------------------
(* The directory and its FIFOs.                                            *)
USE CpusAssumption, TasksAssumption, NamesAssumption, FramesAssumption

(* The two CPUs.                                                           *)
LEMMA OtherCpu ==
  /\ \A c \in Cpus : Other(c) \in Cpus /\ Other(c) # c
  /\ \A x \in Contexts : CpuOf(x) \in Cpus
<1>1. \A c \in Cpus : \E d \in Cpus : d # c
  OBVIOUS
<1>2. \A c \in Cpus : Other(c) \in Cpus /\ Other(c) # c
  BY <1>1 DEF Other
<1> QED
  BY <1>2 DEF CpuOf, Contexts, Slave

LEMMA MessageTypes ==
  /\ \A s \in Sids : Add(s) \in Messages /\ Delete(s) \in Messages
  /\ AskUpdate \in Messages /\ UpdateOK \in Messages
  BY DEF Add, Delete, AskUpdate, UpdateOK, Messages

(* A finite set can be listed, and the list has all of it.                 *)
LEMMA SetToSeqIs ==
  ASSUME NEW S, IsFiniteSet(S)
  PROVE  SetToSeq(S) \in Seq(S) /\ \A x \in S : Contains(SetToSeq(S), x)
<1> DEFINE n == Cardinality(S)
           q == SetToSeq(S)
<1>1. n \in Nat /\ ExistsBijection(1..n, S)
  BY FS_CardinalityType
<1>2. \E f \in [1..n -> S] : IsInjective(f)
  BY <1>1 DEF ExistsBijection, Bijection, Injection
<1>3. q \in [1..n -> S] /\ IsInjective(q)
  BY <1>2 DEF SetToSeq
<1>4. q \in Seq(S) /\ Len(q) = n
  BY <1>1, <1>3
<1>5. q \in Injection(1..n, S) /\ Cardinality(1..n) = n
  BY <1>1, <1>3, FS_Interval DEF Injection
<1>6. q \in Surjection(1..n, S)
<2> HIDE DEF n, q
<2> QED
  BY <1>5, FS_Injection DEF n
<1>7. \A x \in S : \E i \in 1..n : q[i] = x
  BY <1>6 DEF Surjection
<1> QED
  BY <1>4, <1>7 DEF Contains

(* A dropped message was one of those to be sent.                          *)
LEMMA DropTypes ==
  ASSUME TypeOK, NEW x \in Contexts, todo[x] # <<>>
  PROVE  /\ Head(todo[x]) \in Messages /\ Tail(todo[x]) \in Seq(Messages)
         /\ [todo EXCEPT ![x] = Tail(@)] \in [Contexts -> Seq(Messages)]
  BY DEF TypeOK

(* Every step leaves the FIFOs alone or is a step of one of them.          *)
LEMMA StepOfFifo ==
  ASSUME TypeOK, [Next]_vars
  PROVE  [FifoNext]_fifoVars
<1>1. CASE UNCHANGED vars
  BY <1>1 DEF vars, fifoVars
<1>2. CASE MasterStart \/ SlaveStart \/ Open \/ SlaveStop
  BY <1>2 DEF MasterStart, SlaveStart, Open, SlaveStop
<1>3. ASSUME NEW t \in Tasks, TaskSteps(t) PROVE UNCHANGED fifoVars
  BY <1>3 DEF TaskSteps, Reg, Free, Call
<1>4. ASSUME NEW x \in Contexts, Sending(x) PROVE [FifoNext]_fifoVars
<2>1. CASE NotReady(x) \/ Full(x)
  BY <2>1 DEF NotReady, Full, Drop
<2>2. CASE Write(x)
<3>1. Other(CpuOf(x)) \in Fifos /\ Head(todo[x]) \in Frames
  BY <2>2, OtherCpu, DropTypes DEF Cpus, Write
<3>2. WriteBegin(Other(CpuOf(x)), Head(todo[x]))
  BY <2>2 DEF Write
<3> QED
  BY <3>1, <3>2 DEF FifoNext, FifoStep
<2> QED
  BY <1>4, <2>1, <2>2 DEF Sending
<1>5. ASSUME NEW c \in Cpus, Writing(c) PROVE FifoNext
  BY <1>5, OtherCpu DEF Writing, FifoNext, FifoStep, Cpus
<1>6. ASSUME NEW c \in Cpus, SemPost(c) \/ Isr(c) PROVE UNCHANGED fifoVars
  BY <1>6 DEF SemPost, Isr
<1>7. ASSUME NEW c \in Cpus, Rx(c) PROVE [FifoNext]_fifoVars
<2>1. CASE SoftirqBegin(c) \/ RxEmpty(c) \/ SoftirqEnd(c)
  BY <2>1 DEF SoftirqBegin, RxEmpty, SoftirqEnd
<2>2. CASE Reading(c) \/ Read(c)
  BY <2>2 DEF Reading, Read, FifoNext, FifoStep, Cpus
<2> QED
  BY <1>7, <2>1, <2>2 DEF Rx
<1> QED
  BY <1>1, <1>2, <1>3, <1>4, <1>5, <1>6, <1>7 DEF Next

(* What is sent is a message, and only messages are received.              *)
LEMMA TodoStep ==
  ASSUME TypeOK, NEW x \in Contexts, NEW q \in Seq(Messages)
  PROVE  [todo EXCEPT ![x] = q] \in [Contexts -> Seq(Messages)]
  BY DEF TypeOK

LEMMA StageStep ==
  ASSUME TypeOK, NEW c, NEW v \in {"down", "init", "up", "failed", "oops"}
  PROVE  [stage EXCEPT ![c] = v] \in [Cpus -> {"down", "init", "up", "failed", "oops"}]
  BY DEF TypeOK

LEMMA TableStep ==
  ASSUME TypeOK, NEW c, NEW ids \in SUBSET Sids
  PROVE  [table EXCEPT ![c] = ids] \in [Cpus -> SUBSET Sids]
  BY DEF TypeOK

(* An update is a sequence of messages: one for each id, and the end.      *)
Update(ids) == SetToSeq({Add(s) : s \in ids}) \o <<UpdateOK>>

LEMMA UpdateIs ==
  ASSUME NEW ids \in SUBSET Sids
  PROVE  /\ Update(ids) \in Seq(Messages)
         /\ \A x : Contains(Update(ids), x) <=> x = UpdateOK \/ \E s \in ids : x = Add(s)
<1> DEFINE adds == {Add(s) : s \in ids}
           q == SetToSeq(adds)
           n == Len(q)
           u == q \o <<UpdateOK>>
<1>1. IsFiniteSet(ids)
  BY SidsAssumption, FS_Subset
<1>2. IsFiniteSet(adds)
<2> DEFINE f == [s \in ids |-> Add(s)]
<2>1. \A x \in adds : \E s \in ids : f[s] = x
  OBVIOUS
<2>2. f \in Surjection(ids, adds)
  BY <2>1 DEF Surjection
<2> QED
  BY <1>1, <2>2, FS_Surjection
<1> HIDE DEF q
<1>3. q \in Seq(adds) /\ \A x \in adds : Contains(q, x)
  BY <1>2, SetToSeqIs DEF q
<1>4. adds \in SUBSET Messages /\ UpdateOK \in Messages
  BY MessageTypes
<1>5. \A x : x \in adds <=> \E s \in ids : x = Add(s)
  OBVIOUS
<1> HIDE DEF adds
<1>6. q \in Seq(Messages)
  BY <1>3, <1>4
<1>7. u \in Seq(Messages) /\ Len(u) = n + 1
  BY <1>4, <1>6
<1>8. n \in Nat /\ u[n + 1] = UpdateOK /\ \A i \in 1..n : u[i] = q[i] /\ q[i] \in adds
  BY <1>3, <1>4, <1>6
<1> HIDE DEF u, n
<1>9. ASSUME NEW x PROVE Contains(u, x) <=> x = UpdateOK \/ x \in adds
<2>1. ASSUME Contains(u, x) PROVE x = UpdateOK \/ x \in adds
<3>1. PICK i \in 1..Len(u) : u[i] = x
  BY <2>1 DEF Contains
<3>2. i \in 1..n \/ i = n + 1
  BY <1>7, <1>8
<3> QED
  BY <1>8, <3>1, <3>2
<2>2. Contains(u, UpdateOK)
<3>1. n + 1 \in 1..Len(u)
  BY <1>7, <1>8
<3> QED
  BY <1>8, <3>1 DEF Contains
<2>3. ASSUME x \in adds PROVE Contains(u, x)
<3>1. PICK i \in 1..n : q[i] = x
  BY <1>3, <2>3 DEF Contains, n
<3>2. i \in 1..Len(u)
  BY <1>7, <1>8
<3> QED
  BY <1>8, <3>1, <3>2 DEF Contains
<2> QED
  BY <2>1, <2>2, <2>3
<1> QED
  BY <1>5, <1>7, <1>9 DEF u, q, adds, Update

(* What is read is a message.                                              *)
LEMMA ReadTypes ==
  ASSUME FifoInv, NEW c \in Cpus, ReadAdvance(c)
  PROVE  rd[c].frame \in Messages
<1>1. AvailData(c) > 0 /\ rd[c].frame = ring[c][m_RdOffset[c]]
  BY DEF FifoInv, LocalsAreFresh, ReadAdvance, Cpus
<1>2. m_RdOffset[c] \in 0..(FrameNMax - 1) /\ m_WrOffset[c] \in 0..(FrameNMax - 1)
  BY DEF FifoInv, FifoTypeOK, Places, Cpus
<1>3. 1 \in 1..AvailData(c)
  BY <1>1, <1>2, FifoAssumption DEF AvailData
<1>4. ring[c][Wrapped(m_RdOffset[c] + 1 - 1)] \in Frames
  BY <1>3 DEF FifoInv, QueueIsWhole, Cpus
<1>5. Wrapped(m_RdOffset[c] + 1 - 1) = m_RdOffset[c]
  BY <1>2, FifoAssumption DEF Wrapped
<1> QED
  BY <1>1, <1>4, <1>5

LEMMA TypeStepDss ==
  ASSUME TypeOK, FifoInv, FifoTypeOK', [Next]_vars
  PROVE  TypeOK'
<1>1. CASE UNCHANGED vars
  BY <1>1 DEF TypeOK, vars, cpuVars, sendVars
<1>2. CASE MasterStart \/ SlaveStart \/ Open \/ SlaveStop
<2>1. /\ [todo EXCEPT ![Loader] = <<AskUpdate>>] \in [Contexts -> Seq(Messages)]
      /\ [todo EXCEPT ![Loader] = <<>>] \in [Contexts -> Seq(Messages)]
<3>1. Loader \in Contexts /\ <<AskUpdate>> \in Seq(Messages) /\ <<>> \in Seq(Messages)
  BY MessageTypes DEF Contexts
<3> QED
  BY <3>1, TodoStep
<2>2. stage' \in [Cpus -> {"down", "init", "up", "failed", "oops"}]
<3>1. PICK c \in {Master, Slave}, v \in {"down", "init", "up"} :
        stage' = [stage EXCEPT ![c] = v]
  BY <1>2 DEF MasterStart, SlaveStart, Open, SlaveStop
<3> QED
  BY <3>1, StageStep
<2>3. table' \in [Cpus -> SUBSET Sids]
  BY <1>2, TableStep DEF TypeOK, MasterStart, SlaveStart, Open, SlaveStop
<2>4. todo' \in [Contexts -> Seq(Messages)]
  BY <1>2, <2>1 DEF TypeOK, MasterStart, SlaveStart, Open, SlaveStop, sendVars
<2> QED
  BY <2>2, <2>3, <2>4 DEF TypeOK
<1>3. ASSUME NEW t \in Tasks, NEW s \in Sids, Reg(t, s) \/ Free(t, s) PROVE TypeOK'
<2>1. <<Add(s)>> \in Seq(Messages) /\ <<Delete(s)>> \in Seq(Messages) /\ t \in Contexts
  BY MessageTypes DEF Contexts
<2>2. todo' \in [Contexts -> Seq(Messages)]
<3>1. /\ [todo EXCEPT ![t] = <<Add(s)>>] \in [Contexts -> Seq(Messages)]
      /\ [todo EXCEPT ![t] = <<Delete(s)>>] \in [Contexts -> Seq(Messages)]
  BY <2>1, TodoStep
<3> QED
  BY <1>3, <3>1 DEF Reg, Free, Call
<2>3. table[Cpu[t]] \in SUBSET Sids
  BY DEF TypeOK
<2>4. table' \in [Cpus -> SUBSET Sids]
<3>1. PICK ids \in SUBSET Sids : table' = [table EXCEPT ![Cpu[t]] = ids]
  BY <1>3, <2>3 DEF Reg, Free, Call
<3> QED
  BY <3>1, TableStep
<2>5. UNCHANGED stage
  BY <1>3 DEF Reg, Free, Call
<2> QED
  BY <2>2, <2>4, <2>5 DEF TypeOK
<1>4. ASSUME NEW x \in Contexts, Sending(x) PROVE TypeOK'
<2>1. todo[x] # <<>>
  BY <1>4 DEF Sending, NotReady, Full, Write
<2>2. todo' \in [Contexts -> Seq(Messages)]
  BY <1>4, <2>1, DropTypes DEF Sending, NotReady, Full, Write, Drop
<2>3. stage' \in [Cpus -> {"down", "init", "up", "failed", "oops"}]
<3>1. CASE stage' = [stage EXCEPT ![Slave] = "failed"]
  BY <3>1, StageStep
<3>2. CASE UNCHANGED stage
  BY <3>2 DEF TypeOK
<3> QED
  BY <1>4, <3>1, <3>2 DEF Sending, NotReady, Full, Write, cpuVars
<2>4. UNCHANGED table
  BY <1>4 DEF Sending, NotReady, Full, Write, Drop, cpuVars
<2> QED
  BY <2>2, <2>3, <2>4 DEF TypeOK
<1>5. ASSUME NEW c \in Cpus,
             Writing(c) \/ SemPost(c) \/ Isr(c) \/ Reading(c) \/ RxEmpty(c) \/ SoftirqEnd(c)
      PROVE  TypeOK'
<2>1. UNCHANGED <<stage, table, todo>>
  BY <1>5 DEF Writing, SemPost, Isr, Reading, RxEmpty, SoftirqEnd, cpuVars, sendVars
<2> QED
  BY <2>1 DEF TypeOK
<1>6. ASSUME NEW c \in Cpus, SoftirqBegin(c) PROVE TypeOK'
<2>1. stage' \in [Cpus -> {"down", "init", "up", "failed", "oops"}]
  BY <1>6, StageStep DEF SoftirqBegin, TypeOK
<2>2. UNCHANGED <<table, todo>>
  BY <1>6 DEF SoftirqBegin, sendVars
<2> QED
  BY <2>1, <2>2 DEF TypeOK
<1>7. ASSUME NEW c \in Cpus, Read(c) PROVE TypeOK'
<2>1. rd[c].frame \in Messages
  BY <1>7, ReadTypes DEF Read
<2>2. rd[c].frame.cmd \in {"Add", "Delete"} => rd[c].frame.sid \in Sids
  BY <2>1 DEF Messages
<2>3. c \in Contexts /\ table[c] \in SUBSET Sids
  BY DEF Contexts, TypeOK
<2>4. todo' \in [Contexts -> Seq(Messages)]
<3>1. CASE UNCHANGED todo
  BY <3>1 DEF TypeOK
<3>2. CASE todo' = [todo EXCEPT ![c] = SetToSeq({Add(s) : s \in table[c]}) \o <<UpdateOK>>]
  BY <3>2, <2>3, UpdateIs, TodoStep DEF Update
<3> QED
  BY <1>7, <3>1, <3>2 DEF Read, Demux
<2>5. table' \in [Cpus -> SUBSET Sids]
<3>1. PICK ids \in SUBSET Sids : table' = [table EXCEPT ![c] = ids]
<4>1. CASE rd[c].frame.cmd = "Add"
  BY <1>7, <2>2, <2>3, <4>1 DEF Read, Demux
<4>2. CASE rd[c].frame.cmd = "Delete"
  BY <1>7, <2>3, <4>2 DEF Read, Demux
<4>3. CASE rd[c].frame.cmd \notin {"Add", "Delete"}
  BY <1>7, <2>3, <4>3 DEF Read, Demux
<4> QED
  BY <4>1, <4>2, <4>3
<3> QED
  BY <3>1, TableStep
<2>6. UNCHANGED stage
  BY <1>7 DEF Read
<2> QED
  BY <2>4, <2>5, <2>6 DEF TypeOK
<1> QED
  BY <1>1, <1>2, <1>3, <1>4, <1>5, <1>6, <1>7 DEF Next, TaskSteps, Rx

-----------------------------------------------------------------------------
\* Queued frames are messages, and what a CPU saw of the offsets holds.
DssInv == TypeOK /\ FifoInv

LEMMA DssInitInv == Init => DssInv
<1> SUFFICES ASSUME Init PROVE DssInv
  OBVIOUS
<1>1. FifoInv
  BY FifoInitInv DEF Init
<1>2. TypeOK
  BY <1>1 DEF Init, TypeOK, FifoInv
<1> QED
  BY <1>1, <1>2 DEF DssInv

LEMMA DssStepInv == DssInv /\ [Next]_vars => DssInv'
<1> SUFFICES ASSUME DssInv, [Next]_vars PROVE DssInv'
  OBVIOUS
<1>1. FifoInv'
  BY StepOfFifo, FifoStepInv DEF DssInv
<1>2. TypeOK'
  BY <1>1, TypeStepDss DEF DssInv, FifoInv
<1> QED
  BY <1>1, <1>2 DEF DssInv

(* At every moment, with both CPUs anywhere in their code: the frames in   *)
(* the FIFOs are whole messages and what the tasks, the loader and the     *)
(* softirqs have still to send are messages.                               *)
THEOREM DirectoryInv == Spec => []DssInv
<1>1. Init => DssInv
  BY DssInitInv
<1>2. DssInv /\ [Next]_vars => DssInv'
  BY DssStepInv
<1> QED
  BY <1>1, <1>2, PTL DEF Spec

(* The directory uses its FIFOs as their specification allows: one writer  *)
(* and one reader each, frames that are messages, and no write into a full *)
(* one; ICCNet.c:263 calls ICCFIFO.c with interrupts off, the softirq      *)
(* alone reads.                                                            *)
THEOREM DirectoryUsesFifos == Spec => FifoSpec
<1>1. Init => FifoInit
  BY DEF Init
<1>2. DssInv /\ [Next]_vars => [FifoNext]_fifoVars
  BY StepOfFifo DEF DssInv
<1> QED
  BY <1>1, <1>2, DirectoryInv, PTL DEF Spec, FifoSpec

(* So each FIFO is a bounded queue of frames while the directory is used,  *)
(* for every number of tasks and services and every size of the rings.     *)
THEOREM DirectoryQueues == Spec => FifosAreQueues
  BY DirectoryUsesFifos, FifoRefinement

-----------------------------------------------------------------------------
(* The step that moves the read offset takes the first frame, the one that *)
(* moves the write offset adds the frame of the writer, others do neither. *)
LEMMA StepMoves ==
  ASSUME FifoInv, NEW f \in Fifos, FifoStep(f)
  PROVE  /\ ReadAdvance(f) => Gets(f)
         /\ WriteAdvance(f) => wr[f].frame \in Frames /\ Puts(f, wr[f].frame)
         /\ UNCHANGED <<m_RdOffset, m_WrOffset>> => Keeps(f)
<1>1. FifoTypeOK /\ Fresh(f)
  BY InvByFifo
<1>2. AvailData(f) \in 0..(FrameNMax - 1) /\ AvailSpace(f) = FrameNMax - 1 - AvailData(f)
  BY <1>1, Counts
<1>3. m_RdOffset[f] \in 0..(FrameNMax - 1) /\ m_WrOffset[f] \in 0..(FrameNMax - 1)
  BY <1>1 DEF FifoTypeOK, Places
<1>4. Keeps(f) \/ Gets(f) \/ \E x \in Frames : Puts(f, x)
  BY StepShape
<1>5. CASE ReadAdvance(f)
<2>1. /\ m_RdOffset'[f] = Wrapped(m_RdOffset[f] + 1) /\ UNCHANGED m_WrOffset
      /\ AvailData(f) > 0
  BY <1>1, <1>5 DEF ReadAdvance, FifoTypeOK, Fresh
<2>2. AvailData(f)' = AvailData(f) - 1 /\ m_RdOffset'[f] # m_RdOffset[f]
  BY <1>3, <2>1 DEF AvailData, Wrapped
<2>3. ~Keeps(f) /\ \A x \in Frames : ~Puts(f, x)
  BY <1>2, <2>2 DEF Keeps, Puts
<2>4. ~WriteAdvance(f)
  BY <1>1, <1>5, <2>2 DEF WriteAdvance
<2> QED
  BY <1>4, <2>2, <2>3, <2>4
<1>6. CASE WriteAdvance(f)
<2>1. m_WrOffset'[f] = Wrapped(m_WrOffset[f] + 1) /\ AvailSpace(f) > 0
  BY <1>1, <1>6 DEF WriteAdvance, FifoTypeOK, Fresh
<2>2. UNCHANGED <<ring, m_RdOffset>> /\ ring[f][m_WrOffset[f]] = wr[f].frame
  BY <1>1, <1>6 DEF WriteAdvance, Fresh
<2>3. AvailData(f)' = AvailData(f) + 1 /\ m_WrOffset'[f] # m_WrOffset[f]
  BY <1>2, <1>3, <2>1, <2>2 DEF AvailData, Wrapped
<2>4. PICK x \in Frames : Puts(f, x)
  BY <1>2, <1>4, <2>3 DEF Keeps, Gets
<2>5. \A i \in Nat : Slot(f, i)' = Slot(f, i)
  BY <2>2 DEF Slot
<2>6. x = ring'[f][Slot(f, AvailData(f) + 1)] /\ Slot(f, AvailData(f) + 1) = m_WrOffset[f]
  BY <1>1, <1>2, <2>4, <2>5, Ends DEF Puts
<2>7. x = wr[f].frame
  BY <2>2, <2>6
<2> QED
  BY <2>2, <2>3, <2>4, <2>7, <1>6 DEF ReadAdvance, WriteAdvance
<1>7. ASSUME UNCHANGED <<m_RdOffset, m_WrOffset>> PROVE Keeps(f)
<2>1. AvailData(f)' = AvailData(f)
  BY <1>7 DEF AvailData
<2> QED
  BY <1>2, <1>4, <2>1 DEF Gets, Puts
<1> QED
  BY <1>5, <1>6, <1>7

-----------------------------------------------------------------------------
(* What is on its way to a CPU: the frames in its FIFO and the one that is *)
(* being written.                                                          *)
Written(f) == IF wr[f].at = "idle" THEN <<>> ELSE <<wr[f].frame>>
Air(f) == Queue(f) \o Written(f)

LEMMA Joins ==
  ASSUME NEW S, NEW q \in Seq(S), NEW x \in S, NEW w \in Seq(S)
  PROVE  /\ q \o <<>> = q /\ q \o <<x>> = Append(q, x)
         /\ q # <<>> => /\ Tail(q) \o w = Tail(q \o w)
                        /\ q \o w # <<>> /\ Head(q \o w) = Head(q)
<1>1. q \o <<>> = q
  OBVIOUS
<1>2. q \o <<x>> = Append(q, x)
  OBVIOUS
<1>3. ASSUME q # <<>>
      PROVE  Tail(q) \o w = Tail(q \o w) /\ q \o w # <<>> /\ Head(q \o w) = Head(q)
<2>1. q \o w \in Seq(S) /\ Tail(q) \o w \in Seq(S) /\ Len(q \o w) = Len(q) + Len(w)
  BY <1>3
<2>2. Len(Tail(q) \o w) = Len(q \o w) - 1 /\ q \o w # <<>>
  BY <1>3, <2>1
<2>3. \A i \in 1..Len(Tail(q) \o w) : (Tail(q) \o w)[i] = (q \o w)[i + 1]
  BY <1>3, <2>1, <2>2
<2>4. Head(q \o w) = Head(q)
  BY <1>3, <2>1
<2> QED
  BY <2>1, <2>2, <2>3, <2>4, TailIs
<1> QED
  BY <1>1, <1>2, <1>3

LEMMA AirTypes ==
  ASSUME FifoInv, NEW f \in Fifos
  PROVE  Written(f) \in Seq(Frames) /\ Air(f) \in Seq(Frames)
<1>1. Queue(f) \in Seq(Frames)
  BY QueueTypes
<1>2. Written(f) \in Seq(Frames)
  BY InvByFifo DEF Written, Fresh
<1> QED
  BY <1>1, <1>2 DEF Air

(* A frame is on its way from the moment its write begins until it is      *)
(* read; nothing else adds or takes one.                                   *)
LEMMA AirSame ==
  ASSUME NEW f \in Fifos, Same(f)
  PROVE  UNCHANGED Air(f)
  BY DEF Same, Air, Written, Queue, AvailData

LEMMA AirPut ==
  ASSUME FifoInv, FifoInv', NEW f \in Fifos, NEW x \in Frames, WriteBegin(f, x)
  PROVE  Air(f)' = Append(Air(f), x)
<1>1. Queue(f) \in Seq(Frames) /\ Queue(f)' = Queue(f)
<2>1. Keeps(f)
  BY StepMoves DEF FifoStep, WriteBegin
<2> QED
  BY <2>1, QueueTypes, QueueIs
<1>2. Written(f) = <<>> /\ Written(f)' = <<x>>
  BY DEF WriteBegin, Written, FifoInv, FifoTypeOK
<1> QED
  BY <1>1, <1>2, Joins DEF Air

LEMMA AirRest ==
  ASSUME FifoInv, FifoInv', NEW f \in Fifos,
         WriteTear(f) \/ WriteCopy(f) \/ WriteAdvance(f) \/ ReadBegin(f) \/ ReadCopy(f)
  PROVE  UNCHANGED Air(f)
<1>1. Queue(f) \in Seq(Frames) /\ FifoStep(f)
  BY QueueTypes DEF FifoStep
<1>2. wr[f] \in Writer
  BY DEF FifoInv, FifoTypeOK
<1>3. CASE WriteTear(f) \/ WriteCopy(f) \/ ReadBegin(f) \/ ReadCopy(f)
<2>1. Keeps(f)
  BY <1>1, <1>3, StepMoves DEF WriteTear, WriteCopy, ReadBegin, ReadCopy
<2>2. Written(f)' = Written(f)
  BY <1>2, <1>3 DEF WriteTear, WriteCopy, ReadBegin, ReadCopy, Written, FifoInv, FifoTypeOK, Writer
<2> QED
  BY <2>1, <2>2, QueueIs DEF Air
<1>4. CASE WriteAdvance(f)
<2>1. wr[f].frame \in Frames /\ Queue(f)' = Append(Queue(f), wr[f].frame)
  BY <1>1, <1>4, StepMoves, QueueIs
<2>2. Written(f) = <<wr[f].frame>> /\ Written(f)' = <<>>
  BY <1>4 DEF WriteAdvance, Written, FifoInv, FifoTypeOK, Resting
<2>3. Queue(f)' \o <<>> = Queue(f)'
  BY <1>1, <2>1, Joins
<2>4. Queue(f) \o <<wr[f].frame>> = Append(Queue(f), wr[f].frame)
  BY <1>1, <2>1, Joins
<2> QED
  BY <2>1, <2>2, <2>3, <2>4 DEF Air
<1> QED
  BY <1>3, <1>4

LEMMA AirGet ==
  ASSUME FifoInv, FifoInv', NEW f \in Fifos, ReadAdvance(f)
  PROVE  Air(f) # <<>> /\ Head(Air(f)) = rd[f].frame /\ Air(f)' = Tail(Air(f))
<1>1. Gets(f)
  BY StepMoves DEF FifoStep
<1>2. Queue(f) # <<>> /\ Queue(f)' = Tail(Queue(f)) /\ Head(Queue(f)) = rd[f].frame
<2>1. got'[f] = rd[f].frame
  BY DEF ReadAdvance, FifoInv, FifoTypeOK
<2> QED
  BY <1>1, <2>1, QueueIs
<1>3. Written(f)' = Written(f)
  BY DEF ReadAdvance, Written
<1>4. Queue(f) \in Seq(Frames) /\ Written(f) \in Seq(Frames)
  BY QueueTypes, AirTypes
<1> QED
  BY <1>2, <1>3, <1>4, Joins DEF Air

-----------------------------------------------------------------------------
(* What a table that has s (b) or not comes to say of s when the messages  *)
(* of q have been handled: the last of q that is about s decides.          *)
Added(q, s) == \E i \in 1..Len(q) : q[i] = Add(s) /\ \A j \in (i + 1)..Len(q) : q[j] # Delete(s)
Told(q, s, b) == Added(q, s) \/ (b /\ ~Contains(q, Delete(s)))

LEMMA AddIsNotDelete ==
  /\ \A s, r : Add(s) # Delete(r) /\ Add(s) # AskUpdate /\ Delete(s) # AskUpdate
  /\ \A s, r : (Add(s) = Add(r) => s = r) /\ (Delete(s) = Delete(r) => s = r)
  /\ \A s : UpdateOK # AskUpdate /\ UpdateOK # Add(s) /\ UpdateOK # Delete(s)
<1>1. \A s : Add(s).cmd = "Add" /\ Add(s).sid = s /\ Delete(s).cmd = "Delete" /\ Delete(s).sid = s
  BY DEF Add, Delete
<1>2. AskUpdate.cmd = "AskUpdate" /\ UpdateOK.cmd = "UpdateOK"
  BY DEF AskUpdate, UpdateOK
<1> QED
  BY <1>1, <1>2

(* The messages of a longer sequence.                                      *)
LEMMA InNothing ==
  /\ \A x : ~Contains(<<>>, x)
  /\ \A s : ~Added(<<>>, s)
  BY DEF Contains, Added

LEMMA InAppend ==
  ASSUME NEW S, NEW q \in Seq(S), NEW m \in S
  PROVE  /\ \A x : Contains(Append(q, m), x) <=> Contains(q, x) \/ m = x
         /\ \A s : Added(Append(q, m), s) <=> m = Add(s) \/ (Added(q, s) /\ m # Delete(s))
<1> DEFINE r == Append(q, m)
           n == Len(q)
<1>1. n \in Nat /\ Len(r) = n + 1 /\ r[n + 1] = m /\ \A i \in 1..n : r[i] = q[i]
  OBVIOUS
<1> HIDE DEF r, n
<1>2. /\ \A i \in 1..n : i \in 1..Len(r) /\ r[i] = q[i]
      /\ n + 1 \in 1..Len(r) /\ r[n + 1] = m
      /\ \A i \in 1..Len(r) : i \in 1..n \/ i = n + 1
  BY <1>1
<1>3. ASSUME NEW x PROVE Contains(r, x) <=> Contains(q, x) \/ m = x
  BY <1>2 DEF Contains, n
<1>4. ASSUME NEW s
      PROVE  Added(r, s) <=> m = Add(s) \/ (Added(q, s) /\ m # Delete(s))
<2>1. ASSUME Added(r, s), m # Add(s) PROVE Added(q, s) /\ m # Delete(s)
<3>1. PICK i \in 1..Len(r) : r[i] = Add(s) /\ \A j \in (i + 1)..Len(r) : r[j] # Delete(s)
  BY <2>1 DEF Added
<3>2. i \in 1..n /\ q[i] = Add(s)
  BY <1>2, <2>1, <3>1
<3>3. n + 1 \in (i + 1)..Len(r) /\ \A j \in (i + 1)..n : j \in (i + 1)..Len(r) /\ q[j] = r[j]
  BY <1>1, <3>2
<3> QED
  BY <1>2, <3>1, <3>2, <3>3 DEF Added, n
<2>2. ASSUME m = Add(s) PROVE Added(r, s)
<3>1. \A j \in (n + 1 + 1)..Len(r) : r[j] # Delete(s)
  BY <1>1
<3> QED
  BY <1>2, <2>2, <3>1 DEF Added
<2>3. ASSUME Added(q, s), m # Delete(s) PROVE Added(r, s)
<3>1. PICK i \in 1..n : q[i] = Add(s) /\ \A j \in (i + 1)..n : q[j] # Delete(s)
  BY <2>3 DEF Added, n
<3>2. \A j \in (i + 1)..Len(r) : (j \in (i + 1)..n /\ r[j] = q[j]) \/ r[j] = m
  BY <1>1
<3>3. \A j \in (i + 1)..Len(r) : r[j] # Delete(s)
  BY <2>3, <3>1, <3>2
<3> QED
  BY <1>2, <3>1, <3>3 DEF Added
<2>4. Add(s) # Delete(s)
  BY AddIsNotDelete
<2> QED
  BY <2>1, <2>2, <2>3
<1> QED
  BY <1>3, <1>4 DEF r

LEMMA InTail ==
  ASSUME NEW S, NEW q \in Seq(S), q # <<>>
  PROVE  /\ \A x : Contains(q, x) <=> Head(q) = x \/ Contains(Tail(q), x)
         /\ \A s : Added(q, s) <=> \/ Added(Tail(q), s)
                                   \/ Head(q) = Add(s) /\ ~Contains(Tail(q), Delete(s))
<1> DEFINE r == Tail(q)
           m == Head(q)
           n == Len(r)
<1>1. n \in Nat /\ Len(q) = n + 1 /\ q[1] = m /\ \A i \in 1..n : r[i] = q[i + 1]
  OBVIOUS
<1> HIDE DEF r, m, n
<1>2. /\ \A i \in 1..n : i + 1 \in 1..Len(q) /\ q[i + 1] = r[i]
      /\ 1 \in 1..Len(q) /\ q[1] = m
      /\ \A i \in 1..Len(q) : i = 1 \/ (i - 1 \in 1..n /\ q[i] = r[i - 1])
  BY <1>1
<1>3. ASSUME NEW x PROVE Contains(q, x) <=> m = x \/ Contains(r, x)
<2>1. ASSUME Contains(q, x), m # x PROVE Contains(r, x)
<3>1. PICK i \in 1..Len(q) : q[i] = x
  BY <2>1 DEF Contains
<3>2. i - 1 \in 1..n /\ r[i - 1] = x
  BY <1>2, <2>1, <3>1
<3> QED
  BY <3>2 DEF Contains, n
<2>2. ASSUME Contains(r, x) PROVE Contains(q, x)
<3>1. PICK i \in 1..n : r[i] = x
  BY <2>2 DEF Contains, n
<3>2. i + 1 \in 1..Len(q) /\ q[i + 1] = x
  BY <1>2, <3>1
<3> QED
  BY <3>2 DEF Contains
<2>3. m = x => Contains(q, x)
  BY <1>2 DEF Contains
<2> QED
  BY <2>1, <2>2, <2>3
<1>4. ASSUME NEW s
      PROVE  Added(q, s) <=> Added(r, s) \/ (m = Add(s) /\ ~Contains(r, Delete(s)))
<2>1. ASSUME Added(q, s), ~Added(r, s) PROVE m = Add(s) /\ ~Contains(r, Delete(s))
<3>1. PICK i \in 1..Len(q) : q[i] = Add(s) /\ \A j \in (i + 1)..Len(q) : q[j] # Delete(s)
  BY <2>1 DEF Added
<3>2. i = 1
<4> SUFFICES ASSUME i # 1 PROVE FALSE
  OBVIOUS
<4> DEFINE k == i - 1
<4>1. k \in 1..n /\ r[k] = Add(s) /\ i = k + 1
  BY <1>2, <3>1
<4>2. ASSUME NEW j \in (k + 1)..n PROVE r[j] # Delete(s)
<5>1. j + 1 \in (i + 1)..Len(q) /\ q[j + 1] = r[j]
  BY <1>1, <4>1
<5> QED
  BY <3>1, <5>1
<4> HIDE DEF k
<4> QED
  BY <2>1, <4>1, <4>2 DEF Added, n
<3>3. ASSUME NEW j \in 1..n PROVE r[j] # Delete(s)
<4>1. j + 1 \in (i + 1)..Len(q) /\ q[j + 1] = r[j]
  BY <1>1, <3>2
<4> QED
  BY <3>1, <4>1
<3> QED
  BY <1>2, <3>1, <3>2, <3>3 DEF Contains, n
<2>2. ASSUME Added(r, s) PROVE Added(q, s)
<3>1. PICK i \in 1..n : r[i] = Add(s) /\ \A j \in (i + 1)..n : r[j] # Delete(s)
  BY <2>2 DEF Added, n
<3> DEFINE k == i + 1
<3>2. k \in 1..Len(q) /\ q[k] = Add(s)
  BY <1>2, <3>1
<3>3. ASSUME NEW j \in (k + 1)..Len(q) PROVE q[j] # Delete(s)
<4>1. j - 1 \in (i + 1)..n /\ q[j] = r[j - 1]
  BY <1>1
<4> QED
  BY <3>1, <4>1
<3> HIDE DEF k
<3> QED
  BY <3>2, <3>3 DEF Added
<2>3. ASSUME m = Add(s), ~Contains(r, Delete(s)) PROVE Added(q, s)
<3>1. ASSUME NEW j \in (1 + 1)..Len(q) PROVE q[j] # Delete(s)
<4>1. j - 1 \in 1..n /\ q[j] = r[j - 1]
  BY <1>1
<4> QED
  BY <2>3, <4>1 DEF Contains, n
<3> QED
  BY <1>2, <2>3, <3>1 DEF Added
<2> QED
  BY <2>1, <2>2, <2>3
<1> QED
  BY <1>3, <1>4 DEF r, m

LEMMA InOne ==
  ASSUME NEW m
  PROVE  /\ \A x : Contains(<<m>>, x) <=> m = x
         /\ \A s : Added(<<m>>, s) <=> m = Add(s)
<1> DEFINE q == <<m>>
<1>1. Len(q) = 1 /\ q[1] = m
  OBVIOUS
<1> HIDE DEF q
<1>2. \A i \in 1..Len(q) : i = 1
  BY <1>1
<1>3. 1 \in 1..Len(q)
  BY <1>1
<1>4. \A x : Contains(q, x) <=> m = x
  BY <1>1, <1>2, <1>3 DEF Contains
<1>5. \A j \in (1 + 1)..Len(q) : FALSE
  BY <1>1
<1>6. \A s : Added(q, s) <=> m = Add(s)
  BY <1>1, <1>2, <1>3, <1>5 DEF Added
<1> QED
  BY <1>4, <1>6 DEF q

-----------------------------------------------------------------------------
(* The two CPUs, and what has the names of neither.                        *)
LEMMA TwoCpus ==
  /\ Master \in Cpus /\ Slave \in Cpus /\ Slave # Master
  /\ Other(Master) = Slave /\ Other(Slave) = Master
  /\ \A c \in Cpus : c = Master \/ c = Slave
<1>1. PICK d \in Cpus : Cpus = {Master, d} /\ d # Master
  OBVIOUS
<1>2. Other(Master) \in Cpus /\ Other(Master) # Master
  BY OtherCpu
<1>3. Slave = d
  BY <1>1, <1>2 DEF Slave
<1>4. Other(Slave) \in Cpus /\ Other(Slave) # Slave
  BY <1>1, <1>3, OtherCpu
<1> QED
  BY <1>1, <1>2, <1>3, <1>4 DEF Slave

LEMMA Names ==
  /\ Master \in Contexts /\ Slave \in Contexts /\ Loader \in Contexts
  /\ Loader # Master /\ Loader # Slave
  /\ CpuOf(Master) = Master /\ CpuOf(Slave) = Slave /\ CpuOf(Loader) = Slave
  /\ \A t \in Tasks : /\ t \in Contexts /\ t # Master /\ t # Slave /\ t # Loader
                      /\ CpuOf(t) = Cpu[t] /\ Cpu[t] \in Cpus
  /\ \A x \in Contexts : x \in Tasks \/ x = Loader \/ x = Master \/ x = Slave
  BY TwoCpus DEF Contexts, CpuOf

(* What is on its way changes when a frame is sent and when one is read.   *)
LEMMA AirOfSend ==
  ASSUME DssInv, DssInv', NEW x \in Contexts, Write(x)
  PROVE  /\ Air(Other(CpuOf(x)))' = Append(Air(Other(CpuOf(x))), Head(todo[x]))
         /\ Air(CpuOf(x))' = Air(CpuOf(x))
<1> DEFINE c == CpuOf(x)
           d == Other(CpuOf(x))
           m == Head(todo[x])
<1>1. FifoInv /\ FifoInv' /\ FifoTypeOK
  BY DEF DssInv, FifoInv
<1>2. c \in Fifos /\ d \in Fifos /\ c # d
  BY OtherCpu DEF Cpus
<1>3. m \in Frames /\ WriteBegin(d, m)
  BY DropTypes DEF Write, DssInv
<1>4. FifoStep(d)
  BY <1>3 DEF FifoStep
<1> HIDE DEF c, d, m
<1>5. Air(d)' = Append(Air(d), m)
  BY <1>1, <1>2, <1>3, AirPut
<1>6. Air(c)' = Air(c)
  BY <1>1, <1>2, <1>4, OthersStay, AirSame
<1> QED
  BY <1>5, <1>6 DEF c, d, m

LEMMA AirOfRead ==
  ASSUME DssInv, DssInv', NEW c \in Cpus, Read(c)
  PROVE  /\ Air(c) # <<>> /\ Air(c)' = Tail(Air(c)) /\ Demux(c, Head(Air(c)))
         /\ Air(Other(c))' = Air(Other(c))
<1>1. FifoInv /\ FifoInv' /\ FifoTypeOK
  BY DEF DssInv, FifoInv
<1>2. c \in Fifos /\ Other(c) \in Fifos /\ c # Other(c)
  BY OtherCpu DEF Cpus
<1>3. ReadAdvance(c) /\ FifoStep(c)
  BY DEF Read, FifoStep
<1>4. Air(c) # <<>> /\ Head(Air(c)) = rd[c].frame /\ Air(c)' = Tail(Air(c))
  BY <1>1, <1>2, <1>3, AirGet
<1>5. Air(Other(c))' = Air(Other(c))
  BY <1>1, <1>2, <1>3, OthersStay, AirSame
<1> QED
  BY <1>4, <1>5 DEF Read

LEMMA AirStays ==
  ASSUME DssInv, DssInv', NEW c \in Cpus,
         UNCHANGED fifoVars \/ \E d \in Cpus : Writing(d) \/ Reading(d)
  PROVE  Air(c)' = Air(c)
<1>1. FifoInv /\ FifoInv' /\ FifoTypeOK /\ c \in Fifos
  BY DEF DssInv, FifoInv, Cpus
<1>2. CASE UNCHANGED fifoVars
<2>1. Same(c)
  BY <1>2 DEF Same, fifoVars
<2> QED
  BY <1>1, <2>1, AirSame
<1>3. ASSUME NEW f \in Fifos,
             WriteTear(f) \/ WriteCopy(f) \/ WriteAdvance(f) \/ ReadBegin(f) \/ ReadCopy(f)
      PROVE  Air(c)' = Air(c)
<2>1. CASE c = f
  BY <1>1, <1>3, <2>1, AirRest
<2>2. CASE c # f
<3>1. FifoStep(f)
  BY <1>3 DEF FifoStep
<3> QED
  BY <1>1, <2>2, <3>1, OthersStay, AirSame
<2> QED
  BY <2>1, <2>2
<1>4. ASSUME NEW d \in Cpus, Writing(d) \/ Reading(d) PROVE Air(c)' = Air(c)
  BY <1>3, <1>4, OtherCpu DEF Writing, Reading, Cpus
<1> QED
  BY <1>2, <1>4

-----------------------------------------------------------------------------
(* What the agreement of the tables rests on.                              *)
Home(s) == Cpu[Owner[s]]
SlaveSids == {s \in Sids : Home(s) = Slave}
About(q, s) == Contains(q, Add(s)) \/ Contains(q, Delete(s))
Idle(c) == \A t \in Tasks : Cpu[t] = c => todo[t] = <<>>

\* How far a CPU has started, and which of its contexts can then send.
StageInv ==
  /\ stage[Master] \in {"down", "up"}
  /\ stage[Master] = "down" => /\ table[Master] = {} /\ Idle(Master)
                               /\ Master \notin pending \cup running
  /\ stage[Slave] = "down" => /\ table[Slave] = {} /\ todo[Loader] = <<>>
                              /\ Slave \notin pending \cup running
  /\ stage[Slave] \in {"down", "init"} => Idle(Slave)
  /\ todo[Loader] # <<>> => /\ todo[Loader] = <<AskUpdate>> /\ Idle(Slave)
                            /\ stage[Slave] \in {"init", "oops"}
  /\ todo[Slave] = <<>>
  /\ todo[Master] # <<>> => Master \in running \ leaving
  /\ leaving \subseteq running
  /\ \A c \in Cpus : wr[Other(c)].at # "idle" => c \in sending

\* A task sends what it has done to the table of its CPU.
CallInv ==
  \A t \in Tasks : todo[t] # <<>> =>
    \E s \in Sids :
      /\ Owner[s] = t
      /\ \/ todo[t] = <<Add(s)>> /\ (Cpu[t] = Master => s \in table[Master])
         \/ todo[t] = <<Delete(s)>> /\ (Cpu[t] = Master => s \notin table[Master])

\* The slave asks and tells of its services, and the master does not ask.
AirInv ==
  /\ ~Contains(Air(Slave), AskUpdate) /\ ~Contains(todo[Master], AskUpdate)
  /\ \A m : Contains(Air(Master), m) =>
       m = AskUpdate \/ \E s \in SlaveSids : m = Add(s) \/ m = Delete(s)

LEMMA StageInit == Init => StageInv
  BY TwoCpus, Names DEF Init, FifoInit, Resting, StageInv, Idle, Cpus

LEMMA StageStepInv ==
  ASSUME DssInv, DssInv', StageInv, AirInv, [Next]_vars
  PROVE  StageInv'
<1> USE TwoCpus, Names
<1>0. /\ stage \in [Cpus -> {"down", "init", "up", "failed", "oops"}]
      /\ table \in [Cpus -> SUBSET Sids] /\ todo \in [Contexts -> Seq(Messages)]
      /\ wr \in [Cpus -> Writer]
  BY DEF DssInv, TypeOK, FifoTypeOK, Cpus
<1>1. CASE UNCHANGED vars
  BY <1>1 DEF StageInv, Idle, vars, fifoVars, cpuVars, intVars, sendVars
<1>2. CASE MasterStart
  BY <1>0, <1>2 DEF StageInv, Idle, MasterStart, fifoVars, intVars, sendVars
<1>3. CASE SlaveStart
  BY <1>0, <1>3 DEF StageInv, Idle, SlaveStart, fifoVars
<1>4. CASE Open
  BY <1>0, <1>4 DEF StageInv, Idle, Open, Runs, fifoVars, intVars, sendVars
<1>5. CASE SlaveStop
  BY <1>0, <1>5 DEF StageInv, Idle, SlaveStop, fifoVars, intVars, sendVars
<1>6. ASSUME NEW t \in Tasks, NEW s \in Sids, Reg(t, s) \/ Free(t, s) PROVE StageInv'
<2>1. PICK ids, m : Call(t, m, ids)
  BY <1>6 DEF Reg, Free
<2>2. stage[Cpu[t]] = "up"
  BY <2>1 DEF Call
<2> QED
  BY <1>0, <2>1, <2>2 DEF StageInv, Idle, Call, fifoVars, intVars
<1>7. ASSUME NEW x \in Contexts, Sending(x) PROVE StageInv'
<2>1. /\ todo[x] # <<>> /\ todo' = [todo EXCEPT ![x] = Tail(@)] /\ Runs(x)
      /\ UNCHANGED <<table, intVars>>
  BY <1>7 DEF Sending, NotReady, Full, Write, Drop, cpuVars
<2>2. x = Loader => todo'[Loader] = <<>>
  BY <1>0, <2>1 DEF StageInv
<2>3. \A y \in Contexts : todo'[y] = IF y = x THEN Tail(todo[y]) ELSE todo[y]
  BY <1>0, <2>1
<2>4. x # Slave
  BY <2>1 DEF StageInv
<2>5. \A y \in Contexts : todo[y] = <<>> => todo'[y] = <<>>
  BY <2>1, <2>3
<2>6. \A c \in Cpus : wr'[Other(c)].at # "idle" => c \in sending'
<3>1. CASE NotReady(x) \/ Full(x)
  BY <3>1 DEF NotReady, Full, Drop, fifoVars, StageInv
<3>2. CASE Write(x)
  BY <1>0, <3>2, OtherCpu DEF Write, WriteBegin, StageInv, Cpus
<3> QED
  BY <1>7, <3>1, <3>2 DEF Sending
<2>7. CASE UNCHANGED stage
  BY <2>1, <2>2, <2>3, <2>4, <2>5, <2>6, <2>7 DEF StageInv, Idle, intVars
<2>8. CASE x = Loader /\ stage' = [stage EXCEPT ![Slave] = "failed"]
  BY <1>0, <2>1, <2>2, <2>3, <2>4, <2>5, <2>6, <2>8 DEF StageInv, Idle, intVars
<2> QED
  BY <1>7, <2>7, <2>8 DEF Sending, NotReady, Full, Write, cpuVars
<1>8. ASSUME NEW c \in Cpus, Writing(c) PROVE StageInv'
<2>1. UNCHANGED <<cpuVars, intVars, sendVars>> /\ c \in sending
  BY <1>8 DEF Writing
<2>2. \A d \in Cpus : d # c => wr'[Other(d)] = wr[Other(d)]
  BY <1>0, <1>8, OtherCpu DEF Writing, WriteTear, WriteCopy, WriteAdvance
<2>3. \A d \in Cpus : wr'[Other(d)].at # "idle" => d \in sending'
  BY <2>1, <2>2 DEF StageInv, sendVars
<2> QED
  BY <2>1, <2>3 DEF StageInv, Idle, cpuVars, intVars, sendVars
<1>9. ASSUME NEW c \in Cpus, SemPost(c) PROVE StageInv'
  BY <1>9 DEF StageInv, Idle, SemPost, fifoVars, cpuVars
<1>10. ASSUME NEW c \in Cpus, Isr(c) PROVE StageInv'
  BY <1>10 DEF StageInv, Idle, Isr, fifoVars, cpuVars, sendVars
<1>11. ASSUME NEW c \in Cpus, SoftirqBegin(c) PROVE StageInv'
<2>1. UNCHANGED <<table, todo, leaving, wr, sending>> /\ c \in pending /\ pending' = pending \ {c}
  BY <1>11 DEF SoftirqBegin, fifoVars, sendVars
<2>2. CASE running' = running \cup {c} /\ UNCHANGED stage
  BY <2>1, <2>2 DEF StageInv, Idle
<2>3. CASE /\ c = Slave /\ stage' = [stage EXCEPT ![c] = "oops"]
           /\ UNCHANGED running
  BY <1>0, <2>1, <2>3 DEF StageInv, Idle
<2>4. c = Master => stage[c] = "up"
  BY <2>1 DEF StageInv
<2> QED
  BY <1>11, <2>2, <2>3, <2>4 DEF SoftirqBegin, Opened
<1>12. ASSUME NEW c \in Cpus, Reading(c) PROVE StageInv'
<2>1. UNCHANGED <<cpuVars, intVars, sendVars, wr>>
  BY <1>12 DEF Reading, ReadBegin, ReadCopy
<2> QED
  BY <2>1 DEF StageInv, Idle, cpuVars, intVars, sendVars
<1>13. ASSUME NEW c \in Cpus, Read(c) PROVE StageInv'
<2>1. UNCHANGED <<stage, intVars, sending, wr>> /\ InRxLoop(c)
  BY <1>13 DEF Read, ReadAdvance
<2>2. /\ Demux(c, Head(Air(c))) /\ Air(c) # <<>>
  BY <1>13, AirOfRead
<2>3. c = Slave => UNCHANGED todo
<3>1. Air(Slave) \in Seq(Messages)
  BY AirTypes DEF DssInv, Cpus
<3>2. c = Slave => Contains(Air(Slave), Head(Air(Slave)))
  BY <2>2, <3>1, InTail
<3>3. \A m \in Messages : m.cmd = "AskUpdate" => m = AskUpdate
  BY DEF Messages, AskUpdate
<3>4. c = Slave => Head(Air(Slave)) \in Messages
  BY <2>2, <3>1
<3> QED
  BY <2>2, <3>2, <3>3, <3>4 DEF Demux, AirInv
<2>4. \A y \in Contexts : y # c => todo'[y] = todo[y]
  BY <1>0, <2>2 DEF Demux
<2>5. \A d \in Cpus : d # c => table'[d] = table[d]
  BY <1>0, <2>2 DEF Demux
<2>6. c \in running /\ c \notin leaving
  BY <2>1 DEF InRxLoop
<2> QED
  BY <2>1, <2>3, <2>4, <2>5, <2>6 DEF StageInv, Idle, intVars
<1>14. ASSUME NEW c \in Cpus, RxEmpty(c) PROVE StageInv'
  BY <1>14 DEF StageInv, Idle, RxEmpty, InRxLoop, fifoVars, cpuVars, sendVars
<1>15. ASSUME NEW c \in Cpus, SoftirqEnd(c) PROVE StageInv'
  BY <1>15 DEF StageInv, Idle, SoftirqEnd, fifoVars, cpuVars, sendVars
<1> QED
  BY <1>1, <1>2, <1>3, <1>4, <1>5, <1>6, <1>7, <1>8, <1>9, <1>10, <1>11, <1>12, <1>13, <1>14, <1>15
  DEF Next, TaskSteps, Rx

-----------------------------------------------------------------------------
(* The steps that only move a CPU through its code.                        *)
Calm ==
  /\ UNCHANGED <<table, todo, lost, starts>>
  /\ Air(Master)' = Air(Master) /\ Air(Slave)' = Air(Slave)
  /\ stage'[Slave] = "down" <=> stage[Slave] = "down"

\* The steps that drop what a context had to send.
Drops(x) ==
  /\ x \in Contexts /\ todo[x] # <<>>
  /\ todo' = [todo EXCEPT ![x] = Tail(@)]
  /\ lost' = TRUE /\ UNCHANGED <<table, starts>>
  /\ Air(Master)' = Air(Master) /\ Air(Slave)' = Air(Slave)
  /\ stage'[Slave] = "down" <=> stage[Slave] = "down"

(* Every step is calm, drops a message, or is one of the six that start or *)
(* stop the slave, change a table, send or receive.                        *)
LEMMA StepKinds ==
  ASSUME DssInv, DssInv', StageInv, [Next]_vars
  PROVE  \/ Calm \/ SlaveStart \/ SlaveStop
         \/ \E t \in Tasks, s \in Sids : Reg(t, s) \/ Free(t, s)
         \/ \E x \in Contexts : Drops(x) \/ Write(x)
         \/ \E c \in Cpus : Read(c)
<1> USE TwoCpus
<1>0. stage \in [Cpus -> {"down", "init", "up", "failed", "oops"}]
  BY DEF DssInv, TypeOK
<1>1. UNCHANGED fifoVars \/ (\E d \in Cpus : Writing(d) \/ Reading(d))
      => Air(Master)' = Air(Master) /\ Air(Slave)' = Air(Slave)
  BY AirStays
<1>2. CASE UNCHANGED vars
  BY <1>1, <1>2 DEF Calm, vars, cpuVars, sendVars, ghosts
<1>3. CASE MasterStart \/ Open
  BY <1>0, <1>1, <1>3 DEF Calm, MasterStart, Open, sendVars, ghosts
<1>4. ASSUME NEW x \in Contexts, NotReady(x) \/ Full(x) PROVE Drops(x)
<2>1. /\ todo[x] # <<>> /\ todo' = [todo EXCEPT ![x] = Tail(@)] /\ lost' = TRUE /\ Runs(x)
      /\ UNCHANGED <<table, starts, fifoVars>>
  BY <1>4 DEF NotReady, Full, Drop
<2>2. stage'[Slave] = "down" <=> stage[Slave] = "down"
<3>1. x = Loader => stage[Slave] # "down"
  BY <2>1 DEF StageInv
<3> QED
  BY <1>0, <1>4, <3>1 DEF NotReady, Full
<2> QED
  BY <1>1, <2>1, <2>2 DEF Drops
<1>5. ASSUME NEW c \in Cpus,
             Writing(c) \/ SemPost(c) \/ Isr(c) \/ Reading(c) \/ RxEmpty(c) \/ SoftirqEnd(c)
      PROVE  Calm
<2>1. UNCHANGED <<table, todo, lost, starts, stage>>
  BY <1>5 DEF Writing, SemPost, Isr, Reading, RxEmpty, SoftirqEnd, cpuVars, sendVars, ghosts
<2>2. UNCHANGED fifoVars \/ \E d \in Cpus : Writing(d) \/ Reading(d)
  BY <1>5 DEF SemPost, Isr, RxEmpty, SoftirqEnd
<2> QED
  BY <1>1, <2>1, <2>2 DEF Calm
<1>6. ASSUME NEW c \in Cpus, SoftirqBegin(c) PROVE Calm
<2>1. UNCHANGED <<table, todo, lost, starts, fifoVars>> /\ c \in pending
  BY <1>6 DEF SoftirqBegin, sendVars, ghosts
<2>2. stage'[Slave] = "down" <=> stage[Slave] = "down"
  BY <1>0, <1>6, <2>1 DEF SoftirqBegin, StageInv
<2> QED
  BY <1>1, <2>1, <2>2 DEF Calm
<1> QED
  BY <1>2, <1>3, <1>4, <1>5, <1>6 DEF Next, TaskSteps, Sending, Rx

(* What a context still has to send.                                       *)
LEMMA Sends ==
  ASSUME DssInv, StageInv, CallInv, NEW x \in Contexts, todo[x] # <<>>
  PROVE  /\ x # Slave
         /\ x = Loader => todo[x] = <<AskUpdate>>
         /\ x \in Tasks => \E s \in Sids : /\ Owner[s] = x
                                           /\ todo[x] = <<Add(s)>> \/ todo[x] = <<Delete(s)>>
         /\ x # Master => todo[x] = <<Head(todo[x])>> /\ Tail(todo[x]) = <<>>
<1> USE Names
<1>1. x # Slave /\ (x = Loader => todo[x] = <<AskUpdate>>)
  BY DEF StageInv
<1>2. x \in Tasks => \E s \in Sids : /\ Owner[s] = x
                                     /\ todo[x] = <<Add(s)>> \/ todo[x] = <<Delete(s)>>
  BY DEF CallInv
<1>3. x # Master => \E m : todo[x] = <<m>>
  BY <1>1, <1>2
<1>4. \A m : Head(<<m>>) = m /\ Tail(<<m>>) = <<>>
  OBVIOUS
<1> QED
  BY <1>1, <1>2, <1>3, <1>4

(* What is read is a message that was on its way.                          *)
LEMMA Reads ==
  ASSUME DssInv, DssInv', NEW c \in Cpus, Read(c)
  PROVE  /\ Head(Air(c)) \in Messages /\ Contains(Air(c), Head(Air(c)))
         /\ \A m : Contains(Air(c)', m) => Contains(Air(c), m)
         /\ \A m \in Messages : \/ m = AskUpdate \/ m = UpdateOK
                                \/ \E s \in Sids : m = Add(s) \/ m = Delete(s)
<1>1. Air(c) \in Seq(Messages) /\ Air(c) # <<>> /\ Air(c)' = Tail(Air(c))
  BY AirTypes, AirOfRead DEF DssInv, Cpus
<1>2. \A m \in Messages : \/ m = AskUpdate \/ m = UpdateOK
                          \/ \E s \in Sids : m = Add(s) \/ m = Delete(s)
  BY DEF Messages, AskUpdate, UpdateOK, Add, Delete
<1> QED
  BY <1>1, <1>2, InTail

(* What the softirq does with a message.                                   *)
LEMMA DemuxIs ==
  ASSUME DssInv, NEW c \in Cpus
  PROVE  /\ \A s \in Sids : Demux(c, Add(s)) =>
              table' = [table EXCEPT ![c] = table[c] \cup {s}] /\ UNCHANGED todo
         /\ \A s \in Sids : Demux(c, Delete(s)) =>
              table' = [table EXCEPT ![c] = table[c] \ {s}] /\ UNCHANGED todo
         /\ Demux(c, UpdateOK) => UNCHANGED <<table, todo>>
         /\ Demux(c, AskUpdate) => todo' = [todo EXCEPT ![c] = Update(table[c])] /\ UNCHANGED table
<1>1. \A s \in Sids : /\ Add(s).cmd = "Add" /\ Add(s).sid = s
                     /\ Delete(s).cmd = "Delete" /\ Delete(s).sid = s
  BY DEF Add, Delete
<1>2. AskUpdate.cmd = "AskUpdate" /\ UpdateOK.cmd = "UpdateOK"
  BY DEF AskUpdate, UpdateOK
<1>3. table = [table EXCEPT ![c] = table[c]]
  BY DEF DssInv, TypeOK
<1>4. ASSUME NEW s \in Sids, Demux(c, Add(s))
      PROVE  table' = [table EXCEPT ![c] = table[c] \cup {s}] /\ UNCHANGED todo
  BY <1>1, <1>4 DEF Demux
<1>5. ASSUME NEW s \in Sids, Demux(c, Delete(s))
      PROVE  table' = [table EXCEPT ![c] = table[c] \ {s}] /\ UNCHANGED todo
  BY <1>1, <1>5 DEF Demux
<1>6. Demux(c, UpdateOK) => UNCHANGED <<table, todo>>
  BY <1>2, <1>3 DEF Demux
<1>7. Demux(c, AskUpdate) => todo' = [todo EXCEPT ![c] = Update(table[c])] /\ UNCHANGED table
  BY <1>2, <1>3 DEF Demux, Update
<1> QED
  BY <1>4, <1>5, <1>6, <1>7

(* The steps by what they do to the messages, with the two CPUs named.     *)
LEMMA Shapes ==
  ASSUME DssInv
  PROVE  /\ todo \in [Contexts -> Seq(Messages)] /\ table \in [Cpus -> SUBSET Sids]
         /\ stage \in [Cpus -> {"down", "init", "up", "failed", "oops"}]
         /\ Air(Master) \in Seq(Messages) /\ Air(Slave) \in Seq(Messages)
         /\ todo[Master] \in Seq(Messages)
<1>1. Air(Master) \in Seq(Messages) /\ Air(Slave) \in Seq(Messages)
  BY TwoCpus, AirTypes DEF DssInv, Cpus
<1> QED
  BY <1>1, Names DEF DssInv, TypeOK

LEMMA StartStopIs ==
  ASSUME DssInv, DssInv', SlaveStart \/ SlaveStop
  PROVE  Air(Master)' = Air(Master) /\ Air(Slave)' = Air(Slave)
  BY TwoCpus, AirStays DEF SlaveStart, SlaveStop

LEMMA CallIs ==
  ASSUME DssInv, DssInv', NEW t \in Tasks, NEW s \in Sids, Reg(t, s) \/ Free(t, s)
  PROVE  /\ Air(Master)' = Air(Master) /\ Air(Slave)' = Air(Slave)
         /\ Owner[s] = t /\ todo[t] = <<>> /\ stage[Cpu[t]] = "up"
         /\ Cpu[t] \notin running
         /\ UNCHANGED <<stage, lost, starts>>
         /\ \/ /\ todo' = [todo EXCEPT ![t] = <<Add(s)>>] /\ s \notin table[Cpu[t]]
               /\ table' = [table EXCEPT ![Cpu[t]] = table[Cpu[t]] \cup {s}]
            \/ /\ todo' = [todo EXCEPT ![t] = <<Delete(s)>>] /\ s \in table[Cpu[t]]
               /\ table' = [table EXCEPT ![Cpu[t]] = table[Cpu[t]] \ {s}]
<1>1. UNCHANGED fifoVars
  BY DEF Reg, Free, Call
<1>2. Air(Master)' = Air(Master) /\ Air(Slave)' = Air(Slave)
  BY <1>1, TwoCpus, AirStays
<1>3. Cpu[t] \notin running
  BY Names DEF Reg, Free, Call, Runs
<1> QED
  BY <1>2, <1>3 DEF Reg, Free, Call

LEMMA WriteIs ==
  ASSUME DssInv, DssInv', NEW x \in Contexts, Write(x)
  PROVE  /\ todo[x] # <<>> /\ todo' = [todo EXCEPT ![x] = Tail(@)]
         /\ UNCHANGED <<stage, table, lost, starts>>
         /\ CpuOf(x) = Master => /\ Air(Slave)' = Append(Air(Slave), Head(todo[x]))
                                 /\ Air(Master)' = Air(Master)
         /\ CpuOf(x) = Slave => /\ Air(Master)' = Append(Air(Master), Head(todo[x]))
                                /\ Air(Slave)' = Air(Slave)
         /\ x # CpuOf(x) => CpuOf(x) \notin running
         /\ Head(todo[x]) \in Messages
<1>1. /\ Air(Other(CpuOf(x)))' = Append(Air(Other(CpuOf(x))), Head(todo[x]))
      /\ Air(CpuOf(x))' = Air(CpuOf(x))
  BY AirOfSend
<1>2. /\ CpuOf(x) = Master => /\ Air(Slave)' = Append(Air(Slave), Head(todo[x]))
                              /\ Air(Master)' = Air(Master)
      /\ CpuOf(x) = Slave => /\ Air(Master)' = Append(Air(Master), Head(todo[x]))
                             /\ Air(Slave)' = Air(Slave)
<2>1. CASE CpuOf(x) = Master
  BY <1>1, <2>1, TwoCpus
<2>2. CASE CpuOf(x) = Slave
  BY <1>1, <2>2, TwoCpus
<2> QED
  BY <2>1, <2>2, TwoCpus
<1>3. todo[x] # <<>> /\ Head(todo[x]) \in Messages
  BY DropTypes DEF Write, DssInv
<1>4. x # CpuOf(x) => CpuOf(x) \notin running
  BY DEF Write, Runs
<1> QED
  BY <1>2, <1>3, <1>4 DEF Write, cpuVars, ghosts

LEMMA CallStepInv ==
  ASSUME DssInv, DssInv', StageInv, CallInv, AirInv, [Next]_vars
  PROVE  CallInv'
<1> USE Names
<1>0. todo \in [Contexts -> Seq(Messages)] /\ table \in [Cpus -> SUBSET Sids]
  BY Shapes
<1>1. CASE Calm
  BY <1>1 DEF Calm, CallInv
<1>2. CASE SlaveStart
<2>1. UNCHANGED table /\ \A t \in Tasks : todo'[t] = todo[t]
  BY <1>0, <1>2 DEF SlaveStart
<2> QED
  BY <2>1 DEF CallInv
<1>3. CASE SlaveStop
<2>1. UNCHANGED todo /\ table'[Master] = table[Master]
  BY <1>0, <1>3, TwoCpus DEF SlaveStop, sendVars
<2> QED
  BY <2>1 DEF CallInv
<1>4. ASSUME NEW t \in Tasks, NEW s \in Sids, Reg(t, s) \/ Free(t, s) PROVE CallInv'
<2>1. \A u \in Tasks : u # t => todo'[u] = todo[u]
  BY <1>0, <1>4, CallIs
<2>2. \A r \in Sids : r # s => (r \in table'[Master] <=> r \in table[Master])
<3>1. \/ table' = [table EXCEPT ![Cpu[t]] = table[Cpu[t]] \cup {s}]
      \/ table' = [table EXCEPT ![Cpu[t]] = table[Cpu[t]] \ {s}]
  BY <1>4, CallIs
<3> QED
  BY <1>0, <3>1, TwoCpus
<2>3. Owner[s] = t /\ \/ todo'[t] = <<Add(s)>> /\ (Cpu[t] = Master => s \in table'[Master])
                      \/ todo'[t] = <<Delete(s)>> /\ (Cpu[t] = Master => s \notin table'[Master])
  BY <1>0, <1>4, CallIs, TwoCpus
<2>4. ASSUME NEW u \in Tasks, u # t, todo'[u] # <<>>
      PROVE  \E r \in Sids :
               /\ Owner[r] = u
               /\ \/ todo'[u] = <<Add(r)>> /\ (Cpu[u] = Master => r \in table'[Master])
                  \/ todo'[u] = <<Delete(r)>> /\ (Cpu[u] = Master => r \notin table'[Master])
  BY <2>1, <2>2, <2>3, <2>4 DEF CallInv
<2> QED
  BY <2>3, <2>4 DEF CallInv
<1>5. ASSUME NEW x \in Contexts, Drops(x) \/ Write(x) PROVE CallInv'
<2>1. UNCHANGED table /\ todo[x] # <<>> /\ todo' = [todo EXCEPT ![x] = Tail(@)]
  BY <1>5, WriteIs DEF Drops
<2>2. x \in Tasks => Tail(todo[x]) = <<>>
  BY <2>1, Sends
<2>3. \A t \in Tasks : todo'[t] = todo[t] \/ todo'[t] = <<>>
  BY <1>0, <2>1, <2>2
<2>4. ASSUME NEW t \in Tasks, todo'[t] # <<>>
      PROVE  \E s \in Sids :
               /\ Owner[s] = t
               /\ \/ todo'[t] = <<Add(s)>> /\ (Cpu[t] = Master => s \in table'[Master])
                  \/ todo'[t] = <<Delete(s)>> /\ (Cpu[t] = Master => s \notin table'[Master])
<3>1. todo'[t] = todo[t] /\ table' = table
  BY <2>1, <2>3, <2>4
<3> QED
  BY <2>4, <3>1 DEF CallInv
<2> QED
  BY <2>4 DEF CallInv
<1>6. ASSUME NEW c \in Cpus, Read(c) PROVE CallInv'
<2> DEFINE m == Head(Air(c))
<2>1. Demux(c, m) /\ m \in Messages /\ Contains(Air(c), m)
  BY <1>6, AirOfRead, Reads
<2>2. \A t \in Tasks : todo'[t] = todo[t]
  BY <1>0, <2>1, TwoCpus DEF Demux
<2>3. ASSUME NEW t \in Tasks, Cpu[t] = Master, NEW s \in Sids, Owner[s] = t
      PROVE  s \in table'[Master] <=> s \in table[Master]
<3>1. CASE c = Slave
  BY <1>0, <2>1, <3>1, TwoCpus DEF Demux
<3>2. CASE c = Master
<4>1. m = AskUpdate \/ \E r \in SlaveSids : m = Add(r) \/ m = Delete(r)
  BY <2>1, <3>2 DEF AirInv
<4>2. s \notin SlaveSids
  BY <2>3, TwoCpus DEF SlaveSids, Home
<4>3. m = AskUpdate => UNCHANGED table
  BY <2>1, DemuxIs
<4>4. ASSUME NEW r \in SlaveSids, m = Add(r) \/ m = Delete(r)
      PROVE  \/ table' = [table EXCEPT ![c] = table[c] \cup {r}]
             \/ table' = [table EXCEPT ![c] = table[c] \ {r}]
  BY <2>1, <4>4, DemuxIs DEF SlaveSids
<4> HIDE DEF m
<4> QED
  BY <1>0, <3>2, <4>1, <4>2, <4>3, <4>4
<3> QED
  BY <3>1, <3>2, TwoCpus
<2> QED
  BY <2>2, <2>3 DEF CallInv
<1> QED
  BY <1>1, <1>2, <1>3, <1>4, <1>5, <1>6, StepKinds

LEMMA AirStepInv ==
  ASSUME DssInv, DssInv', StageInv, CallInv, AirInv, [Next]_vars
  PROVE  AirInv'
<1> USE Names
<1>0. todo \in [Contexts -> Seq(Messages)]
  BY Shapes
<1>1. ASSUME Air(Master)' = Air(Master), Air(Slave)' = Air(Slave), todo'[Master] = todo[Master]
      PROVE  AirInv'
  BY <1>1 DEF AirInv
<1>2. CASE Calm
  BY <1>1, <1>2 DEF Calm
<1>3. CASE SlaveStart \/ SlaveStop
  BY <1>0, <1>1, <1>3, StartStopIs DEF SlaveStart, SlaveStop, sendVars
<1>4. ASSUME NEW t \in Tasks, NEW s \in Sids, Reg(t, s) \/ Free(t, s) PROVE AirInv'
  BY <1>0, <1>1, <1>4, CallIs
<1>5. ASSUME NEW x \in Contexts, Drops(x) \/ Write(x) PROVE AirInv'
<2>1. todo[x] # <<>> /\ todo' = [todo EXCEPT ![x] = Tail(@)]
  BY <1>5, WriteIs DEF Drops
<2>2. ~Contains(todo'[Master], AskUpdate)
<3>1. CASE x = Master
<4>1. todo'[Master] = Tail(todo[Master])
  BY <1>0, <2>1, <3>1
<4> QED
  BY <2>1, <3>1, <4>1, Shapes, InTail DEF AirInv
<3>2. CASE x # Master
  BY <1>0, <2>1, <3>2 DEF AirInv
<3> QED
  BY <3>1, <3>2
<2>3. CASE Drops(x)
  BY <2>2, <2>3 DEF Drops, AirInv
<2>4. CASE Write(x)
<3> DEFINE m == Head(todo[x])
<3>1. m \in Messages
  BY <2>4, WriteIs
<3>2. CASE CpuOf(x) = Master
<4>1. Air(Slave)' = Append(Air(Slave), m) /\ Air(Master)' = Air(Master)
  BY <2>4, <3>2, WriteIs
<4>2. m # AskUpdate
<5>1. CASE x = Master
  BY <2>1, <5>1, Shapes, InTail DEF AirInv
<5>2. CASE x \in Tasks
<6>1. \E s \in Sids : todo[x] = <<Add(s)>> \/ todo[x] = <<Delete(s)>>
  BY <2>1, <5>2, Sends
<6> QED
  BY <6>1, AddIsNotDelete
<5> QED
  BY <3>2, <5>1, <5>2, <2>1, Sends, TwoCpus
<4> HIDE DEF m
<4>3. ~Contains(Air(Slave)', AskUpdate)
  BY <3>1, <4>1, <4>2, Shapes, InAppend DEF AirInv
<4> QED
  BY <2>2, <4>1, <4>3 DEF AirInv
<3>3. CASE CpuOf(x) = Slave
<4>1. Air(Master)' = Append(Air(Master), m) /\ Air(Slave)' = Air(Slave)
  BY <2>4, <3>3, WriteIs
<4>2. m = AskUpdate \/ \E s \in SlaveSids : m = Add(s) \/ m = Delete(s)
<5>1. CASE x = Loader
  BY <2>1, <5>1, Sends
<5>2. CASE x \in Tasks
<6>1. PICK s \in Sids : Owner[s] = x /\ (todo[x] = <<Add(s)>> \/ todo[x] = <<Delete(s)>>)
  BY <2>1, <5>2, Sends
<6>2. s \in SlaveSids
  BY <3>3, <5>2, <6>1 DEF SlaveSids, Home
<6> QED
  BY <6>1, <6>2
<5> QED
  BY <3>3, <5>1, <5>2, <2>1, Sends, TwoCpus
<4> HIDE DEF m
<4>3. \A y : Contains(Air(Master)', y) <=> Contains(Air(Master), y) \/ m = y
  BY <3>1, <4>1, Shapes, InAppend
<4> QED
  BY <2>2, <4>1, <4>2, <4>3 DEF AirInv
<3> QED
  BY <3>2, <3>3, TwoCpus, OtherCpu
<2> QED
  BY <1>5, <2>3, <2>4
<1>6. ASSUME NEW c \in Cpus, Read(c) PROVE AirInv'
<2>1. /\ Air(Other(c))' = Air(Other(c)) /\ \A m : Contains(Air(c)', m) => Contains(Air(c), m)
      /\ Demux(c, Head(Air(c))) /\ Head(Air(c)) \in Messages /\ Contains(Air(c), Head(Air(c)))
  BY <1>6, AirOfRead, Reads
<2>2. /\ \A m : Contains(Air(Master)', m) => Contains(Air(Master), m)
      /\ \A m : Contains(Air(Slave)', m) => Contains(Air(Slave), m)
<3>1. CASE c = Master
  BY <2>1, <3>1, TwoCpus
<3>2. CASE c = Slave
  BY <2>1, <3>2, TwoCpus
<3> QED
  BY <3>1, <3>2, TwoCpus
<2>3. ~Contains(todo'[Master], AskUpdate)
<3>1. todo'[Master] = todo[Master] \/ \E ids \in SUBSET Sids : todo'[Master] = Update(ids)
  BY <1>0, <2>1, Shapes, TwoCpus DEF Demux, Update
<3>2. \A ids \in SUBSET Sids : ~Contains(Update(ids), AskUpdate)
  BY UpdateIs, AddIsNotDelete
<3> QED
  BY <3>1, <3>2 DEF AirInv
<2> QED
  BY <2>2, <2>3 DEF AirInv
<1> QED
  BY <1>2, <1>3, <1>4, <1>5, <1>6, StepKinds

-----------------------------------------------------------------------------
\* The slave has asked for the table of the master, and has no answer yet.
Asking == todo[Loader] # <<>> \/ Contains(Air(Master), AskUpdate)

\* The first time the slave starts, it asks before it tells of a service.
OnceInv ==
  /\ starts \in Nat
  /\ starts = 0 => /\ Air(Master) = <<>> /\ stage[Slave] = "down"
                   /\ SlaveSids \cap table[Master] = {}
  /\ starts <= 1 =>
       /\ Asking => SlaveSids \cap table[Master] = {}
       /\ todo[Loader] # <<>> => Air(Master) = <<>>
       /\ Air(Master) # <<>> => ~Contains(Tail(Air(Master)), AskUpdate)
       /\ \A s \in SlaveSids : ~About(Air(Slave), s) /\ ~About(todo[Master], s)

LEMMA OnceStepInv ==
  ASSUME DssInv, DssInv', StageInv, CallInv, AirInv, OnceInv, [Next]_vars
  PROVE  OnceInv'
<1> USE Names
<1>0. /\ todo \in [Contexts -> Seq(Messages)] /\ table \in [Cpus -> SUBSET Sids]
      /\ stage \in [Cpus -> {"down", "init", "up", "failed", "oops"}] /\ starts \in Nat
  BY Shapes DEF OnceInv
<1>1. CASE Calm
  BY <1>1 DEF Calm, OnceInv, Asking
<1>2. CASE SlaveStart
<2>1. /\ Air(Master)' = Air(Master) /\ Air(Slave)' = Air(Slave) /\ UNCHANGED table
      /\ starts' = starts + 1 /\ todo'[Master] = todo[Master]
  BY <1>0, <1>2, StartStopIs DEF SlaveStart
<2>2. starts' \in Nat /\ starts' # 0 /\ (starts' <= 1 => starts = 0)
  BY <1>0, <2>1
<2> QED
  BY <2>1, <2>2, InNothing DEF OnceInv
<1>3. CASE SlaveStop
<2>1. /\ Air(Master)' = Air(Master) /\ Air(Slave)' = Air(Slave)
      /\ UNCHANGED <<todo, starts>> /\ table'[Master] = table[Master] /\ stage'[Slave] = "down"
  BY <1>0, <1>3, TwoCpus, StartStopIs DEF SlaveStop, sendVars, ghosts
<2> QED
  BY <2>1 DEF OnceInv, Asking
<1>4. ASSUME NEW t \in Tasks, NEW s \in Sids, Reg(t, s) \/ Free(t, s) PROVE OnceInv'
<2>1. /\ Air(Master)' = Air(Master) /\ Air(Slave)' = Air(Slave) /\ UNCHANGED <<starts, stage>>
      /\ todo'[Master] = todo[Master] /\ todo'[Loader] = todo[Loader]
  BY <1>0, <1>4, CallIs
<2>2. \A r \in SlaveSids : r \in table'[Master] <=> r \in table[Master]
<3>1. \/ table' = [table EXCEPT ![Cpu[t]] = table[Cpu[t]] \cup {s}]
      \/ table' = [table EXCEPT ![Cpu[t]] = table[Cpu[t]] \ {s}]
  BY <1>4, CallIs
<3>2. Cpu[t] = Master => s \notin SlaveSids
  BY <1>4, CallIs, TwoCpus DEF SlaveSids, Home
<3> QED
  BY <1>0, <3>1, <3>2, TwoCpus
<2> QED
  BY <2>1, <2>2 DEF OnceInv, Asking
<1>5. ASSUME NEW x \in Contexts, Drops(x) \/ Write(x) PROVE OnceInv'
<2>1. /\ todo[x] # <<>> /\ todo' = [todo EXCEPT ![x] = Tail(@)] /\ UNCHANGED <<table, starts>>
      /\ stage'[Slave] = "down" <=> stage[Slave] = "down"
  BY <1>5, WriteIs DEF Drops
<2>2. /\ x = Loader => todo'[Loader] = <<>>
      /\ x # Loader => todo'[Loader] = todo[Loader]
  BY <1>0, <2>1, Sends
<2>3. \A m : Contains(todo'[Master], m) => Contains(todo[Master], m)
<3>1. CASE x = Master
<4>1. todo'[Master] = Tail(todo[Master])
  BY <1>0, <2>1, <3>1
<4> QED
  BY <2>1, <3>1, <4>1, Shapes, InTail
<3>2. CASE x # Master
  BY <1>0, <2>1, <3>2
<3> QED
  BY <3>1, <3>2
<2>4. CASE Drops(x)
<3>1. Air(Master)' = Air(Master) /\ Air(Slave)' = Air(Slave)
  BY <2>4 DEF Drops
<3> QED
  BY <2>1, <2>2, <2>3, <3>1 DEF OnceInv, Asking, About
<2>5. CASE Write(x) /\ CpuOf(x) = Master
<3> DEFINE m == Head(todo[x])
<3>1. m \in Messages /\ Air(Slave)' = Append(Air(Slave), m) /\ Air(Master)' = Air(Master)
  BY <2>5, WriteIs
<3>2. \A y : Contains(Air(Slave)', y) <=> Contains(Air(Slave), y) \/ m = y
  BY <3>1, Shapes, InAppend
<3>3. starts <= 1 => \A s \in SlaveSids : m # Add(s) /\ m # Delete(s)
<4>1. CASE x = Master
  BY <2>1, <4>1, Shapes, InTail DEF OnceInv, About
<4>2. CASE x \in Tasks
<5>1. PICK s \in Sids : Owner[s] = x /\ (todo[x] = <<Add(s)>> \/ todo[x] = <<Delete(s)>>)
  BY <2>1, <4>2, Sends
<5>2. s \notin SlaveSids
  BY <2>5, <4>2, <5>1, TwoCpus DEF SlaveSids, Home
<5>3. m = Add(s) \/ m = Delete(s)
  BY <5>1
<5> QED
  BY <5>2, <5>3, AddIsNotDelete
<4> QED
  BY <2>5, <4>1, <4>2, TwoCpus
<3> HIDE DEF m
<3>4. x # Loader
  BY <2>5, TwoCpus
<3> QED
  BY <2>1, <2>2, <2>3, <3>1, <3>2, <3>3, <3>4 DEF OnceInv, Asking, About
<2>6. CASE Write(x) /\ CpuOf(x) = Slave
<3> DEFINE m == Head(todo[x])
<3>1. m \in Messages /\ Air(Master)' = Append(Air(Master), m) /\ Air(Slave)' = Air(Slave)
  BY <2>6, WriteIs
<3>2. x = Loader \/ (x \in Tasks /\ Cpu[x] = Slave)
  BY <2>1, <2>6, TwoCpus, Sends
<3>3. stage[Slave] # "down" /\ starts # 0
  BY <2>1, <3>2 DEF StageInv, Idle, OnceInv
<3>4. x = Loader => m = AskUpdate
  BY <2>1, Sends
<3>5. x \in Tasks => m # AskUpdate /\ todo[Loader] = <<>>
<4>1. x \in Tasks => \E s \in Sids : todo[x] = <<Add(s)>> \/ todo[x] = <<Delete(s)>>
  BY <2>1, Sends
<4>2. x \in Tasks => todo[Loader] = <<>>
  BY <2>1, <3>2 DEF StageInv, Idle
<4> QED
  BY <4>1, <4>2, AddIsNotDelete
<3> HIDE DEF m
<3>6. \A y : Contains(Air(Master)', y) <=> Contains(Air(Master), y) \/ m = y
  BY <3>1, Shapes, InAppend
<3>7. starts <= 1 => (Asking' => Asking)
  BY <2>2, <3>2, <3>4, <3>5, <3>6, <2>1 DEF Asking
<3>8. todo'[Loader] = <<>>
  BY <2>2, <3>2, <3>5
<3>9. starts <= 1 => ~Contains(Tail(Air(Master)'), AskUpdate)
<4>1. CASE Air(Master) = <<>>
<5>1. Tail(Append(<<>>, m)) = <<>>
  OBVIOUS
<5> QED
  BY <3>1, <4>1, <5>1, InNothing
<4>2. CASE Air(Master) # <<>>
<5> DEFINE q == Tail(Air(Master))
<5>1. Air(Master)' = Append(Air(Master), m) /\ Air(Master) \in Seq(Messages)
  BY <3>1, Shapes
<5>2. Tail(Air(Master)') = Append(q, m) /\ q \in Seq(Messages)
  BY ONLY <3>1, <4>2, <5>1
<5> HIDE DEF q
<5>4. Contains(Tail(Air(Master)'), AskUpdate) <=> Contains(q, AskUpdate) \/ m = AskUpdate
<6>1. Contains(Append(q, m), AskUpdate) <=> Contains(q, AskUpdate) \/ m = AskUpdate
  BY ONLY <3>1, <5>2, InAppend
<6> QED
  BY ONLY <5>2, <6>1
<5>3. starts <= 1 => x # Loader
  BY <2>1, <4>2 DEF OnceInv
<5> QED
  BY <3>2, <3>5, <4>2, <5>3, <5>4 DEF OnceInv, q
<4> QED
  BY <4>1, <4>2
<3> QED
  BY <2>1, <2>3, <3>1, <3>3, <3>7, <3>8, <3>9 DEF OnceInv, About
<2> QED
  BY <1>5, <2>4, <2>5, <2>6, TwoCpus, OtherCpu
<1>6. ASSUME NEW c \in Cpus, Read(c) PROVE OnceInv'
<2> DEFINE m == Head(Air(c))
<2>1. /\ Air(c) # <<>> /\ Air(c)' = Tail(Air(c)) /\ Air(Other(c))' = Air(Other(c))
      /\ Demux(c, m) /\ m \in Messages /\ Contains(Air(c), m)
      /\ \A y : Contains(Air(c)', y) => Contains(Air(c), y)
  BY <1>6, AirOfRead, Reads
<2>2. UNCHANGED <<stage, starts>> /\ todo'[Loader] = todo[Loader]
  BY <1>0, <1>6, <2>1, TwoCpus DEF Read, Demux, ghosts
<2>3. CASE c = Slave
<3>1. m # AskUpdate
  BY <2>1, <2>3 DEF AirInv
<3>2. m = UpdateOK \/ \E s \in Sids : m = Add(s) \/ m = Delete(s)
  BY <1>6, <2>1, <3>1, Reads
<3>3. UNCHANGED todo
  BY <2>1, <3>2, DemuxIs
<3>4. table'[Master] = table[Master]
  BY <1>0, <2>1, <2>3, TwoCpus DEF Demux
<3> QED
  BY <2>1, <2>2, <2>3, <3>3, <3>4, TwoCpus DEF OnceInv, Asking, About
<2>4. CASE c = Master
<3>1. starts # 0
  BY <2>1, <2>4 DEF OnceInv
<3>2. starts <= 1 => ~Asking'
  BY <2>1, <2>2, <2>4 DEF OnceInv, Asking
<3>3. starts <= 1 => todo'[Loader] = <<>>
  BY <2>1, <2>2, <2>4 DEF OnceInv
<3>4. starts <= 1 => (Tail(Air(Master)) # <<>> => ~Contains(Tail(Tail(Air(Master))), AskUpdate))
<4>1. Tail(Air(Master)) \in Seq(Messages)
  BY <2>1, <2>4, Shapes
<4>2. Tail(Air(Master)) # <<>> /\ Contains(Tail(Tail(Air(Master))), AskUpdate)
      => Contains(Tail(Air(Master)), AskUpdate)
  BY <4>1, InTail
<4> QED
  BY <2>1, <2>4, <4>2 DEF OnceInv
<3>5. starts <= 1 => \A s \in SlaveSids : ~About(todo'[Master], s)
<4>1. CASE m = AskUpdate
<5>1. todo'[Master] = Update(table[Master])
  BY <1>0, <2>1, <2>4, <4>1, DemuxIs
<5>2. starts <= 1 => SlaveSids \cap table[Master] = {}
  BY <2>1, <2>4, <4>1 DEF OnceInv, Asking
<5>3. \A y : Contains(Update(table[Master]), y)
             <=> y = UpdateOK \/ \E s \in table[Master] : y = Add(s)
<6>1. table[Master] \in SUBSET Sids
  BY <1>0, TwoCpus
<6> QED
  BY <6>1, UpdateIs
<5> QED
  BY <5>1, <5>2, <5>3, AddIsNotDelete DEF About
<4>2. CASE m # AskUpdate
<5>1. UNCHANGED todo
  BY <1>6, <2>1, <4>2, Reads, DemuxIs
<5> QED
  BY <5>1 DEF OnceInv
<4> QED
  BY <4>1, <4>2
<3>6. Air(Slave)' = Air(Slave)
  BY <2>1, <2>4, TwoCpus
<3>7. Air(Master)' = Tail(Air(Master))
  BY <2>1, <2>4
<3>8. starts' = starts /\ starts' \in Nat
  BY <1>0, <2>2
<3> QED
  BY ONLY <3>1, <3>2, <3>3, <3>4, <3>5, <3>6, <3>7, <3>8, OnceInv DEF OnceInv, About
<2> QED
  BY <2>3, <2>4, TwoCpus
<1> QED
  BY <1>1, <1>2, <1>3, <1>4, <1>5, <1>6, StepKinds

-----------------------------------------------------------------------------
\* What the other table will say of s when all that is on its way is handled.
SlaveTold(s) ==
  Told(todo[Owner[s]], s, Told(todo[Master], s, Told(Air(Slave), s, s \in table[Slave])))
MasterTold(s) ==
  Told(todo[Owner[s]], s, Told(Air(Master), s, s \in table[Master]))

\* No table knows more than what its owner will be found to have told.
MasterAgrees(s) ==
  /\ SlaveTold(s) => s \in table[Master]
  /\ s \in table[Master] => SlaveTold(s) \/ Asking \/ stage[Slave] = "down"
SlaveAgrees(s) ==
  starts = 1 /\ stage[Slave] # "down" => (MasterTold(s) <=> s \in table[Slave])

AgreeInv ==
  ~lost => /\ \A s \in Sids \ SlaveSids : MasterAgrees(s)
           /\ \A s \in SlaveSids : SlaveAgrees(s)

(* A message that is read changes what a table says as Told has it.        *)
LEMMA DemuxSays ==
  ASSUME DssInv, NEW c \in Cpus, NEW m \in Messages, Demux(c, m), NEW s \in Sids
  PROVE  /\ s \in table'[c] <=> m = Add(s) \/ (s \in table[c] /\ m # Delete(s))
         /\ \A d \in Cpus : d # c => table'[d] = table[d]
         /\ m # AskUpdate => UNCHANGED todo
<1>0. table \in [Cpus -> SUBSET Sids]
  BY Shapes
<1>1. CASE m = AskUpdate \/ m = UpdateOK
<2>1. UNCHANGED table /\ (m # AskUpdate => UNCHANGED todo)
  BY <1>1, DemuxIs
<2> QED
  BY <1>1, <2>1, AddIsNotDelete
<1>2. ASSUME NEW r \in Sids, m = Add(r)
      PROVE  s \in table'[c] <=> m = Add(s) \/ (s \in table[c] /\ m # Delete(s))
<2>1. table' = [table EXCEPT ![c] = table[c] \cup {r}]
  BY <1>2, DemuxIs
<2> QED
  BY <1>0, <1>2, <2>1, AddIsNotDelete
<1>3. ASSUME NEW r \in Sids, m = Delete(r)
      PROVE  s \in table'[c] <=> m = Add(s) \/ (s \in table[c] /\ m # Delete(s))
<2>1. table' = [table EXCEPT ![c] = table[c] \ {r}]
  BY <1>3, DemuxIs
<2> QED
  BY <1>0, <1>3, <2>1, AddIsNotDelete
<1>4. \/ m = AskUpdate \/ m = UpdateOK
      \/ \E r \in Sids : m = Add(r) \/ m = Delete(r)
  BY DEF Messages, AskUpdate, UpdateOK, Add, Delete
<1>5. \A d \in Cpus : d # c => table'[d] = table[d]
  BY <1>0 DEF Demux
<1>6. m # AskUpdate => UNCHANGED todo
  BY <1>4, DemuxIs
<1> QED
  BY <1>1, <1>2, <1>3, <1>4, <1>5, <1>6

(* A call is seen in the message of the task that makes it, and in nothing *)
(* that is said of other services.                                         *)
LEMMA CallSays ==
  ASSUME DssInv, DssInv', NEW t \in Tasks, NEW r \in Sids, Reg(t, r) \/ Free(t, r),
         NEW s \in Sids
  PROVE  /\ s # r => /\ Added(todo'[Owner[s]], s) <=> Added(todo[Owner[s]], s)
                     /\ Contains(todo'[Owner[s]], Delete(s)) <=> Contains(todo[Owner[s]], Delete(s))
                     /\ \A c \in Cpus : s \in table'[c] <=> s \in table[c]
         /\ s = r => /\ \/ Added(todo'[Owner[s]], s) /\ s \in table'[Home(s)]
                        \/ /\ ~Added(todo'[Owner[s]], s) /\ s \notin table'[Home(s)]
                           /\ Contains(todo'[Owner[s]], Delete(s))
<1> USE Names
<1>0. todo \in [Contexts -> Seq(Messages)] /\ table \in [Cpus -> SUBSET Sids]
  BY Shapes
<1>1. /\ Owner[r] = t /\ todo[t] = <<>>
      /\ \/ /\ todo' = [todo EXCEPT ![t] = <<Add(r)>>]
            /\ table' = [table EXCEPT ![Cpu[t]] = table[Cpu[t]] \cup {r}]
         \/ /\ todo' = [todo EXCEPT ![t] = <<Delete(r)>>]
            /\ table' = [table EXCEPT ![Cpu[t]] = table[Cpu[t]] \ {r}]
  BY CallIs
<1>2. Owner[s] \in Tasks /\ Home(s) = Cpu[Owner[s]]
  BY DEF Home
<1>3. /\ \A c \in Cpus : s # r => (s \in table'[c] <=> s \in table[c])
      /\ Owner[s] # t => todo'[Owner[s]] = todo[Owner[s]]
  BY <1>0, <1>1, <1>2
<1>4. \/ todo'[t] = <<Add(r)>> /\ r \in table'[Cpu[t]]
      \/ todo'[t] = <<Delete(r)>> /\ r \notin table'[Cpu[t]]
  BY <1>0, <1>1
<1>5. ASSUME s # r, Owner[s] = t
      PROVE  /\ ~Added(todo'[t], s) /\ ~Contains(todo'[t], Delete(s))
             /\ ~Added(todo[t], s) /\ ~Contains(todo[t], Delete(s))
<2>1. ~Added(todo[t], s) /\ ~Contains(todo[t], Delete(s))
  BY <1>1, InNothing
<2>2. ~Added(todo'[t], s) /\ ~Contains(todo'[t], Delete(s))
<3>1. CASE todo'[t] = <<Add(r)>>
  BY <1>5, <3>1, InOne, AddIsNotDelete
<3>2. CASE todo'[t] = <<Delete(r)>>
  BY <1>5, <3>2, InOne, AddIsNotDelete
<3> QED
  BY <1>4, <3>1, <3>2
<2> QED
  BY <2>1, <2>2
<1>6. ASSUME s = r
      PROVE  \/ Added(todo'[Owner[s]], s) /\ s \in table'[Home(s)]
             \/ /\ ~Added(todo'[Owner[s]], s) /\ s \notin table'[Home(s)]
                /\ Contains(todo'[Owner[s]], Delete(s))
<2>1. Owner[s] = t /\ Home(s) = Cpu[t]
  BY <1>1, <1>2, <1>6
<2>2. CASE todo'[t] = <<Add(s)>> /\ s \in table'[Cpu[t]]
<3>1. Added(todo'[t], s)
  BY <2>2, InOne
<3> QED
  BY <2>1, <2>2, <3>1
<2>3. CASE todo'[t] = <<Delete(s)>> /\ s \notin table'[Cpu[t]]
<3>1. ~Added(todo'[t], s) /\ Contains(todo'[t], Delete(s))
  BY <2>3, InOne, AddIsNotDelete
<3> QED
  BY <2>1, <2>3, <3>1
<2> QED
  BY <1>4, <1>6, <2>2, <2>3
<1> QED
  BY <1>3, <1>5, <1>6

(* A message that leaves a context for the other CPU is still told of.     *)
LEMMA WriteSays ==
  ASSUME DssInv, DssInv', StageInv, CallInv, NEW x \in Contexts, Write(x), NEW s \in Sids
  PROVE  /\ s \notin SlaveSids => (SlaveTold(s)' <=> SlaveTold(s))
         /\ s \in SlaveSids => (MasterTold(s)' <=> MasterTold(s))
<1> USE Names
<1> DEFINE m == Head(todo[x])
           o == Owner[s]
<1>0. /\ todo \in [Contexts -> Seq(Messages)] /\ o \in Tasks /\ o \in Contexts
      /\ Air(Master) \in Seq(Messages) /\ Air(Slave) \in Seq(Messages)
  BY Shapes
<1>1. /\ todo[x] # <<>> /\ m \in Messages /\ table' = table
      /\ \A y \in Contexts : y # x => todo'[y] = todo[y]
      /\ todo'[x] = Tail(todo[x])
      /\ todo[x] \in Seq(Messages)
  BY <1>0, WriteIs
<1>2. /\ \A y : Contains(todo[x], y) <=> m = y \/ Contains(todo'[x], y)
      /\ Added(todo[x], s) <=> Added(todo'[x], s) \/ (m = Add(s) /\ ~Contains(todo'[x], Delete(s)))
  BY <1>1, InTail
<1>3. Add(s) # Delete(s)
  BY AddIsNotDelete
<1>4. x \in Tasks => todo[Master] = <<>> \/ Cpu[x] = Slave
<2>1. x \in Tasks => Cpu[x] \notin running
  BY TwoCpus, WriteIs
<2> QED
  BY <2>1, TwoCpus DEF StageInv
<1>5. x \in Tasks /\ x # o => m # Add(s) /\ m # Delete(s)
<2>1. x \in Tasks => \E r \in Sids : /\ Owner[r] = x
                                     /\ todo[x] = <<Add(r)>> \/ todo[x] = <<Delete(r)>>
  BY <1>1, Sends
<2>2. \A r : Head(<<Add(r)>>) = Add(r) /\ Head(<<Delete(r)>>) = Delete(r)
  OBVIOUS
<2> QED
  BY <2>1, <2>2, AddIsNotDelete
<1>6. x \in Tasks => todo'[x] = <<>>
  BY <1>1, Sends
<1>7. x # Slave /\ (x = Loader => m = AskUpdate)
  BY <1>1, Sends
<1>8. ASSUME s \notin SlaveSids PROVE SlaveTold(s)' <=> SlaveTold(s)
<2>1. Cpu[o] = Master
  BY <1>0, <1>8, TwoCpus DEF SlaveSids, Home
<2>2. CASE CpuOf(x) = Slave
<3>1. x # o /\ x # Master /\ Air(Slave)' = Air(Slave)
  BY <1>0, <2>1, <2>2, WriteIs, TwoCpus
<3>2. todo'[o] = todo[o] /\ todo'[Master] = todo[Master]
  BY <1>0, <1>1, <3>1
<3> QED
  BY <1>1, <3>1, <3>2 DEF SlaveTold
<2>3. CASE CpuOf(x) = Master
<3>1. Air(Slave)' = Append(Air(Slave), m) /\ x # Loader
  BY <2>3, WriteIs, TwoCpus
<3> HIDE DEF m, o
<3>2. /\ Contains(Air(Slave)', Delete(s)) <=> Contains(Air(Slave), Delete(s)) \/ m = Delete(s)
      /\ Added(Air(Slave)', s) <=> m = Add(s) \/ (Added(Air(Slave), s) /\ m # Delete(s))
  BY <1>0, <1>1, <3>1, InAppend
<3>3. CASE x = Master
<4>1. todo'[o] = todo[o]
  BY <1>0, <1>1, <3>3
<4> QED
  BY <1>1, <1>2, <1>3, <3>2, <3>3, <4>1 DEF SlaveTold, Told, o
<3>4. CASE x \in Tasks
<4>1. todo[Master] = <<>> /\ todo'[Master] = <<>>
  BY <1>1, <1>4, <2>3, <3>4, TwoCpus
<4>2. ~Added(<<>>, s) /\ ~Contains(<<>>, Delete(s))
  BY InNothing
<4>3. CASE x = o
<5>1. todo'[o] = <<>>
  BY <1>6, <3>4, <4>3
<5> QED
  BY <1>1, <1>2, <1>3, <3>2, <4>1, <4>2, <4>3, <5>1 DEF SlaveTold, Told, o
<4>4. CASE x # o
<5>1. todo'[o] = todo[o] /\ m # Add(s) /\ m # Delete(s)
  BY <1>0, <1>1, <1>5, <3>4, <4>4
<5> QED
  BY <1>1, <3>2, <4>1, <5>1 DEF SlaveTold, Told, o
<4> QED
  BY <4>3, <4>4
<3> QED
  BY <1>7, <3>1, <3>3, <3>4
<2> QED
  BY <2>2, <2>3, TwoCpus, OtherCpu
<1>9. ASSUME s \in SlaveSids PROVE MasterTold(s)' <=> MasterTold(s)
<2>1. Cpu[o] = Slave
  BY <1>9 DEF SlaveSids, Home
<2>2. CASE CpuOf(x) = Master
<3>1. x # o /\ Air(Master)' = Air(Master)
  BY <1>0, <2>1, <2>2, WriteIs, TwoCpus
<3>2. todo'[o] = todo[o]
  BY <1>0, <1>1, <3>1
<3> QED
  BY <1>1, <3>1, <3>2 DEF MasterTold
<2>3. CASE CpuOf(x) = Slave
<3>1. Air(Master)' = Append(Air(Master), m) /\ x # Master
  BY <2>3, WriteIs, TwoCpus
<3> HIDE DEF m, o
<3>2. /\ Contains(Air(Master)', Delete(s)) <=> Contains(Air(Master), Delete(s)) \/ m = Delete(s)
      /\ Added(Air(Master)', s) <=> m = Add(s) \/ (Added(Air(Master), s) /\ m # Delete(s))
  BY <1>0, <1>1, <3>1, InAppend
<3>3. CASE x = o
<4>1. todo'[o] = <<>> /\ ~Added(<<>>, s) /\ ~Contains(<<>>, Delete(s))
  BY <1>0, <1>6, <3>3, InNothing
<4> QED
  BY <1>1, <1>2, <1>3, <3>2, <3>3, <4>1 DEF MasterTold, Told, o
<3>4. CASE x # o
<4>1. todo'[o] = todo[o]
  BY <1>0, <1>1, <3>4
<4>2. m # Add(s) /\ m # Delete(s)
  BY <1>5, <1>7, <3>1, <3>4, AddIsNotDelete
<4> QED
  BY <1>1, <3>2, <4>1, <4>2 DEF MasterTold, Told, o
<3> QED
  BY <3>3, <3>4
<2> QED
  BY <2>2, <2>3, TwoCpus, OtherCpu
<1> QED
  BY <1>8, <1>9

(* What the master's own services look like to the slave.                  *)
LEMMA MasterAgreesStep ==
  ASSUME DssInv, DssInv', StageInv, CallInv, AirInv, [Next]_vars,
         NEW s \in Sids \ SlaveSids, MasterAgrees(s)
  PROVE  lost' \/ MasterAgrees(s)'
<1> USE Names
<1> DEFINE o == Owner[s]
<1>0. /\ todo \in [Contexts -> Seq(Messages)] /\ table \in [Cpus -> SUBSET Sids]
      /\ stage \in [Cpus -> {"down", "init", "up", "failed", "oops"}]
      /\ Air(Master) \in Seq(Messages) /\ Air(Slave) \in Seq(Messages)
      /\ o \in Tasks /\ Cpu[o] = Master /\ o # Master /\ o # Loader /\ o # Slave
  BY Shapes, TwoCpus DEF SlaveSids, Home
<1>1. CASE Calm
  BY <1>1 DEF Calm, MasterAgrees, SlaveTold, Asking
<1>2. CASE SlaveStart
<2>1. /\ UNCHANGED table /\ Air(Slave)' = Air(Slave)
      /\ todo'[o] = todo[o] /\ todo'[Master] = todo[Master]
  BY <1>0, <1>2, StartStopIs DEF SlaveStart
<2>2. SlaveTold(s)' <=> SlaveTold(s)
  BY <2>1 DEF SlaveTold
<2>3. stage[Master] = "up" => Asking'
<3>1. <<AskUpdate>> # <<>>
  OBVIOUS
<3> QED
  BY <1>0, <1>2, <3>1 DEF SlaveStart, Ready, Asking
<2>4. stage[Master] # "up" => s \notin table'[Master]
  BY <2>1 DEF StageInv
<2> QED
  BY <2>1, <2>2, <2>3, <2>4 DEF MasterAgrees
<1>3. CASE SlaveStop
<2>1. /\ UNCHANGED todo /\ Air(Slave)' = Air(Slave) /\ table'[Master] = table[Master]
      /\ s \notin table'[Slave] /\ stage'[Slave] = "down"
  BY <1>0, <1>3, TwoCpus, StartStopIs DEF SlaveStop, sendVars
<2>2. SlaveTold(s)' => SlaveTold(s)
  BY <2>1 DEF SlaveTold, Told
<2> QED
  BY <2>1, <2>2 DEF MasterAgrees
<1>4. ASSUME NEW t \in Tasks, NEW r \in Sids, Reg(t, r) \/ Free(t, r) PROVE MasterAgrees(s)'
<2>1. /\ Air(Master)' = Air(Master) /\ Air(Slave)' = Air(Slave) /\ UNCHANGED stage
      /\ todo'[Master] = todo[Master] /\ todo'[Loader] = todo[Loader]
  BY <1>0, <1>4, CallIs
<2>2. Asking' <=> Asking
  BY <2>1 DEF Asking
<2>3. CASE s = r
<3>1. \/ Added(todo'[o], s) /\ s \in table'[Master]
      \/ ~Added(todo'[o], s) /\ s \notin table'[Master] /\ Contains(todo'[o], Delete(s))
  BY <1>0, <1>4, <2>3, CallSays DEF Home
<3> QED
  BY <3>1 DEF MasterAgrees, SlaveTold, Told
<2>4. CASE s # r
<3>1. /\ Added(todo'[o], s) <=> Added(todo[o], s)
      /\ Contains(todo'[o], Delete(s)) <=> Contains(todo[o], Delete(s))
      /\ s \in table'[Master] <=> s \in table[Master]
      /\ s \in table'[Slave] <=> s \in table[Slave]
  BY <1>0, <1>4, <2>4, CallSays, TwoCpus
<3>2. SlaveTold(s)' <=> SlaveTold(s)
  BY <2>1, <3>1 DEF SlaveTold, Told
<3> QED
  BY <2>1, <2>2, <3>1, <3>2 DEF MasterAgrees
<2> QED
  BY <2>3, <2>4
<1>5. ASSUME NEW x \in Contexts, Drops(x) \/ Write(x) PROVE lost' \/ MasterAgrees(s)'
<2>1. CASE Drops(x)
  BY <2>1 DEF Drops
<2>2. CASE Write(x)
<3>1. UNCHANGED <<stage, table>> /\ (SlaveTold(s)' <=> SlaveTold(s))
  BY <2>2, WriteIs, WriteSays
<3>2. Asking => Asking'
<4>1. CASE x = Loader
<5>1. todo[x] # <<>> /\ Head(todo[x]) = AskUpdate
<6>1. todo[x] = <<AskUpdate>>
  BY <2>2, <4>1, WriteIs, Sends
<6> QED
  BY <6>1
<5>2. Air(Master)' = Append(Air(Master), AskUpdate) /\ AskUpdate \in Messages
  BY <2>2, <4>1, <5>1, WriteIs
<5> QED
  BY <1>0, <5>2, InAppend DEF Asking
<4>2. CASE x # Loader
<5>1. todo'[Loader] = todo[Loader]
  BY <1>0, <2>2, <4>2, WriteIs
<5>2. Contains(Air(Master), AskUpdate) => Contains(Air(Master)', AskUpdate)
<6> DEFINE m == Head(todo[x])
<6>1. Air(Master)' = Air(Master) \/ (Air(Master)' = Append(Air(Master), m) /\ m \in Messages)
  BY <2>2, WriteIs, TwoCpus, OtherCpu
<6> HIDE DEF m
<6>2. CASE Air(Master)' = Append(Air(Master), m) /\ m \in Messages
<7>1. Contains(Append(Air(Master), m), AskUpdate)
      <=> Contains(Air(Master), AskUpdate) \/ m = AskUpdate
  BY <1>0, <6>2, InAppend
<7> QED
  BY <6>2, <7>1
<6> QED
  BY <6>1, <6>2
<5> QED
  BY <5>1, <5>2 DEF Asking
<4> QED
  BY <4>1, <4>2
<3> QED
  BY <3>1, <3>2 DEF MasterAgrees
<2> QED
  BY <1>5, <2>1, <2>2
<1>6. ASSUME NEW c \in Cpus, Read(c) PROVE MasterAgrees(s)'
<2> DEFINE m == Head(Air(c))
<2>1. /\ Air(c) # <<>> /\ Air(c)' = Tail(Air(c)) /\ Air(Other(c))' = Air(Other(c))
      /\ Demux(c, m) /\ m \in Messages /\ Contains(Air(c), m)
      /\ todo[c] = <<>> /\ UNCHANGED stage
  BY <1>6, AirOfRead, Reads DEF Read, InRxLoop
<2>2. /\ Contains(Air(c), Delete(s)) <=> m = Delete(s) \/ Contains(Tail(Air(c)), Delete(s))
      /\ Contains(Air(c), AskUpdate) <=> m = AskUpdate \/ Contains(Tail(Air(c)), AskUpdate)
      /\ Added(Air(c), s) <=> \/ Added(Tail(Air(c)), s)
                              \/ m = Add(s) /\ ~Contains(Tail(Air(c)), Delete(s))
<3>1. Air(c) \in Seq(Messages)
  BY <1>0, TwoCpus
<3> QED
  BY <2>1, <3>1, InTail
<2>3. /\ s \in table'[c] <=> m = Add(s) \/ (s \in table[c] /\ m # Delete(s))
      /\ \A d \in Cpus : d # c => table'[d] = table[d]
      /\ m # AskUpdate => UNCHANGED todo
  BY <2>1, DemuxSays
<2>4. Add(s) # Delete(s) /\ Add(s) # AskUpdate /\ Delete(s) # AskUpdate
  BY AddIsNotDelete
<2> HIDE DEF m
<2>5. CASE c = Slave
<3>1. m # AskUpdate /\ UNCHANGED todo
  BY <2>1, <2>3, <2>5 DEF AirInv
<3>2. Air(Slave)' = Tail(Air(Slave)) /\ Air(Master)' = Air(Master) /\ table'[Master] = table[Master]
  BY <2>1, <2>3, <2>5, TwoCpus
<3>3. SlaveTold(s)' <=> SlaveTold(s)
  BY <2>2, <2>3, <2>4, <2>5, <3>1, <3>2 DEF SlaveTold, Told
<3>4. Asking' <=> Asking
  BY <3>1, <3>2 DEF Asking
<3> QED
  BY <2>1, <3>2, <3>3, <3>4 DEF MasterAgrees
<2>6. CASE c = Master
<3>1. /\ Air(Slave)' = Air(Slave) /\ Air(Master)' = Tail(Air(Master))
      /\ table'[Slave] = table[Slave]
  BY <2>1, <2>3, <2>6, TwoCpus
<3>2. m # Add(s) /\ m # Delete(s)
  BY <2>1, <2>4, <2>6, AddIsNotDelete DEF AirInv
<3>3. s \in table'[Master] <=> s \in table[Master]
  BY <2>3, <2>6, <3>2
<3>4. CASE m # AskUpdate
<4>1. (Asking' <=> Asking) /\ (SlaveTold(s)' <=> SlaveTold(s))
  BY <2>2, <2>3, <2>6, <3>1, <3>4 DEF Asking, SlaveTold
<4> QED
  BY <2>1, <3>3, <4>1 DEF MasterAgrees
<3>5. CASE m = AskUpdate
<4>1. todo'[Master] = Update(table[Master]) /\ todo'[o] = todo[o]
<5>1. todo' = [todo EXCEPT ![c] = Update(table[c])]
  BY <2>1, <3>5, DemuxIs
<5> QED
  BY <1>0, <2>6, <5>1
<4>2. ~Contains(todo'[Master], Delete(s)) /\ (Added(todo'[Master], s) <=> s \in table[Master])
<5>1. \A y : Contains(Update(table[Master]), y)
             <=> y = UpdateOK \/ \E r \in table[Master] : y = Add(r)
  BY <1>0, UpdateIs, TwoCpus
<5>2. ~Contains(Update(table[Master]), Delete(s))
  BY <5>1, AddIsNotDelete
<5>3. Contains(Update(table[Master]), Add(s)) <=> s \in table[Master]
  BY <5>1, AddIsNotDelete
<5>4. Added(Update(table[Master]), s) <=> Contains(Update(table[Master]), Add(s))
<6> DEFINE u == Update(table[Master])
<6>1. Len(u) \in Nat
  BY <1>0, UpdateIs, TwoCpus
<6>2. \A i \in 1..Len(u) : u[i] # Delete(s)
  BY <5>2 DEF Contains
<6> HIDE DEF u
<6>3. \A i \in 1..Len(u) : \A j \in (i + 1)..Len(u) : j \in 1..Len(u)
  BY <6>1
<6>4. Added(u, s) <=> Contains(u, Add(s))
  BY <6>2, <6>3 DEF Added, Contains
<6> QED
  BY <6>4 DEF u
<5> QED
  BY <4>1, <5>2, <5>3, <5>4
<4>3. ~Added(todo[Master], s) /\ ~Contains(todo[Master], Delete(s))
  BY <2>1, <2>6, InNothing
<4>4. \/ ~Added(todo[o], s) /\ ~Contains(todo[o], Delete(s))
      \/ Added(todo[o], s) /\ s \in table[Master]
      \/ ~Added(todo[o], s) /\ Contains(todo[o], Delete(s)) /\ s \notin table[Master]
<5>1. CASE todo[o] = <<>>
  BY <5>1, InNothing
<5>2. CASE todo[o] # <<>>
<6>1. PICK r \in Sids :
        /\ Owner[r] = o
        /\ \/ todo[o] = <<Add(r)>> /\ (Cpu[o] = Master => r \in table[Master])
           \/ todo[o] = <<Delete(r)>> /\ (Cpu[o] = Master => r \notin table[Master])
  BY <1>0, <5>2 DEF CallInv
<6>2. CASE todo[o] = <<Add(r)>>
<7>1. r \in table[Master]
  BY <1>0, <6>1, <6>2, AddIsNotDelete
<7> QED
  BY <6>2, <7>1, InOne, AddIsNotDelete
<6>3. CASE todo[o] = <<Delete(r)>>
<7>1. r \notin table[Master]
  BY <1>0, <6>1, <6>3, AddIsNotDelete
<7> QED
  BY <6>3, <7>1, InOne, AddIsNotDelete
<6> QED
  BY <6>1, <6>2, <6>3
<5> QED
  BY <5>1, <5>2
<4> HIDE DEF o
<4> QED
  BY <3>1, <3>3, <4>1, <4>2, <4>3, <4>4 DEF MasterAgrees, SlaveTold, Told, o
<3> QED
  BY <3>4, <3>5
<2> QED
  BY <2>5, <2>6, TwoCpus
<1> QED
  BY <1>1, <1>2, <1>3, <1>4, <1>5, <1>6, StepKinds

(* What the slave's own services look like to the master, as long as the   *)
(* slave has started once.                                                 *)
LEMMA SlaveAgreesStep ==
  ASSUME DssInv, DssInv', StageInv, CallInv, AirInv, OnceInv, [Next]_vars,
         NEW s \in SlaveSids, SlaveAgrees(s)
  PROVE  lost' \/ SlaveAgrees(s)'
<1> USE Names
<1> DEFINE o == Owner[s]
<1>0. /\ todo \in [Contexts -> Seq(Messages)] /\ table \in [Cpus -> SUBSET Sids]
      /\ stage \in [Cpus -> {"down", "init", "up", "failed", "oops"}]
      /\ Air(Master) \in Seq(Messages) /\ Air(Slave) \in Seq(Messages)
      /\ s \in Sids /\ o \in Tasks /\ Cpu[o] = Slave /\ o # Master /\ o # Loader /\ o # Slave
  BY Shapes DEF SlaveSids, Home
<1>1. CASE Calm
  BY <1>1 DEF Calm, SlaveAgrees, MasterTold
<1>2. CASE SlaveStart
<2>1. /\ UNCHANGED table /\ Air(Master)' = Air(Master) /\ todo'[o] = todo[o]
      /\ starts' = starts + 1 /\ stage[Slave] = "down"
  BY <1>0, <1>2, StartStopIs DEF SlaveStart
<2>2. starts' = 1 => starts = 0
  BY <2>1 DEF OnceInv
<2>3. starts = 0 => /\ todo[o] = <<>> /\ Air(Master) = <<>>
                    /\ s \notin table[Master] /\ s \notin table[Slave]
  BY <1>0, <2>1 DEF OnceInv, StageInv, Idle
<2>4. starts' = 1 => ~MasterTold(s)'
  BY <2>1, <2>2, <2>3, InNothing DEF MasterTold, Told
<2> QED
  BY <2>1, <2>2, <2>3, <2>4 DEF SlaveAgrees
<1>3. CASE SlaveStop
<2>1. stage'[Slave] = "down"
  BY <1>0, <1>3, TwoCpus DEF SlaveStop
<2> QED
  BY <2>1 DEF SlaveAgrees
<1>4. ASSUME NEW t \in Tasks, NEW r \in Sids, Reg(t, r) \/ Free(t, r) PROVE SlaveAgrees(s)'
<2>1. Air(Master)' = Air(Master) /\ UNCHANGED <<stage, starts>>
  BY <1>4, CallIs
<2>2. CASE s = r
<3>1. \/ Added(todo'[o], s) /\ s \in table'[Slave]
      \/ ~Added(todo'[o], s) /\ s \notin table'[Slave] /\ Contains(todo'[o], Delete(s))
  BY <1>0, <1>4, <2>2, CallSays DEF Home
<3> QED
  BY <3>1 DEF SlaveAgrees, MasterTold, Told
<2>3. CASE s # r
<3>1. /\ Added(todo'[o], s) <=> Added(todo[o], s)
      /\ Contains(todo'[o], Delete(s)) <=> Contains(todo[o], Delete(s))
      /\ s \in table'[Master] <=> s \in table[Master]
      /\ s \in table'[Slave] <=> s \in table[Slave]
  BY <1>0, <1>4, <2>3, CallSays, TwoCpus
<3>2. MasterTold(s)' <=> MasterTold(s)
  BY <2>1, <3>1 DEF MasterTold, Told
<3> QED
  BY <2>1, <3>1, <3>2 DEF SlaveAgrees
<2> QED
  BY <2>2, <2>3
<1>5. ASSUME NEW x \in Contexts, Drops(x) \/ Write(x) PROVE lost' \/ SlaveAgrees(s)'
<2>1. CASE Drops(x)
  BY <2>1 DEF Drops
<2>2. CASE Write(x)
<3>1. UNCHANGED <<stage, table, starts>> /\ (MasterTold(s)' <=> MasterTold(s))
  BY <1>0, <2>2, WriteIs, WriteSays
<3> QED
  BY <3>1 DEF SlaveAgrees
<2> QED
  BY <1>5, <2>1, <2>2
<1>6. ASSUME NEW c \in Cpus, Read(c) PROVE SlaveAgrees(s)'
<2> DEFINE m == Head(Air(c))
<2>1. /\ Air(c) # <<>> /\ Air(c)' = Tail(Air(c)) /\ Air(Other(c))' = Air(Other(c))
      /\ Demux(c, m) /\ m \in Messages /\ Contains(Air(c), m)
      /\ UNCHANGED <<stage, starts>>
  BY <1>6, AirOfRead, Reads DEF Read, ghosts
<2>2. /\ Contains(Air(c), Delete(s)) <=> m = Delete(s) \/ Contains(Tail(Air(c)), Delete(s))
      /\ Added(Air(c), s) <=> \/ Added(Tail(Air(c)), s)
                              \/ m = Add(s) /\ ~Contains(Tail(Air(c)), Delete(s))
<3>1. Air(c) \in Seq(Messages)
  BY <1>0, TwoCpus
<3> QED
  BY <2>1, <3>1, InTail
<2>3. /\ s \in table'[c] <=> m = Add(s) \/ (s \in table[c] /\ m # Delete(s))
      /\ \A d \in Cpus : d # c => table'[d] = table[d]
  BY <1>0, <2>1, DemuxSays
<2>4. todo'[o] = todo[o]
  BY <1>0, <2>1, TwoCpus DEF Demux
<2>5. Add(s) # Delete(s)
  BY AddIsNotDelete
<2> HIDE DEF m
<2>6. CASE c = Slave
<3>1. Air(Master)' = Air(Master) /\ table'[Master] = table[Master]
  BY <2>1, <2>3, <2>6, TwoCpus
<3>2. MasterTold(s)' <=> MasterTold(s)
  BY <2>4, <3>1 DEF MasterTold
<3>3. starts = 1 => m # Add(s) /\ m # Delete(s)
  BY <2>1, <2>6 DEF OnceInv, About
<3> QED
  BY <2>1, <2>3, <2>6, <3>2, <3>3 DEF SlaveAgrees
<2>7. CASE c = Master
<3>1. Air(Master)' = Tail(Air(Master)) /\ table'[Slave] = table[Slave]
  BY <2>1, <2>3, <2>7, TwoCpus
<3>2. MasterTold(s)' <=> MasterTold(s)
  BY <2>2, <2>3, <2>4, <2>5, <2>7, <3>1 DEF MasterTold, Told
<3> QED
  BY <2>1, <3>1, <3>2 DEF SlaveAgrees
<2> QED
  BY <2>6, <2>7, TwoCpus
<1> QED
  BY <1>1, <1>2, <1>3, <1>4, <1>5, <1>6, StepKinds

-----------------------------------------------------------------------------
AgreeIInv == DssInv /\ StageInv /\ CallInv /\ AirInv /\ OnceInv /\ AgreeInv

LEMMA EmptyAir ==
  ASSUME FifoInv, NEW c \in Cpus, AvailData(c) = 0, wr[c].at = "idle"
  PROVE  Air(c) = <<>>
<1>1. Queue(c) = <<>>
  BY DEF Queue
<1>2. Written(c) = <<>>
  BY DEF Written
<1> QED
  BY <1>1, <1>2 DEF Air

LEMMA AgreeInit == Init => AgreeIInv
<1> SUFFICES ASSUME Init PROVE AgreeIInv
  OBVIOUS
<1> USE TwoCpus, Names
<1>1. DssInv /\ StageInv
  BY DssInitInv, StageInit
<1>2. \A x \in Contexts : todo[x] = <<>>
  BY DEF Init
<1>3. /\ table[Master] = {} /\ table[Slave] = {} /\ stage[Slave] = "down"
      /\ starts = 0 /\ starts \in Nat
  BY DEF Init
<1>4. Air(Master) = <<>> /\ Air(Slave) = <<>>
<2>1. \A c \in Cpus : AvailData(c) = 0 /\ wr[c].at = "idle"
  BY DEF Init, FifoInit, Resting, AvailData, Cpus
<2> QED
  BY <1>1, <2>1, EmptyAir DEF DssInv
<1>5. CallInv /\ AirInv
  BY <1>2, <1>4, InNothing DEF CallInv, AirInv
<1>6. OnceInv
  BY <1>2, <1>3, <1>4, InNothing DEF OnceInv, Asking, About
<1>7. AgreeInv
<2>1. ASSUME NEW s \in Sids PROVE ~SlaveTold(s)
<3>1. todo[Owner[s]] = <<>> /\ todo[Master] = <<>> /\ s \notin table[Slave]
  BY <1>2, <1>3
<3> QED
  BY <1>4, <3>1, InNothing DEF SlaveTold, Told
<2> QED
  BY <1>3, <2>1 DEF AgreeInv, MasterAgrees, SlaveAgrees
<1> QED
  BY <1>1, <1>5, <1>6, <1>7 DEF AgreeIInv

LEMMA AgreeStep == AgreeIInv /\ [Next]_vars => AgreeIInv'
<1> SUFFICES ASSUME AgreeIInv, [Next]_vars PROVE AgreeIInv'
  OBVIOUS
<1>1. DssInv /\ StageInv /\ CallInv /\ AirInv /\ OnceInv /\ AgreeInv
  BY DEF AgreeIInv
<1>2. DssInv'
  BY <1>1, DssStepInv
<1>3. StageInv' /\ CallInv' /\ AirInv' /\ OnceInv'
  BY <1>1, <1>2, StageStepInv, CallStepInv, AirStepInv, OnceStepInv
<1>4. AgreeInv'
<2>1. lost => lost'
<3>1. CASE UNCHANGED vars
  BY <3>1 DEF vars, ghosts
<3>2. CASE Next
  BY <3>2 DEF Next, MasterStart, SlaveStart, Open, SlaveStop, TaskSteps, Reg, Free, Call, Sending,
         NotReady, Full, Write, Drop, Writing, SemPost, Isr, Rx, SoftirqBegin, Reading, Read,
         RxEmpty, SoftirqEnd, ghosts
<3> QED
  BY <3>1, <3>2
<2>2. ASSUME ~lost' PROVE \A s \in Sids \ SlaveSids : MasterAgrees(s)'
  BY <1>1, <1>2, <2>1, <2>2, MasterAgreesStep DEF AgreeInv
<2>3. ASSUME ~lost' PROVE \A s \in SlaveSids : SlaveAgrees(s)'
  BY <1>1, <1>2, <2>1, <2>3, SlaveAgreesStep DEF AgreeInv
<2>4. SlaveSids' = SlaveSids
  BY DEF SlaveSids, Home
<2> QED
  BY <2>2, <2>3, <2>4 DEF AgreeInv
<1> QED
  BY <1>2, <1>3, <1>4 DEF AgreeIInv

(* With nothing on its way, what a table will say is what it says.         *)
LEMMA QuietAgrees == AgreeIInv => TablesAgree
<1> SUFFICES ASSUME AgreeIInv, Quiet, ~lost, \A c \in Cpus : stage[c] = "up",
                    NEW s \in Sids, Cpu[Owner[s]] = Master \/ starts = 1
             PROVE  s \in table[Master] <=> s \in table[Slave]
  BY DEF TablesAgree
<1> USE TwoCpus, Names
<1>1. Air(Master) = <<>> /\ Air(Slave) = <<>>
<2>1. \A c \in Cpus : AvailData(c) = 0 /\ wr[c].at = "idle"
  BY DEF Quiet, AgreeIInv, StageInv
<2> QED
  BY <2>1, EmptyAir DEF AgreeIInv, DssInv
<1>2. todo[Owner[s]] = <<>> /\ todo[Master] = <<>> /\ todo[Loader] = <<>>
  BY DEF Quiet
<1>3. /\ SlaveTold(s) <=> s \in table[Slave]
      /\ MasterTold(s) <=> s \in table[Master]
      /\ ~Asking
  BY <1>1, <1>2, InNothing DEF SlaveTold, MasterTold, Told, Asking
<1>4. stage[Slave] # "down"
  OBVIOUS
<1>5. CASE s \in SlaveSids
<2>1. starts = 1
  BY <1>5 DEF SlaveSids, Home
<2>2. SlaveAgrees(s)
  BY <1>5 DEF AgreeIInv, AgreeInv
<2> QED
  BY <1>3, <1>4, <2>1, <2>2 DEF SlaveAgrees
<1>6. CASE s \notin SlaveSids
<2>1. MasterAgrees(s)
  BY <1>6 DEF AgreeIInv, AgreeInv
<2> QED
  BY <1>3, <1>4, <2>1 DEF MasterAgrees
<1> QED
  BY <1>5, <1>6

(* When nothing is on its way and no message was lost, both CPUs know the  *)
(* same services: the table is changed before its message leaves, a task   *)
(* sends before it calls again, and the answer to the slave's question is  *)
(* sent before the tasks of the master go on (CCDSS.c:243-262, 289-308,    *)
(* 390-417).                                                               *)
THEOREM DirectoryAgrees == Spec => []TablesAgree
<1>1. Init => AgreeIInv
  BY AgreeInit
<1>2. AgreeIInv /\ [Next]_vars => AgreeIInv'
  BY AgreeStep
<1>3. AgreeIInv => TablesAgree
  BY QuietAgrees
<1> QED
  BY <1>1, <1>2, <1>3, PTL DEF Spec
=============================================================================
