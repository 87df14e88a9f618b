--------------------------------- MODULE CCDSS ---------------------------------
(***************************************************************************)
(* The service directory of the two CPUs (OSAL: CCDSS.c, ICCNet.c,         *)
(* ICCHAL.c, and the receive softirq of MV_CC_Module/main.c).  Each CPU    *)
(* has a table of services; a change is made locally and sent to the other *)
(* CPU through a FIFO and an interrupt, and a CPU that starts asks for the *)
(* whole table.  A FIFO has the name of the CPU that reads it.             *)
(*                                                                         *)
(* The code under src/ is the slave's (Linux); CCDSS.c and ICCNet.c are    *)
(* written for both CPUs, and the master is assumed to run them too.  The  *)
(* master starts once, and has cleared the FIFOs when it sets the start    *)
(* bit.  Each service is registered and freed by one task.                 *)
(***************************************************************************)
EXTENDS ICCFIFO, SequencesExt

CONSTANTS
  Master,          \* one of the two CPUs
  Tasks, Cpu,      \* the CPU each task runs on
  Loader,          \* the process that loads or resumes the slave's module
  Sids, Owner,     \* the task that registers and frees each service
  MaxOps,          \* bound on the calls of the tasks
  MaxStarts        \* bound on the times the slave's module starts

Cpus == Fifos
Other(c) == CHOOSE d \in Cpus : d # c

ASSUME CpusAssumption == Master \in Cpus /\ \E c \in Cpus : Cpus = {Master, c} /\ c # Master
ASSUME TasksAssumption == Cpu \in [Tasks -> Cpus] /\ Owner \in [Sids -> Tasks]
ASSUME SidsAssumption == IsFiniteSet(Sids)
ASSUME NamesAssumption == Tasks \cap Cpus = {} /\ Loader \notin Tasks \cup Cpus
ASSUME BoundsAssumption == MaxOps \in Nat /\ MaxStarts \in Nat

Messages == [cmd: {"Add", "Delete"}, sid: Sids] \cup [cmd: {"AskUpdate", "UpdateOK"}]
Add(s)    == [cmd |-> "Add", sid |-> s]
Delete(s) == [cmd |-> "Delete", sid |-> s]
AskUpdate == [cmd |-> "AskUpdate"]
UpdateOK  == [cmd |-> "UpdateOK"]

ASSUME FramesAssumption == Frames = Messages

VARIABLES
  stage,      \* per CPU: "down", "init", "up"; "failed" to start; "oops"
  table,      \* per CPU: the ids in its global service list
  irq,        \* the CPUs whose interrupt is raised
  pending,    \* the CPUs with ICC_RX_SOFTIRQ raised
  running,    \* the CPUs in MV_ICC_Rx_action(),
  leaving,    \* and of these those that have found no frame
  sending,    \* the CPUs that write a frame, with interrupts off
  todo,       \* per context: what it has still to send
  lost,       \* a message met a full FIFO or a CPU that was not ready
  ops, starts

cpuVars  == <<stage, table>>
intVars  == <<irq, pending, running, leaving>>
sendVars == <<sending, todo>>
ghosts   == <<lost, ops, starts>>
vars == <<fifoVars, cpuVars, intVars, sendVars, ghosts>>

\* A CPU's own name is the context of its softirq.
Slave == Other(Master)
Contexts == Tasks \cup Cpus \cup {Loader}
CpuOf(x) == IF x \in Tasks THEN Cpu[x] ELSE IF x = Loader THEN Slave ELSE x

Init ==
  /\ FifoInit
  /\ stage = [c \in Cpus |-> "down"]
  /\ table = [c \in Cpus |-> {}]
  /\ irq = {} /\ pending = {} /\ running = {} /\ leaving = {}
  /\ sending = {}
  /\ todo = [x \in Contexts |-> <<>>]
  /\ lost = FALSE /\ ops = 0 /\ starts = 0

\* MV_CC_StartStatus_Check(): the bit stays set.
Ready == stage[Master] = "up"

\* Slip: tasks go on while their CPU's softirq runs.
Runs_Always(x) == CpuOf(x) \notin sending /\ stage[CpuOf(x)] # "oops"

\* A softirq is not preempted, nor is a write with interrupts off.
Runs(x) ==
  LET c == CpuOf(x) IN
  /\ c \notin sending /\ stage[c] # "oops"
  /\ x # c => c \notin running

-----------------------------------------------------------------------------
(* MV_ICCNet_netlink_init(), of module_init or of a resume: the interrupt, *)
(* MV_CC_ICCNetInit() and MV_CC_DSS_Constructor().  The slave asks for the *)
(* table if the master is ready, and fails if it cannot (see Full).        *)
MasterStart ==
  /\ stage[Master] = "down"
  /\ stage' = [stage EXCEPT ![Master] = "up"]
  /\ UNCHANGED <<fifoVars, table, intVars, sendVars, ghosts>>

SlaveStart ==
  /\ stage[Slave] = "down" /\ starts < MaxStarts
  /\ starts' = starts + 1
  /\ stage' = [stage EXCEPT ![Slave] = "init"]
  /\ irq' = irq \ {Slave}
  /\ todo' = [todo EXCEPT ![Loader] = IF Ready THEN <<AskUpdate>> ELSE <<>>]
  /\ UNCHANGED <<fifoVars, table, pending, running, leaving, sending, lost, ops>>

\* pMV_APP_DSS and open_softirq(), when the constructor has returned.
Open ==
  /\ stage[Slave] = "init" /\ Runs(Loader) /\ todo[Loader] = <<>>
  /\ stage' = [stage EXCEPT ![Slave] = "up"]
  /\ UNCHANGED <<fifoVars, table, intVars, sendVars, ghosts>>

\* MV_ICCNet_netlink_exit(), of a suspend, when no task is in a call.  The
\* softirq keeps its action.
SlaveStop ==
  /\ stage[Slave] = "up" /\ Slave \notin pending \cup running /\ Runs(Loader)
  /\ \A t \in Tasks : Cpu[t] = Slave => todo[t] = <<>>
  /\ stage' = [stage EXCEPT ![Slave] = "down"]
  /\ table' = [table EXCEPT ![Slave] = {}]
  /\ UNCHANGED <<fifoVars, intVars, sendVars, ghosts>>

Opened(c) == stage[c] = "up" \/ (c = Slave /\ starts > 1)

-----------------------------------------------------------------------------
(* MV_CC_DSS_Reg() and MV_CC_DSS_Free(): the table under its lock, then    *)
(* the message without.  An error of the table ends the call.              *)
Call(t, m, ids) ==
  /\ stage[Cpu[t]] = "up" /\ Runs(t) /\ todo[t] = <<>>
  /\ ops < MaxOps /\ ops' = ops + 1
  /\ table' = [table EXCEPT ![Cpu[t]] = ids]
  /\ todo' = [todo EXCEPT ![t] = <<m>>]
  /\ UNCHANGED <<fifoVars, stage, intVars, sending, lost, starts>>

Reg(t, s) ==
  /\ Owner[s] = t /\ s \notin table[Cpu[t]]
  /\ Call(t, Add(s), table[Cpu[t]] \cup {s})

Free(t, s) ==
  /\ Owner[s] = t /\ s \in table[Cpu[t]]
  /\ Call(t, Delete(s), table[Cpu[t]] \ {s})

-----------------------------------------------------------------------------
\* MV_CC_DSS_DSPSendTo() and MV_CC_ICCNetWrite(), with interrupts off.
Drop(x) ==
  /\ todo' = [todo EXCEPT ![x] = Tail(@)]
  /\ lost' = TRUE
  /\ UNCHANGED <<fifoVars, table, intVars, sending, ops, starts>>

NotReady(x) ==
  /\ todo[x] # <<>> /\ Runs(x) /\ ~Ready
  /\ Drop(x)
  /\ UNCHANGED stage

\* Only the constructor looks at the result.
Full(x) ==
  /\ todo[x] # <<>> /\ Runs(x) /\ Ready
  /\ AvailSpace(Other(CpuOf(x))) = 0
  /\ Drop(x)
  /\ stage' = IF x = Loader THEN [stage EXCEPT ![Slave] = "failed"] ELSE stage

Write(x) ==
  /\ todo[x] # <<>> /\ Runs(x) /\ Ready
  /\ WriteBegin(Other(CpuOf(x)), Head(todo[x]))
  /\ todo' = [todo EXCEPT ![x] = Tail(@)]
  /\ sending' = sending \cup {CpuOf(x)}
  /\ UNCHANGED <<cpuVars, intVars, ghosts>>

Writing(c) ==
  /\ c \in sending
  /\ \/ WriteTear(Other(c))
     \/ WriteCopy(Other(c))
     \/ WriteAdvance(Other(c))
  /\ UNCHANGED <<cpuVars, intVars, sendVars, ghosts>>

\* MV_CC_HAL_SemPost(), and interrupts are on again.
SemPost(c) ==
  /\ c \in sending /\ wr[Other(c)].at = "idle"
  /\ irq' = irq \cup {Other(c)}
  /\ sending' = sending \ {c}
  /\ UNCHANGED <<fifoVars, cpuVars, pending, running, leaving, todo, ghosts>>

-----------------------------------------------------------------------------
\* MV_CC_Interrupt_ISR(): the interrupt is acknowledged first.
Isr(c) ==
  /\ c \in irq /\ stage[c] \in {"init", "up", "failed"} /\ c \notin sending
  /\ irq' = irq \ {c}
  /\ pending' = pending \cup {c}
  /\ UNCHANGED <<fifoVars, cpuVars, running, leaving, sendVars, ghosts>>

\* Without an action the kernel calls a null pointer.
SoftirqBegin(c) ==
  /\ c \in pending /\ c \notin running /\ Runs(c)
  /\ pending' = pending \ {c}
  /\ \/ /\ Opened(c)
        /\ running' = running \cup {c}
        /\ UNCHANGED stage
     \/ /\ ~Opened(c)
        /\ stage' = [stage EXCEPT ![c] = "oops"]
        /\ UNCHANGED running
  /\ UNCHANGED <<fifoVars, table, irq, leaving, sendVars, ghosts>>

(* MV_ICC_Rx_action(): frames are read and handled until there is none.    *)
(* MV_CC_ICCNetRead() looks at the FIFOs from both CPUs; the one from the  *)
(* CPU itself is always empty.                                             *)
InRxLoop(c) == c \in running \ (leaving \cup sending) /\ todo[c] = <<>>

Reading(c) ==
  /\ InRxLoop(c)
  /\ ReadBegin(c) \/ ReadCopy(c)
  /\ UNCHANGED <<cpuVars, intVars, sendVars, ghosts>>

\* MV_CC_DSS_DSPOnRecvDemux(); DSS_Update() sends all of the table.
Demux(c, m) ==
  /\ table' = [table EXCEPT ![c] = CASE m.cmd = "Add" -> @ \cup {m.sid}
                                     [] m.cmd = "Delete" -> @ \ {m.sid}
                                     [] OTHER -> @]
  /\ todo' = IF m.cmd = "AskUpdate"
             THEN [todo EXCEPT ![c] = SetToSeq({Add(s) : s \in table[c]}) \o <<UpdateOK>>]
             ELSE todo

Read(c) ==
  /\ InRxLoop(c)
  /\ ReadAdvance(c)
  /\ Demux(c, rd[c].frame)
  /\ UNCHANGED <<stage, intVars, sending, ghosts>>

RxEmpty(c) ==
  /\ InRxLoop(c) /\ rd[c].at = "idle" /\ AvailData(c) = 0
  /\ leaving' = leaving \cup {c}
  /\ UNCHANGED <<fifoVars, cpuVars, irq, pending, running, sendVars, ghosts>>

\* Slip: the interrupt is acknowledged when all has been read.
SoftirqEnd_Acks(c) ==
  /\ c \in leaving
  /\ running' = running \ {c} /\ leaving' = leaving \ {c} /\ irq' = irq \ {c}
  /\ UNCHANGED <<fifoVars, cpuVars, pending, sendVars, ghosts>>

SoftirqEnd(c) ==
  /\ c \in leaving
  /\ running' = running \ {c} /\ leaving' = leaving \ {c}
  /\ UNCHANGED <<fifoVars, cpuVars, irq, pending, sendVars, ghosts>>

-----------------------------------------------------------------------------
TaskSteps(t) == \E s \in Sids : Reg(t, s) \/ Free(t, s)
Sending(x) == NotReady(x) \/ Full(x) \/ Write(x)
Rx(c) == SoftirqBegin(c) \/ Reading(c) \/ Read(c) \/ RxEmpty(c) \/ SoftirqEnd(c)

Next ==
  \/ MasterStart \/ SlaveStart \/ Open \/ SlaveStop
  \/ \E t \in Tasks : TaskSteps(t)
  \/ \E x \in Contexts : Sending(x)
  \/ \E c \in Cpus : Writing(c) \/ SemPost(c) \/ Isr(c) \/ Rx(c)

Spec == Init /\ [][Next]_vars

(* A CPU goes on with what it has begun, and takes its interrupts.  No     *)
(* task has to call, and no CPU to start or to stop.                       *)
Fairness ==
  /\ \A x \in Contexts : WF_vars(Sending(x))
  /\ WF_vars(Open)
  /\ \A c \in Cpus : /\ WF_vars(Writing(c) \/ SemPost(c))
                     /\ WF_vars(Isr(c))
                     /\ WF_vars(Rx(c))

FairSpec == Spec /\ Fairness

-----------------------------------------------------------------------------
\* Every variable that others are computed from stays in its range.
TypeOK ==
  /\ FifoTypeOK
  /\ stage \in [Cpus -> {"down", "init", "up", "failed", "oops"}]
  /\ table \in [Cpus -> SUBSET Sids]
  /\ todo \in [Contexts -> Seq(Messages)]

\* Nothing is on its way between the CPUs.
Quiet ==
  /\ \A x \in Contexts : todo[x] = <<>>
  /\ sending = {} /\ \A c \in Cpus : AvailData(c) = 0

(* When nothing is on its way and no message was lost, both CPUs know the  *)
(* same services, however registrations, frees, an update and a restart of *)
(* the slave overlapped: the table changes before its message leaves       *)
(* (CCDSS.c:243-262, 289-308) and an update is sent under the lock         *)
(* (CCDSS.c:390-417).  A restart spoils it for the slave's own services:   *)
(* the update tells it of those it had before, and may come after a free.  *)
TablesAgree ==
  Quiet /\ ~lost /\ (\A c \in Cpus : stage[c] = "up") =>
    \A s \in Sids : Cpu[Owner[s]] = Master \/ starts = 1 =>
      (s \in table[Master] <=> s \in table[Slave])

\* Full before its reader started: no write succeeds, so none interrupts.
Deaf(c) == AvailSpace(c) = 0 /\ c \notin irq \cup pending \cup running

(* A FIFO is emptied again and again, unless it filled up before its       *)
(* reader started: no interrupt is lost between the last look at the FIFO  *)
(* and the end of the softirq (ICCHAL.c:42-46, main.c:264-316).            *)
FifoEmpties ==
  \A c \in Cpus : []<>(stage[c] # "up" \/ AvailData(c) = 0 \/ Deaf(c))
=============================================================================
