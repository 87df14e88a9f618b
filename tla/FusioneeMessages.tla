-------------------------- MODULE FusioneeMessages --------------------------
(***************************************************************************)
(* The message queues of the fusionees (linux-fusion-8.1.1, fusionee.c and *)
(* fifo.c): send, the blocking read, wait_processing, poll and destroy.    *)
(*                                                                         *)
(* A fusionee keeps the messages nobody has read in messages, and those    *)
(* its dispatcher was given by its last read in prev_msgs: the kernel      *)
(* takes them for processed when the dispatcher reads or polls again.      *)
(* Readers and threads in wait_processing sleep on the same wait queue.    *)
(* Each locked section of a fusionee is one step.                          *)
(*                                                                         *)
(* handling is the client's side of it: the batch the dispatcher has been  *)
(* given and is working on.                                                *)
(***************************************************************************)
EXTENDS Integers, Sequences, FiniteSets, SequencesExt, Batches

CONSTANTS
  Fusionees,   \* the open files of the world
  Threads,     \* the tasks that use it
  Fid,         \* the fusionee of each thread
  Reader,      \* the one thread of each fusionee that reads its messages
  None,        \* the 0 of dispatcher_pid
  Keys,        \* what wait_processing looks for: type and id of a message
  Message,     \* the messages; tracked ones go to prev_msgs when read
  MaxQueued    \* bound on the messages nobody has read

ASSUME ReaderAssumption ==
  /\ Fid \in [Threads -> Fusionees]
  /\ Reader \in [Fusionees -> Threads \cup {None}]
  /\ \A f \in Fusionees : Reader[f] # None => Fid[Reader[f]] = f
ASSUME NoneAssumption == None \notin Threads \cup Keys
ASSUME MessageAssumption ==
  \A m \in Message : m.id \in Keys /\ m.tracked \in BOOLEAN

VARIABLES
  listed,          \* the fusionees on dev->fusionee.list
  messages, prev_msgs, dispatcher_pid,
  wait,            \* per fusionee: the threads asleep on fusionee->wait
  qop,             \* per thread: the call it is in
  handling         \* per fusionee: the batch its dispatcher works on

vars == <<listed, messages, prev_msgs, dispatcher_pid, wait, qop, handling>>

QOp == [at: {"user", "reading", "processing", "dead"}, key: Keys \cup {None}]
InUser(t) == qop[t].at = "user"
QAt(place) == [at |-> place, key |-> None]

Init ==
  /\ listed = Fusionees
  /\ messages = [f \in Fusionees |-> <<>>]
  /\ prev_msgs = [f \in Fusionees |-> <<>>]
  /\ dispatcher_pid = [f \in Fusionees |-> None]
  /\ wait = [f \in Fusionees |-> {}]
  /\ qop = [t \in Threads |-> QAt("user")]
  /\ handling = [f \in Fusionees |-> <<>>]

-----------------------------------------------------------------------------
\* Slip: nobody is told.
Send_Silent(f, m) ==
  /\ f \in listed /\ Len(messages[f]) < MaxQueued
  /\ messages' = [messages EXCEPT ![f] = Append(@, m)]
  /\ UNCHANGED <<listed, prev_msgs, dispatcher_pid, wait, qop, handling>>

(* fusionee_send_message() to a fusionee that exists; for one that is gone *)
(* it returns EINVAL and changes nothing.                                  *)
Send(f, m) ==
  /\ f \in listed
  /\ Len(messages[f]) < MaxQueued
  /\ messages' = [messages EXCEPT ![f] = Append(@, m)]
  /\ wait' = [wait EXCEPT ![f] = {}]
  /\ UNCHANGED <<listed, prev_msgs, dispatcher_pid, qop, handling>>

-----------------------------------------------------------------------------
\* What a read has to keep of a batch until the dispatcher is done with it.
Tracked(batch) == Picked(batch, {i \in DOMAIN batch : batch[i].tracked})

\* Slip: the rest of the queue starts one message too late.
Deliver_SkipsOne(f, k, before) ==
  LET batch == SubSeq(messages[f], 1, k) IN
  /\ messages' = [messages EXCEPT ![f] = SubSeq(@, k + 2, Len(@))]
  /\ prev_msgs' = [prev_msgs EXCEPT ![f] = before \o Tracked(batch)]
  /\ handling' = [handling EXCEPT ![f] = batch]

\* The copy loop: the buffer has room for k messages, for k = 0 the read
\* fails with EMSGSIZE.  Tracked messages move behind those in `before`.
Deliver(f, k, before) ==
  LET batch == SubSeq(messages[f], 1, k) IN
  /\ messages' = [messages EXCEPT ![f] = SubSeq(@, k + 1, Len(@))]
  /\ prev_msgs' = [prev_msgs EXCEPT ![f] = before \o Tracked(batch)]
  /\ handling' = [handling EXCEPT ![f] = batch]

\* Slip: the threads that wait for the last batch are not woken.
ReadSleep_Silent(t) ==
  LET f == Fid[t] IN
  /\ t = Reader[f] /\ f \in listed /\ InUser(t)
  /\ messages[f] = <<>>
  /\ dispatcher_pid' = [dispatcher_pid EXCEPT ![f] = t]
  /\ prev_msgs' = [prev_msgs EXCEPT ![f] = <<>>]
  /\ handling' = [handling EXCEPT ![f] = <<>>]
  /\ qop' = [qop EXCEPT ![t] = QAt("reading")]
  /\ wait' = [wait EXCEPT ![f] = IF prev_msgs[f] = <<>> THEN @ \cup {t} ELSE @]
  /\ UNCHANGED <<listed, messages>>

(* fusionee_get_messages(), blocking and with nothing to read.  The reader *)
(* becomes the dispatcher, the last batch is done and whoever sleeps on    *)
(* the queue is woken.  With a batch to flush the loop gives the lock up   *)
(* and looks again before it sleeps; then the reader is in the loop but    *)
(* not on the queue.                                                       *)
ReadSleep(t) ==
  LET f == Fid[t] IN
  /\ t = Reader[f] /\ f \in listed /\ InUser(t)
  /\ messages[f] = <<>>
  /\ dispatcher_pid' = [dispatcher_pid EXCEPT ![f] = t]
  /\ prev_msgs' = [prev_msgs EXCEPT ![f] = <<>>]
  /\ handling' = [handling EXCEPT ![f] = <<>>]
  /\ qop' = [qop EXCEPT ![t] = QAt("reading")]
  /\ wait' = [wait EXCEPT ![f] = IF prev_msgs[f] = <<>> THEN {t} ELSE {}]
  /\ UNCHANGED <<listed, messages>>

\* The same with O_NONBLOCK (EAGAIN), or with something to read.
ReadNow(t) ==
  LET f == Fid[t] IN
  /\ t = Reader[f] /\ f \in listed /\ InUser(t)
  /\ dispatcher_pid' = [dispatcher_pid EXCEPT ![f] = t]
  /\ wait' = [wait EXCEPT ![f] = {}]
  /\ \E k \in 0..Len(messages[f]) : Deliver(f, k, <<>>)
  /\ UNCHANGED <<listed, qop>>

\* Back in the loop: read what has come, or sleep again.
ReadWoken(t) ==
  LET f == Fid[t] IN
  /\ qop[t].at = "reading" /\ t \notin wait[f]
  /\ \/ /\ messages[f] = <<>>
        /\ wait' = [wait EXCEPT ![f] = @ \cup {t}]
        /\ UNCHANGED <<messages, prev_msgs, handling, qop>>
     \/ /\ messages[f] # <<>>
        /\ \E k \in 0..Len(messages[f]) : Deliver(f, k, prev_msgs[f])
        /\ qop' = [qop EXCEPT ![t] = QAt("user")]
        /\ UNCHANGED wait
  /\ UNCHANGED <<listed, dispatcher_pid>>

(* fusionee_poll(), called by the dispatcher between two reads.            *)
Poll(t) ==
  LET f == Fid[t] IN
  /\ t = Reader[f] /\ f \in listed /\ InUser(t)
  /\ prev_msgs' = [prev_msgs EXCEPT ![f] = <<>>]
  /\ handling' = [handling EXCEPT ![f] = <<>>]
  /\ wait' = [wait EXCEPT ![f] = {}]
  /\ UNCHANGED <<listed, messages, dispatcher_pid, qop>>

-----------------------------------------------------------------------------
\* The keys wait_processing is called with: call.c sends every FMT_CALL
\* message as a tracked one.
WaitKeys == {key \in Keys : \A m \in Message : m.id = key => m.tracked}

\* Slip: only unread messages are searched.
Pending_Queued(f, key) == \E m \in ToSet(messages[f]) : m.id = key

Pending(f, key) ==
  \E m \in ToSet(messages[f]) \cup ToSet(prev_msgs[f]) : m.id = key

(* fusionee_wait_processing(), called by ioctls of the fusionee itself.    *)
(* FUSION_ASSUME forbids it to the dispatcher, who would wait for itself.  *)
WaitProcessing(t, key) ==
  LET f == Fid[t] IN
  /\ f \in listed /\ InUser(t)
  /\ t # Reader[f] /\ key \in WaitKeys
  /\ \/ /\ Pending(f, key)
        /\ qop' = [qop EXCEPT ![t] = [at |-> "processing", key |-> key]]
        /\ wait' = [wait EXCEPT ![f] = @ \cup {t}]
     \/ /\ ~ Pending(f, key)
        /\ UNCHANGED <<qop, wait>>
  /\ UNCHANGED <<listed, messages, prev_msgs, dispatcher_pid, handling>>

ProcessingWoken(t) ==
  LET f == Fid[t] IN
  /\ qop[t].at = "processing" /\ t \notin wait[f]
  /\ \/ /\ Pending(f, qop[t].key)
        /\ wait' = [wait EXCEPT ![f] = @ \cup {t}]
        /\ UNCHANGED qop
     \/ /\ ~ Pending(f, qop[t].key)
        /\ qop' = [qop EXCEPT ![t] = QAt("user")]
        /\ UNCHANGED wait
  /\ UNCHANGED <<listed, messages, prev_msgs, dispatcher_pid, handling>>

\* A signal ends either sleep with EINTR.
Interrupt(t) ==
  /\ qop[t].at \in {"reading", "processing"}
  /\ qop' = [qop EXCEPT ![t] = QAt("user")]
  /\ wait' = [wait EXCEPT ![Fid[t]] = @ \ {t}]
  /\ UNCHANGED <<listed, messages, prev_msgs, dispatcher_pid, handling>>

-----------------------------------------------------------------------------
(* fusionee_destroy(): the last reference to the file is dropped, hence no *)
(* thread of the fusionee is inside a call.  dispatcher_pid dies with it.  *)
Release(f) ==
  /\ f \in listed
  /\ \A t \in Threads : Fid[t] = f => InUser(t)
  /\ listed' = listed \ {f}
  /\ messages' = [messages EXCEPT ![f] = <<>>]
  /\ prev_msgs' = [prev_msgs EXCEPT ![f] = <<>>]
  /\ handling' = [handling EXCEPT ![f] = <<>>]
  /\ dispatcher_pid' = [dispatcher_pid EXCEPT ![f] = None]
  /\ qop' = [t \in Threads |-> IF Fid[t] = f THEN QAt("dead") ELSE qop[t]]
  /\ UNCHANGED wait

-----------------------------------------------------------------------------
Next ==
  \/ \E f \in Fusionees, m \in Message : Send(f, m)
  \/ \E t \in Threads :
       \/ ReadSleep(t)
       \/ ReadNow(t)
       \/ ReadWoken(t)
       \/ Poll(t)
       \/ \E key \in Keys : WaitProcessing(t, key)
       \/ ProcessingWoken(t)
       \/ Interrupt(t)
  \/ \E f \in Fusionees : Release(f)

Spec == Init /\ [][Next]_vars

(* Woken tasks are scheduled, and the dispatcher of a client is a loop     *)
(* that reads again when it has handled a batch, with a buffer that holds  *)
(* at least one message.                                                   *)
Progress(t) == messages[Fid[t]] # <<>> => messages' # messages

Fairness ==
  \A t \in Threads : /\ WF_vars(ReadWoken(t) /\ Progress(t))
                     /\ WF_vars(ProcessingWoken(t))
                     /\ WF_vars((ReadSleep(t) \/ ReadNow(t)) /\ Progress(t))

FairSpec == Spec /\ Fairness

-----------------------------------------------------------------------------
(* Every variable stays in its range.                                      *)
TypeOK ==
  /\ listed \subseteq Fusionees
  /\ messages \in [Fusionees -> Seq(Message)]
  /\ prev_msgs \in [Fusionees -> Seq(Message)]
  /\ handling \in [Fusionees -> Seq(Message)]
  /\ dispatcher_pid \in [Fusionees -> Threads \cup {None}]
  /\ wait \in [Fusionees -> SUBSET Threads]
  /\ qop \in [Threads -> QOp]

(* A wait_processing that returns 0 leaves no tracked message of its key,  *)
(* neither unread nor in the hands of the dispatcher (fusionee.c:468-489). *)
WaitsOut ==
  [][\A t \in Threads :
       (qop[t].at = "processing" /\ t \notin wait[Fid[t]] /\ ProcessingWoken(t)
          /\ qop'[t].at = "user")
         => \A m \in ToSet(messages[Fid[t]] \o handling[Fid[t]]) :
              m.tracked => m.id # qop[t].key]_vars

(* Messages are handed out in the order they were sent, each once: what is *)
(* in work followed by what is queued only grows at its end and only loses *)
(* the batch that is done (fifo.c, fusionee.c:399-446).                    *)
InOrder ==
  [][\A f \in listed' :
       LET before == handling[f] \o messages[f]
           after  == handling'[f] \o messages'[f]
       IN \/ after \in {before, messages[f]}
          \/ \E m \in Message : after = Append(before, m)]_vars

(* A message that was sent does not stay unread: the reader that sleeps or *)
(* is at work goes on to take what is queued, from the front, until there  *)
(* is nothing (fusionee.c:345, 375-397), also when messages come for ever. *)
SentIsRead ==
  \A f \in Fusionees : Reader[f] # None =>
    \/ []<>(messages[f] = <<>>)
    \/ []<><<Len(messages'[f]) < Len(messages[f])>>_vars

(* While the dispatcher reads on, a wait_processing comes to an end unless *)
(* messages of its key are sent for ever: each time it wakes it looks for  *)
(* any such message, not for those there were when it began                *)
(* (fusionee.c:460-501), so what has come since keeps it waiting.          *)
WaitEnds ==
  \A t \in Threads, key \in WaitKeys : Reader[Fid[t]] # None =>
    \/ []<><<\E m \in Message : m.id = key /\ Send(Fid[t], m)>>_vars
    \/ (qop[t].at = "processing" /\ qop[t].key = key) ~> (qop[t].at # "processing")
=============================================================================
