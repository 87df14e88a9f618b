----------------------------- MODULE BoundedQueue -----------------------------
(***************************************************************************)
(* What a FIFO between two CPUs promises: frames come out whole, in the    *)
(* order they went in, each once, and no more than Capacity are inside.    *)
(***************************************************************************)
EXTENDS Naturals, Sequences

CONSTANTS Frames, Capacity, NoFrame

VARIABLES
  queue,
  got      \* the frame that was read last

Init == queue = <<>> /\ got = NoFrame

Put(x) ==
  /\ Len(queue) < Capacity
  /\ queue' = Append(queue, x)
  /\ UNCHANGED got

Get ==
  /\ queue # <<>>
  /\ got' = Head(queue)
  /\ queue' = Tail(queue)

Next == Get \/ \E x \in Frames : Put(x)

Spec == Init /\ [][Next]_<<queue, got>>
=============================================================================
