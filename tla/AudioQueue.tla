----------------------------- MODULE AudioQueue -----------------------------
(***************************************************************************)
(* What the audio interface promises: the buffers that the program queues, *)
(* at most two, are played one sample at a time in the order in which they *)
(* were queued, each from its address and for its length.  The hardware's  *)
(* carry bug is part of the promise: after a buffer that ended at the end  *)
(* of a page the next one starts a page further.                           *)
(***************************************************************************)
EXTENDS Naturals, Sequences

CONSTANTS
    Space, \* the samples of the address space
    Page,  \* those of a page
    NoAddr \* stands for: the program has not set the address of the next buffer

VARIABLES
    queue, \* the buffers, each with its next sample and how many are left
    latch  \* the address that the program has given for its next buffer

Init == queue = <<>> /\ latch = NoAddr

GiveAddress == latch' # latch /\ UNCHANGED queue

\* Any length, and the address that was given.
QueueBuffer ==
    /\ Len(queue) < 2
    /\ Len(queue') = Len(queue) + 1
    /\ SubSeq(queue', 1, Len(queue)) = queue
    /\ latch # NoAddr => queue'[Len(queue')].next = latch
    /\ latch' = NoAddr

Shifted(buffer, end) ==
    IF end % Page = 0 THEN [buffer EXCEPT !.next = (@ + Page) % Space] ELSE buffer

\* An address given while the program could queue another buffer does not
\* outlive the end of a buffer.
EndBuffer(end) ==
    /\ queue' = [i \in 1 .. Len(queue) - 1 |-> Shifted(queue[i + 1], end)]
    /\ latch' = NoAddr

PlaySample ==
    /\ queue # <<>>
    /\ \/ /\ Head(queue).left > 1
          /\ queue' = [queue EXCEPT ![1] = [next |-> (Head(queue).next + 1) % Space,
                                            left |-> Head(queue).left - 1]]
          /\ UNCHANGED latch
       \/ Head(queue).left = 1 /\ EndBuffer(Head(queue).next + 1)
       \/ Head(queue).left = 0 /\ EndBuffer(Head(queue).next)

Next == GiveAddress \/ QueueBuffer \/ PlaySample
Spec == Init /\ [][Next]_<<queue, latch>>
=============================================================================
