------------------------------ MODULE BufferPool ------------------------------
(***************************************************************************)
(* What fifo.h promises of the sample-buffer FIFO, without threads, locks  *)
(* or condition variables: a fixed stock of buffers, each of which is free,*)
(* being filled, queued, or being read; queued buffers leave in the order  *)
(* they came; and once halted nothing is handed out any more and a filled  *)
(* buffer goes straight back to the stock.  Module Fifo implements it.     *)
(***************************************************************************)
EXTENDS Sequences, Functions

CONSTANT Buffers

VARIABLES free, filling, queue, reading, halted

poolVars == <<free, filling, queue, reading, halted>>

PoolInit ==
    /\ free = Buffers
    /\ filling = {}
    /\ queue = <<>>
    /\ reading = {}
    /\ halted = FALSE

\* An unused buffer is handed to a caller that will fill it.
Take(b) ==
    /\ ~halted
    /\ b \in free
    /\ free' = free \ {b}
    /\ filling' = filling \cup {b}
    /\ UNCHANGED <<queue, reading, halted>>

\* A filled buffer joins the tail of the queue.
Put(b) ==
    /\ ~halted
    /\ b \in filling
    /\ filling' = filling \ {b}
    /\ queue' = Append(queue, b)
    /\ UNCHANGED <<free, reading, halted>>

\* After the halt a filled buffer is not queued but freed.
Discard(b) ==
    /\ halted
    /\ b \in filling
    /\ filling' = filling \ {b}
    /\ free' = free \cup {b}
    /\ UNCHANGED <<queue, reading, halted>>

\* The oldest queued buffer is handed to a reader.
Get ==
    /\ ~halted
    /\ queue # <<>>
    /\ queue' = Tail(queue)
    /\ reading' = reading \cup {Head(queue)}
    /\ UNCHANGED <<free, filling, halted>>

\* A reader is done with its buffer.
Return(b) ==
    /\ b \in reading
    /\ reading' = reading \ {b}
    /\ free' = free \cup {b}
    /\ UNCHANGED <<filling, queue, halted>>

\* The halt frees everything that was queued, for good.
Halt ==
    /\ halted' = TRUE
    /\ free' = free \cup Range(queue)
    /\ queue' = <<>>
    /\ UNCHANGED <<filling, reading>>

PoolNext ==
    \/ \E b \in Buffers : Take(b) \/ Put(b) \/ Discard(b) \/ Return(b)
    \/ Get
    \/ Halt

PoolSpec == PoolInit /\ [][PoolNext]_poolVars
===============================================================================
