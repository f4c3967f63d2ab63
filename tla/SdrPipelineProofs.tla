--------------------------- MODULE SdrPipelineProofs ---------------------------
(***************************************************************************)
(* Proofs about Fifo and SdrPipeline, for any number of buffers, threads   *)
(* and blocks and any watchdog.                                            *)
(*                                                                         *)
(* About Fifo first: buffers are conserved, the wakeups suffice, overlap   *)
(* regions chain, and the FIFO implements BufferPool.  IInv is inductive:  *)
(* the conservation of buffers needs the types, and the absence of lost    *)
(* wakeups needs to know that each condition variable is waited on from    *)
(* one side only (WaitersPlaced) and that halting empties the queue.       *)
(*                                                                         *)
(* Then about the pipeline: what the demodulator gets is the device's      *)
(* sample stream, in order and with its gaps flagged, a file's blocks all  *)
(* of them, and the FIFO is destroyed only when nobody uses it.            *)
(*                                                                         *)
(* PipelineInv is inductive.  Until fifo_destroy the FIFO's own invariant  *)
(* holds, because all that the two threads do to it are Fifo's actions.    *)
(* The rest says which call a thread can be in (Placed), how the exit      *)
(* flag, the halt and the drained queue depend on each other (Ending), and *)
(* which blocks are where (Numbered, Ordered, Whole).                      *)
(***************************************************************************)
EXTENDS SdrPipeline, TLAPS

\* Only consumers wait for data, only producers for a free buffer.
WaitersPlaced ==
    /\ waiters["notempty"] \subseteq Consumers
    /\ waiters["free"] \subseteq Producers

IInv ==
    /\ FifoTypeOK
    /\ BufferConservation
    /\ HaltedIsQuiet
    /\ NoLostWakeup
    /\ WaitersPlaced

-------------------------------------------------------------------------------
(* Sequences of buffers                                                       *)

\* What a sequence holds after an element is appended (fifo_enqueue's queue tail).
LEMMA RangeAppend ==
    ASSUME NEW S, NEW s \in Seq(S), NEW e \in S
    PROVE  Range(Append(s, e)) = Range(s) \cup {e}
<1>1. DOMAIN s = 1 .. Len(s) /\ DOMAIN Append(s, e) = 1 .. Len(s) + 1
  OBVIOUS
<1>2. \A i \in 1 .. Len(s) : Append(s, e)[i] = s[i]
  OBVIOUS
<1>3. Append(s, e)[Len(s) + 1] = e
  OBVIOUS
<1>4. ASSUME NEW x \in Range(Append(s, e)) PROVE x \in Range(s) \cup {e}
  BY <1>1, <1>2, <1>3, <1>4 DEF Range
<1>5. ASSUME NEW x \in Range(s) \cup {e} PROVE x \in Range(Append(s, e))
  <2>1. CASE x = e
    BY <2>1, <1>1, <1>3 DEF Range
  <2>2. CASE x \in Range(s)
    <3>1. PICK i \in 1 .. Len(s) : s[i] = x
      BY <2>2, <1>1 DEF Range
    <3>2. i \in 1 .. Len(s) + 1 /\ Append(s, e)[i] = x
      BY <3>1, <1>2
    <3>3. QED BY <3>2, <1>1 DEF Range
  <2>3. QED BY <2>1, <2>2
<1>6. QED BY <1>4, <1>5

\* What a non-empty sequence holds: its head and what its tail holds (fifo_dequeue).
LEMMA RangeHeadTail ==
    ASSUME NEW S, NEW s \in Seq(S), s # <<>>
    PROVE  /\ Range(s) = {Head(s)} \cup Range(Tail(s))
           /\ Head(s) \in S
           /\ Tail(s) \in Seq(S)
<1>1. /\ DOMAIN s = 1 .. Len(s)
      /\ Len(s) \in Nat \ {0}
      /\ Len(Tail(s)) = Len(s) - 1
      /\ DOMAIN Tail(s) = 1 .. Len(s) - 1
      /\ Head(s) = s[1]
      /\ Tail(s) \in Seq(S)
  OBVIOUS
<1>2. \A i \in 1 .. Len(s) - 1 : Tail(s)[i] = s[i + 1]
  OBVIOUS
<1>3. ASSUME NEW x \in Range(s) PROVE x \in {Head(s)} \cup Range(Tail(s))
  <2>1. PICK i \in 1 .. Len(s) : s[i] = x
    BY <1>1, <1>3 DEF Range
  <2>2. CASE i = 1
    BY <2>1, <2>2, <1>1
  <2>3. CASE i # 1
    <3>1. i - 1 \in 1 .. Len(s) - 1 /\ Tail(s)[i - 1] = x
      BY <2>1, <2>3, <1>1, <1>2
    <3>2. QED BY <3>1, <1>1 DEF Range
  <2>4. QED BY <2>2, <2>3
<1>4. ASSUME NEW x \in {Head(s)} \cup Range(Tail(s)) PROVE x \in Range(s)
  <2>1. CASE x = Head(s)
    <3>1. 1 \in 1 .. Len(s)
      BY <1>1
    <3>2. QED BY <3>1, <2>1, <1>1 DEF Range
  <2>2. CASE x \in Range(Tail(s))
    <3>1. PICK i \in 1 .. Len(s) - 1 : Tail(s)[i] = x
      BY <2>2, <1>1 DEF Range
    <3>2. i + 1 \in 1 .. Len(s) /\ s[i + 1] = x
      BY <3>1, <1>1, <1>2
    <3>3. QED BY <3>2, <1>1 DEF Range
  <2>3. QED BY <2>1, <2>2
<1>5. QED BY <1>1, <1>3, <1>4

\* A queue of buffers holds buffers.
LEMMA RangeType ==
    ASSUME NEW S, NEW s \in Seq(S)
    PROVE  Range(s) \subseteq S
BY DEF Range

\* The empty queue holds nothing.
LEMMA RangeEmpty == Range(<<>>) = {}
BY DEF Range

\* Appending an element that is not in an injective sequence keeps it injective.
LEMMA AppendInjective ==
    ASSUME NEW S, NEW s \in Seq(S), NEW e \in S, e \notin Range(s),
           \A i, j \in DOMAIN s : s[i] = s[j] => i = j
    PROVE  \A i, j \in DOMAIN Append(s, e) :
               Append(s, e)[i] = Append(s, e)[j] => i = j
<1>1. DOMAIN s = 1 .. Len(s) /\ DOMAIN Append(s, e) = 1 .. Len(s) + 1
  OBVIOUS
<1>2. \A i \in 1 .. Len(s) : Append(s, e)[i] = s[i] /\ s[i] # e
  BY <1>1 DEF Range
<1>3. Append(s, e)[Len(s) + 1] = e
  OBVIOUS
<1>4. Len(s) \in Nat
  OBVIOUS
<1>5. SUFFICES ASSUME NEW i \in 1 .. Len(s) + 1, NEW j \in 1 .. Len(s) + 1,
                      Append(s, e)[i] = Append(s, e)[j]
               PROVE  i = j
  BY <1>1
<1>6. CASE i \in 1 .. Len(s) /\ j \in 1 .. Len(s)
  BY <1>1, <1>2, <1>5, <1>6
<1>7. CASE i = Len(s) + 1 \/ j = Len(s) + 1
  BY <1>2, <1>3, <1>4, <1>5, <1>7
<1>8. QED BY <1>4, <1>6, <1>7

\* An injective sequence without its head is injective and lacks the head.
LEMMA TailInjective ==
    ASSUME NEW S, NEW s \in Seq(S), s # <<>>,
           \A i, j \in DOMAIN s : s[i] = s[j] => i = j
    PROVE  /\ \A i, j \in DOMAIN Tail(s) : Tail(s)[i] = Tail(s)[j] => i = j
           /\ Head(s) \notin Range(Tail(s))
<1>1. /\ DOMAIN s = 1 .. Len(s)
      /\ DOMAIN Tail(s) = 1 .. Len(s) - 1
      /\ Len(s) \in Nat \ {0}
      /\ Head(s) = s[1]
      /\ 1 \in DOMAIN s
  OBVIOUS
<1>2. \A i \in 1 .. Len(s) - 1 : Tail(s)[i] = s[i + 1] /\ i + 1 \in DOMAIN s /\ i + 1 # 1
  BY <1>1
<1>3. ASSUME NEW i \in DOMAIN Tail(s), NEW j \in DOMAIN Tail(s), Tail(s)[i] = Tail(s)[j]
      PROVE  i = j
  <2>1. i + 1 = j + 1
    BY <1>1, <1>2, <1>3
  <2>2. QED BY <2>1, <1>1
<1>4. Head(s) \notin Range(Tail(s))
  <2>1. SUFFICES ASSUME NEW i \in DOMAIN Tail(s), Tail(s)[i] = s[1] PROVE FALSE
    BY <1>1 DEF Range
  <2>2. QED BY <2>1, <1>1, <1>2
<1>5. QED BY <1>3, <1>4

-------------------------------------------------------------------------------
(* Which thread holds which buffer                                            *)

\* A thread without a buffer is given one.
LEMMA HeldGains ==
    ASSUME FifoTypeOK, FifoAssumption, NEW t \in Threads, NEW b \in Buffers,
           held[t] = None, held' = [held EXCEPT ![t] = b]
    PROVE  Held' = Held \cup {b}
<1>1. held'[t] = b /\ \A u \in Threads \ {t} : held'[u] = held[u]
  BY DEF FifoTypeOK
<1>2. b # None
  BY DEF FifoAssumption
<1>3. QED BY <1>1, <1>2 DEF Held

\* The only thread holding a buffer gives it up.
LEMMA HeldLoses ==
    ASSUME FifoTypeOK, BufferConservation, NEW t \in Threads, held[t] # None,
           held' = [held EXCEPT ![t] = None]
    PROVE  Held' = Held \ {held[t]} /\ held[t] \in Held /\ held[t] \in Buffers
<1>1. held'[t] = None /\ \A u \in Threads \ {t} : held'[u] = held[u]
  BY DEF FifoTypeOK
<1>2. \A u \in Threads \ {t} : held[u] # held[t]
  BY DEF BufferConservation
<1>3. QED BY <1>1, <1>2 DEF Held, FifoTypeOK

-------------------------------------------------------------------------------
(* Type correctness                                                           *)

\* Waking the waiters of a condition variable keeps the sets of waiters typed.
LEMMA SignalType ==
    ASSUME FifoTypeOK, NEW c \in Conds, Signal(c)
    PROVE  /\ waiters' \in [Conds -> SUBSET Threads]
           /\ \A d \in Conds : waiters'[d] \subseteq waiters[d]
           /\ \A d \in Conds \ {c} : waiters'[d] = waiters[d]
           /\ waiters[c] # {} => waiters'[c] # waiters[c]
<1>1. CASE waiters[c] = {} /\ UNCHANGED waiters
  BY <1>1 DEF FifoTypeOK
<1>2. ASSUME NEW t \in waiters[c], waiters' = [waiters EXCEPT ![c] = @ \ {t}]
      PROVE  /\ waiters' \in [Conds -> SUBSET Threads]
             /\ \A d \in Conds : waiters'[d] \subseteq waiters[d]
             /\ \A d \in Conds \ {c} : waiters'[d] = waiters[d]
             /\ waiters'[c] # waiters[c]
  BY <1>2 DEF FifoTypeOK
<1>3. QED BY <1>1, <1>2 DEF Signal

\* fifo_create establishes the types.
LEMMA TypeInit == FifoInit => FifoTypeOK
<1>1. SUFFICES ASSUME FifoInit PROVE FifoTypeOK
  OBVIOUS
<1>2. data \in [Buffers -> Content]
  BY <1>1 DEF FifoInit, Content
<1>3. /\ pc \in [Threads -> {"idle", "acquire", "filling", "drain", "dequeue",
                           "demodulating"}]
      /\ held \in [Threads -> Buffers \cup {None}]
      /\ waiters \in [Conds -> SUBSET Threads]
  BY <1>1 DEF FifoInit
<1>4. freelist \subseteq Buffers /\ queue = <<>> /\ halted = FALSE
  BY <1>1 DEF FifoInit
<1>5. overlap_buffer \in Blocks \cup {Zero}
  BY <1>1 DEF FifoInit
<1>6. <<>> \in Seq(Buffers)
  OBVIOUS
<1>7. queue \in Seq(Buffers) /\ halted \in BOOLEAN
  BY <1>4, <1>6
<1>8. QED BY <1>2, <1>3, <1>4, <1>5, <1>7 DEF FifoTypeOK

\* A buffer the front end has filled is a buffer, its content typed.
LEMMA FilledType ==
    ASSUME FifoTypeOK, NEW s \in Blocks \cup {NoSamples}, NEW d \in BOOLEAN
    PROVE  Filled(s, d) \in Content /\ TailOf(Filled(s, d)) \in Blocks \cup {Zero}
<1>1. Filled(s, d) \in Content
  BY DEF Filled, Content, FifoTypeOK
<1>2. QED BY <1>1 DEF TailOf, Content

\* The producer's side, fifo_acquire, fifo_enqueue and fifo_drain, keeps the types.
LEMMA ProducerType ==
    ASSUME FifoTypeOK, BufferConservation, NEW p \in Producers, ProducerNext(p)
    PROVE  FifoTypeOK'
<1> USE DEF FifoTypeOK
<1>a. p \in Threads
  BY DEF Threads
<1>1. CASE AcquireWait(p)
  BY <1>1, <1>a DEF AcquireWait, Park, Conds
<1>2. CASE AcquireHalted(p)
  BY <1>2, <1>a DEF AcquireHalted
<1>3. ASSUME NEW b \in Buffers, AcquireTake(p, b) PROVE FifoTypeOK'
  <2>1. data' \in [Buffers -> Content]
    BY <1>3 DEF AcquireTake, Content
  <2>2. QED BY <1>3, <1>a, <2>1 DEF AcquireTake
<1>4. CASE EnqueueHalted(p)
  <2>1. held[p] \in Buffers
    BY <1>4, <1>a DEF EnqueueHalted, BufferConservation
  <2>2. QED BY <1>4, <1>a, <2>1 DEF EnqueueHalted
<1>5. ASSUME NEW s \in Blocks \cup {NoSamples}, NEW d \in BOOLEAN, Enqueue(p, s, d)
      PROVE  FifoTypeOK'
  <2>1. held[p] \in Buffers
    BY <1>5, <1>a DEF Enqueue, BufferConservation
  <2>2. queue' \in Seq(Buffers)
    BY <1>5, <2>1 DEF Enqueue
  <2>3. data' \in [Buffers -> Content] /\ overlap_buffer' \in Blocks \cup {Zero}
    BY <1>5, <2>1, FilledType DEF Enqueue
  <2>4. waiters' \in [Conds -> SUBSET Threads]
    BY <1>5, SignalType DEF Enqueue, Conds
  <2>5. pc' \in [Threads -> {"idle", "acquire", "filling", "drain", "dequeue",
                             "demodulating"}]
    BY <1>5, <1>a DEF Enqueue
  <2>6. held' \in [Threads -> Buffers \cup {None}]
    BY <1>5, <1>a DEF Enqueue
  <2>7. freelist' \subseteq Buffers /\ halted' \in BOOLEAN
    BY <1>5 DEF Enqueue
  <2>8. QED BY <2>2, <2>3, <2>4, <2>5, <2>6, <2>7
<1>6. CASE DrainWait(p)
  BY <1>6, <1>a DEF DrainWait, Park, Conds
<1>7. CASE DrainReturn(p)
  BY <1>7, <1>a DEF DrainReturn
<1>8. QED BY <1>1, <1>2, <1>3, <1>4, <1>5, <1>6, <1>7 DEF ProducerNext

\* The consumer's side, fifo_dequeue and fifo_release, keeps the types.
LEMMA ConsumerType ==
    ASSUME FifoTypeOK, BufferConservation, NEW c \in Consumers, ConsumerNext(c)
    PROVE  FifoTypeOK'
<1> USE DEF FifoTypeOK
<1>a. c \in Threads
  BY DEF Threads
<1>1. CASE DequeueWait(c)
  BY <1>1, <1>a DEF DequeueWait, Park, Conds
<1>2. CASE DequeueHalted(c)
  BY <1>2, <1>a DEF DequeueHalted
<1>3. CASE DequeueTake(c)
  <2>1. Head(queue) \in Buffers /\ Tail(queue) \in Seq(Buffers)
    BY <1>3, RangeHeadTail DEF DequeueTake
  <2>2. waiters' \in [Conds -> SUBSET Threads]
    BY <1>3 DEF DequeueTake, Broadcast
  <2>3. QED BY <1>3, <1>a, <2>1, <2>2 DEF DequeueTake
<1>4. CASE Release(c)
  <2>1. held[c] \in Buffers
    BY <1>4, <1>a DEF Release, BufferConservation
  <2>2. waiters' \in [Conds -> SUBSET Threads]
    BY <1>4, SignalType DEF Release, Conds
  <2>3. QED BY <1>4, <1>a, <2>1, <2>2 DEF Release
<1>5. QED BY <1>1, <1>2, <1>3, <1>4 DEF ConsumerNext

\* What any thread may do, a timeout, a spurious wakeup or fifo_halt, keeps the types.
LEMMA ThreadType ==
    ASSUME FifoTypeOK, NEW t \in Threads, ThreadNext(t)
    PROVE  FifoTypeOK'
<1> USE DEF FifoTypeOK
<1>1. CASE TimedOut(t)
  BY <1>1 DEF TimedOut
<1>2. ASSUME NEW c \in Conds, SpuriousWakeup(t, c) PROVE FifoTypeOK'
  BY <1>2 DEF SpuriousWakeup
<1>3. CASE FifoHalt(t)
  <2>1. Range(queue) \subseteq Buffers
    BY RangeType
  <2>2. QED BY <1>3, <2>1 DEF FifoHalt
<1>4. QED BY <1>1, <1>2, <1>3 DEF ThreadNext

\* Every step, stuttering included, keeps the types.
LEMMA TypeStep ==
    FifoTypeOK /\ BufferConservation /\ [FifoNext]_fifoVars => FifoTypeOK'
<1>1. SUFFICES ASSUME FifoTypeOK, BufferConservation, [FifoNext]_fifoVars
               PROVE  FifoTypeOK'
  OBVIOUS
<1>2. CASE UNCHANGED fifoVars
  BY <1>1, <1>2 DEF FifoTypeOK, fifoVars
<1>3. QED BY <1>1, <1>2, ProducerType, ConsumerType, ThreadType DEF FifoNext

-------------------------------------------------------------------------------
(* Conservation of buffers                                                    *)

\* After fifo_create all buffers are free.
LEMMA ConservationInit == FifoInit => BufferConservation
<1>1. SUFFICES ASSUME FifoInit PROVE BufferConservation
  OBVIOUS
<1>2. Held = {} /\ Queued = {}
  <2>1. Held = {}
    BY <1>1 DEF FifoInit, Held
  <2>2. Queued = {}
    BY <1>1, RangeEmpty DEF FifoInit, Queued
  <2>3. QED BY <2>1, <2>2
<1>3. \A i, j \in DOMAIN queue : queue[i] = queue[j] => i = j
  BY <1>1 DEF FifoInit
<1>4. \A t \in Threads : held[t] = None /\ pc[t] = "idle"
  BY <1>1 DEF FifoInit
<1>5. freelist = Buffers
  BY <1>1 DEF FifoInit
<1>6. QED BY <1>2, <1>3, <1>4, <1>5 DEF BufferConservation

\* Steps that move no buffer: the thread stays without one.
LEMMA ConservationIdle ==
    ASSUME FifoTypeOK, BufferConservation, NEW t \in Threads,
           UNCHANGED <<freelist, queue, held>>,
           NEW call \in {"idle", "acquire", "drain", "dequeue"},
           pc' = pc \/ pc' = [pc EXCEPT ![t] = call],
           pc[t] \notin {"filling", "demodulating"}
    PROVE  BufferConservation'
<1>1. \A u \in Threads : held'[u] # None <=> pc'[u] \in {"filling", "demodulating"}
  BY DEF BufferConservation, FifoTypeOK
<1>2. Held' = Held /\ Queued' = Queued
  BY DEF Held, Queued
<1>3. QED BY <1>1, <1>2 DEF BufferConservation

\* fifo_acquire moves one buffer from the freelist to the thread.
LEMMA ConservationTake ==
    ASSUME FifoTypeOK, BufferConservation, NEW p \in Threads, NEW b \in Buffers,
           AcquireTake(p, b)
    PROVE  BufferConservation'
<1>1. held[p] = None /\ b \in freelist /\ freelist' = freelist \ {b} /\ queue' = queue
  BY DEF AcquireTake, Evaluates, BufferConservation
<1>2. held' = [held EXCEPT ![p] = b] /\ pc' = [pc EXCEPT ![p] = "filling"]
  BY DEF AcquireTake
<1>3. Held' = Held \cup {b} /\ Queued' = Queued
  BY <1>1, <1>2, HeldGains, FifoAssumption DEF Queued
<1>4. b \notin Queued /\ b \notin Held /\ b # None
  BY <1>1, FifoAssumption DEF BufferConservation
<1>5. \A u \in Threads : held'[u] # None <=> pc'[u] \in {"filling", "demodulating"}
  BY <1>2, <1>4 DEF BufferConservation, FifoTypeOK
<1>6. \A u, v \in Threads : held'[u] = held'[v] /\ held'[u] # None => u = v
  <2>1. \A u \in Threads \ {p} : held'[u] = held[u] /\ held[u] # b
    BY <1>2, <1>4 DEF Held, FifoTypeOK
  <2>2. held'[p] = b
    BY <1>2 DEF FifoTypeOK
  <2>3. QED BY <2>1, <2>2 DEF BufferConservation
<1>7. QED BY <1>1, <1>3, <1>4, <1>5, <1>6 DEF BufferConservation

\* fifo_release, and fifo_enqueue on a halted FIFO, move one buffer back to the freelist.
LEMMA ConservationFree ==
    ASSUME FifoTypeOK, BufferConservation, NEW t \in Threads,
           pc[t] \in {"filling", "demodulating"},
           freelist' = freelist \cup {held[t]},
           queue' = queue,
           pc' = [pc EXCEPT ![t] = "idle"],
           held' = [held EXCEPT ![t] = None]
    PROVE  BufferConservation'
<1>1. held[t] # None
  BY DEF BufferConservation
<1>2. Held' = Held \ {held[t]} /\ held[t] \in Held /\ Queued' = Queued
  BY <1>1, HeldLoses DEF Queued
<1>3. \A u \in Threads : held'[u] # None <=> pc'[u] \in {"filling", "demodulating"}
  BY DEF BufferConservation, FifoTypeOK
<1>4. \A u, v \in Threads : held'[u] = held'[v] /\ held'[u] # None => u = v
  BY DEF BufferConservation, FifoTypeOK
<1>5. QED BY <1>2, <1>3, <1>4 DEF BufferConservation

\* fifo_enqueue moves the thread's buffer to the queue's tail.
LEMMA ConservationEnqueue ==
    ASSUME FifoTypeOK, BufferConservation, NEW p \in Threads,
           NEW s, NEW d, Enqueue(p, s, d)
    PROVE  BufferConservation'
<1>1. /\ pc[p] = "filling"
      /\ queue' = Append(queue, held[p])
      /\ freelist' = freelist
      /\ pc' = [pc EXCEPT ![p] = "idle"]
      /\ held' = [held EXCEPT ![p] = None]
  BY DEF Enqueue
<1>2. held[p] # None
  BY <1>1 DEF BufferConservation
<1>3. Held' = Held \ {held[p]} /\ held[p] \in Held /\ held[p] \in Buffers
  BY <1>1, <1>2, HeldLoses
<1>4. queue \in Seq(Buffers)
  BY DEF FifoTypeOK
<1>5. Queued' = Queued \cup {held[p]}
  BY <1>1, <1>3, <1>4, RangeAppend DEF Queued
<1>6. held[p] \notin Range(queue)
  BY <1>3 DEF BufferConservation, Queued
<1>7. \A i, j \in DOMAIN queue : queue[i] = queue[j] => i = j
  BY DEF BufferConservation
<1>8. \A i, j \in DOMAIN queue' : queue'[i] = queue'[j] => i = j
  BY <1>1, <1>3, <1>4, <1>6, <1>7, AppendInjective
<1>9. \A u \in Threads : held'[u] # None <=> pc'[u] \in {"filling", "demodulating"}
  BY <1>1 DEF BufferConservation, FifoTypeOK
<1>10. \A u, v \in Threads : held'[u] = held'[v] /\ held'[u] # None => u = v
  BY <1>1 DEF BufferConservation, FifoTypeOK
<1>11. QED BY <1>1, <1>3, <1>5, <1>8, <1>9, <1>10 DEF BufferConservation

\* fifo_dequeue moves the queue's head to the thread.
LEMMA ConservationDequeue ==
    ASSUME FifoTypeOK, BufferConservation, NEW c \in Threads, DequeueTake(c)
    PROVE  BufferConservation'
<1>1. /\ queue # <<>>
      /\ queue' = Tail(queue)
      /\ freelist' = freelist
      /\ pc' = [pc EXCEPT ![c] = "demodulating"]
      /\ held' = [held EXCEPT ![c] = Head(queue)]
      /\ held[c] = None
  BY DEF DequeueTake, Evaluates, BufferConservation
<1>2. queue \in Seq(Buffers)
  BY DEF FifoTypeOK
<1>3. Queued = {Head(queue)} \cup Queued' /\ Head(queue) \in Buffers
  BY <1>1, <1>2, RangeHeadTail DEF Queued
<1>4. Held' = Held \cup {Head(queue)}
  BY <1>1, <1>3, HeldGains, FifoAssumption
<1>5. \A i, j \in DOMAIN queue : queue[i] = queue[j] => i = j
  BY DEF BufferConservation
<1>6. /\ \A i, j \in DOMAIN queue' : queue'[i] = queue'[j] => i = j
      /\ Head(queue) \notin Queued'
  BY <1>1, <1>2, <1>5, TailInjective DEF Queued
<1>7. Head(queue) \notin Held /\ Head(queue) # None
  BY <1>3, FifoAssumption DEF BufferConservation
<1>8. \A u \in Threads : held'[u] # None <=> pc'[u] \in {"filling", "demodulating"}
  BY <1>1, <1>7 DEF BufferConservation, FifoTypeOK
<1>9. \A u, v \in Threads : held'[u] = held'[v] /\ held'[u] # None => u = v
  <2>1. \A u \in Threads \ {c} : held'[u] = held[u] /\ held[u] # Head(queue)
    BY <1>1, <1>7 DEF Held, FifoTypeOK
  <2>2. held'[c] = Head(queue)
    BY <1>1 DEF FifoTypeOK
  <2>3. QED BY <2>1, <2>2 DEF BufferConservation
<1>10. QED BY <1>1, <1>3, <1>4, <1>6, <1>7, <1>8, <1>9 DEF BufferConservation

\* fifo_halt moves the whole queue to the freelist.
LEMMA ConservationHalt ==
    ASSUME FifoTypeOK, BufferConservation, NEW t \in Threads, FifoHalt(t)
    PROVE  BufferConservation'
<1>1. freelist' = freelist \cup Queued /\ queue' = <<>> /\ UNCHANGED <<pc, held>>
  BY DEF FifoHalt, Queued
<1>2. Queued' = {} /\ Held' = Held
  BY <1>1, RangeEmpty DEF Queued, Held
<1>3. \A i, j \in DOMAIN queue' : queue'[i] = queue'[j] => i = j
  BY <1>1
<1>4. QED BY <1>1, <1>2, <1>3 DEF BufferConservation

\* Every step conserves the buffers.
LEMMA ConservationStep ==
    ASSUME FifoTypeOK, BufferConservation, [FifoNext]_fifoVars
    PROVE  BufferConservation'
<1>1. CASE UNCHANGED fifoVars
  BY <1>1 DEF BufferConservation, fifoVars, Held, Queued
<1>2. ASSUME NEW p \in Producers, ProducerNext(p) PROVE BufferConservation'
  <2>a. p \in Threads
    BY DEF Threads
  <2>1. CASE AcquireWait(p)
    BY <2>1, <2>a, ConservationIdle DEF AcquireWait, Park, Evaluates
  <2>2. CASE AcquireHalted(p)
    BY <2>2, <2>a, ConservationIdle DEF AcquireHalted
  <2>3. ASSUME NEW b \in Buffers, AcquireTake(p, b) PROVE BufferConservation'
    BY <2>3, <2>a, ConservationTake
  <2>4. CASE EnqueueHalted(p)
    BY <2>4, <2>a, ConservationFree DEF EnqueueHalted
  <2>5. ASSUME NEW s \in Blocks \cup {NoSamples}, NEW d \in BOOLEAN, Enqueue(p, s, d)
        PROVE  BufferConservation'
    BY <2>5, <2>a, ConservationEnqueue
  <2>6. CASE DrainWait(p)
    BY <2>6, <2>a, ConservationIdle DEF DrainWait, Park, Evaluates
  <2>7. CASE DrainReturn(p)
    BY <2>7, <2>a, ConservationIdle DEF DrainReturn
  <2>8. QED BY <1>2, <2>1, <2>2, <2>3, <2>4, <2>5, <2>6, <2>7 DEF ProducerNext
<1>3. ASSUME NEW c \in Consumers, ConsumerNext(c) PROVE BufferConservation'
  <2>a. c \in Threads
    BY DEF Threads
  <2>1. CASE DequeueWait(c)
    BY <2>1, <2>a, ConservationIdle DEF DequeueWait, Park, Evaluates
  <2>2. CASE DequeueHalted(c)
    BY <2>2, <2>a, ConservationIdle DEF DequeueHalted
  <2>3. CASE DequeueTake(c)
    BY <2>3, <2>a, ConservationDequeue
  <2>4. CASE Release(c)
    BY <2>4, <2>a, ConservationFree DEF Release
  <2>5. QED BY <1>3, <2>1, <2>2, <2>3, <2>4 DEF ConsumerNext
<1>4. ASSUME NEW t \in Threads, ThreadNext(t) PROVE BufferConservation'
  <2>1. CASE TimedOut(t)
    BY <2>1, ConservationIdle DEF TimedOut
  <2>2. ASSUME NEW c \in Conds, SpuriousWakeup(t, c) PROVE BufferConservation'
    BY <2>2 DEF SpuriousWakeup, BufferConservation, Held, Queued
  <2>3. CASE FifoHalt(t)
    BY <2>3, ConservationHalt
  <2>4. QED BY <1>4, <2>1, <2>2, <2>3 DEF ThreadNext
<1>5. QED BY <1>1, <1>2, <1>3, <1>4 DEF FifoNext

-------------------------------------------------------------------------------
(* Halting and wakeups                                                        *)

\* The other parts of the inductive invariant hold after fifo_create.
LEMMA QuietInit == FifoInit => HaltedIsQuiet /\ NoLostWakeup /\ WaitersPlaced
BY FifoAssumption DEF FifoInit, HaltedIsQuiet, NoLostWakeup, WaitersPlaced, Conds

\* No step puts a buffer on the queue of a halted FIFO.
LEMMA HaltedStep ==
    ASSUME FifoTypeOK, HaltedIsQuiet, [FifoNext]_fifoVars
    PROVE  HaltedIsQuiet'
<1> USE DEF HaltedIsQuiet
<1>1. CASE UNCHANGED fifoVars
  BY <1>1 DEF fifoVars
<1>2. ASSUME NEW p \in Producers, ProducerNext(p) PROVE HaltedIsQuiet'
  BY <1>2 DEF ProducerNext, AcquireWait, AcquireHalted, AcquireTake, EnqueueHalted,
              Enqueue, DrainWait, DrainReturn
<1>3. ASSUME NEW c \in Consumers, ConsumerNext(c) PROVE HaltedIsQuiet'
  <2>1. CASE DequeueWait(c) \/ DequeueHalted(c) \/ DequeueTake(c)
    BY <2>1 DEF DequeueWait, DequeueHalted, DequeueTake
  <2>2. CASE Release(c)
    <3>1. halted => waiters' = waiters
      BY <2>2 DEF Release, Signal, Conds
    <3>2. QED BY <2>2, <3>1 DEF Release
  <2>3. QED BY <1>3, <2>1, <2>2 DEF ConsumerNext
<1>4. ASSUME NEW t \in Threads, ThreadNext(t) PROVE HaltedIsQuiet'
  BY <1>4 DEF ThreadNext, TimedOut, SpuriousWakeup, FifoHalt, FifoTypeOK
<1>5. QED BY <1>1, <1>2, <1>3, <1>4 DEF FifoNext

\* No step puts a thread on the other side's condition variable.
LEMMA PlacedStep ==
    ASSUME FifoTypeOK, WaitersPlaced, [FifoNext]_fifoVars
    PROVE  WaitersPlaced'
<1> USE DEF WaitersPlaced, Conds
<1>1. CASE UNCHANGED fifoVars
  BY <1>1 DEF fifoVars
<1>2. ASSUME NEW p \in Producers, ProducerNext(p) PROVE WaitersPlaced'
  <2>1. CASE AcquireWait(p) \/ DrainWait(p)
    BY <2>1 DEF AcquireWait, DrainWait, Park, FifoTypeOK
  <2>2. ASSUME NEW s \in Blocks \cup {NoSamples}, NEW d \in BOOLEAN, Enqueue(p, s, d)
        PROVE  WaitersPlaced'
    BY <2>2, SignalType DEF Enqueue
  <2>3. CASE UNCHANGED waiters
    BY <2>3
  <2>4. QED BY <1>2, <2>1, <2>2, <2>3
            DEF ProducerNext, AcquireHalted, AcquireTake, EnqueueHalted, DrainReturn
<1>3. ASSUME NEW c \in Consumers, ConsumerNext(c) PROVE WaitersPlaced'
  <2>1. CASE DequeueWait(c)
    BY <2>1 DEF DequeueWait, Park, FifoTypeOK
  <2>2. CASE DequeueHalted(c)
    BY <2>2 DEF DequeueHalted
  <2>3. CASE DequeueTake(c)
    BY <2>3 DEF DequeueTake, Broadcast, FifoTypeOK
  <2>4. CASE Release(c)
    BY <2>4, SignalType DEF Release
  <2>5. QED BY <1>3, <2>1, <2>2, <2>3, <2>4 DEF ConsumerNext
<1>4. ASSUME NEW t \in Threads, ThreadNext(t) PROVE WaitersPlaced'
  BY <1>4 DEF ThreadNext, TimedOut, SpuriousWakeup, FifoHalt, FifoTypeOK
<1>5. QED BY <1>1, <1>2, <1>3, <1>4 DEF FifoNext

\* A signal unparks one thread, so not all threads of a side stay parked.
LEMMA SignalUnparks ==
    ASSUME FifoTypeOK, NEW c \in Conds, NEW S, S # {}, waiters[c] \subseteq S, Signal(c)
    PROVE  waiters'[c] # S
<1>1. waiters'[c] \subseteq waiters[c]
  BY SignalType
<1>2. CASE waiters[c] = {}
  BY <1>1, <1>2
<1>3. CASE waiters[c] # {}
  BY <1>1, <1>3, SignalType
<1>4. QED BY <1>2, <1>3

\* No step parks a whole side that has something to take.
LEMMA WakeupStep ==
    ASSUME IInv, [FifoNext]_fifoVars
    PROVE  NoLostWakeup'
<1> USE DEF NoLostWakeup, Conds
<1>a. FifoTypeOK /\ NoLostWakeup /\ WaitersPlaced /\ HaltedIsQuiet /\ BufferConservation
  BY DEF IInv
<1>b. Producers # {} /\ Consumers # {}
  BY FifoAssumption
<1>1. CASE UNCHANGED fifoVars
  BY <1>1, <1>a DEF fifoVars
<1>2. ASSUME NEW p \in Producers, ProducerNext(p) PROVE NoLostWakeup'
  <2>1. CASE AcquireWait(p) \/ DrainWait(p)
    BY <2>1, <1>a DEF AcquireWait, DrainWait, Park, FifoTypeOK
  <2>2. CASE AcquireHalted(p) \/ DrainReturn(p)
    BY <2>2, <1>a DEF AcquireHalted, DrainReturn
  <2>3. ASSUME NEW b \in Buffers, AcquireTake(p, b) PROVE NoLostWakeup'
    BY <2>3, <1>a DEF AcquireTake
  <2>4. CASE EnqueueHalted(p)
    <3>1. queue' = <<>> /\ waiters' = waiters /\ \A c \in Conds : waiters[c] = {}
      BY <2>4, <1>a DEF EnqueueHalted, HaltedIsQuiet
    <3>2. QED BY <3>1, <1>b
  <2>5. ASSUME NEW s \in Blocks \cup {NoSamples}, NEW d \in BOOLEAN, Enqueue(p, s, d)
        PROVE  NoLostWakeup'
    <3>1. freelist' = freelist /\ queue' = Append(queue, held[p]) /\ held[p] \in Buffers
      BY <2>5, <1>a DEF Enqueue, BufferConservation, Held, FifoTypeOK, Threads
    <3>2. queue' # <<>>
      BY <3>1, <1>a DEF FifoTypeOK
    <3>3. waiters'["free"] = waiters["free"]
      BY <2>5, <1>a, SignalType DEF Enqueue
    <3>4. waiters'["notempty"] # Consumers
      BY <2>5, <1>a, <1>b, SignalUnparks DEF Enqueue, WaitersPlaced
    <3>5. QED BY <3>1, <3>2, <3>3, <3>4, <1>a
  <2>6. QED BY <1>2, <2>1, <2>2, <2>3, <2>4, <2>5 DEF ProducerNext
<1>3. ASSUME NEW c \in Consumers, ConsumerNext(c) PROVE NoLostWakeup'
  <2>1. CASE DequeueWait(c)
    BY <2>1, <1>a DEF DequeueWait, Park, FifoTypeOK
  <2>2. CASE DequeueHalted(c)
    BY <2>2, <1>a DEF DequeueHalted
  <2>3. CASE DequeueTake(c)
    <3>1. waiters'["notempty"] = waiters["notempty"] /\ waiters'["free"] = waiters["free"]
      BY <2>3, <1>a DEF DequeueTake, Broadcast, FifoTypeOK
    <3>2. queue' = <<>> => waiters'["empty"] = {}
      BY <2>3, <1>a DEF DequeueTake, Broadcast, FifoTypeOK
    <3>3. queue # <<>> /\ freelist' = freelist
      BY <2>3 DEF DequeueTake
    <3>4. QED BY <3>1, <3>2, <3>3, <1>a
  <2>4. CASE Release(c)
    <3>1. queue' = queue
      BY <2>4 DEF Release
    <3>2. /\ waiters'["notempty"] = waiters["notempty"]
          /\ waiters'["empty"] = waiters["empty"]
      BY <2>4, <1>a, SignalType DEF Release
    <3>3. waiters'["free"] # Producers
      BY <2>4, <1>a, <1>b, SignalUnparks DEF Release, WaitersPlaced
    <3>4. QED BY <3>1, <3>2, <3>3, <1>a
  <2>5. QED BY <1>3, <2>1, <2>2, <2>3, <2>4 DEF ConsumerNext
<1>4. ASSUME NEW t \in Threads, ThreadNext(t) PROVE NoLostWakeup'
  <2>1. CASE FifoHalt(t)
    BY <2>1, <1>b DEF FifoHalt
  <2>2. ASSUME UNCHANGED <<queue, freelist>>, NEW u,
               \A c \in Conds : waiters'[c] = waiters[c] \ {u} \/ waiters'[c] = waiters[c]
        PROVE  NoLostWakeup'
    BY <2>2, <1>a DEF WaitersPlaced
  <2>3. CASE TimedOut(t)
    BY <2>2, <2>3 DEF TimedOut
  <2>4. ASSUME NEW c \in Conds, SpuriousWakeup(t, c) PROVE NoLostWakeup'
    BY <2>2, <2>4, <1>a DEF SpuriousWakeup, FifoTypeOK
  <2>5. QED BY <1>4, <2>1, <2>3, <2>4 DEF ThreadNext
<1>5. QED BY <1>1, <1>2, <1>3, <1>4 DEF FifoNext

-------------------------------------------------------------------------------
(* The theorems                                                               *)

\* The inductive invariant of fifo.c holds of what fifo_create makes.
LEMMA IInvInit == FifoInit => IInv
BY TypeInit, ConservationInit, QuietInit DEF IInv

\* Every step of fifo.c keeps it.
LEMMA IInvStep == IInv /\ [FifoNext]_fifoVars => IInv'
<1>1. SUFFICES ASSUME IInv, [FifoNext]_fifoVars PROVE IInv'
  OBVIOUS
<1>2. FifoTypeOK'
  BY <1>1, TypeStep DEF IInv
<1>3. BufferConservation'
  BY <1>1, ConservationStep DEF IInv
<1>4. HaltedIsQuiet' /\ WaitersPlaced'
  BY <1>1, HaltedStep, PlacedStep DEF IInv
<1>5. NoLostWakeup'
  BY <1>1, WakeupStep
<1>6. QED BY <1>2, <1>3, <1>4, <1>5 DEF IInv

\* So it holds in every run.
LEMMA Inductive == FifoSpec => []IInv
BY IInvInit, IInvStep, PTL DEF FifoSpec

\* Every variable of fifo.c keeps its type in every run.
THEOREM FifoTypeCorrect == FifoSpec => []FifoTypeOK
<1>1. IInv => FifoTypeOK
  BY DEF IInv
<1>2. QED BY <1>1, Inductive, PTL

\* The pointer moves between fifo_freelist, the queue and the callers never lose
\* a buffer and never put one in two places, for any number of buffers and threads.
THEOREM BuffersAreConserved == FifoSpec => []BufferConservation
<1>1. IInv => BufferConservation
  BY DEF IInv
<1>2. QED BY <1>1, Inductive, PTL

\* Once fifo_halt has run nothing is queued and no thread is parked, ever again.
THEOREM HaltIsFinal == FifoSpec => []HaltedIsQuiet
<1>1. IInv => HaltedIsQuiet
  BY DEF IInv
<1>2. QED BY <1>1, Inductive, PTL

\* With one reader and one demodulating thread, as in the programs, a thread does not
\* stay parked beside what it waits for.
LoneWaitersWake ==
    /\ \A c \in Consumers : Consumers = {c} /\ queue # <<>> => c \notin waiters["notempty"]
    /\ \A p \in Producers : Producers = {p} /\ freelist # {} => p \notin waiters["free"]

\* fifo_enqueue and fifo_release signal only when their list stops being empty.  Never
\* are all the threads of one side parked on their condition while it holds: a thread
\* that is alone on its side wakes, and of several at least one is awake, although
\* others may stay parked beside a second buffer.  In fifo_drain nobody stays parked
\* while the queue is empty.
THEOREM WakeupsSuffice == FifoSpec => [](NoLostWakeup /\ LoneWaitersWake)
<1>1. ASSUME IInv PROVE NoLostWakeup /\ LoneWaitersWake
  <2>1. NoLostWakeup /\ WaitersPlaced
    BY <1>1 DEF IInv
  <2>2. ASSUME NEW c \in Consumers, Consumers = {c}, queue # <<>>
        PROVE  c \notin waiters["notempty"]
    BY <2>1, <2>2 DEF NoLostWakeup, WaitersPlaced
  <2>3. ASSUME NEW p \in Producers, Producers = {p}, freelist # {}
        PROVE  p \notin waiters["free"]
    BY <2>1, <2>3 DEF NoLostWakeup, WaitersPlaced
  <2>4. QED BY <2>1, <2>2, <2>3 DEF LoneWaitersWake
<1>2. QED BY <1>1, Inductive, PTL

-------------------------------------------------------------------------------
(* The overlap regions                                                        *)

\* Whatever does not touch the queue, its buffers or the saved overlap keeps the chain.
LEMMA ChainStays ==
    ASSUME FifoTypeOK, OverlapChain, UNCHANGED <<queue, overlap_buffer>>,
           \A b \in Queued : data'[b] = data[b]
    PROVE  OverlapChain'
<1>1. \A i \in 1 .. Len(queue) : data'[queue[i]] = data[queue[i]]
  BY DEF Queued, Range, FifoTypeOK
<1>2. Len(queue) \in Nat /\ (queue # <<>> => Len(queue) >= 1)
  BY DEF FifoTypeOK
<1>3. \A i \in 1 .. Len(queue) - 1 : i \in 1 .. Len(queue) /\ i + 1 \in 1 .. Len(queue)
  BY <1>2
<1>4. queue # <<>> => data'[queue[Len(queue)]] = data[queue[Len(queue)]]
  BY <1>1, <1>2
<1>5. \A i \in 1 .. Len(queue) - 1 :
          data'[queue[i]] = data[queue[i]] /\ data'[queue[i + 1]] = data[queue[i + 1]]
  BY <1>1, <1>3
<1>6. QED BY <1>4, <1>5 DEF OverlapChain, TailOf

\* The buffer enqueued starts with what was saved from the last one.
LEMMA ChainEnqueue ==
    ASSUME FifoTypeOK, BufferConservation, OverlapChain, NEW p \in Threads,
           NEW s, NEW d \in BOOLEAN, Enqueue(p, s, d)
    PROVE  OverlapChain'
<1> DEFINE b == held[p]
<1>1. b \in Buffers /\ b \notin Queued
  <2>1. b # None
    BY DEF Enqueue, BufferConservation
  <2>2. b \in Held
    BY <2>1 DEF Held
  <2>3. QED BY <2>1, <2>2 DEF BufferConservation, FifoTypeOK
<1>2. /\ queue' = Append(queue, b) /\ overlap_buffer' = TailOf(Filled(s, d))
      /\ data' = [data EXCEPT ![b] = Filled(s, d)]
  BY DEF Enqueue
<1> HIDE DEF b
<1>3. /\ Len(queue') = Len(queue) + 1 /\ queue'[Len(queue) + 1] = b /\ Len(queue) \in Nat
      /\ \A i \in 1 .. Len(queue) : queue'[i] = queue[i]
  BY <1>1, <1>2 DEF FifoTypeOK
<1>4. data'[b] = Filled(s, d)
  BY <1>1, <1>2 DEF FifoTypeOK
<1>5. \A i \in 1 .. Len(queue) : queue[i] \in Queued /\ data'[queue[i]] = data[queue[i]]
  <2>1. \A i \in 1 .. Len(queue) : queue[i] \in Queued
    BY DEF Queued, Range, FifoTypeOK
  <2>2. QED BY <1>1, <1>2, <2>1 DEF FifoTypeOK
<1>6. ASSUME NEW i \in 1 .. Len(queue') - 1
      PROVE  data'[queue'[i + 1]].overlap =
                 IF data'[queue'[i + 1]].discontinuous THEN Zero ELSE TailOf(data'[queue'[i]])
  <2>1. i \in 1 .. Len(queue) /\ (i < Len(queue) \/ i = Len(queue))
    BY <1>3, <1>6
  <2>2. CASE i < Len(queue)
    <3>1. i \in 1 .. Len(queue) - 1 /\ i + 1 \in 1 .. Len(queue)
      BY <1>3, <2>1, <2>2
    <3>2. QED BY <1>3, <1>5, <2>1, <3>1 DEF OverlapChain, TailOf
  <2>3. CASE i = Len(queue)
    <3>1. queue # <<>> /\ overlap_buffer = TailOf(data[queue[i]])
      BY <2>1, <2>3 DEF OverlapChain
    <3>2. queue'[i + 1] = b /\ TailOf(data'[queue'[i]]) = overlap_buffer
      BY <1>3, <1>5, <2>1, <2>3, <3>1 DEF TailOf
    <3>3. QED BY <1>4, <3>2 DEF Filled
  <2>4. QED BY <2>1, <2>2, <2>3
<1>7. overlap_buffer' = TailOf(data'[queue'[Len(queue')]])
  BY <1>2, <1>3, <1>4 DEF TailOf
<1>8. QED BY <1>6, <1>7 DEF OverlapChain, TailOf

\* What remains after the oldest is taken out is still a chain.
LEMMA ChainDequeue ==
    ASSUME FifoTypeOK, OverlapChain, NEW c \in Threads, DequeueTake(c)
    PROVE  OverlapChain'
<1>1. /\ queue \in Seq(Buffers) /\ queue # <<>> /\ queue' = Tail(queue)
      /\ UNCHANGED <<overlap_buffer, data>>
  BY DEF DequeueTake, FifoTypeOK
<1>2. /\ Len(queue) \in Nat \ {0} /\ Len(queue') = Len(queue) - 1
      /\ \A i \in 1 .. Len(queue) - 1 : queue'[i] = queue[i + 1]
  BY <1>1
<1>3. ASSUME NEW i \in 1 .. Len(queue') - 1
      PROVE  data[queue'[i + 1]].overlap =
                 IF data[queue'[i + 1]].discontinuous THEN Zero ELSE TailOf(data[queue'[i]])
  <2>1. i \in 1 .. Len(queue) - 1 /\ i + 1 \in 1 .. Len(queue) - 1
    BY <1>2, <1>3
  <2>2. queue'[i] = queue[i + 1] /\ queue'[i + 1] = queue[(i + 1) + 1]
    BY <1>2, <2>1
  <2>3. QED BY <2>1, <2>2 DEF OverlapChain
<1>4. queue' # <<>> => overlap_buffer = TailOf(data[queue'[Len(queue')]])
  <2>1. SUFFICES ASSUME queue' # <<>> PROVE overlap_buffer = TailOf(data[queue'[Len(queue')]])
    OBVIOUS
  <2>2. Len(queue') >= 1
    BY <1>1, <2>1
  <2>3. queue'[Len(queue')] = queue[Len(queue)]
    BY <1>2, <2>2
  <2>4. QED BY <1>1, <2>3 DEF OverlapChain
<1>5. QED BY <1>1, <1>3, <1>4 DEF OverlapChain, TailOf

\* Every step, stuttering included.
LEMMA ChainStep == IInv /\ OverlapChain /\ [FifoNext]_fifoVars => OverlapChain'
<1>1. SUFFICES ASSUME IInv, OverlapChain, [FifoNext]_fifoVars PROVE OverlapChain'
  OBVIOUS
<1>2. FifoTypeOK /\ BufferConservation
  BY <1>1 DEF IInv
<1>3. CASE UNCHANGED <<queue, overlap_buffer, data>>
  BY <1>1, <1>2, <1>3, ChainStays
<1>4. ASSUME NEW p \in Producers, NEW b \in Buffers, AcquireTake(p, b) PROVE OverlapChain'
  <2>1. b \notin Queued
    BY <1>2, <1>4 DEF AcquireTake, BufferConservation
  <2>2. \A q \in Queued : data'[q] = data[q]
    BY <1>2, <1>4, <2>1 DEF AcquireTake, FifoTypeOK
  <2>3. QED BY <1>1, <1>2, <1>4, <2>2, ChainStays DEF AcquireTake
<1>5. ASSUME NEW t \in Threads, FifoHalt(t) PROVE OverlapChain'
  <2>1. queue' = <<>> /\ Len(queue') = 0
    BY <1>5 DEF FifoHalt
  <2>2. QED BY <2>1 DEF OverlapChain
<1>6. CASE \E p \in Producers : ProducerNext(p)
  <2>1. PICK p \in Producers : ProducerNext(p)
    BY <1>6
  <2>2. p \in Threads
    BY DEF Threads
  <2>3. CASE \E s \in Blocks \cup {NoSamples}, d \in BOOLEAN : Enqueue(p, s, d)
    BY <1>1, <1>2, <2>2, <2>3, ChainEnqueue
  <2>4. CASE \E b \in Buffers : AcquireTake(p, b)
    BY <1>4, <2>4
  <2>5. CASE AcquireWait(p) \/ AcquireHalted(p) \/ EnqueueHalted(p) \/ DrainWait(p) \/ DrainReturn(p)
    BY <1>3, <2>5 DEF AcquireWait, AcquireHalted, EnqueueHalted, DrainWait, DrainReturn
  <2>6. QED BY <2>1, <2>3, <2>4, <2>5 DEF ProducerNext
<1>7. CASE \E c \in Consumers : ConsumerNext(c)
  <2>1. PICK c \in Consumers : ConsumerNext(c)
    BY <1>7
  <2>2. c \in Threads
    BY DEF Threads
  <2>3. CASE DequeueTake(c)
    BY <1>1, <1>2, <2>2, <2>3, ChainDequeue
  <2>4. CASE DequeueWait(c) \/ DequeueHalted(c) \/ Release(c)
    BY <1>3, <2>4 DEF DequeueWait, DequeueHalted, Release
  <2>5. QED BY <2>1, <2>3, <2>4 DEF ConsumerNext
<1>8. CASE \E t \in Threads : ThreadNext(t)
  <2>1. PICK t \in Threads : ThreadNext(t)
    BY <1>8
  <2>2. CASE TimedOut(t) \/ \E c \in Conds : SpuriousWakeup(t, c)
    BY <1>3, <2>2 DEF TimedOut, SpuriousWakeup
  <2>3. QED BY <1>5, <2>1, <2>2 DEF ThreadNext
<1>9. CASE UNCHANGED fifoVars
  BY <1>3, <1>9 DEF fifoVars
<1>10. QED BY <1>1, <1>6, <1>7, <1>8, <1>9 DEF FifoNext

\* The demodulator always finds before a buffer's samples the end of the buffer before it.
THEOREM OverlapsChain == FifoSpec => []OverlapChain
<1>1. FifoInit => OverlapChain
  <2>1. SUFFICES ASSUME queue = <<>> PROVE OverlapChain
    BY DEF FifoInit
  <2>2. Len(queue) = 0
    BY <2>1
  <2>3. QED BY <2>1, <2>2 DEF OverlapChain
<1>2. QED BY <1>1, ChainStep, Inductive, PTL DEF FifoSpec

-------------------------------------------------------------------------------
(* Fifo implements BufferPool                                                 *)

\* Giving thread t a buffer, or taking its buffer away, changes the set held by
\* t's side by that buffer and leaves the other side's set alone.
LEMMA SideGains ==
    ASSUME FifoTypeOK, NEW Side \in SUBSET Threads, NEW t \in Threads, NEW b \in Buffers,
           held[t] = None, held' = [held EXCEPT ![t] = b]
    PROVE  {held'[u] : u \in Side} \ {None} =
             IF t \in Side THEN ({held[u] : u \in Side} \ {None}) \cup {b}
                           ELSE {held[u] : u \in Side} \ {None}
<1>1. held'[t] = b /\ \A u \in Threads \ {t} : held'[u] = held[u]
  BY DEF FifoTypeOK
<1>2. b # None
  BY FifoAssumption
<1>3. CASE t \in Side
  BY <1>1, <1>2, <1>3
<1>4. CASE t \notin Side
  BY <1>1, <1>4
<1>5. QED BY <1>3, <1>4

\* The same when it loses one.
LEMMA SideLoses ==
    ASSUME FifoTypeOK, BufferConservation, NEW Side \in SUBSET Threads, NEW t \in Threads,
           held[t] # None, held' = [held EXCEPT ![t] = None]
    PROVE  {held'[u] : u \in Side} \ {None} =
             IF t \in Side THEN ({held[u] : u \in Side} \ {None}) \ {held[t]}
                           ELSE {held[u] : u \in Side} \ {None}
<1>1. held'[t] = None /\ \A u \in Threads \ {t} : held'[u] = held[u]
  BY DEF FifoTypeOK
<1>2. \A u \in Threads \ {t} : held[u] # held[t]
  BY DEF BufferConservation
<1>3. CASE t \in Side
  BY <1>1, <1>2, <1>3
<1>4. CASE t \notin Side
  BY <1>1, <1>4
<1>5. QED BY <1>3, <1>4

\* fifo_create maps to the initial state of the abstract pool.
LEMMA PoolInitially == FifoInit => Pool!PoolInit
BY DEF FifoInit, Pool!PoolInit, Filling, Reading, Threads

\* Every step of fifo.c is a step of the abstract pool, or changes nothing there.
LEMMA PoolStep ==
    ASSUME IInv, [FifoNext]_fifoVars
    PROVE  [Pool!PoolNext]_(Pool!poolVars)
<1> USE DEF Pool!PoolNext, Pool!poolVars
<1>a. FifoTypeOK /\ BufferConservation
  BY DEF IInv
<1>b. /\ Producers \subseteq Threads
      /\ Consumers \subseteq Threads
      /\ Producers \cap Consumers = {}
  BY FifoAssumption DEF Threads
<1>c. ASSUME UNCHANGED <<freelist, queue, halted, held>>
      PROVE  [Pool!PoolNext]_(Pool!poolVars)
  BY <1>c DEF Filling, Reading
<1>1. CASE UNCHANGED fifoVars
  BY <1>1, <1>c DEF fifoVars
<1>2. ASSUME NEW p \in Producers, ProducerNext(p) PROVE [Pool!PoolNext]_(Pool!poolVars)
  <2>a. p \in Threads /\ p \notin Consumers
    BY <1>b
  <2>1. CASE AcquireWait(p) \/ AcquireHalted(p) \/ DrainWait(p) \/ DrainReturn(p)
    BY <2>1, <1>c DEF AcquireWait, AcquireHalted, DrainWait, DrainReturn
  <2>2. ASSUME NEW b \in Buffers, AcquireTake(p, b) PROVE [Pool!PoolNext]_(Pool!poolVars)
    <3>1. held[p] = None /\ held' = [held EXCEPT ![p] = b]
      BY <2>2, <1>a, <2>a DEF AcquireTake, Evaluates, BufferConservation
    <3>2. Filling' = Filling \cup {b} /\ Reading' = Reading
      BY <3>1, <1>a, <1>b, <2>a, SideGains DEF Filling, Reading
    <3>3. Pool!Take(b)
      BY <2>2, <3>2 DEF AcquireTake, Pool!Take
    <3>4. QED BY <3>3
  <2>3. ASSUME pc[p] = "filling", held' = [held EXCEPT ![p] = None]
        PROVE  /\ Filling' = Filling \ {held[p]}
               /\ Reading' = Reading
               /\ held[p] \in Filling \cap Buffers
    <3>1. held[p] # None
      BY <2>3, <1>a, <2>a DEF BufferConservation
    <3>2. Filling' = Filling \ {held[p]} /\ Reading' = Reading
      BY <3>1, <2>3, <1>a, <1>b, <2>a, SideLoses DEF Filling, Reading
    <3>3. QED BY <3>1, <3>2, <1>a, <2>a DEF Filling, FifoTypeOK
  <2>4. CASE EnqueueHalted(p)
    <3>1. Pool!Discard(held[p]) /\ held[p] \in Buffers
      BY <2>3, <2>4 DEF EnqueueHalted, Pool!Discard
    <3>2. QED BY <3>1
  <2>5. ASSUME NEW s \in Blocks \cup {NoSamples}, NEW d \in BOOLEAN, Enqueue(p, s, d)
        PROVE  [Pool!PoolNext]_(Pool!poolVars)
    <3>1. Pool!Put(held[p]) /\ held[p] \in Buffers
      BY <2>3, <2>5 DEF Enqueue, Pool!Put
    <3>2. QED BY <3>1
  <2>6. QED BY <1>2, <2>1, <2>2, <2>4, <2>5 DEF ProducerNext
<1>3. ASSUME NEW c \in Consumers, ConsumerNext(c) PROVE [Pool!PoolNext]_(Pool!poolVars)
  <2>a. c \in Threads /\ c \notin Producers
    BY <1>b
  <2>1. CASE DequeueWait(c) \/ DequeueHalted(c)
    BY <2>1, <1>c DEF DequeueWait, DequeueHalted
  <2>2. CASE DequeueTake(c)
    <3>1. held[c] = None /\ held' = [held EXCEPT ![c] = Head(queue)]
      BY <2>2, <1>a, <2>a DEF DequeueTake, Evaluates, BufferConservation
    <3>2. Head(queue) \in Buffers
      BY <2>2, <1>a, RangeHeadTail DEF DequeueTake, FifoTypeOK
    <3>3. Reading' = Reading \cup {Head(queue)} /\ Filling' = Filling
      BY <3>1, <3>2, <1>a, <1>b, <2>a, SideGains DEF Filling, Reading
    <3>4. Pool!Get
      BY <2>2, <3>3 DEF DequeueTake, Pool!Get
    <3>5. QED BY <3>4
  <2>3. CASE Release(c)
    <3>1. held[c] # None /\ held' = [held EXCEPT ![c] = None]
      BY <2>3, <1>a, <2>a DEF Release, BufferConservation
    <3>2. Reading' = Reading \ {held[c]} /\ Filling' = Filling
      BY <3>1, <1>a, <1>b, <2>a, SideLoses DEF Filling, Reading
    <3>3. held[c] \in Reading /\ held[c] \in Buffers
      BY <3>1, <1>a, <2>a DEF Reading, FifoTypeOK
    <3>4. Pool!Return(held[c])
      BY <2>3, <3>2, <3>3 DEF Release, Pool!Return
    <3>5. QED BY <3>3, <3>4
  <2>4. QED BY <1>3, <2>1, <2>2, <2>3 DEF ConsumerNext
<1>4. ASSUME NEW t \in Threads, ThreadNext(t) PROVE [Pool!PoolNext]_(Pool!poolVars)
  <2>1. CASE TimedOut(t)
    BY <2>1, <1>c DEF TimedOut
  <2>2. ASSUME NEW c \in Conds, SpuriousWakeup(t, c)
        PROVE  [Pool!PoolNext]_(Pool!poolVars)
    BY <2>2, <1>c DEF SpuriousWakeup
  <2>3. CASE FifoHalt(t)
    <3>1. Pool!Halt
      BY <2>3 DEF FifoHalt, Pool!Halt, Filling, Reading, Range, Pool!Range
    <3>2. QED BY <3>1
  <2>4. QED BY <1>4, <2>1, <2>2, <2>3 DEF ThreadNext
<1>5. QED BY <1>1, <1>2, <1>3, <1>4 DEF FifoNext

\* fifo.c, with its threads, timeouts and condition variables, does what BufferPool
\* says: buffers leave in the order they came, and none after the halt.
THEOREM FifoImplementsPool == FifoSpec => ImplementsBufferPool
<1>1. IInv /\ [FifoNext]_fifoVars => [Pool!PoolNext]_(Pool!poolVars)
  BY PoolStep
<1>2. QED BY <1>1, PoolInitially, Inductive, PTL
          DEF FifoSpec, ImplementsBufferPool, Pool!PoolSpec

-------------------------------------------------------------------------------
(* The pipeline's invariant                                                   *)

\* What a thread's place in its loop says about the call it is in.
Placed ==
    /\ reader \in {"run", "returned", "halt", "ended"} => pc[Reader] = "idle"
    /\ reader = "acquire" => pc[Reader] = "idle" \/ (source = "file" /\ pc[Reader] = "acquire")
    /\ reader = "fill" => pc[Reader] = "filling"
    /\ reader = "drain" => source = "file" /\ pc[Reader] \in {"idle", "drain"}
    /\ main \in {"loop", "nothing", "stop", "halt", "join", "done", "aborted"} => pc[Main] = "idle"
    /\ main = "dequeue" => pc[Main] = "dequeue"
    /\ main = "process" => pc[Main] = "demodulating"

\* The FIFO, until it is destroyed.
Sound ==
    /\ FifoTypeOK
    /\ main # "done" => IInv
    /\ main = "done" => queue = <<>>

\* What has happened when the threads are where they are.
Ending ==
    /\ exit = 0 <=> stopped = "no"
    /\ exit = 0 => ~halted
    /\ main \in {"stop", "halt", "join", "done", "aborted"} => exit # 0
    /\ main \in {"join", "done"} => halted
    /\ reader \in {"halt", "ended"} => exit # 0
    /\ watchdog = 0 => exit # 0 /\ main \notin {"dequeue", "nothing", "process"}
    /\ stopped = "reader" => reader \in {"halt", "ended"}
    /\ source = "callback" /\ reader \in {"acquire", "fill"} => next <= MaxBlocks
    /\ source = "file" /\ eof => reader \notin {"acquire", "fill"}

IsBlock(b) == data[b].samples # NoSamples
Block(b) == data[b].samples

\* The block about to come, those dropped right before it, and what the FIFO has kept
\* for its overlap region.
Numbered ==
    /\ next \in 1 .. MaxBlocks + 1
    /\ lost \subseteq 1 .. next - 1
    /\ dropped \in 0 .. next - 1
    /\ next - dropped .. next - 1 \subseteq lost
    /\ next - dropped - 1 \notin lost
    /\ ~halted /\ dropped = 0 => overlap_buffer = next - 1

\* Demodulated blocks, the one being demodulated and the queued ones follow one another.
Ordered ==
    /\ \A b \in Queued \cup Reading : IsBlock(b) => Block(b) < next /\ Block(b) \notin lost
    /\ \A i, j \in 1 .. Len(queue) :
           i < j /\ IsBlock(queue[i]) /\ IsBlock(queue[j]) => Block(queue[i]) < Block(queue[j])
    /\ \A b \in Reading, q \in Queued : IsBlock(b) /\ IsBlock(q) => Block(b) < Block(q)
    /\ \A i \in 1 .. Len(decoded) :
           /\ decoded[i] < next /\ decoded[i] \notin lost
           /\ \A b \in Queued \cup Reading : IsBlock(b) => decoded[i] < Block(b)
    /\ \A i \in 1 .. Len(decoded) - 1 : decoded[i] < decoded[i + 1]

\* How many blocks are being demodulated, and queued.
Busy == IF held[Main] # None /\ IsBlock(held[Main]) THEN 1 ELSE 0
Waiting == IF queue # <<>> /\ ~IsBlock(queue[Len(queue)]) THEN Len(queue) - 1 ELSE Len(queue)

\* No block is missing, and a buffer without one comes last.
Complete ==
    /\ lost = {} /\ dropped = 0
    /\ \A i \in 1 .. Len(decoded) : decoded[i] = i
    /\ \A i \in 1 .. Len(queue) :
           \/ IsBlock(queue[i]) /\ Block(queue[i]) = Len(decoded) + Busy + i
           \/ ~IsBlock(queue[i]) /\ i = Len(queue) /\ eof
    /\ held[Main] # None =>
           \/ IsBlock(held[Main]) /\ Block(held[Main]) = Len(decoded) + 1
           \/ ~IsBlock(held[Main]) /\ queue = <<>> /\ eof
    /\ ~halted => next = Len(decoded) + Busy + Waiting + 1

Whole == source = "file" => Complete

\* A file's reader that returns by itself leaves nothing behind.
Drained ==
    source = "file" =>
        /\ exit = 0 /\ reader = "returned" => queue = <<>>
        /\ stopped = "reader" => queue = <<>> /\ next = Len(decoded) + Busy + 1

PipelineInv ==
    /\ PipelineTypeOK
    /\ Placed
    /\ Sound
    /\ Ending
    /\ Numbered
    /\ StreamContinuity
    /\ Ordered
    /\ Whole
    /\ Drained
    /\ DestroyIsSafe
-------------------------------------------------------------------------------
(* The FIFO inside the pipeline                                               *)

\* The two threads.
LEMMA TwoThreads ==
    /\ Reader # Main
    /\ Producers = {Reader} /\ Consumers = {Main} /\ Threads = {Reader, Main}
    /\ Reader \in Threads /\ Main \in Threads
BY PipelineAssumption, FifoAssumption DEF Threads

\* Whatever the reader thread does, to the FIFO it is a step of the FIFO or none at all.
LEMMA ReaderFifoStep ==
    ASSUME PipelineInv, ReaderNext
    PROVE  [FifoNext]_fifoVars
<1> USE TwoThreads
<1>a. UNCHANGED fifoVars => [FifoNext]_fifoVars
  OBVIOUS
<1>b. ProducerNext(Reader) \/ TimedOut(Reader) \/ FifoHalt(Reader) => FifoNext
  BY DEF FifoNext, ThreadNext
<1>1. CASE CallbackEnter \/ CallbackDrop \/ CallbackCancelled \/ FileLoop \/ ReaderReturned
  BY <1>1, <1>a DEF CallbackEnter, CallbackDrop, CallbackCancelled, FileLoop, ReaderReturned
<1>2. CASE CallbackAcquire
  BY <1>2, <1>b DEF CallbackAcquire, ProducerNext
<1>3. CASE CallbackEnqueue
  <2>1. next \in Blocks /\ (dropped > 0) \in BOOLEAN
    BY <1>3, PipelineAssumption DEF CallbackEnqueue, PipelineInv, Ending, Numbered
  <2>2. QED BY <1>3, <1>b, <2>1 DEF CallbackEnqueue, ProducerNext
<1>4. CASE FileAcquire
  BY <1>4, <1>a, <1>b DEF FileAcquire, ProducerNext
<1>5. CASE FileRead
  <2>1. next <= MaxBlocks => next \in Blocks
    BY PipelineAssumption DEF PipelineInv, Numbered
  <2>2. QED BY <1>5, <1>b, <2>1 DEF FileRead, ProducerNext
<1>6. CASE FileDrain
  BY <1>6, <1>a, <1>b DEF FileDrain, ProducerNext
<1>7. CASE ReaderHalt
  BY <1>7, <1>b DEF ReaderHalt
<1>8. QED BY <1>1, <1>2, <1>3, <1>4, <1>5, <1>6, <1>7 DEF ReaderNext

\* So is whatever main() does before it destroys the FIFO.
LEMMA MainFifoStep ==
    ASSUME PipelineInv, MainNext, main' # "done"
    PROVE  [FifoNext]_fifoVars
<1> USE TwoThreads
<1>a. UNCHANGED fifoVars => [FifoNext]_fifoVars
  OBVIOUS
<1>b. ConsumerNext(Main) \/ TimedOut(Main) \/ FifoHalt(Main) => FifoNext
  BY DEF FifoNext, ThreadNext
<1>1. CASE MainDequeue
  BY <1>1, <1>a, <1>b DEF MainDequeue, ConsumerNext
<1>2. CASE MainWaiting
  BY <1>2, <1>a, <1>b DEF MainWaiting, ConsumerNext
<1>3. CASE MainProcess
  BY <1>3, <1>b DEF MainProcess, ConsumerNext
<1>4. CASE MainNothing \/ MainLeavesLoop \/ MainStop
  BY <1>4, <1>a DEF MainNothing, MainLeavesLoop, MainStop
<1>5. CASE MainHalt
  BY <1>5, <1>b DEF MainHalt
<1>6. CASE MainDestroy
  BY <1>6 DEF MainDestroy
<1>7. QED BY <1>1, <1>2, <1>3, <1>4, <1>5, <1>6 DEF MainNext

\* Until the FIFO is destroyed, all that happens to it are Fifo's actions.
LEMMA FifoStep ==
    ASSUME PipelineInv, [Next]_vars, main' # "done"
    PROVE  [FifoNext]_fifoVars
<1> USE TwoThreads
<1>1. CASE ReaderNext \/ MainNext
  BY <1>1, ReaderFifoStep, MainFifoStep
<1>2. CASE DeviceLost \/ MainAbort \/ Interrupt \/ UNCHANGED vars
  BY <1>2 DEF DeviceLost, MainAbort, Interrupt, vars
<1>3. CASE Spurious
  BY <1>3 DEF Spurious, FifoNext, ThreadNext
<1>4. QED BY <1>1, <1>2, <1>3 DEF Next

\* After that nothing happens but a wakeup.
LEMMA AfterDestroy ==
    ASSUME PipelineInv, [Next]_vars, main = "done"
    PROVE  /\ UNCHANGED <<freelist, queue, halted, overlap_buffer, data, pc, held>>
           /\ UNCHANGED <<source, exit, reader, main, watchdog, cancelled, streamVars, statVars, stopped>>
           /\ waiters' = waiters \/ \E t \in Threads, c \in Conds : SpuriousWakeup(t, c)
<1>1. reader = "ended"
  BY DEF PipelineInv, DestroyIsSafe
<1>2. ~ReaderNext /\ ~DeviceLost
  BY <1>1 DEF ReaderNext, CallbackEnter, CallbackDrop, CallbackAcquire, CallbackEnqueue, CallbackCancelled,
       FileLoop, FileAcquire, FileRead, FileDrain, ReaderReturned, ReaderHalt, DeviceLost
<1>3. ~MainNext /\ ~MainAbort /\ ~Interrupt
  BY DEF MainNext, MainDequeue, MainWaiting, MainProcess, MainNothing, MainLeavesLoop, MainStop, MainHalt,
       MainDestroy, MainAbort, Interrupt
<1>4. CASE UNCHANGED vars
  BY <1>4 DEF vars, fifoVars, streamVars, statVars
<1>5. CASE Spurious
  BY <1>5 DEF Spurious, SpuriousWakeup, mainOnly, streamVars, statVars
<1>6. QED BY <1>2, <1>3, <1>4, <1>5 DEF Next

\* fifo_destroy.
LEMMA Destroyed ==
    ASSUME PipelineInv, [Next]_vars, main # "done", main' = "done"
    PROVE  MainDestroy
<1>1. CASE ReaderNext \/ DeviceLost
  BY <1>1 DEF ReaderNext, CallbackEnter, CallbackDrop, CallbackAcquire, CallbackEnqueue, CallbackCancelled,
       FileLoop, FileAcquire, FileRead, FileDrain, ReaderReturned, ReaderHalt, DeviceLost, readerOnly
<1>2. CASE MainNext \/ MainAbort
  BY <1>2 DEF MainNext, MainDequeue, MainWaiting, MainProcess, MainNothing, MainLeavesLoop, MainStop,
       MainHalt, MainAbort
<1>3. CASE Interrupt \/ Spurious \/ UNCHANGED vars
  BY <1>3 DEF Interrupt, Spurious, vars
<1>4. QED BY <1>1, <1>2, <1>3 DEF Next

\* The FIFO's invariant holds until then.
LEMMA SoundStep ==
    ASSUME PipelineInv, [Next]_vars
    PROVE  Sound'
<1> USE DEF PipelineInv, Sound
<1>1. CASE main' # "done"
  <2>1. main # "done"
    BY <1>1, AfterDestroy
  <2>2. IInv'
    BY <1>1, <2>1, FifoStep, IInvStep
  <2>3. QED BY <1>1, <2>2 DEF IInv
<1>2. CASE main' = "done" /\ main # "done"
  <2>1. freelist' = {} /\ queue' = <<>> /\ UNCHANGED <<halted, overlap_buffer, data, pc, held, waiters>>
    BY <1>2, Destroyed DEF MainDestroy
  <2>2. {} \subseteq Buffers /\ <<>> \in Seq(Buffers)
    OBVIOUS
  <2>3. FifoTypeOK'
    BY <2>1, <2>2 DEF FifoTypeOK
  <2>4. QED BY <1>2, <2>1, <2>3
<1>3. CASE main' = "done" /\ main = "done"
  BY <1>3, AfterDestroy DEF FifoTypeOK, SpuriousWakeup
<1>4. QED BY <1>1, <1>2, <1>3

-------------------------------------------------------------------------------
(* What a step does to the stream                                             *)

\* Who has which buffer.
LEMMA Possessions ==
    ASSUME PipelineInv
    PROVE  /\ Reading = {held[Main]} \ {None}
           /\ Queued \subseteq Buffers /\ Reading \subseteq Buffers
           /\ main # "done" /\ reader = "fill" =>
                  held[Reader] \in Buffers /\ held[Reader] \notin Queued /\ held[Reader] \notin Reading
           /\ main # "done" => \A b \in freelist : b \notin Queued /\ b \notin Reading
           /\ main = "process" => held[Main] \in Buffers /\ held[Main] \notin Queued
           /\ main # "process" => held[Main] = None
<1> USE TwoThreads
<1>1. Reading = {held[Main]} \ {None}
  BY DEF Reading
<1>2. FifoTypeOK
  BY DEF PipelineInv, Sound
<1>3. Queued \subseteq Buffers
  BY <1>2, RangeType DEF Queued, FifoTypeOK
<1>4. Reading \subseteq Buffers
  BY <1>1, <1>2 DEF FifoTypeOK
<1>5. CASE main # "done"
  <2>1. BufferConservation
    BY <1>5 DEF PipelineInv, Sound, IInv
  <2>2. \A t \in Threads : held[t] # None => held[t] \in Held /\ held[t] \in Buffers
    BY <1>2 DEF Held, FifoTypeOK
  <2>3. reader = "fill" =>
            held[Reader] \in Buffers /\ held[Reader] \notin Queued /\ held[Reader] \notin Reading
    <3>1. SUFFICES ASSUME reader = "fill" PROVE held[Reader] # None
      BY <1>1, <2>1, <2>2 DEF BufferConservation
    <3>2. QED BY <3>1, <2>1 DEF BufferConservation, PipelineInv, Placed
  <2>4. \A b \in freelist : b \notin Queued /\ b \notin Reading
    BY <1>1, <2>1, <2>2 DEF BufferConservation
  <2>5. main = "process" <=> pc[Main] = "demodulating"
    BY DEF PipelineInv, Placed, PipelineTypeOK
  <2>6. main = "process" => held[Main] \in Buffers /\ held[Main] \notin Queued
    BY <2>1, <2>2, <2>5 DEF BufferConservation
  <2>7. main # "process" => held[Main] = None
    <3>1. main # "process" => pc[Main] \notin {"filling", "demodulating"}
      BY DEF PipelineInv, Placed, PipelineTypeOK
    <3>2. QED BY <2>1, <3>1 DEF BufferConservation
  <2>8. QED BY <1>1, <1>3, <1>4, <2>3, <2>4, <2>6, <2>7
<1>6. CASE main = "done"
  <2>1. held[Main] = None
    BY <1>6 DEF PipelineInv, DestroyIsSafe, Held
  <2>2. QED BY <1>1, <1>3, <1>4, <1>6, <2>1
<1>7. QED BY <1>5, <1>6

\* The buffers whose content still counts keep it.
Kept == \A b \in Queued \cup Reading : data'[b] = data[b] /\ buf_dropped'[b] = buf_dropped[b]

rest == <<overlap_buffer, halted, decoded>>

Quiet ==      \* nothing
    /\ UNCHANGED <<next, dropped, lost, queue, eof, held[Main], rest>>
    /\ Kept

Drop ==       \* a block is lost
    /\ source = "callback" /\ reader = "acquire" /\ next <= MaxBlocks
    /\ next' = next + 1 /\ dropped' = dropped + 1 /\ lost' = lost \cup {next}
    /\ UNCHANGED <<queue, eof, held[Main], rest>>
    /\ Kept

PutBlock ==   \* a block is queued
    /\ ~halted /\ reader = "fill" /\ next <= MaxBlocks
    /\ source = "file" => ~eof
    /\ eof => eof'
    /\ next' = next + 1 /\ dropped' = 0
    /\ \E b \in Buffers \ (Queued \cup Reading) :
           /\ queue' = Append(queue, b)
           /\ data' = [data EXCEPT ![b] = Filled(next, dropped > 0)]
           /\ dropped > 0 => buf_dropped'[b] = dropped
    /\ overlap_buffer' = next
    /\ UNCHANGED <<lost, held[Main], halted, decoded>>
    /\ Kept

PutNothing == \* the end of a file is queued
    /\ ~halted /\ reader = "fill"
    /\ source = "file" /\ ~eof /\ eof'
    /\ \E b \in Buffers \ (Queued \cup Reading) :
           /\ queue' = Append(queue, b)
           /\ data' = [data EXCEPT ![b] = Filled(NoSamples, FALSE)]
    /\ UNCHANGED <<next, dropped, lost, held[Main], rest>>
    /\ Kept

Discard ==    \* the FIFO was halted while a buffer was filled
    /\ halted /\ reader = "fill"
    /\ \/ next' = next /\ dropped' = dropped
       \/ next <= MaxBlocks /\ next' = next + 1 /\ dropped' = 0
    /\ eof => eof'
    /\ UNCHANGED <<lost, queue, held[Main], rest>>
    /\ Kept

Get ==        \* a buffer is taken out
    /\ ~halted /\ queue # <<>> /\ held[Main] = None
    /\ queue' = Tail(queue) /\ held'[Main] = Head(queue)
    /\ UNCHANGED <<next, dropped, lost, eof, rest, data, buf_dropped>>

Process ==    \* a buffer is demodulated
    /\ held[Main] \in Buffers /\ held'[Main] = None
    /\ decoded' = IF IsBlock(held[Main]) THEN Append(decoded, Block(held[Main])) ELSE decoded
    /\ UNCHANGED <<next, dropped, lost, eof, queue, overlap_buffer, halted, data, buf_dropped>>

Clear ==      \* the queue is thrown away
    /\ queue' = <<>> /\ halted'
    /\ UNCHANGED <<next, dropped, lost, eof, held[Main], overlap_buffer, decoded, data, buf_dropped>>

Kinds == Quiet \/ Drop \/ PutBlock \/ PutNothing \/ Discard \/ Get \/ Process \/ Clear

\* fifo_halt.
LEMMA HaltClears ==
    ASSUME NEW t, FifoHalt(t), UNCHANGED streamVars, UNCHANGED decoded
    PROVE  Clear
BY DEF FifoHalt, Clear, streamVars

\* Calls that leave buffers where they are.
LEMMA NothingMoves ==
    ASSUME UNCHANGED <<queue, held, overlap_buffer, halted, data>>, UNCHANGED streamVars, UNCHANGED decoded
    PROVE  Quiet
BY DEF Quiet, Kept, streamVars, rest

\* A file's stream has lost nothing.
LEMMA FileFlag ==
    ASSUME PipelineInv, source = "file"
    PROVE  dropped = 0 /\ (dropped > 0) = FALSE
BY DEF PipelineInv, Whole, Complete

\* Every step of the reader thread is of one of these kinds.
LEMMA ReaderKinds ==
    ASSUME PipelineInv, ReaderNext, main # "done"
    PROVE  Kinds
<1> USE TwoThreads, Possessions
<1>t. FifoTypeOK
  BY DEF PipelineInv, Sound
<1>1. CASE CallbackEnter \/ CallbackCancelled \/ FileLoop \/ ReaderReturned
  <2>1. UNCHANGED <<fifoVars, streamVars, decoded>>
    BY <1>1 DEF CallbackEnter, CallbackCancelled, FileLoop, ReaderReturned, readerOnly, statVars
  <2>2. Quiet
    BY <2>1, NothingMoves DEF fifoVars
  <2>3. QED BY <2>2 DEF Kinds
<1>2. CASE CallbackDrop
  <2>1. next <= MaxBlocks
    BY <1>2 DEF CallbackDrop, PipelineInv, Ending
  <2>2. Drop
    BY <1>2, <2>1 DEF CallbackDrop, Drop, fifoVars, readerOnly, statVars, Kept, rest
  <2>3. QED BY <2>2 DEF Kinds
<1>3. ASSUME NEW b \in Buffers, AcquireTake(Reader, b), UNCHANGED <<streamVars, decoded>>
      PROVE  Quiet
  <2>1. held'[Main] = held[Main]
    BY <1>3, <1>t DEF AcquireTake, FifoTypeOK
  <2>2. Kept
    BY <1>3, <1>t DEF AcquireTake, FifoTypeOK, Kept, streamVars
  <2>3. QED BY <1>3, <2>1, <2>2 DEF AcquireTake, Quiet, streamVars, rest
<1>4. CASE CallbackAcquire
  <2>1. Quiet
    BY <1>4, <1>3 DEF CallbackAcquire, readerOnly, statVars
  <2>2. QED BY <2>1 DEF Kinds
<1>5. ASSUME NEW s \in Blocks \cup {NoSamples}, NEW d \in BOOLEAN, Enqueue(Reader, s, d), reader = "fill",
             UNCHANGED buf_dropped \/ buf_dropped' = [buf_dropped EXCEPT ![held[Reader]] = dropped]
      PROVE  /\ held[Reader] \in Buffers \ (Queued \cup Reading)
             /\ queue' = Append(queue, held[Reader])
             /\ data' = [data EXCEPT ![held[Reader]] = Filled(s, d)]
             /\ overlap_buffer' = TailOf(Filled(s, d))
             /\ UNCHANGED <<held[Main], halted>> /\ ~halted
             /\ Kept
  <2>1. held[Reader] \in Buffers \ (Queued \cup Reading)
    BY <1>5
  <2>2. held'[Main] = held[Main]
    BY <1>5, <1>t DEF Enqueue, FifoTypeOK
  <2>3. Kept
    BY <1>5, <1>t, <2>1 DEF Enqueue, FifoTypeOK, Kept, PipelineInv, PipelineTypeOK
  <2>4. QED BY <1>5, <2>1, <2>2, <2>3 DEF Enqueue
<1>6. ASSUME EnqueueHalted(Reader), reader = "fill",
             UNCHANGED buf_dropped \/ buf_dropped' = [buf_dropped EXCEPT ![held[Reader]] = dropped]
      PROVE  halted /\ UNCHANGED <<queue, overlap_buffer, halted, held[Main]>> /\ Kept
  <2>1. held[Reader] \in Buffers \ (Queued \cup Reading)
    BY <1>6
  <2>2. held'[Main] = held[Main]
    BY <1>6, <1>t DEF EnqueueHalted, FifoTypeOK
  <2>3. Kept
    BY <1>6, <2>1 DEF EnqueueHalted, Kept, PipelineInv, PipelineTypeOK
  <2>4. QED BY <1>6, <2>2, <2>3 DEF EnqueueHalted
<1>7. CASE CallbackEnqueue
  <2>0. next <= MaxBlocks /\ next \in Blocks /\ next # NoSamples
    BY <1>7, PipelineAssumption, FifoAssumption DEF CallbackEnqueue, PipelineInv, Ending, Numbered
  <2>a. source = "callback" /\ reader = "fill" /\ UNCHANGED <<eof, lost, decoded>>
        /\ next' = next + 1 /\ dropped' = 0
        /\ buf_dropped' = IF dropped > 0 THEN [buf_dropped EXCEPT ![held[Reader]] = dropped] ELSE buf_dropped
    BY <1>7 DEF CallbackEnqueue, readerOnly, statVars
  <2>1. CASE EnqueueHalted(Reader)
    <3>1. Discard
      BY <1>6, <2>0, <2>1, <2>a DEF Discard, rest
    <3>2. QED BY <3>1 DEF Kinds
  <2>2. CASE Enqueue(Reader, next, dropped > 0)
    <3>1. (dropped > 0) \in BOOLEAN
      OBVIOUS
    <3>2. /\ held[Reader] \in Buffers \ (Queued \cup Reading)
          /\ queue' = Append(queue, held[Reader])
          /\ data' = [data EXCEPT ![held[Reader]] = Filled(next, dropped > 0)]
          /\ overlap_buffer' = TailOf(Filled(next, dropped > 0))
          /\ UNCHANGED <<held[Main], halted>> /\ ~halted
          /\ Kept
      BY <1>5, <2>0, <2>2, <2>a, <3>1
    <3>3. overlap_buffer' = next
      BY <2>0, <3>2 DEF TailOf, Filled
    <3>4. dropped > 0 => buf_dropped'[held[Reader]] = dropped
      BY <2>a, <3>2 DEF PipelineInv, PipelineTypeOK
    <3>5. PutBlock
      BY <2>0, <2>a, <3>2, <3>3, <3>4 DEF PutBlock
    <3>6. QED BY <3>5 DEF Kinds
  <2>3. QED BY <1>7, <2>1, <2>2 DEF CallbackEnqueue
<1>8. CASE FileAcquire
  <2>a. UNCHANGED <<streamVars, decoded>>
    BY <1>8 DEF FileAcquire, readerOnly, statVars
  <2>1. CASE \E b \in Buffers : AcquireTake(Reader, b)
    BY <1>3, <2>1, <2>a DEF Kinds
  <2>2. CASE AcquireWait(Reader) \/ AcquireHalted(Reader) \/ TimedOut(Reader) \/ UNCHANGED fifoVars
    <3>1. UNCHANGED <<queue, held, overlap_buffer, halted, data>>
      BY <2>2 DEF AcquireWait, AcquireHalted, TimedOut, fifoVars
    <3>2. QED BY <2>a, <3>1, NothingMoves DEF Kinds
  <2>3. QED BY <1>8, <2>1, <2>2 DEF FileAcquire
<1>9. CASE FileRead
  <2>a. source = "file" /\ reader = "fill" /\ UNCHANGED <<dropped, buf_dropped, lost, decoded>> /\ ~eof
    BY <1>9 DEF FileRead, readerOnly, statVars, PipelineInv, Ending
  <2>b. dropped = 0 /\ (dropped > 0) = FALSE
    BY <2>a, FileFlag
  <2>1. CASE next <= MaxBlocks /\ next' = next + 1 /\ EnqueueHalted(Reader)
    <3>1. Discard
      BY <1>6, <2>1, <2>a, <2>b DEF Discard, rest
    <3>2. QED BY <3>1 DEF Kinds
  <2>2. CASE next <= MaxBlocks /\ next' = next + 1 /\ Enqueue(Reader, next, FALSE)
    <3>0. next \in Blocks /\ next # NoSamples
      BY <2>2, PipelineAssumption, FifoAssumption DEF PipelineInv, Numbered
    <3>1. /\ held[Reader] \in Buffers \ (Queued \cup Reading)
          /\ queue' = Append(queue, held[Reader])
          /\ data' = [data EXCEPT ![held[Reader]] = Filled(next, FALSE)]
          /\ overlap_buffer' = TailOf(Filled(next, FALSE))
          /\ UNCHANGED <<held[Main], halted>> /\ ~halted
          /\ Kept
      BY <1>5, <2>2, <2>a, <3>0
    <3>2. overlap_buffer' = next
      BY <3>0, <3>1 DEF TailOf, Filled
    <3>3. Filled(next, FALSE) = Filled(next, dropped > 0)
      BY <2>b
    <3>4. PutBlock
      BY <2>2, <2>a, <2>b, <3>1, <3>2, <3>3 DEF PutBlock
    <3>5. QED BY <3>4 DEF Kinds
  <2>3. CASE eof' /\ next' = next /\ EnqueueHalted(Reader)
    <3>1. Discard
      BY <1>6, <2>3, <2>a DEF Discard, rest
    <3>2. QED BY <3>1 DEF Kinds
  <2>4. CASE eof' /\ next' = next /\ Enqueue(Reader, NoSamples, FALSE)
    <3>1. /\ held[Reader] \in Buffers \ (Queued \cup Reading)
          /\ queue' = Append(queue, held[Reader])
          /\ data' = [data EXCEPT ![held[Reader]] = Filled(NoSamples, FALSE)]
          /\ overlap_buffer' = TailOf(Filled(NoSamples, FALSE))
          /\ UNCHANGED <<held[Main], halted>> /\ ~halted
          /\ Kept
      BY <1>5, <2>4, <2>a
    <3>2. overlap_buffer' = overlap_buffer
      BY <3>1 DEF TailOf, Filled
    <3>3. PutNothing
      BY <2>4, <2>a, <3>1, <3>2 DEF PutNothing, rest
    <3>4. QED BY <3>3 DEF Kinds
  <2>5. QED BY <1>9, <2>1, <2>2, <2>3, <2>4 DEF FileRead
<1>10. CASE FileDrain
  <2>1. UNCHANGED <<queue, held, overlap_buffer, halted, data>> /\ UNCHANGED streamVars /\ UNCHANGED decoded
    BY <1>10 DEF FileDrain, DrainWait, DrainReturn, fifoVars, readerOnly, statVars
  <2>2. QED BY <2>1, NothingMoves DEF Kinds
<1>11. CASE ReaderHalt
  <2>1. FifoHalt(Reader) /\ UNCHANGED streamVars /\ UNCHANGED decoded
    BY <1>11 DEF ReaderHalt, readerOnly, statVars
  <2>2. QED BY <2>1, HaltClears DEF Kinds
<1>12. QED BY <1>1, <1>2, <1>4, <1>7, <1>8, <1>9, <1>10, <1>11 DEF ReaderNext

\* And of the main thread.
LEMMA MainKinds ==
    ASSUME PipelineInv, MainNext, main # "done"
    PROVE  Kinds
<1> USE TwoThreads, Possessions
<1>t. FifoTypeOK
  BY DEF PipelineInv, Sound
<1>1. CASE MainNothing \/ MainLeavesLoop \/ MainStop
  <2>1. UNCHANGED <<fifoVars, streamVars, decoded>>
    BY <1>1 DEF MainNothing, MainLeavesLoop, MainStop, mainOnly, statVars
  <2>2. Quiet
    BY <2>1, NothingMoves DEF fifoVars
  <2>3. QED BY <2>2 DEF Kinds
<1>2. ASSUME DequeueTake(Main), UNCHANGED streamVars, UNCHANGED decoded, main # "process" PROVE Get
  <2>1. held'[Main] = Head(queue)
    BY <1>2, <1>t DEF DequeueTake, FifoTypeOK
  <2>2. held[Main] = None
    BY <1>2
  <2>3. QED BY <1>2, <2>1, <2>2 DEF DequeueTake, Get, streamVars, rest
<1>3. ASSUME DequeueWait(Main) \/ DequeueHalted(Main) \/ TimedOut(Main) \/ UNCHANGED fifoVars,
             UNCHANGED streamVars, UNCHANGED decoded
      PROVE  Quiet
  <2>1. UNCHANGED <<queue, held, overlap_buffer, halted, data>>
    BY <1>3 DEF DequeueWait, DequeueHalted, TimedOut, fifoVars
  <2>2. QED BY <1>3, <2>1, NothingMoves
<1>4. CASE MainDequeue
  BY <1>2, <1>3, <1>4 DEF MainDequeue, mainOnly, statVars, Kinds
<1>5. CASE MainWaiting
  BY <1>2, <1>3, <1>5 DEF MainWaiting, mainOnly, statVars, Kinds
<1>6. CASE MainProcess
  <2>1. held[Main] \in Buffers
    BY <1>6 DEF MainProcess
  <2>2. held'[Main] = None
    BY <1>6, <1>t DEF MainProcess, Release, FifoTypeOK
  <2>3. Process
    BY <1>6, <2>1, <2>2 DEF MainProcess, Release, Process, mainOnly, streamVars, IsBlock, Block
  <2>4. QED BY <2>3 DEF Kinds
<1>7. CASE MainHalt
  <2>1. FifoHalt(Main) /\ UNCHANGED streamVars /\ UNCHANGED decoded
    BY <1>7 DEF MainHalt, mainOnly, statVars
  <2>2. QED BY <2>1, HaltClears DEF Kinds
<1>8. CASE MainDestroy
  <2>1. halted
    BY <1>8 DEF MainDestroy, PipelineInv, Ending
  <2>2. Clear
    BY <1>8, <2>1 DEF MainDestroy, Clear, mainOnly, streamVars, statVars
  <2>3. QED BY <2>2 DEF Kinds
<1>9. QED BY <1>1, <1>4, <1>5, <1>6, <1>7, <1>8 DEF MainNext

\* Every step is.
LEMMA StepKinds ==
    ASSUME PipelineInv, [Next]_vars
    PROVE  Kinds /\ source' = source
<1>1. source' = source
  <2>1. CASE ReaderNext
    BY <2>1 DEF ReaderNext, CallbackEnter, CallbackDrop, CallbackAcquire, CallbackEnqueue,
       CallbackCancelled, FileLoop, FileAcquire, FileRead, FileDrain, ReaderReturned, ReaderHalt, readerOnly
  <2>2. CASE MainNext
    BY <2>2 DEF MainNext, MainDequeue, MainWaiting, MainProcess, MainNothing, MainLeavesLoop, MainStop,
       MainHalt, MainDestroy, mainOnly
  <2>3. CASE DeviceLost \/ MainAbort \/ Interrupt \/ Spurious \/ UNCHANGED vars
    BY <2>3 DEF DeviceLost, MainAbort, Interrupt, Spurious, vars, readerOnly, mainOnly
  <2>4. QED BY <2>1, <2>2, <2>3 DEF Next
<1>2. Kinds
  <2>1. CASE main = "done"
    <3>1. UNCHANGED <<queue, held, overlap_buffer, halted, data>> /\ UNCHANGED streamVars /\ UNCHANGED decoded
      BY <2>1, AfterDestroy DEF statVars
    <3>2. QED BY <3>1, NothingMoves DEF Kinds
  <2>2. CASE main # "done" /\ (ReaderNext \/ MainNext)
    BY <2>2, ReaderKinds, MainKinds
  <2>3. CASE DeviceLost \/ MainAbort \/ Interrupt \/ Spurious \/ UNCHANGED vars
    <3>1. UNCHANGED <<queue, held, overlap_buffer, halted, data>> /\ UNCHANGED streamVars /\ UNCHANGED decoded
      BY <2>3 DEF DeviceLost, MainAbort, Interrupt, Spurious, SpuriousWakeup, vars, fifoVars, readerOnly,
         mainOnly, statVars
    <3>2. QED BY <3>1, NothingMoves DEF Kinds
  <2>4. QED BY <2>1, <2>2, <2>3 DEF Next
<1>3. QED BY <1>1, <1>2

-------------------------------------------------------------------------------
(* The stream's invariants                                                    *)

\* The types of what they speak of.
LEMMA Types ==
    ASSUME PipelineInv
    PROVE  /\ queue \in Seq(Buffers) /\ decoded \in Seq(Blocks)
           /\ next \in 1 .. MaxBlocks + 1 /\ dropped \in 0 .. MaxBlocks /\ MaxBlocks \in Nat
           /\ lost \subseteq Blocks /\ Blocks = 1 .. MaxBlocks
           /\ buf_dropped \in [Buffers -> 0 .. MaxBlocks]
           /\ data \in [Buffers -> Content]
           /\ \A b \in Buffers : IsBlock(b) => Block(b) \in 1 .. MaxBlocks
           /\ NoSamples \notin 1 .. MaxBlocks
<1>1. /\ queue \in Seq(Buffers) /\ decoded \in Seq(Blocks)
      /\ next \in 1 .. MaxBlocks + 1 /\ dropped \in 0 .. MaxBlocks
      /\ lost \subseteq Blocks
      /\ buf_dropped \in [Buffers -> 0 .. MaxBlocks]
      /\ data \in [Buffers -> Content]
  BY DEF PipelineInv, PipelineTypeOK, Sound, FifoTypeOK
<1>2. MaxBlocks \in Nat /\ Blocks = 1 .. MaxBlocks /\ NoSamples \notin Blocks
  BY PipelineAssumption, FifoAssumption
<1>3. \A b \in Buffers : IsBlock(b) => Block(b) \in Blocks
  BY <1>1 DEF IsBlock, Block, Content
<1>4. QED BY <1>1, <1>2, <1>3

\* The step queues nothing.
NoPut == Quiet \/ Drop \/ Discard \/ Get \/ Process \/ Clear

\* Then whoever has a buffer afterwards is one who had it before, and finds it as it was.
LEMMA SeenStays ==
    ASSUME PipelineInv, NoPut
    PROVE  \A b \in Queued' \cup Reading' :
               /\ b \in Queued \cup Reading
               /\ data'[b] = data[b] /\ buf_dropped'[b] = buf_dropped[b]
<1> USE Types, Possessions, TwoThreads
<1>1. Reading' = {held'[Main]} \ {None}
  BY DEF Reading
<1>2. CASE Quiet \/ Drop \/ Discard
  <2>1. Queued' = Queued /\ Reading' = Reading /\ Kept
    BY <1>1, <1>2 DEF Quiet, Drop, Discard, Queued
  <2>2. QED BY <2>1 DEF Kept
<1>3. CASE Get
  <2>1. Queued = {Head(queue)} \cup Queued'
    BY <1>3, RangeHeadTail DEF Get, Queued
  <2>2. QED BY <1>1, <1>3, <2>1 DEF Get
<1>4. CASE Process
  <2>1. Queued' = Queued /\ Reading' = {}
    BY <1>1, <1>4 DEF Process, Queued
  <2>2. QED BY <1>4, <2>1 DEF Process
<1>5. CASE Clear
  <2>1. Queued' = {} /\ Reading' = Reading
    BY <1>1, <1>5, RangeEmpty DEF Clear, Queued
  <2>2. QED BY <1>5, <2>1 DEF Clear
<1>6. QED BY <1>2, <1>3, <1>4, <1>5 DEF NoPut

\* Buffer b is queued, with samples s and the flag.
Put(b, s, flag) ==
    /\ queue' = Append(queue, b)
    /\ data' = [data EXCEPT ![b] = Filled(s, flag)]

\* Then it comes last, and the others are found as they were.
LEMMA PutLast ==
    ASSUME PipelineInv, NEW b \in Buffers \ (Queued \cup Reading), NEW s, NEW flag, Put(b, s, flag),
           UNCHANGED held[Main], Kept
    PROVE  /\ Queued' = Queued \cup {b} /\ Reading' = Reading
           /\ Len(queue') = Len(queue) + 1 /\ queue'[Len(queue) + 1] = b
           /\ \A i \in 1 .. Len(queue) : queue'[i] = queue[i] /\ queue[i] \in Queued /\ queue[i] # b
           /\ data'[b] = Filled(s, flag)
           /\ \A q \in Queued \cup Reading :
                  q # b /\ data'[q] = data[q] /\ buf_dropped'[q] = buf_dropped[q]
<1> USE Types, TwoThreads
<1>1. Queued' = Queued \cup {b}
  BY RangeAppend DEF Queued, Put
<1>2. Reading' = Reading
  BY DEF Reading
<1>3. /\ Len(queue') = Len(queue) + 1 /\ queue'[Len(queue) + 1] = b
      /\ \A i \in 1 .. Len(queue) : queue'[i] = queue[i]
  BY DEF Put
<1>4. \A i \in 1 .. Len(queue) : queue[i] \in Queued
  BY DEF Queued, Range
<1>5. data'[b] = Filled(s, flag)
  BY DEF Put
<1>6. QED BY <1>1, <1>2, <1>3, <1>4, <1>5 DEF Kept

\* Every step keeps count of the blocks.
LEMMA NumberedStep ==
    ASSUME PipelineInv, Kinds
    PROVE  Numbered'
<1> USE Types
<1>0. Numbered
  BY DEF PipelineInv
<1>1. CASE Quiet \/ PutNothing \/ Get \/ Process \/ Clear
  BY <1>0, <1>1 DEF Numbered, Quiet, PutNothing, Get, Process, Clear, rest
<1>2. CASE Drop
  <2>1. lost' \subseteq 1 .. next' - 1
    BY <1>0, <1>2 DEF Numbered, Drop
  <2>2. next' - dropped' .. next' - 1 \subseteq lost'
    BY <1>0, <1>2 DEF Numbered, Drop
  <2>3. next' - dropped' - 1 \notin lost'
    BY <1>0, <1>2 DEF Numbered, Drop
  <2>4. next' \in 1 .. MaxBlocks + 1 /\ dropped' \in 0 .. next' - 1 /\ dropped' # 0
    BY <1>0, <1>2 DEF Numbered, Drop
  <2>5. QED BY <2>1, <2>2, <2>3, <2>4 DEF Numbered
<1>3. CASE PutBlock
  <2>1. next' \in 1 .. MaxBlocks + 1 /\ lost' \subseteq 1 .. next' - 1 /\ next' - 0 - 1 \notin lost'
    BY <1>0, <1>3 DEF Numbered, PutBlock
  <2>2. QED BY <1>3, <2>1 DEF Numbered, PutBlock
<1>4. CASE Discard
  <2>1. CASE next' = next /\ dropped' = dropped
    BY <1>0, <1>4, <2>1 DEF Numbered, Discard, rest
  <2>2. CASE next <= MaxBlocks /\ next' = next + 1 /\ dropped' = 0
    <3>1. next' \in 1 .. MaxBlocks + 1 /\ lost' \subseteq 1 .. next' - 1 /\ next' - 0 - 1 \notin lost'
      BY <1>0, <1>4, <2>2 DEF Numbered, Discard
    <3>2. QED BY <1>4, <2>2, <3>1 DEF Numbered, Discard, rest
  <2>3. QED BY <1>4, <2>1, <2>2 DEF Discard
<1>5. QED BY <1>1, <1>2, <1>3, <1>4 DEF Kinds

\* What StreamContinuity says of a buffer.
Linked(b) ==
    IsBlock(b) =>
        /\ data[b].discontinuous <=> Block(b) - 1 \in lost
        /\ data[b].overlap = IF data[b].discontinuous THEN Zero ELSE Block(b) - 1
        /\ data[b].discontinuous => /\ Block(b) - buf_dropped[b] .. Block(b) - 1 \subseteq lost
                                   /\ Block(b) - buf_dropped[b] - 1 \notin lost

\* StreamContinuity says of every buffer on its way to demodulation that it is Linked.
LEMMA LinkedIsContinuity ==
    /\ StreamContinuity <=> \A b \in Queued \cup Reading : Linked(b)
    /\ StreamContinuity' <=> \A b \in Queued' \cup Reading' : Linked(b)'
BY DEF StreamContinuity, Linked, IsBlock, Block

\* A block dropped later does not touch what is queued before.
LEMMA LinkedStays ==
    ASSUME PipelineInv, NEW b \in Queued \cup Reading, data'[b] = data[b], buf_dropped'[b] = buf_dropped[b],
           lost' = lost \/ lost' = lost \cup {next}
    PROVE  Linked(b)'
<1> USE Types, Possessions
<1>1. b \in Buffers /\ Linked(b)
  BY LinkedIsContinuity DEF PipelineInv
<1>2. IsBlock(b) => Block(b) \in 1 .. next - 1
  BY <1>1 DEF PipelineInv, Ordered
<1>3. SUFFICES ASSUME IsBlock(b), lost' = lost \cup {next} PROVE Linked(b)'
  BY <1>1 DEF Linked, IsBlock, Block
<1>4. buf_dropped[b] \in Nat /\ Block(b) \in Nat
  BY <1>1, <1>3
<1>5. /\ Block(b) - 1 \in lost' <=> Block(b) - 1 \in lost
      /\ Block(b) - buf_dropped[b] - 1 \in lost' <=> Block(b) - buf_dropped[b] - 1 \in lost
  BY <1>2, <1>3, <1>4
<1>6. QED BY <1>1, <1>3, <1>5 DEF Linked, IsBlock, Block

\* Every step leaves the stream continuous.
LEMMA ContinuityStep ==
    ASSUME PipelineInv, Kinds
    PROVE  StreamContinuity'
<1> USE Types, Possessions
<1>1. CASE NoPut
  <2>1. lost' = lost \/ lost' = lost \cup {next}
    BY <1>1 DEF NoPut, Quiet, Drop, Discard, Get, Process, Clear
  <2>2. QED BY <1>1, <2>1, SeenStays, LinkedStays, LinkedIsContinuity
<1>2. CASE PutNothing
  <2>1. PICK b \in Buffers \ (Queued \cup Reading), flag \in BOOLEAN : Put(b, NoSamples, flag)
    BY <1>2 DEF PutNothing, Put
  <2>2. UNCHANGED held[Main] /\ Kept /\ lost' = lost
    BY <1>2 DEF PutNothing
  <2>3. \A q \in Queued \cup Reading : Linked(q)'
    BY <2>1, <2>2, PutLast, LinkedStays
  <2>4. data'[b] = Filled(NoSamples, flag) /\ Queued' = Queued \cup {b} /\ Reading' = Reading
    BY <2>1, <2>2, PutLast
  <2>5. Linked(b)'
    BY <2>4 DEF Linked, IsBlock, Filled
  <2>6. QED BY <2>3, <2>4, <2>5, LinkedIsContinuity
<1>3. CASE PutBlock
  <2>1. PICK b \in Buffers \ (Queued \cup Reading) :
            Put(b, next, dropped > 0) /\ (dropped > 0 => buf_dropped'[b] = dropped)
    BY <1>3 DEF PutBlock, Put
  <2>2. UNCHANGED held[Main] /\ Kept /\ lost' = lost
    BY <1>3 DEF PutBlock
  <2>3. \A q \in Queued \cup Reading : Linked(q)'
    BY <2>1, <2>2, PutLast, LinkedStays
  <2>4. data'[b] = Filled(next, dropped > 0) /\ Queued' = Queued \cup {b} /\ Reading' = Reading
    BY <2>1, <2>2, PutLast
  <2>5. Linked(b)'
    <3>1. Numbered /\ ~halted
      BY <1>3 DEF PipelineInv, PutBlock
    <3>2. CASE dropped > 0
      <4>1. data'[b] = [overlap |-> Zero, samples |-> next, discontinuous |-> TRUE]
        BY <2>4, <3>2 DEF Filled
      <4>2. next - 1 \in lost
        BY <3>1, <3>2 DEF Numbered
      <4>3. buf_dropped'[b] = dropped
        BY <2>1, <3>2
      <4>4. QED BY <2>2, <3>1, <4>1, <4>2, <4>3 DEF Linked, IsBlock, Block, Numbered
    <3>3. CASE dropped = 0
      <4>0. ~(dropped > 0)
        BY <3>3
      <4>1. data'[b] = [overlap |-> overlap_buffer, samples |-> next, discontinuous |-> FALSE]
        <5>1. (dropped > 0) = FALSE
          BY <4>0
        <5>2. Filled(next, dropped > 0) = Filled(next, FALSE)
          BY <5>1
        <5>3. QED BY <2>4, <5>2 DEF Filled
      <4>2. next - 1 \notin lost /\ overlap_buffer = next - 1
        BY <3>1, <3>3 DEF Numbered
      <4>3. QED BY <2>2, <4>1, <4>2 DEF Linked, IsBlock, Block
    <3>4. QED BY <3>2, <3>3
  <2>6. QED BY <2>3, <2>4, <2>5, LinkedIsContinuity
<1>4. QED BY <1>1, <1>2, <1>3 DEF Kinds, NoPut

-------------------------------------------------------------------------------
(* The order of the stream                                                    *)

\* The queue's places hold the queued buffers.
LEMMA Places ==
    ASSUME PipelineInv
    PROVE  /\ Len(queue) \in Nat /\ Len(decoded) \in Nat
           /\ \A i \in 1 .. Len(queue) : queue[i] \in Queued /\ queue[i] \in Buffers
           /\ \A i \in 1 .. Len(decoded) : decoded[i] \in Int
           /\ \A b \in Queued \cup Reading : IsBlock(b) => Block(b) \in Int
           /\ next \in Int
<1>1. queue \in Seq(Buffers) /\ decoded \in Seq(Blocks)
  BY Types
<1>2. \A i \in 1 .. Len(queue) : queue[i] \in Queued /\ queue[i] \in Buffers
  BY <1>1 DEF Queued, Range
<1>3. \A i \in 1 .. Len(decoded) : decoded[i] \in Int
  <2>1. \A i \in 1 .. Len(decoded) : decoded[i] \in Blocks
    BY <1>1
  <2>2. QED BY <2>1, Types
<1>4. \A b \in Queued \cup Reading : IsBlock(b) => Block(b) \in Int
  BY Types, Possessions
<1>5. next \in Int
  BY Types
<1>6. QED BY <1>1, <1>2, <1>3, <1>4, <1>5

\* Steps that leave the queue and what was demodulated, or empty the queue.
LEMMA OrderedStays ==
    ASSUME PipelineInv, Quiet \/ Drop \/ Discard \/ Clear
    PROVE  Ordered'
<1> USE Places
<1>0. Ordered /\ lost \subseteq 1 .. next - 1
  BY DEF PipelineInv, Numbered
<1>1. /\ decoded' = decoded
      /\ next' \in Int /\ next' >= next
      /\ lost' = lost \/ lost' = lost \cup {next}
  BY DEF Quiet, Drop, Discard, Clear, rest
<1>a. \A k \in Int : k < next /\ k \notin lost => k < next' /\ k \notin lost'
  BY <1>1
<1>2. \A b \in Queued' \cup Reading' : b \in Queued \cup Reading /\ data'[b] = data[b]
  BY SeenStays DEF NoPut
<1>3. \A b \in Queued' \cup Reading' : IsBlock(b)' => Block(b)' < next' /\ Block(b)' \notin lost'
  <2>1. SUFFICES ASSUME NEW b \in Queued' \cup Reading', IsBlock(b)'
                 PROVE  Block(b)' < next' /\ Block(b)' \notin lost'
    OBVIOUS
  <2>2. b \in Queued \cup Reading /\ IsBlock(b) /\ Block(b)' = Block(b)
    BY <1>2, <2>1 DEF IsBlock, Block
  <2>3. Block(b) \in Int /\ Block(b) < next /\ Block(b) \notin lost
    BY <1>0, <2>2 DEF Ordered
  <2>4. QED BY <1>a, <2>2, <2>3
<1>4. \A i, j \in 1 .. Len(queue') :
          i < j /\ IsBlock(queue[i])' /\ IsBlock(queue[j])' => Block(queue[i])' < Block(queue[j])'
  <2>1. CASE queue' = queue
    <3>1. Queued' = Queued
      BY <2>1 DEF Queued
    <3>2. \A i \in 1 .. Len(queue) : data'[queue[i]] = data[queue[i]]
      BY <1>2, <3>1
    <3>3. QED BY <1>0, <2>1, <3>2 DEF Ordered, IsBlock, Block
  <2>2. CASE queue' = <<>>
    BY <2>2
  <2>3. QED BY <2>1, <2>2 DEF Quiet, Drop, Discard, Clear
<1>5. Queued' \subseteq Queued /\ Reading' = Reading
  <2>1. Reading' = Reading
    BY TwoThreads DEF Reading, Quiet, Drop, Discard, Clear
  <2>2. Queued' \subseteq Queued
    BY RangeEmpty DEF Queued, Quiet, Drop, Discard, Clear
  <2>3. QED BY <2>1, <2>2
<1>6. \A b \in Reading', q \in Queued' : IsBlock(b)' /\ IsBlock(q)' => Block(b)' < Block(q)'
  BY <1>0, <1>2, <1>5 DEF Ordered, IsBlock, Block
<1>7. \A i \in 1 .. Len(decoded') :
          /\ decoded'[i] < next' /\ decoded'[i] \notin lost'
          /\ \A b \in Queued' \cup Reading' : IsBlock(b)' => decoded'[i] < Block(b)'
  <2>1. \A i \in 1 .. Len(decoded) : decoded[i] < next' /\ decoded[i] \notin lost'
    BY <1>0, <1>a DEF Ordered
  <2>2. \A i \in 1 .. Len(decoded) : \A b \in Queued' \cup Reading' : IsBlock(b)' => decoded[i] < Block(b)'
    BY <1>0, <1>2 DEF Ordered, IsBlock, Block
  <2>3. QED BY <1>1, <2>1, <2>2
<1>8. \A i \in 1 .. Len(decoded') - 1 : decoded'[i] < decoded'[i + 1]
  BY <1>0, <1>1 DEF Ordered
<1>9. QED BY <1>3, <1>4, <1>6, <1>7, <1>8 DEF Ordered

\* fifo_dequeue takes the oldest.
LEMMA OrderedGet ==
    ASSUME PipelineInv, Get
    PROVE  Ordered'
<1> USE Types, Possessions, Places
<1>0. Ordered
  BY DEF PipelineInv
<1>1. UNCHANGED <<decoded, next, lost, data>>
  BY DEF Get, rest
<1>2. /\ Len(queue) >= 1 /\ Len(queue') = Len(queue) - 1
      /\ \A i \in 1 .. Len(queue') : queue'[i] = queue[i + 1]
      /\ queue' \in Seq(Buffers)
  BY DEF Get
<1>3. Reading' = {queue[1]} /\ queue[1] # None
  <2>1. Reading' = {held'[Main]} \ {None}
    BY TwoThreads DEF Reading
  <2>2. held'[Main] = queue[1] /\ queue[1] \in Buffers
    BY <1>2 DEF Get
  <2>3. QED BY <2>1, <2>2, FifoAssumption
<1>4. \A b \in Queued' \cup Reading' : b \in Queued \cup Reading
  BY SeenStays DEF NoPut
<1>5. \A q \in Queued' : \E i \in 1 .. Len(queue) : i > 1 /\ queue[i] = q
  <2>1. SUFFICES ASSUME NEW q \in Queued' PROVE \E i \in 1 .. Len(queue) : i > 1 /\ queue[i] = q
    OBVIOUS
  <2>2. PICK i \in 1 .. Len(queue') : queue'[i] = q
    BY <1>2 DEF Queued, Range
  <2>3. Len(queue') \in Nat
    BY <1>2
  <2>a. i \in 1 .. Len(queue) - 1 /\ Len(queue) \in Nat
    BY <1>2, <2>2
  <2>4. i + 1 \in 1 .. Len(queue) /\ i + 1 > 1
    BY <2>a
  <2>5. queue[i + 1] = q
    BY <1>2, <2>2
  <2>6. QED BY <2>4, <2>5
<1>6. \A b \in Queued' \cup Reading' : IsBlock(b) => Block(b) < next /\ Block(b) \notin lost
  BY <1>0, <1>4 DEF Ordered
<1>7. \A i, j \in 1 .. Len(queue') :
          i < j /\ IsBlock(queue'[i]) /\ IsBlock(queue'[j]) => Block(queue'[i]) < Block(queue'[j])
  <2>1. SUFFICES ASSUME NEW i \in 1 .. Len(queue'), NEW j \in 1 .. Len(queue'), i < j,
                        IsBlock(queue'[i]), IsBlock(queue'[j])
                 PROVE  Block(queue'[i]) < Block(queue'[j])
    OBVIOUS
  <2>2. i + 1 \in 1 .. Len(queue) /\ j + 1 \in 1 .. Len(queue) /\ i + 1 < j + 1
    BY <1>2, <2>1
  <2>3. QED BY <1>0, <1>2, <2>1, <2>2 DEF Ordered
<1>8. \A b \in Reading', q \in Queued' : IsBlock(b) /\ IsBlock(q) => Block(b) < Block(q)
  <2>1. 1 \in 1 .. Len(queue)
    BY <1>2
  <2>2. \A i \in 1 .. Len(queue) :
            i > 1 /\ IsBlock(queue[1]) /\ IsBlock(queue[i]) => Block(queue[1]) < Block(queue[i])
    BY <1>0, <2>1 DEF Ordered
  <2>3. SUFFICES ASSUME NEW b \in Reading', NEW q \in Queued', IsBlock(b), IsBlock(q)
                 PROVE  Block(b) < Block(q)
    OBVIOUS
  <2>4. PICK i \in 1 .. Len(queue) : i > 1 /\ queue[i] = q
    BY <1>5
  <2>5. b = queue[1]
    BY <1>3
  <2>6. QED BY <2>2, <2>3, <2>4, <2>5
<1>9. \A i \in 1 .. Len(decoded) :
          \A b \in Queued' \cup Reading' : IsBlock(b) => decoded[i] < Block(b)
  BY <1>0, <1>4 DEF Ordered
<1>10. QED BY <1>0, <1>1, <1>6, <1>7, <1>8, <1>9 DEF Ordered, IsBlock, Block

\* The demodulator's output grows by the block it was given.
LEMMA OrderedProcess ==
    ASSUME PipelineInv, Process
    PROVE  Ordered'
<1> USE Types, Possessions, Places
<1>0. Ordered
  BY DEF PipelineInv
<1>1. UNCHANGED <<queue, next, lost, data>> /\ Queued' = Queued
  BY DEF Process, Queued
<1>2. Reading' = {} /\ held[Main] \in Reading
  <2>1. Reading' = {held'[Main]} \ {None}
    BY TwoThreads DEF Reading
  <2>2. QED BY <2>1, FifoAssumption DEF Process
<1>3. /\ \A b \in Queued' \cup Reading' : IsBlock(b)' => Block(b)' < next' /\ Block(b)' \notin lost'
      /\ \A i, j \in 1 .. Len(queue') :
             i < j /\ IsBlock(queue[i])' /\ IsBlock(queue[j])' => Block(queue[i])' < Block(queue[j])'
      /\ \A b \in Reading', q \in Queued' : IsBlock(b)' /\ IsBlock(q)' => Block(b)' < Block(q)'
  BY <1>0, <1>1, <1>2 DEF Ordered, IsBlock, Block
<1>4. CASE ~IsBlock(held[Main])
  BY <1>0, <1>1, <1>2, <1>3, <1>4 DEF Ordered, IsBlock, Block, Process
<1>5. CASE IsBlock(held[Main])
  <2> DEFINE k == Block(held[Main])
  <2>1. decoded' = Append(decoded, k) /\ k \in Blocks
    BY <1>5 DEF Process
  <2>2. /\ Len(decoded') = Len(decoded) + 1 /\ decoded'[Len(decoded) + 1] = k
        /\ \A i \in 1 .. Len(decoded) : decoded'[i] = decoded[i]
    BY <2>1
  <2>3. k < next /\ k \notin lost /\ \A q \in Queued : IsBlock(q) => k < Block(q)
    BY <1>0, <1>2, <1>5 DEF Ordered
  <2>4. \A i \in 1 .. Len(decoded) : decoded[i] < k
    BY <1>0, <1>2, <1>5 DEF Ordered
  <2> HIDE DEF k
  <2>5. \A i \in 1 .. Len(decoded') :
            /\ decoded'[i] < next /\ decoded'[i] \notin lost
            /\ \A b \in Queued : IsBlock(b) => decoded'[i] < Block(b)
    <3>1. SUFFICES ASSUME NEW i \in 1 .. Len(decoded')
                   PROVE  /\ decoded'[i] < next /\ decoded'[i] \notin lost
                          /\ \A b \in Queued : IsBlock(b) => decoded'[i] < Block(b)
      OBVIOUS
    <3>a. i \in 1 .. Len(decoded) \/ i = Len(decoded) + 1
      <4>1. \A n \in Nat : \A j \in 1 .. n + 1 : j \in 1 .. n \/ j = n + 1
        OBVIOUS
      <4>2. i \in 1 .. Len(decoded) + 1 /\ Len(decoded) \in Nat
        BY <2>2, <3>1
      <4>3. QED BY <4>1, <4>2, Zenon
    <3>2. CASE i \in 1 .. Len(decoded)
      BY <1>0, <2>2, <3>2 DEF Ordered
    <3>3. CASE i = Len(decoded) + 1
      BY <2>2, <2>3, <3>3
    <3>4. QED BY <3>a, <3>2, <3>3
  <2>6. \A i \in 1 .. Len(decoded') - 1 : decoded'[i] < decoded'[i + 1]
    <3>1. \A m, n \in Nat : m = n + 1 => 1 .. m - 1 = 1 .. n
      OBVIOUS
    <3>2. Len(decoded) \in Nat /\ Len(decoded') \in Nat
      BY <2>2
    <3>3. 1 .. Len(decoded') - 1 = 1 .. Len(decoded)
      BY <2>2, <3>1, <3>2, Zenon
    <3>4. SUFFICES ASSUME NEW i \in 1 .. Len(decoded) PROVE decoded'[i] < decoded'[i + 1]
      BY <3>3, Zenon
    <3>5. CASE i = Len(decoded)
      BY <2>2, <2>4, <3>5
    <3>6. CASE i < Len(decoded)
      <4>1. i \in 1 .. Len(decoded) - 1 /\ i + 1 \in 1 .. Len(decoded)
        BY <3>4, <3>6
      <4>2. QED BY <1>0, <2>2, <4>1 DEF Ordered
    <3>7. QED BY <3>4, <3>5, <3>6
  <2>7. QED BY <1>1, <1>2, <1>3, <2>5, <2>6 DEF Ordered, IsBlock, Block
<1>6. QED BY <1>4, <1>5

\* fifo_enqueue appends the newest, or a buffer without a block.
LEMMA OrderedPut ==
    ASSUME PipelineInv, PutBlock \/ PutNothing
    PROVE  Ordered'
<1> USE Types, Possessions, Places
<1>0. Ordered /\ lost \subseteq 1 .. next - 1
  BY DEF PipelineInv, Numbered
<1>1. UNCHANGED <<held[Main], lost, decoded>> /\ Kept
  BY DEF PutBlock, PutNothing, rest
<1>2. PICK b \in Buffers \ (Queued \cup Reading), s \in Blocks \cup {NoSamples}, flag \in BOOLEAN :
          /\ Put(b, s, flag)
          /\ \/ s = next /\ next' = next + 1
             \/ s = NoSamples /\ next' = next
  <2>1. CASE PutBlock
    <3>1. (dropped > 0) \in BOOLEAN
      OBVIOUS
    <3>2. next \in Blocks
      BY <2>1 DEF PutBlock
    <3>3. QED BY <2>1, <3>1, <3>2 DEF PutBlock, Put
  <2>2. CASE PutNothing
    BY <2>2 DEF PutNothing, Put
  <2>3. QED BY <2>1, <2>2
<1>3. /\ Queued' = Queued \cup {b} /\ Reading' = Reading
      /\ Len(queue') = Len(queue) + 1 /\ queue'[Len(queue) + 1] = b
      /\ \A i \in 1 .. Len(queue) : queue'[i] = queue[i] /\ queue[i] \in Queued /\ queue[i] # b
      /\ data'[b] = Filled(s, flag)
      /\ \A q \in Queued \cup Reading : q # b /\ data'[q] = data[q]
  <2>1. Put(b, s, flag) /\ UNCHANGED held[Main] /\ Kept
    BY <1>1, <1>2
  <2>2. QED BY <2>1, PutLast
<1>4. /\ \A q \in Queued \cup Reading : (IsBlock(q)' <=> IsBlock(q)) /\ Block(q)' = Block(q)
      /\ IsBlock(b)' => Block(b)' = next /\ next' = next + 1
      /\ next' >= next /\ next' \in Int
  BY <1>2, <1>3 DEF IsBlock, Block, Filled
<1>5. \A q \in Queued' \cup Reading' : IsBlock(q)' => Block(q)' < next' /\ Block(q)' \notin lost'
  BY <1>0, <1>1, <1>3, <1>4 DEF Ordered
<1>6. \A i, j \in 1 .. Len(queue') :
          i < j /\ IsBlock(queue[i])' /\ IsBlock(queue[j])' => Block(queue[i])' < Block(queue[j])'
  <2>1. SUFFICES ASSUME NEW i \in 1 .. Len(queue'), NEW j \in 1 .. Len(queue'), i < j,
                        IsBlock(queue[i])', IsBlock(queue[j])'
                 PROVE  Block(queue[i])' < Block(queue[j])'
    OBVIOUS
  <2>2. i \in 1 .. Len(queue) /\ (j \in 1 .. Len(queue) \/ j = Len(queue) + 1)
    BY <1>3, <2>1
  <2>3. /\ queue'[i] = queue[i] /\ queue[i] \in Queued
        /\ IsBlock(queue[i]) /\ Block(queue[i])' = Block(queue[i])
    BY <1>3, <1>4, <2>1, <2>2
  <2>4. CASE j \in 1 .. Len(queue)
    <3>1. /\ queue'[j] = queue[j] /\ queue[j] \in Queued
          /\ IsBlock(queue[j]) /\ Block(queue[j])' = Block(queue[j])
      BY <1>3, <1>4, <2>1, <2>4
    <3>2. QED BY <1>0, <2>1, <2>2, <2>3, <2>4, <3>1 DEF Ordered
  <2>5. CASE j = Len(queue) + 1
    <3>1. Block(queue[j])' = next
      BY <1>3, <1>4, <2>1, <2>5
    <3>2. QED BY <1>0, <2>3, <3>1 DEF Ordered
  <2>6. QED BY <2>2, <2>4, <2>5
<1>7. \A r \in Reading', q \in Queued' : IsBlock(r)' /\ IsBlock(q)' => Block(r)' < Block(q)'
  BY <1>0, <1>3, <1>4 DEF Ordered
<1>8. \A i \in 1 .. Len(decoded) :
          /\ decoded[i] < next' /\ decoded[i] \notin lost
          /\ \A q \in Queued' \cup Reading' : IsBlock(q)' => decoded[i] < Block(q)'
  BY <1>0, <1>3, <1>4 DEF Ordered
<1>9. QED BY <1>0, <1>1, <1>5, <1>6, <1>7, <1>8 DEF Ordered

\* Whatever kind of step is taken, blocks stay in the order they were read in.
LEMMA OrderedStep ==
    ASSUME PipelineInv, Kinds
    PROVE  Ordered'
BY OrderedStays, OrderedGet, OrderedProcess, OrderedPut DEF Kinds

-------------------------------------------------------------------------------
(* A file's blocks, all of them                                               *)

\* Main holds one block of the stream or none.
LEMMA Counts ==
    /\ Busy = 0 \/ Busy = 1
    /\ Busy = 1 <=> held[Main] # None /\ IsBlock(held[Main])
BY DEF Busy

\* Halting or handing in a buffer once halted changes nothing of what was read.
LEMMA CompleteStays ==
    ASSUME PipelineInv, Complete, Quiet \/ Discard \/ Clear
    PROVE  Complete'
<1> USE Places
<1>1. /\ UNCHANGED <<decoded, lost, held[Main]>> /\ dropped' = 0
      /\ eof => eof'
  BY DEF Quiet, Discard, Clear, Complete, rest
<1>2. held[Main] # None => held[Main] \in Reading
  BY Possessions
<1>3. held[Main] # None => data'[held[Main]] = data[held[Main]]
  BY <1>2 DEF Quiet, Discard, Clear, Kept
<1>4. Busy' = Busy
  BY <1>1, <1>3 DEF Busy, IsBlock
<1>5. CASE Clear
  <2>1. Len(queue') = 0 /\ queue' = <<>> /\ halted'
    BY <1>5 DEF Clear
  <2>2. QED BY <1>1, <1>3, <2>1 DEF Complete, IsBlock, Block
<1>6. CASE Quiet \/ Discard
  <2>1. /\ UNCHANGED queue
        /\ \A i \in 1 .. Len(queue) : data'[queue[i]] = data[queue[i]]
    BY <1>6 DEF Quiet, Discard, Kept
  <2>2. Waiting' = Waiting
    <3>1. queue # <<>> => Len(queue) \in 1 .. Len(queue)
      BY Types
    <3>2. QED BY <2>1, <3>1 DEF Waiting, IsBlock
  <2>3. ~halted' => next' = next /\ ~halted
    BY <1>6 DEF Quiet, Discard, rest
  <2>4. \A i \in 1 .. Len(queue') :
            \/ IsBlock(queue[i])' /\ Block(queue[i])' = Len(decoded') + Busy' + i
            \/ ~IsBlock(queue[i])' /\ i = Len(queue') /\ eof'
    BY <1>1, <1>4, <2>1 DEF Complete, IsBlock, Block
  <2>5. held'[Main] # None =>
            \/ IsBlock(held[Main])' /\ Block(held[Main])' = Len(decoded') + 1
            \/ ~IsBlock(held[Main])' /\ queue' = <<>> /\ eof'
    BY <1>1, <1>3, <2>1 DEF Complete, IsBlock, Block
  <2>6. QED BY <1>1, <1>4, <2>2, <2>3, <2>4, <2>5 DEF Complete
<1>7. QED BY <1>5, <1>6

\* The oldest block is the next to demodulate.
LEMMA CompleteGet ==
    ASSUME PipelineInv, Complete, Get
    PROVE  Complete'
<1> USE Places
<1>1. UNCHANGED <<decoded, lost, dropped, next, eof, halted, data>> /\ ~halted
  BY DEF Get, rest
<1>2. /\ queue \in Seq(Buffers) /\ queue # <<>>
      /\ Len(queue) >= 1 /\ Len(queue') = Len(queue) - 1
      /\ \A i \in 1 .. Len(queue') : queue'[i] = queue[i + 1]
      /\ held'[Main] = queue[1] /\ held[Main] = None
  BY Types DEF Get
<1>3. queue[1] # None
  BY <1>2, FifoAssumption
<1>4. Busy = 0 /\ next = Len(decoded) + Waiting + 1
  BY <1>1, <1>2 DEF Busy, Complete
<1>5. 1 \in 1 .. Len(queue)
  BY <1>2
<1>6. CASE IsBlock(queue[1])
  <2>1. Busy' = 1
    BY <1>1, <1>2, <1>3, <1>6 DEF Busy, IsBlock
  <2>2. Block(queue[1]) = Len(decoded) + 1
    BY <1>4, <1>5, <1>6 DEF Complete
  <2>3. \A i \in 1 .. Len(queue') :
            \/ IsBlock(queue[i])' /\ Block(queue[i])' = Len(decoded') + Busy' + i
            \/ ~IsBlock(queue[i])' /\ i = Len(queue') /\ eof'
    <3>1. SUFFICES ASSUME NEW i \in 1 .. Len(queue')
                   PROVE  \/ IsBlock(queue[i])' /\ Block(queue[i])' = Len(decoded') + Busy' + i
                          \/ ~IsBlock(queue[i])' /\ i = Len(queue') /\ eof'
      OBVIOUS
    <3>2. i \in 1 .. Len(queue) - 1 /\ Len(queue) \in Nat
      BY <1>2, <3>1
    <3>3. i + 1 \in 1 .. Len(queue) /\ queue'[i] = queue[i + 1]
      BY <1>2, <3>1, <3>2
    <3>4. \/ IsBlock(queue[i + 1]) /\ Block(queue[i + 1]) = Len(decoded) + Busy + (i + 1)
          \/ ~IsBlock(queue[i + 1]) /\ i + 1 = Len(queue) /\ eof
      BY <3>3 DEF Complete
    <3>5. QED BY <1>1, <1>2, <1>4, <2>1, <3>2, <3>3, <3>4 DEF IsBlock, Block
  <2>4. Waiting' = Waiting - 1
    <3>1. CASE Len(queue) = 1
      <4>1. queue' = <<>> /\ Waiting = 1
        BY <1>2, <1>6, <3>1 DEF Waiting, Get
      <4>2. QED BY <4>1 DEF Waiting
    <3>2. CASE Len(queue) > 1
      <4>1. Len(queue') >= 1 /\ queue' # <<>> /\ queue'[Len(queue')] = queue[Len(queue)]
        BY <1>2, <3>2
      <4>2. QED BY <1>1, <1>2, <4>1 DEF Waiting, IsBlock
    <3>3. QED BY <1>2, <3>1, <3>2
  <2>5. Waiting \in Int
    BY DEF Waiting
  <2>6. next' = Len(decoded') + Busy' + Waiting' + 1
    BY <1>1, <1>4, <2>1, <2>4, <2>5
  <2>7. QED BY <1>1, <1>2, <1>6, <2>2, <2>3, <2>6 DEF Complete, IsBlock, Block
<1>7. CASE ~IsBlock(queue[1])
  <2>1. Len(queue) = 1 /\ eof
    BY <1>5, <1>7 DEF Complete
  <2>2. queue' = <<>> /\ Len(queue') = 0 /\ Waiting = 0 /\ Waiting' = 0
    <3>1. queue' = <<>> /\ Len(queue') = 0
      BY <1>2, <2>1 DEF Get
    <3>2. QED BY <1>2, <1>7, <2>1, <3>1 DEF Waiting
  <2>3. Busy' = 0
    BY <1>1, <1>2, <1>7 DEF Busy, IsBlock
  <2>4. QED BY <1>1, <1>2, <1>4, <1>7, <2>1, <2>2, <2>3 DEF Complete, IsBlock, Block
<1>8. QED BY <1>6, <1>7

\* Demodulating adds that block.
LEMMA CompleteProcess ==
    ASSUME PipelineInv, Complete, Process
    PROVE  Complete'
<1> USE Places
<1>1. /\ UNCHANGED <<queue, lost, dropped, next, eof, halted, data>>
      /\ held[Main] # None /\ held'[Main] = None
  BY FifoAssumption DEF Process
<1>2. Busy' = 0 /\ Waiting' = Waiting
  BY <1>1 DEF Busy, Waiting, IsBlock
<1>3. CASE IsBlock(held[Main])
  <2> DEFINE k == Block(held[Main])
  <2>1. Busy = 1 /\ k = Len(decoded) + 1
    BY <1>1, <1>3 DEF Busy, Complete
  <2>2. decoded' = Append(decoded, k) /\ decoded \in Seq(Blocks) /\ k \in Blocks
    BY <1>3, Types DEF Process
  <2>3. /\ Len(decoded') = Len(decoded) + 1 /\ decoded'[Len(decoded) + 1] = k
        /\ \A i \in 1 .. Len(decoded) : decoded'[i] = decoded[i]
    BY <2>2
  <2> HIDE DEF k
  <2>4. \A i \in 1 .. Len(decoded') : decoded'[i] = i
    <3>1. SUFFICES ASSUME NEW i \in 1 .. Len(decoded') PROVE decoded'[i] = i
      OBVIOUS
    <3>2. i \in 1 .. Len(decoded) + 1 /\ Len(decoded) \in Nat
      BY <2>3, <3>1
    <3>3. i \in 1 .. Len(decoded) \/ i = Len(decoded) + 1
      BY <3>2
    <3>4. QED BY <2>1, <2>3, <3>3 DEF Complete
  <2>5. Len(decoded') + Busy' = Len(decoded) + Busy
    BY <1>2, <2>1, <2>3
  <2>6. QED BY <1>1, <1>2, <2>4, <2>5 DEF Complete, IsBlock, Block
<1>4. CASE ~IsBlock(held[Main])
  <2>1. Busy = 0 /\ decoded' = decoded
    BY <1>4 DEF Busy, Process
  <2>2. QED BY <1>1, <1>2, <2>1 DEF Complete, IsBlock, Block
<1>5. QED BY <1>3, <1>4

\* Until the end of the file every queued buffer has its block.
LEMMA BeforeTheEnd ==
    ASSUME PipelineInv, Complete, ~eof, ~halted
    PROVE  /\ Waiting = Len(queue) /\ next = Len(decoded) + Busy + Len(queue) + 1
           /\ \A i \in 1 .. Len(queue) : IsBlock(queue[i]) /\ Block(queue[i]) = Len(decoded) + Busy + i
           /\ held[Main] # None => IsBlock(held[Main]) /\ Block(held[Main]) = Len(decoded) + 1
<1> USE Places
<1>1. \A i \in 1 .. Len(queue) : IsBlock(queue[i]) /\ Block(queue[i]) = Len(decoded) + Busy + i
  BY DEF Complete
<1>2. queue # <<>> => Len(queue) \in 1 .. Len(queue)
  BY Types
<1>3. Waiting = Len(queue)
  BY <1>1, <1>2 DEF Waiting
<1>4. QED BY <1>1, <1>3 DEF Complete

\* The file's next block, or its end, follows what is queued.
LEMMA CompletePut ==
    ASSUME PipelineInv, Complete, PutBlock \/ PutNothing, source = "file"
    PROVE  Complete'
<1> USE Places
<1>1. /\ UNCHANGED <<held[Main], lost, decoded, halted>> /\ Kept /\ ~eof /\ ~halted /\ dropped' = 0
  BY DEF PutBlock, PutNothing, Complete, rest
<1>2. PICK b \in Buffers \ (Queued \cup Reading), s \in Blocks \cup {NoSamples}, flag \in BOOLEAN :
          /\ Put(b, s, flag)
          /\ \/ s = next /\ next' = next + 1 /\ s # NoSamples
             \/ s = NoSamples /\ next' = next /\ eof'
  <2>1. CASE PutBlock
    <3>1. (dropped > 0) \in BOOLEAN
      OBVIOUS
    <3>2. next \in Blocks /\ next # NoSamples
      BY <2>1, Types DEF PutBlock
    <3>3. PICK b \in Buffers \ (Queued \cup Reading), flag \in BOOLEAN : Put(b, next, flag)
      BY <2>1, <3>1 DEF PutBlock, Put
    <3>4. next' = next + 1
      BY <2>1 DEF PutBlock
    <3>5. QED BY <3>2, <3>3, <3>4
  <2>2. CASE PutNothing
    BY <2>2 DEF PutNothing, Put
  <2>3. QED BY <2>1, <2>2
<1>3. /\ Len(queue') = Len(queue) + 1 /\ queue'[Len(queue) + 1] = b
      /\ \A i \in 1 .. Len(queue) : queue'[i] = queue[i] /\ queue[i] \in Queued /\ queue[i] # b
      /\ data'[b] = Filled(s, flag)
      /\ \A q \in Queued \cup Reading : q # b /\ data'[q] = data[q]
  <2>1. Put(b, s, flag) /\ UNCHANGED held[Main] /\ Kept
    BY <1>1, <1>2
  <2>2. QED BY <2>1, PutLast
<1>4. /\ next = Len(decoded) + Busy + Len(queue) + 1
      /\ \A i \in 1 .. Len(queue) : IsBlock(queue[i]) /\ Block(queue[i]) = Len(decoded) + Busy + i
      /\ held[Main] # None => IsBlock(held[Main]) /\ Block(held[Main]) = Len(decoded) + 1
  BY <1>1, BeforeTheEnd
<1>5. held[Main] # None => data'[held[Main]] = data[held[Main]]
  BY <1>3, Possessions
<1>6. Busy' = Busy
  BY <1>1, <1>5 DEF Busy, IsBlock
<1>7. IsBlock(b)' <=> s # NoSamples
  BY <1>3 DEF IsBlock, Filled
<1>8. s # NoSamples => Block(b)' = Len(decoded) + Busy + (Len(queue) + 1) /\ next' = next + 1
  <2>1. Block(b)' = s
    BY <1>3 DEF Block, Filled
  <2>2. s # NoSamples => s = next /\ next' = next + 1
    BY <1>2
  <2>3. Len(decoded) + Busy + Len(queue) + 1 = Len(decoded) + Busy + (Len(queue) + 1)
    <3>1. Busy \in Int /\ Len(decoded) \in Int /\ Len(queue) \in Int
      BY Counts
    <3>2. QED BY ONLY <3>1
  <2>4. QED BY <1>4, <2>1, <2>2, <2>3
<1>9. \A i \in 1 .. Len(queue') :
          \/ IsBlock(queue[i])' /\ Block(queue[i])' = Len(decoded) + Busy + i
          \/ ~IsBlock(queue[i])' /\ i = Len(queue') /\ eof'
  <2>1. SUFFICES ASSUME NEW i \in 1 .. Len(queue')
                 PROVE  \/ IsBlock(queue[i])' /\ Block(queue[i])' = Len(decoded) + Busy + i
                        \/ ~IsBlock(queue[i])' /\ i = Len(queue') /\ eof'
    OBVIOUS
  <2>2. i \in 1 .. Len(queue) + 1 /\ Len(queue) \in Nat
    BY <1>3, <2>1
  <2>3. i \in 1 .. Len(queue) \/ i = Len(queue) + 1
    BY <2>2
  <2>4. CASE i \in 1 .. Len(queue)
    BY <1>3, <1>4, <2>4 DEF IsBlock, Block
  <2>5. CASE i = Len(queue) + 1
    BY <1>2, <1>3, <1>7, <1>8, <2>5
  <2>6. QED BY <2>3, <2>4, <2>5
<1>10. next' = Len(decoded) + Busy + Waiting' + 1
  <2>1. queue' # <<>> /\ queue'[Len(queue')] = b
    BY <1>3
  <2>2. Waiting' = IF s = NoSamples THEN Len(queue) ELSE Len(queue) + 1
    BY <1>3, <1>7, <2>1 DEF Waiting
  <2>3. CASE s = NoSamples
    <3>1. next' = next /\ Waiting' = Len(queue)
      BY <1>2, <2>2, <2>3
    <3>2. QED BY <1>4, <3>1
  <2>4. CASE s # NoSamples
    <3>1. next' = next + 1 /\ Waiting' = Len(queue) + 1
      BY <1>2, <2>2, <2>4
    <3>2. Len(decoded) + Busy + Len(queue) + 1 + 1 = Len(decoded) + Busy + (Len(queue) + 1) + 1
      <4>1. Busy \in Int /\ Len(decoded) \in Int /\ Len(queue) \in Int
        BY Counts
      <4>2. QED BY ONLY <4>1
    <3>3. QED BY <1>4, <3>1, <3>2
  <2>5. QED BY <2>3, <2>4
<1>11. held'[Main] # None =>
           \/ IsBlock(held[Main])' /\ Block(held[Main])' = Len(decoded) + 1
           \/ ~IsBlock(held[Main])' /\ queue' = <<>> /\ eof'
  BY <1>1, <1>4, <1>5 DEF IsBlock, Block
<1>12. QED BY <1>1, <1>6, <1>9, <1>10, <1>11 DEF Complete

\* A file loses no block: no kind of step leaves a gap in what has been read of it.
LEMMA WholeStep ==
    ASSUME PipelineInv, Kinds, source' = source
    PROVE  Whole'
<1>1. SUFFICES ASSUME source = "file" PROVE Complete'
  BY DEF Whole
<1>2. Complete
  BY <1>1 DEF PipelineInv, Whole
<1>3. ~Drop
  BY <1>1 DEF Drop
<1>4. QED BY <1>1, <1>2, <1>3, CompleteStays, CompleteGet, CompleteProcess, CompletePut DEF Kinds

-------------------------------------------------------------------------------
(* Where the threads are                                                      *)

\* Every step leaves each thread in a call its place allows.
LEMMA CallsStep ==
    ASSUME PipelineInv, [Next]_vars
    PROVE  Placed'
<1> USE TwoThreads DEF Placed
<1>0. Placed /\ pc \in [Threads -> {"idle", "acquire", "filling", "drain", "dequeue", "demodulating"}]
  BY DEF PipelineInv, Sound, FifoTypeOK
<1>1. CASE CallbackEnter \/ CallbackDrop \/ CallbackCancelled \/ FileLoop \/ ReaderReturned \/ DeviceLost
  BY <1>0, <1>1 DEF CallbackEnter, CallbackDrop, CallbackCancelled, FileLoop, ReaderReturned, DeviceLost,
     readerOnly, fifoVars
<1>2. CASE CallbackAcquire
  BY <1>0, <1>2 DEF CallbackAcquire, AcquireTake, readerOnly
<1>3. CASE CallbackEnqueue
  BY <1>0, <1>3 DEF CallbackEnqueue, Enqueue, EnqueueHalted, readerOnly
<1>4. CASE FileAcquire
  BY <1>0, <1>4 DEF FileAcquire, AcquireTake, AcquireWait, AcquireHalted, TimedOut, Park, readerOnly, fifoVars
<1>5. CASE FileRead
  BY <1>0, <1>5 DEF FileRead, Enqueue, EnqueueHalted, readerOnly
<1>6. CASE FileDrain
  BY <1>0, <1>6 DEF FileDrain, DrainWait, DrainReturn, Park, readerOnly, fifoVars
<1>7. CASE ReaderHalt
  BY <1>0, <1>7 DEF ReaderHalt, FifoHalt, readerOnly
<1>8. CASE MainDequeue
  BY <1>0, <1>8 DEF MainDequeue, DequeueTake, DequeueWait, Park, mainOnly, fifoVars
<1>9. CASE MainWaiting
  BY <1>0, <1>9 DEF MainWaiting, DequeueTake, DequeueWait, DequeueHalted, TimedOut, Park, mainOnly
<1>10. CASE MainProcess
  BY <1>0, <1>10 DEF MainProcess, Release, mainOnly
<1>11. CASE MainNothing \/ MainLeavesLoop \/ MainStop \/ MainAbort
  BY <1>0, <1>11 DEF MainNothing, MainLeavesLoop, MainStop, MainAbort, mainOnly, fifoVars
<1>12. CASE MainHalt \/ MainDestroy
  BY <1>0, <1>12 DEF MainHalt, MainDestroy, FifoHalt, mainOnly
<1>13. CASE Interrupt \/ Spurious \/ UNCHANGED vars
  BY <1>0, <1>13 DEF Interrupt, Spurious, SpuriousWakeup, mainOnly, vars, fifoVars
<1>14. QED BY <1>1, <1>2, <1>3, <1>4, <1>5, <1>6, <1>7, <1>8, <1>9, <1>10, <1>11, <1>12, <1>13
           DEF Next, ReaderNext, MainNext

\* Every step respects what must have happened before.
LEMMA EndingStep ==
    ASSUME PipelineInv, [Next]_vars
    PROVE  Ending'
<1> USE DEF Ending, SetExit
<1>0. Ending /\ PipelineTypeOK /\ WatchdogStart \in Nat \ {0} /\ next \in Nat
  BY PipelineAssumption, Types DEF PipelineInv
<1>1. CASE CallbackEnter \/ CallbackDrop \/ CallbackCancelled \/ FileLoop \/ ReaderReturned \/ DeviceLost
  BY <1>0, <1>1 DEF CallbackEnter, CallbackDrop, CallbackCancelled, FileLoop, ReaderReturned, DeviceLost,
     readerOnly, streamVars, fifoVars, PipelineTypeOK
<1>2. CASE CallbackAcquire
  BY <1>0, <1>2 DEF CallbackAcquire, AcquireTake, readerOnly, streamVars
<1>3. CASE CallbackEnqueue
  BY <1>0, <1>3 DEF CallbackEnqueue, Enqueue, EnqueueHalted, readerOnly
<1>4. CASE FileAcquire
  BY <1>0, <1>4 DEF FileAcquire, AcquireTake, AcquireWait, AcquireHalted, TimedOut, readerOnly, streamVars,
     fifoVars
<1>5. CASE FileRead
  <2>1. /\ halted' = halted /\ reader' = "run" /\ source = "file"
        /\ UNCHANGED <<source, exit, main, watchdog, stopped>>
    BY <1>5 DEF FileRead, Enqueue, EnqueueHalted, readerOnly
  <2>2. stopped # "reader"
    BY <1>0, <1>5 DEF FileRead
  <2>3. QED BY <1>0, <2>1, <2>2
<1>6. CASE FileDrain
  BY <1>0, <1>6 DEF FileDrain, DrainWait, DrainReturn, readerOnly, streamVars, fifoVars
<1>7. CASE ReaderHalt
  BY <1>0, <1>7 DEF ReaderHalt, FifoHalt, readerOnly, streamVars
<1>8. CASE MainDequeue
  BY <1>0, <1>8 DEF MainDequeue, DequeueTake, DequeueWait, mainOnly, streamVars, fifoVars
<1>9. CASE MainWaiting
  BY <1>0, <1>9 DEF MainWaiting, DequeueTake, DequeueWait, DequeueHalted, TimedOut, mainOnly, streamVars
<1>10. CASE MainProcess
  BY <1>0, <1>10 DEF MainProcess, Release, mainOnly, streamVars
<1>11. CASE MainNothing \/ MainLeavesLoop \/ MainStop \/ MainAbort
  BY <1>0, <1>11 DEF MainNothing, MainLeavesLoop, MainStop, MainAbort, mainOnly, streamVars, fifoVars,
     PipelineTypeOK
<1>12. CASE MainHalt \/ MainDestroy
  BY <1>0, <1>12 DEF MainHalt, MainDestroy, FifoHalt, mainOnly, streamVars
<1>13. CASE Interrupt \/ Spurious \/ UNCHANGED vars
  BY <1>0, <1>13 DEF Interrupt, Spurious, SpuriousWakeup, mainOnly, streamVars, vars, fifoVars
<1>14. QED BY <1>1, <1>2, <1>3, <1>4, <1>5, <1>6, <1>7, <1>8, <1>9, <1>10, <1>11, <1>12, <1>13
           DEF Next, ReaderNext, MainNext

\* fifo_destroy comes when both threads are out of the FIFO, and nothing comes after it.
LEMMA DestroyStep ==
    ASSUME PipelineInv, [Next]_vars
    PROVE  DestroyIsSafe'
<1>1. SUFFICES ASSUME main' = "done" PROVE DestroyIsSafe'
  BY DEF DestroyIsSafe
<1>2. CASE main = "done"
  BY <1>2, AfterDestroy DEF PipelineInv, DestroyIsSafe, Held
<1>3. CASE main # "done"
  <2>1. main = "join" /\ reader = "ended" /\ reader' = reader /\ UNCHANGED <<pc, held>>
    BY <1>1, <1>3, Destroyed DEF MainDestroy, mainOnly
  <2>2. \A t \in Threads : pc[t] = "idle"
    BY <2>1, TwoThreads DEF PipelineInv, Placed
  <2>3. BufferConservation
    BY <1>3 DEF PipelineInv, Sound, IInv
  <2>4. \A t \in Threads : held[t] = None
    BY <2>2, <2>3 DEF BufferConservation
  <2>5. QED BY <2>1, <2>2, <2>4 DEF DestroyIsSafe, Held
<1>4. QED BY <1>2, <1>3

\* Every step keeps the types of the control state.
ControlType ==
    /\ source \in {"callback", "file"}
    /\ exit \in 0 .. 2
    /\ reader \in {"run", "acquire", "fill", "drain", "returned", "halt", "ended"}
    /\ main \in {"loop", "dequeue", "process", "nothing", "stop", "halt", "join",
                 "done", "aborted"}
    /\ watchdog \in 0 .. WatchdogStart
    /\ cancelled \in BOOLEAN
    /\ eof \in BOOLEAN
    /\ stopped \in {"no", "signal", "watchdog", "reader"}

\* Every step of either thread keeps the types of the threads' own state.
LEMMA ControlTypeStep ==
    ASSUME PipelineInv, [Next]_vars
    PROVE  ControlType'
<1> USE DEF ControlType, SetExit
<1>0. ControlType /\ WatchdogStart \in Nat \ {0} /\ (main = "nothing" => watchdog # 0)
  BY PipelineAssumption DEF PipelineInv, PipelineTypeOK, Ending
<1>1. CASE CallbackEnter \/ CallbackDrop \/ CallbackAcquire \/ CallbackEnqueue \/ CallbackCancelled
  BY <1>0, <1>1 DEF CallbackEnter, CallbackDrop, CallbackAcquire, CallbackEnqueue, CallbackCancelled,
     readerOnly, streamVars
<1>2. CASE FileLoop \/ FileAcquire \/ FileRead \/ FileDrain
  BY <1>0, <1>2 DEF FileLoop, FileAcquire, FileRead, FileDrain, readerOnly, streamVars
<1>3. CASE ReaderReturned \/ ReaderHalt \/ DeviceLost
  BY <1>0, <1>3 DEF ReaderReturned, ReaderHalt, DeviceLost, readerOnly, streamVars
<1>4. CASE MainDequeue \/ MainWaiting \/ MainProcess
  BY <1>0, <1>4 DEF MainDequeue, MainWaiting, MainProcess, mainOnly, streamVars
<1>5. CASE MainNothing
  BY <1>0, <1>5 DEF MainNothing, mainOnly, streamVars
<1>6. CASE MainLeavesLoop \/ MainStop \/ MainHalt \/ MainDestroy \/ MainAbort
  BY <1>0, <1>6 DEF MainLeavesLoop, MainStop, MainHalt, MainDestroy, MainAbort, mainOnly, streamVars
<1>7. CASE Interrupt \/ Spurious \/ UNCHANGED vars
  BY <1>0, <1>7 DEF Interrupt, Spurious, mainOnly, streamVars, vars
<1>8. QED BY <1>1, <1>2, <1>3, <1>4, <1>5, <1>6, <1>7 DEF Next, ReaderNext, MainNext

\* An interval within another.
LEMMA Intervals ==
    ASSUME NEW n \in Int, NEW m \in Nat, n - 1 <= m
    PROVE  1 .. n - 1 \subseteq 1 .. m /\ 0 .. n - 1 \subseteq 0 .. m
OBVIOUS

\* And of the stream.
LEMMA PipelineTypeStep ==
    ASSUME PipelineInv, [Next]_vars
    PROVE  PipelineTypeOK'
<1> USE Types
<1>1. ControlType'
  BY ControlTypeStep
<1>2. Kinds /\ Numbered'
  BY StepKinds, NumberedStep
<1>3. next' \in 1 .. MaxBlocks + 1 /\ lost' \subseteq Blocks /\ dropped' \in 0 .. MaxBlocks
  <2>1. next' \in 1 .. MaxBlocks + 1 /\ lost' \subseteq 1 .. next' - 1 /\ dropped' \in 0 .. next' - 1
    BY <1>2 DEF Numbered
  <2>2. next' \in Int /\ next' - 1 <= MaxBlocks /\ MaxBlocks \in Nat
    BY <2>1
  <2>3. 1 .. next' - 1 \subseteq 1 .. MaxBlocks /\ 0 .. next' - 1 \subseteq 0 .. MaxBlocks
    BY <2>2, Intervals
  <2>4. lost' \subseteq Blocks /\ dropped' \in 0 .. MaxBlocks
    BY <2>1, <2>3
  <2>5. QED BY <2>1, <2>4
<1>4. decoded' \in Seq(Blocks)
  <2>1. CASE Process
    <3>1. IsBlock(held[Main]) => Block(held[Main]) \in Blocks
      BY <2>1 DEF Process
    <3>2. QED BY <2>1, <3>1 DEF Process
  <2>2. CASE ~Process
    BY <1>2, <2>2 DEF Kinds, Quiet, Drop, PutBlock, PutNothing, Discard, Get, Clear, rest
  <2>3. QED BY <2>1, <2>2
<1>5. buf_dropped' \in [Buffers -> 0 .. MaxBlocks] /\ samples_dropped' \in Nat
  <2>0. samples_dropped \in Nat
    BY DEF PipelineInv, PipelineTypeOK
  <2>1. CASE CallbackEnqueue
    BY <2>0, <2>1 DEF CallbackEnqueue, readerOnly, statVars
  <2>2. CASE MainProcess
    <3>1. held[Main] \in Buffers
      BY <2>2, Possessions DEF MainProcess
    <3>2. buf_dropped[held[Main]] \in Nat
      BY <3>1
    <3>3. QED BY <2>0, <2>2, <3>2 DEF MainProcess, mainOnly, streamVars
  <2>3. CASE ReaderNext /\ ~CallbackEnqueue
    BY <2>0, <2>3 DEF ReaderNext, CallbackEnter, CallbackDrop, CallbackAcquire, CallbackCancelled, FileLoop,
       FileAcquire, FileRead, FileDrain, ReaderReturned, ReaderHalt, readerOnly, streamVars, statVars
  <2>4. CASE MainNext /\ ~MainProcess
    BY <2>0, <2>4 DEF MainNext, MainDequeue, MainWaiting, MainNothing, MainLeavesLoop, MainStop, MainHalt,
       MainDestroy, mainOnly, streamVars, statVars
  <2>5. CASE DeviceLost \/ MainAbort \/ Interrupt \/ Spurious \/ UNCHANGED vars
    BY <2>0, <2>5 DEF DeviceLost, MainAbort, Interrupt, Spurious, vars, readerOnly, mainOnly, streamVars,
       statVars
  <2>6. QED BY <2>1, <2>2, <2>3, <2>4, <2>5 DEF Next
<1>6. QED BY <1>1, <1>3, <1>4, <1>5 DEF PipelineTypeOK, ControlType

\* When a file's reader returns by itself the queue has been demodulated.
LEMMA DrainedStep ==
    ASSUME PipelineInv, [Next]_vars
    PROVE  Drained'
<1> USE Places
<1>1. Kinds /\ source' = source
  BY StepKinds
<1>2. SUFFICES ASSUME source = "file"
               PROVE  /\ exit' = 0 /\ reader' = "returned" => queue' = <<>>
                      /\ stopped' = "reader" => queue' = <<>> /\ next' = Len(decoded') + Busy' + 1
  BY <1>1 DEF Drained
<1>3. Drained /\ Complete
  BY <1>2 DEF PipelineInv, Whole
<1>4. /\ exit' = 0 => exit = 0
      /\ reader' = "returned" => \/ reader = "returned"
                                 \/ queue' = queue /\ (queue = <<>> \/ halted)
      /\ stopped' = "reader" => \/ stopped = "reader"
                                \/ /\ reader = "returned" /\ exit = 0
                                   /\ UNCHANGED <<queue, data, held, halted, next, decoded>>
  <2>1. CASE CallbackEnter \/ CallbackDrop \/ CallbackAcquire \/ CallbackEnqueue \/ CallbackCancelled
             \/ DeviceLost
    BY <1>2, <2>1 DEF CallbackEnter, CallbackDrop, CallbackAcquire, CallbackEnqueue, CallbackCancelled,
       DeviceLost
  <2>2. CASE FileLoop \/ FileAcquire \/ FileRead \/ ReaderHalt
    BY <2>2 DEF FileLoop, FileAcquire, FileRead, ReaderHalt, readerOnly
  <2>3. CASE FileDrain
    BY <2>3 DEF FileDrain, DrainWait, DrainReturn, fifoVars, readerOnly
  <2>4. CASE ReaderReturned
    BY <2>4 DEF ReaderReturned, SetExit, fifoVars, streamVars, statVars
  <2>5. CASE MainDequeue \/ MainWaiting \/ MainProcess \/ MainNothing
    <3>1. reader' = reader
      BY <2>5 DEF MainDequeue, MainWaiting, MainProcess, MainNothing, mainOnly
    <3>2. exit' = 0 => exit = 0
      BY <2>5 DEF MainDequeue, MainWaiting, MainProcess, MainNothing, SetExit
    <3>3. stopped' = "reader" => stopped = "reader"
      BY <2>5 DEF MainDequeue, MainWaiting, MainProcess, MainNothing, SetExit
    <3>4. QED BY <3>1, <3>2, <3>3
  <2>6. CASE MainLeavesLoop \/ MainStop \/ MainHalt \/ MainDestroy \/ MainAbort
    <3>1. UNCHANGED <<reader, exit, stopped>>
      BY <2>6 DEF MainLeavesLoop, MainStop, MainHalt, MainDestroy, MainAbort, mainOnly
    <3>2. QED BY <3>1
  <2>7. CASE Interrupt \/ Spurious \/ UNCHANGED vars
    <3>1. reader' = reader /\ (exit' = 0 => exit = 0) /\ (stopped' = "reader" => stopped = "reader")
      BY <2>7 DEF Interrupt, Spurious, mainOnly, vars, SetExit
    <3>2. QED BY <3>1
  <2>8. QED BY <2>1, <2>2, <2>3, <2>4, <2>5, <2>6, <2>7 DEF Next, ReaderNext, MainNext
<1>5. exit' = 0 /\ reader' = "returned" => queue' = <<>>
  <2>1. SUFFICES ASSUME exit' = 0, reader' = "returned" PROVE queue' = <<>>
    OBVIOUS
  <2>2. exit = 0 /\ ~halted
    BY <1>4, <2>1 DEF PipelineInv, Ending
  <2>3. CASE reader = "returned"
    BY <1>1, <1>2, <1>3, <2>2, <2>3 DEF Drained, Kinds, Quiet, Drop, PutBlock, PutNothing, Discard, Get,
       Process, Clear
  <2>4. QED BY <1>4, <2>1, <2>2, <2>3
<1>6. stopped' = "reader" => queue' = <<>> /\ next' = Len(decoded') + Busy' + 1
  <2>1. CASE stopped = "reader"
    <3>1. reader \in {"halt", "ended"} /\ queue = <<>> /\ next = Len(decoded) + Busy + 1
      BY <1>2, <1>3, <2>1 DEF PipelineInv, Ending, Drained
    <3>2. CASE Quiet \/ Clear
      <4>1. UNCHANGED <<next, decoded, held[Main]>> /\ queue' = <<>>
        BY <3>1, <3>2 DEF Quiet, Clear, rest
      <4>2. held[Main] # None => data'[held[Main]] = data[held[Main]]
        BY <3>2, Possessions DEF Quiet, Clear, Kept
      <4>3. Busy' = Busy
        BY <4>1, <4>2 DEF Busy, IsBlock
      <4>4. QED BY <3>1, <4>1, <4>3
    <3>3. CASE Process
      <4>1. queue' = queue /\ next' = next /\ Busy' = 0
        BY <3>3 DEF Process, Busy
      <4>2. CASE IsBlock(held[Main])
        <5>1. Busy = 1 /\ Len(decoded') = Len(decoded) + 1
          BY <3>3, <4>2, Types, FifoAssumption DEF Process, Busy
        <5>2. QED BY <3>1, <4>1, <5>1
      <4>3. CASE ~IsBlock(held[Main])
        BY <3>1, <3>3, <4>1, <4>3 DEF Process, Busy
      <4>4. QED BY <4>2, <4>3
    <3>4. QED BY <1>1, <1>2, <3>1, <3>2, <3>3 DEF Kinds, Drop, PutBlock, PutNothing, Discard, Get
  <2>2. CASE reader = "returned" /\ exit = 0 /\ UNCHANGED <<queue, data, held, halted, next, decoded>>
    <3>1. queue = <<>> /\ ~halted
      BY <1>2, <1>3, <2>2 DEF Drained, PipelineInv, Ending
    <3>2. Waiting = 0
      BY <3>1 DEF Waiting
    <3>3. next = Len(decoded) + Busy + 1
      BY <1>3, <3>1, <3>2, Counts DEF Complete
    <3>4. QED BY <2>2, <3>1, <3>3 DEF Busy, IsBlock
  <2>3. QED BY <1>4, <2>1, <2>2
<1>7. QED BY <1>5, <1>6

-------------------------------------------------------------------------------
(* The theorems                                                               *)

\* The program starts with an empty FIFO and an unread stream.
LEMMA PipelineInvInit == Init => PipelineInv
<1>1. SUFFICES ASSUME Init PROVE PipelineInv
  OBVIOUS
<1>2. IInv
  BY <1>1, IInvInit DEF Init
<1>3. /\ queue = <<>> /\ Len(queue) = 0 /\ Queued = {} /\ ~halted /\ overlap_buffer = 0
      /\ pc = [t \in Threads |-> "idle"] /\ held = [t \in Threads |-> None]
  BY <1>1, RangeEmpty, PipelineAssumption DEF Init, FifoInit, Queued
<1>4. held[Main] = None /\ Reading = {} /\ pc[Reader] = "idle" /\ pc[Main] = "idle"
  BY <1>3, TwoThreads DEF Reading
<1>5. decoded = <<>> /\ Len(decoded) = 0 /\ decoded \in Seq(Blocks)
  BY <1>1 DEF Init
<1>6. next = 1 /\ lost = {} /\ dropped = 0 /\ MaxBlocks \in Nat /\ WatchdogStart \in Nat \ {0}
  BY <1>1, PipelineAssumption DEF Init
<1>7. PipelineTypeOK
  <2>1. buf_dropped \in [Buffers -> 0 .. MaxBlocks] /\ dropped \in 0 .. MaxBlocks
    BY <1>1, <1>6 DEF Init
  <2>2. next \in 1 .. MaxBlocks + 1
    BY <1>6
  <2>3. watchdog \in 0 .. WatchdogStart
    BY <1>1, <1>6 DEF Init
  <2>4. exit \in 0 .. 2 /\ samples_dropped \in Nat /\ lost \subseteq Blocks
    BY <1>1 DEF Init
  <2>5. ControlType
    BY <1>1, <2>3, <2>4 DEF Init, ControlType
  <2>6. QED BY <1>5, <2>1, <2>2, <2>4, <2>5 DEF PipelineTypeOK, ControlType
<1>8. Placed
  BY <1>1, <1>4 DEF Init, Placed
<1>9. Sound
  BY <1>1, <1>2 DEF Init, Sound, IInv
<1>10. Ending
  BY <1>1, <1>3, <1>6 DEF Init, Ending
<1>11. Numbered
  BY <1>3, <1>6 DEF Numbered
<1>12. StreamContinuity
  BY <1>3, <1>4 DEF StreamContinuity
<1>13. Ordered
  BY <1>3, <1>4, <1>5 DEF Ordered
<1>14. Whole
  BY <1>3, <1>4, <1>5, <1>6 DEF Whole, Complete, Busy, Waiting
<1>15. Drained
  BY <1>1, <1>3 DEF Init, Drained
<1>16. DestroyIsSafe
  BY <1>1 DEF Init, DestroyIsSafe
<1>17. QED BY <1>7, <1>8, <1>9, <1>10, <1>11, <1>12, <1>13, <1>14, <1>15, <1>16 DEF PipelineInv

\* Every step, stuttering included, keeps the invariant.
LEMMA PipelineInvStep == PipelineInv /\ [Next]_vars => PipelineInv'
<1>1. SUFFICES ASSUME PipelineInv, [Next]_vars PROVE PipelineInv'
  OBVIOUS
<1>2. Kinds /\ source' = source
  BY <1>1, StepKinds
<1>3. PipelineTypeOK' /\ Placed' /\ Sound' /\ Ending'
  BY <1>1, PipelineTypeStep, CallsStep, SoundStep, EndingStep
<1>4. Numbered' /\ StreamContinuity' /\ Ordered' /\ Whole'
  BY <1>1, <1>2, NumberedStep, ContinuityStep, OrderedStep, WholeStep
<1>5. Drained' /\ DestroyIsSafe'
  BY <1>1, DrainedStep, DestroyStep
<1>6. QED BY <1>3, <1>4, <1>5 DEF PipelineInv

\* The inductive invariant holds throughout the run of the two threads.
LEMMA PipelineInductive == Spec => []PipelineInv
<1>1. QED BY PipelineInvInit, PipelineInvStep, PTL DEF Spec

\* The pipeline's variables keep their types; in particular the block counters stay
\* within the stream and the watchdog never goes below zero.
THEOREM PipelineTypeCorrect == Spec => []PipelineTypeOK
<1>1. PipelineInv => PipelineTypeOK
  BY DEF PipelineInv
<1>2. QED BY PipelineInductive, <1>1, PTL

\* What fifo_enqueue hands the demodulator is the device's sample stream: overlaps are
\* right and every gap is flagged and measured.
THEOREM StreamIsContinuous == Spec => []StreamContinuity
<1>1. PipelineInv => StreamContinuity
  BY DEF PipelineInv
<1>2. QED BY PipelineInductive, <1>1, PTL

\* Blocks reach demodulate2400 in stream order, none twice, a file's without a gap.
THEOREM BlocksInOrder == Spec => []DecodedInOrder
<1>1. PipelineInv => DecodedInOrder
  <2>1. SUFFICES ASSUME PipelineInv PROVE DecodedInOrder
    OBVIOUS
  <2>2. Ordered /\ Whole
    BY <2>1 DEF PipelineInv
  <2>a. decoded \in Seq(Blocks)
    BY <2>1, Types
  <2>b. DOMAIN decoded = 1 .. Len(decoded)
    BY <2>a
  <2>3. Range(decoded) \cap lost = {}
    BY <2>2, <2>b DEF Range, Ordered
  <2>4. QED BY <2>2, <2>3 DEF DecodedInOrder, Ordered, Whole, Complete
<1>2. QED BY PipelineInductive, <1>1, PTL

\* When the end of the file stops the program, all of it was demodulated.
THEOREM TrailingDataDecoded == Spec => []NoTrailingDataLost
<1>1. PipelineInv => NoTrailingDataLost
  <2>1. SUFFICES ASSUME PipelineInv, source = "file", stopped = "reader",
                        main \in {"stop", "halt", "join", "done"}
                 PROVE  Len(decoded) = next - 1
    BY DEF NoTrailingDataLost
  <2>2. held[Main] = None
    BY <2>1, Possessions
  <2>3. next = Len(decoded) + 0 + 1
    BY <2>1, <2>2 DEF PipelineInv, Drained, Busy
  <2>4. QED BY <2>1, <2>3, Places
<1>2. QED BY PipelineInductive, <1>1, PTL

\* fifo_destroy frees nothing that a thread still uses.
THEOREM FifoDestroyedLast == Spec => []DestroyIsSafe
<1>1. PipelineInv => DestroyIsSafe
  BY DEF PipelineInv
<1>2. QED BY PipelineInductive, <1>1, PTL
===============================================================================
