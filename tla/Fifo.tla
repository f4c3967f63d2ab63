--------------------------------- MODULE Fifo ---------------------------------
(***************************************************************************)
(* The sample-buffer FIFO of fifo.c: one mutex, three condition variables, *)
(* a freelist, a queue and the overlap buffer.  Every action is one stay   *)
(* under fifo_mutex, from taking it (or being given it back by a condition *)
(* wait) to leaving it (or starting to wait), so a call that blocks is     *)
(* several actions of its thread, with other threads' actions in between.  *)
(*                                                                         *)
(* Which thread calls what follows the programs that use the FIFO: an SDR  *)
(* reader acquires, fills, enqueues and drains; the demodulating thread    *)
(* dequeues and releases; both halt.  A call that returns NULL at once     *)
(* (no buffer and timeout_ms = 0, or halted) changes nothing and is a      *)
(* stuttering step.                                                        *)
(***************************************************************************)
EXTENDS Naturals, Sequences, Functions

CONSTANTS
    Buffers,     \* the preallocated struct mag_buf's
    Producers,   \* threads that acquire, enqueue and drain
    Consumers,   \* threads that dequeue and release
    Blocks,      \* contents of a stretch of samples
    Zero,        \* an overlap region that holds zeros
    NoSamples,   \* a buffer with no sample behind its overlap region
    None         \* the NULL pointer

ASSUME FifoAssumption ==
    /\ Producers # {}
    /\ Consumers # {}
    /\ Producers \cap Consumers = {}
    /\ None \notin Buffers
    /\ NoSamples \notin Blocks
    /\ Zero \notin Blocks

Threads == Producers \cup Consumers

Conds == {"notempty", "empty", "free"}

VARIABLES
    freelist,        \* fifo_freelist (a stack; which free buffer is on top is left open)
    queue,           \* fifo_head .. fifo_tail
    halted,          \* fifo_halted
    overlap_buffer,  \* the samples saved for the next buffer's overlap region
    data,            \* buffer -> contents of its data array, and the DISCONTINUOUS flag
    pc,              \* thread -> the call it is blocked in, or what it does outside calls
    held,            \* thread -> the buffer the last acquire or dequeue returned
    waiters          \* condition variable -> threads parked on it

fifoVars == <<freelist, queue, halted, overlap_buffer, data, pc, held, waiters>>

Content == [overlap : Blocks \cup {Zero},
            samples : Blocks \cup {NoSamples},
            discontinuous : BOOLEAN]

FifoTypeOK ==
    /\ freelist \subseteq Buffers
    /\ queue \in Seq(Buffers)
    /\ halted \in BOOLEAN
    /\ overlap_buffer \in Blocks \cup {Zero}
    /\ data \in [Buffers -> Content]
    /\ pc \in [Threads -> {"idle", "acquire", "filling", "drain", "dequeue", "demodulating"}]
    /\ held \in [Threads -> Buffers \cup {None}]
    /\ waiters \in [Conds -> SUBSET Threads]

FifoInit ==
    /\ freelist = Buffers
    /\ queue = <<>>
    /\ halted = FALSE
    /\ overlap_buffer = Zero
    /\ data = [b \in Buffers |-> [overlap |-> Zero, samples |-> NoSamples,
                                  discontinuous |-> FALSE]]
    /\ pc = [t \in Threads |-> "idle"]
    /\ held = [t \in Threads |-> None]
    /\ waiters = [c \in Conds |-> {}]

-------------------------------------------------------------------------------
(* Condition variables.  A thread whose pc names a blocking call holds no     *)
(* mutex: it is parked on the condition, or (not among its waiters) has been  *)
(* woken and competes for the mutex to look at the loop's condition again.    *)

Signal(c) ==
    \/ waiters[c] = {} /\ UNCHANGED waiters
    \/ \E t \in waiters[c] : waiters' = [waiters EXCEPT ![c] = @ \ {t}]

Broadcast(c) == waiters' = [waiters EXCEPT ![c] = {}]

Park(t, call, c) ==
    /\ pc' = [pc EXCEPT ![t] = call]
    /\ waiters' = [waiters EXCEPT ![c] = @ \cup {t}]

\* Thread t enters the call, or comes back from the call's condition wait.
Evaluates(t, call, c) ==
    \/ pc[t] = "idle"
    \/ pc[t] = call /\ t \notin waiters[c]

\* A condition wait may end for no reason.
SpuriousWakeup(t, c) ==
    /\ t \in waiters[c]
    /\ waiters' = [waiters EXCEPT ![c] = @ \ {t}]
    /\ UNCHANGED <<freelist, queue, halted, overlap_buffer, data, pc, held>>

\* pthread_cond_timedwait returns ETIMEDOUT: "goto done", which returns NULL
\* without looking at the lists again.  The wait may have consumed a signal.
TimedOut(t) ==
    /\ pc[t] \in {"acquire", "dequeue"}
    /\ pc' = [pc EXCEPT ![t] = "idle"]
    /\ waiters' = [c \in Conds |-> waiters[c] \ {t}]
    /\ UNCHANGED <<freelist, queue, halted, overlap_buffer, data, held>>

-------------------------------------------------------------------------------
(* fifo_acquire                                                               *)

AcquireWait(p) ==
    /\ Evaluates(p, "acquire", "free")
    /\ ~halted
    /\ freelist = {}
    /\ Park(p, "acquire", "free")
    /\ UNCHANGED <<freelist, queue, halted, overlap_buffer, data, held>>

AcquireHalted(p) ==
    /\ pc[p] = "acquire"
    /\ p \notin waiters["free"]
    /\ halted
    /\ pc' = [pc EXCEPT ![p] = "idle"]
    /\ UNCHANGED <<freelist, queue, halted, overlap_buffer, data, held, waiters>>

\* flags are cleared and validLength covers just the overlap region
AcquireTake(p, b) ==
    /\ Evaluates(p, "acquire", "free")
    /\ ~halted
    /\ b \in freelist
    /\ freelist' = freelist \ {b}
    /\ data' = [data EXCEPT ![b] = [overlap |-> data[b].overlap, samples |-> NoSamples,
                                    discontinuous |-> FALSE]]
    /\ pc' = [pc EXCEPT ![p] = "filling"]
    /\ held' = [held EXCEPT ![p] = b]
    /\ UNCHANGED <<queue, halted, overlap_buffer, waiters>>

-------------------------------------------------------------------------------
(* fifo_enqueue, of a buffer the caller filled with samples s and flags       *)

\* The last overlap_length samples of a buffer; with no new samples they are
\* the overlap region itself.
TailOf(d) == IF d.samples = NoSamples THEN d.overlap ELSE d.samples

EnqueueHalted(p) ==
    /\ pc[p] = "filling"
    /\ halted
    /\ freelist' = freelist \cup {held[p]}
    /\ pc' = [pc EXCEPT ![p] = "idle"]
    /\ held' = [held EXCEPT ![p] = None]
    /\ UNCHANGED <<queue, halted, overlap_buffer, data, waiters>>

Filled(s, discontinuous) ==
    [overlap |-> IF discontinuous THEN Zero ELSE overlap_buffer,
     samples |-> s,
     discontinuous |-> discontinuous]

\* Variants with a bug, which the properties must tell from the code.
EnqueueUnchecked(p, s, discontinuous) ==    \* does not look at fifo_halted
    /\ pc[p] = "filling"
    /\ data' = [data EXCEPT ![held[p]] = Filled(s, discontinuous)]
    /\ overlap_buffer' = TailOf(Filled(s, discontinuous))
    /\ queue' = Append(queue, held[p])
    /\ IF queue = <<>> THEN Signal("notempty") ELSE UNCHANGED waiters
    /\ pc' = [pc EXCEPT ![p] = "idle"]
    /\ held' = [held EXCEPT ![p] = None]
    /\ UNCHANGED <<freelist, halted>>

EnqueueSavingEarly(p, s, discontinuous) ==  \* saves the tail before filling the overlap
    /\ pc[p] = "filling"
    /\ ~halted
    /\ overlap_buffer' = TailOf([data[held[p]] EXCEPT !.samples = s])
    /\ data' = [data EXCEPT ![held[p]] = Filled(s, discontinuous)]
    /\ queue' = Append(queue, held[p])
    /\ IF queue = <<>> THEN Signal("notempty") ELSE UNCHANGED waiters
    /\ pc' = [pc EXCEPT ![p] = "idle"]
    /\ held' = [held EXCEPT ![p] = None]
    /\ UNCHANGED <<freelist, halted>>

Enqueue(p, s, discontinuous) ==
    /\ pc[p] = "filling"
    /\ ~halted
    /\ data' = [data EXCEPT ![held[p]] = Filled(s, discontinuous)]
    /\ overlap_buffer' = TailOf(Filled(s, discontinuous))
    /\ queue' = Append(queue, held[p])
    /\ IF queue = <<>> THEN Signal("notempty") ELSE UNCHANGED waiters
    /\ pc' = [pc EXCEPT ![p] = "idle"]
    /\ held' = [held EXCEPT ![p] = None]
    /\ UNCHANGED <<freelist, halted>>

-------------------------------------------------------------------------------
(* fifo_dequeue                                                               *)

DequeueWait(c) ==
    /\ Evaluates(c, "dequeue", "notempty")
    /\ ~halted
    /\ queue = <<>>
    /\ Park(c, "dequeue", "notempty")
    /\ UNCHANGED <<freelist, queue, halted, overlap_buffer, data, held>>

DequeueHalted(c) ==
    /\ pc[c] = "dequeue"
    /\ c \notin waiters["notempty"]
    /\ halted
    /\ pc' = [pc EXCEPT ![c] = "idle"]
    /\ UNCHANGED <<freelist, queue, halted, overlap_buffer, data, held, waiters>>

DequeueNewest(c) ==    \* variant: takes from the wrong end
    /\ Evaluates(c, "dequeue", "notempty")
    /\ ~halted
    /\ queue # <<>>
    /\ queue' = SubSeq(queue, 1, Len(queue) - 1)
    /\ IF Len(queue) = 1 THEN Broadcast("empty") ELSE UNCHANGED waiters
    /\ pc' = [pc EXCEPT ![c] = "demodulating"]
    /\ held' = [held EXCEPT ![c] = queue[Len(queue)]]
    /\ UNCHANGED <<freelist, halted, overlap_buffer, data>>

DequeueTake(c) ==
    /\ Evaluates(c, "dequeue", "notempty")
    /\ ~halted
    /\ queue # <<>>
    /\ queue' = Tail(queue)
    /\ IF Tail(queue) = <<>> THEN Broadcast("empty") ELSE UNCHANGED waiters
    /\ pc' = [pc EXCEPT ![c] = "demodulating"]
    /\ held' = [held EXCEPT ![c] = Head(queue)]
    /\ UNCHANGED <<freelist, halted, overlap_buffer, data>>

-------------------------------------------------------------------------------
(* fifo_release, fifo_drain, fifo_halt                                        *)

\* Variants: the caller's pointer is cleared before the buffer is pushed; the
\* freelist is tested after the push.
ReleaseNull(c) ==
    /\ pc[c] = "demodulating"
    /\ IF freelist = {} THEN Signal("free") ELSE UNCHANGED waiters
    /\ freelist' = freelist \cup {None}
    /\ pc' = [pc EXCEPT ![c] = "idle"]
    /\ held' = [held EXCEPT ![c] = None]
    /\ UNCHANGED <<queue, halted, overlap_buffer, data>>

ReleaseTestingLate(c) ==
    /\ pc[c] = "demodulating"
    /\ freelist' = freelist \cup {held[c]}
    /\ IF freelist' = {} THEN Signal("free") ELSE UNCHANGED waiters
    /\ pc' = [pc EXCEPT ![c] = "idle"]
    /\ held' = [held EXCEPT ![c] = None]
    /\ UNCHANGED <<queue, halted, overlap_buffer, data>>

Release(c) ==
    /\ pc[c] = "demodulating"
    /\ IF freelist = {} THEN Signal("free") ELSE UNCHANGED waiters
    /\ freelist' = freelist \cup {held[c]}
    /\ pc' = [pc EXCEPT ![c] = "idle"]
    /\ held' = [held EXCEPT ![c] = None]
    /\ UNCHANGED <<queue, halted, overlap_buffer, data>>

DrainWait(p) ==
    /\ Evaluates(p, "drain", "empty")
    /\ ~halted
    /\ queue # <<>>
    /\ Park(p, "drain", "empty")
    /\ UNCHANGED <<freelist, queue, halted, overlap_buffer, data, held>>

DrainReturn(p) ==
    /\ pc[p] = "drain"
    /\ p \notin waiters["empty"]
    /\ queue = <<>> \/ halted
    /\ pc' = [pc EXCEPT ![p] = "idle"]
    /\ UNCHANGED <<freelist, queue, halted, overlap_buffer, data, held, waiters>>

\* Variants: the queue is freed but not cleared; nobody is woken.
FifoHaltKeepingQueue(t) ==
    /\ pc[t] = "idle"
    /\ freelist' = freelist \cup Range(queue)
    /\ halted' = TRUE
    /\ waiters' = [c \in Conds |-> {}]
    /\ UNCHANGED <<queue, overlap_buffer, data, pc, held>>

FifoHaltSilent(t) ==
    /\ pc[t] = "idle"
    /\ freelist' = freelist \cup Range(queue)
    /\ queue' = <<>>
    /\ halted' = TRUE
    /\ UNCHANGED <<overlap_buffer, data, pc, held, waiters>>

FifoHalt(t) ==
    /\ pc[t] = "idle"
    /\ freelist' = freelist \cup Range(queue)
    /\ queue' = <<>>
    /\ halted' = TRUE
    /\ waiters' = [c \in Conds |-> {}]
    /\ UNCHANGED <<overlap_buffer, data, pc, held>>

-------------------------------------------------------------------------------

ProducerNext(p) ==
    \/ AcquireWait(p)
    \/ AcquireHalted(p)
    \/ \E b \in Buffers : AcquireTake(p, b)
    \/ EnqueueHalted(p)
    \/ \E s \in Blocks \cup {NoSamples}, discontinuous \in BOOLEAN :
           Enqueue(p, s, discontinuous)
    \/ DrainWait(p)
    \/ DrainReturn(p)

ConsumerNext(c) ==
    \/ DequeueWait(c)
    \/ DequeueHalted(c)
    \/ DequeueTake(c)
    \/ Release(c)

ThreadNext(t) ==
    \/ TimedOut(t)
    \/ \E c \in Conds : SpuriousWakeup(t, c)
    \/ FifoHalt(t)

FifoNext ==
    \/ \E p \in Producers : ProducerNext(p)
    \/ \E c \in Consumers : ConsumerNext(c)
    \/ \E t \in Threads : ThreadNext(t)

FifoSpec == FifoInit /\ [][FifoNext]_fifoVars

-------------------------------------------------------------------------------
(* Properties                                                                 *)

\* fifo.c moves buffers by pointer between two lists and its callers: whatever
\* the interleaving, each buffer is on the freelist, in the queue exactly once,
\* or held by exactly one thread; none is lost and none is in two places.
Queued == Range(queue)
Held == {held[t] : t \in Threads} \ {None}

BufferConservation ==
    /\ freelist \cup Queued \cup Held = Buffers
    /\ freelist \cap Queued = {}
    /\ freelist \cap Held = {}
    /\ Queued \cap Held = {}
    /\ \A i, j \in DOMAIN queue : queue[i] = queue[j] => i = j
    /\ \A t, u \in Threads : held[t] = held[u] /\ held[t] # None => t = u
    /\ \A t \in Threads : held[t] # None <=> pc[t] \in {"filling", "demodulating"}

\* After fifo_halt the queue stays empty and nobody is left parked, although
\* producers still hand in the buffers they were filling ("Future calls ... will
\* immediately put the produced buffer on the freelist", "existing calls ... will
\* be immediately awoken", fifo.h).
HaltedIsQuiet ==
    halted => queue = <<>> /\ \A c \in Conds : waiters[c] = {}

\* The signals fifo.c sends only on empty-to-nonempty transitions are enough:
\* never are all consumers parked while a buffer is queued, nor all producers
\* while one is free, nor anybody in fifo_drain while the queue is empty.
NoLostWakeup ==
    /\ queue # <<>> => waiters["notempty"] # Consumers
    /\ freelist # {} => waiters["free"] # Producers
    /\ queue = <<>> => waiters["empty"] = {}

\* The overlap regions chain: a queued buffer that is not flagged DISCONTINUOUS
\* starts with the end of the buffer queued just before it, and the next one
\* will start with the end of the last one queued.
OverlapChain ==
    /\ \A i \in 1 .. Len(queue) - 1 :
           LET d == data[queue[i + 1]]
           IN  d.overlap = IF d.discontinuous THEN Zero ELSE TailOf(data[queue[i]])
    /\ queue # <<>> => overlap_buffer = TailOf(data[queue[Len(queue)]])

\* Refinement: dropping threads and condition variables leaves BufferPool.
Filling == {held[p] : p \in Producers} \ {None}
Reading == {held[c] : c \in Consumers} \ {None}

Pool == INSTANCE BufferPool WITH
            free <- freelist, filling <- Filling, reading <- Reading

ImplementsBufferPool == Pool!PoolSpec
===============================================================================
