------------------------------ MODULE SdrPipeline ------------------------------
(***************************************************************************)
(* The two threads of dump1090.c around the FIFO: the reader thread, which *)
(* runs an SDR driver (a callback driver such as sdr_rtlsdr.c, or the file *)
(* reader sdr_ifile.c), and the main thread, which demodulates.  The calls *)
(* into fifo.c are Fifo's actions; this module adds where each thread is   *)
(* in its loop, Modes.exit, the sample stream and the dropped counters.    *)
(*                                                                         *)
(* Samples come in blocks numbered 1, 2, ...; Zero = 0, so that the block  *)
(* before the first one is silence.                                        *)
(***************************************************************************)
EXTENDS Fifo, FiniteSets

CONSTANTS
    Reader, Main,   \* the two threads
    MaxBlocks,      \* how many sample blocks the device or file has
    WatchdogStart   \* watchdogCounter's start value (300 in the code)

ASSUME PipelineAssumption ==
    /\ Producers = {Reader}
    /\ Consumers = {Main}
    /\ MaxBlocks \in Nat
    /\ Blocks = 1 .. MaxBlocks
    /\ Zero = 0
    /\ WatchdogStart \in Nat \ {0}

VARIABLES
    source,           \* which kind of driver runs: "callback" or "file"
    exit,             \* Modes.exit: 0, 1 (signal) or 2 (abnormal)
    reader,           \* where the reader thread is
    main,             \* where the main thread is
    watchdog,         \* watchdogCounter
    cancelled,        \* rtlsdr_cancel_async has been called
    eof,              \* ifileRun's eof
    next,             \* the next sample block
    dropped,          \* the callback's static dropped, in blocks
    buf_dropped,      \* buffer -> its dropped field, which fifo_acquire leaves alone
    samples_dropped,  \* Modes.stats_current.samples_dropped, in blocks
    lost,             \* history: the blocks no buffer was free for
    decoded,          \* history: the blocks demodulated, in order
    stopped           \* history: what ended the main loop first

streamVars == <<eof, next, dropped, buf_dropped, lost>>
statVars == <<samples_dropped, decoded>>
vars == <<fifoVars, source, exit, reader, main, watchdog, cancelled, streamVars,
          statVars, stopped>>

PipelineTypeOK ==
    /\ source \in {"callback", "file"}
    /\ exit \in 0 .. 2
    /\ reader \in {"run", "acquire", "fill", "drain", "returned", "halt", "ended"}
    /\ main \in {"loop", "dequeue", "process", "nothing", "stop", "halt", "join",
                 "done", "aborted"}
    /\ watchdog \in 0 .. WatchdogStart
    /\ cancelled \in BOOLEAN
    /\ eof \in BOOLEAN
    /\ next \in 1 .. MaxBlocks + 1
    /\ dropped \in 0 .. MaxBlocks
    /\ buf_dropped \in [Buffers -> 0 .. MaxBlocks]
    /\ samples_dropped \in Nat
    /\ lost \subseteq Blocks
    /\ decoded \in Seq(Blocks)
    /\ stopped \in {"no", "signal", "watchdog", "reader"}

Init ==
    /\ FifoInit
    /\ source \in {"callback", "file"}
    /\ exit = 0
    /\ reader = "run"
    /\ main = "loop"
    /\ watchdog = WatchdogStart
    /\ cancelled = FALSE
    /\ eof = FALSE
    /\ next = 1
    /\ dropped = 0
    /\ buf_dropped = [b \in Buffers |-> 0]
    /\ samples_dropped = 0
    /\ lost = {}
    /\ decoded = <<>>
    /\ stopped = "no"

\* Modes.exit := e
SetExit(e, cause) ==
    /\ exit' = e
    /\ stopped' = IF stopped = "no" THEN cause ELSE stopped

-------------------------------------------------------------------------------
(* The callback driver                                                        *)

readerOnly == <<source, exit, main, watchdog, cancelled, statVars, stopped>>

\* A transfer arrives and Modes.exit is not set.
CallbackEnter ==
    /\ source = "callback" /\ reader = "run"
    /\ exit = 0 /\ ~cancelled
    /\ next <= MaxBlocks
    /\ reader' = "acquire"
    /\ UNCHANGED <<fifoVars, readerOnly, streamVars>>

\* fifo_acquire(0) has no buffer: the block is dropped.
CallbackDrop ==
    /\ source = "callback" /\ reader = "acquire"
    /\ halted \/ freelist = {}
    /\ dropped' = dropped + 1
    /\ lost' = lost \cup {next}
    /\ next' = next + 1
    /\ reader' = "run"
    /\ UNCHANGED <<fifoVars, readerOnly, eof, buf_dropped>>

CallbackAcquire ==
    /\ source = "callback" /\ reader = "acquire"
    /\ \E b \in Buffers : AcquireTake(Reader, b)
    /\ reader' = "fill"
    /\ UNCHANGED <<readerOnly, streamVars>>

CallbackEnqueueUnflagged ==    \* variant: the flag is forgotten
    /\ source = "callback" /\ reader = "fill"
    /\ EnqueueHalted(Reader) \/ Enqueue(Reader, next, FALSE)
    /\ buf_dropped' = [buf_dropped EXCEPT ![held[Reader]] = dropped]
    /\ dropped' = 0
    /\ next' = next + 1
    /\ reader' = "run"
    /\ UNCHANGED <<readerOnly, eof, lost>>

\* The dropped field is written only when there is something to report.
CallbackEnqueue ==
    /\ source = "callback" /\ reader = "fill"
    /\ EnqueueHalted(Reader) \/ Enqueue(Reader, next, dropped > 0)
    /\ buf_dropped' = IF dropped > 0 THEN [buf_dropped EXCEPT ![held[Reader]] = dropped]
                                     ELSE buf_dropped
    /\ dropped' = 0
    /\ next' = next + 1
    /\ reader' = "run"
    /\ UNCHANGED <<readerOnly, eof, lost>>

\* rtlsdr_read_async returns: a callback saw Modes.exit and cancelled, sdrStop did.
CallbackCancelled ==
    /\ source = "callback" /\ reader = "run"
    /\ exit # 0 \/ cancelled
    /\ cancelled' = TRUE
    /\ reader' = "returned"
    /\ UNCHANGED <<fifoVars, source, exit, main, watchdog, streamVars, statVars, stopped>>

\* rtlsdr_read_async returns because the USB device is gone.
DeviceLost ==
    /\ source = "callback" /\ reader = "run"
    /\ reader' = "returned"
    /\ UNCHANGED <<fifoVars, readerOnly, streamVars>>

-------------------------------------------------------------------------------
(* The file reader                                                            *)

FileLoop ==
    /\ source = "file" /\ reader = "run" /\ pc[Reader] = "idle"
    /\ reader' = IF exit # 0 \/ eof THEN "drain" ELSE "acquire"
    /\ UNCHANGED <<fifoVars, readerOnly, streamVars>>

\* fifo_acquire(100) waits, or gives up and the loop goes round again
FileAcquire ==
    /\ source = "file" /\ reader = "acquire"
    /\ \/ (\E b \in Buffers : AcquireTake(Reader, b)) /\ reader' = "fill"
       \/ AcquireWait(Reader) /\ reader' = reader
       \/ (AcquireHalted(Reader) \/ TimedOut(Reader)) /\ reader' = "run"
       \/ pc[Reader] = "idle" /\ halted /\ reader' = "run" /\ UNCHANGED fifoVars
    /\ UNCHANGED <<readerOnly, streamVars>>

\* A block is read, the last one perhaps short; or the file ends just here and
\* an empty buffer is queued.
FileRead ==
    /\ source = "file" /\ reader = "fill"
    /\ \/ /\ next <= MaxBlocks
          /\ EnqueueHalted(Reader) \/ Enqueue(Reader, next, FALSE)
          /\ next' = next + 1
          /\ eof' \in BOOLEAN
       \/ /\ EnqueueHalted(Reader) \/ Enqueue(Reader, NoSamples, FALSE)
          /\ eof' = TRUE
          /\ UNCHANGED next
    /\ reader' = "run"
    /\ UNCHANGED <<readerOnly, dropped, buf_dropped, lost>>

FileDrainTimed ==    \* variant: stops waiting after a while, as the other calls do
    /\ source = "file" /\ reader = "drain"
    /\ \/ DrainWait(Reader) /\ reader' = reader
       \/ /\ pc' = [pc EXCEPT ![Reader] = "idle"]
          /\ waiters' = [c \in Conds |-> waiters[c] \ {Reader}]
          /\ reader' = "returned"
          /\ UNCHANGED <<freelist, queue, halted, overlap_buffer, data, held>>
    /\ UNCHANGED <<readerOnly, streamVars>>

\* "Wait for the FIFO to drain so we don't throw away trailing data"
FileDrain ==
    /\ source = "file" /\ reader = "drain"
    /\ \/ DrainWait(Reader) /\ reader' = reader
       \/ DrainReturn(Reader) /\ reader' = "returned"
       \/ /\ pc[Reader] = "idle"
          /\ queue = <<>> \/ halted
          /\ reader' = "returned"
          /\ UNCHANGED fifoVars
    /\ UNCHANGED <<readerOnly, streamVars>>

-------------------------------------------------------------------------------
(* readerThreadEntryPoint, after sdrRun                                       *)

ReaderReturned ==
    /\ reader = "returned"
    /\ IF exit = 0 THEN SetExit(2, "reader") ELSE UNCHANGED <<exit, stopped>>
    /\ reader' = "halt"
    /\ UNCHANGED <<fifoVars, source, main, watchdog, cancelled, streamVars, statVars>>

ReaderHalt ==
    /\ reader = "halt"
    /\ FifoHalt(Reader)
    /\ reader' = "ended"
    /\ UNCHANGED <<readerOnly, streamVars>>

-------------------------------------------------------------------------------
(* The main thread                                                            *)

mainOnly == <<source, reader, cancelled, streamVars>>

\* The loop's test and the call of fifo_dequeue(100) up to its first wait.
MainDequeue ==
    /\ main = "loop" /\ exit = 0
    /\ \/ DequeueTake(Main) /\ main' = "process"
       \/ DequeueWait(Main) /\ main' = "dequeue"
       \/ halted /\ main' = "nothing" /\ UNCHANGED fifoVars
    /\ UNCHANGED <<mainOnly, exit, watchdog, statVars, stopped>>

MainWaiting ==
    /\ main = "dequeue"
    /\ \/ DequeueTake(Main) /\ main' = "process"
       \/ DequeueWait(Main) /\ main' = main
       \/ (DequeueHalted(Main) \/ TimedOut(Main)) /\ main' = "nothing"
    /\ UNCHANGED <<mainOnly, exit, watchdog, statVars, stopped>>

\* Demodulate, add the buffer's dropped field to the statistics whatever its
\* flags say, release the buffer.
MainProcess ==
    /\ main = "process"
    /\ LET b == held[Main]
       IN  /\ decoded' = IF data[b].samples = NoSamples THEN decoded
                         ELSE Append(decoded, data[b].samples)
           /\ samples_dropped' = samples_dropped + buf_dropped[b]
    /\ Release(Main)
    /\ watchdog' = WatchdogStart
    /\ main' = "loop"
    /\ UNCHANGED <<mainOnly, exit, stopped>>

MainNothingUnwatched ==    \* variant: only a negative counter ends the program
    /\ main = "nothing"
    /\ watchdog' = watchdog - 1
    /\ IF watchdog' < 0 THEN SetExit(2, "watchdog") ELSE UNCHANGED <<exit, stopped>>
    /\ main' = "loop"
    /\ UNCHANGED <<fifoVars, mainOnly, statVars>>

MainNothing ==
    /\ main = "nothing"
    /\ watchdog' = watchdog - 1
    /\ IF watchdog' = 0 THEN SetExit(2, "watchdog") ELSE UNCHANGED <<exit, stopped>>
    /\ main' = "loop"
    /\ UNCHANGED <<fifoVars, mainOnly, statVars>>

MainLeavesLoop ==
    /\ main = "loop" /\ exit # 0
    /\ main' = "stop"
    /\ UNCHANGED <<fifoVars, mainOnly, exit, watchdog, statVars, stopped>>

\* sdrStop: only the RTL-SDR driver has one.
MainStop ==
    /\ main = "stop"
    /\ cancelled' = (cancelled \/ source = "callback")
    /\ main' = "halt"
    /\ UNCHANGED <<fifoVars, source, reader, streamVars, exit, watchdog, statVars, stopped>>

MainHalt ==
    /\ main = "halt"
    /\ FifoHalt(Main)
    /\ main' = "join"
    /\ UNCHANGED <<mainOnly, exit, watchdog, statVars, stopped>>

MainDestroyUnjoined ==    \* variant: does not wait for the reader
    /\ main = "join"
    /\ freelist' = {}
    /\ queue' = <<>>
    /\ main' = "done"
    /\ UNCHANGED <<halted, overlap_buffer, data, pc, held, waiters,
                   mainOnly, exit, watchdog, statVars, stopped>>

\* The reader has been joined: fifo_destroy frees the two lists.
MainDestroy ==
    /\ main = "join" /\ reader = "ended"
    /\ freelist' = {}
    /\ queue' = <<>>
    /\ main' = "done"
    /\ UNCHANGED <<halted, overlap_buffer, data, pc, held, waiters,
                   mainOnly, exit, watchdog, statVars, stopped>>

\* No reader after 30 s: abort().
MainAbort ==
    /\ main = "join" /\ reader # "ended"
    /\ main' = "aborted"
    /\ UNCHANGED <<fifoVars, mainOnly, exit, watchdog, statVars, stopped>>

-------------------------------------------------------------------------------

\* SIGINT or SIGTERM (the handler resets itself, so only once).
Interrupt ==
    /\ exit # 1
    /\ main \notin {"done", "aborted"}
    /\ SetExit(1, "signal")
    /\ UNCHANGED <<fifoVars, mainOnly, main, watchdog, statVars>>

Spurious ==
    /\ \E t \in Threads, c \in Conds : SpuriousWakeup(t, c)
    /\ UNCHANGED <<mainOnly, main, exit, watchdog, statVars, stopped>>

Alive == main # "aborted"

ReaderNext ==
    \/ CallbackEnter \/ CallbackDrop \/ CallbackAcquire \/ CallbackEnqueue
    \/ CallbackCancelled
    \/ FileLoop \/ FileAcquire \/ FileRead \/ FileDrain
    \/ ReaderReturned \/ ReaderHalt

MainNext ==
    \/ MainDequeue \/ MainWaiting \/ MainProcess \/ MainNothing
    \/ MainLeavesLoop \/ MainStop \/ MainHalt \/ MainDestroy

Next ==
    \/ Alive /\ ReaderNext
    \/ Alive /\ DeviceLost
    \/ MainNext
    \/ MainAbort
    \/ Interrupt
    \/ Alive /\ Spurious

\* Both threads keep being scheduled, timed waits end, reads of the file return.
\* A lost device, signals, spurious wakeups and the 30 s of the join need not come.
Fairness == WF_vars(Alive /\ ReaderNext) /\ WF_vars(MainNext)

Spec == Init /\ [][Next]_vars /\ Fairness

-------------------------------------------------------------------------------
(* Properties                                                                 *)

\* What reaches the demodulator is the device's sample stream: a buffer not
\* flagged DISCONTINUOUS overlaps with the block right before its own, and a
\* flagged one starts from zeros, comes right after dropped blocks, and its
\* dropped field counts exactly those (fifo.h's picture of overlapping buffers).
StreamContinuity ==
    \A b \in Queued \cup Reading :
        LET d == data[b]
            k == d.samples
        IN  k # NoSamples =>
              /\ d.discontinuous <=> k - 1 \in lost
              /\ d.overlap = IF d.discontinuous THEN Zero ELSE k - 1
              /\ d.discontinuous => /\ k - buf_dropped[b] .. k - 1 \subseteq lost
                                    /\ k - buf_dropped[b] - 1 \notin lost

\* Blocks are demodulated in stream order, none twice, none that was dropped;
\* a file is never dropped from, so its blocks are demodulated without a gap.
DecodedInOrder ==
    /\ \A i \in 1 .. Len(decoded) - 1 : decoded[i] < decoded[i + 1]
    /\ Range(decoded) \cap lost = {}
    /\ source = "file" => \A i \in 1 .. Len(decoded) : decoded[i] = i

\* "Wait for the FIFO to drain so we don't throw away trailing data" (sdr_ifile.c):
\* when the end of the file is what stops the program, every block was demodulated.
NoTrailingDataLost ==
    source = "file" /\ stopped = "reader" /\ main \in {"stop", "halt", "join", "done"}
        => Len(decoded) = next - 1

\* fifo_destroy runs when no thread is inside the FIFO or holds a buffer: no use
\* after free, and nothing left unfreed.
DestroyIsSafe ==
    main = "done" => /\ reader = "ended"
                     /\ Held = {}
                     /\ \A t \in Threads : pc[t] = "idle"

\* Once Modes.exit is set the reader gets out of whatever FIFO call it is in and
\* both threads finish; the abort() after 30 s is never the only way out.
ShutdownCompletes == exit # 0 ~> main \in {"done", "aborted"}

\* "dropped: (approx) number of dropped samples, if flag MAGBUF_DISCONTINUOUS is
\* set" (fifo.h): the samples_dropped statistic never counts more than was dropped.
DropsCountedOnce == samples_dropped <= Cardinality(lost)
===============================================================================
