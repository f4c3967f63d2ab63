# rbfeeder: a TLA+ verification project

`rbfeeder` receives Mode S, Mode A/C and UAT transmissions from aircraft with a
software-defined radio, tracks the aircraft, and feeds them to the AirNav server
over one TCP connection and to local "ANRB" clients. The `Makefile` builds two programs:

- `dump1090-rb`, the receiver: the radio's driver, the sample FIFO, demodulation, and the
  main loop of `dump1090.c`;
- `rbfeeder`, the feeder: `rbfeeder.c` and AirNav's threads (`airnav_*.c`). It starts
  dump1090-rb, or connects to another receiver, and reads messages in Beast format over TCP.

Decoding, tracking, the address filter and the network services (`mode_s.c`, `crc.c`,
`track.c`, `icao_filter.c`, `net_io.c`) are linked into both, and run in the main thread of
each. All of it is C with POSIX threads, a handful of mutexes and many globals without one.

This directory holds TLA+ modules of its concurrent core, the TLC runs that check
them, and proofs checked by TLAPS. `PROJECT.json` lists, in machine-readable form,
the components, the runs, a mutant for every property, the source lines behind
every definition, the hazards, findings and theorems.

How to run, in this directory:

    tlc -workers 2 -config MCFifo.cfg MCFifo       # and likewise every other .cfg
    tlapm SdrPipelineProofs.tla                   # and likewise every other *Proofs.tla

## 1. Inventory

The threads of dump1090-rb: **main** (the demodulating loop of `dump1090.c`) and **reader**
(the SDR driver). The threads of rbfeeder: **main** (the loop of `rbfeeder.c`), **monitor**
(`airnav_monitorConnection`), **command reader** (`net_thread_WaitCmds`),
**prepareData**, **threadSendData**, **send stats**, the **ANRB** accept thread, its
sender and a handler per client, and the **UAT**, **MLAT**, ... supervisors.

### Sample FIFO: `fifo.c`, `fifo.h`
- *State*: a freelist, a queue, the halted flag, the saved overlap, one mutex, three
  condition variables.
- *Operations*: create, acquire (with a timeout), enqueue, dequeue (with a timeout),
  release, drain, halt, destroy.
- *Interactions*: in dump1090-rb the SDR driver produces, the main loop consumes, both halt.
- *Hard*: signals only on empty-to-non-empty edges; halting while buffers are out;
  the overlap carried between buffers by way of a shared copy; a drain without timeout.
- *Correct if*: every buffer is in exactly one place; the threads of one side never all
  sleep beside work they could do (of several, some may); order is kept; nothing is handed
  out after a halt; overlaps chain.

### SDR pipeline: `dump1090.c`, `sdr.c`, `sdr_rtlsdr.c`, `sdr_ifile.c` and other drivers
- *State*: `Modes.exit`, the watchdog counter, the callback's static `dropped`, each
  buffer's fields, where the two threads are.
- *Operations*: a callback per block of samples, the file reading loop, the main loop,
  signal handlers, the shutdown sequence stop / halt / timed join / destroy.
- *Hard*: no buffer free (drop, then flag the gap); a lost device; a signal anywhere;
  draining a file while the main loop leaves; joining with a timeout and then freeing.
- *Correct if*: what is decoded is the stream with flagged gaps, a file is decoded to
  its end, shutdown ends and frees nothing in use, drops are counted once.

### Server link: `airnav_net.c`, `airnav_sk.c`, `airnav_proc_packets.c`, `airnav_main.c`
- *State*: `airnav_socket` and `airnav_com_inited` (globals used by at least four threads
  without a common lock), the one-place reply mailbox `expected*` under `m_cmd`, the
  sharing key in the ini file.
- *Operations*: connect, request a key, send the key, wait for a reply (with a timeout),
  ping, send statistics and data, receive and dispatch, disconnect on any error.
- *Hard*: a disconnect by one thread while another connects, sends or waits; a reply
  before the wait or after its timeout; a dead peer TCP has not noticed.
- *Correct if*: the link opens only on the server's answer to this attempt; no state that
  looks open but is not lasts; a dead link is noticed; the monitor never gives up.

### Link packet reader: `net_thread_WaitCmds` in `airnav_net.c`
- *State*: a byte buffer and the expected size, which outlive a connection.
- *Operations*: one byte at a time: start mark, size, type, payload, delivery.
- *Hard*: a connection that breaks inside a packet; noise; start marks in payloads; a
  full buffer.
- *Correct if*: a packet on a clean stream is delivered whole and once; nothing malformed
  is; after trouble the reader finds the packets again.

### Flight reports: `airnav_main.c`, `airnav_proc_packets.c`, `airnav_uat.c`, `airnav_anrb.c`
- *State*: per aircraft and field the last emitted value and time (`an.rpisrv_emitted_*`),
  two linked lists of packets, `m_copy` and `m_copy2`.
- *Operations*: a round of prepareData every second over all aircraft, the UAT push, the
  hand-over of the list to each of two senders, sending a batch.
- *Interactions*: prepareData reads `Modes.aircrafts`, which the tracker writes, in the main
  thread, without any of these mutexes.
- *Hard*: an aircraft that changes between the test of a field, its mark as emitted and its
  copy in the packet; a packet abandoned after its fields were marked; the list pushed by two
  threads and taken by another; LIFO order; batches dropped while the link is down.
- *Correct if*: no packet leaks or is freed twice; what is remembered as emitted was
  emitted, or has changed since; reports are throttled but changes are not lost for good; the
  lists are served.

### ICAO address filter: `icao_filter.c`
- *State*: two hash tables with linear probing, which of them is active, the time of the
  next flip.
- *Operations*: add (to the active table), test (both), expire (once a minute: clear the
  inactive table and make it the active one).
- *Interactions*: the decoder tests the addresses of replies that have no checksum of
  their own and adds those of messages that have one; the background tasks flip.
- *Hard*: collisions, probing around the end, full tables, a flip between two messages.
- *Correct if*: hashing and flipping are invisible: what was added within one period is
  known, what was not within two is not.

### Decoding and error correction: `mode_s.c`, `crc.c`
- *State*: tables of syndromes, built once.
- *Operations*: checksum, diagnosis of a syndrome, `correctMessage`, scoring, decoding.
- *Hard*: lengths that are told by the message itself, which may be damaged; a checksum
  overlaid with an interrogator's code or an address; corrections of more than was wrong.
- *Correct if*: a single error is undone, and nothing else is taken for one.

### Aircraft tracking: `track.c`
- *State*: a list of aircraft; for each how often it was heard with how good a checksum,
  and for each field the source it came from and until when it counts.
- *Operations*: update from a message, expiry of fields, removal of aircraft.
- *Hard*: sources of different rank racing each other's staleness; positions that depend on
  two messages, or on the last position; noise that creates aircraft.
- *Correct if*: a position rests on a consistent pair of messages; a reply without checksum
  counts only for an address recently seen with one; who is silent disappears.

### Network services: `net_io.c`, `anet.c`
- *State*: the list of clients, the services they belong to with their counts and output
  buffers, each client's input buffer.
- *Operations*: passes of accept, read, heartbeat, flush and free; writing a message to all
  clients of an output; moving a client between outputs; parsing what clients send.
- *Hard*: a write for one client closes another, or the one being handled; buffers shared by
  all clients of a service; messages cut anywhere by TCP; doubled escape bytes.
- *Correct if*: each client gets, whole and in order, what was written while it was attached;
  counts are right; what is written is read back.

### Feeder process: `rbfeeder.c`, `airnav_dumprb.c`, `airnav_rtlpower.c`
- *State*: the connection to the source, the mode (local dump1090-rb or an external host),
  a requested survey, whether dump1090-rb runs.
- *Operations*: a loop of background tasks, survey, connecting, reconnecting; commands of the
  server that restart dump1090-rb or ask for a survey.
- *Hard*: waiting loops inside the loop; the server's commands in another thread.
- *Correct if*: a lost source is connected to again, a survey ends, clients are kept alive.

### Parts not modelled
| Part | State and operations | Why not |
|---|---|---|
| ANRB local clients (`airnav_anrb.c`) | slot table, accept thread, a handler per client | its sender's use of the packet list is in `FlightReports`; a slot is filled by the accept thread and emptied by its own handler |
| Child supervisors (`airnav_mlat.c`, `airnav_uat.c`, `airnav_vhf.c`, `airnav_acars.c`), the other commands in `airnav_cmd.c` | a pid each, `posix_spawn`, `kill` | no protocol: start if no pid, kill if there is one; children are reaped by the kernel (SIGCHLD is ignored). The unlocked start from two threads is a listed hazard |
| Configuration store (`airnav_utils.c`) | the ini file, rewritten whole by several threads | file I/O; its unlocked read-modify-write is a listed hazard |
| Mode A/C matching (`mode_ac.c`), statistics (`stats.c`), adaptive gain (`adaptive.c`) | counters and tables | off in the feeder, or sums, or floating point |
| Demodulation (`demod_2400.c`, `convert.c`), fields of messages (`comm_b.c`, `cpr.c`, most of `mode_s.c`) | none: functions of samples or of a message | numeric, and inputs out of TLC's reach |
| Encoders and output (`airnav_asterix.c`, `airnav_geomag.c`, `interactive.c`, `util.c`, `cpu.c`) | none, or a terminal | formatting |
| `dsp/`, `starch/`, `cpu_features/`, `compat/`, `tools/`, `oneoff/`, `debian/`, `wisdom/`, `bladerf/`, `rbfeeder.proto` | | vendored, generated, packaging |

## 2. Plan

The modules, in the order in which they were written, the most important behaviour first;
an arrow means "implements", a plus "composes":

1. `BufferPool`, `Fifo` -> `BufferPool`; `SdrPipeline` + `Fifo`, `SdrPipelineProofs`
   about both.
2. `ServerLink`, `ServerLinkProofs`; `PacketReader`, `PacketReaderProofs`.
3. `FlightReports`, `FlightReportsProofs`.
4. `AddressMemory`, `IcaoFilter` -> `AddressMemory`; `Track` + `IcaoFilter`, `TrackProofs`
   about both; `ErrorCorrection`, on which `Track` relies; `Receiver` = `Track` +
   `ErrorCorrection`, `ErrorCorrectionProofs`.
5. `NetServices`; `Feeder` + `NetServices`; `BeastStream`, on which `NetServices` relies,
   `BeastStreamProofs`; `FeederStreams` = `Feeder` + `BeastStream`, `FeederProofs`.

What could follow: the other fields of the flight reports (above all the squawk, whose
throttle compares the clock with the squawk itself, a listed hazard), the correction of two errors with its collision checks,
the ASCII formats of `net_io.c`.

## 3. The modules and how they correspond to the code

### BufferPool
What `fifo.h` promises, without threads: buffers are free, being filled, queued or being
read. Its six actions are the six changes of place.

### Fifo
An action is one stay under `fifo_mutex`: from locking it, or being given it back by
`pthread_cond_wait`, to unlocking it or starting to wait. A call that blocks is therefore
several actions (`AcquireWait`, then `AcquireTake` or `AcquireHalted`), and other threads
run in between. A condition variable is the set of threads parked on it; `Signal` frees
any one of them, `Broadcast` all, `SpuriousWakeup` one for no reason and `TimedOut` one
whose deadline has passed. `data[b]` is what matters of a buffer's contents: which block
its overlap region repeats, which block it holds, whether it is flagged discontinuous.
The freelist is a set: the code uses it as a stack and nothing depends on which free
buffer comes first. A call that fails at once without side effects is a stuttering step.

### SdrPipeline
EXTENDS `Fifo` with one reader and one main thread. `reader` and `main` are their program
counters. `source` chooses, once, whether the driver is the RTL-SDR callback (drops when
no buffer is free) or the file reader (waits for buffers and drains at the end). Samples
come in numbered blocks, so "the stream" is 1, 2, 3, ...; half-filled buffers and a
buffer that spans two blocks are not distinguished. `MainAbort` is the abort after a
reader that does not end in 30 s. `lost`, `decoded` and `stopped` are history variables.

### ServerLink
`pc[t]` is where a thread is. Because the globals are unlocked, each action has at most
one access to `airnav_socket` or `airnav_com_inited` that another thread could come
between: `net_force_disconnect` is `Close` then `Unset`, and the monitor's reconnection is
`InitialCom`, `Connected`, `SendKey`, `ArmWait`, ... Descriptors are reused lowest first, as
the kernel does, which is what makes a second `close()` dangerous. The server answers a
request at most once or never; commands and damaged packets come at any time; the peer may
vanish, and TCP notices later. What a command does is another component's business:
`CTR_CMD` either leads to an answer being sent or not.

### PacketReader
`ReadByte` is one turn of the receiving loop with its whole `if` ladder (`Take`);
`BufferFull` is the branch without room, which leaves the byte on the socket. The server
sends whole frames; a connection may be cut inside one and noise may come between.

### FlightReports
List nodes are numbered memory cells; `malloc` gives free ones, the lists are sequences
of nodes. prepareData visits the aircraft one by one under both mutexes (`PrepareLock`,
`PrepareLock2`, `PrepareUnlock`), but the tracker holds neither. So a visit is a step for
each time the code reads a field: `TestField` reads it to decide (`Due`, the throttle
condition), `EmitField` to remember it in `an.rpisrv_emitted_*` with the time, `CopyField` to
put it in the packet; for the altitude these are lines 1266, 1270 and 1283 of
`airnav_main.c`. The tracker's `TrackChanges` and `TrackExpires` may come between any two of
them. After the last field `Send` links the two packets in front of the lists (`Report`), or
frees them. `Visit` begins one; whether it forces reports (`force_send`) is left open.

The UAT receiver reads the head of flist for its node's link (`UatPush`) and then makes the
node the head (`UatPushed`), under m_copy. The sender locks m_copy and copies the head
(`SendLock`), sets flist to NULL and unlocks (`SendClear`; if the list was empty it goes back
to sleep), then sends the batch or drops it, and frees it (`SendFlights`). The ANRB sender
does the same with flist2 and m_copy2. Time is the ticks since each emission, counted up to
the interval; since a visit reads the clock once, ticks fall between visits. History
variables: `reported` and `quiet` are what was put on flist last and how long ago, `changed`
and `visit.changed` whether the tracker changed an altitude before it was emitted, `server`
the altitude the server heard last.

Because of the unlocked reads the altitude remembered as emitted need not be the one that is
sent. `AltitudeReported` says that it is, unless the tracker has changed it since it was
emitted; the next round will see that change. The price is a packet that repeats an altitude
within the interval, and `AltitudeThrottled` says that each packet has a change of its own, an
elapsed interval, or forced reports to answer for it.

### AddressMemory
What the decoder may rely on: the addresses known, how long ago each was added, and the
ones refused because the memory was full. `Forget` may forget what is old enough, at any
time; `Pass` may not let what is too old stay.

### IcaoFilter
`icao_filter` is the two tables, slot by slot; `hash` is any function, so that TLC can be
given one where everything collides. `Reaches` is the probing loop: the slots before the
n-th neither hold the address nor are empty. Time is ticks to the next flip; `FilterTick`
does not pass a flip that is due, since `backgroundTasks` runs many times a second.

### Track
EXTENDS `IcaoFilter`. `Receive` is `useModesMessage` with what precedes it: scoring
(`scoreModesMessage`), vouching (`icaoFilterAdd`), `trackUpdateFromMessage`. Messages are
records of what the code tells apart: type, address, corrected bits, source, whether there
is an altitude or a CPR frame. Of the forty fields, which all go through `accept_data`, there
are the altitude, both CPR frames and the position. Whether a pair or a single frame gives
a plausible position is left open (`Outcomes`). `anchored` is a history variable: whether
the position rests on a good pair without a break.

### ErrorCorrection
The real polynomial, tables and lengths; words and messages are sets of bits, so that
exclusive or is symmetric difference. Constant expressions only: there is no state beyond
the tables, and the properties quantify over messages and error patterns. What they owe to
the polynomial are facts about 112 fixed remainders, stated as four assumptions that depend
on no parameter (`FirstRemainders`, `RemaindersOdd`, `RemaindersNoCodes`, `RemaindersDiffer`);
TLC computes them on every run of `tracking`, and the proofs rest on them.

### Receiver
`Track` and `ErrorCorrection` together, as in the main threads: `CorrectionsRight` says of the
states in which aircraft are tracked that the corrected messages they come from are right.

### NetServices
One thread in passes; `phase` is where `modesNetPeriodicWork` is and `todo` the clients it
still has to read. Two Beast outputs and the Beast input. `Write` is a message written to
an output, with the flush before (no room) and after (enough buffered); every flush takes
the set of clients whose `write` fails. `due` is a history variable: what was queued for a
client and not yet sent. A client that is closed stays on the list until `FreeClosed`, as
in the code.

### Feeder
EXTENDS `NetServices` with the main loop of `rbfeeder.c`, one action per way a turn can go.
`connectData(connected)` is a connection attempt with its outcome. The commands of the
server and the death of dump1090-rb are put at the end of a turn, where the main thread
looks at what they change; in `connecting` it does nothing but try. A new connection is a
new `net_service` in the code, which is never freed; the model reuses one.

### BeastStream
The bytes of a Beast stream: `writeBeastMessage`, `sendBeastSettings`, and
`modesReadFromClient` with `READ_MODE_BEAST` and `READ_MODE_BEAST_COMMAND`, turn by turn,
given how much has arrived at each. Constant expressions only, like `ErrorCorrection`. Each
loop of the code is a function from the state at the top of the loop to the state after its
body, and `Turns` is the sequence of states it goes through. It is what allows `NetServices`
to treat messages as units.

### FeederStreams
`Feeder` and `BeastStream` together, for the one property that needs both.

## 4. The runs

| Run | Instance | States | Shows |
|---|---|---|---|
| `fifo` | 3 buffers, 2 producers, 2 consumers, 2 block contents | 435,108 | the six FIFO properties, with refinement of `BufferPool` |
| `pipeline` | 2 buffers, 5 blocks, watchdog 2 | 120,250 | stream continuity, order, trailing data, safe destroy, shutdown |
| `pipeline_drops` | the same | | finding 1 |
| `link` | monitor, reader, 1 sender, 2 descriptors, 2 packets in flight | 233,493 | acceptance, half-open and dead links, retries |
| `link_reply` | the same | | finding 2 |
| `framing` | buffer of 10, 4 frames, 3 kinds of noise, 3 disturbances | 23,735 | whole frames, nothing malformed, resynchronisation |
| `flights` | 1 aircraft with an altitude, 2 altitudes, 3 nodes, interval 1 | 146,400 | memory, throttle, service, the server catches up |
| `flights_callsign` | 1 aircraft with altitude and callsign, 2 values, 2 nodes | | finding 3 |
| `tracking` | 1 aircraft and address 0, a filter of 2 slots that all collide, TTL 1 | 134,116 | anchored positions, vouched addresses, the filter as a memory, removal; error correction |
| `feeder` | the source and 2 clients, 2 outputs, a buffer of 4, modes 0 and 2, 1 survey | 328,432 | streams, counts, heartbeats, reconnection, surveys; framing |
| `feeder_move` | the same, mode 2 | | finding 4 |
| `feeder_local` | the same, mode 0 | | finding 5 |

**Why the bounds are enough.** Two threads on each side are what a signal sent to only one
needs to go wrong, and three buffers let the queue and the freelist both pass through
empty, one and more while each side holds one. Buffers, producers and
consumers are interchangeable (`SYMMETRY`, used only there and with no liveness property).
Two buffers and five blocks make the pipeline run dry, drop, recover and reuse a
buffer that carried a drop; the watchdog's 300 turns become 2, since only reaching zero
matters. Two descriptors allow one to be closed and reused while another thread still has
it in mind. Ten bytes of buffer hold each frame and are filled by a cut frame followed by a
whole one; the frames contain start marks and sizes that look like them. Three nodes are a
round's two packets (one for each list) beside one in flight or from the UAT receiver;
running out of memory blocks an allocation in the model (the code does not test `malloc`).
Two altitudes are enough for one that changes within a visit, and changes back; the callsign
is left to the other run, since no property of `flights` is about it and another field that
may make a packet be sent is there in both.

Aircraft do not interact except in the filter, so one is enough beside address 0 (an all-call
reply of which is dropped); as a transponder and a non-transponder it has two entries, which
with address 0's fill a table of two slots and are turned away. A filter period of one
tick and intervals of one or two let every order of flips, staleness, expiry and removal
happen. The constants of `track.c` keep their order (stale before expired, unreliable before
reliable aircraft, 2 DF17 and 3 other messages to believe in one).

Two clients besides the source allow a write for one to close the other; a buffer of four
for messages of two and heartbeats of one is flushed for want of room, for being full
enough, and for age. One survey at a time: endless surveys would keep the loop from
reconnecting, which is what it is written to do.

`ErrorCorrection` is checked inside `tracking`, with messages of DF 0, 4, 5, 11, 16, 17, 18, 20
and 21 in two patterns of payload: every single error of DF 11, 17 and 18; all patterns of up
to four errors in short and three in long messages, against every syndrome in the tables;
all 128 interrogator codes with every single error; and as addresses all 112 syndromes. For a
linear code these are all the cases there are but for longer patterns in long messages,
and the proof (section 5) covers those as well as every payload and address.
`BeastStream` is checked inside `feeder`: pairs of messages of every length, without and with
bytes to be doubled (at both ends, and all of them), with garbage before and between that
fills the buffer, cut nowhere, anywhere once, at two neighbouring places, and everywhere; the
messages have their real sizes and the buffer 46 bytes instead of 1024, the least that the
longest message fits in. Both properties are stated of the states in which they
matter (an aircraft is tracked, a client of an output is connected).

**Deadlock** is checked except in the pipeline, which ends.

**Fairness.** Threads keep being scheduled (weak fairness of each thread's actions): they
are ordinary POSIX threads in endless loops with sleeps, and every blocking call used
there, other than those the properties are about, has a timeout. Strong fairness is used
only where a thread waits for a mutex whose holders release it and then sleep for a second
or more (`FlightReports`), and for the server sending whole frames again and again
(`PacketReader`), on which resynchronisation is conditional anyway. Lost devices, signals,
spurious wakeups, the join timing out, answers of the server and the loss of the peer are
never assumed to happen; only that TCP's keepalive (enabled in
`net_enable_keepalive`) reports a lost peer in the end.

`Track`: the clock does not stop and the background tasks are called again and again (weak
fairness of `Tick` and `backgroundTasks`). This is the loop of `dump1090.c`; in `rbfeeder`
it holds as long as the main loop is not in its inner `while (!c)` (`rbfeeder.c:462`), where
no messages arrive either. `Feeder`: the thread is scheduled (weak fairness of
`BackgroundTasks` and `MainLoop`), and time passes while it works (strong fairness of
`Time`, as a tick needs the loop to be between two passes). The rest is about others and
strong, because they are only asked now and then: the host comes back (`HostUp`), a
connection attempted again and again succeeds, and dump1090-rb, when told to stop again and
again, stops. `ExternalFeedRestored` and `SurveysEnd` exempt one state, `SurveyBlocked`: the
server's command to restart dump1090-rb starts it in external mode too
(`dumprb_restartDump`); a survey then waits for it to stop, but tells it so in local mode
only (`rbfeeder.c:452-456`), and while it waits nothing reconnects.

### Findings

1. `pipeline_drops`: the `dropped` field of a buffer is written only when something was
   dropped and never reset, but added to the statistics every time (`dump1090.c:891`), so
   one drop is counted again whenever the buffer comes round.
2. `link_reply`: the sharing key is sent before the wait for its answer is armed; an answer
   in between is dropped and logged as "Got no response from server".
3. `flights_callsign`: a changed callsign is marked as emitted, but the packet is freed when
   no other field made it worth sending; the callsign waits for the next interval.
4. `feeder_move`: moving a client to the other Beast output flushes the one it leaves; when
   the client's own connection turns out to be broken it is closed on the spot, and
   `--c->service->connections` (`net_io.c:1107`) goes through a NULL pointer.
5. `feeder_local`: with its own dump1090-rb the feeder never reconnects after the first
   connection is lost, though a comment says so (`rbfeeder.c:468`): only the other two modes
   are looked at.

## 5. What is proved

Every invariant and every action property of the passing runs, and both refinements: each for
all values of the constants that satisfy the module's assumption.

**`SdrPipelineProofs`** first about `Fifo` (finite or infinite sets of buffers, producers, consumers and block contents;
both kinds of threads exist and are disjoint, the null values are distinct):
`FifoTypeCorrect`, `BuffersAreConserved`, `HaltIsFinal`, `WakeupsSuffice` and `OverlapsChain`
for the five invariants, and `FifoImplementsPool`: `FifoSpec` implements `BufferPool` under
the mapping that forgets threads and condition variables. `WakeupsSuffice` says besides
`NoLostWakeup` what it comes to with one thread on a side, as in dump1090-rb: that thread is
not parked beside what it waits for (`LoneWaitersWake`). With several threads it says only
that not all of them are: of two, one may stay parked beside a second free buffer, because
only the first release signals. The inductive invariant is
`IInv`: the first four invariants together with `WaitersPlaced`, which says that a thread parked on a
condition variable is in the call that waits on it. Without it a signal could wake a
thread of the other side and `NoLostWakeup` would not be inductive. Conservation needs the
type invariant and the injectivity of the queue; the refinement needs conservation, since
`BufferPool`'s guards say where a buffer is. `OverlapChain` is inductive given `IInv`, since only
conservation keeps a buffer from being refilled while it is queued.

Then about `SdrPipeline` (any number of buffers and blocks, any watchdog start; one reader and one
main thread): `PipelineTypeCorrect`, `StreamIsContinuous`, `BlocksInOrder`,
`TrailingDataDecoded` and `FifoDestroyedLast` for the five invariants. Each action of a thread
is first shown to be a step of the FIFO (`ReaderFifoStep`, `MainFifoStep`), so that `IInv`
carries over until the FIFO is destroyed; then to be, as far as blocks go, of one of
eight kinds (a drop, a block put in the queue, an empty buffer put there, one handed in after the
halt, a buffer taken out, a block demodulated, a clearing of the queue, or none of these: `Kinds`), and the rest
argues by kind. The inductive invariant `PipelineInv` adds to the five:

- `Placed`: what a thread's place in its loop says about the FIFO call it is in, and `Sound`:
  `IInv` until the end;
- `Ending`: in which order `Modes.exit`, the halt and the ends of the threads come;
- `Numbered`: the dropped blocks are the `dropped` right before the next one, and the FIFO has
  kept the end of the block before it: what `StreamContinuity` will need of the next buffer;
- `Ordered`: the blocks demodulated, the one being demodulated and those queued ascend
  together, and none of them was dropped; the property is only about the first;
- `Whole` and `Drained`, for a file: the blocks are counted (demodulated, in hand, queued), a
  buffer without samples comes last, and a reader that returns by itself leaves an empty queue.

**`ServerLinkProofs`** (any number of sending threads, descriptors and packets in flight):
`LinkTypeCorrect` for `LinkTypeOK` and `OpensOnlyOnReply` for the action property
`AcceptedOnlyByReply`. The inductive invariant `ReplyInv` adds `Answered`: while the monitor
waits, `expected` and `expected_id` are what this attempt asked for, and if
`expected_arrived` is set then the answer came since the wait was armed. It survives the other
threads because only the monitor arms the wait, which clears the flag, and only the reader
sets it, for that status and id.

**`PacketReaderProofs`** (any buffer size, frames that fit it, and noise): `ReaderTypesCorrect`,
`DeliveriesWellFormed`, `CleanFramesArrive` for the three invariants. The inductive invariant
`ReaderInv` adds `SizeAgrees` (once a whole header is in the buffer, the size is that
header's, never one left over) and `InStep` (what is left of a cleanly begun packet is exactly
what the buffer lacks).

**`FlightReportsProofs`** (any finite set of aircraft and amount of memory, any values and
interval, the tracker changing anything at any point of a visit): `ReportsTypeCorrect`,
`PacketsAreConserved`, `EmittedAltitudesAreSent` for the three invariants,
`ReportsHaveAReason` for the action property `AltitudeThrottled`, forced reports included. The
last two rest on `ThrottleInv`, which says what holds in the middle of a visit, where
`AltitudeReported` does not: `QuietIsElapsed` (the ticks since an altitude was queued are those
since it was marked, except between mark and packet), `ChangesSeen` (the tracker's altitude is
the emitted one unless it has changed), `EmittedIsReported` (so is the queued one, except
between mark and packet), `Reasoned` (an altitude past its test has its reason, wherever the
visit is) and `AltitudeLast` (a packet gets its altitude in the step that ends the visit). The
first two rest on `CirculationInv`: `Mutexes` (who holds which mutex where), `ListsHeld` (what a thread has in its
hands, and that flist does not change while the UAT receiver holds its head),
`Conserved` (`NodeConservation` list by list, since one concatenated list is unwieldy) and
`Enough` (an unfinished round of prepareData still has its memory, by counting, also for the
aircraft it is visiting).

**`TrackProofs`** first about the filter (every hash function, number of slots, set of addresses
and TTL):
`FilterImplementsMemory`: the two tables implement `AddressMemory`. The inductive invariant
`FilterInv` is the type invariant, `Chained` (every address in a table is reached by its
search: no empty slot precedes it), `NothingOld` (what a table holds was added after the
table became active) and `NothingMissed` (what was added since then and not refused is
held). From `Chained` searching is membership (`SearchIsMembership`); the other two bound
ages from both sides.

Then about `Track` (all addresses, intervals, thresholds and subsets of messages):
`TrackImplementsMemory` (the filter, as decoding and tracking use it, still does),
`TrackTypesCorrect` (with address 0 never on the list), `PositionsAnchored`, and `RepliesVouched`
for the action property `AddressParityVouched`, by `FilterInv` and `ParityRemembered` (a reply
accepted in the current tick had a known address).

**`ErrorCorrectionProofs`** (any payloads; 0 or 1 error to correct, in the type or not; up to four
errors): `CorrectionsAreRight` for `CorrectionsRight`, by way of its four parts, and
`AddressesAreLeft`, which strengthens one of them from the 112 syndromes to all 2^24 addresses.
Checksums are linear (`ChecksumLinear`), by counting the bits of a symmetric difference
(`OddXor`); so the syndrome of a message with errors is the sum of the remainders of their
places (`ErrorChecksum`), whatever the payload. All remainders differ, so a single error has
one explanation (`Diagnosed`); each has an odd number of terms, since the polynomial is a
multiple of x + 1, so an even number of errors is not taken for one, nor an odd number for
none; all sums of two differ (`SumsDiffer`), so three errors are not taken for one nor four for
none; and no sum of two looks like an interrogator's code unless both are among the last seven
bits. These facts about the remainders are the assumptions named above: they are closed, and
TLC evaluates them. What is left is the order of attempts in `correctMessage` (`Attempts`) and
the types that one wrong bit makes of another type (`TypesAfterError`, `TypesTaken`).

**`FeederProofs`** (any finite set of clients, any outputs, sizes, capacities and intervals):
`FeederTypesCorrect`, `CountsAreRight`, `StreamsAreComplete`. The inductive invariant
`FeederInv` needs, besides the three, that the source's connection is on no output:
otherwise reconnecting, which reuses the client, would take it away from one without a
flush. Clients must be finite for counts to be cardinalities.

**`BeastStreamProofs`** (any messages whose length goes with their type, any garbage without a
0x1a, any settings besides it, any buffer that the longest message fits in with one byte to
spare): `TwoMessagesArrive`, `SettingsArrive`, `ReaderFindsItsWayBack` and `WritersReserveEnough` for
the four parts of `FramingSound`, from which `StreamsAreReadable` (in `FeederProofs`) follows for
`StreamsReadable`; and, stronger than the first two, `CutsMakeNoDifference`: for every stream and
every set of places at which `read` may stop, the reader handles what it would if it had the whole
stream at once. An induction on the turns of a loop (`LoopInvariant`) is the only one needed; a
loop's invariant is a set of states for each number of turns, so that induction is over a set and
not an operator. The invariant of `modesReadFromClient` is `Reads`: the buffer is what the stream has
at that place, and a reader that had the whole stream before it has come to the same place with
the same messages handled (`Behind`). It rests on three facts:
- the end of a message, found by counting each 0x1a once and skipping the next byte, is the place
  behind its last byte as the handler walks it (`EndOfIsPlace`);
- these places depend only on the message's bytes, not on where they stand or on what follows
  (`PlacesShift`, `SameMessage`), so an incomplete message is found again, unchanged, when the rest
  has come, and a message that looked complete does not change;
- a buffer that is full after a scan holds no mark, since a mark at its front would belong to a
  whole message and be handled (`FullIsClear`): emptying it loses only garbage.

For `ReaderFindsItsWayBack` the broken-off message takes its missing bytes from the copies behind
it. It ends in one of the first three of them (`WrongMessage`), at a byte of a copy or at the mark
of the next; bytes of a copy contain no mark, so the reader goes on at the next one
(`CopiesArrive`), and two copies at least are left.

**Only model-checked**: every liveness property (fairness and ENABLED are beyond the prover). The
properties of the runs that expect a violation are false of the code and have no theorem.

## 6. Abstractions and what is left out

- Allocation failure, `recv` failing between a peek and the read, and short `send`s are not
  modelled; the four `send` calls of a packet are one step of `ServerLink`, so two threads'
  packets interleaving on the wire is out of the model's sight (a listed hazard).
- `Modes.exit` ends the main loop and reader in `SdrPipeline`; the link's and the reports'
  threads run for ever.
- Memory is sequentially consistent: unlocked accesses are atomic reads and writes, in
  program order.
- Two report fields stand for all, one of each kind, and a third cause makes a packet be
  sent without either; a field's validity and age are one flag, `recent`. A visit's tests of
  other fields, on which `force_send` depends, are not steps of their own. Each packet's
  altitude is read once for flist; the ANRB's copy of it (line 1286) is not modelled, as
  nothing is said about the ANRB's values.
- The contents of commands, statistics and packets are not modelled.
- `Track` leaves out surface positions, geometric and derived altitude, range checks against
  the receiver's location other than its presence, TIS-B and ADS-R sources, Mode A/C matching
  and all fields besides the four. The clock is monotone: were it set back, `now - a->seen`
  would wrap around and drop every aircraft (`track.c:1381`).
- `ErrorCorrection` has up to one correction, rbfeeder's setting. Three kinds of replies are excepted,
  which the code mistakes: a DF 16 or 21 reply whose address equals the syndrome
  of one bit of the type is taken for a damaged DF 17 or 18 (`AddressesMistaken`).
- `NetServices` leaves out the other outputs (raw, SBS, Stratux, FATSV), which use the same
  writer; `BeastStream` the ASCII modes and read errors. Settings `j` and `J` of a client change
  nothing in rbfeeder. After a truncated message `BeastStream` says only that the reader is back
  in step after at most one wrong message.
- `Feeder` leaves out start-up, the statistics and the order of joins at exit.
