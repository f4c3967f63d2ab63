------------------------------ MODULE NetServices ------------------------------
(***************************************************************************)
(* net_io.c: network clients, the services they are attached to, and the   *)
(* output buffer that the clients of a service share.  One thread does all *)
(* of it, in passes of modesNetPeriodicWork: accept, read what the clients *)
(* send, heartbeats, flush, free what was closed.  A client is closed as   *)
(* soon as a write to it fails or is short, which may be in the middle of  *)
(* handling what another client, or it itself, has sent.                   *)
(*                                                                         *)
(* Of the services there are the two Beast outputs, the clients of which   *)
(* may ask to be moved from one to the other, and an input.  Of the        *)
(* messages, all that matters is their size.                               *)
(***************************************************************************)
EXTENDS Naturals, Sequences, FiniteSets, SequencesExt

CONSTANTS
    Clients,            \* connections, each a struct client while it lasts
    Outputs,            \* beast_cooked_service, beast_verbatim_service
    Input,              \* beast_input: a service without a writer
    Messages, Heartbeat,
    Size,               \* message -> bytes
    Reserve,            \* what prepareWrite is asked for
    MODES_OUT_BUF_SIZE, net_output_flush_size,
    net_output_flush_interval, net_heartbeat_interval,   \* in ticks
    Closed,             \* closed but still on the list
    Absent              \* not on the list

ASSUME NetAssumption ==
    /\ Input \notin Outputs
    /\ {Closed, Absent} \cap (Outputs \cup {Input}) = {} /\ Closed # Absent
    /\ IsFiniteSet(Clients)
    /\ Heartbeat \in Messages
    /\ Size \in [Messages -> Nat \ {0}]
    /\ \A m \in Messages : Size[m] <= Reserve
    /\ Reserve <= MODES_OUT_BUF_SIZE /\ net_output_flush_size <= MODES_OUT_BUF_SIZE
    /\ {Reserve, MODES_OUT_BUF_SIZE, net_output_flush_size} \subseteq Nat \ {0}
    /\ {net_output_flush_interval, net_heartbeat_interval} \subseteq Nat \ {0}
    /\ net_output_flush_interval <= net_heartbeat_interval

VARIABLES
    service,      \* client -> its service, Closed or Absent
    connections,  \* service -> service->connections
    data,         \* output -> the messages in its writer's buffer
    age,          \* output -> ticks since its writer's lastWrite, up to the heartbeat interval
    phase,        \* where modesNetPeriodicWork is
    todo,         \* the clients it has still to read
    due           \* history: client -> messages queued for it that it has not been sent

netVars == <<service, connections, data, age, phase, todo, due>>

Services == Outputs \cup {Input}

Used(q) == FoldLeft(LAMBDA n, m : n + Size[m], 0, q)

ClientsOf(s) == {c \in Clients : service[c] = s}

-------------------------------------------------------------------------------
(* Closing, writing and flushing                                              *)

\* One decrement for all of them.
WithoutOne(lost) ==
    [s \in Services |-> IF lost \cap ClientsOf(s) # {} THEN connections[s] - 1 ELSE connections[s]]

\* Decremented by the caller, too.
WithoutTwice(lost) == [s \in Services |-> connections[s] - 2 * Cardinality(lost \cap ClientsOf(s))]

\* modesCloseClient, for each of the lost clients.
Without(lost) == [s \in Services |-> connections[s] - Cardinality(lost \cap ClientsOf(s))]

modesCloseClient(lost) ==
    /\ service' = [c \in Clients |-> IF c \in lost THEN Closed ELSE service[c]]
    /\ connections' = Without(lost)

\* flushWrites, for the writers of some services.
flushWrites(flushed, failed) ==
    LET lost == {c \in failed : service[c] \in flushed} IN
    /\ modesCloseClient(lost)
    /\ data' = [s \in Outputs |-> IF s \in flushed THEN <<>> ELSE data[s]]
    /\ age' = [s \in Outputs |-> IF s \in flushed THEN 0 ELSE age[s]]
    /\ due' = [c \in Clients |-> IF service[c] \in flushed THEN <<>> ELSE due[c]]

\* prepareWrite flushes first when the message may not fit.
FlushBefore(s) == Used(data[s]) + Reserve >= MODES_OUT_BUF_SIZE

Buffered(s, m) == IF FlushBefore(s) THEN <<m>> ELSE Append(data[s], m)

\* completeWrite flushes a buffer that is full enough.
FlushAfter(s, m) == Used(Buffered(s, m)) >= net_output_flush_size

\* A message is written to the buffers of those of the wanted services that have
\* clients (prepareWrite, the formatting, completeWrite), whatever flushes that takes.
Write(wanted, m, failed) ==
    LET written == {s \in wanted : connections[s] > 0}
        full == {s \in written : FlushAfter(s, m)}
        flushed == {s \in written : FlushBefore(s)} \cup full
        lost == {c \in failed : service[c] \in flushed}
    IN  /\ modesCloseClient(lost)
        /\ data' = [s \in Outputs |-> IF s \in full THEN <<>>
                                      ELSE IF s \in written THEN Buffered(s, m) ELSE data[s]]
        /\ age' = [s \in Outputs |-> IF s \in flushed THEN 0 ELSE age[s]]
        /\ due' = [c \in Clients |->
                     IF service[c] \notin written THEN due[c]
                     ELSE IF c \in lost \/ service[c] \in full THEN <<>>
                     ELSE IF service[c] \in flushed THEN <<m>> ELSE Append(due[c], m)]

\* A client joins a service: createGenericClient and moveNetClient, with no old service.
createGenericClient(c, s, failed) ==
    LET lost == {x \in failed : service[x] = s /\ s \in Outputs} IN
    /\ service[c] = Absent
    /\ service' = [x \in Clients |-> IF x = c THEN s ELSE IF x \in lost THEN Closed ELSE service[x]]
    /\ connections' = [Without(lost) EXCEPT ![s] = @ + 1]
    /\ data' = [o \in Outputs |-> IF o = s THEN <<>> ELSE data[o]]
    /\ age' = [o \in Outputs |-> IF o = s THEN 0 ELSE age[o]]
    /\ due' = [x \in Clients |-> IF x = c \/ service[x] = s THEN <<>> ELSE due[x]]

\* Moved without flushing the writer it moves to.
MoveUnflushed(c, new, failed) ==
    LET old == service[c] IN
    /\ service' = [service EXCEPT ![c] = new]
    /\ connections' = [connections EXCEPT ![old] = @ - 1, ![new] = @ + 1]
    /\ data' = [data EXCEPT ![old] = <<>>]
    /\ age' = [age EXCEPT ![old] = 0]
    /\ due' = [x \in Clients |-> IF x = c \/ service[x] = old THEN <<>> ELSE due[x]]
    /\ UNCHANGED <<phase, todo>>

\* moveNetClient, from one output to the other.  Both writers are flushed; when this
\* closes the client itself, "--c->service->connections" reads through a null pointer.
moveNetClient(c, new, failed) ==
    LET old == service[c]
        lost == {x \in failed : service[x] \in {old, new}}
    IN  IF c \in lost
        THEN phase' = "crashed" /\ UNCHANGED <<service, connections, data, age, todo, due>>
        ELSE /\ service' = [x \in Clients |-> IF x = c THEN new
                                              ELSE IF x \in lost THEN Closed ELSE service[x]]
             /\ connections' = [Without(lost) EXCEPT ![old] = @ - 1, ![new] = @ + 1]
             /\ data' = [s \in Outputs |-> IF s \in {old, new} THEN <<>> ELSE data[s]]
             /\ age' = [s \in Outputs |-> IF s \in {old, new} THEN 0 ELSE age[s]]
             /\ due' = [x \in Clients |-> IF service[x] \in {old, new} THEN <<>> ELSE due[x]]
             /\ UNCHANGED <<phase, todo>>

-------------------------------------------------------------------------------
(* One pass of modesNetPeriodicWork.  "failed" are the clients a write to which fails  *)

\* modesAcceptClients
Accept(c, s, failed) ==
    /\ phase = "accept"
    /\ createGenericClient(c, s, failed)
    /\ UNCHANGED <<phase, todo>>

StartReading ==
    /\ phase = "accept"
    /\ phase' = "read"
    /\ todo' = {c \in Clients : service[c] \in Services}
    /\ UNCHANGED <<service, connections, data, age, due>>

\* A "v" or "V" command; asked for the service it is on, nothing is done.
handleBeastCommand(c, new, failed) ==
    /\ phase = "read" /\ c \in todo
    /\ service[c] \in Outputs \ {new}
    /\ moveNetClient(c, new, failed)

\* A message is decoded and goes to the outputs that do not filter it out.
decodeBinMessage(c, m, wanted, failed) ==
    /\ phase = "read" /\ c \in todo
    /\ service[c] = Input
    /\ Write(wanted, m, failed)
    /\ UNCHANGED <<phase, todo>>

\* End of file, or an error.
ReadFails(c) ==
    /\ phase = "read" /\ c \in todo
    /\ service[c] \in Services
    /\ modesCloseClient({c})
    /\ todo' = todo \ {c}
    /\ due' = [due EXCEPT ![c] = <<>>]
    /\ UNCHANGED <<data, age, phase>>

\* No more to read, or closed in the meantime.
ReadDone(c) ==
    /\ phase = "read" /\ c \in todo
    /\ todo' = todo \ {c}
    /\ UNCHANGED <<service, connections, data, age, phase, due>>

\* Only buffers that hold something are written to.
HeartbeatsIfBuffered(failed) ==
    /\ phase = "read" /\ todo = {}
    /\ phase' = "flush"
    /\ Write({s \in Outputs : data[s] # <<>> /\ age[s] >= net_heartbeat_interval}, Heartbeat,
             failed)
    /\ UNCHANGED todo

Heartbeats(failed) ==
    /\ phase = "read" /\ todo = {}
    /\ phase' = "flush"
    /\ Write({s \in Outputs : age[s] >= net_heartbeat_interval}, Heartbeat, failed)
    /\ UNCHANGED todo

Flushes(failed) ==
    /\ phase = "flush"
    /\ phase' = "free"
    /\ flushWrites({s \in Outputs : data[s] # <<>> /\ age[s] >= net_output_flush_interval},
                   failed)
    /\ UNCHANGED todo

\* Unlink and free closed clients; the pass is over.
FreeClosed ==
    /\ phase = "free"
    /\ phase' = "main"
    /\ service' = [c \in Clients |-> IF service[c] = Closed THEN Absent ELSE service[c]]
    /\ UNCHANGED <<connections, data, age, todo, due>>

\* mstime() moves on, between passes.
Tick ==
    /\ phase \in {"main", "connecting"}
    /\ age' = [s \in Outputs |-> IF age[s] < net_heartbeat_interval THEN age[s] + 1 ELSE age[s]]
    /\ UNCHANGED <<service, connections, data, phase, todo, due>>

-------------------------------------------------------------------------------
(* Properties                                                                 *)

NetTypeOK ==
    /\ service \in [Clients -> Services \cup {Closed, Absent}]
    /\ connections \in [Services -> Nat]
    /\ data \in [Outputs -> Seq(Messages)]
    /\ age \in [Outputs -> 0 .. net_heartbeat_interval]
    /\ phase \in {"accept", "read", "flush", "free", "main", "connecting", "crashed"}
    /\ todo \subseteq Clients
    /\ due \in [Clients -> Seq(Messages)]

\* The buffer is the clients' common one, but each of them gets exactly what was
\* queued for its service while it was attached: what it has not been sent yet is what
\* the buffer holds ("Flush to ensure correct message framing", moveNetClient).
StreamComplete ==
    \A c \in Clients : service[c] \in Outputs => due[c] = data[service[c]]

\* prepareWrite drops messages for a service by its count of connections, which must
\* therefore be the number of clients attached, whoever closed them.
ConnectionsCounted ==
    \A s \in Services : connections[s] = Cardinality(ClientsOf(s))

\* A client survives its own commands ("there may be stackframes still pointing at this
\* client", modesCloseClient).
NeverCrashes == phase # "crashed"
===============================================================================
