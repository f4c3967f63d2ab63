------------------------------ MODULE FeederProofs ------------------------------
(***************************************************************************)
(* Proofs about Feeder and NetServices, for any finite set of clients, any *)
(* outputs, message sizes, buffer sizes and intervals: the counts of       *)
(* connections are right, and every client is sent exactly what was queued *)
(* for its output while it was attached to it, and can tell the messages   *)
(* in it apart.                                                            *)
(*                                                                         *)
(* FeederInv is inductive.  Besides the domains it has that the source's   *)
(* connection is on no output: it neither is written to nor moved.         *)
(***************************************************************************)
EXTENDS FeederStreams, BeastStreamProofs, FiniteSetTheorems, TLAPS

\* What concerns clients, services and buffers.
Attached ==
    /\ service \in [Clients -> Services \cup {Closed, Absent}]
    /\ connections \in [Services -> Nat]
    /\ data \in [Outputs -> Seq(Messages)]
    /\ age \in [Outputs -> 0 .. net_heartbeat_interval]
    /\ due \in [Clients -> Seq(Messages)]
    /\ service[Feed] \notin Outputs
    /\ ConnectionsCounted
    /\ StreamComplete

\* What concerns the main loop.
Looping ==
    /\ phase \in {"accept", "read", "flush", "free", "main", "connecting", "crashed"}
    /\ todo \subseteq Clients
    /\ net_mode \in NetModes
    /\ {c, dump, host, rfsurvey_execute} \subseteq BOOLEAN
    /\ surveys \in 0 .. MaxSurveys

FeederInv == Attached /\ Looping

-------------------------------------------------------------------------------
(* Clients leave and join                                                     *)

\* Clients that are closed are no longer counted (modesCloseClient).
LEMMA ClientsLeave ==
    ASSUME ConnectionsCounted, NEW lost, NEW s \in Services
    PROVE  /\ IsFiniteSet(ClientsOf(s) \ lost)
           /\ Without(lost)[s] = Cardinality(ClientsOf(s) \ lost)
<1>1. IsFiniteSet(ClientsOf(s))
  BY FeederAssumption, NetAssumption, FS_Subset DEF ClientsOf
<1>2. ClientsOf(s) \cap lost = lost \cap ClientsOf(s)
  OBVIOUS
<1>3. QED BY <1>1, <1>2, FS_Difference DEF ConnectionsCounted, Without

\* The clients of a service when some are closed.
LEMMA ClientsAfterClose ==
    ASSUME NEW lost, NEW s \in Services,
           service' = [c_1 \in Clients |-> IF c_1 \in lost THEN Closed ELSE service[c_1]]
    PROVE  ClientsOf(s)' = ClientsOf(s) \ lost
BY NetAssumption DEF ClientsOf, Services

\* modesCloseClient keeps the counts right, whoever is closed.
LEMMA CloseCounted ==
    ASSUME Attached, NEW lost, modesCloseClient(lost)
    PROVE  /\ ConnectionsCounted'
           /\ service' \in [Clients -> Services \cup {Closed, Absent}]
           /\ connections' \in [Services -> Nat]
<1>0. /\ ConnectionsCounted
      /\ service \in [Clients -> Services \cup {Closed, Absent}]
  BY DEF Attached
<1>1. \A s \in Services : /\ connections'[s] = Cardinality(ClientsOf(s)')
                          /\ connections'[s] \in Nat
  <2> SUFFICES ASSUME NEW s \in Services
               PROVE  connections'[s] = Cardinality(ClientsOf(s)') /\ connections'[s] \in Nat
    OBVIOUS
  <2>1. ClientsOf(s)' = ClientsOf(s) \ lost
    BY ClientsAfterClose DEF modesCloseClient
  <2>2. connections'[s] = Without(lost)[s]
    BY DEF modesCloseClient
  <2>3. QED BY <1>0, <2>1, <2>2, ClientsLeave, FS_CardinalityType
<1>2. ConnectionsCounted'
  BY <1>1 DEF ConnectionsCounted
<1>3. connections' \in [Services -> Nat]
  BY <1>1 DEF modesCloseClient, Without
<1>4. service' \in [Clients -> Services \cup {Closed, Absent}]
  BY <1>0 DEF modesCloseClient
<1>5. QED BY <1>2, <1>3, <1>4

-------------------------------------------------------------------------------
(* Buffers                                                                    *)

\* flushWrites empties buffers and what their clients are due together.
LEMMA FlushKeeps ==
    ASSUME Attached, NEW flushed \in SUBSET Outputs, NEW failed, flushWrites(flushed, failed)
    PROVE  Attached'
<1> USE NetAssumption, FeederAssumption
<1> DEFINE lost == {x \in failed : service[x] \in flushed}
<1>1. modesCloseClient(lost)
  BY DEF flushWrites
<1>2. /\ ConnectionsCounted'
      /\ service' \in [Clients -> Services \cup {Closed, Absent}]
      /\ connections' \in [Services -> Nat]
  BY <1>1, CloseCounted
<1>3. /\ data' \in [Outputs -> Seq(Messages)]
      /\ age' \in [Outputs -> 0 .. net_heartbeat_interval]
      /\ due' \in [Clients -> Seq(Messages)]
  BY DEF flushWrites, Attached
<1>4. \A x \in Clients : service'[x] \in Outputs => service'[x] = service[x]
  BY <1>1 DEF modesCloseClient
<1>5. service'[Feed] \notin Outputs
  BY <1>4 DEF Attached
<1>6. StreamComplete'
  BY <1>4 DEF StreamComplete, flushWrites, Attached
<1>7. QED BY <1>2, <1>3, <1>5, <1>6 DEF Attached

\* A message is appended to a buffer and to what its clients are due together.
LEMMA WriteKeeps ==
    ASSUME Attached, NEW wanted \in SUBSET Outputs, NEW m \in Messages, NEW failed,
           Write(wanted, m, failed)
    PROVE  Attached'
<1> USE NetAssumption, FeederAssumption
<1> DEFINE written == {s \in wanted : connections[s] > 0}
           full == {s \in written : FlushAfter(s, m)}
           flushed == {s \in written : FlushBefore(s)} \cup full
           lost == {x \in failed : service[x] \in flushed}
<1>1. modesCloseClient(lost)
  BY DEF Write
<1>2. /\ ConnectionsCounted'
      /\ service' \in [Clients -> Services \cup {Closed, Absent}]
      /\ connections' \in [Services -> Nat]
  BY <1>1, CloseCounted
<1>3. data' = [s \in Outputs |-> IF s \in full THEN <<>>
                                 ELSE IF s \in written THEN Buffered(s, m) ELSE data[s]]
  BY DEF Write
<1>4. due' = [x \in Clients |->
                IF service[x] \notin written THEN due[x]
                ELSE IF x \in lost \/ service[x] \in full THEN <<>>
                ELSE IF service[x] \in flushed THEN <<m>> ELSE Append(due[x], m)]
  BY DEF Write
<1>5. \A s \in Outputs : Buffered(s, m) \in Seq(Messages)
  BY DEF Buffered, Attached
<1>6. /\ data' \in [Outputs -> Seq(Messages)]
      /\ due' \in [Clients -> Seq(Messages)]
  <2>1. \A x \in Clients : Append(due[x], m) \in Seq(Messages) /\ <<m>> \in Seq(Messages)
    BY DEF Attached
  <2>2. QED BY <1>3, <1>4, <1>5, <2>1 DEF Attached
<1>7. age' \in [Outputs -> 0 .. net_heartbeat_interval]
  BY DEF Write, Attached
<1>8. \A x \in Clients : service'[x] \in Outputs => service'[x] = service[x] /\ x \notin lost
  BY <1>1 DEF modesCloseClient
<1>9. service'[Feed] \notin Outputs
  BY <1>8 DEF Attached
<1>10. StreamComplete'
  <2> SUFFICES ASSUME NEW x \in Clients, service'[x] \in Outputs
               PROVE  due'[x] = data'[service'[x]]
    BY DEF StreamComplete
  <2> DEFINE s == service[x]
  <2>1. service'[x] = s /\ s \in Outputs /\ x \notin lost
    BY <1>8
  <2>2. due[x] = data[s]
    BY <2>1 DEF Attached, StreamComplete
  <2>3. CASE s \notin written
    BY <1>3, <1>4, <2>1, <2>2, <2>3
  <2>4. CASE s \in full
    BY <1>3, <1>4, <2>1, <2>4
  <2>5. CASE s \in written \ full
    <3>1. s \in flushed <=> FlushBefore(s)
      BY <2>5
    <3>2. data'[s] = Buffered(s, m)
      BY <1>3, <2>1, <2>5
    <3>3. due'[x] = IF FlushBefore(s) THEN <<m>> ELSE Append(due[x], m)
      BY <1>4, <2>1, <2>5, <3>1
    <3>4. QED BY <2>1, <2>2, <3>2, <3>3 DEF Buffered
  <2>6. QED BY <2>3, <2>4, <2>5
<1>11. QED BY <1>2, <1>6, <1>7, <1>9, <1>10 DEF Attached

-------------------------------------------------------------------------------
(* Joining, moving, leaving                                                   *)

\* Nothing of it changes.
LEMMA UnchangedKeeps ==
    ASSUME Attached, UNCHANGED <<service, connections, data, age, due>>
    PROVE  Attached'
BY DEF Attached, ConnectionsCounted, StreamComplete, ClientsOf

\* A new client starts with an empty buffer, and with nothing due (createGenericClient).
LEMMA CreateKeeps ==
    ASSUME Attached, NEW x \in Clients, NEW t \in Services, NEW failed,
           x # Feed \/ t = Input,
           createGenericClient(x, t, failed)
    PROVE  Attached'
<1> USE NetAssumption, FeederAssumption
<1> DEFINE lost == {y \in failed : service[y] = t /\ t \in Outputs}
<1>0. /\ ConnectionsCounted
      /\ service \in [Clients -> Services \cup {Closed, Absent}]
      /\ connections \in [Services -> Nat]
  BY DEF Attached
<1>1. /\ service[x] = Absent /\ x \notin lost /\ Absent \notin Services
      /\ Closed \notin Services
  BY DEF createGenericClient, Services
<1>2. service' = [y \in Clients |-> IF y = x THEN t ELSE IF y \in lost THEN Closed ELSE service[y]]
  BY DEF createGenericClient
<1>3. connections' = [Without(lost) EXCEPT ![t] = @ + 1]
  BY DEF createGenericClient
<1>4. \A s \in Services : /\ connections'[s] = Cardinality(ClientsOf(s)')
                          /\ connections'[s] \in Nat
  <2> SUFFICES ASSUME NEW s \in Services
               PROVE  connections'[s] = Cardinality(ClientsOf(s)') /\ connections'[s] \in Nat
    OBVIOUS
  <2> DEFINE rest == ClientsOf(s) \ lost
  <2>1. IsFiniteSet(rest) /\ Without(lost)[s] = Cardinality(rest) /\ Cardinality(rest) \in Nat
    BY <1>0, ClientsLeave, FS_CardinalityType
  <2>2. x \notin rest
    BY <1>1 DEF ClientsOf
  <2>3. CASE s = t
    <3>1. ClientsOf(s)' = rest \cup {x}
      BY <1>1, <1>2, <2>3 DEF ClientsOf
    <3>2. connections'[s] = Without(lost)[s] + 1
      BY <1>3, <2>3 DEF Without
    <3>3. Cardinality(rest \cup {x}) = Cardinality(rest) + 1
      BY <2>1, <2>2, FS_AddElement
    <3>4. QED BY <3>1, <3>2, <3>3, <2>1
  <2>4. CASE s # t
    <3>1. ClientsOf(s)' = rest
      BY <1>1, <1>2, <2>4 DEF ClientsOf
    <3>2. connections'[s] = Without(lost)[s]
      BY <1>3, <2>4 DEF Without
    <3>3. QED BY <3>1, <3>2, <2>1
  <2>5. QED BY <2>3, <2>4
<1>5. ConnectionsCounted'
  BY <1>4 DEF ConnectionsCounted
<1>6. connections' \in [Services -> Nat]
  BY <1>3, <1>4 DEF Without
<1>7. service' \in [Clients -> Services \cup {Closed, Absent}]
  BY <1>0, <1>2
<1>8. /\ data' \in [Outputs -> Seq(Messages)]
      /\ age' \in [Outputs -> 0 .. net_heartbeat_interval]
      /\ due' \in [Clients -> Seq(Messages)]
  BY DEF createGenericClient, Attached
<1>9. service'[Feed] \notin Outputs
  BY <1>2 DEF Attached
<1>10. StreamComplete'
  <2> SUFFICES ASSUME NEW y \in Clients, service'[y] \in Outputs
               PROVE  due'[y] = data'[service'[y]]
    BY DEF StreamComplete
  <2>1. /\ data' = [o \in Outputs |-> IF o = t THEN <<>> ELSE data[o]]
        /\ due' = [z \in Clients |-> IF z = x \/ service[z] = t THEN <<>> ELSE due[z]]
    BY DEF createGenericClient
  <2>2. CASE y = x
    BY <1>2, <2>1, <2>2
  <2>3. CASE y # x
    <3>1. service'[y] = service[y] /\ due[y] = data[service[y]]
      BY <1>1, <1>2, <2>3 DEF Attached, StreamComplete, Services
    <3>2. QED BY <2>1, <2>3, <3>1
  <2>4. QED BY <2>2, <2>3
<1>11. QED BY <1>5, <1>6, <1>7, <1>8, <1>9, <1>10 DEF Attached

\* A client that moves leaves nothing of its own in either buffer (moveNetClient).
LEMMA MoveKeeps ==
    ASSUME Attached, NEW x \in Clients, NEW new \in Outputs, NEW failed,
           service[x] \in Outputs \ {new},
           moveNetClient(x, new, failed)
    PROVE  Attached'
<1> USE NetAssumption, FeederAssumption
<1> DEFINE old == service[x]
           lost == {y \in failed : service[y] \in {old, new}}
<1>0. /\ ConnectionsCounted
      /\ service \in [Clients -> Services \cup {Closed, Absent}]
      /\ connections \in [Services -> Nat]
      /\ old \in Outputs /\ old # new /\ old \in Services /\ new \in Services
      /\ Closed \notin Services
  BY DEF Attached, Services
<1>1. CASE x \in lost
  BY <1>1, UnchangedKeeps DEF moveNetClient
<1>2. CASE x \notin lost
  <2>1. service' = [y \in Clients |-> IF y = x THEN new ELSE IF y \in lost THEN Closed ELSE service[y]]
    BY <1>2 DEF moveNetClient
  <2>2. connections' = [Without(lost) EXCEPT ![old] = @ - 1, ![new] = @ + 1]
    BY <1>2 DEF moveNetClient
  <2>3. \A s \in Services : /\ connections'[s] = Cardinality(ClientsOf(s)')
                            /\ connections'[s] \in Nat
    <3> SUFFICES ASSUME NEW s \in Services
                 PROVE  connections'[s] = Cardinality(ClientsOf(s)') /\ connections'[s] \in Nat
      OBVIOUS
    <3> DEFINE rest == ClientsOf(s) \ lost
    <3>1. IsFiniteSet(rest) /\ Without(lost)[s] = Cardinality(rest) /\ Cardinality(rest) \in Nat
      BY <1>0, ClientsLeave, FS_CardinalityType
    <3>2. CASE s = new
      <4>1. ClientsOf(s)' = rest \cup {x} /\ x \notin rest
        BY <1>0, <1>2, <2>1, <3>2 DEF ClientsOf
      <4>2. connections'[s] = Without(lost)[s] + 1
        BY <1>0, <2>2, <3>2 DEF Without
      <4>3. Cardinality(rest \cup {x}) = Cardinality(rest) + 1
        BY <3>1, <4>1, FS_AddElement
      <4>4. QED BY <3>1, <4>1, <4>2, <4>3
    <3>3. CASE s = old
      <4>1. ClientsOf(s)' = rest \ {x} /\ x \in rest
        BY <1>0, <1>2, <2>1, <3>3 DEF ClientsOf
      <4>2. connections'[s] = Without(lost)[s] - 1
        BY <1>0, <2>2, <3>3 DEF Without
      <4>3. IsFiniteSet(rest \ {x}) /\ Cardinality(rest \ {x}) = Cardinality(rest) - 1
        BY <3>1, <4>1, FS_RemoveElement
      <4>4. Cardinality(rest \ {x}) \in Nat
        BY <4>3, FS_CardinalityType
      <4>5. QED BY <3>1, <4>1, <4>2, <4>3, <4>4
    <3>4. CASE s \notin {old, new}
      <4>1. ClientsOf(s)' = rest
        BY <1>0, <2>1, <3>4 DEF ClientsOf
      <4>2. connections'[s] = Without(lost)[s]
        BY <2>2, <3>4 DEF Without
      <4>3. QED BY <3>1, <4>1, <4>2
    <3>5. QED BY <3>2, <3>3, <3>4
  <2>4. ConnectionsCounted'
    BY <2>3 DEF ConnectionsCounted
  <2>5. connections' \in [Services -> Nat]
    BY <2>2, <2>3 DEF Without
  <2>6. service' \in [Clients -> Services \cup {Closed, Absent}]
    BY <1>0, <2>1
  <2>7. /\ data' = [s \in Outputs |-> IF s \in {old, new} THEN <<>> ELSE data[s]]
        /\ age' = [s \in Outputs |-> IF s \in {old, new} THEN 0 ELSE age[s]]
        /\ due' = [y \in Clients |-> IF service[y] \in {old, new} THEN <<>> ELSE due[y]]
    BY <1>2 DEF moveNetClient
  <2>8. /\ data' \in [Outputs -> Seq(Messages)]
        /\ age' \in [Outputs -> 0 .. net_heartbeat_interval]
        /\ due' \in [Clients -> Seq(Messages)]
    BY <2>7 DEF Attached
  <2>9. service'[Feed] \notin Outputs
    BY <1>0, <2>1 DEF Attached
  <2>10. StreamComplete'
    <3> SUFFICES ASSUME NEW y \in Clients, service'[y] \in Outputs
                 PROVE  due'[y] = data'[service'[y]]
      BY DEF StreamComplete
    <3>1. CASE y = x
      BY <1>0, <2>1, <2>7, <3>1
    <3>2. CASE y # x
      <4>1. service'[y] = service[y] /\ due[y] = data[service[y]]
        BY <1>0, <2>1, <3>2 DEF Attached, StreamComplete, Services
      <4>2. QED BY <2>7, <4>1
    <3>3. QED BY <3>1, <3>2
  <2>11. QED BY <2>4, <2>5, <2>6, <2>8, <2>9, <2>10 DEF Attached
<1>3. QED BY <1>1, <1>2

\* A client that is closed takes what it was due with it.
LEMMA LeaveKeeps ==
    ASSUME Attached, NEW x \in Clients, ReadFails(x)
    PROVE  Attached'
<1> USE NetAssumption, FeederAssumption
<1>1. modesCloseClient({x})
  BY DEF ReadFails
<1>2. /\ ConnectionsCounted'
      /\ service' \in [Clients -> Services \cup {Closed, Absent}]
      /\ connections' \in [Services -> Nat]
  BY <1>1, CloseCounted
<1>3. /\ data' = data /\ age' = age
      /\ due' = [due EXCEPT ![x] = <<>>]
  BY DEF ReadFails
<1>4. due' \in [Clients -> Seq(Messages)]
  BY <1>3 DEF Attached
<1>5. \A y \in Clients : service'[y] \in Outputs => service'[y] = service[y] /\ y # x
  BY <1>1 DEF modesCloseClient
<1>6. service'[Feed] \notin Outputs
  BY <1>5 DEF Attached
<1>7. StreamComplete'
  BY <1>3, <1>5 DEF StreamComplete, Attached
<1>8. QED BY <1>2, <1>3, <1>4, <1>6, <1>7 DEF Attached

\* A closed client is on no service's list of clients (FreeClosed).
LEMMA FreeKeeps ==
    ASSUME Attached, FreeClosed
    PROVE  Attached'
<1> USE NetAssumption, FeederAssumption
<1>1. /\ service' = [x \in Clients |-> IF service[x] = Closed THEN Absent ELSE service[x]]
      /\ UNCHANGED <<connections, data, age, due>>
  BY DEF FreeClosed
<1>2. \A s \in Services : ClientsOf(s)' = ClientsOf(s)
  BY <1>1 DEF ClientsOf, Services
<1>3. ConnectionsCounted'
  BY <1>1, <1>2 DEF ConnectionsCounted, Attached
<1>4. \A x \in Clients : service'[x] \in Outputs => service'[x] = service[x]
  BY <1>1
<1>5. service' \in [Clients -> Services \cup {Closed, Absent}]
  BY <1>1 DEF Attached
<1>6. QED BY <1>1, <1>3, <1>4, <1>5 DEF Attached, StreamComplete

-------------------------------------------------------------------------------
(* Every step                                                                 *)

\* Nobody is connected.
LEMMA InitAttached ==
    ASSUME Init
    PROVE  Attached
<1> USE NetAssumption, FeederAssumption
<1>1. \A s \in Services : connections[s] = Cardinality(ClientsOf(s))
  <2> SUFFICES ASSUME NEW s \in Services
               PROVE  connections[s] = Cardinality(ClientsOf(s))
    OBVIOUS
  <2>1. ClientsOf(s) = {}
    BY DEF Init, ClientsOf, Services
  <2>2. QED BY <2>1, FS_EmptySet DEF Init
<1>2. StreamComplete /\ service[Feed] \notin Outputs
  BY DEF Init, StreamComplete
<1>3. QED BY <1>1, <1>2 DEF Init, Attached, ConnectionsCounted

\* A turn of the background tasks.
LEMMA TasksKeep ==
    ASSUME Attached, BackgroundTasks
    PROVE  Attached'
<1>1. CASE StartReading \/ \E x \in Clients : ReadDone(x)
  BY <1>1, UnchangedKeeps DEF StartReading, ReadDone
<1>2. ASSUME NEW failed, Heartbeats(failed)
      PROVE  Attached'
  <2> DEFINE idle == {s \in Outputs : age[s] >= net_heartbeat_interval}
  <2>1. Write(idle, Heartbeat, failed) /\ idle \in SUBSET Outputs /\ Heartbeat \in Messages
    BY <1>2, NetAssumption DEF Heartbeats
  <2> HIDE DEF idle
  <2>2. QED BY <2>1, WriteKeeps
<1>3. ASSUME NEW failed, Flushes(failed)
      PROVE  Attached'
  <2> DEFINE old == {s \in Outputs : data[s] # <<>> /\ age[s] >= net_output_flush_interval}
  <2>1. flushWrites(old, failed) /\ old \in SUBSET Outputs
    BY <1>3 DEF Flushes
  <2> HIDE DEF old
  <2>2. QED BY <2>1, FlushKeeps
<1>4. CASE FreeClosed
  BY <1>4, FreeKeeps
<1>5. QED BY <1>1, <1>2, <1>3, <1>4 DEF BackgroundTasks

\* What clients do, the ones that fail included.
LEMMA ClientsKeep ==
    ASSUME Attached, ClientActivity
    PROVE  Attached'
<1>1. PICK failed \in SUBSET Served, x \in Clients :
         \/ \E s \in Outputs : Accept(x, s, failed) /\ x # Feed
         \/ \E s \in Outputs : handleBeastCommand(x, s, failed)
         \/ \E m \in Messages \ {Heartbeat}, wanted \in SUBSET Outputs :
                decodeBinMessage(x, m, wanted, failed)
         \/ ReadFails(x)
  BY DEF ClientActivity
<1>2. ASSUME NEW s \in Outputs, Accept(x, s, failed), x # Feed
      PROVE  Attached'
  BY <1>2, CreateKeeps DEF Accept, Services
<1>3. ASSUME NEW s \in Outputs, handleBeastCommand(x, s, failed)
      PROVE  Attached'
  BY <1>3, MoveKeeps DEF handleBeastCommand
<1>4. ASSUME NEW m \in Messages \ {Heartbeat}, NEW wanted \in SUBSET Outputs,
             decodeBinMessage(x, m, wanted, failed)
      PROVE  Attached'
  BY <1>4, WriteKeeps DEF decodeBinMessage
<1>5. CASE ReadFails(x)
  BY <1>5, LeaveKeeps
<1>6. QED BY <1>1, <1>2, <1>3, <1>4, <1>5

\* The feeder attaches its own connection, to its input (connectData).
LEMMA ConnectKeeps ==
    ASSUME Attached, NEW connected \in BOOLEAN, connectData(connected)
    PROVE  Attached'
<1>1. CASE connected
  BY <1>1, CreateKeeps, FeederAssumption DEF connectData, Services
<1>2. CASE ~connected
  BY <1>2, UnchangedKeeps DEF connectData
<1>3. QED BY <1>1, <1>2

\* mstime() moves on, and no further than the model counts.
LEMMA TimeKeeps ==
    ASSUME Attached, Time
    PROVE  Attached'
<1>1. age' \in [Outputs -> 0 .. net_heartbeat_interval]
  BY NetAssumption DEF Time, Tick, Attached
<1>2. UNCHANGED <<service, connections, data, due>>
  BY DEF Time, Tick
<1>3. ConnectionsCounted' /\ StreamComplete'
  BY <1>2 DEF Attached, ConnectionsCounted, StreamComplete, ClientsOf
<1>4. QED BY <1>1, <1>2, <1>3 DEF Attached

\* Every step keeps clients, services and buffers together.
LEMMA NextAttached ==
    ASSUME Attached, [Next]_vars
    PROVE  Attached'
<1>1. CASE MainLoop
  <2>1. CASE EnterConnecting \/ NothingToDo \/ \E done \in BOOLEAN : Survey(done)
    BY <2>1, UnchangedKeeps DEF EnterConnecting, NothingToDo, Survey
  <2>2. CASE \E done \in BOOLEAN : ConnectAgain(done) \/ Reconnect(done)
    BY <2>2, ConnectKeeps DEF ConnectAgain, Reconnect
  <2>3. QED BY <1>1, <2>1, <2>2 DEF MainLoop
<1>2. CASE \/ AskSurvey \/ RestartDump \/ DumpDies \/ HostDown \/ HostUp \/ Crashed
           \/ UNCHANGED vars
  BY <1>2, UnchangedKeeps
     DEF AskSurvey, RestartDump, DumpDies, HostDown, HostUp, Crashed, vars, netVars
<1>3. QED BY <1>1, <1>2, TasksKeep, ClientsKeep, TimeKeeps DEF Next

\* Every step keeps the main loop's state in its domains.
LEMMA NextLooping ==
    ASSUME Looping, [Next]_vars
    PROVE  Looping'
<1>1. CASE BackgroundTasks
  BY <1>1 DEF BackgroundTasks, StartReading, ReadDone, Heartbeats, Flushes, FreeClosed,
              Looping, feederVars
<1>2. CASE ClientActivity
  <2>1. PICK failed \in SUBSET Served, x \in Clients :
            \/ \E s \in Outputs : Accept(x, s, failed) /\ x # Feed
            \/ \E s \in Outputs : handleBeastCommand(x, s, failed)
            \/ \E m \in Messages \ {Heartbeat}, wanted \in SUBSET Outputs :
                   decodeBinMessage(x, m, wanted, failed)
            \/ ReadFails(x)
    BY <1>2, Zenon DEF ClientActivity
  <2>a. phase' \in {phase, "crashed"} /\ todo' \in {todo, todo \ {x}}
    <3>1. CASE \E s \in Outputs : Accept(x, s, failed)
      BY <3>1 DEF Accept
    <3>2. CASE \E s \in Outputs : handleBeastCommand(x, s, failed)
      BY <3>2 DEF handleBeastCommand, moveNetClient
    <3>3. CASE \E m \in Messages \ {Heartbeat}, wanted \in SUBSET Outputs :
                   decodeBinMessage(x, m, wanted, failed)
      BY <3>3 DEF decodeBinMessage
    <3>4. CASE ReadFails(x)
      BY <3>4 DEF ReadFails
    <3>5. QED BY <2>1, <3>1, <3>2, <3>3, <3>4
  <2>2. UNCHANGED feederVars
    BY <1>2 DEF ClientActivity
  <2>3. QED BY <2>a, <2>2 DEF Looping, feederVars
<1>3. CASE MainLoop
  BY <1>3 DEF MainLoop, EnterConnecting, ConnectAgain, Reconnect, NothingToDo, Survey,
              connectData, Back, Looping, feederVars
<1>4. CASE Time \/ AskSurvey \/ RestartDump \/ DumpDies \/ HostDown \/ HostUp
  <2>1. CASE Time
    BY <2>1 DEF Time, Tick, Looping, feederVars
  <2>2. CASE AskSurvey
    BY <2>2, FeederAssumption DEF AskSurvey, Looping, netVars
  <2>3. CASE RestartDump \/ DumpDies \/ HostDown \/ HostUp
    BY <2>3 DEF RestartDump, DumpDies, HostDown, HostUp, Looping, netVars
  <2>4. QED BY <1>4, <2>1, <2>2, <2>3
<1>5. CASE Crashed \/ UNCHANGED vars
  BY <1>5 DEF Crashed, Looping, vars, netVars, feederVars
<1>6. QED BY <1>1, <1>2, <1>3, <1>4, <1>5 DEF Next

-------------------------------------------------------------------------------
(* Theorems                                                                   *)

\* FeederInv is inductive.
THEOREM FeederInvariant == Spec => []FeederInv
<1>1. Init => FeederInv
  <2> SUFFICES ASSUME Init PROVE FeederInv
    OBVIOUS
  <2>1. {c, dump, host, rfsurvey_execute} \subseteq BOOLEAN
    <3>1. dump \in BOOLEAN /\ c \in BOOLEAN /\ rfsurvey_execute \in BOOLEAN
      BY Zenon DEF Init
    <3>2. host \in BOOLEAN
      BY Zenon DEF Init
    <3>3. QED BY <3>1, <3>2, Zenon
  <2>2. Looping
    <3>1. /\ phase = "accept" /\ todo = {} /\ net_mode \in NetModes /\ surveys = 0
      BY DEF Init
    <3>2. surveys \in 0 .. MaxSurveys
      BY <3>1, FeederAssumption
    <3>3. QED BY <2>1, <3>1, <3>2 DEF Looping
  <2>3. QED BY <2>2, InitAttached DEF FeederInv
<1>2. FeederInv /\ [Next]_vars => FeederInv'
  BY NextAttached, NextLooping DEF FeederInv
<1>3. QED BY <1>1, <1>2, PTL DEF Spec

\* Clients, services, buffers and the main loop stay in their domains, and the
\* feeder's own connection is never among the clients it serves.
THEOREM FeederTypesCorrect == Spec => []FeederTypeOK
<1>1. FeederInv => FeederTypeOK
  BY DEF FeederInv, Attached, Looping, FeederTypeOK, NetTypeOK
<1>2. QED BY <1>1, FeederInvariant, PTL

\* A service's count of connections is the number of clients attached to it, whatever
\* write to them fails and whoever closes or moves them (modesCloseClient, moveNetClient).
THEOREM CountsAreRight == Spec => []ConnectionsCounted
<1>1. FeederInv => ConnectionsCounted
  BY DEF FeederInv, Attached
<1>2. QED BY <1>1, FeederInvariant, PTL

\* A client is sent exactly what was queued for its output while it was attached:
\* a client that joins or moves shares no buffered message (createGenericClient,
\* moveNetClient).
THEOREM StreamsAreComplete == Spec => []StreamComplete
<1>1. FeederInv => StreamComplete
  BY DEF FeederInv, Attached
<1>2. QED BY <1>1, FeederInvariant, PTL

\* What a client gets are bytes, and whoever reads them tells the messages apart:
\* writeBeastMessage and sendBeastSettings write what modesReadFromClient reads.
THEOREM StreamsAreReadable == Spec => []StreamsReadable
<1>1. FramingSound
  BY TwoMessagesArrive, SettingsArrive, ReaderFindsItsWayBack, WritersReserveEnough DEF FramingSound
<1>2. StreamsReadable
  BY <1>1 DEF StreamsReadable
<1>3. QED BY <1>2, PTL
===============================================================================
