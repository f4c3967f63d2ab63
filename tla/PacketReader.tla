----------------------------- MODULE PacketReader -----------------------------
(***************************************************************************)
(* How net_thread_WaitCmds (airnav_net.c) cuts the server's byte stream    *)
(* into packets:                                                           *)
(*                                                                         *)
(*     '~' '#'  size-high size-low  size bytes (the first is the type)     *)
(*                                                                         *)
(* One byte is taken at a time into buf.  buf outlives the connection: what*)
(* was received of a packet before a disconnect stays in front of the next *)
(* connection's bytes.                                                     *)
(***************************************************************************)
EXTENDS Naturals, Sequences, SequencesExt

CONSTANTS
    BUFFLEN,     \* size of buf
    Frames,      \* packets the server sends
    Noise,       \* bytes without a start mark that may come between them
    MaxTrouble   \* bound: how often a connection is cut or noise comes

Start == <<126, 35>>    \* txstart, "~#"

Byte == 0 .. 255
Word == {n \in Nat : n < 65536}

SizeIn(frame) == frame[3] * 256 + frame[4]

ASSUME FramesAssumption ==
    /\ BUFFLEN \in Nat
    /\ Frames \cup Noise \subseteq Seq(Byte)
    /\ \A f \in Frames : /\ IsPrefix(Start, f)
                         /\ Len(f) = 4 + SizeIn(f)
                         /\ Len(f) > 6
                         /\ Len(f) <= BUFFLEN
    /\ MaxTrouble \in Nat

VARIABLES
    buf,           \* buf[0 .. buf_idx - 1]
    packet_size,
    wire,          \* what is still to come of the packet (or noise) being sent
    frame,         \* history: the packet being sent
    clean,         \* history: it began with nothing in buf that could mislead
    delivered,     \* history: what went to proccess_packet since it began
    trouble        \* how often the stream was disturbed

vars == <<buf, packet_size, wire, frame, clean, delivered, trouble>>

HasStart(s) == \E i \in 1 .. Len(s) - 1 : <<s[i], s[i + 1]>> = Start

\* Frames with no start mark but their own, wherever one is cut off and joined
\* to the next: the last byte is not '~' either.
Plain == {f \in Frames : ~HasStart(Tail(f)) /\ Last(f) # Start[1]}

ReaderTypeOK ==
    /\ buf \in Seq(Byte) /\ Len(buf) <= BUFFLEN
    /\ packet_size \in Word
    /\ wire \in Seq(Byte)
    /\ frame \in Frames \cup {<<>>}
    /\ clean \in BOOLEAN
    /\ delivered \in Seq(Seq(Byte))
    /\ trouble \in 0 .. MaxTrouble

Init ==
    /\ buf = <<>>
    /\ packet_size = 0
    /\ wire = <<>>
    /\ frame = <<>>
    /\ clean = FALSE
    /\ delivered = <<>>
    /\ trouble = 0

-------------------------------------------------------------------------------
(* The server and the connection                                              *)

\* buf holds only noise, with room for the first byte of a start mark.
NothingMisleading == ~HasStart(buf) /\ Len(buf) + 1 < BUFFLEN

SendFrame ==
    /\ wire = <<>>
    /\ \E f \in Frames : wire' = f /\ frame' = f
    /\ clean' = NothingMisleading
    /\ delivered' = <<>>
    /\ UNCHANGED <<buf, packet_size, trouble>>

\* The connection breaks in the middle of a packet; a new one starts with a packet.
Cut ==
    /\ wire # <<>>
    /\ trouble < MaxTrouble
    /\ trouble' = trouble + 1
    /\ wire' = <<>>
    /\ clean' = FALSE
    /\ UNCHANGED <<buf, packet_size, frame, delivered>>

SendNoise ==
    /\ wire = <<>>
    /\ trouble < MaxTrouble
    /\ trouble' = trouble + 1
    /\ wire' \in Noise
    /\ frame' = <<>>
    /\ clean' = FALSE
    /\ delivered' = <<>>
    /\ UNCHANGED <<buf, packet_size>>

-------------------------------------------------------------------------------
(* net_thread_WaitCmds                                                        *)

\* Variants: packet_size is read only once; too small a size is ignored.
TakeKeepingSize(b) ==
    LET s == Append(buf, b) IN
    IF Len(s) >= 2 /\ ~IsPrefix(Start, s)
    THEN /\ buf' = IF IsSuffix(Start, s) THEN Start ELSE s
         /\ UNCHANGED <<packet_size, delivered>>
    ELSE /\ packet_size' = IF Len(s) = 4 /\ packet_size = 0 THEN SizeIn(s) ELSE packet_size
         /\ IF Len(s) > 6 /\ packet_size' = Len(s) - 4
            THEN buf' = <<>> /\ delivered' = Append(delivered, s)
            ELSE buf' = s /\ UNCHANGED delivered

TakeAnySize(b) ==
    LET s == Append(buf, b) IN
    IF Len(s) >= 2 /\ ~IsPrefix(Start, s)
    THEN /\ buf' = IF IsSuffix(Start, s) THEN Start ELSE s
         /\ UNCHANGED <<packet_size, delivered>>
    ELSE /\ packet_size' = IF Len(s) = 4 /\ SizeIn(s) > 2 THEN SizeIn(s) ELSE packet_size
         /\ IF Len(s) > 6 /\ packet_size' = Len(s) - 4
            THEN buf' = <<>> /\ delivered' = Append(delivered, s)
            ELSE buf' = s /\ UNCHANGED delivered

\* What becomes of buf when byte b is put at its end.
Take(b) ==
    LET s == Append(buf, b) IN
    CASE Len(s) < 2 ->
           buf' = s /\ UNCHANGED <<packet_size, delivered>>
      [] Len(s) >= 2 /\ ~IsPrefix(Start, s) ->
           /\ buf' = IF IsSuffix(Start, s) THEN Start ELSE s
           /\ UNCHANGED <<packet_size, delivered>>
      [] IsPrefix(Start, s) /\ Len(s) = 4 ->
           /\ IF SizeIn(s) <= 2
              THEN buf' = <<>> /\ UNCHANGED packet_size
              ELSE buf' = s /\ packet_size' = SizeIn(s)
           /\ UNCHANGED delivered
      [] IsPrefix(Start, s) /\ Len(s) # 4 ->
           IF Len(s) > 6 /\ packet_size = Len(s) - 4
           THEN /\ delivered' = Append(delivered, s)
                /\ buf' = <<>>
                /\ packet_size' = 0
           ELSE buf' = s /\ UNCHANGED <<packet_size, delivered>>

ReadByteUnbounded ==    \* variant: does not look at BUFFLEN
    /\ wire # <<>>
    /\ Take(Head(wire))
    /\ wire' = Tail(wire)
    /\ UNCHANGED <<frame, clean, trouble>>

ReadByte ==
    /\ wire # <<>>
    /\ Len(buf) < BUFFLEN
    /\ Take(Head(wire))
    /\ wire' = Tail(wire)
    /\ UNCHANGED <<frame, clean, trouble>>

BufferStaysFull ==    \* variant: only says so
    /\ wire # <<>>
    /\ Len(buf) = BUFFLEN
    /\ UNCHANGED vars

\* "Buffer is full!": the byte stays on the socket.
BufferFull ==
    /\ wire # <<>>
    /\ Len(buf) = BUFFLEN
    /\ buf' = <<>>
    /\ packet_size' = 0
    /\ UNCHANGED <<wire, frame, clean, delivered, trouble>>

-------------------------------------------------------------------------------

Next == SendFrame \/ Cut \/ SendNoise \/ ReadByte \/ BufferFull

\* The reader keeps reading and the server keeps sending packets.
Fairness == WF_vars(ReadByte) /\ WF_vars(BufferFull) /\ SF_vars(SendFrame)

Spec == Init /\ [][Next]_vars /\ Fairness

-------------------------------------------------------------------------------
(* Properties                                                                 *)

\* A packet that begins when buf is empty, or holds only noise, is delivered as it
\* was sent, nothing else is, and buf is empty after it; start marks inside the
\* packet do no harm.
CleanFramesDelivered ==
    clean /\ wire = <<>> => delivered = <<frame>> /\ buf = <<>>

\* What reaches proccess_packet begins with the start mark and has the length its
\* own header says, whatever broken or stale packet came before: packet_size is
\* never one that another header has left.
DeliveredWellFormed ==
    \A i \in 1 .. Len(delivered) :
        LET p == delivered[i]
        IN  /\ IsPrefix(Start, p)
            /\ Len(p) = 4 + SizeIn(p)

\* However a disconnect has left buf, the reader finds the packets' boundaries again,
\* if they contain no start mark but their own.
Resynchronises == <>[](wire # <<>> => frame \in Plain) => []<>(delivered = <<frame>> /\ wire = <<>>)
===============================================================================
