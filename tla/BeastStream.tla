------------------------------ MODULE BeastStream ------------------------------
(***************************************************************************)
(* How messages are put on a TCP stream and found again: writeBeastMessage *)
(* and sendBeastSettings on one side; modesReadFromClient, which collects  *)
(* what the kernel has got so far in c->buf, with decodeBinMessage or      *)
(* handleBeastCommand on the other (net_io.c).                             *)
(*                                                                         *)
(*     0x1a  type  body, in which each 0x1a is doubled                     *)
(*                                                                         *)
(* This is what NetServices takes for granted when it treats messages as   *)
(* units.  A stream is a sequence of bytes; cuts are the places up to which*)
(* bytes have arrived when the reader looks.                               *)
(***************************************************************************)
EXTENDS Naturals, Sequences, FiniteSets, SequencesExt

CONSTANTS
    MODES_CLIENT_BUF_SIZE,
    mode_ac,                \* whether Mode A/C messages are wanted
    BeastMessages,          \* [type, body]
    Settings,               \* single letters sent as commands
    Garbage                 \* sequences of bytes without a 0x1a

Byte == 0 .. 255

Escape == 26
ModeAC == 49                \* '1'
Short == 50                 \* '2'
Long == 51                  \* '3'
Status == 52                \* '4', of a Radarcape, as is '5', its position

MODEAC_MSG_BYTES == 2
MODES_SHORT_MSG_BYTES == 7
MODES_LONG_MSG_BYTES == 14

\* What follows the type: timestamp, signal level and data.
BodyLength(type) ==
    7 + IF type = ModeAC THEN MODEAC_MSG_BYTES
        ELSE IF type = Short THEN MODES_SHORT_MSG_BYTES
        ELSE MODES_LONG_MSG_BYTES

\* The longest message, every byte of its body doubled, fits in the reader's buffer,
\* with the byte kept free.
ASSUME BeastAssumption ==
    /\ MODES_CLIENT_BUF_SIZE \in Nat /\ MODES_CLIENT_BUF_SIZE > 2 + 2 * BodyLength(Long) + 1
    /\ mode_ac \in BOOLEAN
    /\ \A m \in BeastMessages :
          m \in [type : ModeAC .. Status, body : Seq(Byte)] /\ Len(m.body) = BodyLength(m.type)
    /\ \A g \in Garbage : g \in Seq(Byte) /\ Escape \notin Range(g)
    /\ Settings \subseteq Byte \ {Escape}

-------------------------------------------------------------------------------
(* Writing                                                                    *)

\* The states a loop goes through when its body takes s to turn[s].
Turns(turn, start) ==
    LET at[n \in Nat] == IF n = 0 THEN start ELSE turn[at[n - 1]]
    IN  at

\* Byte by byte; a 0x1a is written twice.
Escaped(body) ==
    LET put == [s \in [next : Nat, out : Seq(Byte)] |->
                   [next |-> s.next + 1,
                    out |-> s.out \o IF body[s.next] = Escape THEN <<Escape, Escape>> ELSE <<body[s.next]>>]]
    IN  Turns(put, [next |-> 1, out |-> <<>>])[Len(body)].out

writeBeastMessage(m) == <<Escape, m.type>> \o Escaped(m.body)

\* What writeBeastMessage asks prepareWrite for.
Reserved(m) == 2 + 2 * BodyLength(m.type)

sendBeastSettings(settings) ==
    [i \in 1 .. 3 * Len(settings) |->
        IF i % 3 = 1 THEN Escape ELSE IF i % 3 = 2 THEN ModeAC ELSE settings[i \div 3]]

-------------------------------------------------------------------------------
(* Reading                                                                    *)

\* A service reads messages (READ_MODE_BEAST) or commands (READ_MODE_BEAST_COMMAND):
\* the types it knows, and how much follows them.
Types(mode) == IF mode = "messages" THEN ModeAC .. 53 ELSE {ModeAC}
Rest(mode, type) == IF mode = "messages" THEN BodyLength(type) ELSE 1

\* Both halves of a doubled byte move the end.
EndCountingBoth(buf, p, eom) ==
    LET look == [s \in [p : Nat, eom : Nat] |->
                    IF s.p > Len(buf) \/ s.p >= s.eom THEN s
                    ELSE IF buf[s.p] = Escape THEN [p |-> s.p + 1, eom |-> s.eom + 1]
                    ELSE [p |-> s.p + 1, eom |-> s.eom]]
    IN  Turns(look, [p |-> p, eom |-> eom])[Len(buf)].eom

\* One past the end of the message that is looked through from p on: every 0x1a moves
\* it, and the byte after a 0x1a is not looked at.
EndOf(buf, p, eom) ==
    LET look == [s \in [p : Nat, eom : Nat] |->
                    IF s.p > Len(buf) \/ s.p >= s.eom THEN s
                    ELSE IF buf[s.p] = Escape THEN [p |-> s.p + 2, eom |-> s.eom + 1]
                    ELSE [p |-> s.p + 1, eom |-> s.eom]]
    IN  Turns(look, [p |-> p, eom |-> eom])[Len(buf)].eom

\* The places of the bytes from p on; the byte after a 0x1a is not looked at.
Places(buf, p) ==
    Turns([q \in Nat |-> IF buf[q] = Escape THEN q + 2 ELSE q + 1], p)

\* The next n bytes from p on.
Unescaped(buf, p, n) == [j \in 1 .. n |-> buf[Places(buf, p)[j - 1]]]

\* The handlers, decodeBinMessage, which ignores status messages, and handleBeastCommand,
\* and what they are to be called for.
Wanted(mode, m) ==
    IF mode = "messages" /\ (m.type = Status \/ (m.type = ModeAC /\ ~mode_ac)) THEN <<>> ELSE <<m>>

Handled(mode, buf, p) ==
    Wanted(mode, [type |-> buf[p], body |-> Unescaped(buf, p + 1, Rest(mode, buf[p]))])

\* The loops over the messages in buf: som is where the first one begins that was not
\* handled, out what was, done whether the loop was left.
Scans == [som : Nat, out : Seq([type : Byte, body : Seq(Byte)]), done : BOOLEAN]

NextMessage(mode, buf) ==
    [s \in Scans |->
        LET marks == {q \in s.som .. Len(buf) : buf[q] = Escape}
            mark == Min(marks)
            type == buf[mark + 1]
            eom == EndOf(buf, mark + 1, mark + 2 + Rest(mode, type))
        IN  IF s.done \/ marks = {} THEN [s EXCEPT !.done = TRUE]
            ELSE IF mark = Len(buf) THEN [s EXCEPT !.som = mark, !.done = TRUE]
            ELSE IF type \notin Types(mode) THEN [s EXCEPT !.som = mark + 1]
            ELSE IF eom > Len(buf) + 1 THEN [s EXCEPT !.som = mark, !.done = TRUE]
            ELSE [s EXCEPT !.som = eom, !.out = @ \o Handled(mode, buf, mark + 1)]]

Scan(mode, buf, out) ==
    Turns(NextMessage(mode, buf), [som |-> 1, out |-> out, done |-> FALSE])[Len(buf) + 1]

\* One turn of modesReadFromClient, when the stream has arrived up to some place.  A
\* buffer that is full is emptied first; then all of it is used.
Turn(mode, stream, arrived, client) ==
    LET full == Len(client.buf) >= MODES_CLIENT_BUF_SIZE - 1
        kept == IF full THEN <<>> ELSE client.buf
        left == IF full THEN MODES_CLIENT_BUF_SIZE ELSE MODES_CLIENT_BUF_SIZE - Len(client.buf) - 1
        upto == Min({arrived, client.read + left})
        buf == kept \o SubSeq(stream, client.read + 1, upto)
        scan == Scan(mode, buf, client.out)
    IN  [buf |-> SubSeq(buf, scan.som, Len(buf)), read |-> upto, out |-> scan.out]

\* Turns, until all of the stream is read.
modesReadFromClient(mode, stream, cuts) ==
    LET arrived(client) == Min({i \in cuts \cup {Len(stream)} : i > client.read})
        read == [client \in [buf : Seq(Byte), read : Nat, out : Seq([type : Byte, body : Seq(Byte)])] |->
                    IF client.read >= Len(stream) THEN client
                    ELSE Turn(mode, stream, arrived(client), client)]
    IN  Turns(read, [buf |-> <<>>, read |-> 0, out |-> <<>>])[Len(stream)]

-------------------------------------------------------------------------------
(* Properties                                                                 *)

\* In no place, in one, in two neighbouring ones, or everywhere.
Cuts(stream) ==
    LET places == 1 .. Len(stream) - 1
    IN  {{}, places} \cup {{k, k + d} \cap places : k \in places, d \in 0 .. 1}

\* Messages are received as they were sent, and nothing stays behind, however TCP cuts
\* the stream, whatever bytes are in them, and although the buffer may be emptied
\* because of the garbage before and between them.
MessagesArrive ==
    \A m \in BeastMessages, n \in BeastMessages, g \in Garbage, h \in Garbage :
        LET stream == g \o writeBeastMessage(m) \o h \o writeBeastMessage(n)
        IN  \A cuts \in Cuts(stream) :
                LET client == modesReadFromClient("messages", stream, cuts)
                IN  client.out = Wanted("messages", m) \o Wanted("messages", n) /\ client.buf = <<>>

\* So do commands.
CommandsArrive ==
    \A settings \in [1 .. 3 -> Settings] :
        LET stream == sendBeastSettings(settings)
        IN  \A cuts \in Cuts(stream) :
                LET client == modesReadFromClient("commands", stream, cuts)
                IN  client.out = [i \in 1 .. 3 |-> [type |-> ModeAC, body |-> <<settings[i]>>]]

\* After a message of which the end is missing the reader finds its way back among
\* messages that contain no 0x1a, with one wrong message at most.
FindsItsWayBack ==
    \A m \in BeastMessages, n \in BeastMessages :
        Escape \notin Range(n.body) /\ Wanted("messages", n) = <<n>> =>
            \A i \in 1 .. Len(writeBeastMessage(m)) - 1 :
                LET copy == writeBeastMessage(n)
                    stream == SubSeq(writeBeastMessage(m), 1, i) \o copy \o copy \o copy \o copy \o copy
                    out == modesReadFromClient("messages", stream, {}).out
                IN  /\ Cardinality({k \in 1 .. Len(out) : out[k] # n}) <= 1
                    /\ IsSuffix(<<n, n>>, out)

\* What is written fits in what was reserved for it in the writer's buffer.
FitsReserved == \A m \in BeastMessages : Len(writeBeastMessage(m)) <= Reserved(m)

FramingSound == MessagesArrive /\ CommandsArrive /\ FindsItsWayBack /\ FitsReserved
===============================================================================
