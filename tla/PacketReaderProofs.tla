--------------------------- MODULE PacketReaderProofs ---------------------------
(***************************************************************************)
(* Proofs about PacketReader, for any size of buf, any packets that fit in *)
(* it, any noise, and any number of broken connections: what is delivered  *)
(* is well formed, and a packet that arrives on a clean stream is          *)
(* delivered as it was sent.                                               *)
(*                                                                         *)
(* ReaderInv is inductive.  SizeAgrees says that packet_size is the one of *)
(* the header in buf as soon as all of it is there; without it a size left *)
(* by an earlier header could end a packet.  InStep says how buf and wire  *)
(* share a packet that began cleanly.                                      *)
(***************************************************************************)
EXTENDS PacketReader, SequenceTheorems, TLAPS

SizeAgrees == IsPrefix(Start, buf) /\ Len(buf) >= 4 => packet_size = SizeIn(buf)

\* The first k bytes of the packet have been read.
Split(k) ==
    /\ wire = SubSeq(frame, k + 1, Len(frame))
    /\ k = 0 => NothingMisleading /\ delivered = <<>>
    /\ k = 1 => /\ ~HasStart(buf)
                /\ Len(buf) \in 1 .. BUFFLEN - 1
                /\ buf[Len(buf)] = Start[1]
                /\ delivered = <<>>
    /\ k >= 2 /\ k < Len(frame) => buf = SubSeq(frame, 1, k) /\ delivered = <<>>
    /\ k = Len(frame) => buf = <<>> /\ delivered = <<frame>>

InStep == clean => frame \in Frames /\ \E k \in 0 .. Len(frame) : Split(k)

ReaderInv == ReaderTypeOK /\ SizeAgrees /\ DeliveredWellFormed /\ InStep

-------------------------------------------------------------------------------
(* Start marks                                                                *)

LEMMA StartIsPrefix ==
    ASSUME NEW s \in Seq(Byte)
    PROVE  IsPrefix(Start, s) <=> Len(s) >= 2 /\ s[1] = 126 /\ s[2] = 35
<1>1. Start \in Seq(Byte) /\ Len(Start) = 2 /\ Start[1] = 126 /\ Start[2] = 35
  BY DEF Start, Byte
<1>2. CASE Len(s) >= 2
  <2>1. /\ SubSeq(s, 1, 2) \in Seq(Byte) /\ Len(SubSeq(s, 1, 2)) = 2
        /\ SubSeq(s, 1, 2)[1] = s[1] /\ SubSeq(s, 1, 2)[2] = s[2]
    BY <1>2
  <2>2. SubSeq(Start, 1, 2) = Start
    BY <1>1, SubSeqFull
  <2>3. SubSeq(s, 1, 2) = Start <=> s[1] = 126 /\ s[2] = 35
    BY <1>1, <2>1, SeqEqual
  <2>4. QED BY <1>1, <1>2, <2>2, <2>3 DEF IsPrefix
<1>3. CASE ~(Len(s) >= 2)
  BY <1>1, <1>3 DEF IsPrefix
<1>4. QED BY <1>2, <1>3

LEMMA StartIsSuffix ==
    ASSUME NEW s \in Seq(Byte)
    PROVE  IsSuffix(Start, s) <=> Len(s) >= 2 /\ s[Len(s) - 1] = 126 /\ s[Len(s)] = 35
<1>1. Reverse(Start) = <<35, 126>>
  <2>1. Len(Start) = 2 /\ Start[1] = 126 /\ Start[2] = 35
    BY DEF Start
  <2>2. Reverse(Start) = [i \in 1 .. 2 |-> Start[3 - i]]
    BY <2>1 DEF Reverse
  <2>3. Reverse(Start) \in Seq(Byte) /\ Len(Reverse(Start)) = 2
    BY <2>1, <2>2 DEF Byte
  <2>4. Reverse(Start)[1] = 35 /\ Reverse(Start)[2] = 126
    BY <2>1, <2>2
  <2>5. QED BY <2>3, <2>4, SeqEqual DEF Byte
<1>2. Reverse(s) \in Seq(Byte) /\ Len(Reverse(s)) = Len(s)
  BY DEF Reverse
<1>3. CASE Len(s) >= 2
  <2>1. Reverse(s)[1] = s[Len(s)] /\ Reverse(s)[2] = s[Len(s) - 1]
    BY <1>3 DEF Reverse
  <2>2. /\ SubSeq(Reverse(s), 1, 2) \in Seq(Byte) /\ Len(SubSeq(Reverse(s), 1, 2)) = 2
        /\ SubSeq(Reverse(s), 1, 2)[1] = Reverse(s)[1]
        /\ SubSeq(Reverse(s), 1, 2)[2] = Reverse(s)[2]
    BY <1>2, <1>3
  <2>3. /\ Reverse(Start) \in Seq(Byte) /\ Len(Reverse(Start)) = 2
        /\ Reverse(Start)[1] = 35 /\ Reverse(Start)[2] = 126
    BY <1>1 DEF Byte
  <2>4. SubSeq(Reverse(s), 1, 2) = Reverse(Start) <=> s[Len(s)] = 35 /\ s[Len(s) - 1] = 126
    BY <2>1, <2>2, <2>3, SeqEqual
  <2>5. SubSeq(Reverse(Start), 1, 2) = Reverse(Start)
    BY <2>3, SubSeqFull
  <2>6. QED BY <1>2, <1>3, <2>3, <2>4, <2>5 DEF IsSuffix, IsPrefix
<1>4. CASE ~(Len(s) >= 2)
  BY <1>1, <1>2, <1>4 DEF IsSuffix, IsPrefix
<1>5. QED BY <1>3, <1>4

LEMMA SizeBound ==
    ASSUME NEW high \in Byte, NEW low \in Byte
    PROVE  high * 256 + low \in Word
<1>1. high \in Int /\ low \in Int /\ 0 <= high /\ high <= 255 /\ 0 <= low /\ low <= 255
  BY DEF Byte
<1> PICK size : size = high * 256 + low
  OBVIOUS
<1>2. size \in Int /\ 0 <= size
  BY <1>1
<1>3. size < 65536
  BY <1>1
<1>4. QED BY <1>2, <1>3 DEF Word

LEMMA FrameFacts ==
    ASSUME NEW f \in Frames
    PROVE  /\ f \in Seq(Byte)
           /\ f[1] = 126 /\ f[2] = 35
           /\ SizeIn(f) \in Nat
           /\ Len(f) = 4 + SizeIn(f)
           /\ Len(f) >= 7
           /\ Len(f) <= BUFFLEN
<1>1. f \in Seq(Byte)
  BY FramesAssumption DEF Byte
<1>2. f[1] = 126 /\ f[2] = 35 /\ Len(f) >= 2
  BY <1>1, StartIsPrefix, FramesAssumption
<1>3. Len(f) = 4 + SizeIn(f) /\ Len(f) > 6 /\ Len(f) <= BUFFLEN /\ Len(f) \in Nat
  BY <1>1, FramesAssumption
<1>4. SizeIn(f) \in Int
  <2>1. f[3] \in Byte /\ f[4] \in Byte
    BY <1>1, <1>3
  <2>2. f[3] \in Int /\ f[4] \in Int
    BY <2>1 DEF Byte
  <2>3. QED BY <2>2 DEF SizeIn
<1>5. QED BY <1>1, <1>2, <1>3, <1>4

-------------------------------------------------------------------------------
(* A byte is taken                                                            *)

\* What Take makes of a buffer and a byte.
LEMMA TakeCases ==
    ASSUME ReaderTypeOK, NEW b \in Byte, Take(b), NEW s, s = Append(buf, b)
    PROVE  \/ /\ ~IsPrefix(Start, s) /\ (Len(s) < 2 \/ ~IsSuffix(Start, s))
              /\ buf' = s /\ UNCHANGED <<packet_size, delivered>>
           \/ /\ ~IsPrefix(Start, s) /\ IsSuffix(Start, s)
              /\ buf' = Start /\ UNCHANGED <<packet_size, delivered>>
           \/ /\ IsPrefix(Start, s) /\ Len(s) = 4 /\ SizeIn(s) <= 2
              /\ buf' = <<>> /\ UNCHANGED <<packet_size, delivered>>
           \/ /\ IsPrefix(Start, s) /\ Len(s) = 4 /\ ~(SizeIn(s) <= 2)
              /\ buf' = s /\ packet_size' = SizeIn(s) /\ UNCHANGED delivered
           \/ /\ IsPrefix(Start, s) /\ Len(s) > 6 /\ packet_size = Len(s) - 4
              /\ delivered' = Append(delivered, s) /\ buf' = <<>> /\ packet_size' = 0
           \/ /\ IsPrefix(Start, s) /\ Len(s) # 4 /\ ~(Len(s) > 6 /\ packet_size = Len(s) - 4)
              /\ buf' = s /\ UNCHANGED <<packet_size, delivered>>
<1>1. s \in Seq(Byte)
  BY DEF ReaderTypeOK, Byte
<1>2. Len(s) < 2 => ~IsPrefix(Start, s)
  <2>1. IsPrefix(Start, s) => Len(s) >= 2
    BY <1>1, StartIsPrefix, Zenon
  <2>2. Len(s) \in Nat
    BY <1>1
  <2>3. QED BY <2>1, <2>2
<1>3. Len(s) \in Nat
  BY <1>1
<1>4. CASE Len(s) < 2
  BY <1>2, <1>4 DEF Take
<1>5. CASE Len(s) >= 2 /\ ~IsPrefix(Start, s)
  BY <1>3, <1>5 DEF Take
<1>6. CASE IsPrefix(Start, s) /\ Len(s) = 4
  BY <1>3, <1>6 DEF Take
<1>7. CASE IsPrefix(Start, s) /\ Len(s) # 4
  BY <1>2, <1>3, <1>7 DEF Take
<1>8. QED BY <1>2, <1>3, <1>4, <1>5, <1>6, <1>7

\* A header that is all in the buffer is the header of the longer buffer, too.
LEMMA HeaderStays ==
    ASSUME ReaderTypeOK, NEW b \in Byte, NEW s, s = Append(buf, b), Len(buf) >= 4,
           IsPrefix(Start, s)
    PROVE  IsPrefix(Start, buf) /\ SizeIn(buf) = SizeIn(s)
<1>1. buf \in Seq(Byte) /\ s \in Seq(Byte)
  BY DEF ReaderTypeOK, Byte
<1>2. \A i \in 1 .. Len(buf) : s[i] = buf[i]
  BY <1>1
<1>3. Len(buf) \in Nat
  BY <1>1
<1>4. s[1] = buf[1] /\ s[2] = buf[2] /\ s[3] = buf[3] /\ s[4] = buf[4]
  BY <1>2, <1>3
<1>5. s[1] = 126 /\ s[2] = 35
  BY <1>1, StartIsPrefix, Zenon
<1>6. IsPrefix(Start, buf) <=> Len(buf) >= 2 /\ buf[1] = 126 /\ buf[2] = 35
  BY <1>1, StartIsPrefix, Zenon
<1>7. QED BY <1>3, <1>4, <1>5, <1>6 DEF SizeIn

LEMMA TakeKeepsTypes ==
    ASSUME ReaderTypeOK, NEW b \in Byte, Take(b), Len(buf) < BUFFLEN
    PROVE  /\ buf' \in Seq(Byte) /\ Len(buf') <= BUFFLEN
           /\ packet_size' \in Word
           /\ delivered' \in Seq(Seq(Byte))
<1> PICK s : s = Append(buf, b)
  OBVIOUS
<1>0. s \in Seq(Byte)
  BY DEF ReaderTypeOK, Byte
<1>1. Len(s) \in Nat /\ Len(s) <= BUFFLEN /\ BUFFLEN \in Nat
  BY FramesAssumption DEF ReaderTypeOK, Byte
<1>2. Start \in Seq(Byte) /\ Len(Start) = 2 /\ Start # <<>>
  BY DEF Start, Byte
<1>3. IsSuffix(Start, s) => Len(s) >= 2
  BY <1>0, StartIsSuffix, Zenon
<1>4. ASSUME Len(s) = 4
      PROVE  SizeIn(s) \in Word
  <2>1. s[3] \in Byte /\ s[4] \in Byte
    BY <1>0, <1>4
  <2>2. s[3] * 256 + s[4] \in Word
    BY <2>1, SizeBound, Zenon
  <2>3. QED BY <2>2, Zenon DEF SizeIn
<1>5. /\ buf' = s \/ buf' = <<>> \/ (buf' = Start /\ IsSuffix(Start, s))
      /\ packet_size' = packet_size \/ packet_size' = 0 \/ (Len(s) = 4 /\ packet_size' = SizeIn(s))
      /\ delivered' = delivered \/ delivered' = Append(delivered, s)
  BY TakeCases, Zenon
<1>6. Len(buf') <= BUFFLEN
  <2>1. CASE buf' = s
    BY <1>1, <2>1
  <2>2. CASE buf' = Start /\ IsSuffix(Start, s)
    BY <1>1, <1>2, <1>3, <2>2
  <2>3. CASE buf' = <<>>
    BY <1>1, <2>3
  <2>4. QED BY <1>5, <2>1, <2>2, <2>3
<1>7. buf' \in Seq(Byte)
  <2>1. <<>> \in Seq(Byte)
    OBVIOUS
  <2>2. QED BY <1>0, <1>2, <1>5, <2>1, Zenon
<1>8. packet_size' \in Word
  <2>1. packet_size \in Word
    BY Zenon DEF ReaderTypeOK
  <2>2. 0 \in Word
    BY DEF Word
  <2>3. QED BY <1>4, <1>5, <2>1, <2>2, Zenon
<1>9. delivered' \in Seq(Seq(Byte))
  <2>1. delivered \in Seq(Seq(Byte))
    BY Zenon DEF ReaderTypeOK
  <2>2. Append(delivered, s) \in Seq(Seq(Byte))
    BY <1>0, <2>1, AppendProperties, Zenon
  <2>3. QED BY <1>5, <2>1, <2>2, Zenon
<1>10. QED BY <1>6, <1>7, <1>8, <1>9

LEMMA TakeKeepsSize ==
    ASSUME ReaderTypeOK, SizeAgrees, NEW b \in Byte, Take(b)
    PROVE  SizeAgrees'
<1> SUFFICES ASSUME IsPrefix(Start, buf'), Len(buf') >= 4
             PROVE  packet_size' = SizeIn(buf')
  BY DEF SizeAgrees
<1> PICK s : s = Append(buf, b)
  OBVIOUS
<1>1. s \in Seq(Byte) /\ Len(s) = Len(buf) + 1 /\ Len(buf) \in Nat
  BY DEF ReaderTypeOK
<1>2. Len(Start) = 2 /\ Len(<<>>) = 0
  BY DEF Start
<1>3. buf' # <<>> /\ buf' # Start
  <2>1. CASE buf' = <<>>
    <3>1. Len(buf') = 0
      BY <1>2, <2>1, Zenon
    <3>2. QED BY <3>1
  <2>2. CASE buf' = Start
    <3>1. Len(buf') = 2
      BY <1>2, <2>2, Zenon
    <3>2. QED BY <3>1
  <2>3. QED BY <2>1, <2>2
<1>4. CASE IsPrefix(Start, s) /\ Len(s) = 4 /\ buf' = s /\ packet_size' = SizeIn(s)
  BY <1>4
<1>5. CASE IsPrefix(Start, s) /\ Len(s) # 4 /\ buf' = s /\ packet_size' = packet_size
  <2>1. Len(buf) >= 4
    BY <1>1, <1>5
  <2>2. IsPrefix(Start, buf) /\ SizeIn(buf) = SizeIn(s)
    BY <1>5, <2>1, HeaderStays, Zenon
  <2>3. QED BY <1>5, <2>1, <2>2 DEF SizeAgrees
<1>6. QED BY <1>3, <1>4, <1>5, TakeCases, Zenon

LEMMA TakeDeliversWellFormed ==
    ASSUME ReaderTypeOK, SizeAgrees, DeliveredWellFormed, NEW b \in Byte, Take(b)
    PROVE  DeliveredWellFormed'
<1> PICK s : s = Append(buf, b)
  OBVIOUS
<1>1. s \in Seq(Byte) /\ Len(s) = Len(buf) + 1 /\ Len(buf) \in Nat
  BY DEF ReaderTypeOK
<1>2. CASE delivered' = delivered
  BY <1>2 DEF DeliveredWellFormed
<1>3. CASE /\ IsPrefix(Start, s) /\ Len(s) > 6 /\ packet_size = Len(s) - 4
           /\ delivered' = Append(delivered, s)
  <2>1. Len(buf) >= 4
    BY <1>1, <1>3
  <2>2. packet_size = SizeIn(s)
    BY <1>3, <2>1, HeaderStays, Zenon DEF SizeAgrees
  <2>3. Len(s) = 4 + SizeIn(s)
    BY <1>1, <1>3, <2>2
  <2>4. delivered \in Seq(Seq(Byte))
    BY DEF ReaderTypeOK
  <2>5. /\ Len(delivered') = Len(delivered) + 1
        /\ \A i \in 1 .. Len(delivered) : delivered'[i] = delivered[i]
        /\ delivered'[Len(delivered) + 1] = s
    <3>1. delivered' = Append(delivered, s) /\ s \in Seq(Byte)
      BY <1>1, <1>3
    <3>2. /\ Len(Append(delivered, s)) = Len(delivered) + 1
          /\ \A i \in 1 .. Len(delivered) : Append(delivered, s)[i] = delivered[i]
          /\ Append(delivered, s)[Len(delivered) + 1] = s
      <4> PICK Packets : Packets = Seq(Byte)
        OBVIOUS
      <4>1. delivered \in Seq(Packets) /\ s \in Packets
        BY <2>4, <3>1, Zenon
      <4>2. QED BY <4>1
    <3>3. QED BY <3>1, <3>2, Zenon
  <2>6. Len(delivered) \in Nat
    BY <2>4, LenProperties, Zenon
  <2>7. ASSUME NEW i \in 1 .. Len(delivered')
        PROVE  IsPrefix(Start, delivered'[i]) /\ Len(delivered'[i]) = 4 + SizeIn(delivered'[i])
    <3>1. CASE i = Len(delivered) + 1
      BY <1>3, <2>3, <2>5, <3>1, Zenon
    <3>2. CASE i \in 1 .. Len(delivered)
      BY <2>5, <3>2 DEF DeliveredWellFormed
    <3>3. QED BY <2>5, <2>6, <3>1, <3>2
  <2>8. QED BY <2>7, Zenon DEF DeliveredWellFormed
<1>4. QED BY <1>2, <1>3, TakeCases, Zenon

-------------------------------------------------------------------------------
(* A packet on a clean stream                                                 *)

\* The first byte of a packet goes behind noise, if there is any.
LEMMA FirstByte ==
    ASSUME ReaderTypeOK, frame \in Frames, Split(0), ReadByte
    PROVE  /\ ~HasStart(buf') /\ Len(buf') \in 1 .. BUFFLEN - 1
           /\ buf'[Len(buf')] = Start[1] /\ delivered' = <<>>
<1> PICK b : b = 126
  OBVIOUS
<1> PICK s : s = Append(buf, b)
  OBVIOUS
<1>0. b \in Byte
  BY DEF Byte
<1>1. /\ frame \in Seq(Byte) /\ frame[1] = 126 /\ Len(frame) >= 7
      /\ buf \in Seq(Byte) /\ BUFFLEN \in Nat /\ Start[1] = 126 /\ Start[2] = 35
  BY FrameFacts, FramesAssumption DEF ReaderTypeOK, Byte, Start
<1>2. wire = frame
  <2>1. SubSeq(frame, 1, Len(frame)) = frame
    BY <1>1, SubSeqFull, Zenon
  <2>2. wire = SubSeq(frame, 0 + 1, Len(frame))
    BY DEF Split
  <2>3. QED BY <2>1, <2>2
<1>3. Head(wire) = 126
  BY <1>1, <1>2
<1>4. Take(b)
  BY <1>3 DEF ReadByte
<1>5. ~HasStart(buf) /\ Len(buf) + 1 < BUFFLEN /\ delivered = <<>>
  BY DEF Split, NothingMisleading
<1>6. /\ s \in Seq(Byte) /\ Len(s) = Len(buf) + 1 /\ Len(buf) \in Nat
      /\ s[Len(s)] = 126 /\ \A i \in 1 .. Len(buf) : s[i] = buf[i]
  BY <1>0, <1>1
<1>7. ~HasStart(s)
  <2> SUFFICES ASSUME NEW i \in 1 .. Len(s) - 1, s[i] = 126, s[i + 1] = 35
               PROVE  FALSE
    BY DEF HasStart, Start
  <2>1. i + 1 # Len(s)
    BY <1>6
  <2>2. i \in 1 .. Len(buf) - 1 /\ buf[i] = 126 /\ buf[i + 1] = 35
    BY <1>6, <2>1
  <2>3. QED BY <1>5, <2>2 DEF HasStart, Start
<1>8. ~IsPrefix(Start, s)
  <2>1. IsPrefix(Start, s) <=> Len(s) >= 2 /\ s[1] = 126 /\ s[2] = 35
    BY <1>6, StartIsPrefix, Zenon
  <2>2. ASSUME Len(s) >= 2, s[1] = 126, s[2] = 35
        PROVE  HasStart(s)
    <3>1. 1 \in 1 .. Len(s) - 1 /\ s[1 + 1] = 35
      BY <1>6, <2>2
    <3>2. QED BY <2>2, <3>1 DEF HasStart, Start
  <2>3. QED BY <1>7, <2>1, <2>2, Zenon
<1>9. ~IsSuffix(Start, s)
  <2>1. IsSuffix(Start, s) => s[Len(s)] = 35
    BY <1>6, StartIsSuffix, Zenon
  <2>2. QED BY <1>6, <2>1
<1>10. buf' = s /\ delivered' = delivered
  BY <1>0, <1>4, <1>8, <1>9, TakeCases, Zenon
<1>11. Len(s) \in 1 .. BUFFLEN - 1
  BY <1>1, <1>5, <1>6
<1>12. QED BY <1>1, <1>5, <1>6, <1>7, <1>10, <1>11

\* The second completes the start mark, which is all that stays.
LEMMA SecondByte ==
    ASSUME ReaderTypeOK, frame \in Frames, Split(1), ReadByte
    PROVE  buf' = SubSeq(frame, 1, 2) /\ delivered' = <<>>
<1> PICK b : b = 35
  OBVIOUS
<1> PICK s : s = Append(buf, b)
  OBVIOUS
<1>0. b \in Byte
  BY DEF Byte
<1>1. /\ frame \in Seq(Byte) /\ frame[1] = 126 /\ frame[2] = 35 /\ Len(frame) >= 7
      /\ buf \in Seq(Byte)
  BY FrameFacts DEF ReaderTypeOK, Byte
<1>2. Start \in Seq(Byte) /\ Len(Start) = 2 /\ Start[1] = 126 /\ Start[2] = 35
  BY DEF Start, Byte
<1>3. SubSeq(frame, 1, 2) = Start
  <2>1. /\ SubSeq(frame, 1, 2) \in Seq(Byte) /\ Len(SubSeq(frame, 1, 2)) = 2
        /\ SubSeq(frame, 1, 2)[1] = 126 /\ SubSeq(frame, 1, 2)[2] = 35
    BY <1>1
  <2>2. QED BY <1>2, <2>1, SeqEqual
<1>4. Head(wire) = 35
  <2>1. wire = SubSeq(frame, 2, Len(frame))
    BY DEF Split
  <2>2. QED BY <1>1, <2>1
<1>5. Take(b)
  BY <1>4 DEF ReadByte
<1>6. ~HasStart(buf) /\ Len(buf) >= 1 /\ Len(buf) \in Nat /\ buf[Len(buf)] = 126 /\ delivered = <<>>
  BY <1>1, <1>2 DEF Split
<1>7. /\ s \in Seq(Byte) /\ Len(s) = Len(buf) + 1
      /\ s[Len(s)] = 35 /\ s[Len(s) - 1] = 126 /\ \A i \in 1 .. Len(buf) : s[i] = buf[i]
  BY <1>0, <1>1, <1>6
<1>8. IsSuffix(Start, s)
  <2>1. Len(s) >= 2
    BY <1>6, <1>7
  <2>2. QED BY <1>7, <2>1, StartIsSuffix, Zenon
<1>9. ASSUME IsPrefix(Start, s)
      PROVE  s = Start /\ Len(s) = 2
  <2>1. s[1] = 126 /\ s[2] = 35
    BY <1>7, <1>9, StartIsPrefix, Zenon
  <2>2. Len(buf) < 2
    <3> SUFFICES ASSUME Len(buf) >= 2
                 PROVE  FALSE
      BY <1>6
    <3>1. 1 \in 1 .. Len(buf) - 1 /\ buf[1] = 126 /\ buf[1 + 1] = 35
      BY <1>6, <1>7, <2>1
    <3>2. QED BY <1>6, <3>1 DEF HasStart, Start
  <2>3. Len(s) = 2
    BY <1>6, <1>7, <2>2
  <2>4. QED BY <1>2, <1>7, <2>1, <2>3, SeqEqual
<1>10. buf' = Start /\ delivered' = delivered
  <2>1. CASE ~IsPrefix(Start, s)
    <3>1. ~(Len(s) < 2)
      BY <1>6, <1>7
    <3>2. QED BY <1>0, <1>5, <1>8, <2>1, <3>1, TakeCases, Zenon
  <2>2. CASE IsPrefix(Start, s)
    <3>1. ~(Len(s) = 4) /\ ~(Len(s) > 6)
      BY <1>9, <2>2
    <3>2. buf' = s /\ delivered' = delivered
      BY <1>0, <1>5, <2>2, <3>1, TakeCases, Zenon
    <3>3. QED BY <1>9, <2>2, <3>2
  <2>3. QED BY <2>1, <2>2
<1>11. QED BY <1>3, <1>6, <1>10

\* The others are added to it, until the packet is delivered.
LEMMA LaterByte ==
    ASSUME ReaderTypeOK, SizeAgrees, frame \in Frames,
           NEW k \in 2 .. Len(frame) - 1, Split(k), ReadByte
    PROVE  IF k + 1 = Len(frame) THEN buf' = <<>> /\ delivered' = <<frame>>
           ELSE buf' = SubSeq(frame, 1, k + 1) /\ delivered' = <<>>
<1>1. /\ frame \in Seq(Byte) /\ frame[1] = 126 /\ frame[2] = 35 /\ Len(frame) >= 7
      /\ Len(frame) \in Nat /\ Len(frame) = 4 + SizeIn(frame) /\ SizeIn(frame) \in Nat
      /\ k \in Nat /\ k >= 2 /\ k < Len(frame)
  BY FrameFacts
<1> PICK b : b = frame[k + 1]
  OBVIOUS
<1> PICK s : s = SubSeq(frame, 1, k + 1)
  OBVIOUS
<1>2. buf = SubSeq(frame, 1, k) /\ wire = SubSeq(frame, k + 1, Len(frame)) /\ delivered = <<>>
  BY <1>1 DEF Split
<1>3. b \in Byte /\ Head(wire) = b
  BY <1>1, <1>2
<1>4. Take(b)
  BY <1>3 DEF ReadByte
<1>5. /\ buf \in Seq(Byte) /\ Len(buf) = k /\ \A i \in 1 .. k : buf[i] = frame[i]
      /\ s \in Seq(Byte) /\ Len(s) = k + 1 /\ \A i \in 1 .. k + 1 : s[i] = frame[i]
  <2>1. buf \in Seq(Byte) /\ Len(buf) = k /\ \A i \in 1 .. k : buf[i] = frame[i]
    BY <1>1, <1>2
  <2>2. s \in Seq(Byte) /\ Len(s) = k + 1 /\ \A i \in 1 .. k + 1 : s[i] = frame[i]
    BY <1>1
  <2>3. QED BY <2>1, <2>2
<1>6. s = Append(buf, b)
  <2>1. /\ Append(buf, b) \in Seq(Byte) /\ Len(Append(buf, b)) = k + 1
        /\ \A i \in 1 .. k : Append(buf, b)[i] = frame[i]
        /\ Append(buf, b)[k + 1] = frame[k + 1]
    BY <1>1, <1>3, <1>5
  <2>2. \A i \in 1 .. Len(s) : s[i] = Append(buf, b)[i]
    BY <1>1, <1>5, <2>1
  <2>3. QED BY <1>5, <2>1, <2>2, SeqEqual
<1>7. IsPrefix(Start, s)
  <2>1. Len(s) >= 2 /\ s[1] = 126 /\ s[2] = 35
    BY <1>1, <1>5
  <2>2. QED BY <1>5, <2>1, StartIsPrefix, Zenon
<1>8. k >= 3 => SizeIn(s) = SizeIn(frame)
  BY <1>1, <1>5 DEF SizeIn
<1>9. k >= 4 => packet_size = SizeIn(frame)
  <2> SUFFICES ASSUME k >= 4
               PROVE  packet_size = SizeIn(frame)
    OBVIOUS
  <2>1. IsPrefix(Start, buf) /\ SizeIn(buf) = SizeIn(s) /\ Len(buf) >= 4
    <3>1. Len(buf) >= 4
      BY <1>5
    <3>2. QED BY <1>3, <1>6, <1>7, <3>1, HeaderStays, Zenon
  <2>2. k >= 3
    BY <1>1
  <2>3. QED BY <1>8, <2>1, <2>2 DEF SizeAgrees
<1>10. CASE k + 1 = Len(frame)
  <2>1. Len(s) > 6 /\ packet_size = Len(s) - 4 /\ Len(s) # 4
    BY <1>1, <1>5, <1>9, <1>10
  <2>2. buf' = <<>> /\ delivered' = Append(delivered, s)
    <3>1. ~(Len(s) < 2)
      BY <2>1
    <3>2. QED BY <1>3, <1>4, <1>6, <1>7, <2>1, <3>1, TakeCases, Zenon
  <2>3. s = frame
    BY <1>1, <1>10, SubSeqFull, Zenon
  <2>4. delivered' = <<frame>>
    BY <1>2, <2>2, <2>3
  <2>5. QED BY <1>10, <2>2, <2>4
<1>11. CASE k + 1 # Len(frame)
  <2>1. Len(s) = 4 => ~(SizeIn(s) <= 2)
    <3> SUFFICES ASSUME Len(s) = 4
                 PROVE  ~(SizeIn(s) <= 2)
      OBVIOUS
    <3>1. k >= 3
      BY <1>5
    <3>2. SizeIn(s) = SizeIn(frame)
      BY <1>8, <3>1
    <3>3. QED BY <1>1, <3>2
  <2>2. ~(Len(s) > 6 /\ packet_size = Len(s) - 4)
    <3> SUFFICES ASSUME Len(s) > 6
                 PROVE  packet_size # Len(s) - 4
      OBVIOUS
    <3>1. packet_size = SizeIn(frame)
      BY <1>5, <1>9
    <3>2. QED BY <1>1, <1>5, <1>11, <3>1
  <2>3. buf' = s /\ delivered' = delivered
    BY <1>3, <1>4, <1>6, <1>7, <2>1, <2>2, TakeCases, Zenon
  <2>4. QED BY <1>2, <1>11, <2>3
<1>12. QED BY <1>10, <1>11

LEMMA ReadKeepsStep ==
    ASSUME ReaderTypeOK, SizeAgrees, InStep, ReadByte
    PROVE  InStep'
<1> SUFFICES ASSUME clean
             PROVE  frame \in Frames /\ \E k \in 0 .. Len(frame) : Split(k)'
  BY DEF InStep, ReadByte
<1>1. frame \in Frames
  BY DEF InStep
<1>2. PICK k \in 0 .. Len(frame) : Split(k)
  BY DEF InStep
<1>3. /\ frame \in Seq(Byte) /\ Len(frame) \in Nat /\ Len(frame) >= 7 /\ frame' = frame
      /\ k \in Nat
  BY <1>1, FrameFacts DEF ReadByte
<1>4. k < Len(frame)
  <2> SUFFICES ASSUME k = Len(frame)
               PROVE  FALSE
    BY <1>2, <1>3
  <2>1. wire = SubSeq(frame, k + 1, Len(frame)) /\ k + 1 > Len(frame)
    BY <1>2, <1>3 DEF Split
  <2>2. wire = <<>>
    BY <1>3, <2>1
  <2>3. QED BY <2>2 DEF ReadByte
<1>5. wire' = SubSeq(frame, k + 2, Len(frame))
  <2>1. k + 1 \in 1 .. Len(frame) /\ Len(frame) \in k + 1 .. Len(frame) /\ k + 1 + 1 = k + 2
    BY <1>3, <1>4
  <2>2. Tail(SubSeq(frame, k + 1, Len(frame))) = SubSeq(frame, k + 1 + 1, Len(frame))
    BY <1>3, <2>1, HeadTailOfSubSeq
  <2>3. wire = SubSeq(frame, k + 1, Len(frame)) /\ wire' = Tail(wire)
    BY <1>2 DEF Split, ReadByte
  <2>4. QED BY <2>1, <2>2, <2>3
<1>6. k + 1 \in 0 .. Len(frame) /\ (k + 1) + 1 = k + 2
  BY <1>3, <1>4
<1>7. CASE k = 0
  <2>1. /\ ~HasStart(buf') /\ Len(buf') \in 1 .. BUFFLEN - 1
        /\ buf'[Len(buf')] = Start[1] /\ delivered' = <<>>
    BY <1>1, <1>2, <1>7, FirstByte
  <2>2. HasStart(buf)' = HasStart(buf')
    BY DEF HasStart
  <2>3. Split(1)'
    BY <1>3, <1>5, <1>7, <2>1, <2>2 DEF Split
  <2>4. QED BY <1>1, <1>6, <1>7, <2>3
<1>8. CASE k = 1
  <2>1. buf' = SubSeq(frame, 1, 2) /\ delivered' = <<>>
    BY <1>1, <1>2, <1>8, SecondByte
  <2>2. Split(2)'
    BY <1>3, <1>5, <1>8, <2>1 DEF Split
  <2>3. QED BY <1>1, <1>6, <1>8, <2>2
<1>9. CASE k >= 2
  <2>1. IF k + 1 = Len(frame) THEN buf' = <<>> /\ delivered' = <<frame>>
        ELSE buf' = SubSeq(frame, 1, k + 1) /\ delivered' = <<>>
    <3>1. k \in 2 .. Len(frame) - 1
      BY <1>3, <1>4, <1>9
    <3>2. QED BY <1>1, <1>2, <3>1, LaterByte
  <2>2. Split(k + 1)'
    BY <1>3, <1>4, <1>5, <1>6, <1>9, <2>1 DEF Split
  <2>3. QED BY <1>1, <1>6, <2>2
<1>10. QED BY <1>3, <1>7, <1>8, <1>9

-------------------------------------------------------------------------------
(* The invariant                                                              *)

LEMMA InitHolds == Init => ReaderInv
<1> SUFFICES ASSUME Init
             PROVE  ReaderInv
  OBVIOUS
<1>1. Len(buf) = 0 /\ Len(delivered) = 0 /\ <<>> \in Seq(Byte) /\ <<>> \in Seq(Seq(Byte))
  BY DEF Init
<1>2. ReaderTypeOK
  <2>1. Len(buf) <= BUFFLEN /\ 0 \in 0 .. MaxTrouble /\ 0 \in Word
    BY <1>1, FramesAssumption DEF Word
  <2>2. buf \in Seq(Byte) /\ wire \in Seq(Byte) /\ delivered \in Seq(Seq(Byte))
    BY <1>1, Zenon DEF Init
  <2>3. QED BY <2>1, <2>2, Zenon DEF Init, ReaderTypeOK
<1>3. SizeAgrees
  BY <1>1 DEF SizeAgrees
<1>4. DeliveredWellFormed
  BY <1>1 DEF DeliveredWellFormed
<1>5. InStep
  BY DEF Init, InStep
<1>6. QED BY <1>2, <1>3, <1>4, <1>5 DEF ReaderInv

\* What has nothing to do with the reader leaves SizeAgrees alone.
LEMMA SizeStays ==
    ASSUME SizeAgrees, UNCHANGED <<buf, packet_size>>
    PROVE  SizeAgrees'
BY DEF SizeAgrees

LEMMA NothingDelivered ==
    ASSUME delivered' = <<>>
    PROVE  DeliveredWellFormed'
<1>1. Len(delivered') = 0
  OBVIOUS
<1>2. QED BY <1>1 DEF DeliveredWellFormed

LEMMA SendFrameStep ==
    ASSUME ReaderInv, SendFrame
    PROVE  ReaderInv'
<1> USE DEF ReaderInv
<1>1. PICK f \in Frames : wire' = f /\ frame' = f
  BY DEF SendFrame
<1>2. f \in Seq(Byte) /\ Len(f) \in Nat /\ Len(f) >= 7
  BY FrameFacts
<1>3. /\ delivered' = <<>> /\ UNCHANGED <<buf, packet_size, trouble>>
      /\ clean' = NothingMisleading
  BY DEF SendFrame
<1>4. ReaderTypeOK'
  <2>1. <<>> \in Seq(Seq(Byte)) /\ NothingMisleading \in BOOLEAN
    BY DEF NothingMisleading
  <2>2. QED BY <1>1, <1>2, <1>3, <2>1 DEF ReaderTypeOK
<1>5. SizeAgrees' /\ DeliveredWellFormed'
  BY <1>3, SizeStays, NothingDelivered
<1>6. InStep'
  <2> SUFFICES ASSUME clean'
               PROVE  Split(0)'
    BY <1>1, <1>2 DEF InStep
  <2>1. SubSeq(f, 0 + 1, Len(f)) = f
    BY <1>2, SubSeqFull
  <2>2. NothingMisleading'
    BY <1>3 DEF NothingMisleading, HasStart
  <2>3. Len(f) # 0
    BY <1>2
  <2>4. QED BY <1>1, <1>3, <2>1, <2>2, <2>3 DEF Split
<1>7. QED BY <1>4, <1>5, <1>6

LEMMA CutStep ==
    ASSUME ReaderInv, Cut
    PROVE  ReaderInv'
<1> USE DEF ReaderInv
<1>1. /\ wire' = <<>> /\ clean' = FALSE /\ UNCHANGED <<buf, packet_size, frame, delivered>>
      /\ trouble' = trouble + 1 /\ trouble < MaxTrouble
  BY DEF Cut
<1>2. trouble' \in 0 .. MaxTrouble
  BY <1>1, FramesAssumption DEF ReaderTypeOK
<1>3. ReaderTypeOK'
  <2>1. <<>> \in Seq(Byte)
    OBVIOUS
  <2>2. QED BY <1>1, <1>2, <2>1 DEF ReaderTypeOK
<1>4. SizeAgrees' /\ InStep'
  BY <1>1, SizeStays DEF InStep
<1>5. DeliveredWellFormed'
  BY <1>1 DEF DeliveredWellFormed
<1>6. QED BY <1>3, <1>4, <1>5

LEMMA SendNoiseStep ==
    ASSUME ReaderInv, SendNoise
    PROVE  ReaderInv'
<1> USE DEF ReaderInv
<1>1. /\ wire' \in Noise /\ frame' = <<>> /\ clean' = FALSE /\ delivered' = <<>>
      /\ UNCHANGED <<buf, packet_size>> /\ trouble' = trouble + 1 /\ trouble < MaxTrouble
  BY DEF SendNoise
<1>2. trouble' \in 0 .. MaxTrouble
  BY <1>1, FramesAssumption DEF ReaderTypeOK
<1>3. wire' \in Seq(Byte) /\ <<>> \in Seq(Seq(Byte))
  BY <1>1, FramesAssumption
<1>4. ReaderTypeOK'
  BY <1>1, <1>2, <1>3 DEF ReaderTypeOK
<1>5. SizeAgrees' /\ DeliveredWellFormed' /\ InStep'
  BY <1>1, SizeStays, NothingDelivered DEF InStep
<1>6. QED BY <1>4, <1>5

LEMMA ReadByteStep ==
    ASSUME ReaderInv, ReadByte
    PROVE  ReaderInv'
<1> USE DEF ReaderInv
<1> PICK b : b = Head(wire)
  OBVIOUS
<1>1. b \in Byte /\ Tail(wire) \in Seq(Byte)
  BY DEF ReaderTypeOK, ReadByte
<1>2. Take(b) /\ Len(buf) < BUFFLEN /\ wire' = Tail(wire) /\ UNCHANGED <<frame, clean, trouble>>
  BY DEF ReadByte
<1>3. ReaderTypeOK'
  <2>1. /\ buf' \in Seq(Byte) /\ Len(buf') <= BUFFLEN
        /\ packet_size' \in Word
        /\ delivered' \in Seq(Seq(Byte))
    BY <1>1, <1>2, TakeKeepsTypes
  <2>2. QED BY <1>1, <1>2, <2>1 DEF ReaderTypeOK
<1>4. SizeAgrees'
  BY <1>1, <1>2, TakeKeepsSize
<1>5. DeliveredWellFormed'
  BY <1>1, <1>2, TakeDeliversWellFormed
<1>6. InStep'
  BY ReadKeepsStep
<1>7. QED BY <1>3, <1>4, <1>5, <1>6

\* The buffer is never full while a clean packet is on its way.
LEMMA BufferFullStep ==
    ASSUME ReaderInv, BufferFull
    PROVE  ReaderInv'
<1> USE DEF ReaderInv
<1>1. /\ wire # <<>> /\ Len(buf) = BUFFLEN /\ buf' = <<>> /\ packet_size' = 0
      /\ UNCHANGED <<wire, frame, clean, delivered, trouble>>
  BY DEF BufferFull
<1>2. ReaderTypeOK'
  <2>1. <<>> \in Seq(Byte) /\ Len(<<>>) <= BUFFLEN /\ 0 \in Word
    BY FramesAssumption DEF Word
  <2>2. QED BY <1>1, <2>1 DEF ReaderTypeOK
<1>3. SizeAgrees'
  <2>1. ~(Len(buf') >= 4)
    BY <1>1
  <2>2. QED BY <2>1 DEF SizeAgrees
<1>4. DeliveredWellFormed'
  BY <1>1 DEF DeliveredWellFormed
<1>5. ~clean
  <2> SUFFICES ASSUME clean
               PROVE  FALSE
    OBVIOUS
  <2>1. frame \in Frames
    BY DEF InStep
  <2>2. PICK k \in 0 .. Len(frame) : Split(k)
    BY DEF InStep
  <2>3. /\ frame \in Seq(Byte) /\ Len(frame) \in Nat /\ Len(frame) >= 7 /\ Len(frame) <= BUFFLEN
        /\ k \in Nat /\ k <= Len(frame) /\ BUFFLEN \in Nat
    BY <2>1, FrameFacts, FramesAssumption
  <2>4. CASE k = 0
    BY <1>1, <2>2, <2>3, <2>4 DEF Split, NothingMisleading
  <2>5. CASE k = 1
    BY <1>1, <2>2, <2>3, <2>5 DEF Split
  <2>6. CASE k >= 2 /\ k < Len(frame)
    <3>1. buf = SubSeq(frame, 1, k)
      BY <2>2, <2>6 DEF Split
    <3>2. Len(buf) = k
      BY <2>3, <2>6, <3>1
    <3>3. QED BY <1>1, <2>3, <2>6, <3>2
  <2>7. CASE k = Len(frame)
    <3>1. wire = SubSeq(frame, k + 1, Len(frame))
      BY <2>2 DEF Split
    <3>2. wire = <<>>
      BY <2>3, <2>7, <3>1
    <3>3. QED BY <1>1, <3>2
  <2>8. QED BY <2>3, <2>4, <2>5, <2>6, <2>7
<1>6. InStep'
  BY <1>1, <1>5 DEF InStep
<1>7. QED BY <1>2, <1>3, <1>4, <1>6

\* The invariant holds of every behaviour of the reader (net_thread_WaitCmds).
THEOREM ReaderInvariant == Spec => []ReaderInv
<1>1. ReaderInv /\ [Next]_vars => ReaderInv'
  <2> SUFFICES ASSUME ReaderInv, [Next]_vars
               PROVE  ReaderInv'
    OBVIOUS
  <2>1. CASE SendFrame
    BY <2>1, SendFrameStep
  <2>2. CASE Cut
    BY <2>2, CutStep
  <2>3. CASE SendNoise
    BY <2>3, SendNoiseStep
  <2>4. CASE ReadByte
    BY <2>4, ReadByteStep
  <2>5. CASE BufferFull
    BY <2>5, BufferFullStep
  <2>6. CASE UNCHANGED vars
    BY <2>6 DEF vars, ReaderInv, ReaderTypeOK, SizeAgrees, DeliveredWellFormed, InStep, Split,
                NothingMisleading, HasStart
  <2>7. QED BY <2>1, <2>2, <2>3, <2>4, <2>5, <2>6 DEF Next
<1>2. QED BY <1>1, InitHolds, PTL DEF Spec

\* The buffer never overflows and the size always fits two bytes (net_thread_WaitCmds).
THEOREM ReaderTypesCorrect == Spec => []ReaderTypeOK
<1>1. ReaderInv => ReaderTypeOK
  BY DEF ReaderInv
<1>2. QED BY <1>1, ReaderInvariant, PTL

\* Whatever broken or stale packet came before, what reaches proccess_packet has the
\* start mark and the length that its own header says.
THEOREM DeliveriesWellFormed == Spec => []DeliveredWellFormed
<1>1. ReaderInv => DeliveredWellFormed
  BY DEF ReaderInv
<1>2. QED BY <1>1, ReaderInvariant, PTL

\* A packet that begins on a clean stream is delivered as it was sent, whatever start
\* marks are in it and whatever noise came before.
THEOREM CleanFramesArrive == Spec => []CleanFramesDelivered
<1>1. ReaderInv => CleanFramesDelivered
  <2> SUFFICES ASSUME ReaderInv, clean, wire = <<>>
               PROVE  delivered = <<frame>> /\ buf = <<>>
    BY DEF CleanFramesDelivered
  <2>1. frame \in Frames
    BY DEF ReaderInv, InStep
  <2>2. PICK k \in 0 .. Len(frame) : Split(k)
    BY DEF ReaderInv, InStep
  <2>3. frame \in Seq(Byte) /\ Len(frame) \in Nat /\ k \in Nat /\ k <= Len(frame)
    BY <2>1, FrameFacts
  <2>4. k = Len(frame)
    <3> SUFFICES ASSUME k < Len(frame)
                 PROVE  FALSE
      BY <2>3
    <3>1. wire = SubSeq(frame, k + 1, Len(frame))
      BY <2>2 DEF Split
    <3>2. Len(wire) = Len(frame) - k
      BY <2>3, <3>1
    <3>3. Len(wire) = 0
      OBVIOUS
    <3>4. QED BY <2>3, <3>2, <3>3
  <2>5. QED BY <2>2, <2>4 DEF Split
<1>2. QED BY <1>1, ReaderInvariant, PTL
===============================================================================
