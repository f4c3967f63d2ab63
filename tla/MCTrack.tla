-------------------------------- MODULE MCTrack --------------------------------
(* Track with one aircraft besides address 0; a filter of two slots where all *)
(* addresses collide, filled by it, by it as a non-transponder, and address   *)
(* 0; the altitude goes stale after one tick and expires after two, the rest  *)
(* is valid for one.  Of the messages, one of each kind the code tells apart. *)
(* ErrorCorrection with two patterns of bits, one of which looks like a short *)
(* message with a correct checksum at its beginning.                          *)
EXTENDS Receiver

CONSTANT plane

MCAddr == {plane, Junk}
MCKeys == MCAddr \X {"icao", "nt"}
MCHash == [k \in MCKeys |-> 0]
MCStale == [f \in Fields |-> 1]
MCExpire == [f \in Fields |-> IF f = "altitude_baro" THEN 2 ELSE 1]

MCReceived ==
    {m \in Message :
        \/ m.addr = plane /\ m.df = 4 /\ m.altitude
        \/ m.addr = plane /\ m.df = 17 /\ m.cpr = "none" /\ m.corrected > 0
        \/ m.addr = plane /\ m.df = 17 /\ m.cpr # "none" /\ m.corrected = 0
              /\ (m.source = SOURCE_MLAT => m.cpr = "even")
        \/ m.addr = plane /\ m.df = 18 /\ m.cpr = "none" /\ m.corrected = 0
        \/ m.addr = Junk /\ m.df = 11 /\ m.corrected = 0 /\ m.iid = 0}

Pattern == {i \in 5 .. 87 : i % 3 # 1}
LikeShort ==
    {i \in Pattern : i \notin 32 .. 55} \cup
    {55 - i : i \in modesChecksum({0, 4} \cup {j \in Pattern : j < 32}, MODES_SHORT_MSG_BITS)}

MCPayloads == {Pattern, LikeShort}
MCMaxErrors == [bits \in Lengths |-> IF bits = MODES_SHORT_MSG_BITS THEN 4 ELSE 3]
===============================================================================
