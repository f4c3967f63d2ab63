------------------------------- MODULE MCFeeder -------------------------------
(* Feeder with the source and two more clients; messages of two bytes, heartbeats *)
(* of one, a buffer of four that is flushed at three, a heartbeat every second    *)
(* tick.  BeastStream with a reader's buffer that the longest message just fills,  *)
(* messages of every length with no 0x1a, with nothing else, and with one at each  *)
(* end, in bytes that look like a type after it, and garbage that fills the buffer.*)
EXTENDS FeederStreams

CONSTANT message

MCMessages == {message, Heartbeat}
MCSize == [m \in MCMessages |-> IF m = message THEN 2 ELSE 1]

MCBeastMessages ==
    {[type |-> b[1], body |-> [i \in 1 .. BodyLength(b[1]) |-> IF i \in b[2] THEN Escape ELSE Short]] :
        b \in {<<ModeAC, {}>>, <<Short, {}>>, <<Short, 1 .. 14>>, <<Long, {1, 21}>>, <<Status, {}>>}}

MCGarbage == {<<>>, [i \in 1 .. 49 |-> Short]}
===============================================================================
