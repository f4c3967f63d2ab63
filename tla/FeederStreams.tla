----------------------------- MODULE FeederStreams -----------------------------
(* Feeder with the bytes of its streams: NetServices says which messages a client *)
(* gets, BeastStream how they are told apart.                                     *)
EXTENDS Feeder, BeastStream

\* A client of an output gets whole messages (StreamComplete), and what it gets are
\* bytes: it can tell the messages in them apart however TCP cuts them, and so can
\* the feeder those of its source and its clients' commands (net_io.c:2150, 2203).
StreamsReadable == (\E x \in Clients : service[x] \in Outputs) => FramingSound
===============================================================================
