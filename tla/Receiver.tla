-------------------------------- MODULE Receiver --------------------------------
(* From bits to aircraft: messages are corrected (ErrorCorrection), scored and    *)
(* tracked (Track), all in the main thread of either program.  Track takes a      *)
(* corrected message for the one that was sent.                                   *)
EXTENDS Track, ErrorCorrection

\* Corrected messages may create and update aircraft (mode_s.c:327, score 700 and up),
\* whenever one is on the list: what they rest on is right, a single error undone and
\* nothing else taken for one.
CorrectionsRight == (\E a \in Addr : aircrafts[a] # NoAircraft) => CorrectionsSound
=================================================================================
