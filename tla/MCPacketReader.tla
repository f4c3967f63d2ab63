---------------------------- MODULE MCPacketReader ----------------------------
(* PacketReader with a short buf and packets that fill it, that contain start *)
(* marks and size bytes equal to their characters, and noise of many lengths. *)
EXTENDS PacketReader

MCFrames == {
    <<126, 35, 0, 3, 1, 7, 7>>,
    <<126, 35, 0, 4, 2, 35, 126, 7>>,
    <<126, 35, 0, 3, 1, 126, 35>>,
    <<126, 35, 0, 6, 1, 126, 35, 0, 3, 7>> }

MCNoise == {<<126>>, <<35, 126>>, <<0, 3, 7>>, <<7, 7, 7, 7, 7, 7, 126>>}
===============================================================================
