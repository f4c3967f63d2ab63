---------------------------- MODULE MCSdrPipeline ----------------------------
(* SdrPipeline with its two threads, few buffers so that the callback driver  *)
(* runs out of them, and a stream a little longer than the buffers.           *)
EXTENDS SdrPipeline

MCBlocks == 1 .. MaxBlocks
===============================================================================
