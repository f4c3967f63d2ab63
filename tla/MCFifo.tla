-------------------------------- MODULE MCFifo --------------------------------
(* A small instance of Fifo: several threads on each side, so that a signal   *)
(* has a choice of waiters and a woken thread can be overtaken.               *)
EXTENDS Fifo, TLC

Symmetry == Permutations(Buffers) \cup Permutations(Producers) \cup Permutations(Consumers)
===============================================================================
