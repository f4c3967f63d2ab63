----------------------------- MODULE MCServerLink -----------------------------
(* ServerLink with one sending thread (together with the reader, two threads  *)
(* may be disconnecting at once), two sockets, so that one may be leaked, and *)
(* two waiting packets, so that one may follow another at once.               *)
EXTENDS ServerLink
===============================================================================
