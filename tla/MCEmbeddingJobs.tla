--------------------------- MODULE MCEmbeddingJobs ---------------------------
(***************************************************************************)
(* Bounded instances of EmbeddingJobs.                                     *)
(***************************************************************************)
EXTENDS EmbeddingJobs, TLC

CONSTANTS home  \* the server that serves the requests of a run

MCServerOf == [q \in Requests |-> home]
MCSnapshot == Memories \X {1}
=============================================================================
