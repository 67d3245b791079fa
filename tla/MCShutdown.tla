----------------------------- MODULE MCShutdown -----------------------------
(* Shutdown with two connections and up to two completions.               *)
EXTENDS Shutdown
=============================================================================
