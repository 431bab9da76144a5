-------------------------- MODULE MCAsyncGenerator --------------------------
(* Instance of AsyncGenerator for TLC. *)
EXTENDS AsyncGenerator
=============================================================================
