--------------------------- MODULE MCAsyncLogger ---------------------------
(* Model values for the writers of AsyncLogger. *)
EXTENDS AsyncLogger

CONSTANTS w1, w2

=============================================================================
