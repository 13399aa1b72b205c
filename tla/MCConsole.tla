----------------------------- MODULE MCConsole -----------------------------
(* A small console: two letters, a FIFO of one byte, lines of two.         *)
EXTENDS Console, TLC

MCLetters == {"a", "b"}
MCWords   == <<"a", "a">> :> "crash" @@ <<"a", "b">> :> "freeze" @@ <<"b">> :> "number"
=============================================================================
