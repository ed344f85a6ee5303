----------------------------- MODULE MCFizzBase -----------------------------
(* FizzBase with one write callback.  Two submissions, and a record that    *)
(* can be in flight, are enough for a queue of two behind a busy machine    *)
(* and for an event submitted after an error.                               *)
EXTENDS FizzBase

CONSTANT t1
MCToken == {t1}
=============================================================================
