----------------------------- MODULE MCBreaker -----------------------------
(* Instance of Breaker for TLC: callers are interchangeable model values.   *)
EXTENDS Breaker
=============================================================================
