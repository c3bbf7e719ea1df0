--------------------------- MODULE MCTokenBudget ---------------------------
(* A small instance of TokenBudget: fewer places than requests, a limit that *)
(* one request reaches and two overrun, a midnight and a crash.              *)
EXTENDS TokenBudget

CONSTANTS c1, c2

MCSlot == {c1, c2}
=============================================================================
