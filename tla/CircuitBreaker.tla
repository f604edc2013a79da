---------------------------- MODULE CircuitBreaker ----------------------------
(***************************************************************************)
(* The circuit breaker of the networking library, as the callers in src/   *)
(* use it: closed until OpenAfter consecutive failures, half-open when its *)
(* timeout has passed, closed again after CloseAfter successes.  External. *)
(***************************************************************************)
EXTENDS Naturals

CONSTANTS
  OpenAfter,    \* consecutive failures that open the breaker
  CloseAfter    \* successes that close a half-open breaker

Closed == [mode |-> "closed", fails |-> 0, oks |-> 0]
Open   == [Closed EXCEPT !.mode = "open"]
Half   == [Closed EXCEPT !.mode = "half"]

BreakerStates == [mode : {"closed", "open", "half"},
                  fails : 0..(OpenAfter - 1), oks : 0..(CloseAfter - 1)]

Success(r) ==
  CASE r.mode = "closed" -> Closed
    [] r.mode = "half"   -> IF r.oks + 1 = CloseAfter THEN Closed
                            ELSE [r EXCEPT !.oks = @ + 1]
    [] r.mode = "open"   -> r

Failure(r) ==
  CASE r.mode = "closed" -> IF r.fails + 1 = OpenAfter THEN Open
                            ELSE [r EXCEPT !.fails = @ + 1]
    [] r.mode = "half"   -> Open
    [] r.mode = "open"   -> r
===============================================================================
