-------------------------- MODULE SequentialClient --------------------------
(***************************************************************************)
(* FallbackClient serving one request at a time, as it does between two    *)
(* button presses: there it implements the CircuitBreaker.                 *)
(***************************************************************************)
EXTENDS FallbackClient

CONSTANT Poll   \* the only job

OneJob == Jobs = {Poll}

\* A trip that has been decided is an open circuit: nobody else can look.
Breaker == INSTANCE CircuitBreaker WITH
  mayOpen <- hasCloud,
  tally   <- failures,
  age     <- IF pc[Poll] = "trip" THEN 0 ELSE openAge,
  trying  <- pc[Poll] \in {"local", "answered", "failed"}

\* The code's breaker, step for step, is the one its documentation describes.
ImplementsBreaker == Breaker!Spec
=============================================================================
