--------------------------- MODULE CircuitBreaker ---------------------------
(***************************************************************************)
(* What FallbackClient's breaker promises, without saying how: the tally   *)
(* counts consecutive failures, Threshold of them open the circuit, an     *)
(* open circuit lets one attempt through per RecoveryInterval, and the     *)
(* first success closes it.  (README.md, "A circuit breaker is what makes  *)
(* local-first affordable"; the docstring of api/fallback.py.)             *)
(***************************************************************************)
EXTENDS Naturals

CONSTANTS Threshold, RecoveryInterval, None

VARIABLES
  mayOpen, \* there is another path to serve requests meanwhile
  tally,   \* consecutive local failures, up to Threshold
  age,     \* None while closed, else time since the circuit opened or was probed
  trying   \* a request is waiting for the local transport

vars == <<mayOpen, tally, age, trying>>

Init ==
  /\ mayOpen \in BOOLEAN
  /\ tally = 0
  /\ age = None
  /\ trying = FALSE

\* Local is tried while the circuit is closed, and once per interval after.
Try ==
  /\ ~trying
  /\ \/ age = None /\ UNCHANGED age
     \/ age = RecoveryInterval /\ age' = 0
  /\ trying' = TRUE
  /\ UNCHANGED <<mayOpen, tally>>

Succeed ==
  /\ trying
  /\ trying' = FALSE
  /\ tally' = 0
  /\ age' = None
  /\ UNCHANGED mayOpen

Fail ==
  /\ trying
  /\ trying' = FALSE
  /\ \/ /\ tally + 1 < Threshold
        /\ tally' = tally + 1
        /\ UNCHANGED age
     \/ /\ tally + 1 >= Threshold
        /\ tally' = Threshold
        /\ age' = IF age = None /\ mayOpen THEN 0 ELSE age
  /\ UNCHANGED mayOpen

Tick ==
  /\ age # None
  /\ age < RecoveryInterval
  /\ age' = age + 1
  /\ UNCHANGED <<mayOpen, tally, trying>>

Next == Try \/ Succeed \/ Fail \/ Tick

Spec == Init /\ [][Next]_vars
=============================================================================
