---------------------------- MODULE SequenceNumber ----------------------------
(***************************************************************************)
(* api/protocol.py's new_sn: the number that ties a reply to its request.  *)
(* _last_sn belongs to the process, shared without a lock by the threads   *)
(* of every configured device; the number comes from the wall clock, which *)
(* stands still between two calls and may be set back.                     *)
(*                                                                         *)
(* Threads switch when time.time() returns, and not between the comparison *)
(* and the assignment that follow it.                                      *)
(***************************************************************************)
EXTENDS Naturals

CONSTANTS
  Threads,  \* executor threads, of every client in the process
  MaxSn     \* bound: no call begins once the numbers or the clock reach it

ASSUME MaxSnAssumption == MaxSn \in Nat

VARIABLES
  lastSn,     \* _last_sn
  candidate,  \* what each thread read from the clock
  pc,         \* where each thread is in new_sn
  clock,      \* environment: the wall clock, in milliseconds
  issued      \* history: the numbers returned

vars == <<lastSn, candidate, pc, clock, issued>>

TypeOK ==
  /\ lastSn    \in Nat
  /\ candidate \in [Threads -> Nat]
  /\ pc        \in [Threads -> {"idle", "read", "bump"}]
  /\ clock     \in Nat
  /\ issued    \in SUBSET Nat

Init ==
  /\ lastSn = 0
  /\ candidate = [t \in Threads |-> 0]
  /\ pc = [t \in Threads |-> "idle"]
  /\ clock = 1
  /\ issued = {}

Begin(t) ==
  /\ pc[t] = "idle"
  /\ lastSn < MaxSn
  /\ pc' = [pc EXCEPT ![t] = "read"]
  /\ UNCHANGED <<lastSn, candidate, clock, issued>>

ReadClock(t) ==
  /\ pc[t] = "read"
  /\ candidate' = [candidate EXCEPT ![t] = clock]
  /\ pc' = [pc EXCEPT ![t] = "bump"]
  /\ UNCHANGED <<lastSn, clock, issued>>

\* Mutant: only a number in the past is nudged forward.
Nudged_OffByOne(n) == IF n < lastSn THEN lastSn + 1 ELSE n

Nudged(n) == IF n <= lastSn THEN lastSn + 1 ELSE n

\* Compared, stored and returned.
Bump(t) ==
  /\ pc[t] = "bump"
  /\ lastSn' = Nudged(candidate[t])
  /\ issued' = issued \cup {lastSn'}
  /\ pc' = [pc EXCEPT ![t] = "idle"]
  /\ UNCHANGED <<candidate, clock>>

\* Time passes, or somebody sets the clock.
ClockChanges ==
  /\ clock' \in 1..MaxSn
  /\ UNCHANGED <<lastSn, candidate, pc, issued>>

Next ==
  \/ \E t \in Threads : Begin(t) \/ ReadClock(t) \/ Bump(t)
  \/ ClockChanges

Spec == Init /\ [][Next]_vars

\* "Distinct within a process": a number is above all those issued before it,
\* whatever the clock does and wherever a thread read it, so that one
\* command's reply never satisfies another's wait.
NumbersAreFresh ==
  [][\A t \in Threads : pc[t] = "bump" /\ pc'[t] = "idle" =>
       \A n \in issued : n < lastSn']_vars
=============================================================================
