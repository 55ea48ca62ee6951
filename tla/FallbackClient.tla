--------------------------- MODULE FallbackClient ---------------------------
(***************************************************************************)
(* api/fallback.py: the client that serves each request over the local     *)
(* transport, or over the cloud relay when local fails, with a circuit     *)
(* breaker that stops paying for a local listener known to be dead.        *)
(*                                                                         *)
(* The object has no lock, and Home Assistant runs its requests in an      *)
(* executor: a poll and a button press run _attempt on two threads at      *)
(* once.  A "job" is one such thread.  CPython switches threads on         *)
(* function entry, after a call and at a loop's back edge, never between   *)
(* two adjacent attribute accesses, so an action here is a stretch of code *)
(* between two calls.                                                      *)
(*                                                                         *)
(* Two numbers are kept only as far as the code compares them:             *)
(*   - openAge is the time since _circuit_opened_at, up to                 *)
(*     RecoveryInterval, so that the clock needs no bound;                 *)
(*   - failures is _consecutive_failures, up to Threshold.                 *)
(***************************************************************************)
EXTENDS Naturals

CONSTANTS
  Pollers,           \* executor threads that run CozyLifeCoordinator._poll
  Pressers,          \* executor threads that run a control command
  Threshold,         \* failure_threshold
  RecoveryInterval,  \* recovery_interval, in ticks
  None               \* Python's None

ASSUME JobsAssumption   == Pollers \cap Pressers = {}
ASSUME LimitsAssumption == /\ Threshold \in Nat \ {0}
                           /\ RecoveryInterval \in Nat \ {0}
ASSUME NoneAssumption   == None \notin Nat \cup {"local", "cloud"}

VARIABLES
  hasCloud,      \* _cloud is not None: built with a cloud transport
  activePath,    \* _active_path
  failures,      \* _consecutive_failures
  openAge,       \* None when the circuit is closed, else the age of its stamp
  pc,            \* where each job is in _attempt
  outcome,       \* how each job's last request ended
  delivered,     \* history: transports over which the request reached the device
  failuresSeen,  \* history: local failures since the client was built
  listener,      \* environment: the device's local listener answers
  relay          \* environment: the cloud relay reaches the device

shared == <<activePath, failures, openAge, failuresSeen>>
given  == <<hasCloud, listener, relay>>
vars   == <<hasCloud, activePath, failures, openAge, pc, outcome, delivered,
            failuresSeen, listener, relay>>

Jobs == Pollers \cup Pressers

Steps == {"idle", "gate", "elapsed", "stamp", "local", "answered", "failed",
          "trip", "giveUp", "noteLocal", "cloud", "noteCloud"}

Outcomes == {"none", "served", "error", "crashed"}

AtMost(bound, n) == IF n <= bound THEN n ELSE bound

TypeOK ==
  /\ hasCloud     \in BOOLEAN
  /\ activePath   \in {None, "local", "cloud"}
  /\ failures     \in 0..Threshold
  /\ openAge      \in {None} \cup 0..RecoveryInterval
  /\ pc           \in [Jobs -> Steps]
  /\ outcome      \in [Jobs -> Outcomes]
  /\ delivered    \in [Jobs -> 0..2]
  /\ failuresSeen \in 0..Threshold
  /\ listener     \in BOOLEAN
  /\ relay        \in BOOLEAN

Init ==
  /\ hasCloud \in BOOLEAN
  /\ activePath = None
  /\ failures = 0
  /\ openAge = None
  /\ pc = [j \in Jobs |-> "idle"]
  /\ outcome = [j \in Jobs |-> "none"]
  /\ delivered = [j \in Jobs |-> 0]
  /\ failuresSeen = 0
  /\ listener \in BOOLEAN
  /\ relay \in BOOLEAN

-----------------------------------------------------------------------------
(* A job's steps through query()/control() and _attempt().                 *)

Goto(j, from, to) ==
  /\ pc[j] = from
  /\ pc' = [pc EXCEPT ![j] = to]

\* The request ends: with a value, with TransportError, or with another exception.
Finish(j, from, how) ==
  /\ Goto(j, from, "idle")
  /\ outcome' = [outcome EXCEPT ![j] = how]

Begin(j) ==
  /\ Goto(j, "idle", "gate")
  /\ outcome' = [outcome EXCEPT ![j] = "none"]
  /\ delivered' = [delivered EXCEPT ![j] = 0]
  /\ UNCHANGED <<shared, given>>

\* Nothing else to serve the request, or local not known to be down.
LocalIsPreferred == ~hasCloud \/ openAge = None

\* _should_try_local, up to the first call of the clock.
Gate(j) ==
  /\ Goto(j, "gate", IF LocalIsPreferred THEN "local" ELSE "elapsed")
  /\ UNCHANGED <<shared, outcome, delivered, given>>

IntervalRuns == openAge < RecoveryInterval

\* The stamp is read a second time, after the clock: by then another job may
\* have closed the circuit, and subtracting None raises TypeError.
Elapsed(j) ==
  /\ \/ /\ openAge = None
        /\ Finish(j, "elapsed", "crashed")
     \/ /\ openAge # None
        /\ Goto(j, "elapsed", IF IntervalRuns THEN "cloud" ELSE "stamp")
        /\ UNCHANGED outcome
  /\ UNCHANGED <<shared, delivered, given>>

\* Mutant: the probe does not restart the interval.
Stamp_KeepsClock(j) ==
  /\ Goto(j, "stamp", "local")
  /\ UNCHANGED <<shared, outcome, delivered, given>>

\* "Reset the clock first": the probe is paid for before it is made.
Stamp(j) ==
  /\ Goto(j, "stamp", "local")
  /\ openAge' = 0
  /\ UNCHANGED <<activePath, failures, failuresSeen, outcome, delivered, given>>

\* The local transport returns a value; a refused command (False) is one too.
LocalAnswers(j) ==
  /\ listener
  /\ Goto(j, "local", "answered")
  /\ delivered' = [delivered EXCEPT ![j] = @ + 1]
  /\ UNCHANGED <<shared, outcome, given>>

\* Mutant: the client retries the local transport itself.
LocalFails_Retries(j) ==
  /\ ~listener
  /\ Goto(j, "local", "local")
  /\ \E reached \in {0, 1} :
       delivered' = [delivered EXCEPT ![j] = @ + reached]
  /\ UNCHANGED <<shared, outcome, given>>

\* The local transport raises TransportError: nothing answered, though the
\* frame may have reached the device before that became known.
LocalFails(j) ==
  /\ ~listener
  /\ Goto(j, "local", "failed")
  /\ \E reached \in {0, 1} :
       delivered' = [delivered EXCEPT ![j] = @ + reached]
  /\ UNCHANGED <<shared, outcome, given>>

\* Mutant: the tally is cleared, the circuit stays open.
RecordSuccess_StaysOpen(j) ==
  /\ Goto(j, "answered", "noteLocal")
  /\ failures' = 0
  /\ UNCHANGED <<activePath, openAge, failuresSeen, outcome, delivered, given>>

\* _record_local_success: one success clears the tally and closes the circuit.
RecordSuccess(j) ==
  /\ Goto(j, "answered", "noteLocal")
  /\ failures' = 0
  /\ openAge' = None
  /\ UNCHANGED <<activePath, failuresSeen, outcome, delivered, given>>

NoteLocal(j) ==
  /\ Finish(j, "noteLocal", "served")
  /\ activePath' = "local"
  /\ UNCHANGED <<failures, openAge, failuresSeen, delivered, given>>

\* Mutant: one failure too few opens the circuit.
Opens_OffByOne(tally) == openAge = None /\ hasCloud /\ tally + 1 >= Threshold

\* Mutant: the circuit opens though there is no other path.
Opens_WithoutCloud(tally) == openAge = None /\ tally >= Threshold

\* Whether this failure, making the tally what it is, opens the circuit.
Opens(tally) == openAge = None /\ hasCloud /\ tally >= Threshold

\* Mutant: the local error is the request's error, cloud or not.
FallsBackTo_Nothing == "giveUp"

FallsBackTo == IF hasCloud THEN "cloud" ELSE "giveUp"

\* _record_local_failure, up to the call of the clock that dates the opening.
RecordFailure(j) ==
  LET tally == AtMost(Threshold, failures + 1)
  IN  /\ Goto(j, "failed", IF Opens(tally) THEN "trip" ELSE FallsBackTo)
      /\ failures' = tally
      /\ failuresSeen' = AtMost(Threshold, failuresSeen + 1)
      /\ UNCHANGED <<activePath, openAge, outcome, delivered, given>>

\* The opening is stored, on the strength of a check made before the call.
Trip(j) ==
  /\ Goto(j, "trip", "cloud")
  /\ openAge' = 0
  /\ UNCHANGED <<activePath, failures, failuresSeen, outcome, delivered, given>>

\* Without a cloud transport the local error is the request's error.
GiveUp(j) ==
  /\ Finish(j, "giveUp", "error")
  /\ activePath' = None
  /\ UNCHANGED <<failures, openAge, failuresSeen, delivered, given>>

CloudAnswers(j) ==
  /\ relay
  /\ Goto(j, "cloud", "noteCloud")
  /\ delivered' = [delivered EXCEPT ![j] = @ + 1]
  /\ UNCHANGED <<shared, outcome, given>>

\* Mutant: the request is tried again until some path answers.
CloudFails_StartsOver(j) ==
  /\ ~relay
  /\ Goto(j, "cloud", "gate")
  /\ delivered' = [delivered EXCEPT ![j] = 0]
  /\ activePath' = None
  /\ UNCHANGED <<failures, openAge, failuresSeen, outcome, given>>

\* Both exits of _via_cloud's handler raise TransportError.
CloudFails(j) ==
  /\ ~relay
  /\ Finish(j, "cloud", "error")
  /\ \E reached \in {0, 1} :
       delivered' = [delivered EXCEPT ![j] = @ + reached]
  /\ activePath' = None
  /\ UNCHANGED <<failures, openAge, failuresSeen, given>>

NoteCloud(j) ==
  /\ Finish(j, "noteCloud", "served")
  /\ activePath' = "cloud"
  /\ UNCHANGED <<failures, openAge, failuresSeen, delivered, given>>

\* What a job does once its request has begun.
Progress(j) ==
  \/ Gate(j) \/ Elapsed(j) \/ Stamp(j)
  \/ LocalAnswers(j) \/ LocalFails(j)
  \/ RecordSuccess(j) \/ NoteLocal(j)
  \/ RecordFailure(j) \/ Trip(j) \/ GiveUp(j)
  \/ CloudAnswers(j) \/ CloudFails(j) \/ NoteCloud(j)

-----------------------------------------------------------------------------
(* The environment.                                                        *)

\* Time passes; it is only ever compared with an open circuit's stamp.
Tick ==
  /\ openAge # None
  /\ openAge < RecoveryInterval
  /\ openAge' = openAge + 1
  /\ UNCHANGED <<activePath, failures, failuresSeen, pc, outcome, delivered, given>>

\* The firmware fault, a lost poll, a power-cycle.
ListenerChanges ==
  /\ listener' = ~listener
  /\ UNCHANGED <<shared, pc, outcome, delivered, hasCloud, relay>>

\* The internet or CozyLife's relay goes away or comes back.
RelayChanges ==
  /\ relay' = ~relay
  /\ UNCHANGED <<shared, pc, outcome, delivered, hasCloud, listener>>

Next ==
  \/ \E j \in Jobs : Begin(j) \/ Progress(j)
  \/ Tick
  \/ ListenerChanges
  \/ RelayChanges

Spec == Init /\ [][Next]_vars

\* Polls are rescheduled for ever, both transports time out, the clock runs.
\* Presses and the environment's changes are under no obligation.
Fairness ==
  /\ \A j \in Pollers : WF_vars(Begin(j))
  /\ \A j \in Jobs : WF_vars(Progress(j))
  /\ WF_vars(Tick)

FairSpec == Spec /\ Fairness

-----------------------------------------------------------------------------
(* Properties for any number of jobs.                                      *)

\* Local is not cut out by a blip: however the jobs interleave, local is only
\* ever skipped, or about to be, once the client has seen Threshold failures.
CutOutNeedsFailures ==
  openAge # None \/ (\E j \in Jobs : pc[j] \in {"elapsed", "stamp", "trip"})
    => failuresSeen = Threshold

\* A client without a cloud transport never cuts local out and never runs into
\* _via_cloud's "assert self._cloud is not None" (fallback.py:140).
LocalOnlyNeverCutOut ==
  ~hasCloud =>
    /\ openAge = None
    /\ \A j \in Jobs : pc[j] \notin {"elapsed", "stamp", "trip", "cloud", "noteCloud"}

\* Losing the local path alone is invisible.  While the relay works, no request
\* ends in TransportError, however the listener comes and goes and the jobs cross;
\* and while the listener stays down, no request fails at all: the TypeError that
\* OnlyTransportErrors is about takes a local success in another job.
LocalOutageIsInvisible ==
  /\ [](hasCloud /\ relay) => [](\A j \in Jobs : outcome[j] # "error")
  /\ [](hasCloud /\ relay /\ ~listener)
       => [](\A j \in Jobs : outcome[j] \in {"none", "served"})

\* Every request ends, on every path and through every error.
EveryRequestEnds ==
  \A j \in Jobs : pc[j] # "idle" ~> pc[j] = "idle"

\* A listener that stays up is noticed once the presses stop, and from then on
\* serves every poll: no state that probes and trips leave behind, however
\* they interleaved, keeps the client on the cloud.
ReturnsToLocal ==
  <>[](listener /\ \A j \in Pressers : pc[j] = "idle") => <>[](activePath = "local")

-----------------------------------------------------------------------------
(* Properties that two jobs break.                                         *)

\* "After three consecutive failures the local path is skipped": while the
\* circuit is open, the tally stands at the threshold.
OpensOnlyOnConsecutiveFailures ==
  openAge # None => failures = Threshold

\* "Time for a single probe": a probe starts from a stamp a full interval old.
ProbesAreSingle ==
  [][\A j \in Jobs : pc[j] = "stamp" /\ pc'[j] = "local"
       => openAge = RecoveryInterval]_vars

\* A request ends with a value or with this package's own error.
OnlyTransportErrors ==
  \A j \in Jobs : outcome[j] # "crashed"

\* A command goes to the device at most once.  One job is enough to break it:
\* a lost reply sends the command again over the relay.
CommandDeliveredOnce ==
  \A j \in Pressers : delivered[j] <= 1
=============================================================================
