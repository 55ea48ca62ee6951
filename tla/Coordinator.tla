----------------------------- MODULE Coordinator -----------------------------
(***************************************************************************)
(* coordinator.py: what Home Assistant shows of one device, kept current   *)
(* by polls and changed at once by confirmed commands.                     *)
(*                                                                         *)
(* A poll blocks in an executor thread: the wildcard query, and then the   *)
(* metering query or the probe for it.  What it returns is stored later,   *)
(* on the event loop, and commands run in other threads meanwhile.  Two    *)
(* polls can be in flight: Scheduled, when the interval is over, and       *)
(* Requested, by async_request_refresh, which is ignored while a requested *)
(* poll is already in flight (Home Assistant's Debouncer: "Any call is     *)
(* good, so abort").                                                       *)
(*                                                                         *)
(* The state shown is datapoint 1.  A request is served while one of the   *)
(* two paths works (FallbackClient), except that one which crosses another *)
(* may end in the TypeError of _should_try_local (FallbackTypeError).      *)
(***************************************************************************)
EXTENDS Naturals

CONSTANTS
  Presses,    \* commands; each is given once
  Supports,   \* whether the device has the metering datapoints
  None

ASSUME SupportsAssumption == Supports \in BOOLEAN
ASSUME NoneAssumption     == None \notin BOOLEAN

VARIABLES
  data,      \* self.data["1"], None before the first poll
  success,   \* last_update_success
  ready,     \* the first refresh is done and the entities exist
  armed,     \* the interval timer runs
  metering,  \* _metering: None, or whether it is the group of datapoints
  poll,      \* where each poll in flight is
  reading,   \* what its wildcard query returned
  press,     \* where each command is
  wanted,    \* what it sets the relay to
  device,    \* environment: the relay of the device
  served,    \* environment: a path works, local or cloud
  probes     \* history: probes made by this coordinator

shown   == <<data, success, ready, armed>>
vars    == <<shown, metering, poll, reading, press, wanted, device, served,
             probes>>

Polls == {"scheduled", "requested"}

TypeOK ==
  /\ data     \in BOOLEAN \cup {None}
  /\ success  \in BOOLEAN
  /\ ready    \in BOOLEAN
  /\ armed    \in BOOLEAN
  /\ metering \in BOOLEAN \cup {None}
  /\ poll     \in [Polls -> {"idle", "query", "probe", "meter", "done", "failed"}]
  /\ reading  \in [Polls -> BOOLEAN]
  /\ press    \in [Presses -> {"ready", "sent", "accepted", "refused", "error",
                            "confirmed", "raised"}]
  /\ wanted   \in [Presses -> BOOLEAN]
  /\ device   \in BOOLEAN
  /\ served   \in BOOLEAN
  /\ probes   \in Nat
  /\ ready    => data # None /\ metering # None

\* The entry is being set up: the first refresh is in flight.
Init ==
  /\ data = None
  /\ success = TRUE
  /\ ready = FALSE
  /\ armed = FALSE
  /\ metering = None
  /\ poll = [p \in Polls |-> IF p = "scheduled" THEN "query" ELSE "idle"]
  /\ reading = [p \in Polls |-> FALSE]
  /\ press = [b \in Presses |-> "ready"]
  /\ wanted = [b \in Presses |-> FALSE]
  /\ device \in BOOLEAN
  /\ served \in BOOLEAN
  /\ probes = 0

-----------------------------------------------------------------------------
(* A poll, in its executor thread.                                         *)

Step(p, from, to) ==
  /\ poll[p] = from
  /\ poll' = [poll EXCEPT ![p] = to]

\* What _poll does after the wildcard query, by _metering.
AfterQuery ==
  IF metering = None THEN "probe" ELSE IF metering THEN "meter" ELSE "done"

Query(p) ==
  /\ Step(p, "query", IF served THEN AfterQuery ELSE "failed")
  /\ reading' = [reading EXCEPT ![p] = IF served THEN device ELSE @]
  /\ UNCHANGED <<shown, metering, press, wanted, device, served, probes>>

\* Mutant: a probe that fails is made again by the next poll.
ProbeResult_Retried == IF served THEN Supports ELSE None

\* Readings, nothing at all, or TransportError.
ProbeResult == served /\ Supports

\* _probe_metering, and the assignment of its result.
Probe(p) ==
  /\ Step(p, "probe", "done")
  /\ metering' = ProbeResult
  /\ probes' = probes + 1
  /\ UNCHANGED <<shown, reading, press, wanted, device, served>>

\* The group's query, or no answer to it: "its failure must not take the switch
\* down with it".
Meter(p) ==
  /\ Step(p, "meter", "done")
  /\ UNCHANGED <<shown, metering, reading, press, wanted, device, served, probes>>

Asking == {q \in Polls : poll[q] \in {"query", "probe", "meter"}}
Sent   == {b \in Presses : press[b] = "sent"}

\* Another request's success closes the circuit while this one reads its stamp.
\* Nobody catches the TypeError: Home Assistant takes the poll for a failed one,
\* also when it was about to ask for the metering group only.
PollCrashes(p) ==
  /\ served
  /\ p \in Asking
  /\ Asking # {p} \/ Sent # {}
  /\ poll' = [poll EXCEPT ![p] = "failed"]
  /\ UNCHANGED <<shown, metering, reading, press, wanted, device, served, probes>>

-----------------------------------------------------------------------------
(* The event loop.                                                         *)

\* The first refresh failed: Home Assistant sets the entry up again later,
\* with a new coordinator and a new client.
SetUpAgain ==
  /\ poll["scheduled"] = "failed"
  /\ ~ready
  /\ poll' = [poll EXCEPT !["scheduled"] = "query"]
  /\ metering' = None
  /\ probes' = 0
  /\ UNCHANGED <<shown, reading, press, wanted, device, served>>

\* Mutant: the timer is not set again after a failure.
Finish_StopsOnFailure(p) ==
  /\ \/ Step(p, "done", "idle") /\ data' = reading[p] /\ success' = TRUE /\ armed' = TRUE
     \/ ready /\ Step(p, "failed", "idle") /\ success' = FALSE /\ UNCHANGED <<data, armed>>
  /\ ready' = TRUE
  /\ UNCHANGED <<metering, reading, press, wanted, device, served, probes>>

\* The poll's result is stored, or the failure; the timer is set again.
Finish(p) ==
  /\ \/ Step(p, "done", "idle") /\ data' = reading[p] /\ success' = TRUE
     \/ ready /\ Step(p, "failed", "idle") /\ success' = FALSE /\ UNCHANGED data
  /\ ready' = TRUE
  /\ armed' = TRUE
  /\ UNCHANGED <<metering, reading, press, wanted, device, served, probes>>

\* The interval is over.  A poll is over well before the next one is due.
TimerFires ==
  /\ armed
  /\ Step("scheduled", "idle", "query")
  /\ armed' = FALSE
  /\ UNCHANGED <<data, success, ready, metering, reading, press, wanted,
                 device, served, probes>>

\* async_control, up to the executor.
Press(b) ==
  /\ ready
  /\ press[b] = "ready"
  /\ press' = [press EXCEPT ![b] = "sent"]
  /\ \E v \in BOOLEAN : wanted' = [wanted EXCEPT ![b] = v]
  /\ UNCHANGED <<shown, metering, poll, reading, device, served, probes>>

\* client.control, in its thread: accepted, refused, or an error, in which the
\* device may have had the command all the same.
Control(b) ==
  /\ press[b] = "sent"
  /\ \/ served /\ press' = [press EXCEPT ![b] = "accepted"] /\ device' = wanted[b]
     \/ served /\ press' = [press EXCEPT ![b] = "refused"] /\ UNCHANGED device
     \/ /\ ~served
        /\ press' = [press EXCEPT ![b] = "error"]
        /\ device' \in {device, wanted[b]}
  /\ UNCHANGED <<shown, metering, poll, reading, wanted, served, probes>>

\* As in PollCrashes, before anything is sent to the device.
PressCrashes(b) ==
  /\ served
  /\ b \in Sent
  /\ Asking # {} \/ Sent # {b}
  /\ press' = [press EXCEPT ![b] = "error"]
  /\ UNCHANGED <<shown, metering, poll, reading, wanted, device, served, probes>>

\* The command was accepted: async_set_updated_data sets the timer again, and
\* async_request_refresh starts a poll, unless a requested one is in flight.
Confirm(b) ==
  /\ press[b] = "accepted"
  /\ press' = [press EXCEPT ![b] = "confirmed"]
  /\ data' = wanted[b]
  /\ success' = TRUE
  /\ IF poll["requested"] = "idle"
     THEN Step("requested", "idle", "query") /\ armed' = FALSE
     ELSE armed' = TRUE /\ UNCHANGED poll
  /\ UNCHANGED <<ready, metering, reading, wanted, device, served, probes>>

\* Refused or failed: HomeAssistantError, and nothing else.
Report(b) ==
  /\ press[b] \in {"refused", "error"}
  /\ press' = [press EXCEPT ![b] = "raised"]
  /\ UNCHANGED <<shown, metering, poll, reading, wanted, device, served, probes>>

PollSteps(p)  == Query(p) \/ Probe(p) \/ Meter(p) \/ PollCrashes(p) \/ Finish(p)
PressSteps(b) == Control(b) \/ PressCrashes(b) \/ Confirm(b) \/ Report(b)

PathsChange ==
  /\ served' = ~served
  /\ UNCHANGED <<shown, metering, poll, reading, press, wanted, device, probes>>

Next ==
  \/ \E p \in Polls : PollSteps(p)
  \/ \E b \in Presses : Press(b) \/ PressSteps(b)
  \/ SetUpAgain
  \/ TimerFires
  \/ PathsChange

Spec == Init /\ [][Next]_vars

-----------------------------------------------------------------------------
(* Properties.                                                             *)

\* The metering group is probed by one poll and never again, though polls
\* overlap and the probe may fail.
ProbedByOnePoll == probes <= 1

\* Polling never stops: through failures, commands that reset the timer and
\* refreshes that are not made, there is always a poll in flight or a timer
\* that will start one.
PollingContinues ==
  ready => armed \/ \E p \in Polls : poll[p] # "idle"

Quiet ==
  /\ ready
  /\ \A p \in Polls : poll[p] = "idle"
  /\ \A b \in Presses : press[b] \in {"ready", "confirmed"}

\* "Reconcile against the device shortly after" (coordinator.py:133): when the
\* polls that confirmed commands ask for are over, what is shown is the device's
\* state.  A request that finds an older poll in flight, or is overtaken by its
\* result, leaves a stale display until the next interval.
ReconciledWhenQuiet == Quiet /\ success => data = device
=============================================================================
