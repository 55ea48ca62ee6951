------------------------------- MODULE Sensors -------------------------------
(***************************************************************************)
(* sensor.py, and the readings in coordinator.py's data: what the metering *)
(* sensors show while polls and commands cross.                            *)
(*                                                                         *)
(* A superposition on Coordinator: each action is one of its actions with  *)
(* what happens to the readings.  The query for the group asks for all of  *)
(* METERING_DPIDS, and some of them come with the wildcard reply as well   *)
(* ("the device's wildcard reply leaves current and voltage out").  With   *)
(* the relay open, power and current read zero.                            *)
(***************************************************************************)
EXTENDS Coordinator

CONSTANTS
  InWildcard,  \* the datapoints in the device's wildcard reply
  InGroup      \* those in its answer to the group's query

VARIABLES
  readings,  \* the metering datapoints in self.data, by sensor
  gathered,  \* those in the data of each poll in flight
  sensors,   \* the sensors that were added when the platform was set up
  answered,  \* history: what each poll in flight has had answers for
  vouched    \* history: what the poll last stored had answers for

metered == <<readings, gathered, sensors, answered, vouched>>
svars   == <<vars, metered>>

\* METERING_DPIDS, and a sensor for each.
Datapoints == {"power", "energy", "current", "voltage"}

ASSUME AnswersAssumption ==
  /\ InWildcard \subseteq Datapoints
  /\ InGroup \subseteq Datapoints
  /\ Supports <=> InGroup # {}

\* What the meter reports with the relay closed: watts, watt-hours since the last
\* reset, milliamps and volts.
Load == [power |-> 64, energy |-> 6, current |-> 515, voltage |-> 245]

Raw(s, on) == IF on \/ s \in {"energy", "voltage"} THEN Load[s] ELSE 0

Unread == [s \in Datapoints |-> None]

Readings == [Datapoints -> 0..515 \cup {None}]

ASSUME UnreadAssumption == None \notin 0..515

\* The platform's async_setup_entry: the datapoints that coordinator.data holds.
Reported(r) == {s \in Datapoints : r[s] # None}

SensorsTypeOK ==
  /\ readings \in Readings
  /\ gathered \in [Polls -> Readings]
  /\ sensors  \in SUBSET Datapoints
  /\ answered \in [Polls -> SUBSET Datapoints]
  /\ vouched  \in SUBSET Datapoints
  /\ ~ready => sensors = {}
  /\ \A p \in Polls : poll[p] \in {"probe", "meter", "done"} =>
       InWildcard \subseteq Reported(gathered[p])

SInit ==
  /\ Init
  /\ readings = Unread
  /\ gathered = [p \in Polls |-> Unread]
  /\ sensors = {}
  /\ answered = [p \in Polls |-> {}]
  /\ vouched = {}

-----------------------------------------------------------------------------
(* A poll.                                                                 *)

\* The datapoints D that a reply would have, if it comes.
Answer(D) == IF served THEN D ELSE {}

\* What data.update makes of the reply.
Updated(r, D) == [s \in Datapoints |-> IF s \in Answer(D) THEN Raw(s, device) ELSE r[s]]

\* The wildcard reply is where the poll's data starts.
SQuery(p) ==
  /\ Query(p)
  /\ gathered' = [gathered EXCEPT ![p] = Updated(Unread, InWildcard)]
  /\ answered' = [answered EXCEPT ![p] = Answer(InWildcard)]
  /\ UNCHANGED <<readings, sensors, vouched>>

\* Mutant: the probe forgets what it has read.
SProbe_Forgets(p) == Probe(p) /\ UNCHANGED metered

\* The answer to the group's query is added.
Add(p) ==
  /\ gathered' = [gathered EXCEPT ![p] = Updated(@, InGroup)]
  /\ answered' = [answered EXCEPT ![p] = @ \cup Answer(InGroup)]
  /\ UNCHANGED <<readings, sensors, vouched>>

SProbe(p) == Probe(p) /\ Add(p)

SMeter(p) == Meter(p) /\ Add(p)

\* Mutant: the poll's data is merged into what there was.
Stored_Merged(p) ==
  [s \in Datapoints |-> IF gathered[p][s] # None THEN gathered[p][s] ELSE readings[s]]

\* self.data is what the poll returned, all of it.
Stored(p) == gathered[p]

SFinish(p) ==
  /\ Finish(p)
  /\ readings' = IF poll[p] = "done" THEN Stored(p) ELSE readings
  /\ sensors' = IF ready THEN sensors ELSE Reported(readings')
  /\ vouched' = IF poll[p] = "done" THEN answered[p] ELSE vouched
  /\ UNCHANGED <<gathered, answered>>

-----------------------------------------------------------------------------

\* dict(self.data) keeps the readings beside the confirmed value.
SConfirm(b) == Confirm(b) /\ UNCHANGED metered

SPollSteps(p) ==
  \/ SQuery(p) \/ SProbe(p) \/ SMeter(p) \/ SFinish(p)
  \/ PollCrashes(p) /\ UNCHANGED metered

SPressSteps(b) ==
  \/ SConfirm(b)
  \/ (Control(b) \/ PressCrashes(b) \/ Report(b)) /\ UNCHANGED metered

Others == SetUpAgain \/ TimerFires \/ PathsChange \/ \E b \in Presses : Press(b)

SNext ==
  \/ \E p \in Polls : SPollSteps(p)
  \/ \E b \in Presses : SPressSteps(b)
  \/ Others /\ UNCHANGED metered

SSpec == SInit /\ [][SNext]_svars

\* Threads and the event loop run, timers fire, a failed setup is retried.
SFairness ==
  /\ \A p \in Polls : WF_svars(SPollSteps(p))
  /\ \A b \in Presses : WF_svars(SPressSteps(b))
  /\ WF_svars(TimerFires /\ UNCHANGED metered)
  /\ WF_svars(SetUpAgain /\ UNCHANGED metered)

SFairSpec == SSpec /\ SFairness

-----------------------------------------------------------------------------
(* What a sensor shows.                                                    *)

\* Thousandths of Home Assistant's unit: watt, kilowatt-hour, ampere, volt.
Scale == [power |-> 1000, energy |-> 1, current |-> 1, voltage |-> 1000]

\* Mutant: "discarding it would leave a hole in the history" (sensor.py:159).
NativeValue_Truthy(s) ==
  IF readings[s] \in {None, 0} THEN None ELSE readings[s] * Scale[s]

\* A missing datapoint is unknown, and so is one that is not a number.
NativeValue(s) == IF readings[s] = None THEN None ELSE readings[s] * Scale[s]

-----------------------------------------------------------------------------
(* Properties.                                                             *)

\* What the meter measures, in the same thousandths.
Measured(s) ==
  CASE s = "voltage"           -> 245000
    [] s = "energy"            -> 6
    [] s = "power" /\ device   -> 64000
    [] s = "current" /\ device -> 515
    [] OTHER                   -> 0

\* Polling never stops: once a path works for good, the switch comes to show the
\* device's state and every sensor what is measured, a genuine zero included,
\* whatever polls and commands crossed on the way.  No sensor is one of the
\* "entities reading unknown forever" (sensor.py:8).
AllSettles ==
  <>[]served =>
    <>[](success /\ data = device /\ \A s \in sensors : NativeValue(s) = Measured(s))

\* The set-up's one probe decides twice, in its thread and when the platform reads
\* the data later, which has what the wildcard query read too.  There are sensors
\* for exactly the datapoints that the polls ask for from then on: none reads
\* "unknown" for good, and nothing is asked of the device at each poll that no
\* sensor shows.
SensorsAreRenewed ==
  ready => sensors = InWildcard \cup (IF metering THEN InGroup ELSE {})

\* A reading is shown exactly if the poll last stored has had it from the device:
\* when the group's query failed, what it alone reports is unknown, never the
\* value of an earlier poll or of one that crossed; a command, confirmed or not,
\* and a poll that fails neither bring a reading back nor lose one.
ReadingsAreVouchedFor == Reported(readings) = vouched
=============================================================================
