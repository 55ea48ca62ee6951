-------------------------- MODULE CoordinatorProofs --------------------------
(***************************************************************************)
(* Theorems about Coordinator and Sensors for any number of commands,      *)
(* crossing the polls in any order.                                        *)
(***************************************************************************)
EXTENDS Sensors, TLAPS

\* The types the argument needs.
PollsOK ==
  /\ poll \in [Polls -> {"idle", "query", "probe", "meter", "done", "failed"}]
  /\ DOMAIN press = Presses

\* Until the entity exists there is one poll, and nothing to start another.
OneFirstPoll ==
  ~ready => /\ ~armed
            /\ poll["requested"] = "idle"
            /\ \A b \in Presses : press[b] = "ready"

\* The metering group has been decided on once a poll is past the question.
Decided ==
  /\ ready => metering # None
  /\ \A p \in Polls : poll[p] \in {"meter", "done"} => metering # None
  /\ \A p \in Polls : poll[p] = "probe" => metering = None

ProbeCount == probes = IF metering = None THEN 0 ELSE 1

CoordInv ==
  /\ PollsOK
  /\ OneFirstPoll
  /\ Decided
  /\ ProbeCount
  /\ PollingContinues

LEMMA InitCoordInv == Init => CoordInv
  BY NoneAssumption
  DEF Init, CoordInv, PollsOK, OneFirstPoll, Decided, ProbeCount,
      PollingContinues, Polls

LEMMA NextCoordInv == CoordInv /\ [Next]_vars => CoordInv'
<1> SUFFICES ASSUME CoordInv, [Next]_vars
             PROVE  CoordInv'
  OBVIOUS
<1> USE NoneAssumption, SupportsAssumption
    DEF CoordInv, PollsOK, OneFirstPoll, Decided, ProbeCount, PollingContinues,
        Polls, Step, shown
<1>1. ASSUME NEW p \in Polls, Query(p)
      PROVE  CoordInv'
  BY <1>1 DEF Query, AfterQuery
<1>2. ASSUME NEW p \in Polls, Probe(p)
      PROVE  CoordInv'
  <2>1. metering' \in BOOLEAN
    BY <1>2, Zenon DEF Probe, ProbeResult
  <2>2. metering = None /\ ~ready
    BY <1>2 DEF Probe
  <2> QED
    BY <1>2, <2>1, <2>2 DEF Probe
<1>3. ASSUME NEW p \in Polls, Meter(p) \/ PollCrashes(p)
      PROVE  CoordInv'
  BY <1>3 DEF Meter, PollCrashes, Asking, Sent
<1>4. ASSUME NEW p \in Polls, Finish(p)
      PROVE  CoordInv'
  BY <1>4 DEF Finish
<1>5. ASSUME NEW b \in Presses, Press(b) \/ Control(b) \/ PressCrashes(b) \/ Report(b)
      PROVE  CoordInv'
  BY <1>5 DEF Press, Control, PressCrashes, Sent, Report
<1>6. ASSUME NEW b \in Presses, Confirm(b)
      PROVE  CoordInv'
  BY <1>6 DEF Confirm
<1>7. CASE SetUpAgain
  BY <1>7 DEF SetUpAgain
<1>8. CASE TimerFires
  BY <1>8 DEF TimerFires
<1>9. CASE PathsChange \/ UNCHANGED vars
  BY <1>9 DEF PathsChange, vars
<1> QED
  BY <1>1, <1>2, <1>3, <1>4, <1>5, <1>6, <1>7, <1>8, <1>9
  DEF Next, PollSteps, PressSteps

LEMMA CoordInductive == Spec => []CoordInv
  BY InitCoordInv, NextCoordInv, PTL DEF Spec

\* However commands and polls cross, there is always a poll in flight or a
\* timer that will start one (_async_update_data, async_control).
THEOREM NeverStopsPolling == Spec => []PollingContinues
  BY CoordInductive, PTL DEF CoordInv

\* However polls overlap and fail, one set-up probes the metering group once
\* (_poll, _probe_metering).
THEOREM ProbesOnce == Spec => []ProbedByOnePoll
<1>1. CoordInv => ProbedByOnePoll
  BY DEF CoordInv, ProbeCount, ProbedByOnePoll
<1> QED
  BY <1>1, CoordInductive, PTL

-----------------------------------------------------------------------------
(* Sensors.                                                                *)

GatheredOK ==
  /\ gathered \in [Polls -> [Datapoints -> 0..515 \cup {None}]]
  /\ answered \in [Polls -> SUBSET Datapoints]

\* Past the wildcard query, a poll has what it has had answers for, and among that
\* what the wildcard reply holds.
Gathering ==
  \A p \in Polls : poll[p] \in {"probe", "meter", "done"} =>
    /\ Reported(gathered[p]) = answered[p]
    /\ InWildcard \subseteq answered[p]

\* The first poll probes, and has the group's readings exactly if it finds the group.
Probed ==
  ~ready => \A p \in Polls :
    /\ poll[p] # "meter"
    /\ poll[p] = "query" => metering = None
    /\ poll[p] = "probe" => answered[p] = InWildcard
    /\ poll[p] = "done" =>
         answered[p] = InWildcard \cup (IF metering THEN InGroup ELSE {})

\* Before the platform is set up, there is nothing.
NoSensorsYet == ~ready => sensors = {}

SensorInv ==
  /\ CoordInv
  /\ GatheredOK
  /\ Gathering
  /\ Probed
  /\ NoSensorsYet
  /\ SensorsAreRenewed
  /\ ReadingsAreVouchedFor

\* Sensors adds to what Coordinator does, and changes none of it.
LEMMA SensorsStepIsCoordinators == [SNext]_svars => [Next]_vars
  BY DEF SNext, svars, SPollSteps, SPressSteps, Others, SQuery, SProbe, SMeter, SFinish,
         SConfirm, Next, PollSteps, PressSteps

LEMMA RawIsRead ==
  ASSUME NEW s \in Datapoints, NEW on
  PROVE  Raw(s, on) \in 0..515 /\ Raw(s, on) # None
<1>1. Load[s] \in 0..515
  BY DEF Load, Datapoints
<1> QED
  BY <1>1, UnreadAssumption DEF Raw

\* A reply adds exactly its own datapoints.
LEMMA UpdatedReports ==
  ASSUME NEW r \in [Datapoints -> 0..515 \cup {None}], NEW D \in SUBSET Datapoints
  PROVE  /\ Updated(r, D) \in [Datapoints -> 0..515 \cup {None}]
         /\ Reported(Updated(r, D)) = Reported(r) \cup Answer(D)
<1>1. Answer(D) \subseteq Datapoints
  BY DEF Answer
<1> QED
  BY <1>1, RawIsRead DEF Updated, Reported

LEMMA NothingUnread ==
  /\ Unread \in [Datapoints -> 0..515 \cup {None}]
  /\ Reported(Unread) = {}
  BY DEF Unread, Reported

LEMMA InitSensorInv == SInit => SensorInv
<1> SUFFICES ASSUME SInit
             PROVE  SensorInv
  OBVIOUS
<1>1. CoordInv
  BY InitCoordInv DEF SInit
<1>2. GatheredOK /\ ReadingsAreVouchedFor
  BY NothingUnread DEF SInit, GatheredOK, ReadingsAreVouchedFor
<1>3. Gathering /\ Probed /\ NoSensorsYet /\ SensorsAreRenewed
  BY DEF SInit, Init, Gathering, Probed, NoSensorsYet, SensorsAreRenewed, Polls
<1> QED
  BY <1>1, <1>2, <1>3 DEF SensorInv

\* A step that leaves the readings alone, and puts no poll past its wildcard query.
LEMMA OthersPreserve ==
  ASSUME SensorInv, CoordInv', UNCHANGED <<metered, ready>>,
         \A q \in Polls : poll'[q] = poll[q] \/ poll'[q] \in {"query", "failed", "idle"},
         ready => UNCHANGED metering,
         Probed'
  PROVE  SensorInv'
<1>1. GatheredOK' /\ NoSensorsYet' /\ ReadingsAreVouchedFor' /\ Gathering'
  BY DEF SensorInv, GatheredOK, NoSensorsYet, ReadingsAreVouchedFor, Gathering, metered
<1>2. SensorsAreRenewed'
  BY DEF SensorInv, SensorsAreRenewed, metered
<1> QED
  BY <1>1, <1>2 DEF SensorInv

LEMMA NextSensorInv == SensorInv /\ [SNext]_svars => SensorInv'
<1> SUFFICES ASSUME SensorInv, [SNext]_svars
             PROVE  SensorInv'
  OBVIOUS
<1>1. CoordInv'
  BY SensorsStepIsCoordinators, NextCoordInv DEF SensorInv
<1>2. /\ poll \in [Polls -> {"idle", "query", "probe", "meter", "done", "failed"}]
      /\ gathered \in [Polls -> [Datapoints -> 0..515 \cup {None}]]
      /\ answered \in [Polls -> SUBSET Datapoints]
      /\ InWildcard \in SUBSET Datapoints /\ InGroup \in SUBSET Datapoints
  BY AnswersAssumption DEF SensorInv, GatheredOK, CoordInv, PollsOK
<1> USE DEF Step, shown
<1>3. ASSUME NEW p \in Polls, SQuery(p)
      PROVE  SensorInv'
  <2>1. /\ gathered' = [gathered EXCEPT ![p] = Updated(Unread, InWildcard)]
        /\ answered' = [answered EXCEPT ![p] = Answer(InWildcard)]
        /\ poll' = [poll EXCEPT ![p] = IF served THEN AfterQuery ELSE "failed"]
        /\ poll[p] = "query"
        /\ UNCHANGED <<readings, sensors, vouched, ready, metering>>
    BY <1>3 DEF SQuery, Query
  <2>2. \A q \in Polls \ {p} :
          gathered'[q] = gathered[q] /\ answered'[q] = answered[q] /\ poll'[q] = poll[q]
    BY <1>2, <2>1
  <2>3. /\ gathered'[p] \in [Datapoints -> 0..515 \cup {None}]
        /\ Reported(gathered'[p]) = answered'[p]
        /\ answered'[p] = Answer(InWildcard)
    <3> DEFINE new == Updated(Unread, InWildcard)
    <3>1. gathered'[p] = new /\ answered'[p] = Answer(InWildcard)
      BY <1>2, <2>1
    <3>2. /\ new \in [Datapoints -> 0..515 \cup {None}]
          /\ Reported(new) = Reported(Unread) \cup Answer(InWildcard)
      BY <1>2, UpdatedReports, NothingUnread
    <3> HIDE DEF new
    <3>3. Reported(new) = Answer(InWildcard)
      BY <3>2, NothingUnread
    <3> QED
      BY <3>1, <3>2, <3>3
  <2>4. poll'[p] # "failed" => served /\ answered'[p] = InWildcard /\ poll'[p] = AfterQuery
    BY <1>2, <2>1, <2>3 DEF Answer
  <2>5. GatheredOK'
    BY <1>2, <2>1, <2>3 DEF GatheredOK, Answer
  <2>6. Gathering'
    BY <2>2, <2>3, <2>4 DEF SensorInv, Gathering
  <2>7. ~ready => metering = None /\ AfterQuery = "probe"
    BY <2>1 DEF SensorInv, Probed, AfterQuery
  <2>8. Probed'
    <3>1. poll'[p] \in {"failed", AfterQuery} /\ UNCHANGED <<ready, metering>>
      BY <1>2, <2>1
    <3>2. ~ready /\ poll'[p] # "failed" => poll'[p] = "probe" /\ answered'[p] = InWildcard
      BY <2>4, <2>7
    <3> QED
      BY <2>2, <3>1, <3>2 DEF SensorInv, Probed
  <2>9. NoSensorsYet' /\ SensorsAreRenewed' /\ ReadingsAreVouchedFor'
    BY <2>1 DEF SensorInv, NoSensorsYet, SensorsAreRenewed, ReadingsAreVouchedFor
  <2> QED
    BY <1>1, <2>5, <2>6, <2>8, <2>9 DEF SensorInv
<1>4. ASSUME NEW p \in Polls, SProbe(p) \/ SMeter(p)
      PROVE  SensorInv'
  <2>1. /\ gathered' = [gathered EXCEPT ![p] = Updated(@, InGroup)]
        /\ answered' = [answered EXCEPT ![p] = @ \cup Answer(InGroup)]
        /\ poll' = [poll EXCEPT ![p] = "done"]
        /\ poll[p] \in {"probe", "meter"}
        /\ UNCHANGED <<readings, sensors, vouched, ready>>
    BY <1>4 DEF SProbe, SMeter, Add, Probe, Meter
  <2>2. \A q \in Polls \ {p} :
          gathered'[q] = gathered[q] /\ answered'[q] = answered[q] /\ poll'[q] = poll[q]
    BY <1>2, <2>1
  <2>3. /\ gathered'[p] \in [Datapoints -> 0..515 \cup {None}]
        /\ Reported(gathered'[p]) = Reported(gathered[p]) \cup Answer(InGroup)
        /\ answered'[p] = answered[p] \cup Answer(InGroup)
    BY <1>2, <2>1, UpdatedReports
  <2>4. Reported(gathered[p]) = answered[p] /\ InWildcard \subseteq answered[p]
    BY <2>1 DEF SensorInv, Gathering
  <2>5. GatheredOK'
    BY <1>2, <2>1, <2>3 DEF GatheredOK, Answer
  <2>6. Gathering'
    BY <2>2, <2>3, <2>4 DEF SensorInv, Gathering
  <2>7. CASE ready
    <3>1. UNCHANGED metering
      BY <1>4, <2>7 DEF SProbe, SMeter, Probe, Meter, SensorInv, CoordInv, Decided
    <3>2. Probed' /\ NoSensorsYet' /\ SensorsAreRenewed' /\ ReadingsAreVouchedFor'
      BY <2>1, <2>7, <3>1
      DEF SensorInv, Probed, NoSensorsYet, SensorsAreRenewed, ReadingsAreVouchedFor
    <3> QED
      BY <1>1, <2>5, <2>6, <3>2 DEF SensorInv
  <2>8. CASE ~ready
    <3>1. poll[p] = "probe" /\ answered[p] = InWildcard /\ Probe(p)
      BY <1>4, <2>1, <2>8 DEF SensorInv, Probed, SProbe, SMeter, Meter
    <3>2. \A q \in Polls : q # p => poll'[q] = "idle"
      BY <2>2, <2>8, <3>1 DEF SensorInv, CoordInv, OneFirstPoll, Polls
    <3>3. metering' = (served /\ Supports)
      BY <3>1 DEF Probe, ProbeResult
    <3>4. Answer(InGroup) = IF metering' THEN InGroup ELSE {}
      <4>1. CASE served /\ Supports
        BY <3>3, <4>1 DEF Answer
      <4>2. CASE served /\ ~Supports
        BY <3>3, <4>2, AnswersAssumption DEF Answer
      <4>3. CASE ~served
        BY <3>3, <4>3 DEF Answer
      <4> QED
        BY <4>1, <4>2, <4>3
    <3>5. poll'[p] = "done"
      BY <1>2, <2>1
    <3>6. Probed'
      BY <2>3, <3>1, <3>2, <3>4, <3>5 DEF Probed
    <3>7. NoSensorsYet' /\ SensorsAreRenewed' /\ ReadingsAreVouchedFor'
      BY <2>1, <2>8 DEF SensorInv, NoSensorsYet, SensorsAreRenewed, ReadingsAreVouchedFor
    <3> QED
      BY <1>1, <2>5, <2>6, <3>6, <3>7 DEF SensorInv
  <2> QED
    BY <2>7, <2>8
<1>5. ASSUME NEW p \in Polls, SFinish(p)
      PROVE  SensorInv'
  <2>1. /\ readings' = IF poll[p] = "done" THEN gathered[p] ELSE readings
        /\ vouched' = IF poll[p] = "done" THEN answered[p] ELSE vouched
        /\ sensors' = IF ready THEN sensors ELSE Reported(readings')
        /\ poll' = [poll EXCEPT ![p] = "idle"]
        /\ ready' = TRUE
        /\ ~ready => poll[p] = "done"
        /\ UNCHANGED <<gathered, answered, metering>>
    BY <1>5 DEF SFinish, Stored, Finish
  <2>2. ReadingsAreVouchedFor'
    BY <2>1 DEF SensorInv, ReadingsAreVouchedFor, Gathering
  <2>3. GatheredOK' /\ Probed' /\ NoSensorsYet'
    BY <2>1 DEF SensorInv, GatheredOK, Probed, NoSensorsYet
  <2>4. Gathering'
    BY <1>2, <2>1 DEF SensorInv, Gathering
  <2>5. SensorsAreRenewed'
    <3>1. CASE ready
      BY <2>1, <3>1 DEF SensorInv, SensorsAreRenewed
    <3>2. CASE ~ready
      BY <2>1, <3>2 DEF SensorInv, SensorsAreRenewed, Probed, Gathering
    <3> QED
      BY <3>1, <3>2
  <2> QED
    BY <1>1, <2>2, <2>3, <2>4, <2>5 DEF SensorInv
<1>6. ASSUME NEW p \in Polls, PollCrashes(p), UNCHANGED metered
      PROVE  SensorInv'
  <2>1. UNCHANGED <<ready, metering>> /\ poll' = [poll EXCEPT ![p] = "failed"]
    BY <1>6 DEF PollCrashes
  <2>2. \A q \in Polls : poll'[q] = poll[q] \/ poll'[q] = "failed"
    BY <1>2, <2>1
  <2>3. Probed'
    BY <1>6, <2>1, <2>2 DEF SensorInv, Probed, metered
  <2> QED
    BY <1>1, <1>6, <2>1, <2>2, <2>3, OthersPreserve
<1>7. ASSUME NEW b \in Presses, SPressSteps(b)
      PROVE  SensorInv'
  <2>1. ready
    BY <1>7
    DEF SPressSteps, Control, PressCrashes, Sent, SConfirm, Confirm, Report, SensorInv,
        CoordInv, OneFirstPoll
  <2>2. UNCHANGED <<ready, metering, metered>>
    BY <1>7 DEF SPressSteps, Control, PressCrashes, SConfirm, Confirm, Report
  <2>3. \A q \in Polls : poll'[q] = poll[q] \/ poll'[q] = "query"
    BY <1>2, <1>7 DEF SPressSteps, Control, PressCrashes, SConfirm, Confirm, Report
  <2>4. Probed'
    BY <2>1, <2>2 DEF Probed
  <2> QED
    BY <1>1, <2>2, <2>3, <2>4, OthersPreserve
<1>8. CASE Others /\ UNCHANGED metered
  <2>1. CASE SetUpAgain
    <3>1. /\ ~ready /\ metering' = None /\ UNCHANGED <<ready, metered>>
          /\ \A q \in Polls : poll'[q] \in {"query", "idle"}
      BY <1>2, <1>8, <2>1 DEF SetUpAgain, SensorInv, CoordInv, OneFirstPoll, Polls
    <3>2. Probed'
      BY <3>1 DEF Probed
    <3> QED
      BY <1>1, <3>1, <3>2, OthersPreserve
  <2>2. CASE TimerFires \/ PathsChange \/ \E b \in Presses : Press(b)
    <3>1. UNCHANGED <<ready, metering, metered>>
      BY <1>8, <2>2 DEF TimerFires, PathsChange, Press
    <3>2. \A q \in Polls : poll'[q] = poll[q] \/ poll'[q] = "query"
      BY <1>2, <2>2 DEF TimerFires, PathsChange, Press
    <3>3. ~ready => UNCHANGED poll
      BY <2>2 DEF TimerFires, PathsChange, Press, SensorInv, CoordInv, OneFirstPoll
    <3>4. Probed'
      BY <3>1, <3>3 DEF SensorInv, Probed, metered
    <3> QED
      BY <1>1, <3>1, <3>2, <3>4, OthersPreserve
  <2> QED
    BY <1>8, <2>1, <2>2 DEF Others
<1>9. CASE UNCHANGED svars
  <2>1. UNCHANGED <<metered, ready, metering, poll>>
    BY <1>9 DEF svars, vars
  <2>2. Probed'
    BY <2>1 DEF SensorInv, Probed, metered
  <2> QED
    BY <1>1, <2>1, <2>2, OthersPreserve
<1> QED
  BY <1>3, <1>4, <1>5, <1>6, <1>7, <1>8, <1>9 DEF SNext, SPollSteps

LEMMA SensorInductive == SSpec => []SensorInv
  BY InitSensorInv, NextSensorInv, PTL DEF SSpec

\* Whatever the device puts into either reply, and however polls overlap and fail,
\* the sensors are those of the datapoints that the polls ask for
\* (_probe_metering, the platform's async_setup_entry).
THEOREM SensorsMatchPolls == SSpec => []SensorsAreRenewed
  BY SensorInductive, PTL DEF SensorInv

\* However polls and commands cross and queries fail, what is shown is what the
\* poll last stored has had from the device, and the rest is unknown (_poll,
\* async_control, native_value).
THEOREM ReadingsAreThePolls == SSpec => []ReadingsAreVouchedFor
  BY SensorInductive, PTL DEF SensorInv

-----------------------------------------------------------------------------
(* Types.                                                                  *)

PollStates  == {"idle", "query", "probe", "meter", "done", "failed"}
PressStates == {"ready", "sent", "accepted", "refused", "error", "confirmed", "raised"}

\* The types that no other invariant has needed, apart from what is shown.
StatesOK ==
  /\ metering \in BOOLEAN \cup {None}
  /\ reading  \in [Polls -> BOOLEAN]
  /\ press    \in [Presses -> PressStates]
  /\ wanted   \in [Presses -> BOOLEAN]
  /\ device   \in BOOLEAN
  /\ served   \in BOOLEAN
  /\ probes   \in Nat

\* There is a state to show as soon as the entity exists.
ShownOK ==
  /\ data    \in BOOLEAN \cup {None}
  /\ success \in BOOLEAN
  /\ ready   \in BOOLEAN
  /\ armed   \in BOOLEAN
  /\ ready => data # None

CoordTypesInv == CoordInv /\ StatesOK /\ ShownOK

LEMMA NextStates == StatesOK /\ [Next]_vars => StatesOK'
<1> SUFFICES ASSUME StatesOK, [Next]_vars
             PROVE  StatesOK'
  OBVIOUS
<1> USE DEF StatesOK, PressStates, shown
<1>1. ASSUME NEW p \in Polls, Query(p)
      PROVE  StatesOK'
  BY <1>1 DEF Query
<1>2. ASSUME NEW p \in Polls, Probe(p)
      PROVE  StatesOK'
  <2>1. metering' \in BOOLEAN
    BY <1>2, Zenon DEF Probe, ProbeResult
  <2> QED
    BY <1>2, <2>1 DEF Probe
<1>3. ASSUME NEW p \in Polls, Meter(p) \/ PollCrashes(p) \/ Finish(p)
      PROVE  StatesOK'
  BY <1>3 DEF Meter, PollCrashes, Finish
<1>4. ASSUME NEW b \in Presses, Press(b)
      PROVE  StatesOK'
  BY <1>4 DEF Press
<1>5. ASSUME NEW b \in Presses, Control(b)
      PROVE  StatesOK'
  BY <1>5 DEF Control
<1>6. ASSUME NEW b \in Presses, PressCrashes(b) \/ Confirm(b) \/ Report(b)
      PROVE  StatesOK'
  BY <1>6 DEF PressCrashes, Confirm, Report
<1>7. CASE SetUpAgain \/ TimerFires \/ UNCHANGED vars
  BY <1>7 DEF SetUpAgain, TimerFires, vars
<1>8. CASE PathsChange
  <2>1. served' \in BOOLEAN
    BY <1>8, Zenon DEF PathsChange
  <2> QED
    BY <1>8, <2>1 DEF PathsChange
<1> QED
  BY <1>1, <1>2, <1>3, <1>4, <1>5, <1>6, <1>7, <1>8 DEF Next, PollSteps, PressSteps

LEMMA NextShown == StatesOK /\ ShownOK /\ [Next]_vars => ShownOK'
<1> SUFFICES ASSUME StatesOK, ShownOK, [Next]_vars
             PROVE  ShownOK'
  OBVIOUS
<1> USE NoneAssumption DEF ShownOK, shown
<1>1. ASSUME NEW p \in Polls, Finish(p)
      PROVE  ShownOK'
  BY <1>1 DEF Finish, StatesOK
<1>2. ASSUME NEW b \in Presses, Confirm(b)
      PROVE  ShownOK'
  BY <1>2 DEF Confirm, StatesOK
<1>3. ASSUME NEW p \in Polls, Query(p) \/ Probe(p) \/ Meter(p) \/ PollCrashes(p)
      PROVE  ShownOK'
  BY <1>3 DEF Query, Probe, Meter, PollCrashes
<1>4. ASSUME NEW b \in Presses, Press(b) \/ Control(b) \/ PressCrashes(b) \/ Report(b)
      PROVE  ShownOK'
  BY <1>4 DEF Press, Control, PressCrashes, Report
<1>5. CASE TimerFires
  BY <1>5 DEF TimerFires
<1>6. CASE SetUpAgain \/ PathsChange \/ UNCHANGED vars
  BY <1>6 DEF SetUpAgain, PathsChange, vars
<1> QED
  BY <1>1, <1>2, <1>3, <1>4, <1>5, <1>6 DEF Next, PollSteps, PressSteps

LEMMA CoordTypesInductive == Spec => []CoordTypesInv
<1>1. Init => CoordTypesInv
  <2>1. Init => StatesOK
    BY DEF Init, StatesOK, PressStates
  <2>2. Init => ShownOK
    BY DEF Init, ShownOK
  <2> QED
    BY <2>1, <2>2, InitCoordInv DEF CoordTypesInv
<1>2. CoordTypesInv /\ [Next]_vars => CoordTypesInv'
  BY NextCoordInv, NextStates, NextShown DEF CoordTypesInv
<1> QED
  BY <1>1, <1>2, PTL DEF Spec

\* The coordinator's state is well typed: an entity that exists has a state to show,
\* and the question of the metering group is settled by then (_poll,
\* async_control).
THEOREM CoordinatorTypes == Spec => []TypeOK
<1>1. CoordTypesInv => TypeOK
  BY DEF CoordTypesInv, CoordInv, PollsOK, Decided, StatesOK, ShownOK, PressStates, TypeOK
<1> QED
  BY <1>1, CoordTypesInductive, PTL

SensorTypesInv ==
  /\ SensorInv
  /\ readings \in Readings
  /\ sensors \in SUBSET Datapoints
  /\ vouched \in SUBSET Datapoints

LEMMA NextSensorTypes == SensorTypesInv /\ [SNext]_svars => SensorTypesInv'
<1> SUFFICES ASSUME SensorTypesInv, [SNext]_svars
             PROVE  SensorTypesInv'
  OBVIOUS
<1>1. SensorInv'
  BY NextSensorInv DEF SensorTypesInv
<1>2. /\ gathered \in [Polls -> Readings]
      /\ answered \in [Polls -> SUBSET Datapoints]
  BY DEF SensorTypesInv, SensorInv, GatheredOK, Readings
<1>3. ASSUME NEW p \in Polls, SFinish(p)
      PROVE  SensorTypesInv'
  BY <1>1, <1>2, <1>3 DEF SFinish, Stored, Reported, SensorTypesInv
<1>4. CASE UNCHANGED <<readings, sensors, vouched>>
  BY <1>1, <1>4 DEF SensorTypesInv
<1> QED
  BY <1>3, <1>4
  DEF SNext, SPollSteps, SPressSteps, SQuery, SProbe, SMeter, Add, SConfirm, metered, svars

\* The readings are well typed, no sensor exists before its platform is set up, and
\* a poll past the wildcard query has all that the reply held (sensor.py's
\* async_setup_entry, _poll).
THEOREM SensorTypes == SSpec => []SensorsTypeOK
<1>1. SInit => SensorTypesInv
  BY InitSensorInv, NothingUnread DEF SInit, SensorTypesInv, Readings
<1>2. SensorTypesInv => SensorsTypeOK
  BY DEF SensorTypesInv, SensorInv, GatheredOK, Gathering, NoSensorsYet, Readings, SensorsTypeOK
<1> QED
  BY <1>1, <1>2, NextSensorTypes, PTL DEF SSpec
=============================================================================
