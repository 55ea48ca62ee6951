------------------------ MODULE FallbackClientProofs ------------------------
(***************************************************************************)
(* Theorems about FallbackClient for any number of executor jobs, any      *)
(* threshold and any recovery interval; and, with one request at a time,   *)
(* that it implements the CircuitBreaker.                                  *)
(***************************************************************************)
EXTENDS SequentialClient, TLAPS

\* TypeOK bounds the deliveries of a request by 2, and is not inductive: the
\* step that counts a delivery must know how many there can have been.
DeliveryInv ==
  \A j \in Jobs :
    /\ pc[j] \in {"gate", "elapsed", "stamp", "local"} => delivered[j] = 0
    /\ pc[j] \in {"answered", "failed", "trip", "giveUp", "cloud"} => delivered[j] <= 1

\* The tally never runs ahead of the failures there have been, so that a tally
\* at the threshold is evidence of that many failures.
TallyInv == failures <= failuresSeen

IInv ==
  /\ TypeOK
  /\ DeliveryInv
  /\ TallyInv
  /\ CutOutNeedsFailures
  /\ LocalOnlyNeverCutOut

LEMMA InitIInv == Init => IInv
  BY LimitsAssumption
  DEF Init, IInv, TypeOK, DeliveryInv, TallyInv, CutOutNeedsFailures,
      LocalOnlyNeverCutOut, Steps, Outcomes

LEMMA NextIInv == IInv /\ [Next]_vars => IInv'
<1> SUFFICES ASSUME IInv, [Next]_vars
             PROVE  IInv'
  OBVIOUS
<1> USE LimitsAssumption, NoneAssumption
    DEF IInv, TypeOK, DeliveryInv, TallyInv, CutOutNeedsFailures, LocalOnlyNeverCutOut,
        Goto, Finish, shared, given, Steps, Outcomes
<1>1. ASSUME NEW j \in Jobs, Begin(j)
      PROVE  IInv'
  BY <1>1 DEF Begin
<1>2. ASSUME NEW j \in Jobs, Gate(j)
      PROVE  IInv'
  BY <1>2 DEF Gate, LocalIsPreferred
<1>3. ASSUME NEW j \in Jobs, Elapsed(j)
      PROVE  IInv'
  BY <1>3 DEF Elapsed, IntervalRuns
<1>4. ASSUME NEW j \in Jobs, Stamp(j)
      PROVE  IInv'
  BY <1>4 DEF Stamp
<1>5. ASSUME NEW j \in Jobs, LocalAnswers(j)
      PROVE  IInv'
  BY <1>5 DEF LocalAnswers
<1>6. ASSUME NEW j \in Jobs, LocalFails(j)
      PROVE  IInv'
  BY <1>6 DEF LocalFails
<1>7. ASSUME NEW j \in Jobs, RecordSuccess(j)
      PROVE  IInv'
  BY <1>7 DEF RecordSuccess
<1>8. ASSUME NEW j \in Jobs, NoteLocal(j)
      PROVE  IInv'
  BY <1>8 DEF NoteLocal
<1>9. ASSUME NEW j \in Jobs, RecordFailure(j)
      PROVE  IInv'
  BY <1>9 DEF RecordFailure, Opens, FallsBackTo, AtMost
<1>10. ASSUME NEW j \in Jobs, Trip(j)
      PROVE  IInv'
  BY <1>10 DEF Trip
<1>11. ASSUME NEW j \in Jobs, GiveUp(j)
      PROVE  IInv'
  BY <1>11 DEF GiveUp
<1>12. ASSUME NEW j \in Jobs, CloudAnswers(j)
      PROVE  IInv'
  BY <1>12 DEF CloudAnswers
<1>13. ASSUME NEW j \in Jobs, CloudFails(j)
      PROVE  IInv'
  BY <1>13 DEF CloudFails
<1>14. ASSUME NEW j \in Jobs, NoteCloud(j)
      PROVE  IInv'
  BY <1>14 DEF NoteCloud
<1>15. CASE Tick
  BY <1>15 DEF Tick
<1>16. CASE ListenerChanges
  BY <1>16 DEF ListenerChanges
<1>17. CASE RelayChanges
  BY <1>17 DEF RelayChanges
<1>18. CASE UNCHANGED vars
  BY <1>18 DEF vars
<1> QED
  BY <1>1, <1>2, <1>3, <1>4, <1>5, <1>6, <1>7, <1>8, <1>9, <1>10, <1>11, <1>12, <1>13, <1>14, <1>15, <1>16, <1>17, <1>18 DEF Next, Progress

LEMMA Inductive == Spec => []IInv
  BY InitIInv, NextIInv, PTL DEF Spec

\* Every reachable state of the client is well typed: in particular no request
\* reaches the device over more than two transports (_attempt, _via_cloud).
THEOREM TypeCorrect == Spec => []TypeOK
  BY Inductive, PTL DEF IInv

\* However many jobs race, local is skipped only by a client that has seen
\* failure_threshold local failures (_record_local_failure).
THEOREM CutOutIsEarned == Spec => []CutOutNeedsFailures
  BY Inductive, PTL DEF IInv

\* Without a cloud transport local is never cut out, and the assertion in
\* _via_cloud holds (_should_try_local, _attempt).
THEOREM LocalOnlyIsSafe == Spec => []LocalOnlyNeverCutOut
  BY Inductive, PTL DEF IInv

-----------------------------------------------------------------------------
(* A local outage is invisible while the relay works.                      *)

\* No request has failed, and none is about to be given up.
NoErrorInv ==
  /\ hasCloud
  /\ \A j \in Jobs : outcome[j] # "error" /\ pc[j] # "giveUp"

LEMMA NextNoError ==
  IInv /\ NoErrorInv /\ hasCloud /\ relay /\ [Next]_vars => NoErrorInv'
<1> SUFFICES ASSUME IInv, NoErrorInv, hasCloud, relay, [Next]_vars
             PROVE  NoErrorInv'
  OBVIOUS
<1> USE DEF IInv, TypeOK, NoErrorInv, Goto, Finish, shared, given
<1>1. ASSUME NEW j \in Jobs, Begin(j) \/ Gate(j) \/ Stamp(j) \/ Elapsed(j)
      PROVE  NoErrorInv'
  BY <1>1 DEF Begin, Gate, Stamp, Elapsed
<1>2. ASSUME NEW j \in Jobs, LocalAnswers(j) \/ LocalFails(j) \/ RecordSuccess(j) \/ NoteLocal(j)
      PROVE  NoErrorInv'
  BY <1>2 DEF LocalAnswers, LocalFails, RecordSuccess, NoteLocal
<1>3. ASSUME NEW j \in Jobs, RecordFailure(j) \/ Trip(j) \/ GiveUp(j)
      PROVE  NoErrorInv'
  BY <1>3 DEF RecordFailure, FallsBackTo, Trip, GiveUp
<1>4. ASSUME NEW j \in Jobs, CloudAnswers(j) \/ CloudFails(j) \/ NoteCloud(j)
      PROVE  NoErrorInv'
  BY <1>4 DEF CloudAnswers, CloudFails, NoteCloud
<1>5. CASE Tick \/ ListenerChanges \/ RelayChanges \/ UNCHANGED vars
  BY <1>5 DEF Tick, ListenerChanges, RelayChanges, vars
<1> QED
  BY <1>1, <1>2, <1>3, <1>4, <1>5 DEF Next, Progress

\* While nothing answers locally, a circuit that is open stays open, so that the
\* second read of its stamp finds one.
DownInv ==
  \A j \in Jobs :
    /\ pc[j] # "answered"
    /\ pc[j] = "elapsed" => openAge # None
    /\ outcome[j] # "crashed"

LEMMA NextDown == IInv /\ DownInv /\ ~listener /\ [Next]_vars => DownInv'
<1> SUFFICES ASSUME IInv, DownInv, ~listener, [Next]_vars
             PROVE  DownInv'
  OBVIOUS
<1> USE NoneAssumption DEF IInv, TypeOK, DownInv, Goto, Finish, shared, given
<1>1. ASSUME NEW j \in Jobs, Begin(j) \/ Gate(j) \/ Stamp(j) \/ Elapsed(j)
      PROVE  DownInv'
  BY <1>1 DEF Begin, Gate, LocalIsPreferred, Stamp, Elapsed
<1>2. ASSUME NEW j \in Jobs, LocalAnswers(j) \/ LocalFails(j) \/ RecordSuccess(j) \/ NoteLocal(j)
      PROVE  DownInv'
  BY <1>2 DEF LocalAnswers, LocalFails, RecordSuccess, NoteLocal
<1>3. ASSUME NEW j \in Jobs, RecordFailure(j) \/ Trip(j) \/ GiveUp(j)
      PROVE  DownInv'
  BY <1>3 DEF RecordFailure, FallsBackTo, Trip, GiveUp
<1>4. ASSUME NEW j \in Jobs, CloudAnswers(j) \/ CloudFails(j) \/ NoteCloud(j)
      PROVE  DownInv'
  BY <1>4 DEF CloudAnswers, CloudFails, NoteCloud
<1>5. CASE Tick \/ ListenerChanges \/ RelayChanges \/ UNCHANGED vars
  BY <1>5 DEF Tick, ListenerChanges, RelayChanges, vars
<1> QED
  BY <1>1, <1>2, <1>3, <1>4, <1>5 DEF Next, Progress

\* While the relay works, no request of any number of jobs ends in TransportError,
\* and none fails in any other way before the local path is back (_attempt's
\* fall-back, _should_try_local).
THEOREM OutageIsInvisible == Spec => LocalOutageIsInvisible
<1>1. Init /\ hasCloud => NoErrorInv
  BY DEF Init, NoErrorInv
<1>2. NoErrorInv => \A j \in Jobs : outcome[j] # "error"
  BY DEF NoErrorInv
<1>3. Init => DownInv
  BY DEF Init, DownInv
<1>4. IInv /\ NoErrorInv /\ DownInv => \A j \in Jobs : outcome[j] \in {"none", "served"}
  BY DEF IInv, TypeOK, Outcomes, NoErrorInv, DownInv
<1> QED
  BY <1>1, <1>2, <1>3, <1>4, Inductive, NextNoError, NextDown, PTL
  DEF Spec, LocalOutageIsInvisible

-----------------------------------------------------------------------------
(* One request at a time.                                                  *)

\* What each step of _attempt may rely on while nobody else runs: an open
\* circuit was opened by a full tally, and what a step has read of the circuit
\* still holds when it acts on it.
SeqInv ==
  /\ hasCloud \in BOOLEAN
  /\ failures \in 0..Threshold
  /\ openAge  \in {None} \cup 0..RecoveryInterval
  /\ pc       \in [Jobs -> Steps]
  /\ outcome  \in [Jobs -> Outcomes]
  /\ openAge # None => hasCloud /\ failures = Threshold
  /\ pc[Poll] = "elapsed" => openAge # None
  /\ pc[Poll] = "stamp"   => openAge = RecoveryInterval
  /\ pc[Poll] = "trip"    => openAge = None /\ hasCloud /\ failures = Threshold

LEMMA InitSeqInv ==
  ASSUME OneJob
  PROVE  Init => SeqInv
  BY LimitsAssumption DEF OneJob, Init, SeqInv, Steps, Outcomes

LEMMA NextSeqInv ==
  ASSUME OneJob
  PROVE  SeqInv /\ [Next]_vars => SeqInv'
<1> SUFFICES ASSUME SeqInv, [Next]_vars
             PROVE  SeqInv'
  OBVIOUS
<1> USE LimitsAssumption, NoneAssumption
    DEF OneJob, SeqInv, Goto, Finish, shared, given, Steps, Outcomes
<1>1. CASE Begin(Poll)
  BY <1>1 DEF Begin
<1>2. CASE Gate(Poll)
  BY <1>2 DEF Gate, LocalIsPreferred
<1>3. CASE Elapsed(Poll)
  BY <1>3 DEF Elapsed, IntervalRuns
<1>4. CASE Stamp(Poll)
  BY <1>4 DEF Stamp
<1>5. CASE LocalAnswers(Poll) \/ LocalFails(Poll)
  BY <1>5 DEF LocalAnswers, LocalFails
<1>6. CASE RecordSuccess(Poll) \/ NoteLocal(Poll)
  BY <1>6 DEF RecordSuccess, NoteLocal
<1>7. CASE RecordFailure(Poll)
  BY <1>7 DEF RecordFailure, Opens, FallsBackTo, AtMost
<1>8. CASE Trip(Poll) \/ GiveUp(Poll)
  BY <1>8 DEF Trip, GiveUp
<1>9. CASE CloudAnswers(Poll) \/ CloudFails(Poll) \/ NoteCloud(Poll)
  BY <1>9 DEF CloudAnswers, CloudFails, NoteCloud
<1>10. CASE Tick \/ ListenerChanges \/ RelayChanges \/ UNCHANGED vars
  BY <1>10 DEF Tick, ListenerChanges, RelayChanges, vars
<1> QED
  BY <1>1, <1>2, <1>3, <1>4, <1>5, <1>6, <1>7, <1>8, <1>9, <1>10 DEF Next, Progress

LEMMA SeqInductive ==
  ASSUME OneJob
  PROVE  Spec => []SeqInv
  BY InitSeqInv, NextSeqInv, PTL DEF Spec

\* Every step of the client is a step of the breaker or leaves it alone.
LEMMA StepsImplement ==
  ASSUME OneJob
  PROVE  SeqInv /\ [Next]_vars => [Breaker!Next]_Breaker!vars
<1> SUFFICES ASSUME SeqInv, [Next]_vars
             PROVE  [Breaker!Next]_Breaker!vars
  OBVIOUS
<1> USE LimitsAssumption, NoneAssumption
    DEF OneJob, SeqInv, Goto, Finish, shared, given, Steps, Breaker!vars
<1>1. CASE Gate(Poll) \/ Stamp(Poll)
  BY <1>1 DEF Gate, LocalIsPreferred, Stamp, Breaker!Next, Breaker!Try
<1>2. CASE RecordSuccess(Poll)
  BY <1>2 DEF RecordSuccess, Breaker!Next, Breaker!Succeed
<1>3. CASE RecordFailure(Poll)
  BY <1>3 DEF RecordFailure, Opens, FallsBackTo, AtMost, Breaker!Next, Breaker!Fail
<1>4. CASE Tick
  BY <1>4 DEF Tick, Breaker!Next, Breaker!Tick
<1>5. CASE Begin(Poll) \/ Elapsed(Poll) \/ LocalAnswers(Poll) \/ LocalFails(Poll)
  BY <1>5 DEF Begin, Elapsed, LocalAnswers, LocalFails
<1>6. CASE NoteLocal(Poll) \/ Trip(Poll) \/ GiveUp(Poll)
  BY <1>6 DEF NoteLocal, Trip, GiveUp
<1>7. CASE CloudAnswers(Poll) \/ CloudFails(Poll) \/ NoteCloud(Poll)
  BY <1>7 DEF CloudAnswers, CloudFails, NoteCloud
<1>8. CASE ListenerChanges \/ RelayChanges \/ UNCHANGED vars
  BY <1>8 DEF ListenerChanges, RelayChanges, vars
<1> QED
  BY <1>1, <1>2, <1>3, <1>4, <1>5, <1>6, <1>7, <1>8 DEF Next, Progress

\* With one request at a time, api/fallback.py's breaker is the one its
\* documentation describes, for every threshold and interval.
THEOREM Refinement ==
  ASSUME OneJob
  PROVE  Spec => ImplementsBreaker
<1>1. Init => Breaker!Init
  BY DEF OneJob, Init, Breaker!Init
<1> QED
  BY <1>1, SeqInductive, StepsImplement, PTL DEF Spec, ImplementsBreaker, Breaker!Spec

\* With one request at a time the circuit is open only on a tally of
\* consecutive failures (_record_local_failure, _record_local_success).
THEOREM OpensConsecutively ==
  ASSUME OneJob
  PROVE  Spec => []OpensOnlyOnConsecutiveFailures
<1>1. SeqInv => OpensOnlyOnConsecutiveFailures
  BY DEF SeqInv, OpensOnlyOnConsecutiveFailures
<1> QED
  BY <1>1, SeqInductive, PTL

\* With one request at a time a probe starts only from a stamp that is a full
\* interval old (_should_try_local).
THEOREM SingleProbes ==
  ASSUME OneJob
  PROVE  Spec => ProbesAreSingle
<1>1. SeqInv /\ [Next]_vars =>
        [\A j \in Jobs : pc[j] = "stamp" /\ pc'[j] = "local"
           => openAge = RecoveryInterval]_vars
  BY DEF OneJob, SeqInv
<1> QED
  BY <1>1, SeqInductive, PTL DEF Spec, ProbesAreSingle
=============================================================================
