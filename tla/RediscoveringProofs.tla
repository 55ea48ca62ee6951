------------------------- MODULE RediscoveringProofs -------------------------
(***************************************************************************)
(* Theorems about Rediscovering for any number of jobs, any addresses and  *)
(* any rate limit.                                                         *)
(***************************************************************************)
EXTENDS Rediscovering, FiniteSetTheorems, TLAPS

\* The types the argument needs.
JobsOK ==
  /\ pc      \in [Jobs -> Steps]
  /\ sent    \in [Jobs -> Nat]
  /\ found   \in [Jobs -> Hosts]
  /\ lastAge \in {None} \cup 0..MinInterval
  /\ address \in Hosts

Relocating(j) == pc[j] \in {"searching", "close", "install"}

\* A command has not been sent before its only request, and is never retried.
CommandsOK ==
  \A j \in Pressers :
    /\ pc[j] \notin {"retry", "second"}
    /\ sent[j] <= 1
    /\ pc[j] = "first" => sent[j] = 0

\* The search of a relocation is so recent that the rate limit forbids another.
SearchIsRecent ==
  \A j \in Jobs : Relocating(j) =>
    /\ lastAge \in {0, 1}
    /\ lastAge = 1 => j \in spent

\* So nobody else relocates.
OneRelocates == \A j, k \in Jobs : Relocating(j) /\ Relocating(k) => j = k

\* _host runs ahead of _transport only in the relocation that will install it.
HostIsInstalled ==
  /\ \A j \in Jobs : pc[j] = "install" => host = found[j]
  /\ HostIsTransports

RediscInv ==
  /\ JobsOK
  /\ CommandsOK
  /\ SearchIsRecent
  /\ OneRelocates
  /\ HostIsInstalled

LEMMA InitRediscInv == Init => RediscInv
  BY JobsAssumption, IntervalAssumption
  DEF Init, RediscInv, JobsOK, CommandsOK, SearchIsRecent, OneRelocates,
      HostIsInstalled, HostIsTransports, Relocating, Steps, Jobs

LEMMA NextRediscInv == RediscInv /\ [Next]_vars => RediscInv'
<1> SUFFICES ASSUME RediscInv, [Next]_vars
             PROVE  RediscInv'
  OBVIOUS
<1> USE JobsAssumption, IntervalAssumption, NoneAssumption
    DEF RediscInv, JobsOK, CommandsOK, SearchIsRecent, OneRelocates,
        HostIsInstalled, HostIsTransports, Relocating, Goto, Finish, shared, lan,
        Steps, Jobs
<1>1. ASSUME NEW j \in Jobs, Begin(j)
      PROVE  RediscInv'
  BY <1>1 DEF Begin
<1>2. ASSUME NEW j \in Jobs, NEW s \in {"first", "second"}, Answered(j, s)
      PROVE  RediscInv'
  BY <1>2 DEF Answered
<1>3. ASSUME NEW j \in Jobs, FirstFails(j)
      PROVE  RediscInv'
  BY <1>3 DEF FirstFails, Unanswered
<1>4. ASSUME NEW j \in Jobs, Decline(j)
      PROVE  RediscInv'
  BY <1>4 DEF Decline
<1>5. ASSUME NEW j \in Jobs, Search(j)
      PROVE  RediscInv'
  BY <1>5 DEF Search, MayNotSearch
<1>6. ASSUME NEW j \in Jobs, NothingNew(j)
      PROVE  RediscInv'
  BY <1>6 DEF NothingNew
<1>7. ASSUME NEW j \in Jobs, SomewhereNew(j)
      PROVE  RediscInv'
  BY <1>7 DEF SomewhereNew
<1>8. ASSUME NEW j \in Jobs, CloseOld(j)
      PROVE  RediscInv'
  BY <1>8 DEF CloseOld
<1>9. ASSUME NEW j \in Jobs, Install(j)
      PROVE  RediscInv'
  BY <1>9 DEF Install
<1>10. ASSUME NEW j \in Jobs, Retry(j)
       PROVE  RediscInv'
  BY <1>10 DEF Retry
<1>11. ASSUME NEW j \in Jobs, SecondFails(j)
       PROVE  RediscInv'
  BY <1>11 DEF SecondFails, Unanswered
<1>12. CASE Tick
  BY <1>12 DEF Tick
<1>13. CASE LanChanges
  BY <1>13 DEF LanChanges
<1>14. CASE UNCHANGED vars
  BY <1>14 DEF vars
<1> QED
  BY <1>1, <1>2, <1>3, <1>4, <1>5, <1>6, <1>7, <1>8, <1>9, <1>10, <1>11, <1>12,
     <1>13, <1>14
  DEF Next, Progress

LEMMA RediscInductive == Spec => []RediscInv
  BY InitRediscInv, NextRediscInv, PTL DEF Spec

\* "A failed write is never retried here": a command is put to a device at most
\* once, wherever other jobs move the transport meanwhile (control, _relocate).
THEOREM WritesSentOnce == Spec => []WriteSentAtMostOnce
<1>1. RediscInv => WriteSentAtMostOnce
  BY DEF RediscInv, CommandsOK, WriteSentAtMostOnce
<1> QED
  BY <1>1, RediscInductive, PTL

\* Without a lock, the rate limit alone keeps two jobs from relocating at once
\* (_relocate stamps _last_search before it searches).
THEOREM RelocatesAlone == Spec => []OneRelocationAtATime
<1>1. ASSUME RediscInv
      PROVE  OneRelocationAtATime
  <2> DEFINE S == {j \in Jobs : pc[j] \in {"searching", "close", "install"}}
  <2>1. CASE S = {}
    BY <2>1, FS_EmptySet DEF OneRelocationAtATime
  <2>2. CASE S # {}
    <3>1. PICK j \in S : TRUE
      BY <2>2
    <3>2. S = {j}
      BY <1>1, <3>1 DEF RediscInv, OneRelocates, Relocating
    <3>3. Cardinality(S) = 1
      BY <3>2, FS_Singleton
    <3> QED
      BY <3>3 DEF OneRelocationAtATime
  <2> QED
    BY <2>1, <2>2
<1> QED
  BY <1>1, RediscInductive, PTL

\* As soon as nobody is relocating, the transport is pinned to _host
\* (_relocate).
THEOREM HostIsFollowed == Spec => []HostIsTransports
  BY RediscInductive, PTL DEF RediscInv, HostIsInstalled

-----------------------------------------------------------------------------
(* A poll on a quiet LAN.                                                  *)

\* The types this argument needs besides.
RequestsOK ==
  /\ transport \in Hosts
  /\ target  \in [Jobs -> Hosts]
  /\ outcome \in [Jobs -> Outcomes]
  /\ spent   \in SUBSET Jobs

\* A relocation that this request has overlapped still forbids a search: the
\* search may have seen one tick, and the request another, of three.
Overlapped(j) == lastAge \in 0..2 /\ (lastAge = 2 => j \in spent)

\* A query moves on to its retry under the rate limit of its own search.
RetryIsRecent ==
  \A j \in Jobs : pc[j] = "retry" =>
    /\ lastAge \in {0, 1}
    /\ lastAge = 1 => j \in spent
    /\ \A k \in Jobs : ~Relocating(k)

\* Whoever misses the device either may still find it, or has overlapped the
\* relocation that has; the one who finds it is retried where it is.
MissedIsFound ==
  \A j \in Pollers \cap steady : listener /\ responder =>
    /\ pc[j] \in {"first", "failed"} /\ target[j] # address =>
         host # address \/ Overlapped(j)
    /\ pc[j] = "failed" => target[j] # address
    /\ pc[j] = "searching" => host # address
    /\ pc[j] \in {"close", "install"} => found[j] = address
    /\ pc[j] = "retry" => transport = address
    /\ pc[j] = "second" => target[j] = address
    /\ outcome[j] # "error"

FoundInv == RediscInv /\ RequestsOK /\ RetryIsRecent /\ MissedIsFound

LEMMA InitFoundInv == Init => FoundInv
  BY InitRediscInv, IntervalAssumption
  DEF Init, FoundInv, RequestsOK, RetryIsRecent, MissedIsFound, Outcomes, Jobs

LEMMA NextFoundInv == FoundInv /\ [Next]_vars => FoundInv'
<1> SUFFICES ASSUME FoundInv, [Next]_vars
             PROVE  RequestsOK' /\ RetryIsRecent' /\ MissedIsFound'
  BY NextRediscInv DEF FoundInv
<1> USE IntervalAssumption, NoneAssumption
    DEF FoundInv, RediscInv, JobsOK, SearchIsRecent, OneRelocates, RequestsOK,
        RetryIsRecent, MissedIsFound, Overlapped, Relocating, Reached, Goto, Finish,
        shared, lan, Steps, Outcomes, Jobs
<1>1. ASSUME NEW j \in Jobs, Begin(j)
      PROVE  RequestsOK' /\ RetryIsRecent' /\ MissedIsFound'
  BY <1>1 DEF Begin, HostIsInstalled, HostIsTransports
<1>2. ASSUME NEW j \in Jobs, NEW s \in {"first", "second"}, Answered(j, s)
      PROVE  RequestsOK' /\ RetryIsRecent' /\ MissedIsFound'
  BY <1>2 DEF Answered
<1>3. ASSUME NEW j \in Jobs, FirstFails(j)
      PROVE  RequestsOK' /\ RetryIsRecent' /\ MissedIsFound'
  BY <1>3 DEF FirstFails, Unanswered
<1>4. ASSUME NEW j \in Jobs, Decline(j)
      PROVE  RequestsOK' /\ RetryIsRecent' /\ MissedIsFound'
  BY <1>4 DEF Decline
<1>5. ASSUME NEW j \in Jobs, Search(j)
      PROVE  RequestsOK' /\ RetryIsRecent' /\ MissedIsFound'
  BY <1>5 DEF Search, MayNotSearch
<1>6. ASSUME NEW j \in Jobs, NothingNew(j)
      PROVE  RequestsOK' /\ RetryIsRecent' /\ MissedIsFound'
  BY <1>6 DEF NothingNew
<1>7. ASSUME NEW j \in Jobs, SomewhereNew(j)
      PROVE  RequestsOK' /\ RetryIsRecent' /\ MissedIsFound'
  BY <1>7 DEF SomewhereNew
<1>8. ASSUME NEW j \in Jobs, CloseOld(j)
      PROVE  RequestsOK' /\ RetryIsRecent' /\ MissedIsFound'
  BY <1>8 DEF CloseOld
<1>9. ASSUME NEW j \in Jobs, Install(j)
      PROVE  RequestsOK' /\ RetryIsRecent' /\ MissedIsFound'
  BY <1>9, JobsAssumption DEF Install
<1>10. ASSUME NEW j \in Jobs, Retry(j)
       PROVE  RequestsOK' /\ RetryIsRecent' /\ MissedIsFound'
  BY <1>10 DEF Retry
<1>11. ASSUME NEW j \in Jobs, SecondFails(j)
       PROVE  RequestsOK' /\ RetryIsRecent' /\ MissedIsFound'
  BY <1>11 DEF SecondFails, Unanswered
<1>12. CASE Tick
  BY <1>12 DEF Tick
<1>13. CASE LanChanges
  BY <1>13 DEF LanChanges
<1>14. CASE UNCHANGED vars
  BY <1>14 DEF vars
<1> QED
  BY <1>1, <1>2, <1>3, <1>4, <1>5, <1>6, <1>7, <1>8, <1>9, <1>10, <1>11, <1>12,
     <1>13, <1>14
  DEF Next, Progress

\* A device that has moved is found within the poll that misses it, unless the
\* rate limit forbids the search (query and _relocate); a poll that has nothing
\* new to find has overlapped the relocation that found it, and is declined.
THEOREM MovedIsFound == Spec => []MovedDeviceIsFound
<1>1. FoundInv => MovedDeviceIsFound
  BY DEF FoundInv, MissedIsFound, MovedDeviceIsFound
<1> QED
  BY <1>1, InitFoundInv, NextFoundInv, PTL DEF Spec

-----------------------------------------------------------------------------
(* Types.                                                                  *)

\* A request is put to a transport once before the relocation, once after.
AttemptsOK ==
  \A j \in Jobs :
    /\ sent[j] \in 0..2
    /\ pc[j] = "first" => sent[j] = 0
    /\ pc[j] # "idle" => sent[j] <= 1

TypesInv == TypeOK /\ AttemptsOK

LEMMA InitTypesInv == Init => TypesInv
  BY IntervalAssumption DEF Init, TypesInv, TypeOK, AttemptsOK, Steps, Outcomes

LEMMA NextTypesInv == TypesInv /\ [Next]_vars => TypesInv'
<1> SUFFICES ASSUME TypesInv, [Next]_vars
             PROVE  TypesInv'
  OBVIOUS
<1> USE IntervalAssumption, NoneAssumption
    DEF TypesInv, TypeOK, AttemptsOK, Goto, Finish, shared, lan, Steps, Outcomes
<1>1. ASSUME NEW j \in Jobs, Begin(j)
      PROVE  TypesInv'
  BY <1>1 DEF Begin
<1>2. ASSUME NEW j \in Jobs, NEW s \in {"first", "second"}, Answered(j, s)
      PROVE  TypesInv'
  BY <1>2 DEF Answered
<1>3. ASSUME NEW j \in Jobs, FirstFails(j) \/ SecondFails(j)
      PROVE  TypesInv'
  BY <1>3 DEF FirstFails, SecondFails, Unanswered
<1>4. ASSUME NEW j \in Jobs, Decline(j) \/ Search(j)
      PROVE  TypesInv'
  BY <1>4 DEF Decline, Search
<1>5. ASSUME NEW j \in Jobs, NothingNew(j) \/ SomewhereNew(j) \/ CloseOld(j)
      PROVE  TypesInv'
  BY <1>5 DEF NothingNew, SomewhereNew, CloseOld
<1>6. ASSUME NEW j \in Jobs, Install(j) \/ Retry(j)
      PROVE  TypesInv'
  BY <1>6 DEF Install, Retry
<1>7. CASE Tick
  BY <1>7 DEF Tick
<1>8. CASE LanChanges \/ UNCHANGED vars
  BY <1>8 DEF LanChanges, vars
<1> QED
  BY <1>1, <1>2, <1>3, <1>4, <1>5, <1>6, <1>7, <1>8 DEF Next, Progress

\* The wrapper's state is well typed: in particular a request, retried or not, is
\* put to the device at most twice (query, control).
THEOREM RediscoveringTypes == Spec => []TypeOK
<1>1. TypesInv => TypeOK
  BY DEF TypesInv
<1> QED
  BY <1>1, InitTypesInv, NextTypesInv, PTL DEF Spec
=============================================================================
