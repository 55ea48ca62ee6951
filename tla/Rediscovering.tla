---------------------------- MODULE Rediscovering ----------------------------
(***************************************************************************)
(* api/rediscovering.py: the local transport that looks for its device     *)
(* over UDP when a request fails, and moves to the address it finds.       *)
(*                                                                         *)
(* The wrapper has no lock: _host, _transport and _last_search are shared  *)
(* by the polls and the commands in flight.  The wrapped LocalTransport is *)
(* its address: a request on it is answered or it fails.                   *)
(*                                                                         *)
(* No other device of CozyLife's is given one of the addresses; were it,   *)
(* it would answer in the device's place, for a frame names no device.     *)
(*                                                                         *)
(* lastAge is the time since _last_search, up to MinInterval.  A search    *)
(* takes seconds and the interval is minutes: a request spans at most one  *)
(* tick of the clock, of which an interval has three or more.              *)
(***************************************************************************)
EXTENDS Naturals, FiniteSets

CONSTANTS
  Pollers,       \* executor threads that query
  Pressers,      \* executor threads that control
  Hosts,         \* addresses the LAN hands out
  MinInterval,   \* min_rediscovery_interval, in ticks
  None

ASSUME JobsAssumption      == Pollers \cap Pressers = {}
ASSUME IntervalAssumption  == MinInterval \in Nat /\ MinInterval >= 3
ASSUME NoneAssumption      == None \notin Hosts \cup Nat

VARIABLES
  host,       \* _host
  transport,  \* the address _transport is pinned to
  lastAge,    \* None, or the age of _last_search
  pc,         \* where each job is in query or control
  target,     \* the transport each job's request runs on
  found,      \* what each job's search returned
  outcome,    \* how each job's last request ended
  sent,       \* history: how often the request may have reached its target
  steady,     \* history: jobs begun since the LAN last changed
  spent,      \* jobs whose request has seen the clock tick
  address,    \* environment: where the device is
  listener,   \* environment: the device's TCP listener answers
  responder   \* environment: the device answers discovery

shared == <<host, transport, lastAge>>
lan    == <<address, listener, responder>>
vars   == <<shared, pc, target, found, outcome, sent, steady, spent, lan>>

Jobs == Pollers \cup Pressers

Steps == {"idle", "first", "failed", "searching", "close", "install", "retry",
          "second"}

\* "declined": the request failed and the rate limit forbade a search.
Outcomes == {"none", "served", "error", "declined"}

TypeOK ==
  /\ host      \in Hosts
  /\ transport \in Hosts
  /\ lastAge   \in {None} \cup 0..MinInterval
  /\ pc        \in [Jobs -> Steps]
  /\ target    \in [Jobs -> Hosts]
  /\ found     \in [Jobs -> Hosts]
  /\ outcome   \in [Jobs -> Outcomes]
  /\ sent      \in [Jobs -> 0..2]
  /\ steady    \in SUBSET Jobs
  /\ spent     \in SUBSET Jobs
  /\ address   \in Hosts
  /\ listener  \in BOOLEAN
  /\ responder \in BOOLEAN

Init ==
  /\ host \in Hosts
  /\ transport = host
  /\ lastAge = None
  /\ pc = [j \in Jobs |-> "idle"]
  /\ target = [j \in Jobs |-> host]
  /\ found = [j \in Jobs |-> host]
  /\ outcome = [j \in Jobs |-> "none"]
  /\ sent = [j \in Jobs |-> 0]
  /\ steady = {}
  /\ spent = {}
  /\ address \in Hosts
  /\ listener \in BOOLEAN
  /\ responder \in BOOLEAN

-----------------------------------------------------------------------------
(* A job's steps through query()/control() and _relocate().                *)

Goto(j, from, to) ==
  /\ pc[j] = from
  /\ pc' = [pc EXCEPT ![j] = to]
  /\ UNCHANGED <<outcome, spent>>

Finish(j, from, how) ==
  /\ pc[j] = from
  /\ pc' = [pc EXCEPT ![j] = "idle"]
  /\ outcome' = [outcome EXCEPT ![j] = how]
  /\ spent' = spent \ {j}

\* The request goes to the transport of this moment.
Begin(j) ==
  /\ pc[j] = "idle"
  /\ pc' = [pc EXCEPT ![j] = "first"]
  /\ target' = [target EXCEPT ![j] = transport]
  /\ outcome' = [outcome EXCEPT ![j] = "none"]
  /\ sent' = [sent EXCEPT ![j] = 0]
  /\ steady' = steady \cup {j}
  /\ UNCHANGED <<shared, found, spent, lan>>

Reached(h) == h = address /\ listener

\* The frame is answered.
Answered(j, from) ==
  /\ Reached(target[j])
  /\ Finish(j, from, "served")
  /\ sent' = [sent EXCEPT ![j] = @ + 1]
  /\ UNCHANGED <<shared, target, found, steady, lan>>

\* Nobody answers, though a device there may have had the frame.
Unanswered(j) ==
  /\ ~Reached(target[j])
  /\ \E reached \in IF target[j] = address THEN {0, 1} ELSE {0} :
       sent' = [sent EXCEPT ![j] = @ + reached]

FirstFails(j) ==
  /\ Goto(j, "first", "failed")
  /\ Unanswered(j)
  /\ UNCHANGED <<shared, target, found, steady, lan>>

MayNotSearch == lastAge # None /\ lastAge < MinInterval

\* _relocate up to the search.
Decline(j) ==
  /\ MayNotSearch
  /\ Finish(j, "failed", "declined")
  /\ UNCHANGED <<shared, target, found, sent, steady, lan>>

\* Mutant: the search is dated when it is over.
Search_StampsLate(j) ==
  /\ ~MayNotSearch
  /\ Goto(j, "failed", "searching")
  /\ UNCHANGED <<shared, target, found, sent, steady, lan>>

Search(j) ==
  /\ ~MayNotSearch
  /\ Goto(j, "failed", "searching")
  /\ lastAge' = 0
  /\ UNCHANGED <<host, transport, target, found, sent, steady, lan>>

\* Silence, an OSError, or the address already known: nowhere new.
NothingNew(j) ==
  /\ ~responder \/ address = host
  /\ Finish(j, "searching", "error")
  /\ UNCHANGED <<shared, target, found, sent, steady, lan>>

SomewhereNew(j) ==
  /\ responder
  /\ address # host
  /\ Goto(j, "searching", "close")
  /\ found' = [found EXCEPT ![j] = address]
  /\ UNCHANGED <<shared, target, sent, steady, lan>>

\* The old transport is closed, then _host is set.
CloseOld(j) ==
  /\ Goto(j, "close", "install")
  /\ host' = found[j]
  /\ UNCHANGED <<transport, lastAge, target, found, sent, steady, lan>>

\* Mutant: a failed command is tried at the new address.
Install_RetriesWrites(j) ==
  /\ Goto(j, "install", "retry")
  /\ transport' = found[j]
  /\ UNCHANGED <<host, lastAge, target, found, sent, steady, lan>>

\* Mutant: only the name of the address is updated.
Install_KeepsTransport(j) ==
  /\ \/ j \in Pollers /\ Goto(j, "install", "retry")
     \/ j \in Pressers /\ Finish(j, "install", "error")
  /\ UNCHANGED <<shared, target, found, sent, steady, lan>>

\* The new transport is in place: a query is retried, a command is not.
Install(j) ==
  /\ \/ j \in Pollers /\ Goto(j, "install", "retry")
     \/ j \in Pressers /\ Finish(j, "install", "error")
  /\ transport' = found[j]
  /\ UNCHANGED <<host, lastAge, target, found, sent, steady, lan>>

\* Mutant: the query is retried on the transport it failed on.
Retry_SameTransport(j) ==
  /\ Goto(j, "retry", "second")
  /\ UNCHANGED <<shared, target, found, sent, steady, lan>>

Retry(j) ==
  /\ Goto(j, "retry", "second")
  /\ target' = [target EXCEPT ![j] = transport]
  /\ UNCHANGED <<shared, found, sent, steady, lan>>

SecondFails(j) ==
  /\ Finish(j, "second", "error")
  /\ Unanswered(j)
  /\ UNCHANGED <<shared, target, found, steady, lan>>

Progress(j) ==
  \/ Answered(j, "first") \/ FirstFails(j)
  \/ Decline(j) \/ Search(j) \/ NothingNew(j) \/ SomewhereNew(j)
  \/ CloseOld(j) \/ Install(j) \/ Retry(j)
  \/ Answered(j, "second") \/ SecondFails(j)

-----------------------------------------------------------------------------
(* The environment.                                                        *)

\* Time passes.  No request sees two ticks.
Tick ==
  /\ lastAge # None
  /\ lastAge < MinInterval
  /\ spent = {}
  /\ lastAge' = lastAge + 1
  /\ spent' = {j \in Jobs : pc[j] # "idle"}
  /\ UNCHANGED <<host, transport, pc, target, found, outcome, sent, steady, lan>>

\* A DHCP lease changes, the listener dies, a power-cycle cures it, Wi-Fi comes
\* and goes.
LanChanges ==
  /\ address' \in Hosts
  /\ listener' \in BOOLEAN
  /\ responder' \in BOOLEAN
  /\ lan' # lan
  /\ steady' = {}
  /\ UNCHANGED <<shared, pc, target, found, outcome, sent, spent>>

Next ==
  \/ \E j \in Jobs : Begin(j) \/ Progress(j)
  \/ Tick
  \/ LanChanges

Spec == Init /\ [][Next]_vars

\* Polls recur, every call ends, and the clock runs.
Fairness ==
  /\ \A j \in Pollers : WF_vars(Begin(j))
  /\ \A j \in Jobs : WF_vars(Progress(j))
  /\ WF_vars(Tick)

FairSpec == Spec /\ Fairness

-----------------------------------------------------------------------------
(* Properties.                                                             *)

\* "A failed write is never retried here": whatever other jobs do to the
\* address meanwhile, a command is put to a device at most once.
WriteSentAtMostOnce == \A j \in Pressers : sent[j] <= 1

\* One search at a time: two jobs that fail together do not both broadcast, nor
\* replace each other's transport.
OneRelocationAtATime ==
  Cardinality({j \in Jobs : pc[j] \in {"searching", "close", "install"}}) <= 1

\* What the wrapper says it is connected to is what it is connected to, as
\* soon as nobody is relocating: a found address is really moved to.
HostIsTransports ==
  (\A j \in Jobs : pc[j] # "install") => host = transport

\* A device that has moved is found within the poll that misses it, unless the
\* rate limit forbids the search: on a LAN that has been quiet for the whole
\* poll, with the device answering, only "declined" polls fail.
MovedDeviceIsFound ==
  \A j \in Pollers \cap steady :
    listener /\ responder => outcome[j] # "error"

\* The address is followed for ever: a device that settles anywhere, and
\* answers there, is connected to in the end.
DeviceIsFollowed ==
  \A h \in Hosts :
    <>[](address = h /\ listener /\ responder) => <>[](transport = h)

\* "A DHCP lease change repairs itself on the next poll" (README.md:160): on
\* such a LAN no poll fails at all.  A search in the last interval breaks it.
RepairedOnNextPoll ==
  \A j \in Pollers \cap steady :
    listener /\ responder => outcome[j] \notin {"error", "declined"}
=============================================================================
