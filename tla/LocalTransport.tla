---------------------------- MODULE LocalTransport ----------------------------
(***************************************************************************)
(* api/local.py over api/wire.py: one TCP connection to the device, held   *)
(* open between calls and shared, under a lock, by every executor thread.  *)
(*                                                                         *)
(* A frame is its sequence number.  A line from the device is the number   *)
(* it echoes, or Report for anything else (an unsolicited cmd:10 report, a *)
(* line that does not decode): the code skips both alike.  A line is       *)
(* received whole; a fragment is a line that has not arrived yet.          *)
(*                                                                         *)
(* A call is a stretch of steps under the lock, and the device and the     *)
(* network act between any two of them.                                    *)
(***************************************************************************)
EXTENDS Naturals, Sequences, SequencesExt

CONSTANTS
  Callers,     \* executor threads
  MaxSn,       \* bound: calls in a behaviour
  MaxBacklog,  \* bound: lines sent by the device and not yet looked at
  Report,      \* a line that answers nobody
  None

ASSUME BoundsAssumption  == MaxSn \in Nat /\ MaxBacklog \in Nat \ {0}
ASSUME ReportAssumption  == Report \notin Nat
ASSUME NobodyAssumption  == None \notin Callers

VARIABLES
  owner,      \* who holds _lock
  connected,  \* _conn is not None
  buffer,     \* _conn._buffer: lines read and not yet looked at
  pc,         \* where each caller is in _exchange
  sn,         \* the sequence number of each caller's frame
  expired,    \* each caller's deadline has passed
  outcome,    \* how each caller's last call ended
  lastSn,     \* protocol._last_sn
  listener,   \* environment: the device accepts connections
  peer,       \* environment: what the far end of the connection has done
  inbound,    \* environment: lines the device sent that have not been read
  underway,   \* environment: frames written to this connection, not yet read
  stray,      \* environment: the same for connections given up
  received,   \* history: how often the device received each frame
  excused     \* history: since the connection was made, the far end has ended it,
              \* a call has failed, or this end was closed

call   == <<pc, sn, expired, outcome>>
socket == <<connected, buffer, peer, inbound, underway, stray>>
vars   == <<owner, connected, buffer, pc, sn, expired, outcome, lastSn,
            listener, peer, inbound, underway, stray, received, excused>>

Sns   == 1..MaxSn
Lines == Sns \cup {Report}

Steps == {"idle", "lock", "check", "sendHeld", "connect", "sendFresh", "await"}

\* The far end is there; has hung up; has reset the connection; has vanished
\* (power, Wi-Fi) without a word, so that writes still succeed.
Ends == {"open", "fin", "reset", "gone"}

TypeOK ==
  /\ owner     \in Callers \cup {None}
  /\ connected \in BOOLEAN
  /\ buffer    \in Seq(Lines)
  /\ pc        \in [Callers -> Steps]
  /\ sn        \in [Callers -> 0..MaxSn]
  /\ expired   \in [Callers -> BOOLEAN]
  /\ outcome   \in [Callers -> {"none", "reply", "error"}]
  /\ lastSn    \in 0..MaxSn
  /\ listener  \in BOOLEAN
  /\ peer      \in Ends
  /\ inbound   \in Seq(Lines)
  /\ underway  \in SUBSET Sns
  /\ stray     \in SUBSET Sns
  /\ received  \in [Sns -> Nat]
  /\ excused   \in BOOLEAN
  /\ ~connected => buffer = <<>> /\ inbound = <<>> /\ underway = {}

Init ==
  /\ owner = None
  /\ connected = FALSE
  /\ buffer = <<>>
  /\ pc = [c \in Callers |-> "idle"]
  /\ sn = [c \in Callers |-> 0]
  /\ expired = [c \in Callers |-> FALSE]
  /\ outcome = [c \in Callers |-> "none"]
  /\ lastSn = 0
  /\ listener \in BOOLEAN
  /\ peer = "gone"
  /\ inbound = <<>>
  /\ underway = {}
  /\ stray = {}
  /\ received = [s \in Sns |-> 0]
  /\ excused = TRUE

-----------------------------------------------------------------------------
(* A caller's steps.                                                       *)

Goto(c, from, to) ==
  /\ pc[c] = from
  /\ pc' = [pc EXCEPT ![c] = to]

\* The call leaves _exchange, and the "with" statement gives the lock back.
Return(c, how) ==
  /\ pc' = [pc EXCEPT ![c] = "idle"]
  /\ outcome' = [outcome EXCEPT ![c] = how]
  /\ owner' = None
  /\ excused' = (excused \/ how = "error")
  /\ UNCHANGED <<sn, expired>>

\* _disconnect.  What was written may still be read by the device, but
\* nothing it answers can come back.
Disconnect ==
  /\ connected' = FALSE
  /\ buffer' = <<>>
  /\ peer' = "gone"
  /\ inbound' = <<>>
  /\ underway' = {}
  /\ stray' = stray \cup underway

\* query_frame or set_frame, and encode: nothing is shared but the number.
Begin(c) ==
  /\ lastSn < MaxSn
  /\ Goto(c, "idle", "lock")
  /\ lastSn' = lastSn + 1
  /\ sn' = [sn EXCEPT ![c] = lastSn + 1]
  /\ expired' = [expired EXCEPT ![c] = FALSE]
  /\ outcome' = [outcome EXCEPT ![c] = "none"]
  /\ UNCHANGED <<owner, socket, listener, received, excused>>

\* Mutant: the lock is not taken.
Acquire_NoLock(c) ==
  /\ Goto(c, "lock", IF connected THEN "check" ELSE "connect")
  /\ owner' = c
  /\ UNCHANGED <<sn, expired, outcome, socket, lastSn, listener, received, excused>>

Acquire(c) ==
  /\ owner = None
  /\ Goto(c, "lock", IF connected THEN "check" ELSE "connect")
  /\ owner' = c
  /\ UNCHANGED <<sn, expired, outcome, socket, lastSn, listener, received, excused>>

\* Mutant: anything to read is taken for an end of the connection.
PeerHasClosed_OnAnyData == buffer = <<>> /\ (peer \in {"fin", "reset"} \/ inbound # <<>>)

\* peer_has_closed: an empty buffer, nothing to peek, and an end of stream
\* or an error where data would be.
PeerHasClosed == buffer = <<>> /\ inbound = <<>> /\ peer \in {"fin", "reset"}

Check(c) ==
  /\ IF PeerHasClosed
     THEN Goto(c, "check", "connect") /\ Disconnect
     ELSE Goto(c, "check", "sendHeld") /\ UNCHANGED socket
  /\ UNCHANGED <<owner, sn, expired, outcome, lastSn, listener, received, excused>>

\* sendall: the kernel takes the frame unless it knows of a reset.
Written(c) ==
  /\ peer # "reset"
  /\ underway' = underway \cup {sn[c]}
  /\ UNCHANGED <<connected, buffer, peer, inbound, stray>>

SendHeld(c) ==
  /\ \/ Goto(c, "sendHeld", "await") /\ Written(c)
     \/ Goto(c, "sendHeld", "connect") /\ peer = "reset" /\ Disconnect
  /\ UNCHANGED <<owner, sn, expired, outcome, lastSn, listener, received, excused>>

Connect(c) ==
  /\ listener
  /\ Goto(c, "connect", "sendFresh")
  /\ connected' = TRUE
  /\ peer' = "open"
  /\ excused' = FALSE
  /\ UNCHANGED <<owner, sn, expired, outcome, buffer, inbound, underway, stray,
                 lastSn, listener, received>>

ConnectFails(c) ==
  /\ ~listener
  /\ pc[c] = "connect"
  /\ Return(c, "error")
  /\ UNCHANGED <<socket, lastSn, listener, received>>

SendFresh(c) ==
  /\ \/ /\ Goto(c, "sendFresh", "await") /\ Written(c)
        /\ UNCHANGED <<owner, sn, expired, outcome, excused>>
     \/ /\ pc[c] = "sendFresh" /\ peer = "reset"
        /\ Return(c, "error") /\ Disconnect
  /\ UNCHANGED <<lastSn, listener, received>>

\* The deadline passes.
Expire(c) ==
  /\ pc[c] = "await"
  /\ ~expired[c]
  /\ expired' = [expired EXCEPT ![c] = TRUE]
  /\ UNCHANGED <<owner, pc, sn, outcome, socket, lastSn, listener, received, excused>>

\* Mutant: every recv is given the whole timeout.
Recv_FreshTimeout(c) ==
  /\ pc[c] = "await"
  /\ buffer = <<>>
  /\ \E n \in 1..Len(inbound) :
       /\ buffer' = SubSeq(inbound, 1, n)
       /\ inbound' = SubSeq(inbound, n + 1, Len(inbound))
  /\ UNCHANGED <<owner, call, connected, peer, underway, stray, lastSn, listener, received,
                excused>>

\* One recv: as many lines as the segment happens to carry.
Recv(c) ==
  /\ pc[c] = "await"
  /\ ~expired[c]
  /\ buffer = <<>>
  /\ \E n \in 1..Len(inbound) :
       /\ buffer' = SubSeq(inbound, 1, n)
       /\ inbound' = SubSeq(inbound, n + 1, Len(inbound))
  /\ UNCHANGED <<owner, call, connected, peer, underway, stray, lastSn, listener, received,
                excused>>

\* Mutant: the first line is the answer.
Take_FirstLine(c) ==
  /\ pc[c] = "await"
  /\ buffer # <<>>
  /\ buffer' = Tail(buffer)
  /\ Return(c, "reply")
  /\ UNCHANGED <<connected, peer, inbound, underway, stray, lastSn, listener, received>>

\* The next buffered line: this call's answer, or to be ignored.
Take(c) ==
  /\ pc[c] = "await"
  /\ buffer # <<>>
  /\ buffer' = Tail(buffer)
  /\ IF Head(buffer) = sn[c] THEN Return(c, "reply") ELSE UNCHANGED <<owner, call, excused>>
  /\ UNCHANGED <<connected, peer, inbound, underway, stray, lastSn, listener, received>>

\* Mutant: the clock is looked at before what has already been read.
TimesOut_BeforeBuffer(c) ==
  /\ pc[c] = "await"
  /\ expired[c]
  /\ Return(c, "error")
  /\ Disconnect
  /\ UNCHANGED <<lastSn, listener, received>>

\* Mutant: the connection is kept for the next call.
TimesOut_KeepsConnection(c) ==
  /\ pc[c] = "await"
  /\ expired[c]
  /\ buffer = <<>>
  /\ Return(c, "error")
  /\ UNCHANGED <<socket, lastSn, listener, received>>

\* lines() gives up at the deadline; the connection is dropped.
TimesOut(c) ==
  /\ pc[c] = "await"
  /\ expired[c]
  /\ buffer = <<>>
  /\ Return(c, "error")
  /\ Disconnect
  /\ UNCHANGED <<lastSn, listener, received>>

\* recv has nothing left to return but the end of the stream, or an error.
AtTheEnd(c, how) ==
  /\ pc[c] = "await"
  /\ buffer = <<>>
  /\ inbound = <<>>
  /\ peer = how

\* Mutant: a hang-up in mid-exchange is retried on a new connection.
HungUp_Retries(c) ==
  /\ AtTheEnd(c, "fin")
  /\ Goto(c, "await", "connect")
  /\ Disconnect
  /\ UNCHANGED <<owner, sn, expired, outcome, lastSn, listener, received, excused>>

\* recv returns b"": the peer hung up in mid-exchange.
HungUp(c) ==
  /\ AtTheEnd(c, "fin")
  /\ Return(c, "error")
  /\ Disconnect
  /\ UNCHANGED <<lastSn, listener, received>>

\* recv raises: TransportError passes through _await_reply, and _conn stays.
RecvFails(c) ==
  /\ AtTheEnd(c, "reset")
  /\ Return(c, "error")
  /\ UNCHANGED <<socket, lastSn, listener, received>>

\* What a caller does once it has the lock, apart from waiting.
Progress(c) ==
  \/ Check(c) \/ SendHeld(c) \/ Connect(c) \/ ConnectFails(c) \/ SendFresh(c)
  \/ Recv(c) \/ Take(c) \/ TimesOut(c) \/ HungUp(c) \/ RecvFails(c)

\* close(), from whoever drops this transport; it waits for the lock.
Close ==
  /\ owner = None
  /\ connected
  /\ Disconnect
  /\ excused' = TRUE
  /\ UNCHANGED <<owner, call, lastSn, listener, received>>

-----------------------------------------------------------------------------
(* The device and the network.                                             *)

local == <<owner, connected, buffer, call, lastSn>>

\* The device acts on a frame and, while the connection stands, may answer.
DeviceReceives(s) ==
  /\ s \in underway \cup stray
  /\ received' = [received EXCEPT ![s] = @ + 1]
  /\ underway' = underway \ {s}
  /\ stray' = stray \ {s}
  /\ \/ UNCHANGED inbound
     \/ /\ s \in underway /\ peer = "open"
        /\ inbound' = Append(inbound, s)
  /\ UNCHANGED <<local, listener, peer, excused>>

DeviceReports ==
  /\ connected /\ peer = "open"
  /\ Len(inbound) + Len(buffer) < MaxBacklog
  /\ inbound' = Append(inbound, Report)
  /\ UNCHANGED <<local, listener, peer, underway, stray, received, excused>>

\* It hangs up, is reset, or is gone; what it sent before may still be read,
\* except that a reset may discard it.
PeerEnds ==
  /\ connected
  /\ \/ peer = "open" /\ peer' \in {"fin", "gone"} /\ UNCHANGED inbound
     \/ peer # "reset" /\ peer' = "reset" /\ inbound' \in {inbound, <<>>}
  /\ excused' = TRUE
  /\ UNCHANGED <<local, listener, underway, stray, received>>

\* The firmware fault, and the power-cycle that cures it.
ListenerChanges ==
  /\ listener' = ~listener
  /\ UNCHANGED <<local, peer, inbound, underway, stray, received, excused>>

Next ==
  \/ \E c \in Callers : Begin(c) \/ Acquire(c) \/ Expire(c) \/ Progress(c)
  \/ Close
  \/ \E s \in Sns : DeviceReceives(s)
  \/ DeviceReports
  \/ PeerEnds
  \/ ListenerChanges

Spec == Init /\ [][Next]_vars

\* Threads are scheduled, a free lock is taken, and clocks run.  The device
\* and the network owe nothing.
Fairness ==
  \A c \in Callers :
    WF_vars(Acquire(c)) /\ WF_vars(Progress(c)) /\ WF_vars(Expire(c))

FairSpec == Spec /\ Fairness

-----------------------------------------------------------------------------
(* Properties.                                                             *)

\* "A command that may already have reached the device must not be sent
\* twice": over all reconnections, the device gets each frame at most once.
FrameReceivedAtMostOnce == \A s \in Sns : received[s] <= 1

Contract == INSTANCE Transport WITH busy <- [c \in Callers |-> pc[c] # "idle"]

\* The contract of a transport, kept over one connection that comes and goes: an
\* exchange ends in a reply only when the device has that very frame, whatever
\* else is on the connection.
ImplementsTransport == Contract!Spec

\* The next call starts clean: a live connection that nobody is using carries
\* no unanswered frame and no answer to an earlier call.
HeldConnectionIsClean ==
  owner = None /\ connected /\ peer = "open" =>
    /\ underway = {}
    /\ ToSet(buffer \o inbound) \subseteq {Report}

\* "Two frames written to one socket at once would cross their replies": an
\* answer somebody awaits stays readable until that caller takes it, or the
\* network loses it.
AnswersAreNotCrossed ==
  [][\A c \in Callers :
       /\ pc[c] = "await" /\ pc'[c] = "await"
       /\ sn[c] \in ToSet(buffer \o inbound)
       /\ peer' = peer
       => sn[c] \in ToSet(buffer' \o inbound')]_vars

\* "The connection is held open and reused across calls" (local.py:10): once made,
\* it is there for every later call, whoever makes it and whatever reports arrive
\* in between, until the far end has ended it, a call has failed, or this end was
\* closed.
ConnectionIsReused == connected \/ excused

\* An answer is not thrown away: no call fails with its answer already read,
\* nor, short of the deadline, with its answer waiting to be read.
AnswersAreNotLost ==
  [][\A c \in Callers : outcome[c] # "error" /\ outcome'[c] = "error" =>
       /\ sn[c] \notin ToSet(buffer)
       /\ expired[c] \/ sn[c] \notin ToSet(inbound)]_vars

\* Every call ends, reply or not, however chatty or silent the device is: the
\* deadline bounds the whole wait, and the lock is always given back.
EveryCallEnds == \A c \in Callers : pc[c] # "idle" ~> pc[c] = "idle"
=============================================================================
