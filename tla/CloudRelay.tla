------------------------------ MODULE CloudRelay ------------------------------
(***************************************************************************)
(* api/cloud.py over api/wire.py: a call opens a connection of its own to  *)
(* the relay, subscribes to the device's reports, publishes one frame, and *)
(* waits for the report that echoes the frame's number.                    *)
(*                                                                         *)
(* Nothing is shared between two calls but the relay, which sends every    *)
(* report of the device to everyone subscribed: each call sees the answers *)
(* to the others.  A frame is its sequence number, and a line from the     *)
(* relay is the number a report carries, Undelivered for the receipt of a  *)
(* publish with num=0, or Noise for any other line: the receipts that      *)
(* count somebody, reports of other topics, lines that do not decode.      *)
(***************************************************************************)
EXTENDS Naturals, Sequences, SequencesExt

CONSTANTS
  Callers,      \* executor threads
  MaxSn,        \* bound: calls in a behaviour
  MaxBacklog,   \* bound: lines waiting on one connection when noise is added
  Undelivered, Noise, Subscribe  \* lines that are not a frame

Sns == 1..MaxSn

ASSUME BoundsAssumption == MaxSn \in Nat /\ MaxBacklog \in Nat \ {0}
ASSUME LinesAssumption  == /\ {Undelivered, Noise, Subscribe} \cap Nat = {}
                           /\ Undelivered # Noise

VARIABLES
  pc,          \* where each caller is in _exchange
  sn,          \* the sequence number of each caller's frame
  expired,     \* each caller's deadline, set before it connects, has passed
  outcome,     \* how each caller's last call ended
  lastSn,      \* protocol._last_sn
  buffer,      \* each connection's LineSocket._buffer
  inbound,     \* environment: lines for each caller, not yet read
  outbound,    \* environment: lines of each caller, not yet read by the relay
  peer,        \* environment: the relay's end of each connection
  stray,       \* environment: frames on connections given up
  subscribed,  \* environment: connections the relay sends reports to
  accepting,   \* environment: the relay accepts connections
  online,      \* environment: the device is attached to this relay
  atDevice,    \* environment: frames relayed, not yet received
  received     \* history: how often the device received each frame

call    == <<pc, sn, expired, outcome, lastSn>>
network == <<inbound, outbound, peer, stray, subscribed>>
device  == <<accepting, online, atDevice, received>>
vars    == <<call, buffer, network, device>>

Steps == {"idle", "connect", "subscribe", "publish", "await"}

Outcomes == {"none", "reply", "undelivered", "error"}

TypeOK ==
  /\ pc         \in [Callers -> Steps]
  /\ sn         \in [Callers -> 0..MaxSn]
  /\ expired    \in [Callers -> BOOLEAN]
  /\ outcome    \in [Callers -> Outcomes]
  /\ lastSn     \in 0..MaxSn
  /\ buffer     \in [Callers -> Seq(Sns \cup {Undelivered, Noise})]
  /\ inbound    \in [Callers -> Seq(Sns \cup {Undelivered, Noise})]
  /\ outbound   \in [Callers -> Seq(Sns \cup {Subscribe})]
  /\ peer       \in [Callers -> {"none", "open", "fin", "reset"}]
  /\ stray      \in SUBSET Sns
  /\ subscribed \in SUBSET Callers
  /\ accepting  \in BOOLEAN
  /\ online     \in BOOLEAN
  /\ atDevice   \in SUBSET Sns
  /\ received   \in [Sns -> Nat]
  /\ \A c \in Callers : pc[c] \in {"idle", "connect"} => peer[c] = "none"

Init ==
  /\ pc = [c \in Callers |-> "idle"]
  /\ sn = [c \in Callers |-> 0]
  /\ expired = [c \in Callers |-> FALSE]
  /\ outcome = [c \in Callers |-> "none"]
  /\ lastSn = 0
  /\ buffer = [c \in Callers |-> <<>>]
  /\ inbound = [c \in Callers |-> <<>>]
  /\ outbound = [c \in Callers |-> <<>>]
  /\ peer = [c \in Callers |-> "none"]
  /\ stray = {}
  /\ subscribed = {}
  /\ accepting \in BOOLEAN
  /\ online \in BOOLEAN
  /\ atDevice = {}
  /\ received = [s \in Sns |-> 0]

-----------------------------------------------------------------------------
(* A caller's steps.                                                       *)

Goto(c, from, to) ==
  /\ pc[c] = from
  /\ pc' = [pc EXCEPT ![c] = to]

\* The frame is built and the clock is read, both before the connection is.
Begin(c) ==
  /\ lastSn < MaxSn
  /\ Goto(c, "idle", "connect")
  /\ lastSn' = lastSn + 1
  /\ sn' = [sn EXCEPT ![c] = lastSn + 1]
  /\ expired' = [expired EXCEPT ![c] = FALSE]
  /\ outcome' = [outcome EXCEPT ![c] = "none"]
  /\ UNCHANGED <<buffer, network, device>>

Connect(c) ==
  /\ accepting
  /\ Goto(c, "connect", "subscribe")
  /\ peer' = [peer EXCEPT ![c] = "open"]
  /\ UNCHANGED <<sn, expired, outcome, lastSn, buffer, inbound, outbound,
                 stray, subscribed, device>>

ConnectFails(c) ==
  /\ ~accepting
  /\ Goto(c, "connect", "idle")
  /\ outcome' = [outcome EXCEPT ![c] = "error"]
  /\ UNCHANGED <<sn, expired, lastSn, buffer, network, device>>

\* The call ends and "with" closes the connection.  The relay may still act
\* on what was written to it, but not answer.
Leave(c, how) ==
  /\ pc' = [pc EXCEPT ![c] = "idle"]
  /\ outcome' = [outcome EXCEPT ![c] = how]
  /\ buffer' = [buffer EXCEPT ![c] = <<>>]
  /\ inbound' = [inbound EXCEPT ![c] = <<>>]
  /\ outbound' = [outbound EXCEPT ![c] = <<>>]
  /\ peer' = [peer EXCEPT ![c] = "none"]
  /\ stray' = stray \cup (ToSet(outbound[c]) \ {Subscribe})
  /\ subscribed' = subscribed \ {c}
  /\ UNCHANGED <<sn, expired, lastSn, device>>

\* send_line: written, or refused because the connection is known reset.
Send(c, from, line, to) ==
  \/ /\ peer[c] # "reset"
     /\ Goto(c, from, to)
     /\ outbound' = [outbound EXCEPT ![c] = Append(@, line)]
     /\ UNCHANGED <<sn, expired, outcome, lastSn, buffer, inbound, peer, stray,
                    subscribed, device>>
  \/ /\ pc[c] = from
     /\ peer[c] = "reset"
     /\ Leave(c, "error")

\* Mutant: no subscription is made.
SendSubscribe_Not(c) ==
  /\ Goto(c, "subscribe", "publish")
  /\ UNCHANGED <<sn, expired, outcome, lastSn, buffer, network, device>>

SendSubscribe(c) == Send(c, "subscribe", Subscribe, "publish")

SendPublish(c) == Send(c, "publish", sn[c], "await")

\* The deadline passes, perhaps before the connection is made.
Expire(c) ==
  /\ pc[c] # "idle"
  /\ ~expired[c]
  /\ expired' = [expired EXCEPT ![c] = TRUE]
  /\ UNCHANGED <<pc, sn, outcome, lastSn, buffer, network, device>>

Recv(c) ==
  /\ pc[c] = "await"
  /\ ~expired[c]
  /\ buffer[c] = <<>>
  /\ \E n \in 1..Len(inbound[c]) :
       /\ buffer' = [buffer EXCEPT ![c] = SubSeq(inbound[c], 1, n)]
       /\ inbound' = [inbound EXCEPT ![c] = SubSeq(@, n + 1, Len(@))]
  /\ UNCHANGED <<call, outbound, peer, stray, subscribed, device>>

\* Mutant: any receipt means nobody was reached.
IsUndeliveredAck_AnyReceipt(line) == line \in {Undelivered, Noise}

IsUndeliveredAck(line) == line = Undelivered

\* Mutant: the first report is the answer.
IsAnswer_AnyReport(c, line) == line \in Sns

IsAnswer(c, line) == line = sn[c]

\* The next buffered line.
Take(c) ==
  /\ pc[c] = "await"
  /\ buffer[c] # <<>>
  /\ LET line == Head(buffer[c])
     IN  \/ IsUndeliveredAck(line) /\ Leave(c, "undelivered")
         \/ ~IsUndeliveredAck(line) /\ IsAnswer(c, line) /\ Leave(c, "reply")
         \/ /\ ~IsUndeliveredAck(line) /\ ~IsAnswer(c, line)
            /\ buffer' = [buffer EXCEPT ![c] = Tail(@)]
            /\ UNCHANGED <<call, network, device>>

\* Mutant: a silent relay is asked again.
GivesUp_Republishes(c) ==
  /\ pc[c] = "await"
  /\ buffer[c] = <<>>
  /\ expired[c]
  /\ Goto(c, "await", "publish")
  /\ expired' = [expired EXCEPT ![c] = FALSE]
  /\ UNCHANGED <<sn, outcome, lastSn, buffer, network, device>>

\* lines() ends, at the deadline or at the end of the stream, or raises.
GivesUp(c) ==
  /\ pc[c] = "await"
  /\ buffer[c] = <<>>
  /\ expired[c] \/ (inbound[c] = <<>> /\ peer[c] \in {"fin", "reset"})
  /\ Leave(c, "error")

Progress(c) ==
  \/ Connect(c) \/ ConnectFails(c)
  \/ SendSubscribe(c) \/ SendPublish(c)
  \/ Recv(c) \/ Take(c) \/ GivesUp(c)

-----------------------------------------------------------------------------
(* The relay, the device and the network.                                  *)

\* The frames the relay passes on, or its receipt for delivering to nobody.
Relayed(s) == IF online THEN atDevice \cup {s} ELSE atDevice

\* The relay reads a connection's lines in the order they were written.
RelayReads(c) ==
  /\ peer[c] = "open"
  /\ outbound[c] # <<>>
  /\ outbound' = [outbound EXCEPT ![c] = Tail(@)]
  /\ LET line == Head(outbound[c])
     IN  IF line = Subscribe
         THEN /\ subscribed' = subscribed \cup {c}
              /\ UNCHANGED <<inbound, atDevice>>
         ELSE /\ atDevice' = Relayed(line)
              /\ inbound' = [inbound EXCEPT ![c] =
                               Append(@, IF online THEN Noise ELSE Undelivered)]
              /\ UNCHANGED subscribed
  /\ UNCHANGED <<call, buffer, peer, stray, accepting, online, received>>

\* The caller has gone, but its frame is relayed.
RelayReadsStray(s) ==
  /\ s \in stray
  /\ stray' = stray \ {s}
  /\ atDevice' = Relayed(s)
  /\ UNCHANGED <<call, buffer, inbound, outbound, peer, subscribed, accepting,
                 online, received>>

\* The device acts on a frame and may answer: a report to all subscribed.
DeviceReceives(s) ==
  /\ online
  /\ s \in atDevice
  /\ atDevice' = atDevice \ {s}
  /\ received' = [received EXCEPT ![s] = @ + 1]
  /\ \/ UNCHANGED inbound
     \/ inbound' = [c \in Callers |-> IF c \in subscribed
                                      THEN Append(inbound[c], s) ELSE inbound[c]]
  /\ UNCHANGED <<call, buffer, outbound, peer, stray, subscribed, accepting, online>>

\* A report nobody asked for, a receipt, or a line that does not decode.
RelaySendsNoise(c) ==
  /\ peer[c] = "open"
  /\ Len(inbound[c]) + Len(buffer[c]) < MaxBacklog
  /\ inbound' = [inbound EXCEPT ![c] = Append(@, Noise)]
  /\ UNCHANGED <<call, buffer, outbound, peer, stray, subscribed, device>>

\* The relay hangs up or the connection is reset: reports stop coming.
RelayEnds(c) ==
  /\ peer[c] = "open"
  /\ peer' = [peer EXCEPT ![c] = "fin"] \/ peer' = [peer EXCEPT ![c] = "reset"]
  /\ subscribed' = subscribed \ {c}
  /\ UNCHANGED <<call, buffer, inbound, outbound, stray, device>>

\* The internet goes away or comes back.
AcceptingChanges ==
  /\ accepting' = ~accepting
  /\ UNCHANGED <<call, buffer, network, online, atDevice, received>>

\* The device joins or leaves the relay; frames on their way to it are lost.
OnlineChanges ==
  /\ online' = ~online
  /\ atDevice' = {}
  /\ UNCHANGED <<call, buffer, network, accepting, received>>

Next ==
  \/ \E c \in Callers :
       \/ Begin(c) \/ Expire(c) \/ Progress(c)
       \/ RelayReads(c) \/ RelaySendsNoise(c) \/ RelayEnds(c)
  \/ \E s \in Sns : RelayReadsStray(s) \/ DeviceReceives(s)
  \/ AcceptingChanges
  \/ OnlineChanges

Spec == Init /\ [][Next]_vars

-----------------------------------------------------------------------------
(* Properties.                                                             *)

Contract == INSTANCE Transport WITH busy <- [c \in Callers |-> pc[c] # "idle"]

\* The contract of a transport, kept by calls that share nothing and hear each
\* other's reports: no call returns an answer before the device has its own frame,
\* and no frame is received twice, also those of calls that were given up.
ImplementsTransport == Contract!Spec

\* "Reached no subscriber" is never said of a command that reaches the device,
\* then or later: only then is it safe to send it again.
UndeliveredMeansNotReceived ==
  \A c \in Callers : outcome[c] = "undelivered" =>
    received[sn[c]] = 0 /\ sn[c] \notin atDevice \cup stray

\* "Subscribe before publishing, or the relay has nowhere to route the reply":
\* while a caller waits on a live connection, a device that has its frame
\* cannot answer without the caller's being sent the answer.
AnswerHasARoute ==
  \A c \in Callers :
    pc[c] = "await" /\ peer[c] = "open" /\ sn[c] \in atDevice => c \in subscribed
=============================================================================
