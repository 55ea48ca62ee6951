-------------------------- MODULE CloudRelayProofs --------------------------
(***************************************************************************)
(* Theorems about CloudRelay for any number of callers, any number of      *)
(* calls and any traffic from the relay.                                   *)
(***************************************************************************)
EXTENDS CloudRelay, TLAPS, SequenceTheorems

\* A frame that the relay has not passed on, nor will but for a connection
\* that still holds it.
Blank(s) == s \notin stray \cup atDevice /\ received[s] = 0

\* No two calls share a number, the last calls of idle callers included.
NumbersDiffer ==
  /\ \A c \in Callers : sn[c] <= lastSn /\ (pc[c] # "idle" => sn[c] # 0)
  /\ \A c, d \in Callers : c # d /\ sn[c] = sn[d] => sn[c] = 0

FutureIsBlank == \A s \in Sns : s > lastSn => Blank(s)

\* What a call has written and the relay has not read.
Unread ==
  \A c \in Callers :
    /\ pc[c] \in {"idle", "connect", "subscribe"} => outbound[c] = <<>>
    /\ pc[c] = "publish" => outbound[c] \in {<<>>, <<Subscribe>>}
    /\ pc[c] = "await" => outbound[c] \in {<<>>, <<sn[c]>>, <<Subscribe, sn[c]>>}

\* The frame is nowhere else until the relay has read it.
UnreadIsBlank ==
  \A c \in Callers :
    pc[c] \in {"connect", "subscribe", "publish"} \/ outbound[c] # <<>> => Blank(sn[c])

\* A frame is with the relay, on its way to the device, or received.
OnePlace ==
  \A s \in Sns :
    /\ received[s] <= 1
    /\ s \in stray \cup atDevice => received[s] = 0
    /\ s \notin stray \cap atDevice

\* The lines a caller can have: noise, answers to frames that were received, and
\* the receipt for a frame of its own that went to nobody.
NobodyHad(c) == pc[c] = "await" /\ outbound[c] = <<>> /\ Blank(sn[c])

Possible(c) == {Noise} \cup {s \in Sns : received[s] # 0}
                       \cup {u \in {Undelivered} : NobodyHad(c)}

LinesArePossible ==
  \A c \in Callers : buffer[c] \in Seq(Possible(c)) /\ inbound[c] \in Seq(Possible(c))

\* What a call that is over has said of its frame.
OutcomesHold ==
  \A c \in Callers :
    /\ outcome[c] # "none" => pc[c] = "idle" /\ sn[c] # 0
    /\ outcome[c] = "reply" => received[sn[c]] = 1
    /\ outcome[c] = "undelivered" => Blank(sn[c])

\* The relay reads the subscription first.
Routed ==
  \A c \in Callers :
    /\ pc[c] \in {"publish", "await"}
    /\ peer[c] = "open"
    /\ outbound[c] \in {<<>>, <<sn[c]>>}
    => c \in subscribed

FramesOK ==
  /\ NumbersDiffer
  /\ FutureIsBlank
  /\ Unread
  /\ UnreadIsBlank
  /\ OnePlace

CallsOK == FramesOK /\ LinesArePossible /\ OutcomesHold /\ Routed

RelayInv == TypeOK /\ CallsOK

LEMMA InitRelayInv == Init => RelayInv
<1> SUFFICES ASSUME Init PROVE RelayInv
  OBVIOUS
<1> USE BoundsAssumption DEF Init
<1>1. TypeOK
  BY DEF TypeOK, Steps, Outcomes, Sns
<1>2. FramesOK
  BY DEF FramesOK, NumbersDiffer, FutureIsBlank, Unread, UnreadIsBlank, OnePlace,
         Blank, Sns
<1>3. LinesArePossible
  BY DEF LinesArePossible
<1>4. OutcomesHold /\ Routed
  BY DEF OutcomesHold, Routed
<1> QED
  BY <1>1, <1>2, <1>3, <1>4 DEF RelayInv, CallsOK

-----------------------------------------------------------------------------
(* Types.                                                                  *)

Lines   == Sns \cup {Undelivered, Noise}
Written == Sns \cup {Subscribe}

LEMMA SplitType ==
  ASSUME NEW E, NEW s \in Seq(E), NEW n \in 1..Len(s)
  PROVE  SubSeq(s, 1, n) \in Seq(E) /\ SubSeq(s, n + 1, Len(s)) \in Seq(E)
  OBVIOUS

\* What a call publishes is a frame.
LEMMA FrameInUse ==
  ASSUME TypeOK, NumbersDiffer, NEW c \in Callers, pc[c] # "idle"
  PROVE  sn[c] \in Sns
  BY BoundsAssumption DEF TypeOK, NumbersDiffer, Sns

LEMMA LeaveKeepsTypes ==
  ASSUME TypeOK, NEW c \in Callers, NEW how \in Outcomes, Leave(c, how)
  PROVE  TypeOK'
<1> USE DEF TypeOK, Leave, device
<1>1. <<>> \in Seq(Lines) /\ <<>> \in Seq(Written)
  OBVIOUS
<1>2. buffer' \in [Callers -> Seq(Lines)] /\ inbound' \in [Callers -> Seq(Lines)]
  BY <1>1 DEF Lines
<1>3. outbound' \in [Callers -> Seq(Written)]
  BY <1>1 DEF Written
<1>4. ToSet(outbound[c]) \subseteq Written
  <2>1. outbound[c] \in Seq(Written)
    BY DEF Written
  <2>2. \A i \in 1..Len(outbound[c]) : outbound[c][i] \in Written
    BY <2>1
  <2>3. DOMAIN outbound[c] = 1..Len(outbound[c])
    BY <2>1
  <2> QED
    BY <2>2, <2>3 DEF ToSet
<1>5. stray' \in SUBSET Sns
  BY <1>4 DEF Written
<1>6. /\ pc' \in [Callers -> Steps] /\ outcome' \in [Callers -> Outcomes]
      /\ peer' \in [Callers -> {"none", "open", "fin", "reset"}]
  BY DEF Steps
<1>7. \A d \in Callers : pc'[d] \in {"idle", "connect"} => peer'[d] = "none"
  OBVIOUS
<1> QED
  BY <1>2, <1>3, <1>5, <1>6, <1>7 DEF Lines, Written

LEMMA SendKeepsTypes ==
  ASSUME TypeOK, NEW c \in Callers,
         NEW from \in {"subscribe", "publish"}, NEW line \in Written, NEW to \in Steps,
         to \notin {"idle", "connect"},
         Send(c, from, line, to)
  PROVE  TypeOK'
<1>1. CASE pc[c] = from /\ peer[c] = "reset" /\ Leave(c, "error")
  BY <1>1, LeaveKeepsTypes DEF Outcomes
<1>2. ASSUME Goto(c, from, to),
             outbound' = [outbound EXCEPT ![c] = Append(@, line)],
             UNCHANGED <<sn, expired, outcome, lastSn, buffer, inbound, peer, stray,
                         subscribed, device>>
      PROVE  TypeOK'
  <2>1. outbound' \in [Callers -> Seq(Written)]
    BY <1>2 DEF TypeOK, Written
  <2> QED
    BY <1>2, <2>1 DEF TypeOK, Goto, Steps, Written, device
<1> QED
  BY <1>1, <1>2 DEF Send

LEMMA NextTypes == TypeOK /\ NumbersDiffer /\ [Next]_vars => TypeOK'
<1> SUFFICES ASSUME TypeOK, NumbersDiffer, [Next]_vars PROVE TypeOK'
  OBVIOUS
<1> USE BoundsAssumption
<1>1. ASSUME NEW c \in Callers, Begin(c) PROVE TypeOK'
  <2>1. lastSn' \in 0..MaxSn /\ lastSn' = lastSn + 1
    BY <1>1 DEF Begin, TypeOK
  <2>2. sn' \in [Callers -> 0..MaxSn] /\ expired' \in [Callers -> BOOLEAN]
    BY <1>1, <2>1 DEF Begin, TypeOK
  <2>3. pc' \in [Callers -> Steps] /\ outcome' \in [Callers -> Outcomes]
    BY <1>1 DEF Begin, Goto, TypeOK, Steps, Outcomes
  <2>4. \A d \in Callers : pc'[d] \in {"idle", "connect"} => peer'[d] = "none"
    BY <1>1 DEF Begin, Goto, TypeOK, network
  <2> QED
    BY <1>1, <2>1, <2>2, <2>3, <2>4 DEF Begin, TypeOK, network, device
<1>2. ASSUME NEW c \in Callers, Expire(c) PROVE TypeOK'
  <2>1. expired' \in [Callers -> BOOLEAN]
    BY <1>2 DEF Expire, TypeOK
  <2> QED
    BY <1>2, <2>1 DEF Expire, TypeOK, network, device
<1>3. ASSUME NEW c \in Callers, Connect(c) PROVE TypeOK'
  BY <1>3 DEF Connect, Goto, TypeOK, Steps, device
<1>4. ASSUME NEW c \in Callers, ConnectFails(c) PROVE TypeOK'
  <2>1. pc' \in [Callers -> Steps] /\ outcome' \in [Callers -> Outcomes]
    BY <1>4 DEF ConnectFails, Goto, TypeOK, Steps, Outcomes
  <2>2. \A d \in Callers : pc'[d] \in {"idle", "connect"} => peer'[d] = "none"
    BY <1>4 DEF ConnectFails, Goto, TypeOK, network
  <2> QED
    BY <1>4, <2>1, <2>2 DEF ConnectFails, TypeOK, network, device
<1>5. ASSUME NEW c \in Callers, SendSubscribe(c) PROVE TypeOK'
  BY <1>5, SendKeepsTypes DEF SendSubscribe, Written, Steps
<1>6. ASSUME NEW c \in Callers, SendPublish(c) PROVE TypeOK'
  <2>1. pc[c] = "publish"
    BY <1>6 DEF SendPublish, Send, Goto
  <2>2. sn[c] \in Written
    BY <2>1, FrameInUse DEF Written
  <2> QED
    BY <1>6, <2>2, SendKeepsTypes DEF SendPublish, Steps
<1>7. ASSUME NEW c \in Callers, Recv(c) PROVE TypeOK'
  <2>1. PICK n \in 1..Len(inbound[c]) :
          /\ buffer' = [buffer EXCEPT ![c] = SubSeq(inbound[c], 1, n)]
          /\ inbound' = [inbound EXCEPT ![c] = SubSeq(inbound[c], n + 1, Len(inbound[c]))]
    BY <1>7 DEF Recv
  <2>2. inbound[c] \in Seq(Lines)
    BY DEF TypeOK, Lines
  <2>3. /\ SubSeq(inbound[c], 1, n) \in Seq(Lines)
        /\ SubSeq(inbound[c], n + 1, Len(inbound[c])) \in Seq(Lines)
    BY <2>2, SplitType
  <2>4. buffer' \in [Callers -> Seq(Lines)] /\ inbound' \in [Callers -> Seq(Lines)]
    BY <2>1, <2>3 DEF TypeOK, Lines
  <2> QED
    BY <1>7, <2>4 DEF Recv, TypeOK, call, device, Lines
<1>8. ASSUME NEW c \in Callers, Take(c) PROVE TypeOK'
  <2>1. CASE Leave(c, "undelivered") \/ Leave(c, "reply")
    BY <2>1, LeaveKeepsTypes DEF Outcomes
  <2>2. CASE buffer' = [buffer EXCEPT ![c] = Tail(@)] /\ UNCHANGED <<call, network, device>>
    <3>1. buffer' \in [Callers -> Seq(Lines)]
      BY <1>8, <2>2 DEF Take, TypeOK, Lines
    <3> QED
      BY <2>2, <3>1 DEF TypeOK, call, network, device, Lines
  <2> QED
    BY <1>8, <2>1, <2>2 DEF Take
<1>9. ASSUME NEW c \in Callers, GivesUp(c) PROVE TypeOK'
  BY <1>9, LeaveKeepsTypes DEF GivesUp, Outcomes
<1>10. ASSUME NEW c \in Callers, RelayReads(c) PROVE TypeOK'
  <2>1. outbound[c] \in Seq(Written) /\ outbound[c] # <<>>
    BY <1>10 DEF RelayReads, TypeOK, Written
  <2>2. Head(outbound[c]) \in Written /\ Tail(outbound[c]) \in Seq(Written)
    BY <2>1
  <2>3. outbound' \in [Callers -> Seq(Written)]
    BY <1>10, <2>2 DEF RelayReads, TypeOK, Written
  <2>4. atDevice' \in SUBSET Sns /\ subscribed' \in SUBSET Callers
    BY <1>10, <2>2 DEF RelayReads, Relayed, TypeOK, Written
  <2>5. inbound' \in [Callers -> Seq(Lines)]
    <3>1. inbound \in [Callers -> Seq(Lines)]
      BY DEF TypeOK, Lines
    <3>2. Append(inbound[c], Noise) \in Seq(Lines) /\ Append(inbound[c], Undelivered) \in Seq(Lines)
      BY <3>1 DEF Lines
    <3> QED
      BY <1>10, <3>1, <3>2 DEF RelayReads
  <2> QED
    BY <1>10, <2>3, <2>4, <2>5 DEF RelayReads, TypeOK, call, Lines, Written
<1>11. ASSUME NEW c \in Callers, RelaySendsNoise(c) PROVE TypeOK'
  <2>1. inbound' \in [Callers -> Seq(Lines)]
    BY <1>11 DEF RelaySendsNoise, TypeOK, Lines
  <2> QED
    BY <1>11, <2>1 DEF RelaySendsNoise, TypeOK, call, device, Lines
<1>12. ASSUME NEW c \in Callers, RelayEnds(c) PROVE TypeOK'
  BY <1>12 DEF RelayEnds, TypeOK, call, device
<1>13. ASSUME NEW s \in Sns, RelayReadsStray(s) PROVE TypeOK'
  BY <1>13 DEF RelayReadsStray, Relayed, TypeOK, call
<1>14. ASSUME NEW s \in Sns, DeviceReceives(s) PROVE TypeOK'
  <2>1. inbound' \in [Callers -> Seq(Lines)]
    <3>1. inbound \in [Callers -> Seq(Lines)] /\ s \in Lines
      BY DEF TypeOK, Lines
    <3>2. \A d \in Callers : Append(inbound[d], s) \in Seq(Lines)
      BY <3>1
    <3> QED
      BY <1>14, <3>1, <3>2 DEF DeviceReceives
  <2>2. received' \in [Sns -> Nat]
    BY <1>14 DEF DeviceReceives, TypeOK
  <2> QED
    BY <1>14, <2>1, <2>2 DEF DeviceReceives, TypeOK, call, Lines
<1>15. CASE AcceptingChanges
  BY <1>15 DEF AcceptingChanges, TypeOK, call, network
<1>16. CASE OnlineChanges
  BY <1>16 DEF OnlineChanges, TypeOK, call, network
<1>17. CASE UNCHANGED vars
  BY <1>17 DEF vars, TypeOK, call, network, device
<1> QED
  BY <1>1, <1>2, <1>3, <1>4, <1>5, <1>6, <1>7, <1>8, <1>9, <1>10, <1>11, <1>12, <1>13,
     <1>14, <1>15, <1>16, <1>17
  DEF Next, Progress

-----------------------------------------------------------------------------
(* What the steps share.                                                   *)

\* A call under way has a number that no other call has.
LEMMA OwnNumber ==
  ASSUME NumbersDiffer, NEW c \in Callers, NEW d \in Callers, c # d, pc[c] # "idle"
  PROVE  sn[c] # 0 /\ sn[c] # sn[d]
  BY DEF NumbersDiffer

LEMMA Widen ==
  ASSUME NEW A, NEW B, A \subseteq B, NEW s \in Seq(A)
  PROVE  s \in Seq(B)
  OBVIOUS

LEMMA NoLines ==
  ASSUME NEW A PROVE <<>> \in Seq(A)
  OBVIOUS

LEMMA WaitingLines ==
  ASSUME LinesArePossible, NEW c \in Callers, Possible(c) \subseteq Possible(c)'
  PROVE  buffer[c] \in Seq(Possible(c)') /\ inbound[c] \in Seq(Possible(c)')
  BY Widen DEF LinesArePossible

\* Possible lines stay possible while no frame is forgotten and a frame that
\* nobody had remains so.
LEMMA StillPossible ==
  ASSUME NEW c \in Callers,
         \A s \in Sns : received[s] # 0 => received'[s] # 0,
         NobodyHad(c) => NobodyHad(c)'
  PROVE  Possible(c) \subseteq Possible(c)'
  BY DEF Possible

-----------------------------------------------------------------------------
(* The end of a call.                                                      *)

LEMMA LeaveKeepsCalls ==
  ASSUME RelayInv, NEW c \in Callers, NEW how \in Outcomes,
         Leave(c, how), pc[c] # "idle",
         how = "reply" => received[sn[c]] = 1,
         how = "undelivered" => NobodyHad(c)
  PROVE  CallsOK'
<1> USE DEF RelayInv, CallsOK, FramesOK
<1>0. /\ \A d \in Callers : d # c =>
           /\ pc'[d] = pc[d] /\ outcome'[d] = outcome[d] /\ buffer'[d] = buffer[d]
           /\ inbound'[d] = inbound[d] /\ outbound'[d] = outbound[d] /\ peer'[d] = peer[d]
      /\ pc'[c] = "idle" /\ outcome'[c] = how /\ buffer'[c] = <<>> /\ inbound'[c] = <<>>
      /\ outbound'[c] = <<>>
      /\ UNCHANGED <<sn, lastSn, atDevice, received>>
  BY DEF Leave, TypeOK, device
<1>1. /\ outbound[c] = <<>> => stray' = stray
      /\ stray' \subseteq stray \cup {sn[c]}
  <2>1. outbound[c] \in {<<>>, <<Subscribe>>, <<sn[c]>>, <<Subscribe, sn[c]>>}
    BY DEF Unread, TypeOK, Steps
  <2>2. ToSet(outbound[c]) \subseteq {Subscribe, sn[c]}
    BY <2>1 DEF ToSet
  <2>3. outbound[c] = <<>> => ToSet(outbound[c]) = {}
    BY DEF ToSet
  <2> QED
    BY <2>2, <2>3 DEF Leave
<1>2. sn[c] \in Sns
  BY FrameInUse
<1>3. \A s \in Sns : Blank(s) /\ (s # sn[c] \/ outbound[c] = <<>>) => Blank(s)'
  BY <1>0, <1>1 DEF Blank
<1>4. \A d \in Callers : d # c => sn[d] # sn[c]
  BY OwnNumber
<1>5. NumbersDiffer'
  BY <1>0 DEF NumbersDiffer
<1>6. FutureIsBlank'
  BY <1>0, <1>2, <1>3, BoundsAssumption DEF FutureIsBlank, NumbersDiffer, TypeOK, Sns
<1>7. Unread'
  BY <1>0 DEF Unread
<1>8. UnreadIsBlank'
  <2> SUFFICES ASSUME NEW d \in Callers,
                      pc'[d] \in {"connect", "subscribe", "publish"} \/ outbound'[d] # <<>>
               PROVE  Blank(sn[d])'
    BY <1>0 DEF UnreadIsBlank
  <2>1. d # c
    BY <1>0
  <2>2. pc[d] # "idle" /\ Blank(sn[d])
    BY <1>0, <2>1 DEF UnreadIsBlank, Unread
  <2>3. sn[d] \in Sns
    BY <2>2, FrameInUse
  <2> QED
    BY <1>0, <1>3, <1>4, <2>1, <2>2, <2>3 DEF Blank
<1>9. OnePlace'
  <2>1. \A s \in Sns : s \in stray' \ stray => Blank(s)
    BY <1>1 DEF UnreadIsBlank
  <2> QED
    BY <1>0, <1>1, <2>1 DEF OnePlace, Blank
<1>10. LinesArePossible'
  <2> SUFFICES ASSUME NEW d \in Callers
               PROVE  buffer'[d] \in Seq(Possible(d)') /\ inbound'[d] \in Seq(Possible(d)')
    BY DEF LinesArePossible
  <2>1. CASE d = c
    BY <1>0, <2>1, NoLines
  <2>2. CASE d # c
    <3>1. NobodyHad(d) => NobodyHad(d)'
      BY <1>0, <1>3, <1>4, <2>2, FrameInUse DEF NobodyHad, Blank
    <3>2. Possible(d) \subseteq Possible(d)'
      BY <1>0, <3>1, StillPossible
    <3> QED
      BY <1>0, <2>2, <3>2, WaitingLines
  <2> QED
    BY <2>1, <2>2
<1>11. OutcomesHold'
  <2> SUFFICES ASSUME NEW d \in Callers
               PROVE  /\ outcome'[d] # "none" => pc'[d] = "idle" /\ sn[d] # 0
                      /\ outcome'[d] = "reply" => received[sn[d]] = 1
                      /\ outcome'[d] = "undelivered" => Blank(sn[d])'
    BY <1>0 DEF OutcomesHold
  <2>1. CASE d = c
    BY <1>0, <1>2, <1>3, <2>1 DEF NobodyHad, Blank, Sns
  <2>2. CASE d # c
    <3>1. outcome[d] # "none" => sn[d] \in Sns
      BY BoundsAssumption DEF OutcomesHold, TypeOK, Sns
    <3> QED
      BY <1>0, <1>3, <1>4, <2>2, <3>1 DEF OutcomesHold, Blank
  <2> QED
    BY <2>1, <2>2
<1>12. Routed'
  BY <1>0 DEF Routed, Leave
<1> QED
  BY <1>5, <1>6, <1>7, <1>8, <1>9, <1>10, <1>11, <1>12

-----------------------------------------------------------------------------
(* A call up to its publish.                                               *)

LEMMA BeginKeepsCalls ==
  ASSUME RelayInv, NEW c \in Callers, Begin(c)
  PROVE  CallsOK'
<1> USE DEF RelayInv, CallsOK, FramesOK
<1>0. /\ \A d \in Callers : d # c =>
           /\ pc'[d] = pc[d] /\ outcome'[d] = outcome[d] /\ sn'[d] = sn[d]
      /\ pc[c] = "idle" /\ pc'[c] = "connect" /\ outcome'[c] = "none"
      /\ sn'[c] = lastSn' /\ lastSn' = lastSn + 1 /\ lastSn + 1 \in Sns
      /\ UNCHANGED <<buffer, inbound, outbound, peer, stray, subscribed, atDevice, received>>
  <2>1. lastSn' = lastSn + 1 /\ lastSn + 1 \in Sns
    BY BoundsAssumption DEF Begin, TypeOK, Sns
  <2>2. sn'[c] = lastSn' /\ \A d \in Callers : d # c => sn'[d] = sn[d]
    BY <2>1 DEF Begin, TypeOK
  <2>3. /\ \A d \in Callers : d # c => pc'[d] = pc[d] /\ outcome'[d] = outcome[d]
        /\ pc[c] = "idle" /\ pc'[c] = "connect" /\ outcome'[c] = "none"
    BY DEF Begin, Goto, TypeOK
  <2> QED
    BY <2>1, <2>2, <2>3 DEF Begin, network, device
<1>1. \A s : Blank(s)' <=> Blank(s)
  BY <1>0 DEF Blank
<1>2. NumbersDiffer'
  <2>1. \A d \in Callers : d # c => sn[d] \in Nat /\ sn[d] <= lastSn
    BY DEF NumbersDiffer, TypeOK
  <2>2. lastSn \in Nat /\ lastSn' \in Nat
    BY <1>0 DEF TypeOK
  <2>3. \A d \in Callers : d # c => sn'[d] <= lastSn' /\ sn'[d] # sn'[c]
    BY <1>0, <2>1, <2>2
  <2>4. sn'[c] <= lastSn' /\ sn'[c] # 0
    BY <1>0, <2>2
  <2> QED
    BY <1>0, <2>3, <2>4 DEF NumbersDiffer
<1>3. FutureIsBlank'
  BY <1>0, <1>1, BoundsAssumption DEF FutureIsBlank, TypeOK, Sns
<1>4. outbound[c] = <<>>
  BY <1>0 DEF Unread
<1>5. Unread'
  BY <1>0, <1>4 DEF Unread
<1>6. Blank(sn'[c])
  BY <1>0, BoundsAssumption DEF FutureIsBlank, TypeOK, Sns
<1>7. UnreadIsBlank'
  BY <1>0, <1>1, <1>4, <1>6 DEF UnreadIsBlank, Blank
<1>8. OnePlace'
  BY <1>0 DEF OnePlace
<1>9. LinesArePossible'
  <2> SUFFICES ASSUME NEW d \in Callers
               PROVE  buffer'[d] \in Seq(Possible(d)') /\ inbound'[d] \in Seq(Possible(d)')
    BY DEF LinesArePossible
  <2>1. NobodyHad(d) => NobodyHad(d)'
    BY <1>0 DEF NobodyHad, Blank
  <2>2. Possible(d) \subseteq Possible(d)'
    BY <1>0, <2>1, StillPossible
  <2> QED
    BY <1>0, <2>2, WaitingLines
<1>10. OutcomesHold'
  BY <1>0, <1>1 DEF OutcomesHold, Blank
<1>11. Routed'
  BY <1>0 DEF Routed
<1> QED
  BY <1>2, <1>3, <1>5, <1>7, <1>8, <1>9, <1>10, <1>11

\* Steps that change neither a frame nor a line: only where a caller is before
\* its subscription, its clock, and the network.
LEMMA QuietStep ==
  ASSUME RelayInv,
         UNCHANGED <<sn, lastSn, buffer, inbound, outbound, stray, atDevice, received>>,
         \A c \in Callers : \/ pc'[c] = pc[c] /\ outcome'[c] = outcome[c]
                            \/ pc[c] = "connect" /\ pc'[c] = "subscribe"
                               /\ outcome'[c] = outcome[c]
                            \/ pc[c] = "connect" /\ pc'[c] = "idle"
                               /\ outcome'[c] = "error",
         \A c \in Callers : \/ peer'[c] = "open" => peer[c] = "open" /\ (c \in subscribed => c \in subscribed')
                            \/ pc'[c] = "subscribe"
  PROVE  CallsOK'
<1> USE DEF RelayInv, CallsOK, FramesOK
<1>1. \A s : Blank(s)' <=> Blank(s)
  BY DEF Blank
<1>2. NumbersDiffer'
  BY DEF NumbersDiffer
<1>3. FutureIsBlank'
  BY <1>1 DEF FutureIsBlank
<1>4. Unread'
  BY DEF Unread
<1>5. UnreadIsBlank'
  BY <1>1 DEF UnreadIsBlank, Blank
<1>6. OnePlace'
  BY DEF OnePlace
<1>7. LinesArePossible'
  <2> SUFFICES ASSUME NEW d \in Callers
               PROVE  buffer'[d] \in Seq(Possible(d)') /\ inbound'[d] \in Seq(Possible(d)')
    BY DEF LinesArePossible
  <2>1. NobodyHad(d) => NobodyHad(d)'
    BY DEF NobodyHad, Blank
  <2>2. Possible(d) \subseteq Possible(d)'
    BY <2>1, StillPossible
  <2> QED
    BY <2>2, WaitingLines
<1>8. OutcomesHold'
  BY <1>1 DEF OutcomesHold, Blank, NumbersDiffer
<1>9. Routed'
  BY DEF Routed
<1> QED
  BY <1>2, <1>3, <1>4, <1>5, <1>6, <1>7, <1>8, <1>9

LEMMA AppendToFew ==
  ASSUME NEW a, NEW b
  PROVE  Append(<<>>, b) = <<b>> /\ Append(<<a>>, b) = <<a, b>>
<1> DEFINE E == {a, b}
<1>1. /\ <<>> \in Seq(E) /\ <<a>> \in Seq(E) /\ <<b>> \in Seq(E) /\ <<a, b>> \in Seq(E)
      /\ Append(<<>>, b) \in Seq(E) /\ Append(<<a>>, b) \in Seq(E)
  OBVIOUS
<1>2. /\ Len(Append(<<>>, b)) = 1 /\ Append(<<>>, b)[1] = b
      /\ Len(Append(<<a>>, b)) = 2 /\ Append(<<a>>, b)[1] = a /\ Append(<<a>>, b)[2] = b
  BY <1>1
<1>3. /\ Len(<<b>>) = 1 /\ <<b>>[1] = b
      /\ Len(<<a, b>>) = 2 /\ <<a, b>>[1] = a /\ <<a, b>>[2] = b
  OBVIOUS
<1>4. Append(<<>>, b) = <<b>>
  BY <1>1, <1>2, <1>3, SeqEqual
<1>5. \A i \in 1..2 : i = 1 \/ i = 2
  OBVIOUS
<1>6. \A i \in 1..2 : Append(<<a>>, b)[i] = <<a, b>>[i]
  BY <1>2, <1>3, <1>5
<1>7. Append(<<a>>, b) = <<a, b>>
  BY <1>1, <1>2, <1>3, <1>6, SeqEqual
<1> QED
  BY <1>4, <1>7

LEMMA FirstOfFew ==
  ASSUME NEW a, NEW b
  PROVE  /\ Head(<<a>>) = a /\ Tail(<<a>>) = <<>>
         /\ Head(<<a, b>>) = a /\ Tail(<<a, b>>) = <<b>>
  OBVIOUS

LEMMA SendKeepsCalls ==
  ASSUME RelayInv, NEW c \in Callers, SendSubscribe(c) \/ SendPublish(c)
  PROVE  CallsOK'
<1> USE DEF RelayInv, CallsOK, FramesOK
<1>1. CASE Leave(c, "error") /\ pc[c] # "idle"
  BY <1>1, LeaveKeepsCalls DEF Outcomes
<1>2. ASSUME NEW from, NEW line, NEW to,
             \/ from = "subscribe" /\ line = Subscribe /\ to = "publish"
             \/ from = "publish" /\ line = sn[c] /\ to = "await",
             Goto(c, from, to),
             outbound' = [outbound EXCEPT ![c] = Append(@, line)],
             UNCHANGED <<sn, expired, outcome, lastSn, buffer, inbound, peer, stray,
                         subscribed, device>>
      PROVE  CallsOK'
  <2>0. /\ \A d \in Callers : d # c => pc'[d] = pc[d] /\ outbound'[d] = outbound[d]
        /\ pc[c] = from /\ pc'[c] = to /\ outbound'[c] = Append(outbound[c], line)
        /\ UNCHANGED <<sn, lastSn, outcome, buffer, inbound, peer, stray, subscribed,
                       atDevice, received>>
    BY <1>2 DEF Goto, TypeOK, device
  <2>1. \A s : Blank(s)' <=> Blank(s)
    BY <2>0 DEF Blank
  <2>2. sn[c] \in Sns /\ Subscribe # sn[c]
    BY <1>2, <2>0, FrameInUse, LinesAssumption DEF Sns
  <2>3. \/ pc[c] = "subscribe" /\ pc'[c] = "publish" /\ outbound'[c] = <<Subscribe>>
        \/ pc[c] = "publish" /\ pc'[c] = "await" /\ outbound[c] = <<>>
           /\ outbound'[c] = <<sn[c]>>
        \/ pc[c] = "publish" /\ pc'[c] = "await" /\ outbound[c] = <<Subscribe>>
           /\ outbound'[c] = <<Subscribe, sn[c]>>
    <3>1. /\ Append(<<>>, line) = <<line>>
          /\ Append(<<Subscribe>>, line) = <<Subscribe, line>>
      BY AppendToFew
    <3>2. CASE from = "subscribe" /\ line = Subscribe /\ to = "publish"
      BY <2>0, <3>1, <3>2 DEF Unread
    <3>3. CASE from = "publish" /\ line = sn[c] /\ to = "await"
      <4>1. outbound[c] \in {<<>>, <<Subscribe>>}
        BY <2>0, <3>3 DEF Unread
      <4> QED
        BY <2>0, <3>1, <3>3, <4>1
    <3> QED
      BY <1>2, <3>2, <3>3
  <2>4. NumbersDiffer' /\ FutureIsBlank' /\ OnePlace'
    BY <1>2, <2>0, <2>1 DEF NumbersDiffer, FutureIsBlank, OnePlace
  <2>5. Unread'
    BY <2>0, <2>3 DEF Unread
  <2>6. UnreadIsBlank'
    BY <2>0, <2>1, <2>3 DEF UnreadIsBlank, Blank
  <2>7. LinesArePossible'
    <3> SUFFICES ASSUME NEW d \in Callers
                 PROVE  buffer'[d] \in Seq(Possible(d)') /\ inbound'[d] \in Seq(Possible(d)')
      BY DEF LinesArePossible
    <3>1. NobodyHad(d) => NobodyHad(d)'
      BY <2>0, <2>3 DEF NobodyHad, Blank
    <3>2. Possible(d) \subseteq Possible(d)'
      BY <2>0, <3>1, StillPossible
    <3> QED
      BY <2>0, <3>2, WaitingLines
  <2>8. OutcomesHold'
    BY <2>0, <2>1, <2>3 DEF OutcomesHold, Blank
  <2>9. Routed'
    <3> SUFFICES ASSUME NEW d \in Callers, pc'[d] \in {"publish", "await"},
                        peer[d] = "open", outbound'[d] \in {<<>>, <<sn[d]>>}
                 PROVE  d \in subscribed
      BY <2>0 DEF Routed
    <3>1. CASE d # c
      BY <2>0, <3>1 DEF Routed
    <3>2. CASE d = c
      <4>1. <<Subscribe>> # <<sn[c]>> /\ <<Subscribe, sn[c]>> # <<sn[c]>>
            /\ <<Subscribe>> # <<>> /\ <<Subscribe, sn[c]>> # <<>>
        BY <2>2
      <4>2. pc[c] = "publish" /\ outbound[c] = <<>>
        BY <2>3, <3>2, <4>1
      <4> QED
        BY <3>2, <4>2 DEF Routed
    <3> QED
      BY <3>1, <3>2
  <2> QED
    BY <2>4, <2>5, <2>6, <2>7, <2>8, <2>9
<1> QED
  BY <1>1, <1>2 DEF SendSubscribe, SendPublish, Send

-----------------------------------------------------------------------------
(* A call that waits.                                                      *)

LEMMA RecvKeepsCalls ==
  ASSUME RelayInv, NEW c \in Callers, Recv(c)
  PROVE  CallsOK'
<1> USE DEF RelayInv, CallsOK, FramesOK
<1>0. UNCHANGED <<pc, sn, outcome, lastSn, outbound, peer, stray, subscribed, atDevice, received>>
  BY DEF Recv, call, device
<1>1. \A s : Blank(s)' <=> Blank(s)
  BY <1>0 DEF Blank
<1>2. NumbersDiffer' /\ FutureIsBlank' /\ Unread' /\ OnePlace'
  BY <1>0, <1>1 DEF NumbersDiffer, FutureIsBlank, Unread, OnePlace
<1>3. UnreadIsBlank' /\ OutcomesHold' /\ Routed'
  BY <1>0, <1>1 DEF UnreadIsBlank, OutcomesHold, Routed, Blank
<1>4. \A d \in Callers : Possible(d)' = Possible(d)
  BY <1>0, <1>1 DEF Possible, NobodyHad, Blank
<1>5. PICK n \in 1..Len(inbound[c]) :
        /\ buffer' = [buffer EXCEPT ![c] = SubSeq(inbound[c], 1, n)]
        /\ inbound' = [inbound EXCEPT ![c] = SubSeq(inbound[c], n + 1, Len(inbound[c]))]
  BY DEF Recv
<1>6. ASSUME NEW d \in Callers
      PROVE  buffer'[d] \in Seq(Possible(d)) /\ inbound'[d] \in Seq(Possible(d))
  <2>1. CASE d = c
    <3>1. inbound[c] \in Seq(Possible(c))
      BY DEF LinesArePossible
    <3>2. buffer'[c] = SubSeq(inbound[c], 1, n)
          /\ inbound'[c] = SubSeq(inbound[c], n + 1, Len(inbound[c]))
      BY <1>5 DEF TypeOK
    <3> QED
      BY <2>1, <3>1, <3>2, SplitType
  <2>2. CASE d # c
    BY <1>5, <2>2 DEF LinesArePossible, TypeOK
  <2> QED
    BY <2>1, <2>2
<1>7. LinesArePossible'
  BY <1>4, <1>6 DEF LinesArePossible
<1> QED
  BY <1>2, <1>3, <1>7

LEMMA TakeKeepsCalls ==
  ASSUME RelayInv, NEW c \in Callers, Take(c)
  PROVE  CallsOK'
<1> USE DEF RelayInv, CallsOK, FramesOK
<1> DEFINE line == Head(buffer[c])
<1>1. pc[c] = "await" /\ sn[c] \in Sns
  BY FrameInUse DEF Take
<1>2. buffer[c] \in Seq(Possible(c)) /\ buffer[c] # <<>>
  BY DEF LinesArePossible, Take
<1>3. line \in Possible(c) /\ Tail(buffer[c]) \in Seq(Possible(c))
  BY <1>2
<1>4. CASE IsUndeliveredAck(line) /\ Leave(c, "undelivered")
  <2>1. line = Undelivered /\ Undelivered # Noise /\ Undelivered \notin Sns
    BY <1>4, LinesAssumption DEF IsUndeliveredAck, Sns
  <2>2. NobodyHad(c)
    BY <1>3, <2>1 DEF Possible
  <2> QED
    BY <1>1, <1>4, <2>2, LeaveKeepsCalls DEF Outcomes
<1>5. CASE IsAnswer(c, line) /\ Leave(c, "reply")
  <2>1. line = sn[c] /\ Undelivered \notin Sns /\ Noise \notin Sns
    BY <1>5, LinesAssumption DEF IsAnswer, Sns
  <2>2. received[sn[c]] # 0
    BY <1>1, <1>3, <2>1 DEF Possible
  <2>3. received[sn[c]] = 1
    BY <1>1, <2>2 DEF OnePlace, TypeOK
  <2> QED
    BY <1>1, <1>5, <2>3, LeaveKeepsCalls DEF Outcomes
<1>6. CASE buffer' = [buffer EXCEPT ![c] = Tail(@)] /\ UNCHANGED <<call, network, device>>
  <2>0. UNCHANGED <<pc, sn, outcome, lastSn, inbound, outbound, peer, stray, subscribed,
                    atDevice, received>>
    BY <1>6 DEF call, network, device
  <2>1. \A s : Blank(s)' <=> Blank(s)
    BY <2>0 DEF Blank
  <2>2. NumbersDiffer' /\ FutureIsBlank' /\ Unread' /\ OnePlace'
    BY <2>0, <2>1 DEF NumbersDiffer, FutureIsBlank, Unread, OnePlace
  <2>3. UnreadIsBlank' /\ OutcomesHold' /\ Routed'
    BY <2>0, <2>1 DEF UnreadIsBlank, OutcomesHold, Routed, Blank
  <2>4. \A d \in Callers : Possible(d)' = Possible(d)
    BY <2>0, <2>1 DEF Possible, NobodyHad, Blank
  <2>5. \A d \in Callers : buffer'[d] \in Seq(Possible(d)) /\ inbound'[d] \in Seq(Possible(d))
    BY <1>3, <1>6, <2>0 DEF LinesArePossible, TypeOK
  <2>6. LinesArePossible'
    BY <2>4, <2>5 DEF LinesArePossible
  <2> QED
    BY <2>2, <2>3, <2>6
<1> QED
  BY <1>4, <1>5, <1>6 DEF Take

-----------------------------------------------------------------------------
(* The relay and the device.                                               *)

LEMMA NoiseKeepsCalls ==
  ASSUME RelayInv, NEW c \in Callers, RelaySendsNoise(c)
  PROVE  CallsOK'
<1> USE DEF RelayInv, CallsOK, FramesOK
<1>0. UNCHANGED <<pc, sn, outcome, lastSn, buffer, outbound, peer, stray, subscribed,
                  atDevice, received>>
  BY DEF RelaySendsNoise, call, device
<1>1. \A s : Blank(s)' <=> Blank(s)
  BY <1>0 DEF Blank
<1>2. NumbersDiffer' /\ FutureIsBlank' /\ Unread' /\ OnePlace'
  BY <1>0, <1>1 DEF NumbersDiffer, FutureIsBlank, Unread, OnePlace
<1>3. UnreadIsBlank' /\ OutcomesHold' /\ Routed'
  BY <1>0, <1>1 DEF UnreadIsBlank, OutcomesHold, Routed, Blank
<1>4. \A d \in Callers : Possible(d)' = Possible(d)
  BY <1>0, <1>1 DEF Possible, NobodyHad, Blank
<1>5. Append(inbound[c], Noise) \in Seq(Possible(c))
  <2>1. inbound[c] \in Seq(Possible(c)) /\ Noise \in Possible(c)
    BY DEF LinesArePossible, Possible
  <2> QED
    BY <2>1
<1>6. \A d \in Callers : buffer'[d] \in Seq(Possible(d)) /\ inbound'[d] \in Seq(Possible(d))
  BY <1>0, <1>5 DEF RelaySendsNoise, LinesArePossible, TypeOK
<1>7. LinesArePossible'
  BY <1>4, <1>6 DEF LinesArePossible
<1> QED
  BY <1>2, <1>3, <1>7

\* The relay takes a subscription, or a frame: then it is with the device, or
\* the receipt for reaching nobody is on its way.
LEMMA RelayReadsKeepsCalls ==
  ASSUME RelayInv, NEW c \in Callers, RelayReads(c)
  PROVE  CallsOK'
<1> USE DEF RelayInv, CallsOK, FramesOK
<1>0. /\ UNCHANGED <<pc, sn, outcome, lastSn, buffer, peer, stray, online, received>>
      /\ \A d \in Callers : d # c => outbound'[d] = outbound[d]
      /\ outbound'[c] = Tail(outbound[c])
      /\ peer[c] = "open"
  BY DEF RelayReads, TypeOK, call
<1>1. sn[c] \in Sns /\ sn[c] # Subscribe
  <2>1. pc[c] # "idle"
    BY DEF RelayReads, TypeOK
  <2> QED
    BY <2>1, FrameInUse, LinesAssumption DEF Sns
<1>2. /\ pc[c] \in {"publish", "await"} /\ Blank(sn[c])
      /\ \/ outbound[c] = <<Subscribe>> /\ pc[c] = "publish"
         \/ outbound[c] = <<Subscribe, sn[c]>> /\ pc[c] = "await"
         \/ outbound[c] = <<sn[c]>> /\ pc[c] = "await"
  BY DEF RelayReads, Unread, UnreadIsBlank, TypeOK, Steps
<1>3. CASE outbound[c] \in {<<Subscribe>>, <<Subscribe, sn[c]>>}
  <2>1. /\ Head(outbound[c]) = Subscribe
        /\ outbound[c] = <<Subscribe>> => outbound'[c] = <<>>
        /\ outbound[c] = <<Subscribe, sn[c]>> => outbound'[c] = <<sn[c]>>
    <3>1. CASE outbound[c] = <<Subscribe>>
      <4>1. <<Subscribe>> # <<Subscribe, sn[c]>>
        OBVIOUS
      <4> QED
        BY <1>0, <3>1, <4>1, FirstOfFew
    <3>2. CASE outbound[c] = <<Subscribe, sn[c]>>
      <4>1. <<Subscribe>> # <<Subscribe, sn[c]>>
        OBVIOUS
      <4> QED
        BY <1>0, <3>2, <4>1, FirstOfFew
    <3> QED
      BY <1>3, <3>1, <3>2
  <2>2. subscribed' = subscribed \cup {c} /\ UNCHANGED <<inbound, atDevice>>
    BY <2>1 DEF RelayReads
  <2>3. \A s : Blank(s)' <=> Blank(s)
    BY <1>0, <2>2 DEF Blank
  <2>4. NumbersDiffer' /\ FutureIsBlank' /\ OnePlace'
    BY <1>0, <2>2, <2>3 DEF NumbersDiffer, FutureIsBlank, OnePlace
  <2>5. \/ pc[c] = "publish" /\ outbound'[c] = <<>>
        \/ pc[c] = "await" /\ outbound'[c] = <<sn[c]>>
    <3>1. <<Subscribe>> # <<sn[c]>> /\ <<Subscribe, sn[c]>> # <<sn[c]>>
      BY <1>1
    <3> QED
      BY <1>2, <1>3, <2>1, <3>1
  <2>6. Unread'
    BY <1>0, <2>5 DEF Unread
  <2>7. UnreadIsBlank'
    BY <1>0, <1>2, <2>2, <2>3 DEF UnreadIsBlank, Blank
  <2>8. LinesArePossible'
    <3> SUFFICES ASSUME NEW d \in Callers
                 PROVE  buffer'[d] \in Seq(Possible(d)') /\ inbound'[d] \in Seq(Possible(d)')
      BY DEF LinesArePossible
    <3>1. NobodyHad(d) => NobodyHad(d)'
      BY <1>0, <1>3, <2>2 DEF NobodyHad, Blank
    <3>2. Possible(d) \subseteq Possible(d)'
      BY <1>0, <3>1, StillPossible
    <3> QED
      BY <1>0, <2>2, <3>2, WaitingLines
  <2>9. OutcomesHold'
    BY <1>0, <2>2, <2>3 DEF OutcomesHold, Blank
  <2>10. Routed'
    BY <1>0, <2>2 DEF Routed, TypeOK
  <2> QED
    BY <2>4, <2>6, <2>7, <2>8, <2>9, <2>10
<1>4. CASE outbound[c] = <<sn[c]>>
  <2>1. Head(outbound[c]) = sn[c] /\ outbound'[c] = <<>>
    BY <1>0, <1>4
  <2>2. /\ pc[c] = "await" /\ c \in subscribed /\ subscribed' = subscribed
        /\ atDevice' = IF online THEN atDevice \cup {sn[c]} ELSE atDevice
        /\ inbound' = [inbound EXCEPT ![c] =
                         Append(inbound[c], IF online THEN Noise ELSE Undelivered)]
    <3>1. pc[c] = "await"
      <4>1. <<Subscribe>> # <<sn[c]>>
        BY <1>1
      <4> QED
        BY <1>2, <1>4, <4>1
    <3>2. c \in subscribed
      BY <1>0, <1>4, <3>1 DEF Routed
    <3> QED
      BY <1>1, <2>1, <3>1, <3>2 DEF RelayReads, Relayed
  <2>3. \A s : Blank(s) /\ (s # sn[c] \/ ~online) => Blank(s)'
    BY <1>0, <2>2 DEF Blank
  <2>4. \A d \in Callers : d # c => sn[d] # sn[c]
    BY <2>2, OwnNumber
  <2>5. NumbersDiffer'
    BY <1>0 DEF NumbersDiffer
  <2>6. FutureIsBlank'
    BY <1>0, <1>1, <2>3, BoundsAssumption DEF FutureIsBlank, NumbersDiffer, TypeOK, Sns
  <2>7. Unread'
    BY <1>0, <2>1 DEF Unread
  <2>8. UnreadIsBlank'
    BY <1>0, <2>1, <2>2, <2>3, <2>4 DEF UnreadIsBlank, Blank
  <2>9. OnePlace'
    BY <1>0, <1>2, <2>2 DEF OnePlace, Blank
  <2>10. LinesArePossible'
    <3> SUFFICES ASSUME NEW d \in Callers
                 PROVE  buffer'[d] \in Seq(Possible(d)') /\ inbound'[d] \in Seq(Possible(d)')
      BY DEF LinesArePossible
    <3>1. NobodyHad(d) => NobodyHad(d)'
      <4>1. NobodyHad(d) => d # c
        <5>1. <<sn[c]>> # <<>>
          OBVIOUS
        <5> QED
          BY <1>4, <5>1 DEF NobodyHad
      <4> QED
        BY <1>0, <2>3, <2>4, <4>1 DEF NobodyHad, Blank
    <3>2. Possible(d) \subseteq Possible(d)'
      BY <1>0, <3>1, StillPossible
    <3>3. buffer[d] \in Seq(Possible(d)') /\ inbound[d] \in Seq(Possible(d)')
      BY <3>2, WaitingLines
    <3>4. CASE d # c
      BY <1>0, <2>2, <3>3, <3>4 DEF TypeOK
    <3>5. CASE d = c
      <4>1. ~online => NobodyHad(c)'
        BY <1>0, <1>2, <2>1, <2>2, <2>3 DEF NobodyHad, Blank
      <4>2. (IF online THEN Noise ELSE Undelivered) \in Possible(c)'
        BY <4>1 DEF Possible
      <4>3. Append(inbound[c], IF online THEN Noise ELSE Undelivered) \in Seq(Possible(c)')
        BY <3>3, <3>5, <4>2
      <4> QED
        BY <1>0, <2>2, <3>3, <3>5, <4>3 DEF TypeOK
    <3> QED
      BY <3>4, <3>5
  <2>11. OutcomesHold'
    <3>1. \A d \in Callers : outcome[d] # "none" => d # c
      BY <2>2 DEF OutcomesHold
    <3> QED
      BY <1>0, <2>3, <2>4, <3>1 DEF OutcomesHold, Blank
  <2>12. Routed'
    BY <1>0, <2>2 DEF Routed
  <2> QED
    BY <2>5, <2>6, <2>7, <2>8, <2>9, <2>10, <2>11, <2>12
<1> QED
  BY <1>2, <1>3, <1>4

LEMMA StrayKeepsCalls ==
  ASSUME RelayInv, NEW s \in Sns, RelayReadsStray(s)
  PROVE  CallsOK'
<1> USE DEF RelayInv, CallsOK, FramesOK
<1>0. /\ s \in stray /\ stray' = stray \ {s}
      /\ atDevice' \in {atDevice, atDevice \cup {s}}
      /\ UNCHANGED <<pc, sn, outcome, lastSn, buffer, inbound, outbound, peer, subscribed,
                     received>>
  BY DEF RelayReadsStray, Relayed, call
<1>1. \A t : Blank(t) => Blank(t)'
  BY <1>0 DEF Blank
<1>2. NumbersDiffer' /\ FutureIsBlank' /\ Unread'
  BY <1>0, <1>1 DEF NumbersDiffer, FutureIsBlank, Unread
<1>3. UnreadIsBlank' /\ OutcomesHold' /\ Routed'
  BY <1>0, <1>1 DEF UnreadIsBlank, OutcomesHold, Routed, Blank
<1>4. OnePlace'
  BY <1>0 DEF OnePlace
<1>5. LinesArePossible'
  <2> SUFFICES ASSUME NEW d \in Callers
               PROVE  buffer'[d] \in Seq(Possible(d)') /\ inbound'[d] \in Seq(Possible(d)')
    BY DEF LinesArePossible
  <2>1. NobodyHad(d) => NobodyHad(d)'
    BY <1>0, <1>1 DEF NobodyHad, Blank
  <2>2. Possible(d) \subseteq Possible(d)'
    BY <1>0, <2>1, StillPossible
  <2> QED
    BY <1>0, <2>2, WaitingLines
<1> QED
  BY <1>2, <1>3, <1>4, <1>5

LEMMA DeviceKeepsCalls ==
  ASSUME RelayInv, NEW s \in Sns, DeviceReceives(s)
  PROVE  CallsOK'
<1> USE DEF RelayInv, CallsOK, FramesOK
<1>0. /\ s \in atDevice /\ atDevice' = atDevice \ {s}
      /\ received[s] = 0 /\ received'[s] = 1
      /\ \A t \in Sns : t # s => received'[t] = received[t]
      /\ UNCHANGED <<pc, sn, outcome, lastSn, buffer, outbound, peer, stray, subscribed>>
  BY DEF DeviceReceives, OnePlace, TypeOK, call
<1>1. \A t \in Sns : Blank(t) => Blank(t)'
  BY <1>0 DEF Blank
<1>2. \A d \in Callers : sn[d] # 0 => sn[d] \in Sns
  BY BoundsAssumption DEF TypeOK, Sns
<1>3. NumbersDiffer' /\ Unread' /\ Routed'
  BY <1>0 DEF NumbersDiffer, Unread, Routed
<1>4. FutureIsBlank'
  BY <1>0, <1>1 DEF FutureIsBlank
<1>5. UnreadIsBlank'
  <2> SUFFICES ASSUME NEW d \in Callers,
                      pc[d] \in {"connect", "subscribe", "publish"} \/ outbound[d] # <<>>
               PROVE  Blank(sn[d])'
    BY <1>0 DEF UnreadIsBlank, Blank
  <2>1. pc[d] # "idle" /\ Blank(sn[d])
    BY DEF UnreadIsBlank, Unread
  <2> QED
    BY <1>0, <1>1, <1>2, <2>1 DEF NumbersDiffer, Blank
<1>6. OnePlace'
  BY <1>0 DEF OnePlace
<1>7. LinesArePossible'
  <2> SUFFICES ASSUME NEW d \in Callers
               PROVE  buffer'[d] \in Seq(Possible(d)') /\ inbound'[d] \in Seq(Possible(d)')
    BY DEF LinesArePossible
  <2>1. NobodyHad(d) => NobodyHad(d)'
    BY <1>0, <1>1, FrameInUse DEF NobodyHad, Blank
  <2>2. \A t \in Sns : received[t] # 0 => received'[t] # 0
    BY <1>0
  <2>3. Possible(d) \subseteq Possible(d)'
    BY <2>1, <2>2, StillPossible
  <2>4. buffer[d] \in Seq(Possible(d)') /\ inbound[d] \in Seq(Possible(d)')
    BY <2>3, WaitingLines
  <2>5. s \in Possible(d)'
    BY <1>0 DEF Possible
  <2>6. Append(inbound[d], s) \in Seq(Possible(d)')
    BY <2>4, <2>5
  <2>7. inbound'[d] \in {inbound[d], Append(inbound[d], s)}
    BY DEF DeviceReceives
  <2> QED
    BY <1>0, <2>4, <2>6, <2>7
<1>8. OutcomesHold'
  <2> SUFFICES ASSUME NEW d \in Callers
               PROVE  /\ outcome[d] # "none" => pc[d] = "idle" /\ sn[d] # 0
                      /\ outcome[d] = "reply" => received'[sn[d]] = 1
                      /\ outcome[d] = "undelivered" => Blank(sn[d])'
    BY <1>0 DEF OutcomesHold, Blank
  <2> QED
    BY <1>0, <1>1, <1>2 DEF OutcomesHold, Blank
<1> QED
  BY <1>3, <1>4, <1>5, <1>6, <1>7, <1>8

\* The device comes or goes: frames on their way to it are lost.
LEMMA OnlineKeepsCalls ==
  ASSUME RelayInv, OnlineChanges
  PROVE  CallsOK'
<1> USE DEF RelayInv, CallsOK, FramesOK
<1>0. /\ atDevice' = {}
      /\ UNCHANGED <<pc, sn, outcome, lastSn, buffer, inbound, outbound, peer, stray,
                     subscribed, received>>
  BY DEF OnlineChanges, call, network
<1>1. \A t : Blank(t) => Blank(t)'
  BY <1>0 DEF Blank
<1>2. NumbersDiffer' /\ FutureIsBlank' /\ Unread' /\ OnePlace'
  BY <1>0, <1>1 DEF NumbersDiffer, FutureIsBlank, Unread, OnePlace
<1>3. UnreadIsBlank' /\ OutcomesHold' /\ Routed'
  BY <1>0, <1>1 DEF UnreadIsBlank, OutcomesHold, Routed, Blank
<1>4. LinesArePossible'
  <2> SUFFICES ASSUME NEW d \in Callers
               PROVE  buffer'[d] \in Seq(Possible(d)') /\ inbound'[d] \in Seq(Possible(d)')
    BY DEF LinesArePossible
  <2>1. NobodyHad(d) => NobodyHad(d)'
    BY <1>0, <1>1 DEF NobodyHad, Blank
  <2>2. Possible(d) \subseteq Possible(d)'
    BY <1>0, <2>1, StillPossible
  <2> QED
    BY <1>0, <2>2, WaitingLines
<1> QED
  BY <1>2, <1>3, <1>4

-----------------------------------------------------------------------------
(* The invariant.                                                          *)

LEMMA NextRelayInv == RelayInv /\ [Next]_vars => RelayInv'
<1> SUFFICES ASSUME RelayInv, [Next]_vars PROVE RelayInv'
  OBVIOUS
<1>1. TypeOK'
  BY NextTypes DEF RelayInv, CallsOK, FramesOK
<1>2. CallsOK'
  <2>1. ASSUME NEW c \in Callers, Begin(c) PROVE CallsOK'
    BY <2>1, BeginKeepsCalls
  <2>2. ASSUME NEW c \in Callers, Expire(c) PROVE CallsOK'
    BY <2>2, QuietStep DEF Expire, network, device
  <2>3. ASSUME NEW c \in Callers, Connect(c) PROVE CallsOK'
    <3>1. \A d \in Callers : \/ d # c /\ pc'[d] = pc[d] /\ peer'[d] = peer[d]
                             \/ d = c /\ pc[d] = "connect" /\ pc'[d] = "subscribe"
      BY <2>3 DEF Connect, Goto, RelayInv, TypeOK
    <3> QED
      BY <2>3, <3>1, QuietStep DEF Connect, device
  <2>4. ASSUME NEW c \in Callers, ConnectFails(c) PROVE CallsOK'
    <3>1. \A d \in Callers :
            \/ d # c /\ pc'[d] = pc[d] /\ outcome'[d] = outcome[d]
            \/ d = c /\ pc[d] = "connect" /\ pc'[d] = "idle" /\ outcome'[d] = "error"
      BY <2>4 DEF ConnectFails, Goto, RelayInv, TypeOK
    <3> QED
      BY <2>4, <3>1, QuietStep DEF ConnectFails, network, device
  <2>5. ASSUME NEW c \in Callers, SendSubscribe(c) \/ SendPublish(c) PROVE CallsOK'
    BY <2>5, SendKeepsCalls
  <2>6. ASSUME NEW c \in Callers, Recv(c) PROVE CallsOK'
    BY <2>6, RecvKeepsCalls
  <2>7. ASSUME NEW c \in Callers, Take(c) PROVE CallsOK'
    BY <2>7, TakeKeepsCalls
  <2>8. ASSUME NEW c \in Callers, GivesUp(c) PROVE CallsOK'
    BY <2>8, LeaveKeepsCalls DEF GivesUp, Outcomes
  <2>9. ASSUME NEW c \in Callers, RelayReads(c) PROVE CallsOK'
    BY <2>9, RelayReadsKeepsCalls
  <2>10. ASSUME NEW c \in Callers, RelaySendsNoise(c) PROVE CallsOK'
    BY <2>10, NoiseKeepsCalls
  <2>11. ASSUME NEW c \in Callers, RelayEnds(c) PROVE CallsOK'
    <3>1. \A d \in Callers : peer'[d] = "open" => d # c /\ peer[d] = "open"
      BY <2>11 DEF RelayEnds, RelayInv, TypeOK
    <3> QED
      BY <2>11, <3>1, QuietStep DEF RelayEnds, call, device
  <2>12. ASSUME NEW s \in Sns, RelayReadsStray(s) PROVE CallsOK'
    BY <2>12, StrayKeepsCalls
  <2>13. ASSUME NEW s \in Sns, DeviceReceives(s) PROVE CallsOK'
    BY <2>13, DeviceKeepsCalls
  <2>14. CASE AcceptingChanges
    BY <2>14, QuietStep DEF AcceptingChanges, call, network
  <2>15. CASE OnlineChanges
    BY <2>15, OnlineKeepsCalls
  <2>16. CASE UNCHANGED vars
    BY <2>16, QuietStep DEF vars, call, network, device
  <2> QED
    BY <2>1, <2>2, <2>3, <2>4, <2>5, <2>6, <2>7, <2>8, <2>9, <2>10, <2>11, <2>12, <2>13,
       <2>14, <2>15, <2>16
    DEF Next, Progress
<1> QED
  BY <1>1, <1>2 DEF RelayInv

LEMMA RelayInvariant == Spec => []RelayInv
  BY InitRelayInv, NextRelayInv, PTL DEF Spec

-----------------------------------------------------------------------------
(* Theorems.                                                               *)

\* The state of cloud.py's _exchange, of its connections, and of the relay and
\* the device it assumes, is well typed whatever the callers do.
THEOREM RelayTypes == Spec => []TypeOK
  BY RelayInvariant, PTL DEF RelayInv

\* The device receives a frame at most once.
FrameReceivedAtMostOnce == \A s \in Sns : received[s] <= 1

\* Whoever is answered has been obeyed.
AnswerIsOwn ==
  \A c \in Callers : outcome[c] = "reply" => received[sn[c]] = 1

\* _exchange publishes a frame once and never again, so however many calls run
\* at once, are cut off or are given up, the device receives it at most once.
THEOREM ReceivedOnce == Spec => []FrameReceivedAtMostOnce
<1>1. RelayInv => FrameReceivedAtMostOnce
  BY DEF RelayInv, CallsOK, FramesOK, OnePlace, FrameReceivedAtMostOnce
<1> QED
  BY <1>1, RelayInvariant, PTL

\* _exchange returns a report only when its number is that of the call's own
\* frame: however many callers hear each other's reports, whoever is answered
\* has been obeyed.
THEOREM AnsweredIsReceived == Spec => []AnswerIsOwn
<1>1. RelayInv => AnswerIsOwn
  BY DEF RelayInv, CallsOK, OutcomesHold, AnswerIsOwn
<1> QED
  BY <1>1, RelayInvariant, PTL

\* When _exchange reports num=0, its frame is nowhere: not received, not on its
\* way, and not on a connection that the relay has still to read.
THEOREM UndeliveredIsNowhere == Spec => []UndeliveredMeansNotReceived
<1>1. RelayInv => UndeliveredMeansNotReceived
  <2> SUFFICES ASSUME RelayInv, NEW c \in Callers, outcome[c] = "undelivered"
               PROVE  received[sn[c]] = 0 /\ sn[c] \notin atDevice \cup stray
    BY DEF UndeliveredMeansNotReceived
  <2> QED
    BY DEF RelayInv, CallsOK, OutcomesHold, Blank
<1> QED
  BY <1>1, RelayInvariant, PTL

\* _exchange subscribes before it publishes and the relay reads a connection in
\* order: a frame reaches the device only when its answer has somewhere to go.
THEOREM SubscribedBeforePublished == Spec => []AnswerHasARoute
<1>1. RelayInv => AnswerHasARoute
  <2> SUFFICES ASSUME RelayInv, NEW c \in Callers,
                      pc[c] = "await", peer[c] = "open", sn[c] \in atDevice
               PROVE  c \in subscribed
    BY DEF AnswerHasARoute
  <2>1. outbound[c] = <<>>
    BY DEF RelayInv, CallsOK, FramesOK, UnreadIsBlank, Blank
  <2> QED
    BY <2>1 DEF RelayInv, CallsOK, Routed
<1> QED
  BY <1>1, RelayInvariant, PTL

-----------------------------------------------------------------------------
(* The contract of a transport.                                            *)

Busy == [c \in Callers |-> pc[c] # "idle"]

ContractSame == UNCHANGED <<Busy, sn, outcome, lastSn, received>>

\* A step between the beginning of a call and its end is no step of the contract.
LEMMA OnTheWay ==
  ASSUME TypeOK, NEW c \in Callers, NEW from \in Steps \ {"idle"},
         NEW to \in Steps \ {"idle"}, Goto(c, from, to),
         UNCHANGED <<sn, outcome, lastSn, received>>
  PROVE  ContractSame
  BY DEF TypeOK, Goto, ContractSame, Busy

\* A call ends with what has just become true of its frame.
LEMMA EndsWell ==
  ASSUME RelayInv, RelayInv', NEW c \in Callers, pc[c] # "idle",
         NEW how \in {"reply", "undelivered", "error"},
         pc' = [pc EXCEPT ![c] = "idle"], outcome' = [outcome EXCEPT ![c] = how],
         UNCHANGED <<sn, lastSn, received>>
  PROVE  Contract!End(c, how)
<1>1. outcome'[c] = how /\ sn[c] \in Sns
  BY FrameInUse DEF RelayInv, TypeOK, CallsOK, FramesOK
<1>2. Contract!Holds(how, sn[c])
  BY <1>1 DEF RelayInv, CallsOK, OutcomesHold, Blank, Contract!Holds
<1>3. Busy' = [Busy EXCEPT ![c] = FALSE]
  BY DEF Busy, RelayInv, TypeOK
<1> QED
  BY <1>2, <1>3 DEF Contract!End, Busy

LEMMA BeginBegins ==
  ASSUME RelayInv, NEW c \in Callers, Begin(c)
  PROVE  Contract!Begin(c)
<1>1. lastSn' \in Sns /\ lastSn' > lastSn
  BY BoundsAssumption DEF Begin, RelayInv, TypeOK, Sns
<1>2. Busy' = [Busy EXCEPT ![c] = TRUE]
  BY DEF Begin, Goto, Busy, RelayInv, TypeOK
<1> QED
  BY <1>1, <1>2 DEF Begin, Goto, device, Contract!Begin, Busy

LEMMA ReceivesOnce ==
  ASSUME RelayInv, NEW s \in Sns, DeviceReceives(s)
  PROVE  Contract!Receive(s)
<1>1. s \in atDevice /\ received[s] = 0
  BY DEF DeviceReceives, RelayInv, CallsOK, FramesOK, OnePlace
<1>2. s <= lastSn
  BY <1>1 DEF RelayInv, TypeOK, CallsOK, FramesOK, FutureIsBlank, Blank, Sns
<1>3. \A c \in Callers : outcome[c] = "undelivered" => sn[c] # s
  BY <1>1 DEF RelayInv, CallsOK, OutcomesHold, Blank
<1>4. received' = [received EXCEPT ![s] = 1]
  BY <1>1 DEF DeviceReceives, RelayInv, TypeOK
<1> QED
  BY <1>1, <1>2, <1>3, <1>4 DEF DeviceReceives, call, Contract!Receive

\* cloud.py keeps the contract that fallback.py relies on, for any number of calls
\* at once: it answers with the report of its own frame only, publishes once, and
\* reports num=0 only of a frame that nobody has or will have.
THEOREM CloudIsATransport == Spec => ImplementsTransport
<1>1. Init => Contract!Init
  BY DEF Init, Contract!Init
<1>2. ASSUME RelayInv, RelayInv', [Next]_vars
      PROVE  Contract!Next \/ ContractSame
  <2> USE <1>2
  <2>1. ASSUME NEW c \in Callers, Begin(c) PROVE Contract!Next
    BY <2>1, BeginBegins DEF Contract!Next
  <2>2. ASSUME NEW c \in Callers, NEW how \in {"reply", "undelivered", "error"},
               pc[c] # "idle", Leave(c, how)
        PROVE  Contract!Next
    BY <2>2, EndsWell DEF Leave, device, Contract!Next
  <2>3. ASSUME NEW c \in Callers, NEW from \in Steps \ {"idle"}, NEW line,
               NEW to \in Steps \ {"idle"}, Send(c, from, line, to)
        PROVE  Contract!Next \/ ContractSame
    BY <2>2, <2>3, OnTheWay DEF Send, device, RelayInv
  <2>4. ASSUME NEW c \in Callers, Progress(c) PROVE Contract!Next \/ ContractSame
    <3>1. CASE Connect(c)
      BY <3>1, OnTheWay DEF Connect, device, RelayInv, Steps
    <3>2. CASE ConnectFails(c)
      BY <3>2, EndsWell DEF ConnectFails, Goto, device, Contract!Next
    <3>3. CASE SendSubscribe(c) \/ SendPublish(c)
      BY <2>3, <3>3 DEF SendSubscribe, SendPublish, Steps
    <3>4. CASE Recv(c)
      BY <3>4 DEF Recv, call, device, ContractSame, Busy
    <3>5. CASE Take(c)
      BY <2>2, <3>5 DEF Take, call, device, ContractSame, Busy
    <3>6. CASE GivesUp(c)
      BY <2>2, <3>6 DEF GivesUp
    <3> QED
      BY <2>4, <3>1, <3>2, <3>3, <3>4, <3>5, <3>6 DEF Progress
  <2>5. ASSUME NEW s \in Sns, DeviceReceives(s) PROVE Contract!Next
    BY <2>5, ReceivesOnce DEF Contract!Next
  <2>6. ASSUME NEW c \in Callers,
               Expire(c) \/ RelayReads(c) \/ RelaySendsNoise(c) \/ RelayEnds(c)
        PROVE  ContractSame
    BY <2>6 DEF Expire, RelayReads, RelaySendsNoise, RelayEnds, call, device,
                ContractSame, Busy
  <2>7. ASSUME NEW s \in Sns, RelayReadsStray(s) PROVE ContractSame
    BY <2>7 DEF RelayReadsStray, call, ContractSame, Busy
  <2>8. CASE AcceptingChanges \/ OnlineChanges \/ UNCHANGED vars
    BY <2>8 DEF AcceptingChanges, OnlineChanges, vars, call, device, ContractSame, Busy
  <2> QED
    BY <2>1, <2>4, <2>5, <2>6, <2>7, <2>8 DEF Next
<1> QED
  BY <1>1, <1>2, RelayInvariant, PTL
  DEF Spec, ImplementsTransport, Contract!Spec, ContractSame, Busy
=============================================================================
