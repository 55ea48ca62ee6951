------------------------ MODULE LocalTransportProofs ------------------------
(***************************************************************************)
(* Theorems about LocalTransport for any number of callers, any number of  *)
(* calls and any traffic from the device.                                  *)
(***************************************************************************)
EXTENDS LocalTransport, TLAPS

\* The types the argument needs.
NumbersOK ==
  /\ pc       \in [Callers -> Steps]
  /\ sn       \in [Callers -> 0..MaxSn]
  /\ lastSn   \in 0..MaxSn
  /\ underway \in SUBSET Sns
  /\ stray    \in SUBSET Sns
  /\ received \in [Sns -> Nat]

\* Before its frame is written.
Unwritten == {"lock", "check", "sendHeld", "connect", "sendFresh"}

Traces(s) == s \in underway \cup stray \/ received[s] # 0

\* A number not handed out yet has left no trace.
FutureIsBlank == \A s \in Sns : s > lastSn => ~Traces(s)

\* Nor has the frame of a call that has not written it: every retry of a write
\* starts from here.
UnwrittenIsBlank ==
  \A c \in Callers : pc[c] \in Unwritten =>
    /\ sn[c] \in 1..lastSn
    /\ ~Traces(sn[c])

\* No two calls share a number.
NumbersDiffer ==
  \A c, d \in Callers : c # d /\ pc[c] # "idle" /\ pc[d] # "idle" => sn[c] # sn[d]

\* No number in use is in the future.
NumbersArePast == \A c \in Callers : pc[c] # "idle" => sn[c] <= lastSn

\* A frame is on its way or has arrived, never both.
ArrivesOnce ==
  \A s \in Sns :
    /\ received[s] <= 1
    /\ s \in underway \cup stray => received[s] = 0

FrameInv ==
  /\ NumbersOK
  /\ FutureIsBlank
  /\ UnwrittenIsBlank
  /\ NumbersDiffer
  /\ NumbersArePast
  /\ ArrivesOnce

LEMMA InitFrameInv == Init => FrameInv
  BY BoundsAssumption
  DEF Init, FrameInv, NumbersOK, FutureIsBlank, UnwrittenIsBlank, NumbersDiffer,
      NumbersArePast, ArrivesOnce, Traces, Unwritten, Steps, Sns

\* A step that only moves callers between writing and waiting, takes no number
\* and writes nothing: what has left traces can only have moved to stray.
Quiet ==
  /\ \A c \in Callers : pc'[c] \in Unwritten => pc[c] \in Unwritten
  /\ \A c \in Callers : pc'[c] # "idle" => pc[c] # "idle"
  /\ pc' \in [Callers -> Steps]
  /\ UNCHANGED <<sn, lastSn, received>>
  /\ underway' \cup stray' = underway \cup stray

LEMMA QuietKeepsFrameInv == FrameInv /\ Quiet => FrameInv'
<1> SUFFICES ASSUME FrameInv, Quiet PROVE FrameInv'
  OBVIOUS
<1>1. NumbersOK'
  <2>1. underway' \subseteq Sns /\ stray' \subseteq Sns
    BY DEF FrameInv, NumbersOK, Quiet
  <2> QED
    BY <2>1 DEF FrameInv, NumbersOK, Quiet
<1>2. \A s \in Sns : Traces(s)' <=> Traces(s)
  BY DEF Quiet, Traces
<1>3. FutureIsBlank' /\ ArrivesOnce'
  BY <1>2 DEF FrameInv, FutureIsBlank, ArrivesOnce, Quiet
<1>4. UnwrittenIsBlank'
  <2> SUFFICES ASSUME NEW c \in Callers, pc'[c] \in Unwritten
               PROVE  sn'[c] \in 1..lastSn' /\ ~Traces(sn[c])'
    BY DEF UnwrittenIsBlank, Quiet
  <2> QED
    BY DEF FrameInv, UnwrittenIsBlank, Quiet, Traces
<1>5. NumbersDiffer' /\ NumbersArePast'
  BY DEF FrameInv, NumbersDiffer, NumbersArePast, Quiet
<1> QED
  BY <1>1, <1>3, <1>4, <1>5 DEF FrameInv

\* Taking a number: it is the first that has left no trace.
LEMMA BeginKeepsFrameInv ==
  ASSUME FrameInv, NEW c \in Callers, Begin(c)
  PROVE  FrameInv'
<1> USE DEF FrameInv, NumbersOK, Begin, Goto, socket
<1>1. lastSn + 1 \in Sns /\ sn'[c] = lastSn + 1 /\ lastSn' = lastSn + 1
  BY BoundsAssumption DEF Sns
<1>2. \A d \in Callers : d # c => sn'[d] = sn[d] /\ pc'[d] = pc[d]
  OBVIOUS
<1>3. NumbersOK'
  BY BoundsAssumption DEF Steps
<1>4. \A s \in Sns : Traces(s)' <=> Traces(s)
  BY DEF Traces
<1>5. FutureIsBlank' /\ ArrivesOnce'
  BY <1>1, <1>4 DEF FutureIsBlank, ArrivesOnce, Sns
<1>6. ASSUME NEW d \in Callers, pc'[d] \in Unwritten
      PROVE  sn'[d] \in 1..lastSn' /\ ~Traces(sn[d])'
  <2>1. CASE d = c
    BY <1>1, <1>4, <2>1 DEF FutureIsBlank, Traces, Sns
  <2>2. CASE d # c
    BY <1>1, <1>2, <1>6, <2>2 DEF UnwrittenIsBlank, Traces
  <2> QED
    BY <2>1, <2>2
<1>7. NumbersDiffer' /\ NumbersArePast'
  BY <1>1, <1>2 DEF NumbersDiffer, NumbersArePast
<1> QED
  BY <1>3, <1>5, <1>6, <1>7 DEF UnwrittenIsBlank

\* Writing a frame: it has left no trace before.
LEMMA WrittenKeepsFrameInv ==
  ASSUME FrameInv,
         NEW c \in Callers, pc[c] \in Unwritten, Written(c),
         pc' = [pc EXCEPT ![c] = "await"],
         UNCHANGED <<sn, lastSn, received>>
  PROVE  FrameInv'
<1> USE DEF FrameInv, NumbersOK, Written
<1>1. sn[c] \in Sns /\ sn[c] <= lastSn /\ ~Traces(sn[c])
  BY BoundsAssumption DEF UnwrittenIsBlank, Sns
<1>2. pc'[c] = "await" /\ \A d \in Callers : d # c => pc'[d] = pc[d]
  OBVIOUS
<1>3. \A s \in Sns : s # sn[c] => (Traces(s)' <=> Traces(s))
  BY DEF Traces
<1>4. NumbersOK'
  BY <1>1 DEF Steps
<1>5. FutureIsBlank'
  BY <1>1, <1>3 DEF FutureIsBlank, Sns
<1>6. ArrivesOnce'
  BY <1>1 DEF ArrivesOnce, Traces
<1>7. ASSUME NEW d \in Callers, pc'[d] \in Unwritten
      PROVE  sn'[d] \in 1..lastSn' /\ ~Traces(sn[d])'
  <2>1. d # c /\ pc[d] \in Unwritten
    BY <1>2, <1>7 DEF Unwritten
  <2>2. sn[d] # sn[c] /\ sn[d] \in 1..lastSn /\ ~Traces(sn[d])
    BY <2>1 DEF NumbersDiffer, UnwrittenIsBlank, Unwritten
  <2> QED
    BY <2>2 DEF Traces
<1>8. NumbersDiffer' /\ NumbersArePast'
  BY <1>2 DEF NumbersDiffer, NumbersArePast, Unwritten
<1> QED
  BY <1>4, <1>5, <1>6, <1>7, <1>8 DEF UnwrittenIsBlank

\* The device reads a frame: it cannot have read it before.
LEMMA ReceivingKeepsFrameInv ==
  ASSUME FrameInv, NEW s \in Sns, DeviceReceives(s)
  PROVE  FrameInv'
<1> USE DEF FrameInv, NumbersOK, DeviceReceives, local, call
<1>1. Traces(s) /\ received[s] = 0
  BY DEF Traces, ArrivesOnce
<1>2. received'[s] = 1 /\ s \notin underway' \cup stray'
  BY <1>1
<1>3. \A t \in Sns : t # s =>
        /\ received'[t] = received[t]
        /\ t \in underway' \cup stray' <=> t \in underway \cup stray
  OBVIOUS
<1>4. NumbersOK'
  OBVIOUS
<1>5. FutureIsBlank'
  BY <1>1, <1>3 DEF FutureIsBlank, Traces
<1>6. ArrivesOnce'
  BY <1>2, <1>3 DEF ArrivesOnce
<1>7. ASSUME NEW d \in Callers, pc'[d] \in Unwritten
      PROVE  sn'[d] \in 1..lastSn' /\ ~Traces(sn[d])'
  <2>1. sn[d] \in 1..lastSn /\ ~Traces(sn[d]) /\ sn[d] \in Sns
    BY <1>7, BoundsAssumption DEF UnwrittenIsBlank, Sns
  <2> QED
    BY <1>1, <1>3, <2>1 DEF Traces
<1>8. NumbersDiffer' /\ NumbersArePast'
  BY DEF NumbersDiffer, NumbersArePast
<1> QED
  BY <1>4, <1>5, <1>6, <1>7, <1>8 DEF UnwrittenIsBlank

LEMMA NextFrameInv == FrameInv /\ [Next]_vars => FrameInv'
<1> SUFFICES ASSUME FrameInv, [Next]_vars PROVE FrameInv'
  OBVIOUS
<1>1. NumbersOK
  BY DEF FrameInv
<1>2. ASSUME NEW c \in Callers, Begin(c)
      PROVE  FrameInv'
  BY <1>2, BeginKeepsFrameInv
<1>3. ASSUME NEW c \in Callers, SendHeld(c)
      PROVE  FrameInv'
  <2>1. CASE Goto(c, "sendHeld", "await") /\ Written(c)
    BY <1>3, <2>1, WrittenKeepsFrameInv DEF SendHeld, Goto, Unwritten
  <2>2. CASE Goto(c, "sendHeld", "connect") /\ peer = "reset" /\ Disconnect
    <3>1. Quiet
      BY <1>1, <1>3, <2>2
      DEF SendHeld, Goto, Disconnect, Quiet, NumbersOK, Steps, Unwritten
    <3> QED
      BY <3>1, QuietKeepsFrameInv
  <2> QED
    BY <1>3, <2>1, <2>2 DEF SendHeld
<1>4. ASSUME NEW c \in Callers, SendFresh(c)
      PROVE  FrameInv'
  <2>1. CASE Goto(c, "sendFresh", "await") /\ Written(c) /\ UNCHANGED sn
    BY <1>4, <2>1, WrittenKeepsFrameInv DEF SendFresh, Goto, Unwritten
  <2>2. CASE pc[c] = "sendFresh" /\ Return(c, "error") /\ Disconnect
    <3>1. Quiet
      BY <1>1, <1>4, <2>2
      DEF SendFresh, Return, Disconnect, Quiet, NumbersOK, Steps, Unwritten
    <3> QED
      BY <3>1, QuietKeepsFrameInv
  <2> QED
    BY <1>4, <2>1, <2>2 DEF SendFresh
<1>5. ASSUME NEW s \in Sns, DeviceReceives(s)
      PROVE  FrameInv'
  BY <1>5, ReceivingKeepsFrameInv
<1>6. ASSUME NEW c \in Callers,
             \/ Acquire(c) \/ Expire(c) \/ Check(c) \/ Connect(c) \/ ConnectFails(c)
             \/ Recv(c) \/ Take(c) \/ TimesOut(c) \/ HungUp(c) \/ RecvFails(c)
      PROVE  FrameInv'
  <2> USE DEF NumbersOK, Quiet, Steps, Unwritten, Goto, Return, Disconnect,
              socket, call
  <2>1. CASE Acquire(c)
    BY <1>1, <2>1, QuietKeepsFrameInv DEF Acquire
  <2>2. CASE Expire(c)
    BY <1>1, <2>2, QuietKeepsFrameInv DEF Expire
  <2>3. CASE Check(c)
    BY <1>1, <2>3, QuietKeepsFrameInv DEF Check
  <2>4. CASE Connect(c)
    BY <1>1, <2>4, QuietKeepsFrameInv DEF Connect
  <2>5. CASE ConnectFails(c)
    BY <1>1, <2>5, QuietKeepsFrameInv DEF ConnectFails
  <2>6. CASE Recv(c)
    BY <1>1, <2>6, QuietKeepsFrameInv DEF Recv
  <2>7. CASE Take(c)
    BY <1>1, <2>7, QuietKeepsFrameInv DEF Take
  <2>8. CASE TimesOut(c)
    BY <1>1, <2>8, QuietKeepsFrameInv DEF TimesOut
  <2>9. CASE HungUp(c)
    BY <1>1, <2>9, QuietKeepsFrameInv DEF HungUp, AtTheEnd
  <2>10. CASE RecvFails(c)
    BY <1>1, <2>10, QuietKeepsFrameInv DEF RecvFails, AtTheEnd
  <2> QED
    BY <1>6, <2>1, <2>2, <2>3, <2>4, <2>5, <2>6, <2>7, <2>8, <2>9, <2>10
<1>7. CASE Close
  BY <1>1, <1>7, QuietKeepsFrameInv DEF Close, Disconnect, Quiet, NumbersOK, call
<1>8. CASE DeviceReports \/ PeerEnds \/ ListenerChanges \/ UNCHANGED vars
  BY <1>1, <1>8, QuietKeepsFrameInv
  DEF DeviceReports, PeerEnds, ListenerChanges, vars, local, call, Quiet, NumbersOK
<1> QED
  BY <1>2, <1>3, <1>4, <1>5, <1>6, <1>7, <1>8 DEF Next, Progress

\* "A command that may already have reached the device must not be sent twice":
\* _exchange reconnects and sends again only while the frame is unwritten, so
\* the device reads each frame at most once.
THEOREM AtMostOnce == Spec => []FrameReceivedAtMostOnce
<1>1. FrameInv => FrameReceivedAtMostOnce
  BY DEF FrameInv, ArrivesOnce, FrameReceivedAtMostOnce
<1> QED
  BY <1>1, InitFrameInv, NextFrameInv, PTL DEF Spec

-----------------------------------------------------------------------------
(* What is in a sequence of lines.                                         *)

LEMMA InSet ==
  ASSUME NEW E, NEW s \in Seq(E), NEW x
  PROVE  x \in ToSet(s) <=> \E i \in 1..Len(s) : x = s[i]
<1>1. DOMAIN s = 1..Len(s)
  OBVIOUS
<1> QED
  BY <1>1 DEF ToSet

LEMMA ConcatSet ==
  ASSUME NEW E, NEW s \in Seq(E), NEW t \in Seq(E)
  PROVE  ToSet(s \o t) = ToSet(s) \cup ToSet(t)
<1>1. s \o t \in Seq(E) /\ Len(s \o t) = Len(s) + Len(t)
  OBVIOUS
<1>2. \A i \in 1..Len(s) : (s \o t)[i] = s[i]
  OBVIOUS
<1>3. \A i \in 1..Len(t) : (s \o t)[Len(s) + i] = t[i]
  OBVIOUS
<1>4. ASSUME NEW x \in ToSet(s \o t) PROVE x \in ToSet(s) \cup ToSet(t)
  <2>1. PICK i \in 1..(Len(s) + Len(t)) : x = (s \o t)[i]
    BY <1>1, <1>4, InSet
  <2>2. CASE i \in 1..Len(s)
    BY <1>2, <2>1, <2>2, InSet
  <2>3. CASE i - Len(s) \in 1..Len(t)
    BY <1>3, <2>1, <2>3, InSet
  <2> QED
    BY <2>1, <2>2, <2>3
<1>5. ASSUME NEW x \in ToSet(s) PROVE x \in ToSet(s \o t)
  <2>1. PICK i \in 1..Len(s) : x = s[i]
    BY <1>5, InSet
  <2>2. i \in 1..Len(s \o t) /\ x = (s \o t)[i]
    BY <1>1, <1>2, <2>1
  <2> QED
    BY <1>1, <2>2, InSet
<1>6. ASSUME NEW x \in ToSet(t) PROVE x \in ToSet(s \o t)
  <2>1. PICK i \in 1..Len(t) : x = t[i]
    BY <1>6, InSet
  <2>2. Len(s) + i \in 1..Len(s \o t) /\ x = (s \o t)[Len(s) + i]
    BY <1>1, <1>3, <2>1
  <2> QED
    BY <1>1, <2>2, InSet
<1> QED
  BY <1>4, <1>5, <1>6

LEMMA AppendSet ==
  ASSUME NEW E, NEW s \in Seq(E), NEW x \in E
  PROVE  /\ Append(s, x) \in Seq(E)
         /\ ToSet(Append(s, x)) = ToSet(s) \cup {x}
<1> DEFINE t == Append(s, x)
<1>1. /\ t \in Seq(E) /\ Len(t) = Len(s) + 1 /\ Len(s) \in Nat
      /\ \A i \in 1..Len(s) : t[i] = s[i]
      /\ t[Len(s) + 1] = x
  OBVIOUS
<1> HIDE DEF t
<1>2. ASSUME NEW y PROVE y \in ToSet(t) <=> y \in ToSet(s) \/ y = x
  <2>1. y \in ToSet(t) <=> \E i \in 1..Len(t) : y = t[i]
    BY <1>1, InSet
  <2>2. y \in ToSet(s) <=> \E i \in 1..Len(s) : y = s[i]
    BY InSet
  <2>3. \A i \in 1..Len(t) : i \in 1..Len(s) \/ i = Len(s) + 1
    BY <1>1
  <2>4. 1..Len(s) \subseteq 1..Len(t) /\ Len(s) + 1 \in 1..Len(t)
    BY <1>1
  <2> QED
    BY <1>1, <2>1, <2>2, <2>3, <2>4
<1> QED
  BY <1>1, <1>2 DEF t

LEMMA TailSet ==
  ASSUME NEW E, NEW s \in Seq(E), s # <<>>
  PROVE  /\ Tail(s) \in Seq(E)
         /\ ToSet(s) = {Head(s)} \cup ToSet(Tail(s))
<1> DEFINE t == Tail(s)
<1>1. /\ t \in Seq(E) /\ Len(t) = Len(s) - 1 /\ Len(s) \in Nat \ {0}
      /\ \A i \in 1..Len(t) : t[i] = s[i + 1]
      /\ Head(s) = s[1]
  OBVIOUS
<1> HIDE DEF t
<1>2. ASSUME NEW x \in ToSet(s), x # Head(s) PROVE x \in ToSet(t)
  <2>1. PICK i \in 1..Len(s) : x = s[i]
    BY <1>2, InSet
  <2>2. i - 1 \in 1..Len(t) /\ x = t[i - 1]
    BY <1>1, <1>2, <2>1
  <2> QED
    BY <1>1, <2>2, InSet
<1>3. ASSUME NEW x \in ToSet(t) PROVE x \in ToSet(s)
  <2>1. PICK i \in 1..Len(t) : x = t[i]
    BY <1>1, <1>3, InSet
  <2>2. i + 1 \in 1..Len(s) /\ x = s[i + 1]
    BY <1>1, <2>1
  <2> QED
    BY <2>2, InSet
<1>4. Head(s) \in ToSet(s)
  <2>1. 1 \in 1..Len(s)
    BY <1>1
  <2> QED
    BY <1>1, <2>1, InSet
<1> QED
  BY <1>1, <1>2, <1>3, <1>4 DEF t

LEMMA SplitSet ==
  ASSUME NEW E, NEW s \in Seq(E), NEW n \in 1..Len(s)
  PROVE  /\ SubSeq(s, 1, n) \in Seq(E)
         /\ SubSeq(s, n + 1, Len(s)) \in Seq(E)
         /\ s = SubSeq(s, 1, n) \o SubSeq(s, n + 1, Len(s))
         /\ ToSet(s) = ToSet(SubSeq(s, 1, n)) \cup ToSet(SubSeq(s, n + 1, Len(s)))
<1> DEFINE a == SubSeq(s, 1, n)
           b == SubSeq(s, n + 1, Len(s))
<1>1. a \in Seq(E) /\ Len(a) = n /\ \A i \in 1..n : a[i] = s[i]
  OBVIOUS
<1>2. /\ b \in Seq(E) /\ Len(b) = Len(s) - n
      /\ \A i \in 1..(Len(s) - n) : b[i] = s[n + i]
  OBVIOUS
<1>3. s = a \o b
  BY <1>1, <1>2
<1> HIDE DEF a, b
<1>4. ToSet(s) = ToSet(a) \cup ToSet(b)
  BY <1>1, <1>2, <1>3, ConcatSet
<1> QED
  BY <1>1, <1>2, <1>3, <1>4 DEF a, b
-----------------------------------------------------------------------------
(* The lock, and what the connection holds.                                *)

\* Between taking the lock and giving it back.
Inside == {"check", "sendHeld", "connect", "sendFresh", "await"}

LockInv ==
  /\ pc      \in [Callers -> Steps]
  /\ buffer  \in Seq(Lines)
  /\ inbound \in Seq(Lines)
  /\ \A c \in Callers : pc[c] \in Inside => owner = c
  /\ \A c \in Callers : pc[c] = "connect" => ~connected
  /\ \A c \in Callers : pc[c] \in {"check", "sendHeld", "sendFresh", "await"} => connected
  /\ ~connected => buffer = <<>> /\ inbound = <<>> /\ underway = {}

LEMMA InitLockInv == Init => LockInv
  BY DEF Init, LockInv, Steps, Inside

\* Two callers are never inside together.
LEMMA OneInside ==
  ASSUME LockInv, NEW c \in Callers, pc[c] \in Inside,
         NEW d \in Callers, pc[d] \in Inside
  PROVE  c = d
  BY DEF LockInv

\* The connection is dropped, to be made anew or left to the next caller.
LEMMA DropKeepsLockInv ==
  ASSUME LockInv, NEW c \in Callers, pc[c] \in Inside, Disconnect,
         \/ pc' = [pc EXCEPT ![c] = "connect"] /\ owner' = owner
         \/ pc' = [pc EXCEPT ![c] = "idle"] /\ owner' = None
  PROVE  LockInv'
<1> USE DEF LockInv, Steps
<1>1. /\ ~connected' /\ buffer' = <<>> /\ inbound' = <<>> /\ underway' = {}
      /\ <<>> \in Seq(Lines)
  BY DEF Disconnect
<1>2. pc' \in [Callers -> Steps]
  OBVIOUS
<1>3. ASSUME NEW d \in Callers, pc'[d] \in Inside PROVE owner' = d
  <2>1. CASE d = c
    BY <1>3, <2>1 DEF Inside
  <2>2. CASE d # c
    BY <1>3, <2>2, OneInside
  <2> QED
    BY <2>1, <2>2
<1>4. \A d \in Callers : pc'[d] \notin {"check", "sendHeld", "sendFresh", "await"}
  <2> SUFFICES ASSUME NEW d \in Callers
               PROVE  pc'[d] \notin {"check", "sendHeld", "sendFresh", "await"}
    OBVIOUS
  <2>1. CASE d = c
    BY <2>1
  <2>2. CASE d # c
    BY <2>2, OneInside DEF Inside
  <2> QED
    BY <2>1, <2>2
<1> QED
  BY <1>1, <1>2, <1>3, <1>4

LEMMA NextLockInv == LockInv /\ [Next]_vars => LockInv'
<1> SUFFICES ASSUME LockInv, [Next]_vars PROVE LockInv'
  OBVIOUS
<1> USE NobodyAssumption DEF LockInv, Steps, Inside
<1>1. Report \in Lines /\ Sns \subseteq Lines
  BY DEF Lines
<1>2. ASSUME NEW c \in Callers, Begin(c) \/ Acquire(c) \/ Expire(c)
      PROVE  LockInv'
  <2>1. CASE Begin(c)
    BY <2>1 DEF Begin, Goto, socket
  <2>2. CASE Acquire(c)
    BY <2>2 DEF Acquire, Goto, socket
  <2>3. CASE Expire(c)
    BY <2>3 DEF Expire, socket
  <2> QED
    BY <1>2, <2>1, <2>2, <2>3
<1>3. ASSUME NEW c \in Callers,
             Check(c) \/ SendHeld(c) \/ Connect(c) \/ ConnectFails(c) \/ SendFresh(c)
      PROVE  LockInv'
  <2>1. ASSUME Disconnect,
               \/ pc[c] # "connect" /\ Goto(c, pc[c], "connect") /\ owner' = owner
               \/ Return(c, "error"),
               pc[c] \in Inside
        PROVE  LockInv'
    BY <2>1, DropKeepsLockInv DEF Goto, Return
  <2>2. CASE Goto(c, "check", "sendHeld") /\ UNCHANGED <<socket, owner>>
    BY <2>2 DEF Goto, socket
  <2>3. ASSUME pc[c] \in {"sendHeld", "sendFresh"}, Goto(c, pc[c], "await"),
               Written(c), connected, UNCHANGED owner
        PROVE  LockInv'
    BY <2>3 DEF Goto, Written
  <2>4. CASE Connect(c)
    BY <2>4 DEF Connect, Goto
  <2>5. CASE ConnectFails(c)
    BY <2>5 DEF ConnectFails, Return, socket
  <2> QED
    BY <1>3, <2>1, <2>2, <2>3, <2>4, <2>5 DEF Check, SendHeld, SendFresh, Goto
<1>4. ASSUME NEW c \in Callers, Recv(c) PROVE LockInv'
  <2>1. PICK n \in 1..Len(inbound) :
          /\ buffer' = SubSeq(inbound, 1, n)
          /\ inbound' = SubSeq(inbound, n + 1, Len(inbound))
    BY <1>4 DEF Recv
  <2>2. buffer' \in Seq(Lines) /\ inbound' \in Seq(Lines)
    BY <2>1, SplitSet
  <2>3. connected
    BY <2>1
  <2> QED
    BY <1>4, <2>2, <2>3 DEF Recv, call
<1>5. ASSUME NEW c \in Callers, Take(c) PROVE LockInv'
  <2>1. buffer' \in Seq(Lines) /\ connected
    BY <1>5, TailSet DEF Take
  <2> QED
    BY <1>5, <2>1 DEF Take, Return, call
<1>6. ASSUME NEW c \in Callers, TimesOut(c) \/ HungUp(c) \/ RecvFails(c)
      PROVE  LockInv'
  <2>1. CASE TimesOut(c) \/ HungUp(c)
    BY <2>1, DropKeepsLockInv DEF TimesOut, HungUp, AtTheEnd, Return
  <2>2. CASE RecvFails(c)
    BY <2>2 DEF RecvFails, AtTheEnd, Return, socket
  <2> QED
    BY <1>6, <2>1, <2>2
<1>7. CASE Close
  BY <1>7 DEF Close, Disconnect, call
<1>8. ASSUME NEW s \in Sns, DeviceReceives(s) PROVE LockInv'
  <2>1. inbound' \in Seq(Lines)
    BY <1>1, <1>8, AppendSet DEF DeviceReceives
  <2>2. ~connected => inbound' = inbound /\ underway' = underway
    BY <1>8 DEF DeviceReceives
  <2> QED
    BY <1>8, <2>1, <2>2 DEF DeviceReceives, local, call
<1>9. CASE DeviceReports
  <2>1. inbound' \in Seq(Lines)
    BY <1>1, <1>9, AppendSet DEF DeviceReports
  <2> QED
    BY <1>9, <2>1 DEF DeviceReports, local, call
<1>10. CASE PeerEnds \/ ListenerChanges \/ UNCHANGED vars
  <2>1. UNCHANGED <<pc, owner, connected, buffer, underway>>
    BY <1>10 DEF PeerEnds, ListenerChanges, vars, local, call
  <2>2. inbound' = inbound \/ inbound' = <<>>
    BY <1>10 DEF PeerEnds, ListenerChanges, vars
  <2>3. CASE inbound' = inbound
    BY <2>1, <2>3
  <2>4. CASE inbound' = <<>>
    BY <2>1, <2>4
  <2> QED
    BY <2>2, <2>3, <2>4
<1> QED
  BY <1>2, <1>3, <1>4, <1>5, <1>6, <1>7, <1>8, <1>9, <1>10 DEF Next, Progress
-----------------------------------------------------------------------------
(* Answers.                                                                *)

\* What can be read of the connection, in order.
Content == buffer \o inbound

Once(s, x) == \A i, j \in 1..Len(s) : s[i] = x /\ s[j] = x => i = j

\* Whatever answers a frame comes from a device that has read it.
AnswersWereReceived ==
  \A s \in ToSet(Content) : s # Report => s \in Sns /\ received[s] # 0

\* While nobody waits, nothing is owed; and who waits is the only one owed.
NothingOwed ==
  peer = "open" /\ (\A c \in Callers : pc[c] # "await") =>
    underway = {} /\ ToSet(Content) \subseteq {Report}

OnlyOneOwed ==
  peer = "open" => \A c \in Callers : pc[c] = "await" =>
    /\ underway \subseteq {sn[c]}
    /\ ToSet(Content) \subseteq {Report, sn[c]}
    /\ Once(Content, sn[c])

LineInv ==
  /\ AnswersWereReceived
  /\ NothingOwed
  /\ OnlyOneOwed

AnswerInv == FrameInv /\ LockInv /\ LineInv

LEMMA ConcatParts ==
  ASSUME NEW E, NEW s \in Seq(E), NEW t \in Seq(E)
  PROVE  /\ s \o t \in Seq(E)
         /\ s = <<>> => s \o t = t
         /\ t = <<>> => s \o t = s
         /\ s # <<>> => /\ s \o t # <<>>
                        /\ Head(s \o t) = Head(s)
                        /\ Tail(s) \o t = Tail(s \o t)
         /\ \A x \in E : s \o Append(t, x) = Append(s \o t, x)
<1>1. s \o t \in Seq(E)
  OBVIOUS
<1>2. s = <<>> => s \o t = t
  OBVIOUS
<1>3. t = <<>> => s \o t = s
  OBVIOUS
<1>4. ASSUME s # <<>>
      PROVE  /\ s \o t # <<>>
             /\ Head(s \o t) = Head(s)
             /\ Tail(s) \o t = Tail(s \o t)
  BY <1>4
<1>5. ASSUME NEW x \in E PROVE s \o Append(t, x) = Append(s \o t, x)
  OBVIOUS
<1> QED
  BY <1>1, <1>2, <1>3, <1>4, <1>5

LEMMA OnceTail ==
  ASSUME NEW E, NEW s \in Seq(E), s # <<>>, NEW x, Once(s, x)
  PROVE  /\ Once(Tail(s), x)
         /\ Head(s) = x => x \notin ToSet(Tail(s))
<1> DEFINE t == Tail(s)
<1>1. /\ t \in Seq(E) /\ Len(t) = Len(s) - 1 /\ Len(s) \in Nat \ {0}
      /\ \A i \in 1..Len(t) : t[i] = s[i + 1]
      /\ Head(s) = s[1]
  OBVIOUS
<1> HIDE DEF t
<1>2. Once(t, x)
  <2> SUFFICES ASSUME NEW i \in 1..Len(t), NEW j \in 1..Len(t), t[i] = x, t[j] = x
               PROVE  i = j
    BY DEF Once
  <2>1. i + 1 \in 1..Len(s) /\ j + 1 \in 1..Len(s) /\ s[i + 1] = x /\ s[j + 1] = x
    BY <1>1
  <2> QED
    BY <2>1 DEF Once
<1>3. ASSUME Head(s) = x, x \in ToSet(t) PROVE FALSE
  <2>1. PICK i \in 1..Len(t) : x = t[i]
    BY <1>1, <1>3, InSet
  <2>2. i + 1 \in 1..Len(s) /\ 1 \in 1..Len(s) /\ s[i + 1] = x /\ s[1] = x
    BY <1>1, <1>3, <2>1
  <2> QED
    BY <2>2 DEF Once
<1> QED
  BY <1>2, <1>3 DEF t

LEMMA OnceAppend ==
  ASSUME NEW E, NEW s \in Seq(E), NEW x \in E, NEW y,
         Once(s, y), y = x => x \notin ToSet(s)
  PROVE  Once(Append(s, x), y)
<1> DEFINE t == Append(s, x)
<1>1. /\ Len(t) = Len(s) + 1 /\ Len(s) \in Nat
      /\ \A i \in 1..Len(s) : t[i] = s[i]
      /\ t[Len(s) + 1] = x
  OBVIOUS
<1> HIDE DEF t
<1> SUFFICES ASSUME NEW i \in 1..Len(t), NEW j \in 1..Len(t), t[i] = y, t[j] = y
             PROVE  i = j
  BY DEF Once, t
<1>2. CASE i \in 1..Len(s) /\ j \in 1..Len(s)
  BY <1>1, <1>2 DEF Once
<1>3. ASSUME y = x, NEW k \in 1..Len(s), t[k] = y PROVE FALSE
  BY <1>1, <1>3, InSet
<1> QED
  BY <1>1, <1>2, <1>3

LEMMA ContentTypes == LockInv => Content \in Seq(Lines)
  BY ConcatParts DEF LockInv, Content

LEMMA InitLineInv == Init => LineInv
<1> SUFFICES ASSUME Init PROVE LineInv
  OBVIOUS
<1>1. buffer \in Seq(Lines) /\ inbound \in Seq(Lines) /\ Content = <<>>
  BY DEF Init, Content
<1>2. ToSet(Content) = {}
  BY <1>1 DEF ToSet
<1> QED
  BY <1>2
  DEF Init, LineInv, AnswersWereReceived, NothingOwed, OnlyOneOwed

\* Nobody is owed anything on a connection that is not open.
LEMMA ClosedOwesNothing ==
  ASSUME LineInv, peer' # "open",
         ToSet(Content') \subseteq ToSet(Content), received' = received
  PROVE  LineInv'
  BY DEF LineInv, AnswersWereReceived, NothingOwed, OnlyOneOwed

\* Nor does anything change while the connection and who waits stay as they are.
LEMMA UntouchedLineInv ==
  ASSUME LineInv, Content' = Content,
         UNCHANGED <<peer, underway, received>>,
         \A c \in Callers : pc'[c] = "await" <=> pc[c] = "await",
         \A c \in Callers : pc[c] = "await" => sn'[c] = sn[c]
  PROVE  LineInv'
  BY DEF LineInv, AnswersWereReceived, NothingOwed, OnlyOneOwed, Once

LEMMA DropKeepsLineInv ==
  ASSUME LineInv, LockInv, Disconnect, received' = received
  PROVE  LineInv'
<1>1. Content' = <<>> /\ peer' = "gone"
  BY DEF Disconnect, Content
<1>2. ToSet(Content') = {}
  BY <1>1 DEF ToSet
<1> QED
  BY <1>1, <1>2, ClosedOwesNothing

LEMMA ConnectKeepsLineInv ==
  ASSUME LineInv, LockInv, NEW c \in Callers, Connect(c)
  PROVE  LineInv'
<1>1. /\ pc[c] = "connect" /\ pc' = [pc EXCEPT ![c] = "sendFresh"]
      /\ UNCHANGED <<buffer, inbound, underway>>
  BY DEF Connect, Goto
<1>2. buffer = <<>> /\ inbound = <<>> /\ underway = {}
  BY <1>1 DEF LockInv
<1>3. ToSet(Content') = {} /\ underway' = {}
  BY <1>1, <1>2 DEF Content, ToSet
<1>4. \A d \in Callers : pc'[d] # "await"
  <2> SUFFICES ASSUME NEW d \in Callers, pc'[d] = "await" PROVE FALSE
    OBVIOUS
  <2>1. d # c /\ pc[d] = "await"
    BY <1>1 DEF LockInv
  <2> QED
    BY <1>1, <2>1, OneInside DEF Inside
<1> QED
  BY <1>3, <1>4 DEF LineInv, AnswersWereReceived, NothingOwed, OnlyOneOwed

\* Only what this caller has written is owed from here on.
LEMMA WrittenKeepsLineInv ==
  ASSUME AnswerInv, NEW c \in Callers, pc[c] \in {"sendHeld", "sendFresh"}, Written(c),
         pc' = [pc EXCEPT ![c] = "await"], UNCHANGED <<sn, received>>
  PROVE  LineInv'
<1> USE DEF AnswerInv
<1>1. /\ Content' = Content /\ underway' = underway \cup {sn[c]} /\ peer' = peer
      /\ Content \in Seq(Lines)
  BY ContentTypes DEF Written, Content
<1>2. CASE peer # "open"
  BY <1>1, <1>2, ClosedOwesNothing
<1>3. CASE peer = "open"
  <2>1. ASSUME NEW d \in Callers, d # c PROVE pc[d] # "await" /\ pc'[d] # "await"
    BY <2>1, OneInside DEF Inside, LockInv
  <2>2. pc[c] # "await"
    OBVIOUS
  <2>3. underway = {} /\ ToSet(Content) \subseteq {Report}
    BY <1>3, <2>1, <2>2 DEF LineInv, NothingOwed
  <2>4. sn[c] # Report
    BY ReportAssumption, BoundsAssumption DEF FrameInv, NumbersOK
  <2>5. \A i \in 1..Len(Content) : Content[i] # sn[c]
    BY <1>1, <2>3, <2>4, InSet
  <2>6. OnlyOneOwed'
    BY <1>1, <2>1, <2>3, <2>5 DEF OnlyOneOwed, Once
  <2>7. pc'[c] = "await"
    BY DEF LockInv
  <2> QED
    BY <1>1, <2>6, <2>7 DEF LineInv, AnswersWereReceived, NothingOwed
<1> QED
  BY <1>2, <1>3

\* How a caller that waits reads the connection.
LEMMA RecvMovesContent ==
  ASSUME LockInv, NEW c \in Callers, Recv(c)
  PROVE  Content' = Content
<1>1. PICK n \in 1..Len(inbound) :
        /\ buffer' = SubSeq(inbound, 1, n)
        /\ inbound' = SubSeq(inbound, n + 1, Len(inbound))
  BY DEF Recv
<1>2. inbound = buffer' \o inbound'
  BY <1>1, SplitSet DEF LockInv
<1>3. Content = inbound
  BY ConcatParts DEF LockInv, Recv, Content
<1> QED
  BY <1>2, <1>3 DEF Content

LEMMA TakeShortensContent ==
  ASSUME LockInv, NEW c \in Callers, Take(c)
  PROVE  /\ Content # <<>>
         /\ Head(Content) = Head(buffer)
         /\ Content' = Tail(Content)
  BY ConcatParts DEF LockInv, Take, Content

LEMMA TakeKeepsLineInv ==
  ASSUME AnswerInv, NEW c \in Callers, Take(c)
  PROVE  LineInv'
<1> USE DEF AnswerInv
<1>1. /\ Content \in Seq(Lines) /\ Content # <<>> /\ Content' = Tail(Content)
      /\ Head(Content) = Head(buffer)
  BY ContentTypes, TakeShortensContent
<1>2. ToSet(Content) = {Head(Content)} \cup ToSet(Content')
  BY <1>1, TailSet
<1>3. pc[c] = "await" /\ UNCHANGED <<peer, underway, received, sn>>
  BY DEF Take, Return, call
<1>4. CASE peer # "open"
  BY <1>2, <1>3, <1>4, ClosedOwesNothing
<1>5. CASE peer = "open"
  <2>1. AnswersWereReceived'
    BY <1>2, <1>3 DEF LineInv, AnswersWereReceived
  <2>2. \A d \in Callers : d # c => pc[d] # "await"
    BY <1>3, OneInside DEF Inside
  <2>3. /\ underway \subseteq {sn[c]} /\ ToSet(Content) \subseteq {Report, sn[c]}
        /\ Once(Content, sn[c])
    BY <1>3, <1>5 DEF LineInv, OnlyOneOwed
  <2>4. CASE Head(buffer) = sn[c]
    <3>1. \A d \in Callers : pc'[d] # "await"
      BY <2>2, <2>4 DEF Take, Return, LockInv
    <3>2. sn[c] # Report
      BY ReportAssumption, BoundsAssumption DEF FrameInv, NumbersOK
    <3>3. sn[c] \in Sns /\ received[sn[c]] # 0
      BY <1>1, <1>2, <2>4, <3>2 DEF LineInv, AnswersWereReceived
    <3>4. underway = {}
      BY <2>3, <3>3 DEF FrameInv, ArrivesOnce
    <3>5. sn[c] \notin ToSet(Content')
      BY <1>1, <2>3, <2>4, OnceTail
    <3>6. ToSet(Content') \subseteq {Report}
      BY <1>2, <2>3, <3>5
    <3> QED
      BY <1>3, <2>1, <3>1, <3>4, <3>6 DEF LineInv, NothingOwed, OnlyOneOwed
  <2>5. CASE Head(buffer) # sn[c]
    <3>1. pc' = pc
      BY <2>5 DEF Take, call
    <3>2. Once(Content', sn[c])
      BY <1>1, <2>3, OnceTail
    <3>3. OnlyOneOwed'
      BY <1>2, <1>3, <2>2, <2>3, <3>1, <3>2 DEF OnlyOneOwed, Once
    <3> QED
      BY <1>3, <2>1, <3>1, <3>3 DEF LineInv, NothingOwed
  <2> QED
    BY <2>4, <2>5
<1> QED
  BY <1>4, <1>5

LEMMA ReceivingKeepsLineInv ==
  ASSUME AnswerInv, NEW s \in Sns, DeviceReceives(s)
  PROVE  LineInv'
<1> USE DEF AnswerInv
<1>1. /\ Content \in Seq(Lines) /\ s \in Lines /\ s # Report
      /\ received[s] = 0
  BY ContentTypes, ReportAssumption
  DEF Lines, Sns, DeviceReceives, FrameInv, ArrivesOnce
<1>2. UNCHANGED <<peer, pc, sn, buffer>> /\ underway' = underway \ {s}
  BY DEF DeviceReceives, local, call
<1>3. \A x \in Sns : received[x] # 0 \/ x = s => received'[x] # 0
  BY <1>1 DEF DeviceReceives, FrameInv, NumbersOK
<1>4. s \notin ToSet(Content)
  BY <1>1 DEF LineInv, AnswersWereReceived
<1>5. CASE UNCHANGED inbound
  <2>1. Content' = Content
    BY <1>2, <1>5 DEF Content
  <2> QED
    BY <1>2, <1>3, <2>1
    DEF LineInv, AnswersWereReceived, NothingOwed, OnlyOneOwed, Once
<1>6. CASE s \in underway /\ peer = "open" /\ inbound' = Append(inbound, s)
  <2>1. Content' = Append(Content, s)
    BY <1>1, <1>2, <1>6, ConcatParts DEF Content, LockInv
  <2>2. ToSet(Content') = ToSet(Content) \cup {s}
    BY <1>1, <2>1, AppendSet
  <2>3. AnswersWereReceived'
    BY <1>3, <2>2 DEF LineInv, AnswersWereReceived
  <2>4. NothingOwed'
    BY <1>2, <1>6 DEF LineInv, NothingOwed
  <2>5. ASSUME NEW c \in Callers, pc[c] = "await"
        PROVE  /\ underway' \subseteq {sn[c]}
               /\ ToSet(Content') \subseteq {Report, sn[c]}
               /\ Once(Content', sn[c])
    <3>1. /\ underway \subseteq {sn[c]} /\ ToSet(Content) \subseteq {Report, sn[c]}
          /\ Once(Content, sn[c])
      BY <1>6, <2>5 DEF LineInv, OnlyOneOwed
    <3>2. Once(Content', sn[c])
      BY <1>1, <1>4, <2>1, <3>1, OnceAppend
    <3> QED
      BY <1>2, <1>6, <2>2, <3>1, <3>2
  <2>6. OnlyOneOwed'
    BY <1>2, <2>5 DEF OnlyOneOwed, Once
  <2> QED
    BY <2>3, <2>4, <2>6 DEF LineInv
<1> QED
  BY <1>5, <1>6 DEF DeviceReceives

LEMMA ReportingKeepsLineInv ==
  ASSUME AnswerInv, DeviceReports
  PROVE  LineInv'
<1> USE DEF AnswerInv
<1>1. Content \in Seq(Lines) /\ Report \in Lines
  BY ContentTypes DEF Lines
<1>2. /\ UNCHANGED <<peer, underway, received, pc, sn, buffer>>
      /\ inbound' = Append(inbound, Report)
  BY DEF DeviceReports, local, call
<1>3. Content' = Append(Content, Report)
  BY <1>1, <1>2, ConcatParts DEF Content, LockInv
<1>4. ToSet(Content') = ToSet(Content) \cup {Report}
  BY <1>1, <1>3, AppendSet
<1>5. ASSUME NEW c \in Callers, Once(Content, sn[c]) PROVE Once(Content', sn[c])
  <2>1. sn[c] # Report
    BY ReportAssumption, BoundsAssumption DEF FrameInv, NumbersOK
  <2> QED
    BY <1>1, <1>3, <1>5, <2>1, OnceAppend
<1>6. OnlyOneOwed'
  BY <1>2, <1>4, <1>5 DEF LineInv, OnlyOneOwed, Once
<1> QED
  BY <1>2, <1>4, <1>6 DEF LineInv, AnswersWereReceived, NothingOwed

LEMMA EndingKeepsLineInv ==
  ASSUME AnswerInv, PeerEnds
  PROVE  LineInv'
<1> USE DEF AnswerInv
<1>1. peer' # "open" /\ UNCHANGED <<buffer, received>>
  BY DEF PeerEnds, local
<1>2. inbound' = inbound \/ inbound' = <<>>
  BY DEF PeerEnds
<1>3. CASE inbound' = inbound
  BY <1>1, <1>3, ClosedOwesNothing DEF Content
<1>4. CASE inbound' = <<>>
  <2>1. Content' = buffer
    BY <1>1, <1>4, ConcatParts DEF Content, LockInv
  <2>2. ToSet(Content) = ToSet(buffer) \cup ToSet(inbound)
    BY ConcatSet DEF Content, LockInv
  <2> QED
    BY <1>1, <2>1, <2>2, ClosedOwesNothing
<1> QED
  BY <1>2, <1>3, <1>4

LEMMA NextLineInv == AnswerInv /\ [Next]_vars => LineInv'
<1> SUFFICES ASSUME AnswerInv, [Next]_vars PROVE LineInv'
  OBVIOUS
<1> USE DEF AnswerInv
<1>1. pc \in [Callers -> Steps]
  BY DEF LockInv
<1>2. ASSUME NEW c \in Callers,
             \/ Begin(c) \/ Acquire(c) \/ Expire(c) \/ ConnectFails(c)
             \/ Goto(c, "check", "sendHeld") /\ UNCHANGED <<socket, sn, received>>
      PROVE  LineInv'
  <2>1. UNCHANGED <<socket, received>>
    BY <1>2 DEF Begin, Acquire, Expire, ConnectFails
  <2>2. Content' = Content /\ UNCHANGED <<peer, underway>>
    BY <2>1 DEF socket, Content
  <2>3. \A d \in Callers : /\ pc'[d] = "await" <=> pc[d] = "await"
                           /\ pc[d] = "await" => sn'[d] = sn[d]
    BY <1>1, <1>2 DEF Begin, Acquire, Expire, ConnectFails, Goto, Return, FrameInv, NumbersOK
  <2> QED
    BY <2>1, <2>2, <2>3, UntouchedLineInv
<1>3. ASSUME NEW c \in Callers, Check(c) PROVE LineInv'
  BY <1>2, <1>3, DropKeepsLineInv DEF Check
<1>4. ASSUME NEW c \in Callers, SendHeld(c) PROVE LineInv'
  BY <1>4, WrittenKeepsLineInv, DropKeepsLineInv DEF SendHeld, Goto
<1>5. ASSUME NEW c \in Callers, SendFresh(c) PROVE LineInv'
  BY <1>5, WrittenKeepsLineInv, DropKeepsLineInv DEF SendFresh, Goto
<1>6. ASSUME NEW c \in Callers, Recv(c) PROVE LineInv'
  BY <1>6, RecvMovesContent, UntouchedLineInv DEF Recv, call
<1>7. ASSUME NEW c \in Callers, TimesOut(c) \/ HungUp(c) PROVE LineInv'
  BY <1>7, DropKeepsLineInv DEF TimesOut, HungUp
<1>8. ASSUME NEW c \in Callers, RecvFails(c) PROVE LineInv'
  BY <1>8, ClosedOwesNothing DEF RecvFails, AtTheEnd, socket, Content
<1>9. CASE Close
  BY <1>9, DropKeepsLineInv DEF Close
<1>10. CASE ListenerChanges \/ UNCHANGED vars
  BY <1>10, UntouchedLineInv DEF ListenerChanges, vars, local, call, Content
<1> QED
  BY <1>2, <1>3, <1>4, <1>5, <1>6, <1>7, <1>8, <1>9, <1>10,
     ConnectKeepsLineInv, TakeKeepsLineInv, ReceivingKeepsLineInv,
     ReportingKeepsLineInv, EndingKeepsLineInv
  DEF Next, Progress

LEMMA AnswerInvHolds == Spec => []AnswerInv
<1>1. Init => AnswerInv
  BY InitFrameInv, InitLockInv, InitLineInv DEF AnswerInv
<1>2. AnswerInv /\ [Next]_vars => AnswerInv'
  BY NextFrameInv, NextLockInv, NextLineInv DEF AnswerInv
<1> QED
  BY <1>1, <1>2, PTL DEF Spec

\* The next call starts clean: what _exchange leaves behind on a connection it
\* keeps is neither an unanswered frame nor an answer, since it returns with
\* its own answer or drops the connection.
THEOREM ConnectionIsClean == Spec => []HeldConnectionIsClean
<1>1. AnswerInv => HeldConnectionIsClean
  <2> SUFFICES ASSUME AnswerInv, owner = None, peer = "open"
               PROVE  underway = {} /\ ToSet(Content) \subseteq {Report}
    BY DEF HeldConnectionIsClean, Content
  <2>1. \A c \in Callers : pc[c] # "await"
    BY NobodyAssumption DEF AnswerInv, LockInv, Inside
  <2> QED
    BY <2>1 DEF AnswerInv, LineInv, NothingOwed
<1> QED
  BY <1>1, AnswerInvHolds, PTL

\* "Two frames written to one socket at once would cross their replies": under
\* the lock nobody but the caller who awaits an answer can take it away.
THEOREM AnswersStay == Spec => AnswersAreNotCrossed
<1>1. ASSUME AnswerInv, [Next]_vars
      PROVE  [\A c \in Callers :
                /\ pc[c] = "await" /\ pc'[c] = "await"
                /\ sn[c] \in ToSet(buffer \o inbound)
                /\ peer' = peer
                => sn[c] \in ToSet(buffer' \o inbound')]_vars
  <2> SUFFICES ASSUME NEW c \in Callers, pc[c] = "await", pc'[c] = "await",
                      sn[c] \in ToSet(Content), peer' = peer, Next
               PROVE  sn[c] \in ToSet(Content')
    BY <1>1 DEF Content
  <2> USE <1>1 DEF AnswerInv
  <2>1. owner = c /\ c # None /\ \A d \in Callers : d # c => pc[d] \notin Inside
    BY NobodyAssumption DEF LockInv, Inside
  <2>2. CASE UNCHANGED <<buffer, inbound>>
    BY <2>2 DEF Content
  <2>3. ASSUME Recv(c) PROVE sn[c] \in ToSet(Content')
    BY <2>3, RecvMovesContent
  <2>4. ASSUME Take(c) PROVE sn[c] \in ToSet(Content')
    <3>1. Head(buffer) # sn[c]
      BY <2>4 DEF Take, Return, LockInv
    <3>2. ToSet(Content) = {Head(buffer)} \cup ToSet(Content')
      BY <2>4, TakeShortensContent, ContentTypes, TailSet
    <3> QED
      BY <3>1, <3>2
  <2>5. CASE (\E s \in Sns : DeviceReceives(s)) \/ DeviceReports
    <3>1. buffer' = buffer
      BY <2>5 DEF DeviceReceives, DeviceReports, local
    <3>2. \/ inbound' = inbound
          \/ \E x \in Lines : inbound' = Append(inbound, x)
      BY <2>5 DEF DeviceReceives, DeviceReports, Lines
    <3>3. ASSUME NEW x \in Lines, inbound' = Append(inbound, x)
          PROVE  Content' = Append(Content, x)
      BY <3>1, <3>3, ConcatParts DEF Content, LockInv
    <3>4. ASSUME NEW x \in Lines, inbound' = Append(inbound, x)
          PROVE  sn[c] \in ToSet(Content')
      <4>1. ToSet(Append(Content, x)) = ToSet(Content) \cup {x}
        BY ContentTypes, AppendSet
      <4> QED
        BY <3>3, <3>4, <4>1
    <3> QED
      BY <2>2, <3>1, <3>2, <3>4
  <2>6. ASSUME NEW d \in Callers,
               Begin(d) \/ Acquire(d) \/ Expire(d) \/ Progress(d)
        PROVE  sn[c] \in ToSet(Content')
    <3>1. CASE Begin(d) \/ Acquire(d) \/ Expire(d)
      BY <2>2, <3>1 DEF Begin, Acquire, Expire, socket
    <3>2. CASE Progress(d)
      <4>1. pc[d] \in Inside
        BY <3>2
        DEF Progress, Check, SendHeld, Connect, ConnectFails, SendFresh, Recv, Take,
            TimesOut, HungUp, RecvFails, AtTheEnd, Goto, Inside
      <4>2. d = c
        BY <2>1, <4>1
      <4> QED
        BY <2>3, <2>4, <3>2, <4>2
        DEF Progress, Check, SendHeld, Connect, ConnectFails, SendFresh,
            TimesOut, HungUp, RecvFails, AtTheEnd, Goto, Return, LockInv
    <3> QED
      BY <2>6, <3>1, <3>2
  <2>7. CASE PeerEnds
    BY <2>7 DEF PeerEnds
  <2>8. CASE ListenerChanges
    BY <2>2, <2>8 DEF ListenerChanges, local
  <2>9. ~Close
    BY <2>1 DEF Close
  <2> QED
    BY <2>5, <2>6, <2>7, <2>8, <2>9 DEF Next
<1> QED
  BY <1>1, AnswerInvHolds, PTL DEF Spec, AnswersAreNotCrossed

OutcomeOK == outcome \in [Callers -> {"none", "reply", "error"}]

\* Only the ways out of _exchange, and the next call, touch an outcome.
LEMMA NextOutcome == OutcomeOK /\ [Next]_vars => OutcomeOK'
<1> SUFFICES ASSUME OutcomeOK, [Next]_vars PROVE OutcomeOK'
  OBVIOUS
<1>1. \/ outcome' = outcome
      \/ \E c \in Callers, how \in {"none", "reply", "error"} :
           outcome' = [outcome EXCEPT ![c] = how]
  <2>1. ASSUME NEW c \in Callers, Begin(c) \/ Acquire(c) \/ Expire(c)
        PROVE  outcome' = outcome \/ outcome' = [outcome EXCEPT ![c] = "none"]
    BY <2>1 DEF Begin, Acquire, Expire
  <2>2. ASSUME NEW c \in Callers, Progress(c)
        PROVE  \/ outcome' = outcome
               \/ \E how \in {"none", "reply", "error"} :
                    outcome' = [outcome EXCEPT ![c] = how]
    BY <2>2
    DEF Progress, Check, SendHeld, Connect, ConnectFails, SendFresh, Recv, Take,
        TimesOut, HungUp, RecvFails, Return, call
  <2>3. CASE Close \/ (\E s \in Sns : DeviceReceives(s)) \/ DeviceReports \/ PeerEnds
             \/ ListenerChanges \/ UNCHANGED vars
    BY <2>3 DEF Close, DeviceReceives, DeviceReports, PeerEnds, ListenerChanges,
                vars, local, call
  <2> QED
    BY <2>1, <2>2, <2>3 DEF Next
<1> QED
  BY <1>1 DEF OutcomeOK

\* The callers that end in error.
LEMMA Failures ==
  ASSUME OutcomeOK, LockInv, Next,
         NEW c \in Callers, outcome[c] # "error", outcome'[c] = "error"
  PROVE  ConnectFails(c) \/ SendFresh(c) \/ TimesOut(c) \/ HungUp(c) \/ RecvFails(c)
<1> USE DEF OutcomeOK
<1>1. ~(Close \/ (\E s \in Sns : DeviceReceives(s)) \/ DeviceReports \/ PeerEnds
        \/ ListenerChanges)
  BY DEF Close, DeviceReceives, DeviceReports, PeerEnds, ListenerChanges, local, call
<1>2. PICK d \in Callers : Begin(d) \/ Acquire(d) \/ Expire(d) \/ Progress(d)
  BY <1>1 DEF Next
<1>3. ~(Begin(d) \/ Acquire(d) \/ Expire(d))
  BY DEF Begin, Acquire, Expire
<1>4. ~(Check(d) \/ SendHeld(d) \/ Connect(d) \/ Recv(d) \/ Take(d))
  BY DEF Check, SendHeld, Connect, Recv, Take, Return, call
<1>5. ConnectFails(d) \/ SendFresh(d) \/ TimesOut(d) \/ HungUp(d) \/ RecvFails(d)
  BY <1>2, <1>3, <1>4 DEF Progress
<1>6. outcome' = outcome \/ outcome' = [outcome EXCEPT ![d] = "error"]
  BY <1>5 DEF ConnectFails, SendFresh, TimesOut, HungUp, RecvFails, Return
<1>7. d = c
  BY <1>6
<1> QED
  BY <1>5, <1>7

\* A call that fails has not thrown its answer away.
THEOREM AnswersAreKept == Spec => AnswersAreNotLost
<1>1. ASSUME AnswerInv, OutcomeOK, [Next]_vars
      PROVE  [\A c \in Callers : outcome[c] # "error" /\ outcome'[c] = "error" =>
                /\ sn[c] \notin ToSet(buffer)
                /\ expired[c] \/ sn[c] \notin ToSet(inbound)]_vars
  <2> SUFFICES ASSUME NEW c \in Callers, outcome[c] # "error", outcome'[c] = "error", Next
               PROVE  /\ sn[c] \notin ToSet(buffer)
                      /\ expired[c] \/ sn[c] \notin ToSet(inbound)
    BY <1>1
  <2> USE <1>1 DEF AnswerInv
  <2>1. ToSet(<<>>) = {}
    BY DEF ToSet
  <2>2. ToSet(Content) = ToSet(buffer) \cup ToSet(inbound)
    BY ConcatSet DEF Content, LockInv
  <2>5. CASE ConnectFails(c)
    BY <2>1, <2>5 DEF ConnectFails, LockInv
  <2>6. CASE SendFresh(c)
    <3>1. pc[c] = "sendFresh"
      BY <2>6 DEF SendFresh, Goto
    <3>2. sn[c] \in Sns /\ received[sn[c]] = 0 /\ sn[c] # Report
      BY <3>1, BoundsAssumption, ReportAssumption
      DEF FrameInv, NumbersOK, UnwrittenIsBlank, Unwritten, Traces, Sns
    <3>3. sn[c] \notin ToSet(Content)
      BY <3>2 DEF LineInv, AnswersWereReceived
    <3> QED
      BY <2>2, <3>3
  <2>7. CASE TimesOut(c)
    BY <2>1, <2>7 DEF TimesOut
  <2>8. CASE HungUp(c) \/ RecvFails(c)
    BY <2>1, <2>8 DEF HungUp, RecvFails, AtTheEnd
  <2> QED
    BY <1>1, <2>5, <2>6, <2>7, <2>8, Failures
<1>2. Init => OutcomeOK
  BY DEF Init, OutcomeOK
<1> QED
  BY <1>1, <1>2, NextOutcome, AnswerInvHolds, PTL DEF Spec, AnswersAreNotLost

\* A connection without an excuse is there, and its far end is there too.
ReuseInv == ~excused => connected /\ peer = "open"

LEMMA NextReuse == ReuseInv /\ [Next]_vars => ReuseInv'
<1> SUFFICES ASSUME ReuseInv, [Next]_vars PROVE ReuseInv'
  OBVIOUS
<1> USE DEF ReuseInv, socket
<1>1. ASSUME NEW c \in Callers, Begin(c) \/ Acquire(c) \/ Expire(c)
      PROVE  ReuseInv'
  BY <1>1 DEF Begin, Acquire, Expire
<1>2. ASSUME NEW c \in Callers, Check(c) \/ SendHeld(c) \/ Connect(c) \/ SendFresh(c)
      PROVE  ReuseInv'
  BY <1>2 DEF Check, PeerHasClosed, SendHeld, Written, Connect, SendFresh, Disconnect, Return
<1>3. ASSUME NEW c \in Callers, Recv(c) \/ Take(c)
      PROVE  ReuseInv'
  BY <1>3 DEF Recv, Take, Return
<1>4. ASSUME NEW c \in Callers, ConnectFails(c) \/ TimesOut(c) \/ HungUp(c) \/ RecvFails(c)
      PROVE  ReuseInv'
  BY <1>4 DEF ConnectFails, TimesOut, HungUp, RecvFails, Return
<1>5. CASE \/ Close \/ (\E s \in Sns : DeviceReceives(s)) \/ DeviceReports \/ PeerEnds
           \/ ListenerChanges \/ UNCHANGED vars
  BY <1>5 DEF Close, DeviceReceives, DeviceReports, PeerEnds, ListenerChanges, vars, local
<1> QED
  BY <1>1, <1>2, <1>3, <1>4, <1>5 DEF Next, Progress

\* However many threads share it, and whatever arrives on it between their calls,
\* a connection stays until the far end has ended it, a call has failed or close
\* was called (_exchange, peer_has_closed, _await_reply).
THEOREM ConnectionStays == Spec => []ConnectionIsReused
<1>1. Init => ReuseInv
  BY DEF Init, ReuseInv
<1>2. ReuseInv => ConnectionIsReused
  BY DEF ReuseInv, ConnectionIsReused
<1> QED
  BY <1>1, <1>2, NextReuse, PTL DEF Spec

-----------------------------------------------------------------------------
(* The contract of a transport.                                            *)

Busy == [c \in Callers |-> pc[c] # "idle"]

ContractSame == UNCHANGED <<Busy, sn, outcome, lastSn, received>>

CallInv == AnswerInv /\ OutcomeOK

\* An answer is a line that the device wrote after it had read the frame.
LEMMA AnsweredWasReceived ==
  ASSUME AnswerInv, NEW c \in Callers, Take(c), Head(buffer) = sn[c]
  PROVE  received[sn[c]] = 1
<1> USE DEF AnswerInv
<1>1. Head(buffer) \in ToSet(Content)
  BY TakeShortensContent, ContentTypes, TailSet
<1>2. sn[c] # Report
  BY BoundsAssumption, ReportAssumption DEF FrameInv, NumbersOK
<1>3. sn[c] \in Sns /\ received[sn[c]] # 0
  BY <1>1, <1>2 DEF LineInv, AnswersWereReceived
<1>4. received[sn[c]] \in Nat /\ received[sn[c]] <= 1
  BY <1>3 DEF FrameInv, NumbersOK, ArrivesOnce
<1> QED
  BY <1>3, <1>4

\* The steps that end a call.
LEMMA EndsWell ==
  ASSUME CallInv, NEW c \in Callers, pc[c] # "idle", NEW how \in {"reply", "error"},
         Return(c, how), UNCHANGED <<lastSn, received>>,
         how = "reply" => received[sn[c]] = 1
  PROVE  Contract!End(c, how)
<1>1. Busy' = [Busy EXCEPT ![c] = FALSE]
  BY DEF Return, Busy, CallInv, AnswerInv, LockInv
<1> QED
  BY <1>1 DEF Return, Contract!End, Contract!Holds, Busy

\* Those between the beginning of a call and its end.
LEMMA OnTheWay ==
  ASSUME CallInv, NEW c \in Callers, NEW from \in Steps \ {"idle"},
         NEW to \in Steps \ {"idle"}, Goto(c, from, to),
         UNCHANGED <<sn, outcome, lastSn, received>>
  PROVE  ContractSame
  BY DEF Goto, ContractSame, Busy, CallInv, AnswerInv, LockInv

LEMMA BeginBegins ==
  ASSUME CallInv, NEW c \in Callers, Begin(c)
  PROVE  Contract!Begin(c)
<1>1. lastSn' \in Sns /\ lastSn' > lastSn
  BY BoundsAssumption DEF Begin, CallInv, AnswerInv, FrameInv, NumbersOK, Sns
<1>2. Busy' = [Busy EXCEPT ![c] = TRUE]
  BY DEF Begin, Goto, Busy, CallInv, AnswerInv, LockInv
<1> QED
  BY <1>1, <1>2 DEF Begin, Goto, Contract!Begin, Busy

LEMMA ReceivesOnce ==
  ASSUME CallInv, NEW s \in Sns, DeviceReceives(s)
  PROVE  Contract!Receive(s)
<1> USE DEF CallInv, AnswerInv, FrameInv, NumbersOK
<1>1. s \in underway \cup stray /\ received[s] = 0
  BY DEF DeviceReceives, ArrivesOnce
<1>2. s <= lastSn
  BY <1>1, BoundsAssumption DEF FutureIsBlank, Traces, Sns
<1>3. \A c \in Callers : outcome[c] # "undelivered"
  BY DEF OutcomeOK
<1>4. received' = [received EXCEPT ![s] = 1]
  BY <1>1 DEF DeviceReceives
<1> QED
  BY <1>1, <1>2, <1>3, <1>4 DEF DeviceReceives, local, call, Contract!Receive, Busy

\* local.py keeps the contract that fallback.py relies on, for any number of calls
\* through the one connection and any traffic on it: _await_reply takes for an
\* answer what answers this frame only, and _exchange writes no frame twice that
\* may have arrived.
THEOREM LocalIsATransport == Spec => ImplementsTransport
<1>1. Init => Contract!Init
  BY DEF Init, Contract!Init
<1>2. ASSUME CallInv, [Next]_vars
      PROVE  Contract!Next \/ ContractSame
  <2> USE <1>2
  <2>1. ASSUME NEW c \in Callers, Begin(c) PROVE Contract!Next
    BY <2>1, BeginBegins DEF Contract!Next
  <2>2. ASSUME NEW c \in Callers, Acquire(c) PROVE ContractSame
    <3>1. PICK to \in {"check", "connect"} : Goto(c, "lock", to)
      BY <2>2 DEF Acquire
    <3> QED
      BY <2>2, <3>1, OnTheWay DEF Acquire, Steps
  <2>3. ASSUME NEW c \in Callers, pc[c] # "idle", Return(c, "error"),
               UNCHANGED <<lastSn, received>>
        PROVE  Contract!Next
    BY <2>3, EndsWell DEF Contract!Next
  <2>4. ASSUME NEW c \in Callers, Check(c) \/ SendHeld(c) \/ Connect(c)
        PROVE  ContractSame
    <3>1. PICK from \in Steps \ {"idle"}, to \in Steps \ {"idle"} : Goto(c, from, to)
      BY <2>4 DEF Check, SendHeld, Connect, Steps
    <3> QED
      BY <2>4, <3>1, OnTheWay DEF Check, SendHeld, Connect
  <2>5. ASSUME NEW c \in Callers, SendFresh(c) PROVE Contract!Next \/ ContractSame
    BY <2>3, <2>5, OnTheWay DEF SendFresh, Steps
  <2>6. ASSUME NEW c \in Callers, Take(c) PROVE Contract!Next \/ ContractSame
    <3>1. CASE Head(buffer) = sn[c]
      BY <2>6, <3>1, AnsweredWasReceived, EndsWell DEF Take, CallInv, Contract!Next
    <3>2. CASE Head(buffer) # sn[c]
      BY <2>6, <3>2 DEF Take, call, ContractSame, Busy
    <3> QED
      BY <3>1, <3>2
  <2>7. ASSUME NEW c \in Callers,
               ConnectFails(c) \/ TimesOut(c) \/ HungUp(c) \/ RecvFails(c)
        PROVE  Contract!Next
    BY <2>3, <2>7 DEF ConnectFails, TimesOut, HungUp, RecvFails, AtTheEnd
  <2>8. ASSUME NEW c \in Callers, Expire(c) \/ Recv(c) PROVE ContractSame
    BY <2>8 DEF Expire, Recv, call, ContractSame, Busy
  <2>9. ASSUME NEW s \in Sns, DeviceReceives(s) PROVE Contract!Next
    BY <2>9, ReceivesOnce DEF Contract!Next
  <2>10. CASE Close \/ DeviceReports \/ PeerEnds \/ ListenerChanges \/ UNCHANGED vars
    BY <2>10
    DEF Close, DeviceReports, PeerEnds, ListenerChanges, vars, local, call, ContractSame, Busy
  <2> QED
    BY <2>1, <2>2, <2>4, <2>5, <2>6, <2>7, <2>8, <2>9, <2>10 DEF Next, Progress
<1>3. Init => OutcomeOK
  BY DEF Init, OutcomeOK
<1> QED
  BY <1>1, <1>2, <1>3, NextOutcome, AnswerInvHolds, PTL
  DEF Spec, CallInv, ImplementsTransport, Contract!Spec, ContractSame, Busy

-----------------------------------------------------------------------------
(* Types.                                                                  *)

\* The types no other invariant has needed.
FlagsOK ==
  /\ owner     \in Callers \cup {None}
  /\ connected \in BOOLEAN
  /\ expired   \in [Callers -> BOOLEAN]
  /\ listener  \in BOOLEAN
  /\ peer      \in Ends
  /\ excused   \in BOOLEAN

LEMMA NextFlags == FlagsOK /\ [Next]_vars => FlagsOK'
<1> SUFFICES ASSUME FlagsOK, [Next]_vars PROVE FlagsOK'
  OBVIOUS
<1> USE DEF FlagsOK, Ends
<1>1. ASSUME NEW c \in Callers, Begin(c) \/ Acquire(c) \/ Expire(c)
      PROVE  FlagsOK'
  BY <1>1 DEF Begin, Acquire, Expire, socket
<1>2. ASSUME NEW c \in Callers,
             Check(c) \/ SendHeld(c) \/ Connect(c) \/ ConnectFails(c) \/ SendFresh(c)
      PROVE  FlagsOK'
  BY <1>2
  DEF Check, SendHeld, Connect, ConnectFails, SendFresh, Written, Return, Disconnect, socket
<1>3. ASSUME NEW c \in Callers,
             Recv(c) \/ Take(c) \/ TimesOut(c) \/ HungUp(c) \/ RecvFails(c)
      PROVE  FlagsOK'
  BY <1>3
  DEF Recv, Take, TimesOut, HungUp, RecvFails, AtTheEnd, Return, Disconnect, socket, call
<1>4. CASE Close \/ (\E s \in Sns : DeviceReceives(s)) \/ DeviceReports \/ PeerEnds
           \/ ListenerChanges \/ UNCHANGED vars
  BY <1>4
  DEF Close, Disconnect, DeviceReceives, DeviceReports, PeerEnds, ListenerChanges, vars,
      local, call
<1> QED
  BY <1>1, <1>2, <1>3, <1>4 DEF Next, Progress

\* The state of local.py and of the connection it assumes is well typed, and without
\* a connection there is nothing to read or to be read.
THEOREM LocalTypes == Spec => []TypeOK
<1>1. Init => FlagsOK /\ OutcomeOK
  BY DEF Init, FlagsOK, Ends, OutcomeOK
<1>2. FlagsOK /\ OutcomeOK /\ AnswerInv => TypeOK
  BY DEF FlagsOK, OutcomeOK, AnswerInv, FrameInv, NumbersOK, LockInv, TypeOK
<1> QED
  BY <1>1, <1>2, NextFlags, NextOutcome, AnswerInvHolds, PTL DEF Spec

-----------------------------------------------------------------------------
(* The lock.                                                               *)

\* Who holds the lock is inside _exchange.
HeldFromInside == \A c \in Callers : owner = c => pc[c] \in Inside

\* Nothing else touches the lock or a caller's place.
LEMMA SamePlaces ==
  ASSUME HeldFromInside, UNCHANGED <<owner, pc>>
  PROVE  HeldFromInside'
  BY DEF HeldFromInside

\* A caller moves on inside, or gives the lock back and leaves.
LEMMA MovesOrLeaves ==
  ASSUME LockInv, HeldFromInside, NEW c \in Callers, pc[c] \in Inside,
         \/ owner' = owner /\ \E to \in Inside : pc' = [pc EXCEPT ![c] = to]
         \/ \E how : Return(c, how)
  PROVE  HeldFromInside'
  BY NobodyAssumption DEF LockInv, HeldFromInside, Return

LEMMA NextHeld == LockInv /\ HeldFromInside /\ [Next]_vars => HeldFromInside'
<1> SUFFICES ASSUME LockInv, HeldFromInside, [Next]_vars
             PROVE  HeldFromInside'
  OBVIOUS
<1>1. ASSUME NEW c \in Callers, Begin(c)
      PROVE  HeldFromInside'
  BY <1>1 DEF Begin, Goto, LockInv, HeldFromInside, Inside
<1>2. ASSUME NEW c \in Callers, Acquire(c)
      PROVE  HeldFromInside'
  BY <1>2, NobodyAssumption DEF Acquire, Goto, LockInv, HeldFromInside, Inside
<1>3. ASSUME NEW c \in Callers,
             Check(c) \/ SendHeld(c) \/ Connect(c) \/ ConnectFails(c) \/ SendFresh(c)
      PROVE  HeldFromInside'
  BY <1>3, MovesOrLeaves DEF Check, SendHeld, Connect, ConnectFails, SendFresh, Goto, Inside
<1>4. ASSUME NEW c \in Callers, Take(c)
      PROVE  HeldFromInside'
  BY <1>4, SamePlaces, MovesOrLeaves DEF Take, call, Inside
<1>5. ASSUME NEW c \in Callers, TimesOut(c) \/ HungUp(c) \/ RecvFails(c)
      PROVE  HeldFromInside'
  BY <1>5, MovesOrLeaves DEF TimesOut, HungUp, RecvFails, AtTheEnd, Inside
<1>6. ASSUME NEW c \in Callers, Expire(c) \/ Recv(c)
      PROVE  HeldFromInside'
  BY <1>6, SamePlaces DEF Expire, Recv, call
<1>7. CASE Close \/ (\E s \in Sns : DeviceReceives(s)) \/ DeviceReports \/ PeerEnds
           \/ ListenerChanges \/ UNCHANGED vars
  BY <1>7, SamePlaces
  DEF Close, DeviceReceives, DeviceReports, PeerEnds, ListenerChanges, vars, local, call
<1> QED
  BY <1>1, <1>2, <1>3, <1>4, <1>5, <1>6, <1>7 DEF Next, Progress

\* However a call ends, by its answer, an error or the deadline, it gives the lock
\* back: the lock is held exactly by the one caller that is inside _exchange.
THEOREM LockIsGivenBack ==
  Spec => [](\A c \in Callers : owner = c <=> pc[c] \in Inside)
<1>1. Init => HeldFromInside
  BY NobodyAssumption DEF Init, HeldFromInside
<1>2. HeldFromInside /\ AnswerInv => \A c \in Callers : owner = c <=> pc[c] \in Inside
  BY DEF HeldFromInside, AnswerInv, LockInv
<1> QED
  BY <1>1, <1>2, NextHeld, AnswerInvHolds, PTL DEF Spec, AnswerInv
=============================================================================
