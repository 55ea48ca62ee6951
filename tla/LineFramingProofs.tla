-------------------------- MODULE LineFramingProofs --------------------------
(***************************************************************************)
(* Theorems about SequenceNumber and LineFraming: new_sn's numbers are     *)
(* distinct, and LineSocket is a channel of lines, for any number of       *)
(* threads, any clock, any noise and any segments.                         *)
(***************************************************************************)
EXTENDS LineFraming, TLAPS, SequenceTheorems

\* _last_sn is at least every number that was ever returned.
IssuedBelow == \A n \in issued : n <= lastSn

IInv == TypeOK /\ IssuedBelow

LEMMA InitIInv == Init => IInv
  BY DEF Init, IInv, TypeOK, IssuedBelow

LEMMA NextIInv == IInv /\ [Next]_vars => IInv'
<1> SUFFICES ASSUME IInv, [Next]_vars
             PROVE  IInv'
  OBVIOUS
<1> USE DEF IInv, TypeOK, IssuedBelow
<1>1. ASSUME NEW t \in Threads, Begin(t)
     PROVE  IInv'
  BY <1>1 DEF Begin
<1>2. ASSUME NEW t \in Threads, ReadClock(t)
     PROVE  IInv'
  BY <1>2 DEF ReadClock
<1>3. ASSUME NEW t \in Threads, Bump(t)
     PROVE  IInv'
  <2>1. lastSn' \in Nat /\ lastSn < lastSn'
    BY <1>3 DEF Bump, Nudged
  <2>2. issued' = issued \cup {lastSn'}
    BY <1>3 DEF Bump
  <2>3. IssuedBelow'
    BY <2>1, <2>2
  <2>4. TypeOK'
    BY <1>3, <2>1, <2>2 DEF Bump
  <2> QED
    BY <2>3, <2>4
<1>4. CASE ClockChanges
  BY <1>4, MaxSnAssumption DEF ClockChanges
<1>5. CASE UNCHANGED vars
  BY <1>5 DEF vars
<1> QED
  BY <1>1, <1>2, <1>3, <1>4, <1>5 DEF Next

\* Only Bump issues a number, and a number it issues exceeds _last_sn.
LEMMA StepIsFresh ==
  ASSUME IInv, [Next]_vars
  PROVE  [\A t \in Threads : pc[t] = "bump" /\ pc'[t] = "idle" =>
            \A n \in issued : n < lastSn']_vars
<1> SUFFICES ASSUME Next, NEW t \in Threads, pc[t] = "bump", pc'[t] = "idle",
                    NEW n \in issued
             PROVE  n < lastSn'
  OBVIOUS
<1> USE DEF IInv, TypeOK, IssuedBelow
<1>1. Bump(t)
  BY DEF Next, Begin, ReadClock, Bump, ClockChanges
<1> QED
  BY <1>1 DEF Bump, Nudged

\* Every number new_sn returns is new, though threads interleave and the wall
\* clock stands still or is set back (protocol.py, new_sn).
THEOREM FreshNumbers == Spec => NumbersAreFresh
<1>1. Spec => []IInv
  BY InitIInv, NextIInv, PTL DEF Spec
<1> QED
  BY <1>1, StepIsFresh, PTL DEF Spec, NumbersAreFresh

-----------------------------------------------------------------------------
(* All that was sent is lines, each with its terminator.                   *)

Symbols == Nat \cup {CR, LF}
Lines   == Noise \cup {<<n>> : n \in Nat}

Length(line) == Len(line) + 2
Weight(line) == IF line = <<>> THEN 0 ELSE 1

\* The stream is N lines: q[k] starts after pos[k] symbols, and after cnt[k]
\* lines that are not empty.
Starts(N, q, pos, cnt) ==
  /\ N \in Nat /\ q \in [0..N - 1 -> Lines]
  /\ pos \in [0..N -> Nat] /\ cnt \in [0..N -> Nat]
  /\ pos[0] = 0 /\ cnt[0] = 0
  /\ \A k \in 0..N : pos[k] <= pos[N] /\ cnt[k] <= cnt[N]
  /\ \A k \in 0..N - 1 : /\ pos[k + 1] = pos[k] + Length(q[k])
                         /\ cnt[k + 1] = cnt[k] + Weight(q[k])

\* The symbols of a line, and its terminator, after p others.
LineIn(s, p, line) ==
  /\ \A i \in 1..Len(line) : s[p + i] = line[i]
  /\ s[p + Len(line) + 1] = CR
  /\ s[p + Len(line) + 2] = LF

Spelled(N, q, pos, stream) == \A k \in 0..N - 1 : LineIn(stream, pos[k], q[k])

\* The lines of it that count are those that were said.
SaidInOrder(N, q, cnt) ==
  /\ Len(said) = cnt[N]
  /\ \A k \in 0..N - 1 : q[k] # <<>> => said[cnt[k] + 1] = q[k]

\* What is left of the first n symbols when p of them are taken.
Rest(b, p, n, stream) ==
  /\ Len(b) = n - p
  /\ \A i \in 1..Len(b) : b[i] = stream[p + i]

LEMMA LineShape ==
  ASSUME NEW line \in Lines
  PROVE  /\ line \in Seq(Symbols) /\ Len(line) \in {0, 1}
         /\ Len(line) = 0 <=> line = <<>>
         /\ Length(line) = Len(line) + 2 /\ Weight(line) \in {0, 1}
         /\ line # <<>> => Weight(line) = 1
<1>1. line = <<>> \/ \E x \in Symbols : line = <<x>>
  BY DEF Lines, Noise, Symbols
<1>2. CASE line = <<>>
  <2>1. line \in Seq(Symbols) /\ Len(line) = 0
    BY <1>2
  <2> QED
    BY <1>2, <2>1 DEF Length, Weight
<1>3. ASSUME NEW x \in Symbols, line = <<x>>
      PROVE  /\ line \in Seq(Symbols) /\ Len(line) = 1
             /\ line # <<>>
  BY <1>3
<1>4. CASE line # <<>>
  <2>1. line \in Seq(Symbols) /\ Len(line) = 1
    BY <1>1, <1>3, <1>4
  <2> QED
    BY <1>4, <2>1 DEF Length, Weight
<1> QED
  BY <1>2, <1>4

LEMMA LineAt ==
  ASSUME NEW N, NEW q, NEW pos, NEW cnt, Starts(N, q, pos, cnt), NEW k \in 0..N - 1
  PROVE  /\ N \in Nat /\ k \in 0..N /\ k + 1 \in 0..N /\ q[k] \in Lines
         /\ pos[k] \in Nat /\ pos[N] \in Nat /\ cnt[k] \in Nat /\ cnt[N] \in Nat
         /\ Len(q[k]) \in {0, 1}
         /\ pos[k + 1] = pos[k] + Len(q[k]) + 2 /\ pos[k] + Len(q[k]) + 2 <= pos[N]
         /\ Weight(q[k]) \in {0, 1}
         /\ cnt[k + 1] = cnt[k] + Weight(q[k]) /\ cnt[k] + Weight(q[k]) <= cnt[N]
<1>1. N \in Nat /\ k \in 0..N /\ k + 1 \in 0..N
  BY DEF Starts
<1>2. q[k] \in Lines /\ pos[k] \in Nat /\ pos[N] \in Nat /\ cnt[k] \in Nat /\ cnt[N] \in Nat
  BY <1>1 DEF Starts
<1>3. /\ pos[k + 1] = pos[k] + Length(q[k]) /\ pos[k + 1] <= pos[N]
      /\ cnt[k + 1] = cnt[k] + Weight(q[k]) /\ cnt[k + 1] <= cnt[N]
  BY <1>1 DEF Starts
<1>4. Len(q[k]) \in {0, 1} /\ Length(q[k]) = Len(q[k]) + 2 /\ Weight(q[k]) \in {0, 1}
  BY <1>2, LineShape
<1> QED
  BY <1>1, <1>2, <1>3, <1>4

\* A line more at the end.
OneMore(N, q, pos, cnt, line, q2, pos2, cnt2) ==
  /\ q2 \in [0..N -> Lines] /\ pos2 \in [0..N + 1 -> Nat] /\ cnt2 \in [0..N + 1 -> Nat]
  /\ \A k \in 0..N - 1 : q2[k] = q[k]
  /\ \A k \in 0..N : pos2[k] = pos[k] /\ cnt2[k] = cnt[k]
  /\ q2[N] = line
  /\ pos2[N + 1] = pos[N] + Length(line)
  /\ cnt2[N + 1] = cnt[N] + Weight(line)

LEMMA StartsMore ==
  ASSUME NEW N, NEW q, NEW pos, NEW cnt, Starts(N, q, pos, cnt), NEW line \in Lines,
         NEW q2, NEW pos2, NEW cnt2, OneMore(N, q, pos, cnt, line, q2, pos2, cnt2)
  PROVE  Starts(N + 1, q2, pos2, cnt2)
<1>1. /\ Length(line) \in Nat /\ Weight(line) \in Nat
      /\ N \in Nat /\ N + 1 \in Nat /\ (N + 1) - 1 = N
      /\ pos[N] \in Nat /\ cnt[N] \in Nat
      /\ pos2[N + 1] = pos[N] + Length(line) /\ cnt2[N + 1] = cnt[N] + Weight(line)
  <2>1. Length(line) \in Nat /\ Weight(line) \in Nat
    BY LineShape
  <2>2. N \in Nat /\ pos[N] \in Nat /\ cnt[N] \in Nat
    BY DEF Starts
  <2>3. pos2[N + 1] = pos[N] + Length(line) /\ cnt2[N + 1] = cnt[N] + Weight(line)
    BY DEF OneMore
  <2> QED
    BY <2>1, <2>2, <2>3
<1>2. /\ pos2[0] = 0 /\ cnt2[0] = 0
      /\ q2 \in [0..N -> Lines] /\ pos2 \in [0..N + 1 -> Nat] /\ cnt2 \in [0..N + 1 -> Nat]
  BY DEF Starts, OneMore
<1>3. ASSUME NEW k \in 0..N + 1 PROVE pos2[k] <= pos2[N + 1] /\ cnt2[k] <= cnt2[N + 1]
  <2>1. k = N + 1 \/ k \in 0..N
    BY <1>1
  <2>2. CASE k = N + 1
    BY <1>1, <2>2
  <2>3. CASE k \in 0..N
    <3>1. /\ pos[k] <= pos[N] /\ cnt[k] <= cnt[N] /\ pos[k] \in Nat /\ cnt[k] \in Nat
          /\ pos2[k] = pos[k] /\ cnt2[k] = cnt[k]
      BY <2>3 DEF Starts, OneMore
    <3> QED
      BY <1>1, <3>1
  <2> QED
    BY <2>1, <2>2, <2>3
<1>4. ASSUME NEW k \in 0..N
      PROVE  pos2[k + 1] = pos2[k] + Length(q2[k]) /\ cnt2[k + 1] = cnt2[k] + Weight(q2[k])
  <2>1. k = N \/ k \in 0..N - 1
    BY <1>1
  <2>2. CASE k = N
    BY <1>1, <2>2 DEF OneMore
  <2>3. CASE k \in 0..N - 1
    <3>1. k + 1 \in 0..N /\ k \in 0..N
      BY <1>1, <2>3
    <3>2. pos[k + 1] = pos[k] + Length(q[k]) /\ cnt[k + 1] = cnt[k] + Weight(q[k])
      BY <2>3 DEF Starts
    <3>3. q2[k] = q[k] /\ pos2[k] = pos[k] /\ cnt2[k] = cnt[k]
          /\ pos2[k + 1] = pos[k + 1] /\ cnt2[k + 1] = cnt[k + 1]
      BY <2>3, <3>1 DEF OneMore
    <3> QED
      BY <3>2, <3>3
  <2> QED
    BY <2>1, <2>2, <2>3
<1> QED
  BY <1>1, <1>2, <1>3, <1>4 DEF Starts

SameFor(s, t, n) == \A i \in 1..n : t[i] = s[i]

LEMMA LineStays ==
  ASSUME NEW line, NEW s, NEW t, NEW p \in Nat, NEW m \in Nat,
         Len(line) \in Nat, p + Len(line) + 2 <= m, LineIn(s, p, line), SameFor(s, t, m)
  PROVE  LineIn(t, p, line)
<1> DEFINE n == Len(line)
<1> HIDE DEF n
<1>1. n \in Nat /\ p + n + 2 <= m
  BY DEF n
<1>2. /\ \A i \in 1..n : p + i \in 1..m
      /\ p + n + 1 \in 1..m /\ p + n + 2 \in 1..m
  BY <1>1
<1>3. /\ \A i \in 1..n : t[p + i] = s[p + i]
      /\ t[p + n + 1] = s[p + n + 1] /\ t[p + n + 2] = s[p + n + 2]
  BY <1>2 DEF SameFor
<1> QED
  BY <1>3 DEF LineIn, n

LEMMA SpelledMore ==
  ASSUME NEW N, NEW q, NEW pos, NEW cnt, Starts(N, q, pos, cnt), NEW line \in Lines,
         NEW q2, NEW pos2, NEW cnt2, OneMore(N, q, pos, cnt, line, q2, pos2, cnt2),
         NEW stream, NEW stream2, Spelled(N, q, pos, stream),
         SameFor(stream, stream2, pos[N]), LineIn(stream2, pos[N], line)
  PROVE  Spelled(N + 1, q2, pos2, stream2)
<1>1. N \in Nat /\ (N + 1) - 1 = N /\ q2[N] = line /\ pos2[N] = pos[N]
  BY DEF Starts, OneMore
<1>2. ASSUME NEW k \in 0..N PROVE LineIn(stream2, pos2[k], q2[k])
  <2>1. k = N \/ k \in 0..N - 1
    BY <1>1
  <2>2. CASE k = N
    BY <1>1, <2>2
  <2>3. CASE k \in 0..N - 1
    <3>1. /\ pos[k] \in Nat /\ pos[N] \in Nat /\ Len(q[k]) \in Nat
          /\ pos[k] + Len(q[k]) + 2 <= pos[N] /\ k \in 0..N
      BY <2>3, LineAt
    <3>2. LineIn(stream, pos[k], q[k])
      BY <2>3 DEF Spelled
    <3>3. LineIn(stream2, pos[k], q[k])
      BY <3>1, <3>2, LineStays
    <3>4. q2[k] = q[k] /\ pos2[k] = pos[k]
      BY <2>3, <3>1 DEF OneMore
    <3> QED
      BY <3>3, <3>4
  <2> QED
    BY <2>1, <2>2, <2>3
<1> QED
  BY <1>1, <1>2 DEF Spelled

LEMMA SaidMore ==
  ASSUME NEW N, NEW q, NEW pos, NEW cnt, Starts(N, q, pos, cnt), NEW line \in Lines,
         NEW q2, NEW pos2, NEW cnt2, OneMore(N, q, pos, cnt, line, q2, pos2, cnt2),
         SaidInOrder(N, q, cnt), said \in Seq(Lines),
         said' = IF line = <<>> THEN said ELSE Append(said, line)
  PROVE  SaidInOrder(N + 1, q2, cnt2)'
<1>0. /\ N \in Nat /\ (N + 1) - 1 = N /\ q2[N] = line /\ cnt2[N] = cnt[N]
      /\ cnt2[N + 1] = cnt[N] + Weight(line) /\ cnt[N] \in Nat
  BY DEF Starts, OneMore
<1>1. /\ Len(said') = Len(said) + Weight(line) /\ Len(said) \in Nat
      /\ \A i \in 1..Len(said) : said'[i] = said[i]
      /\ line # <<>> => said'[Len(said) + 1] = line
  BY DEF Weight
<1>2. Len(said) = cnt[N]
  BY DEF SaidInOrder
<1>3. Len(said') = cnt2[N + 1]
  BY <1>0, <1>1, <1>2
<1>4. ASSUME NEW k \in 0..N, q2[k] # <<>>
      PROVE  said'[cnt2[k] + 1] = q2[k]
  <2>1. k = N \/ k \in 0..N - 1
    BY <1>0
  <2>2. CASE k = N
    BY <1>0, <1>1, <1>2, <1>4, <2>2
  <2>3. CASE k \in 0..N - 1
    <3>1. q2[k] = q[k] /\ cnt2[k] = cnt[k]
      BY <2>3, LineAt DEF OneMore
    <3>2. Weight(q[k]) = 1
      BY <1>4, <3>1 DEF Weight
    <3>3. cnt[k] \in Nat /\ cnt[N] \in Nat /\ cnt[k] + Weight(q[k]) <= cnt[N]
      BY <2>3, LineAt
    <3>4. cnt[k] + 1 \in 1..Len(said)
      BY <1>2, <3>2, <3>3
    <3>5. said[cnt[k] + 1] = q[k]
      BY <1>4, <2>3, <3>1 DEF SaidInOrder
    <3> QED
      BY <1>1, <3>1, <3>4, <3>5
  <2> QED
    BY <2>1, <2>2, <2>3
<1> QED
  BY <1>0, <1>3, <1>4 DEF SaidInOrder

-----------------------------------------------------------------------------
(* The first terminator ends the first line.                               *)

LEMMA TwoSymbols ==
  ASSUME NEW s \in Seq(Symbols), NEW t \in Seq(Symbols),
         Len(s) = 2, Len(t) = 2, s[1] = t[1], s[2] = t[2]
  PROVE  s = t
<1>1. \A k \in 1..2 : k = 1 \/ k = 2
  OBVIOUS
<1>2. \A k \in 1..Len(s) : s[k] = t[k]
  BY <1>1
<1> QED
  BY <1>2, SeqEqual

LEMMA FirstTerminator ==
  ASSUME NEW line \in Lines, NEW b \in Seq(Symbols),
         \A i \in 1..Len(line) : i <= Len(b) => b[i] = line[i],
         Len(line) + 1 <= Len(b) => b[Len(line) + 1] = CR,
         Len(line) + 2 <= Len(b) => b[Len(line) + 2] = LF,
         TerminatorsIn(b) # {}
  PROVE  /\ Min(TerminatorsIn(b)) = Len(line) + 1
         /\ Length(line) <= Len(b)
         /\ SubSeq(b, 1, Len(line)) = line
<1>1. line \in Seq(Symbols) /\ Len(line) \in {0, 1} /\ Length(line) = Len(line) + 2
  BY LineShape DEF Length
<1>2. ASSUME NEW i \in 1..Len(b) - 1
      PROVE  i \in TerminatorsIn(b) <=> b[i] = CR /\ b[i + 1] = LF
  <2>1. /\ SubSeq(b, i, i + 1) \in Seq(Symbols) /\ Len(SubSeq(b, i, i + 1)) = 2
        /\ SubSeq(b, i, i + 1)[1] = b[i] /\ SubSeq(b, i, i + 1)[2] = b[i + 1]
    OBVIOUS
  <2>2. /\ TERMINATOR \in Seq(Symbols) /\ Len(TERMINATOR) = 2
        /\ TERMINATOR[1] = CR /\ TERMINATOR[2] = LF
    BY DEF TERMINATOR, Symbols
  <2>3. SubSeq(b, i, i + 1) = TERMINATOR => b[i] = CR /\ b[i + 1] = LF
    BY ONLY <2>1, <2>2
  <2>4. b[i] = CR /\ b[i + 1] = LF => SubSeq(b, i, i + 1) = TERMINATOR
    BY ONLY <2>1, <2>2, TwoSymbols
  <2> QED
    BY <2>3, <2>4 DEF TerminatorsIn
<1>3. PICK t \in TerminatorsIn(b) : TRUE
  OBVIOUS
<1>4. t \in 1..Len(b) - 1 /\ b[t] = CR /\ b[t + 1] = LF
  <2>1. t \in 1..Len(b) - 1
    BY <1>3 DEF TerminatorsIn
  <2> QED
    BY <1>2, <1>3, <2>1
<1>5. Len(b) >= 2 /\ Len(b) \in Nat
  BY <1>4
<1>6. Len(line) = 1 => 1 \notin TerminatorsIn(b)
  <2>1. 1 \in TerminatorsIn(b) => b[2] = LF
    BY <1>2, <1>5
  <2>2. Len(line) = 1 => b[2] = CR
    BY <1>5
  <2> QED
    BY <2>1, <2>2, FramingAssumption
<1>7. Length(line) <= Len(b)
  <2>1. CASE Len(line) = 0
    BY <1>1, <1>5, <2>1
  <2>2. CASE Len(line) = 1
    <3>1. t # 1
      BY <1>3, <1>6, <2>2
    <3> QED
      BY <1>1, <1>4, <2>2, <3>1
  <2> QED
    BY <1>1, <2>1, <2>2
<1>8. Len(line) + 1 \in TerminatorsIn(b)
  <2>1. b[Len(line) + 1] = CR /\ b[Len(line) + 2] = LF
    BY <1>1, <1>5, <1>7
  <2>2. Len(line) + 1 \in 1..Len(b) - 1 /\ (Len(line) + 1) + 1 = Len(line) + 2
    BY <1>1, <1>5, <1>7
  <2> QED
    BY <1>2, <2>1, <2>2
<1>9. ASSUME NEW u \in TerminatorsIn(b) PROVE u \in Nat /\ Len(line) + 1 <= u
  <2>1. u \in 1..Len(b) - 1
    BY DEF TerminatorsIn
  <2>2. CASE Len(line) = 0
    BY <1>5, <2>1, <2>2
  <2>3. CASE Len(line) = 1
    <3>1. u # 1
      BY <1>6, <2>3
    <3> QED
      BY <1>5, <2>1, <2>3, <3>1
  <2> QED
    BY <1>1, <2>2, <2>3
<1>10. Min(TerminatorsIn(b)) = Len(line) + 1
  BY <1>1, <1>8, <1>9 DEF Min
<1>11. SubSeq(b, 1, Len(line)) = line
  <2>1. /\ SubSeq(b, 1, Len(line)) \in Seq(Symbols) /\ Len(SubSeq(b, 1, Len(line))) = Len(line)
        /\ \A i \in 1..Len(line) : SubSeq(b, 1, Len(line))[i] = b[i]
    BY <1>1, <1>5, <1>7
  <2>2. \A i \in 1..Len(line) : b[i] = line[i]
    BY <1>1, <1>5, <1>7
  <2> QED
    BY <1>1, <2>1, <2>2, SeqEqual
<1> QED
  BY <1>7, <1>10, <1>11

-----------------------------------------------------------------------------
(* The reader has taken the first M lines of the stream, and has heard     *)
(* those of them that are not empty.                                       *)

Bytes == buffer \o wire

LinesOnTheirWay ==
  \E N, q, pos, cnt, stream :
    /\ Starts(N, q, pos, cnt)
    /\ Spelled(N, q, pos, stream)
    /\ SaidInOrder(N, q, cnt)
    /\ \E M \in 0..N : Len(heard) = cnt[M] /\ Rest(Bytes, pos[M], pos[N], stream)

FTypeOK ==
  /\ buffer \in Seq(Symbols)
  /\ wire   \in Seq(Symbols)
  /\ said   \in Seq(Lines)
  /\ heard  \in Seq(Lines)

FInv == IInv /\ FTypeOK /\ LinesOnTheirWay

LEMMA InitFInv == FInit => FInv
<1> SUFFICES ASSUME FInit PROVE FInv
  OBVIOUS
<1>1. IInv
  BY InitIInv DEF FInit
<1>2. FTypeOK
  BY DEF FInit, FTypeOK
<1>3. LinesOnTheirWay
  <2> DEFINE q    == [k \in 0..0 - 1 |-> <<>>]
             zero == [k \in 0..0 |-> 0]
  <2>1. Starts(0, q, zero, zero)
    BY DEF Starts
  <2>2. Spelled(0, q, zero, <<>>)
    BY DEF Spelled
  <2>3. SaidInOrder(0, q, zero)
    BY DEF SaidInOrder, FInit
  <2>4. Bytes = <<>>
    BY DEF Bytes, FInit
  <2>5. Len(heard) = zero[0] /\ Rest(Bytes, zero[0], zero[0], <<>>)
    BY <2>4 DEF Rest, FInit
  <2>6. 0 \in 0..0
    OBVIOUS
  <2> HIDE DEF q, zero
  <2> QED
    BY <2>1, <2>2, <2>3, <2>5, <2>6 DEF LinesOnTheirWay
<1> QED
  BY <1>1, <1>2, <1>3 DEF FInv

LEMMA TerminatorShape ==
  /\ TERMINATOR \in Seq(Symbols) /\ Len(TERMINATOR) = 2
  /\ TERMINATOR[1] = CR /\ TERMINATOR[2] = LF
  BY DEF TERMINATOR, Symbols

LEMMA Associative ==
  \A a, b, c \in Seq(Symbols) : (a \o b) \o c = a \o (b \o c)
  BY ConcatAssociative

LEMMA Concatenated ==
  \A a, b \in Seq(Symbols) :
    /\ Len(a \o b) = Len(a) + Len(b)
    /\ \A i \in 1..Len(a) + Len(b) : (a \o b)[i] = IF i <= Len(a) THEN a[i] ELSE b[i - Len(a)]
  BY ConcatProperties

LEMMA TwoMore ==
  ASSUME NEW v \in Seq(Symbols), NEW t \in Seq(Symbols), Len(t) = 2
  PROVE  /\ Len(v \o t) = Len(v) + 2
         /\ \A i \in 1..Len(v) : (v \o t)[i] = v[i]
         /\ (v \o t)[Len(v) + 1] = t[1] /\ (v \o t)[Len(v) + 2] = t[2]
<1> DEFINE n == Len(v)
<1>1. /\ Len(v \o t) = n + 2 /\ n \in Nat
      /\ \A i \in 1..n + 2 : (v \o t)[i] = IF i <= n THEN v[i] ELSE t[i - n]
  <2>1. n \in Nat
    OBVIOUS
  <2>2. Len(v \o t) = Len(v) + Len(t)
    BY Concatenated
  <2>3. \A i \in 1..Len(v) + Len(t) :
          (v \o t)[i] = IF i <= Len(v) THEN v[i] ELSE t[i - Len(v)]
    BY Concatenated
  <2> HIDE DEF n
  <2> QED
    BY <2>1, <2>2, <2>3 DEF n
<1> HIDE DEF n
<1>2. /\ n + 1 \in 1..n + 2 /\ n + 2 \in 1..n + 2 /\ (n + 1) - n = 1 /\ (n + 2) - n = 2
      /\ ~(n + 1 <= n) /\ ~(n + 2 <= n)
      /\ \A i \in 1..n : i \in 1..n + 2 /\ i <= n
  BY <1>1
<1>3. \A i \in 1..n : (v \o t)[i] = v[i]
  BY <1>1, <1>2
<1>4. (v \o t)[n + 1] = t[1] /\ (v \o t)[n + 2] = t[2]
  BY <1>1, <1>2
<1> QED
  BY <1>1, <1>3, <1>4 DEF n

LEMMA BytesSent ==
  ASSUME NEW b \in Seq(Symbols), NEW w \in Seq(Symbols), NEW line \in Lines,
         NEW w2, w2 = (w \o line) \o TERMINATOR
  PROVE  /\ w2 \in Seq(Symbols)
         /\ Len(b \o w2) = Len(b \o w) + Len(line) + 2
         /\ SameFor(b \o w, b \o w2, Len(b \o w))
         /\ LineIn(b \o w2, Len(b \o w), line)
<1> DEFINE t == TERMINATOR
           u == b \o w
           v == u \o line
           m == w \o line
<1>1. /\ line \in Seq(Symbols) /\ Len(line) \in Nat /\ t \in Seq(Symbols) /\ Len(t) = 2
      /\ t[1] = CR /\ t[2] = LF
  BY LineShape, TerminatorShape
<1>2. u \in Seq(Symbols) /\ v \in Seq(Symbols) /\ m \in Seq(Symbols) /\ Len(u) \in Nat
  BY <1>1
<1>3. b \o m = v
  BY <1>1, Associative, Zenon
<1>4. /\ Len(v) = Len(u) + Len(line)
      /\ \A i \in 1..Len(u) : v[i] = u[i]
      /\ \A i \in 1..Len(line) : v[Len(u) + i] = line[i]
  BY <1>1, <1>2
<1> HIDE DEF t, v, m
<1>5. w2 = m \o t
  BY DEF m, t
<1>6. w2 \in Seq(Symbols)
  BY <1>1, <1>2, <1>5
<1>7. b \o w2 = v \o t
  <2>1. (b \o m) \o t = b \o (m \o t)
    BY <1>1, <1>2, Associative
  <2> QED
    BY <1>3, <1>5, <2>1
<1> DEFINE more == b \o w2
<1>8. /\ Len(more) = Len(v) + 2
      /\ \A i \in 1..Len(v) : more[i] = v[i]
      /\ more[Len(v) + 1] = CR /\ more[Len(v) + 2] = LF
  <2>1. /\ Len(v \o t) = Len(v) + 2
        /\ \A i \in 1..Len(v) : (v \o t)[i] = v[i]
        /\ (v \o t)[Len(v) + 1] = t[1] /\ (v \o t)[Len(v) + 2] = t[2]
    BY ONLY <1>1, <1>2, TwoMore
  <2> QED
    BY <1>1, <1>7, <2>1
<1> HIDE DEF u, more
<1>9. SameFor(u, more, Len(u))
  BY <1>1, <1>2, <1>4, <1>8 DEF SameFor
<1>10. LineIn(more, Len(u), line)
  BY <1>1, <1>2, <1>4, <1>8 DEF LineIn
<1>11. Len(more) = Len(u) + Len(line) + 2
  BY <1>1, <1>2, <1>4, <1>8
<1> QED
  BY <1>6, <1>9, <1>10, <1>11 DEF u, more

LEMMA OneMoreExists ==
  ASSUME NEW N, NEW q, NEW pos, NEW cnt, Starts(N, q, pos, cnt), NEW line \in Lines
  PROVE  \E q2, pos2, cnt2 : OneMore(N, q, pos, cnt, line, q2, pos2, cnt2)
<1>1. N \in Nat /\ q \in [0..N - 1 -> Lines] /\ pos \in [0..N -> Nat] /\ cnt \in [0..N -> Nat]
  BY DEF Starts
<1>2. Length(line) \in Nat /\ Weight(line) \in Nat
  BY LineShape
<1>3. pos[N] + Length(line) \in Nat /\ cnt[N] + Weight(line) \in Nat
  BY <1>1, <1>2
<1>4. /\ \A k \in 0..N : k = N \/ k \in 0..N - 1
      /\ \A k \in 0..N + 1 : k = N + 1 \/ k \in 0..N
      /\ \A k \in 0..N - 1 : k \in 0..N /\ k # N
      /\ \A k \in 0..N : k \in 0..N + 1 /\ k # N + 1
      /\ N \in 0..N /\ N + 1 \in 0..N + 1
  BY <1>1
<1> DEFINE q2   == [k \in 0..N |-> IF k = N THEN line ELSE q[k]]
           pos2 == [k \in 0..N + 1 |-> IF k = N + 1 THEN pos[N] + Length(line) ELSE pos[k]]
           cnt2 == [k \in 0..N + 1 |-> IF k = N + 1 THEN cnt[N] + Weight(line) ELSE cnt[k]]
<1>5. q2 \in [0..N -> Lines]
  BY <1>1, <1>4
<1>6. pos2 \in [0..N + 1 -> Nat]
  BY <1>1, <1>3, <1>4
<1>7. cnt2 \in [0..N + 1 -> Nat]
  BY <1>1, <1>3, <1>4
<1>8. /\ \A k \in 0..N - 1 : q2[k] = q[k]
      /\ \A k \in 0..N : pos2[k] = pos[k] /\ cnt2[k] = cnt[k]
      /\ q2[N] = line
      /\ pos2[N + 1] = pos[N] + Length(line)
      /\ cnt2[N + 1] = cnt[N] + Weight(line)
  BY <1>4
<1> HIDE DEF q2, pos2, cnt2
<1>9. OneMore(N, q, pos, cnt, line, q2, pos2, cnt2)
  BY <1>5, <1>6, <1>7, <1>8 DEF OneMore
<1> QED
  BY <1>9

\* The stream that goes on with what is added to the bytes before the reader.
LEMMA StreamMore ==
  ASSUME NEW p \in Nat, NEW n \in Nat, p <= n, NEW stream, NEW b, Rest(b, p, n, stream),
         NEW line, Len(line) \in Nat,
         NEW b2, Len(b2) = Len(b) + Len(line) + 2,
         SameFor(b, b2, Len(b)), LineIn(b2, Len(b), line)
  PROVE  \E stream2 : /\ SameFor(stream, stream2, n)
                      /\ LineIn(stream2, n, line)
                      /\ Rest(b2, p, n + Length(line), stream2)
<1> DEFINE l       == Len(line)
           stream2 == [i \in 1..n + l + 2 |-> IF i <= n THEN stream[i] ELSE b2[i - p]]
<1>1. l \in Nat /\ Len(b) = n - p /\ Len(b2) = n - p + l + 2
  BY DEF Rest
<1> HIDE DEF l
<1>2. \A i \in 1..n : stream2[i] = stream[i]
  BY <1>1
<1>3. \A i \in n + 1..n + l + 2 : stream2[i] = b2[i - p]
  BY <1>1
<1> HIDE DEF stream2
<1>4. SameFor(stream, stream2, n)
  BY <1>2 DEF SameFor
<1>5. /\ \A i \in 1..l : n + i \in n + 1..n + l + 2 /\ (n + i) - p = Len(b) + i
      /\ n + l + 1 \in n + 1..n + l + 2 /\ (n + l + 1) - p = Len(b) + l + 1
      /\ n + l + 2 \in n + 1..n + l + 2 /\ (n + l + 2) - p = Len(b) + l + 2
  BY <1>1
<1>6. /\ \A i \in 1..l : stream2[n + i] = b2[Len(b) + i]
      /\ stream2[n + l + 1] = b2[Len(b) + l + 1]
      /\ stream2[n + l + 2] = b2[Len(b) + l + 2]
  <2>1. \A i \in 1..l : stream2[n + i] = b2[Len(b) + i]
    BY <1>3, <1>5
  <2>2. stream2[n + l + 1] = b2[(n + l + 1) - p] /\ stream2[n + l + 2] = b2[(n + l + 2) - p]
    BY <1>3, <1>5
  <2> QED
    BY <1>5, <2>1, <2>2
<1>7. LineIn(stream2, n, line)
  BY <1>6 DEF LineIn, l
<1>8. ASSUME NEW i \in 1..Len(b2) PROVE b2[i] = stream2[p + i]
  <2>1. CASE i \in 1..Len(b)
    <3>1. b2[i] = b[i] /\ b[i] = stream[p + i]
      BY <2>1 DEF SameFor, Rest
    <3>2. p + i \in 1..n
      BY <1>1, <2>1
    <3> QED
      BY <1>2, <3>1, <3>2
  <2>2. CASE i \notin 1..Len(b)
    <3>1. p + i \in n + 1..n + l + 2 /\ (p + i) - p = i
      BY <1>1, <2>2
    <3> QED
      BY <1>3, <3>1
  <2> QED
    BY <2>1, <2>2
<1>9. Rest(b2, p, n + l + 2, stream2)
  <2>1. Len(b2) = (n + l + 2) - p
    BY <1>1
  <2> QED
    BY <1>8, <2>1 DEF Rest
<1>10. n + l + 2 = n + Length(line)
  BY <1>1 DEF l, Length
<1> QED
  BY <1>4, <1>7, <1>9, <1>10

\* A line more is on its way: Answer and Chatter.
LEMMA SendsKeepsLines ==
  ASSUME FTypeOK, LinesOnTheirWay, NEW line \in Lines, Sends(line)
  PROVE  FTypeOK' /\ LinesOnTheirWay'
<1>1. /\ wire' = (wire \o line) \o TERMINATOR /\ buffer' = buffer /\ heard' = heard
      /\ said' = IF line = <<>> THEN said ELSE Append(said, line)
  BY DEF Sends
<1>2. /\ wire' \in Seq(Symbols)
      /\ Len(Bytes') = Len(Bytes) + Len(line) + 2
      /\ SameFor(Bytes, Bytes', Len(Bytes))
      /\ LineIn(Bytes', Len(Bytes), line)
  BY <1>1, BytesSent DEF FTypeOK, Bytes
<1>3. FTypeOK'
  BY <1>1, <1>2 DEF FTypeOK
<1>4. PICK N, q, pos, cnt, stream :
        /\ Starts(N, q, pos, cnt)
        /\ Spelled(N, q, pos, stream)
        /\ SaidInOrder(N, q, cnt)
        /\ \E M \in 0..N : Len(heard) = cnt[M] /\ Rest(Bytes, pos[M], pos[N], stream)
  BY DEF LinesOnTheirWay
<1>5. PICK M \in 0..N : Len(heard) = cnt[M] /\ Rest(Bytes, pos[M], pos[N], stream)
  BY <1>4
<1>6. /\ N \in Nat /\ pos[N] \in Nat /\ pos[M] \in Nat /\ pos[M] <= pos[N]
      /\ Len(line) \in Nat /\ Length(line) = Len(line) + 2
  BY <1>4, LineShape DEF Starts
<1>7. PICK q2, pos2, cnt2 : OneMore(N, q, pos, cnt, line, q2, pos2, cnt2)
  BY <1>4, OneMoreExists
<1>8. PICK stream2 : /\ SameFor(stream, stream2, pos[N])
                     /\ LineIn(stream2, pos[N], line)
                     /\ Rest(Bytes', pos[M], pos[N] + Length(line), stream2)
  BY <1>2, <1>5, <1>6, StreamMore
<1>9. /\ pos2[M] = pos[M] /\ cnt2[M] = cnt[M]
      /\ pos2[N + 1] = pos[N] + Length(line) /\ M \in 0..N + 1
  <2>1. M \in 0..N + 1
    BY <1>6
  <2> QED
    BY <1>7, <2>1 DEF OneMore
<1>11. Starts(N + 1, q2, pos2, cnt2) /\ Spelled(N + 1, q2, pos2, stream2)
  BY <1>4, <1>7, <1>8, StartsMore, SpelledMore
<1>12. SaidInOrder(N + 1, q2, cnt2)'
  BY <1>1, <1>4, <1>7, SaidMore DEF FTypeOK
<1>13. Len(heard') = cnt2[M] /\ Rest(Bytes', pos2[M], pos2[N + 1], stream2)
  BY <1>1, <1>5, <1>8, <1>9
<1>14. LinesOnTheirWay'
  BY <1>9, <1>11, <1>12, <1>13 DEF LinesOnTheirWay
<1> QED
  BY <1>3, <1>14

LEMMA Resegment ==
  ASSUME NEW b \in Seq(Symbols), NEW w \in Seq(Symbols), NEW n \in 1..Len(w)
  PROVE  /\ b \o SubSeq(w, 1, n) \in Seq(Symbols) /\ SubSeq(w, n + 1, Len(w)) \in Seq(Symbols)
         /\ (b \o SubSeq(w, 1, n)) \o SubSeq(w, n + 1, Len(w)) = b \o w
<1>1. SubSeq(w, 1, n) \in Seq(Symbols) /\ SubSeq(w, n + 1, Len(w)) \in Seq(Symbols)
  OBVIOUS
<1>2. SubSeq(w, 1, n) \o SubSeq(w, n + 1, Len(w)) = w
  <2>1. SubSeq(w, 1, n) \o SubSeq(w, n + 1, Len(w)) = SubSeq(w, 1, Len(w))
    BY ConcatAdjacentSubSeq
  <2> QED
    BY <2>1, SubSeqFull
<1>3. b \o SubSeq(w, 1, n) \in Seq(Symbols)
  BY <1>1
<1>4. (b \o SubSeq(w, 1, n)) \o SubSeq(w, n + 1, Len(w))
        = b \o (SubSeq(w, 1, n) \o SubSeq(w, n + 1, Len(w)))
  <2> DEFINE w1 == SubSeq(w, 1, n)
             w2 == SubSeq(w, n + 1, Len(w))
  <2>1. w1 \in Seq(Symbols) /\ w2 \in Seq(Symbols)
    BY <1>1
  <2> HIDE DEF w1, w2
  <2>2. (b \o w1) \o w2 = b \o (w1 \o w2)
    BY <2>1, Associative
  <2> QED
    BY <2>2 DEF w1, w2
<1> QED
  BY <1>1, <1>2, <1>3, <1>4

\* A segment arrives: the bytes are the same.
LEMMA RecvKeepsLines ==
  ASSUME FTypeOK, LinesOnTheirWay, Recv
  PROVE  FTypeOK' /\ LinesOnTheirWay'
<1>1. PICK n \in 1..Len(wire) : /\ buffer' = buffer \o SubSeq(wire, 1, n)
                                /\ wire' = SubSeq(wire, n + 1, Len(wire))
  BY DEF Recv
<1>2. UNCHANGED <<said, heard>>
  BY DEF Recv
<1>3. buffer' \in Seq(Symbols) /\ wire' \in Seq(Symbols) /\ Bytes' = Bytes
  BY <1>1, Resegment DEF FTypeOK, Bytes
<1> QED
  BY <1>2, <1>3 DEF FTypeOK, LinesOnTheirWay, SaidInOrder

\* What is left when d bytes are taken from the buffer.
LEMMA Drop ==
  ASSUME NEW b \in Seq(Symbols), NEW w \in Seq(Symbols), NEW d \in 1..Len(b)
  PROVE  /\ SubSeq(b, d + 1, Len(b)) \in Seq(Symbols)
         /\ Len(SubSeq(b, d + 1, Len(b)) \o w) = Len(b \o w) - d
         /\ \A i \in 1..Len(b \o w) - d :
              (SubSeq(b, d + 1, Len(b)) \o w)[i] = (b \o w)[d + i]
<1> DEFINE r == SubSeq(b, d + 1, Len(b))
           n == Len(b)
           m == Len(w)
<1>1. /\ r \in Seq(Symbols) /\ Len(r) = n - d /\ n \in Nat /\ m \in Nat
      /\ \A i \in 1..n - d : r[i] = b[d + i]
  OBVIOUS
<1> HIDE DEF r
<1>2. /\ Len(r \o w) = (n - d) + m
      /\ \A i \in 1..(n - d) + m : (r \o w)[i] = IF i <= n - d THEN r[i] ELSE w[i - (n - d)]
  <2>1. /\ Len(r \o w) = Len(r) + Len(w)
        /\ \A i \in 1..Len(r) + Len(w) :
             (r \o w)[i] = IF i <= Len(r) THEN r[i] ELSE w[i - Len(r)]
    BY <1>1, Concatenated
  <2> QED
    BY <1>1, <2>1
<1>3. /\ Len(b \o w) = n + m
      /\ \A i \in 1..n + m : (b \o w)[i] = IF i <= n THEN b[i] ELSE w[i - n]
  BY Concatenated
<1> HIDE DEF n, m
<1>4. d \in 1..n
  BY DEF n
<1>5. ASSUME NEW i \in 1..(n + m) - d PROVE (r \o w)[i] = (b \o w)[d + i]
  <2>1. i \in 1..(n - d) + m /\ d + i \in 1..n + m
    BY <1>1, <1>4
  <2>2. CASE i <= n - d
    <3>1. (r \o w)[i] = r[i] /\ r[i] = b[d + i]
      BY <1>1, <1>2, <2>1, <2>2
    <3>2. d + i <= n
      BY <1>1, <1>4, <2>2
    <3> QED
      BY <1>3, <2>1, <3>1, <3>2
  <2>3. CASE ~(i <= n - d)
    <3>1. (r \o w)[i] = w[i - (n - d)]
      BY <1>2, <2>1, <2>3
    <3>2. ~(d + i <= n) /\ (d + i) - n = i - (n - d)
      BY <1>1, <1>4, <2>3
    <3> QED
      BY <1>3, <2>1, <3>1, <3>2
  <2> QED
    BY <2>2, <2>3
<1>6. (n - d) + m = (n + m) - d
  BY <1>1, <1>4
<1> QED
  BY <1>1, <1>2, <1>3, <1>5, <1>6 DEF r

LEMMA RestLess ==
  ASSUME NEW p \in Nat, NEW n \in Nat, NEW d \in Nat, NEW stream, NEW b, Rest(b, p, n, stream),
         NEW b2, Len(b2) = Len(b) - d, \A i \in 1..Len(b) - d : b2[i] = b[d + i]
  PROVE  Rest(b2, p + d, n, stream)
<1>1. Len(b) = n - p /\ \A i \in 1..n - p : b[i] = stream[p + i]
  BY DEF Rest
<1>2. Len(b2) = n - (p + d)
  BY <1>1
<1>3. ASSUME NEW i \in 1..Len(b2) PROVE b2[i] = stream[(p + d) + i]
  <2>1. i \in 1..Len(b) - d /\ d + i \in 1..n - p /\ p + (d + i) = (p + d) + i
    BY <1>1, <1>2
  <2> QED
    BY <1>1, <2>1
<1> QED
  BY <1>2, <1>3 DEF Rest

\* A line is taken: it is the next of the stream, and if it is not empty it is
\* the next that was said.
LEMMA YieldKeepsLines ==
  ASSUME FTypeOK, LinesOnTheirWay, Yield
  PROVE  /\ FTypeOK' /\ LinesOnTheirWay'
         /\ [Channel!Hear]_<<said, heard>>
<1>1. PICK N, q, pos, cnt, stream :
        /\ Starts(N, q, pos, cnt)
        /\ Spelled(N, q, pos, stream)
        /\ SaidInOrder(N, q, cnt)
        /\ \E M \in 0..N : Len(heard) = cnt[M] /\ Rest(Bytes, pos[M], pos[N], stream)
  BY DEF LinesOnTheirWay
<1>2. PICK M \in 0..N : Len(heard) = cnt[M] /\ Rest(Bytes, pos[M], pos[N], stream)
  BY <1>1
<1>3. N \in Nat /\ pos[N] \in Nat /\ pos[M] \in Nat /\ cnt[M] \in Nat
  BY <1>1 DEF Starts
<1>4. /\ Len(Bytes) = Len(buffer) + Len(wire) /\ Len(buffer) \in Nat /\ Len(wire) \in Nat
      /\ \A i \in 1..Len(buffer) : i \in 1..Len(Bytes) /\ Bytes[i] = buffer[i]
  <2>1. buffer \in Seq(Symbols) /\ wire \in Seq(Symbols)
    BY DEF FTypeOK
  <2>2. /\ Len(Bytes) = Len(buffer) + Len(wire)
        /\ \A i \in 1..Len(buffer) + Len(wire) :
             Bytes[i] = IF i <= Len(buffer) THEN buffer[i] ELSE wire[i - Len(buffer)]
    BY <2>1, Concatenated DEF Bytes
  <2>3. Len(buffer) \in Nat /\ Len(wire) \in Nat
    BY <2>1
  <2> QED
    BY <2>2, <2>3
<1>5. M \in 0..N - 1
  <2>1. PICK t \in TerminatorsIn(buffer) : TRUE
    BY DEF Yield
  <2>2. Len(buffer) > 0
    BY <1>4, <2>1 DEF TerminatorsIn
  <2>3. pos[N] - pos[M] > 0
    BY <1>2, <1>4, <2>2 DEF Rest
  <2>4. M # N
    BY <1>3, <2>3
  <2> QED
    BY <1>3, <2>4
<1> DEFINE line == q[M]
<1>6. /\ line \in Lines /\ M + 1 \in 0..N
      /\ Len(line) \in {0, 1} /\ Weight(line) \in {0, 1}
      /\ pos[M + 1] = pos[M] + Length(line)
      /\ cnt[M + 1] = cnt[M] + Weight(line) /\ cnt[M] + Weight(line) <= cnt[N] /\ cnt[N] \in Nat
  <2>1. pos[M + 1] = pos[M] + Length(line)
    BY <1>1, <1>5 DEF Starts
  <2> QED
    BY <1>1, <1>5, <2>1, LineAt
<1> HIDE DEF line
<1>7. LineIn(stream, pos[M], line)
  BY <1>1, <1>5 DEF Spelled, line
<1>8. /\ \A i \in 1..Len(line) : i <= Len(buffer) => buffer[i] = line[i]
      /\ Len(line) + 1 <= Len(buffer) => buffer[Len(line) + 1] = CR
      /\ Len(line) + 2 <= Len(buffer) => buffer[Len(line) + 2] = LF
  <2>1. \A i \in 1..Len(buffer) : buffer[i] = stream[pos[M] + i]
    BY <1>2, <1>4 DEF Rest
  <2>2. Len(line) \in Nat
    BY <1>6
  <2>3. \A i \in 1..Len(line) : i <= Len(buffer) => buffer[i] = line[i]
    <3> SUFFICES ASSUME NEW i \in 1..Len(line), i <= Len(buffer) PROVE buffer[i] = line[i]
      OBVIOUS
    <3>1. i \in 1..Len(buffer)
      BY <1>4, <2>2
    <3> QED
      BY <1>7, <2>1, <3>1 DEF LineIn
  <2>4. Len(line) + 1 <= Len(buffer) => buffer[Len(line) + 1] = CR
    <3>1. pos[M] + (Len(line) + 1) = pos[M] + Len(line) + 1
      BY <1>3, <2>2
    <3>2. Len(line) + 1 <= Len(buffer) => Len(line) + 1 \in 1..Len(buffer)
      BY <1>4, <2>2
    <3> QED
      BY <1>7, <2>1, <3>1, <3>2 DEF LineIn
  <2>5. Len(line) + 2 <= Len(buffer) => buffer[Len(line) + 2] = LF
    <3>1. pos[M] + (Len(line) + 2) = pos[M] + Len(line) + 2
      BY <1>3, <2>2
    <3>2. Len(line) + 2 <= Len(buffer) => Len(line) + 2 \in 1..Len(buffer)
      BY <1>4, <2>2
    <3> QED
      BY <1>7, <2>1, <3>1, <3>2 DEF LineIn
  <2> QED
    BY <2>3, <2>4, <2>5
<1>9. /\ Min(TerminatorsIn(buffer)) = Len(line) + 1
      /\ Length(line) <= Len(buffer) /\ SubSeq(buffer, 1, Len(line)) = line
  BY <1>6, <1>8, FirstTerminator DEF FTypeOK, Yield
<1>10. Length(line) \in 1..Len(buffer) /\ Length(line) \in Nat /\ Length(line) = Len(line) + 2
  BY <1>4, <1>6, <1>9 DEF Length
<1>11. /\ heard' = IF line = <<>> THEN heard ELSE Append(heard, line)
       /\ buffer' = SubSeq(buffer, Length(line) + 1, Len(buffer))
       /\ UNCHANGED <<wire, said>>
  <2>1. (Len(line) + 1) - 1 = Len(line) /\ (Len(line) + 1) + 2 = Length(line) + 1
    BY <1>6, <1>10
  <2> QED
    BY <1>9, <2>1 DEF Yield
<1>12. /\ buffer' \in Seq(Symbols) /\ Len(Bytes') = Len(Bytes) - Length(line)
       /\ \A i \in 1..Len(Bytes) - Length(line) : (Bytes')[i] = Bytes[Length(line) + i]
  BY <1>10, <1>11, Drop DEF FTypeOK, Bytes
<1>13. FTypeOK'
  <2>1. heard' \in Seq(Lines)
    BY <1>6, <1>11 DEF FTypeOK
  <2> QED
    BY <1>11, <1>12, <2>1 DEF FTypeOK
<1>14. Rest(Bytes', pos[M + 1], pos[N], stream)
  <2>1. Rest(Bytes', pos[M] + Length(line), pos[N], stream)
    BY <1>2, <1>3, <1>10, <1>12, RestLess
  <2> QED
    BY <1>6, <2>1
<1>15. Len(heard') = cnt[M + 1]
  <2>1. Len(heard') = Len(heard) + Weight(line)
    BY <1>11 DEF FTypeOK, Weight
  <2> QED
    BY <1>2, <1>6, <2>1
<1>16. LinesOnTheirWay'
  <2>1. SaidInOrder(N, q, cnt)'
    BY <1>1, <1>11 DEF SaidInOrder
  <2> QED
    BY <1>1, <1>6, <1>14, <1>15, <2>1 DEF LinesOnTheirWay
<1>17. [Channel!Hear]_<<said, heard>>
  <2>1. CASE line = <<>>
    BY <1>11, <2>1
  <2>2. CASE line # <<>>
    <3>1. Weight(line) = 1 /\ said[cnt[M] + 1] = line /\ Len(said) = cnt[N]
      BY <1>1, <1>5, <2>2 DEF SaidInOrder, Weight, line
    <3>2. Len(heard) < Len(said)
      BY <1>2, <1>3, <1>6, <3>1
    <3>3. heard' = Append(heard, said[Len(heard) + 1])
      BY <1>2, <1>11, <2>2, <3>1
    <3> QED
      BY <1>11, <3>2, <3>3 DEF Channel!Hear
  <2> QED
    BY <2>1, <2>2
<1> QED
  BY <1>13, <1>16, <1>17

-----------------------------------------------------------------------------
(* The channel.                                                            *)

LEMMA SendsSays ==
  ASSUME FTypeOK, NEW line, Sends(line)
  PROVE  [Channel!Say]_<<said, heard>>
<1>1. CASE line = <<>>
  BY <1>1 DEF Sends
<1>2. CASE line # <<>>
  <2>1. said' = Append(said, line) /\ heard' = heard
    BY <1>2 DEF Sends
  <2>2. \E S : said \in Seq(S) /\ line \in S
    <3>1. said \in Seq(Lines \cup {line})
      BY DEF FTypeOK
    <3> QED
      BY <3>1
  <2>3. Len(said') = Len(said) + 1 /\ SubSeq(said', 1, Len(said)) = said
    <3>1. PICK S : said \in Seq(S) /\ line \in S
      BY <2>2
    <3>2. said' \in Seq(S) /\ Len(said') = Len(said) + 1 /\ Len(said) \in Nat
          /\ \A i \in 1..Len(said) : said'[i] = said[i]
      BY <2>1, <3>1
    <3>3. /\ SubSeq(said', 1, Len(said)) \in Seq(S) /\ Len(SubSeq(said', 1, Len(said))) = Len(said)
          /\ \A i \in 1..Len(said) : SubSeq(said', 1, Len(said))[i] = said'[i]
      BY <3>2
    <3> QED
      BY <3>1, <3>2, <3>3, SeqEqual
  <2> QED
    BY <2>1, <2>3 DEF Channel!Say
<1> QED
  BY <1>1, <1>2

LEMMA NextFInv ==
  ASSUME FInv, [FNext]_<<vars, framing>>
  PROVE  /\ FInv'
         /\ [Next]_vars
         /\ [Channel!Next]_<<said, heard>>
<1> USE DEF FInv
<1>1. ASSUME NEW n \in issued, Answer(n) PROVE \E line \in Lines : Sends(line)
  <2>1. n \in Nat
    BY DEF IInv, TypeOK
  <2> QED
    BY <1>1, <2>1 DEF Answer, Lines
<1>2. ASSUME Chatter PROVE \E line \in Lines : Sends(line)
  BY <1>2 DEF Chatter, Lines
<1>3. CASE \E line \in Lines : Sends(line)
  <2>1. PICK line \in Lines : Sends(line)
    BY <1>3
  <2>2. UNCHANGED vars
    BY <2>1 DEF Sends
  <2>3. IInv'
    BY <2>2, NextIInv
  <2> QED
    BY <2>1, <2>2, <2>3, SendsKeepsLines, SendsSays DEF Channel!Next
<1>4. CASE Recv
  <2>1. UNCHANGED vars /\ UNCHANGED <<said, heard>>
    BY <1>4 DEF Recv
  <2>2. IInv'
    BY <2>1, NextIInv
  <2> QED
    BY <1>4, <2>1, <2>2, RecvKeepsLines
<1>5. CASE Yield
  <2>1. UNCHANGED vars
    BY <1>5 DEF Yield
  <2>2. IInv'
    BY <2>1, NextIInv
  <2> QED
    BY <1>5, <2>1, <2>2, YieldKeepsLines DEF Channel!Next
<1>6. CASE [Next]_vars /\ UNCHANGED framing
  <2>1. IInv'
    BY <1>6, NextIInv
  <2>2. UNCHANGED <<wire, buffer, said, heard>>
    BY <1>6 DEF framing
  <2>3. FTypeOK' /\ LinesOnTheirWay'
    BY <2>2 DEF FTypeOK, LinesOnTheirWay, Bytes, SaidInOrder
  <2> QED
    BY <1>6, <2>1, <2>2, <2>3
<1> QED
  BY <1>1, <1>2, <1>3, <1>4, <1>5, <1>6 DEF FNext, Number

\* The numbers stay distinct while the answers to them arrive.
THEOREM FreshNumbersFramed == FSpec => NumbersAreFresh
<1>1. FInit => Init /\ FInv
  BY InitFInv DEF FInit
<1>2. FInv /\ [FNext]_<<vars, framing>> => FInv' /\ [Next]_vars
  BY NextFInv
<1>3. FSpec => Spec
  BY <1>1, <1>2, PTL DEF FSpec, Spec
<1> QED
  BY <1>3, FreshNumbers, PTL

\* LineSocket.lines is a channel of lines, each heard whole, once and in order:
\* for segments of any length, lines of noise that are empty or hold half a
\* terminator, and answers in any order.
THEOREM LinesAreAChannel == FSpec => ImplementsChannel
<1>1. FInit => Channel!Init
  BY DEF FInit, Channel!Init
<1>2. FInv /\ [FNext]_<<vars, framing>> => FInv' /\ [Channel!Next]_<<said, heard>>
  BY NextFInv
<1> QED
  BY <1>1, <1>2, InitFInv, PTL DEF FSpec, ImplementsChannel, Channel!Spec
=============================================================================
