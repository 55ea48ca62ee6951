----------------------------- MODULE LineFraming -----------------------------
(***************************************************************************)
(* api/wire.py's LineSocket.lines over a TCP byte stream, carrying the     *)
(* answers to frames numbered by api/protocol.py's new_sn.                 *)
(*                                                                         *)
(* A line is a sequence of symbols: the number it echoes, or noise, which  *)
(* may be empty and may hold half a terminator.  TCP delivers the bytes in *)
(* segments of any length: a segment may carry several lines, a line may   *)
(* straddle two segments, and so may its CRLF.  lines() may be left at any *)
(* yield and entered again by the next call; all it keeps is the buffer.   *)
(***************************************************************************)
EXTENDS SequenceNumber, Sequences, SequencesExt

CONSTANTS
  CR, LF,
  MaxNoise  \* bound: lines of noise

ASSUME FramingAssumption == CR # LF /\ {CR, LF} \cap Nat = {} /\ MaxNoise \in Nat

TERMINATOR == <<CR, LF>>
Noise      == {<<>>, <<CR>>, <<LF>>}

VARIABLES
  wire,    \* bytes sent and not yet received
  buffer,  \* _buffer
  said,    \* history: the lines the far end sent, empty ones apart
  heard,   \* history: the lines yielded
  noise    \* lines of noise sent

framing == <<wire, buffer, said, heard, noise>>

FInit ==
  /\ Init
  /\ wire = <<>>
  /\ buffer = <<>>
  /\ said = <<>>
  /\ heard = <<>>
  /\ noise = 0

\* new_sn goes on in the threads that send.
Number == Next /\ UNCHANGED framing

Sends(line) ==
  /\ wire' = wire \o line \o TERMINATOR
  /\ said' = IF line = <<>> THEN said ELSE Append(said, line)
  /\ UNCHANGED <<vars, buffer, heard>>

\* The far end answers a frame, in any order, or sends something else.
Answer(n) ==
  /\ <<n>> \notin ToSet(said)
  /\ Sends(<<n>>)
  /\ UNCHANGED noise

Chatter ==
  /\ noise < MaxNoise
  /\ \E line \in Noise : Sends(line)
  /\ noise' = noise + 1

TerminatorsIn(b) == {i \in 1..Len(b) - 1 : SubSeq(b, i, i + 1) = TERMINATOR}

\* Mutant: what is left of the last segment is forgotten.
Recv_FreshBuffer ==
  /\ TerminatorsIn(buffer) = {}
  /\ \E n \in 1..Len(wire) :
       /\ buffer' = SubSeq(wire, 1, n)
       /\ wire' = SubSeq(wire, n + 1, Len(wire))
  /\ UNCHANGED <<vars, said, heard, noise>>

\* No line left to yield: one recv.
Recv ==
  /\ TerminatorsIn(buffer) = {}
  /\ \E n \in 1..Len(wire) :
       /\ buffer' = buffer \o SubSeq(wire, 1, n)
       /\ wire' = SubSeq(wire, n + 1, Len(wire))
  /\ UNCHANGED <<vars, said, heard, noise>>

\* partition(TERMINATOR); an empty line is not yielded.
Yield ==
  /\ TerminatorsIn(buffer) # {}
  /\ LET t    == Min(TerminatorsIn(buffer))
         line == SubSeq(buffer, 1, t - 1)
     IN /\ heard' = IF line = <<>> THEN heard ELSE Append(heard, line)
        /\ buffer' = SubSeq(buffer, t + 2, Len(buffer))
  /\ UNCHANGED <<vars, wire, said, noise>>

FNext ==
  \/ Number
  \/ \E n \in issued : Answer(n)
  \/ Chatter
  \/ Recv
  \/ Yield

FSpec == FInit /\ [][FNext]_<<vars, framing>>

-----------------------------------------------------------------------------
(* Properties.                                                             *)

Channel == INSTANCE LineChannel

\* "A single TCP segment can carry several frames and a frame can straddle two
\* segments": however the bytes are cut up, LineSocket is a channel of lines,
\* each heard whole, once and in order.
ImplementsChannel == Channel!Spec
=============================================================================
