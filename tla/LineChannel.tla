----------------------------- MODULE LineChannel -----------------------------
(***************************************************************************)
(* What api/wire.py's LineSocket promises: every line the far end sends is *)
(* heard whole, once, and in order.                                        *)
(***************************************************************************)
EXTENDS Naturals, Sequences

VARIABLES
  said,   \* the lines sent
  heard   \* the lines yielded

Init == said = <<>> /\ heard = <<>>

\* Any line is sent.
Say ==
  /\ Len(said') = Len(said) + 1
  /\ SubSeq(said', 1, Len(said)) = said
  /\ UNCHANGED heard

Hear ==
  /\ Len(heard) < Len(said)
  /\ heard' = Append(heard, said[Len(heard) + 1])
  /\ UNCHANGED said

Next == Say \/ Hear

Spec == Init /\ [][Next]_<<said, heard>>
=============================================================================
