------------------------------- MODULE Transport -------------------------------
(***************************************************************************)
(* What api/fallback.py's Transport promises FallbackClient, whichever way *)
(* it reaches the device and however many threads call it: an exchange is  *)
(* answered only when the device has had its frame, the device gets a      *)
(* frame at most once, even after its call has ended, and not at all once  *)
(* the call was told that it reached nobody.                               *)
(***************************************************************************)
EXTENDS Naturals

CONSTANTS Callers, Sns

VARIABLES
  busy,     \* who is in query or control
  sn,       \* the number of each caller's last frame
  outcome,  \* how its exchange ended
  lastSn,   \* the highest number handed out
  received  \* how often the device got each frame

Init ==
  /\ busy = [c \in Callers |-> FALSE]
  /\ sn = [c \in Callers |-> 0]
  /\ outcome = [c \in Callers |-> "none"]
  /\ lastSn = 0
  /\ received = [s \in Sns |-> 0]

Begin(c) ==
  /\ ~busy[c]
  /\ busy' = [busy EXCEPT ![c] = TRUE]
  /\ lastSn' \in {s \in Sns : s > lastSn}
  /\ sn' = [sn EXCEPT ![c] = lastSn']
  /\ outcome' = [outcome EXCEPT ![c] = "none"]
  /\ UNCHANGED received

\* The device gets a frame, in the course of its call or after.
Receive(s) ==
  /\ s <= lastSn
  /\ received[s] = 0
  /\ \A c \in Callers : outcome[c] = "undelivered" => sn[c] # s
  /\ received' = [received EXCEPT ![s] = 1]
  /\ UNCHANGED <<busy, sn, outcome, lastSn>>

\* What may be said of a frame.
Holds(how, s) ==
  \/ how = "reply" /\ received[s] = 1
  \/ how = "undelivered" /\ received[s] = 0
  \/ how = "error"

End(c, how) ==
  /\ busy[c]
  /\ Holds(how, sn[c])
  /\ busy' = [busy EXCEPT ![c] = FALSE]
  /\ outcome' = [outcome EXCEPT ![c] = how]
  /\ UNCHANGED <<sn, lastSn, received>>

Next ==
  \/ \E c \in Callers : Begin(c)
  \/ \E c \in Callers, how \in {"reply", "undelivered", "error"} : End(c, how)
  \/ \E s \in Sns : Receive(s)

Spec == Init /\ [][Next]_<<busy, sn, outcome, lastSn, received>>
=============================================================================
