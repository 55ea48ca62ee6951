------------------------------- MODULE Account -------------------------------
(***************************************************************************)
(* api/account.py: CozyLife's HTTP API, asked once per flow for the        *)
(* devices of an account and their keys.                                   *)
(*                                                                         *)
(* A key is its version: re-pairing a device in the app gives it the next. *)
(***************************************************************************)
EXTENDS Naturals

CONSTANTS
  Devices,
  MaxKey,  \* bound: versions of a device's key
  None

VARIABLE key  \* environment: each device's current device_key

Keys == 1..MaxKey

\* What one request can come to.  "refused" is any ret but 1.
Responses == {"ok", "refused", "httpError", "unreachable", "garbled", "cutOff"}

\* What _request and _raise_for_ret make of it.  A body that is cut off or does
\* not arrive in time raises outside of urlopen, and passes through.
Raised(r) ==
  CASE r = "ok"      -> None
    [] r = "refused" -> "AuthError"
    [] r = "cutOff"  -> "OSError"
    [] OTHER         -> "CozyLifeError"

\* login also insists on a token.
LoginRaises == {Raised(r) : r \in Responses} \cup {"AuthError"}

\* devices also reads each port as a number.
DevicesRaises == {Raised(r) : r \in Responses} \cup {"ValueError"}

\* The device list: those of some account that have a key.
Listed(account) == [d \in account |-> key[d]]

Repair(d) ==
  /\ key[d] < MaxKey
  /\ key' = [key EXCEPT ![d] = @ + 1]
=============================================================================
