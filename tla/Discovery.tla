------------------------------ MODULE Discovery ------------------------------
(***************************************************************************)
(* api/discovery.py: find_device_ip, a probe broadcast over UDP and a      *)
(* window in which the replies are read.                                   *)
(*                                                                         *)
(* Each search has a socket of its own.  A reply may be lost, or late: it  *)
(* then carries an address the device has given up since.  Reading another *)
(* device's reply, or one that does not parse, changes nothing.            *)
(***************************************************************************)
CONSTANTS Searchers, Devices, Addresses, None

VARIABLES
  address,  \* environment: where each device is
  held      \* the addresses each device has had during each search

\* The socket is opened and the probe sent.
StartSearch(s) ==
  /\ held' = [held EXCEPT ![s] = [d \in Devices |-> {address[d]}]]
  /\ UNCHANGED address

\* Mutant: the first device that answers will do.
Matching_Any(d) == Devices

\* The devices whose reply ends a search for d.
Matching(d) == {e \in Devices : e = d}

\* What find_device_ip may return: the device's own view of its address, or its
\* packet's; None at the deadline, or when recvfrom fails.
SearchResults(s, d) == {None} \cup UNION {held[s][e] : e \in Matching(d)}

EndSearch(s) ==
  /\ held' = [held EXCEPT ![s] = [d \in Devices |-> {}]]
  /\ UNCHANGED address

\* A lease changes.
Move(d) ==
  /\ \E a \in Addresses \ {address[d]} :
       /\ address' = [address EXCEPT ![d] = a]
       /\ held' = [s \in Searchers |->
                     IF held[s][d] = {} THEN held[s]
                     ELSE [held[s] EXCEPT ![d] = @ \cup {a}]]
=============================================================================
