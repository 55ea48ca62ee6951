------------------------------ MODULE ConfigFlow ------------------------------
(***************************************************************************)
(* config_flow.py: adding a device from an account, and reconfiguring one, *)
(* with api/account.py and api/discovery.py behind it.                     *)
(*                                                                         *)
(* A flow runs on the event loop and waits for the executor twice: for the *)
(* account's device list and for the search.  Other flows go on meanwhile, *)
(* keys and addresses change, and a form stays open for as long as the     *)
(* user likes.  Home Assistant is external: a unique ID is in use by the   *)
(* flow in progress that set it, an unknown exception leaves the form.     *)
(***************************************************************************)
EXTENDS Naturals, FiniteSets

CONSTANTS
  Flows, Devices, Addresses,
  Restless,  \* devices that move and are re-paired
  MaxKey,    \* bound: see Account
  None

ASSUME BoundsAssumption == MaxKey \in Nat \ {0}
ASSUME RestlessAssumption == Restless \subseteq Devices

VARIABLES
  step,      \* where each flow is
  target,    \* the entry it reconfigures, None when it adds a device
  fetched,   \* _devices: what its login listed, with the keys
  chosen,    \* _device, and the unique ID of a flow that adds a device
  entries,   \* the configured devices' entries
  asked,     \* history: the keys when its credentials were submitted
  created,   \* history: how often each device was added
  key, address, held

INSTANCE Account
INSTANCE Discovery WITH Searchers <- Flows

searches == <<address, held>>
flow     == <<step, target, fetched, chosen, asked>>
results  == <<entries, created>>
vars     == <<flow, results, key, searches>>

Forms == {"credentials", "device", "address"}
Waits == {"login", "list", "search"}

Nothing == [d \in {} |-> 0]
\* An entry, and the device whose key and address it holds.
Entries == [of : Devices, key : Keys, ip : Addresses]

ASSUME NoneAssumption == None \notin Devices \cup Addresses \cup Entries

TypeOK ==
  /\ step    \in [Flows -> Forms \cup Waits \cup {"done"}]
  /\ target  \in [Flows -> Devices \cup {None}]
  /\ fetched \in [Flows -> UNION {[D -> Keys] : D \in SUBSET Devices}]
  /\ chosen  \in [Flows -> Devices \cup {None}]
  /\ entries \in [Devices -> Entries \cup {None}]
  /\ asked   \in [Flows -> {Nothing} \cup [Devices -> Keys]]
  /\ created \in [Devices -> Nat]
  /\ key     \in [Devices -> Keys]
  /\ address \in [Devices -> Addresses]
  /\ held    \in [Flows -> [Devices -> SUBSET Addresses]]
  /\ \A f \in Flows : step[f] \in {"search", "address"} => chosen[f] \in DOMAIN fetched[f]

Init ==
  /\ step = [f \in Flows |-> "done"]
  /\ target = [f \in Flows |-> None]
  /\ fetched = [f \in Flows |-> Nothing]
  /\ chosen = [f \in Flows |-> None]
  /\ entries = [d \in Devices |-> None]
  /\ key = [d \in Devices |-> 1]
  /\ asked = [f \in Flows |-> Nothing]
  /\ created = [d \in Devices |-> 0]
  /\ address \in [Devices -> Addresses]
  /\ held = [f \in Flows |-> [d \in Devices |-> {}]]

-----------------------------------------------------------------------------
(* The steps of a flow.                                                    *)

Goto(f, from, to) ==
  /\ step[f] = from
  /\ step' = [step EXCEPT ![f] = to]

\* The flow is over: aborted, or done.  Its unique ID is free again.
Leave(f) ==
  /\ step' = [step EXCEPT ![f] = "done"]
  /\ target' = [target EXCEPT ![f] = None]
  /\ fetched' = [fetched EXCEPT ![f] = Nothing]
  /\ chosen' = [chosen EXCEPT ![f] = None]
  /\ asked' = [asked EXCEPT ![f] = Nothing]

\* The user adds a device, or reconfigures one that has an entry.
Start(f) ==
  /\ Goto(f, "done", "credentials")
  /\ \E e \in {None} \cup {d \in Devices : entries[d] # None} :
       target' = [target EXCEPT ![f] = e]
  /\ UNCHANGED <<fetched, chosen, asked, results, key, searches>>

Submit(f) ==
  /\ Goto(f, "credentials", "login")
  /\ asked' = [asked EXCEPT ![f] = key]
  /\ UNCHANGED <<target, fetched, chosen, results, key, searches>>

\* Mutant: what failed is tried again.
Fail_Retries(f, from, raised) ==
  /\ raised # None
  /\ Goto(f, from, "login")
  /\ UNCHANGED <<target, fetched, chosen, asked, results, key, searches>>

\* The form again, with "invalid_auth", "cannot_connect", or Home Assistant's
\* "unknown" for an exception the flow does not catch.
Fail(f, from, raised) ==
  /\ raised # None
  /\ Goto(f, from, "credentials")
  /\ UNCHANGED <<target, fetched, chosen, asked, results, key, searches>>

LogIn(f) ==
  \/ /\ Goto(f, "login", "list")
     /\ UNCHANGED <<target, fetched, chosen, asked, results, key, searches>>
  \/ \E raised \in LoginRaises : Fail(f, "login", raised)

\* Mutant: flows in progress are not asked.
MayAdd_UncheckedFlows(f, d) == entries[d] = None

\* async_set_unique_id, and _abort_if_unique_id_configured.
MayAdd(f, d) ==
  /\ \A g \in Flows \ {f} : target[g] = None => chosen[g] # d
  /\ entries[d] = None

\* The device's data is at hand, and its address is looked for.
Locate(f, d, listed) ==
  /\ step' = [step EXCEPT ![f] = "search"]
  /\ chosen' = [chosen EXCEPT ![f] = d]
  /\ fetched' = [fetched EXCEPT ![f] = listed]
  /\ StartSearch(f)
  /\ UNCHANGED <<target, asked>>

\* async_abort, and AbortFlow.
Abort(f) == Leave(f) /\ UNCHANGED searches

\* _async_configure, up to the search.
Configure(f, d, listed) ==
  IF MayAdd(f, d) THEN Locate(f, d, listed) ELSE Abort(f)

\* One device is configured at once, several are offered as a choice.
ListToAdd(f, listed) ==
  \/ DOMAIN listed = {} /\ Abort(f)
  \/ \E d \in Devices : DOMAIN listed = {d} /\ Configure(f, d, listed)
  \/ /\ Cardinality(DOMAIN listed) > 1
     /\ step' = [step EXCEPT ![f] = "device"]
     /\ fetched' = [fetched EXCEPT ![f] = listed]
     /\ UNCHANGED <<target, chosen, asked, searches>>

\* Mutant: the first device listed will do.
Matches_Any(f, listed) == DOMAIN listed

\* The entry's own device, if this account lists it.
Matches(f, listed) == DOMAIN listed \cap {target[f]}

ListToRefresh(f, listed) ==
  \/ Matches(f, listed) = {} /\ Abort(f)
  \/ \E d \in Matches(f, listed) : Locate(f, d, listed)

\* The device list of whatever account the user signed in to.
List(f) ==
  \/ /\ step[f] = "list"
     /\ \E account \in SUBSET Devices :
          \/ target[f] = None /\ ListToAdd(f, Listed(account))
          \/ target[f] # None /\ ListToRefresh(f, Listed(account))
     /\ UNCHANGED <<results, key>>
  \/ \E raised \in DevicesRaises : Fail(f, "list", raised)

\* async_step_device: the list may be hours old by now.
Choose(f) ==
  /\ step[f] = "device"
  /\ \E d \in DOMAIN fetched[f] : Configure(f, d, fetched[f])
  /\ UNCHANGED <<results, key>>

\* Mutant: an entry keeps the key it has.
Data_OldKey(f, a) ==
  [of |-> chosen[f],
   key |-> IF target[f] = None THEN fetched[f][chosen[f]] ELSE entries[target[f]].key,
   ip |-> a]

Data(f, a) == [of |-> chosen[f], key |-> fetched[f][chosen[f]], ip |-> a]

\* _create_entry.
Create(f, a) ==
  /\ entries' = [entries EXCEPT ![chosen[f]] = Data(f, a)]
  /\ created' = [created EXCEPT ![chosen[f]] = @ + 1]
  /\ Leave(f)

KeptIp(f, found) == IF found # None THEN found ELSE entries[target[f]].ip

\* async_update_reload_and_abort.
Update(f, found) ==
  /\ entries' = [entries EXCEPT ![target[f]] = Data(f, KeptIp(f, found))]
  /\ Leave(f)
  /\ UNCHANGED created

\* The search is over: the entry is written, or the address asked for.
Located(f) ==
  /\ step[f] = "search"
  /\ \E found \in SearchResults(f, chosen[f]) :
       \/ target[f] # None /\ Update(f, found)
       \/ target[f] = None /\ found # None /\ Create(f, found)
       \/ /\ target[f] = None /\ found = None
          /\ step' = [step EXCEPT ![f] = "address"]
          /\ UNCHANGED <<target, fetched, chosen, asked, results>>
  /\ EndSearch(f)
  /\ UNCHANGED key

\* The form that led to a search.
FormBefore(f) ==
  IF target[f] = None /\ Cardinality(DOMAIN fetched[f]) > 1 THEN "device" ELSE "credentials"

\* No socket to search with: find_device_ip raises an OSError, and the flow does
\* not catch it.  It keeps its list and its unique ID.
SearchRaises(f) ==
  /\ Goto(f, "search", FormBefore(f))
  /\ EndSearch(f)
  /\ UNCHANGED <<target, fetched, chosen, asked, results, key>>

\* async_step_address: the user types it.
Address(f) ==
  /\ step[f] = "address"
  /\ \E a \in Addresses : Create(f, a)
  /\ UNCHANGED <<key, searches>>

\* The user closes a form.
Abandon(f) ==
  /\ step[f] \in Forms
  /\ Abort(f)
  /\ UNCHANGED <<results, key>>

\* What goes on without the user.
Progress(f) ==
  LogIn(f) \/ List(f) \/ Located(f) \/ SearchRaises(f)

Next ==
  \/ \E f \in Flows :
       \/ Start(f) \/ Submit(f) \/ Choose(f) \/ Address(f) \/ Abandon(f)
       \/ Progress(f)
  \/ \E d \in Restless :
       \/ Repair(d) /\ UNCHANGED <<flow, results, searches>>
       \/ Move(d) /\ UNCHANGED <<flow, results, key>>

Spec == Init /\ [][Next]_vars

\* The executor's jobs return and deadlines pass.  Users and devices owe nothing.
Fairness == \A f \in Flows : WF_vars(Progress(f))

FairSpec == Spec /\ Fairness

-----------------------------------------------------------------------------
(* Properties.                                                             *)

\* No device is added twice, and no entry replaced by another flow's, though
\* each flow checks before its search and writes after it, or after a form that
\* was open for hours.
AddedOnce == \A d \in Devices : created[d] <= 1

\* "Rather than silently repointing the entry at somebody else's socket"
\* (config_flow.py:145): an entry holds the key and the address of its own device,
\* whatever account the user signs in to.
NeverRepointed == \A d \in Devices : entries[d] # None => entries[d].of = d

\* Reconfiguring does what it is for ("refresh a configured device's credentials",
\* config_flow.py:118), and adding does not store what an earlier login listed:
\* whether an entry is written at the end of a search or after an address form
\* that stayed open for hours, its key is no older than the credentials submitted.
KeysAreFetched ==
  [][\A f \in Flows :
       /\ step[f] \in {"search", "address"} /\ step'[f] = "done"
       /\ (step[f] = "address" => entries' # entries)
       => entries'[chosen[f]].key >= asked[f][chosen[f]]]_vars

\* "A device that is merely switched off should not lose its known address"
\* (config_flow.py:163): an entry's address is typed by the user, or one that the
\* device itself had while it was searched for, or the one known before.
AddressIsTheDevices ==
  [][\A d \in Devices : entries'[d] # entries[d] =>
       \E f \in Flows :
         /\ chosen[f] = d
         /\ \/ step[f] = "address"
            \/ entries'[d].ip \in held[f][d]
            \/ entries[d] # None /\ entries'[d].ip = entries[d].ip]_vars

\* The user always gets an answer: through refusals, failures and exceptions of
\* any kind, and on a silent LAN, a flow comes back to a form or ends.
FlowsAnswer == \A f \in Flows : step[f] \in Waits ~> step[f] \notin Waits
=============================================================================
