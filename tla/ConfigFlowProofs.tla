-------------------------- MODULE ConfigFlowProofs --------------------------
(***************************************************************************)
(* Theorems about ConfigFlow for any number of flows, devices and          *)
(* addresses.                                                              *)
(***************************************************************************)
EXTENDS ConfigFlow, TLAPS

Types ==
  /\ step    \in [Flows -> Forms \cup Waits \cup {"done"}]
  /\ target  \in [Flows -> Devices \cup {None}]
  /\ fetched \in [Flows -> UNION {[D -> Keys] : D \in SUBSET Devices}]
  /\ chosen  \in [Flows -> Devices \cup {None}]
  /\ entries \in [Devices -> Entries \cup {None}]
  /\ created \in [Devices -> Nat]
  /\ key     \in [Devices -> Keys]
  /\ address \in [Devices -> Addresses]
  /\ held    \in [Flows -> [Devices -> SUBSET Addresses]]

Locating(f) == step[f] \in {"search", "address"}

\* A flow has a device from the checks to its end, one that its login listed.  It
\* keeps the device when it is back at a form, and is then not over.
ChosenWhileLocating ==
  \A f \in Flows :
    /\ Locating(f) => chosen[f] # None /\ chosen[f] \in DOMAIN fetched[f]
    /\ step[f] = "done" => chosen[f] = None

\* A reconfiguration is of an entry that exists, and finds that entry's device
\* without a choice or a question.
TargetsExist ==
  \A f \in Flows : target[f] # None =>
    /\ entries[target[f]] # None
    /\ step[f] \notin {"device", "address"}
    /\ Locating(f) => chosen[f] = target[f]

\* No other flow adds the device that a flow has passed the checks with.
Exclusive ==
  \A f, g \in Flows :
    target[f] = None /\ target[g] = None /\ chosen[f] # None /\ chosen[f] = chosen[g]
      => f = g

\* Nor does it have an entry in the meantime.
Unconfigured ==
  \A f \in Flows : target[f] = None /\ chosen[f] # None => entries[chosen[f]] = None

\* An entry is there from the one time its device was added.
Counted == \A d \in Devices : created[d] = IF entries[d] = None THEN 0 ELSE 1

FlowInv ==
  /\ Types
  /\ ChosenWhileLocating
  /\ TargetsExist
  /\ Exclusive
  /\ Unconfigured
  /\ Counted
  /\ NeverRepointed

LEMMA NothingType == Nothing \in UNION {[D -> Keys] : D \in SUBSET Devices}
<1>1. Nothing \in [{} -> Keys]
  BY DEF Nothing
<1>2. [{} -> Keys] \in {[D -> Keys] : D \in SUBSET Devices}
  OBVIOUS
<1> QED
  BY <1>1, <1>2

\* What a flow changes of itself when it aborts or ends.
LEMMA LeavePreserves ==
  ASSUME FlowInv, NEW f \in Flows, Leave(f), UNCHANGED <<results, key, address>>,
         held' \in [Flows -> [Devices -> SUBSET Addresses]]
  PROVE  FlowInv'
<1>2. Types'
  BY NothingType DEF Leave, results, FlowInv, Types
<1>3. ChosenWhileLocating'
  BY DEF Leave, FlowInv, Types, ChosenWhileLocating, Locating
<1>4. TargetsExist'
  BY DEF Leave, FlowInv, Types, TargetsExist, Locating, results
<1>5. Exclusive' /\ Unconfigured'
  BY DEF Leave, FlowInv, Types, Exclusive, Unconfigured, results
<1>6. Counted' /\ NeverRepointed'
  BY DEF FlowInv, Counted, NeverRepointed, results
<1> QED
  BY <1>2, <1>3, <1>4, <1>5, <1>6 DEF FlowInv

\* A step between forms and waits that come before the checks, or back to them.
LEMMA EarlyStepPreserves ==
  ASSUME FlowInv, NEW f \in Flows, NEW to \in {"credentials", "login", "list"},
         step[f] \in {"credentials", "login", "list", "search"},
         step' = [step EXCEPT ![f] = to],
         UNCHANGED <<target, fetched, chosen, results, key, address>>,
         held' \in [Flows -> [Devices -> SUBSET Addresses]]
  PROVE  FlowInv'
  BY NoneAssumption
  DEF results, searches, FlowInv, Types, Locating, ChosenWhileLocating, TargetsExist,
      Exclusive, Unconfigured, Counted, NeverRepointed, Forms, Waits

\* The device list is well-typed, whatever the account.
LEMMA ListedType ==
  ASSUME FlowInv, NEW account \in SUBSET Devices
  PROVE  /\ Listed(account) \in UNION {[D -> Keys] : D \in SUBSET Devices}
         /\ DOMAIN Listed(account) = account
  BY DEF FlowInv, Types, Listed

\* A flow comes to its search with a device that passed the checks, or with that
\* of the entry it reconfigures.
LEMMA LocatePreserves ==
  ASSUME FlowInv, NEW f \in Flows, step[f] \in {"list", "device"},
         NEW listed \in UNION {[D -> Keys] : D \in SUBSET Devices},
         NEW d \in DOMAIN listed,
         Locate(f, d, listed), UNCHANGED <<results, key>>,
         IF target[f] = None THEN MayAdd(f, d) ELSE d = target[f]
  PROVE  FlowInv'
<1>1. d \in Devices
  OBVIOUS
<1>2. Types'
  BY <1>1 DEF Locate, StartSearch, FlowInv, Types, results, Forms, Waits
<1>3. ChosenWhileLocating'
  BY <1>1, NoneAssumption DEF Locate, FlowInv, Types, ChosenWhileLocating, Locating
<1>4. TargetsExist'
  BY <1>1 DEF Locate, FlowInv, Types, TargetsExist, Locating, results
<1>5. Exclusive'
  BY <1>1 DEF Locate, FlowInv, Types, Exclusive, MayAdd
<1>6. Unconfigured'
  BY <1>1 DEF Locate, FlowInv, Types, Unconfigured, MayAdd, results
<1>7. Counted' /\ NeverRepointed'
  BY DEF FlowInv, Counted, NeverRepointed, results
<1> QED
  BY <1>2, <1>3, <1>4, <1>5, <1>6, <1>7 DEF FlowInv

LEMMA ConfigurePreserves ==
  ASSUME FlowInv, NEW f \in Flows, step[f] \in {"list", "device"}, target[f] = None,
         NEW listed \in UNION {[D -> Keys] : D \in SUBSET Devices},
         NEW d \in DOMAIN listed,
         Configure(f, d, listed), UNCHANGED <<results, key>>
  PROVE  FlowInv'
<1>1. CASE MayAdd(f, d)
  BY <1>1, LocatePreserves DEF Configure
<1>2. CASE ~MayAdd(f, d)
  <2>1. held \in [Flows -> [Devices -> SUBSET Addresses]]
    BY DEF FlowInv, Types
  <2> QED
    BY <1>2, <2>1, LeavePreserves DEF Configure, Abort, searches, results
<1> QED
  BY <1>1, <1>2

\* What a search returns is an address, if anything.
LEMMA FoundType ==
  ASSUME FlowInv, NEW f \in Flows, NEW d \in Devices, NEW found \in SearchResults(f, d),
         found # None
  PROVE  found \in Addresses
<1>1. PICK e \in Matching(d) : found \in held[f][e]
  BY DEF SearchResults
<1> QED
  BY <1>1 DEF Matching, FlowInv, Types

\* The data an entry is written with are its own device's.
LEMMA DataType ==
  ASSUME FlowInv, NEW f \in Flows, Locating(f), NEW a \in Addresses
  PROVE  /\ Data(f, a) \in Entries
         /\ Data(f, a).of = chosen[f]
         /\ chosen[f] \in Devices
<1>1. chosen[f] \in Devices
  BY DEF FlowInv, Types, ChosenWhileLocating
<1>2. PICK D \in SUBSET Devices : fetched[f] \in [D -> Keys]
  BY DEF FlowInv, Types
<1>3. fetched[f][chosen[f]] \in Keys
  BY <1>2 DEF FlowInv, ChosenWhileLocating
<1> QED
  BY <1>1, <1>3 DEF Data, Entries

\* Creating: nobody else is adding this device, and it had no entry.
LEMMA CreatePreserves ==
  ASSUME FlowInv, NEW f \in Flows, Locating(f), target[f] = None, NEW a \in Addresses,
         Create(f, a), UNCHANGED <<key, address>>,
         held' \in [Flows -> [Devices -> SUBSET Addresses]]
  PROVE  FlowInv'
<1> DEFINE d == chosen[f]
<1>1. d \in Devices /\ Data(f, a) \in Entries /\ Data(f, a).of = d /\ Data(f, a) # None
  BY DataType, NoneAssumption
<1>2. entries[d] = None /\ created[d] = 0
  BY <1>1, NoneAssumption DEF FlowInv, Unconfigured, Counted
<1>3. entries' = [entries EXCEPT ![d] = Data(f, a)] /\ created' = [created EXCEPT ![d] = @ + 1]
  BY DEF Create
<1>4. Types'
  <2>1. entries' \in [Devices -> Entries \cup {None}] /\ created' \in [Devices -> Nat]
    BY <1>1, <1>2, <1>3 DEF FlowInv, Types
  <2> QED
    BY <2>1, NothingType DEF Create, Leave, FlowInv, Types
<1>5. ChosenWhileLocating'
  BY DEF Create, Leave, FlowInv, Types, ChosenWhileLocating, Locating
<1>6. TargetsExist'
  BY <1>1, <1>3 DEF Create, Leave, FlowInv, Types, TargetsExist, Locating
<1>7. Exclusive'
  BY DEF Create, Leave, FlowInv, Types, Exclusive
<1>8. Unconfigured'
  BY <1>1, <1>3, NoneAssumption
  DEF Create, Leave, FlowInv, Types, Exclusive, Unconfigured
<1>9. Counted' /\ NeverRepointed'
  BY <1>1, <1>2, <1>3 DEF FlowInv, Types, Counted, NeverRepointed
<1> QED
  BY <1>4, <1>5, <1>6, <1>7, <1>8, <1>9 DEF FlowInv

\* Updating: the entry is there already, so no flow is adding its device.
LEMMA UpdatePreserves ==
  ASSUME FlowInv, NEW f \in Flows, Locating(f), target[f] # None,
         NEW found \in Addresses \cup {None},
         Update(f, found), UNCHANGED <<key, address>>,
         held' \in [Flows -> [Devices -> SUBSET Addresses]]
  PROVE  FlowInv'
<1> DEFINE d == target[f]
           a == KeptIp(f, found)
<1>1. d \in Devices /\ entries[d] \in Entries /\ chosen[f] = d
  BY DEF FlowInv, Types, TargetsExist
<1>2. a \in Addresses
  BY <1>1 DEF KeptIp, Entries
<1>3. Data(f, a) \in Entries /\ Data(f, a).of = d /\ Data(f, a) # None
  BY <1>1, <1>2, DataType, NoneAssumption
<1>4. entries' = [entries EXCEPT ![d] = Data(f, a)] /\ UNCHANGED created
  BY DEF Update
<1>5. Types'
  BY <1>1, <1>3, <1>4, NothingType DEF Update, Leave, FlowInv, Types
<1>6. ChosenWhileLocating'
  BY DEF Update, Leave, FlowInv, Types, ChosenWhileLocating, Locating
<1>7. TargetsExist'
  BY <1>1, <1>3, <1>4 DEF Update, Leave, FlowInv, Types, TargetsExist, Locating
<1>8. Exclusive'
  BY DEF Update, Leave, FlowInv, Types, Exclusive
<1>9. Unconfigured'
  BY <1>1, <1>3, <1>4, NoneAssumption
  DEF Update, Leave, FlowInv, Types, TargetsExist, Unconfigured
<1>10. Counted' /\ NeverRepointed'
  BY <1>1, <1>3, <1>4, NoneAssumption DEF FlowInv, Types, TargetsExist, Counted, NeverRepointed
<1> QED
  BY <1>5, <1>6, <1>7, <1>8, <1>9, <1>10 DEF FlowInv

-----------------------------------------------------------------------------

LEMMA InitFlowInv == Init => FlowInv
<1> SUFFICES ASSUME Init
             PROVE  FlowInv
  OBVIOUS
<1>1. 1 \in Keys
  BY BoundsAssumption DEF Keys
<1>2. Types
  BY <1>1, NothingType DEF Init, Types, Forms, Waits
<1>3. ChosenWhileLocating /\ TargetsExist
  BY DEF Init, Locating, ChosenWhileLocating, TargetsExist
<1>4. Exclusive /\ Unconfigured /\ Counted /\ NeverRepointed
  BY DEF Init, Exclusive, Unconfigured, Counted, NeverRepointed
<1> QED
  BY <1>2, <1>3, <1>4 DEF FlowInv

LEMMA NextFlowInv == FlowInv /\ [Next]_vars => FlowInv'
<1> SUFFICES ASSUME FlowInv, [Next]_vars
             PROVE  FlowInv'
  OBVIOUS
<1>1. held \in [Flows -> [Devices -> SUBSET Addresses]]
  BY DEF FlowInv, Types
<1>2. ASSUME NEW f \in Flows, Start(f)
      PROVE  FlowInv'
  BY <1>2, NoneAssumption
  DEF Start, Goto, results, searches, FlowInv, Types, Locating, ChosenWhileLocating,
      TargetsExist, Exclusive, Unconfigured, Counted, NeverRepointed, Forms, Waits
<1>3. ASSUME NEW f \in Flows, Submit(f)
      PROVE  FlowInv'
  BY <1>1, <1>3, EarlyStepPreserves DEF Submit, Goto, searches
<1>4. ASSUME NEW f \in Flows, NEW from \in {"login", "list"}, NEW raised, Fail(f, from, raised)
      PROVE  FlowInv'
  BY <1>1, <1>4, EarlyStepPreserves DEF Fail, Goto, searches
<1>5. ASSUME NEW f \in Flows, LogIn(f)
      PROVE  FlowInv'
  <2>1. CASE Goto(f, "login", "list")
             /\ UNCHANGED <<target, fetched, chosen, asked, results, key, searches>>
    BY <1>1, <2>1, EarlyStepPreserves DEF Goto, searches
  <2> QED
    BY <1>4, <1>5, <2>1 DEF LogIn
<1>6. ASSUME NEW f \in Flows, Abort(f), UNCHANGED <<results, key>>
      PROVE  FlowInv'
  BY <1>1, <1>6, LeavePreserves DEF Abort, searches
<1>7. ASSUME NEW f \in Flows, List(f)
      PROVE  FlowInv'
  <2>1. ASSUME NEW account \in SUBSET Devices, step[f] = "list", target[f] = None,
               ListToAdd(f, Listed(account)), UNCHANGED <<results, key>>
        PROVE  FlowInv'
    <3> DEFINE listed == Listed(account)
    <3>1. listed \in UNION {[D -> Keys] : D \in SUBSET Devices} /\ DOMAIN listed = account
      BY ListedType
    <3>2. ASSUME NEW d \in Devices, DOMAIN listed = {d}, Configure(f, d, listed)
          PROVE  FlowInv'
      BY <2>1, <3>1, <3>2, ConfigurePreserves
    <3>3. ASSUME step' = [step EXCEPT ![f] = "device"],
                 fetched' = [fetched EXCEPT ![f] = listed],
                 UNCHANGED <<target, chosen, asked, searches>>
          PROVE  FlowInv'
      BY <2>1, <3>1, <3>3, NoneAssumption
      DEF results, searches, FlowInv, Types, Locating, ChosenWhileLocating, TargetsExist,
          Exclusive, Unconfigured, Counted, NeverRepointed, Forms, Waits
    <3> QED
      BY <1>6, <2>1, <3>2, <3>3 DEF ListToAdd
  <2>2. ASSUME NEW account \in SUBSET Devices, step[f] = "list", target[f] # None,
               ListToRefresh(f, Listed(account)), UNCHANGED <<results, key>>
        PROVE  FlowInv'
    <3>1. ASSUME NEW d \in Matches(f, Listed(account)), Locate(f, d, Listed(account))
          PROVE  FlowInv'
      BY <2>2, <3>1, ListedType, LocatePreserves DEF Matches
    <3> QED
      BY <1>6, <2>2, <3>1 DEF ListToRefresh
  <2> QED
    BY <1>4, <1>7, <2>1, <2>2 DEF List
<1>8. ASSUME NEW f \in Flows, Choose(f)
      PROVE  FlowInv'
  <2>1. PICK d \in DOMAIN fetched[f] : Configure(f, d, fetched[f])
    BY <1>8 DEF Choose
  <2>2. fetched[f] \in UNION {[D -> Keys] : D \in SUBSET Devices}
    BY DEF FlowInv, Types
  <2>3. CASE target[f] = None
    BY <1>8, <2>1, <2>2, <2>3, ConfigurePreserves DEF Choose
  <2> QED
    BY <2>3, <1>8 DEF Choose, FlowInv, TargetsExist
<1>9. ASSUME NEW f \in Flows, Located(f)
      PROVE  FlowInv'
  <2>1. Locating(f) /\ chosen[f] \in Devices
    BY <1>9 DEF Located, Locating, FlowInv, Types, ChosenWhileLocating
  <2>2. PICK found \in SearchResults(f, chosen[f]) :
          \/ target[f] # None /\ Update(f, found)
          \/ target[f] = None /\ found # None /\ Create(f, found)
          \/ /\ target[f] = None /\ found = None
             /\ step' = [step EXCEPT ![f] = "address"]
             /\ UNCHANGED <<target, fetched, chosen, asked, results>>
    BY <1>9 DEF Located
  <2>3. found \in Addresses \cup {None}
    BY <2>1, FoundType
  <2>4. held' \in [Flows -> [Devices -> SUBSET Addresses]] /\ UNCHANGED <<key, address>>
    BY <1>1, <1>9 DEF Located, EndSearch
  <2>5. CASE target[f] # None /\ Update(f, found)
    BY <2>1, <2>3, <2>4, <2>5, UpdatePreserves
  <2>6. CASE target[f] = None /\ found # None /\ Create(f, found)
    BY <2>1, <2>3, <2>4, <2>6, CreatePreserves
  <2>7. CASE /\ target[f] = None
             /\ step' = [step EXCEPT ![f] = "address"]
             /\ UNCHANGED <<target, fetched, chosen, asked, results>>
    BY <2>1, <2>4, <2>7
    DEF results, FlowInv, Types, Locating, ChosenWhileLocating, TargetsExist,
        Exclusive, Unconfigured, Counted, NeverRepointed, Forms, Waits
  <2> QED
    BY <2>2, <2>5, <2>6, <2>7
<1>10. ASSUME NEW f \in Flows, Address(f)
       PROVE  FlowInv'
  <2>1. Locating(f) /\ target[f] = None
    BY <1>10 DEF Address, Locating, FlowInv, TargetsExist
  <2> QED
    BY <1>1, <1>10, <2>1, CreatePreserves DEF Address, searches
<1>11. ASSUME NEW f \in Flows, Abandon(f)
       PROVE  FlowInv'
  BY <1>6, <1>11 DEF Abandon
<1>12. ASSUME NEW d \in Devices, Repair(d), UNCHANGED <<flow, results, searches>>
       PROVE  FlowInv'
  <2>1. key' \in [Devices -> Keys]
    BY <1>12, BoundsAssumption DEF Repair, Keys, FlowInv, Types
  <2> QED
    BY <1>12, <2>1
    DEF flow, results, searches, FlowInv, Types, Locating, ChosenWhileLocating,
        TargetsExist, Exclusive, Unconfigured, Counted, NeverRepointed
<1>13. ASSUME NEW d \in Devices, Move(d), UNCHANGED <<flow, results, key>>
       PROVE  FlowInv'
  <2>1. PICK a \in Addresses :
          /\ address' = [address EXCEPT ![d] = a]
          /\ held' = [s \in Flows |-> IF held[s][d] = {} THEN held[s]
                                     ELSE [held[s] EXCEPT ![d] = @ \cup {a}]]
    BY <1>13 DEF Move
  <2>2. address' \in [Devices -> Addresses]
    BY <2>1 DEF FlowInv, Types
  <2>3. held' \in [Flows -> [Devices -> SUBSET Addresses]]
    BY <1>1, <2>1
  <2> QED
    BY <1>13, <2>2, <2>3
    DEF flow, results, FlowInv, Types, Locating, ChosenWhileLocating,
        TargetsExist, Exclusive, Unconfigured, Counted, NeverRepointed
<1>14. ASSUME NEW f \in Flows, SearchRaises(f)
       PROVE  FlowInv'
  <2>1. held' \in [Flows -> [Devices -> SUBSET Addresses]] /\ UNCHANGED address
    BY <1>1, <1>14 DEF SearchRaises, EndSearch
  <2>2. CASE FormBefore(f) = "credentials"
    BY <1>14, <2>1, <2>2, EarlyStepPreserves DEF SearchRaises, Goto
  <2>3. CASE FormBefore(f) = "device" /\ target[f] = None
    BY <1>14, <2>1, <2>3, NoneAssumption
    DEF SearchRaises, Goto, results, FlowInv, Types, Locating, ChosenWhileLocating,
        TargetsExist, Exclusive, Unconfigured, Counted, NeverRepointed, Forms, Waits
  <2> QED
    BY <2>2, <2>3 DEF FormBefore
<1>15. CASE UNCHANGED vars
  BY <1>15
  DEF vars, flow, results, searches, FlowInv, Types, Locating, ChosenWhileLocating,
      TargetsExist, Exclusive, Unconfigured, Counted, NeverRepointed
<1> QED
  BY <1>2, <1>3, <1>5, <1>7, <1>8, <1>9, <1>10, <1>11, <1>12, <1>13, <1>14, <1>15,
     RestlessAssumption
  DEF Next, Progress

LEMMA FlowInductive == Spec => []FlowInv
  BY InitFlowInv, NextFlowInv, PTL DEF Spec

\* A device is added once, however many flows meet, and however long their forms
\* stay open between the check and the entry (_async_configure, _create_entry).
THEOREM NoDeviceTwice == Spec => []AddedOnce
<1>1. FlowInv => AddedOnce
  BY DEF FlowInv, Counted, AddedOnce
<1> QED
  BY <1>1, FlowInductive, PTL

\* Whatever account the user signs in to, an entry stays its own device's
\* (async_step_reconfigure).
THEOREM EntriesStay == Spec => []NeverRepointed
  BY FlowInductive, PTL DEF FlowInv

-----------------------------------------------------------------------------
(* The keys a flow lists are no older than its credentials.                *)

Submitted(f) == step[f] \in {"login", "list", "device"} \/ Locating(f)
HasList(f)   == step[f] = "device" \/ Locating(f)

\* m has a key for every device in D, and none is older than that in k.
NoOlder(D, k, m) == \A d \in D : k[d] <= m[d]

AskedTypes == asked \in [Flows -> {Nothing} \cup [Devices -> Keys]]

\* A device's key only grows after the credentials were submitted, so the list
\* that comes later has the same keys or newer ones.
KeysSince ==
  \A f \in Flows :
    /\ Submitted(f) => asked[f] \in [Devices -> Keys] /\ NoOlder(Devices, asked[f], key)
    /\ HasList(f) => NoOlder(DOMAIN fetched[f], asked[f], fetched[f])

KeyInv == FlowInv /\ AskedTypes /\ KeysSince

\* What a flow has submitted and listed stays, also when another flow moves on.
LEMMA KeysKept ==
  ASSUME KeyInv, AskedTypes', UNCHANGED key, NEW f \in Flows,
         \A g \in Flows \ {f} :
           step'[g] = step[g] /\ asked'[g] = asked[g] /\ fetched'[g] = fetched[g],
         Submitted(f)' => asked'[f] \in [Devices -> Keys] /\ NoOlder(Devices, asked'[f], key),
         HasList(f)' => NoOlder(DOMAIN fetched'[f], asked'[f], fetched'[f])
  PROVE  KeysSince'
<1> SUFFICES ASSUME NEW g \in Flows
             PROVE  /\ Submitted(g)' => /\ asked'[g] \in [Devices -> Keys]
                                        /\ NoOlder(Devices, asked'[g], key')
                    /\ HasList(g)' => NoOlder(DOMAIN fetched'[g], asked'[g], fetched'[g])
  BY DEF KeysSince, NoOlder
<1>1. CASE g = f
  BY <1>1
<1>2. CASE g # f
  BY <1>2 DEF KeyInv, KeysSince, Submitted, HasList, Locating
<1> QED
  BY <1>1, <1>2

\* Leaving, a flow forgets what it submitted.
LEMMA LeaveKeepsKeys ==
  ASSUME KeyInv, NEW f \in Flows, Leave(f), UNCHANGED key
  PROVE  AskedTypes' /\ KeysSince'
<1>1. AskedTypes'
  BY DEF Leave, KeyInv, AskedTypes
<1>2. ~Submitted(f)' /\ ~HasList(f)'
  BY DEF Leave, KeyInv, FlowInv, Types, Submitted, HasList, Locating
<1> QED
  BY <1>1, <1>2, KeysKept DEF Leave, KeyInv, FlowInv, Types, AskedTypes

\* A list read now is no older than the credentials.
LEMMA ListedNoOlder ==
  ASSUME KeyInv, NEW f \in Flows, Submitted(f), NEW account \in SUBSET Devices
  PROVE  NoOlder(account, asked[f], Listed(account))
  BY DEF KeyInv, KeysSince, NoOlder, Listed

\* With its list, a flow goes on to a choice or to its search.
LEMMA ListKeepsKeys ==
  ASSUME KeyInv, NEW f \in Flows, Submitted(f), NEW to \in {"device", "search"},
         NEW listed \in UNION {[D -> Keys] : D \in SUBSET Devices},
         NoOlder(DOMAIN listed, asked[f], listed),
         step' = [step EXCEPT ![f] = to],
         fetched' = [fetched EXCEPT ![f] = listed],
         UNCHANGED <<asked, key>>
  PROVE  AskedTypes' /\ KeysSince'
<1>1. AskedTypes'
  BY DEF KeyInv, AskedTypes
<1>2. fetched'[f] = listed /\ asked'[f] = asked[f]
  BY DEF KeyInv, FlowInv, Types
<1>3. asked[f] \in [Devices -> Keys] /\ NoOlder(Devices, asked[f], key)
  BY DEF KeyInv, KeysSince
<1>4. \A g \in Flows \ {f} :
        step'[g] = step[g] /\ asked'[g] = asked[g] /\ fetched'[g] = fetched[g]
  BY DEF KeyInv, FlowInv, Types
<1>5. NoOlder(DOMAIN fetched'[f], asked'[f], fetched'[f])
  BY <1>2
<1> QED
  BY <1>1, <1>2, <1>3, <1>4, <1>5, KeysKept

LEMMA ConfigureKeepsKeys ==
  ASSUME KeyInv, NEW f \in Flows, Submitted(f),
         NEW listed \in UNION {[D -> Keys] : D \in SUBSET Devices},
         NoOlder(DOMAIN listed, asked[f], listed),
         NEW d \in DOMAIN listed, Configure(f, d, listed), UNCHANGED key
  PROVE  AskedTypes' /\ KeysSince'
<1>1. CASE MayAdd(f, d)
  BY <1>1, ListKeepsKeys DEF Configure, Locate
<1>2. CASE ~MayAdd(f, d)
  BY <1>2, LeaveKeepsKeys DEF Configure, Abort
<1> QED
  BY <1>1, <1>2

\* A step of f between forms and waits, with the credentials and the list it has.
LEMMA StepKeepsKeys ==
  ASSUME KeyInv, NEW f \in Flows, NEW to,
         step' = [step EXCEPT ![f] = to], UNCHANGED <<asked, fetched, key>>,
         Submitted(f)' => Submitted(f), HasList(f)' => HasList(f)
  PROVE  AskedTypes' /\ KeysSince'
<1>1. AskedTypes'
  BY DEF KeyInv, AskedTypes
<1>2. \A g \in Flows \ {f} :
        step'[g] = step[g] /\ asked'[g] = asked[g] /\ fetched'[g] = fetched[g]
  BY DEF KeyInv, FlowInv, Types
<1>3. Submitted(f)' => asked'[f] \in [Devices -> Keys] /\ NoOlder(Devices, asked'[f], key)
  BY DEF KeyInv, KeysSince
<1>4. HasList(f)' => NoOlder(DOMAIN fetched'[f], asked'[f], fetched'[f])
  BY DEF KeyInv, KeysSince
<1> QED
  BY <1>1, <1>2, <1>3, <1>4, KeysKept

LEMMA InitKeyInv == Init => KeyInv
  BY InitFlowInv DEF Init, KeyInv, AskedTypes, KeysSince, Submitted, HasList, Locating

LEMMA NextKeyInv == KeyInv /\ [Next]_vars => KeyInv'
<1> SUFFICES ASSUME KeyInv, [Next]_vars
             PROVE  AskedTypes' /\ KeysSince'
  BY NextFlowInv DEF KeyInv
<1> USE DEF KeyInv
<1>1. step \in [Flows -> Forms \cup Waits \cup {"done"}]
  BY DEF FlowInv, Types
<1>2. ASSUME NEW f \in Flows, Start(f)
      PROVE  AskedTypes' /\ KeysSince'
  BY <1>1, <1>2, StepKeepsKeys DEF Start, Goto, Submitted, HasList, Locating
<1>3. ASSUME NEW f \in Flows, Submit(f)
      PROVE  AskedTypes' /\ KeysSince'
  <2>1. key \in [Devices -> Keys] /\ NoOlder(Devices, key, key)
    BY DEF FlowInv, Types, NoOlder, Keys
  <2>2. asked' = [asked EXCEPT ![f] = key] /\ step' = [step EXCEPT ![f] = "login"]
        /\ UNCHANGED <<fetched, key>>
    BY <1>3 DEF Submit, Goto
  <2>3. AskedTypes'
    BY <2>1, <2>2 DEF AskedTypes
  <2>4. asked'[f] = key /\ ~HasList(f)'
    BY <1>1, <2>2 DEF AskedTypes, HasList, Locating
  <2>5. \A g \in Flows \ {f} :
          step'[g] = step[g] /\ asked'[g] = asked[g] /\ fetched'[g] = fetched[g]
    BY <1>1, <2>2 DEF AskedTypes
  <2> QED
    BY <2>1, <2>2, <2>3, <2>4, <2>5, KeysKept
<1>4. ASSUME NEW f \in Flows, NEW from, NEW raised, Fail(f, from, raised)
      PROVE  AskedTypes' /\ KeysSince'
  BY <1>1, <1>4, StepKeepsKeys DEF Fail, Goto, Submitted, HasList, Locating
<1>5. ASSUME NEW f \in Flows, LogIn(f)
      PROVE  AskedTypes' /\ KeysSince'
  <2>1. CASE Goto(f, "login", "list")
             /\ UNCHANGED <<target, fetched, chosen, asked, results, key, searches>>
    BY <1>1, <2>1, StepKeepsKeys DEF Goto, Submitted, HasList, Locating
  <2> QED
    BY <1>4, <1>5, <2>1 DEF LogIn
<1>6. ASSUME NEW f \in Flows, List(f)
      PROVE  AskedTypes' /\ KeysSince'
  <2>1. ASSUME NEW account \in SUBSET Devices, step[f] = "list", UNCHANGED key,
               ListToAdd(f, Listed(account)) \/ ListToRefresh(f, Listed(account))
        PROVE  AskedTypes' /\ KeysSince'
    <3> DEFINE listed == Listed(account)
    <3>1. /\ listed \in UNION {[D -> Keys] : D \in SUBSET Devices}
          /\ DOMAIN listed = account
          /\ Submitted(f)
      BY <2>1, ListedType DEF Submitted
    <3>2. NoOlder(DOMAIN listed, asked[f], listed)
      BY <3>1, ListedNoOlder
    <3> HIDE DEF listed
    <3>3. ASSUME NEW d \in DOMAIN listed, Configure(f, d, listed)
          PROVE  AskedTypes' /\ KeysSince'
      BY <2>1, <3>1, <3>2, <3>3, ConfigureKeepsKeys
    <3>4. ASSUME NEW d \in DOMAIN listed, Locate(f, d, listed)
          PROVE  AskedTypes' /\ KeysSince'
      BY <2>1, <3>1, <3>2, <3>4, ListKeepsKeys DEF Locate
    <3>5. ASSUME step' = [step EXCEPT ![f] = "device"],
                 fetched' = [fetched EXCEPT ![f] = listed],
                 UNCHANGED <<target, chosen, asked, searches>>
          PROVE  AskedTypes' /\ KeysSince'
      BY <2>1, <3>1, <3>2, <3>5, ListKeepsKeys
    <3>6. ASSUME Abort(f)
          PROVE  AskedTypes' /\ KeysSince'
      BY <2>1, <3>6, LeaveKeepsKeys DEF Abort
    <3>7. ListToAdd(f, listed) \/ ListToRefresh(f, listed)
      BY <2>1 DEF listed
    <3> QED
      BY <3>3, <3>4, <3>5, <3>6, <3>7 DEF ListToAdd, ListToRefresh, Matches
  <2> QED
    BY <1>4, <1>6, <2>1 DEF List
<1>7. ASSUME NEW f \in Flows, Choose(f)
      PROVE  AskedTypes' /\ KeysSince'
  <2>1. /\ fetched[f] \in UNION {[D -> Keys] : D \in SUBSET Devices}
        /\ Submitted(f)
        /\ NoOlder(DOMAIN fetched[f], asked[f], fetched[f])
    BY <1>7 DEF Choose, FlowInv, Types, KeysSince, Submitted, HasList
  <2> QED
    BY <1>7, <2>1, ConfigureKeepsKeys DEF Choose
<1>8. ASSUME NEW f \in Flows, Located(f)
      PROVE  AskedTypes' /\ KeysSince'
  <2>1. \/ Leave(f)
        \/ step' = [step EXCEPT ![f] = "address"] /\ UNCHANGED <<asked, fetched>>
    BY <1>8 DEF Located, Update, Create
  <2>2. step[f] = "search" /\ UNCHANGED key
    BY <1>8 DEF Located
  <2> QED
    BY <2>1, <2>2, LeaveKeepsKeys, StepKeepsKeys DEF Submitted, HasList, Locating
<1>9. ASSUME NEW f \in Flows, Address(f) \/ Abandon(f)
      PROVE  AskedTypes' /\ KeysSince'
  BY <1>9, LeaveKeepsKeys DEF Address, Create, Abandon, Abort
<1>10. ASSUME NEW d \in Devices, Repair(d), UNCHANGED <<flow, results, searches>>
       PROVE  AskedTypes' /\ KeysSince'
  <2>1. \A c \in Devices : key[c] <= key'[c] /\ key[c] \in Nat /\ key'[c] \in Nat
    BY <1>10 DEF Repair, FlowInv, Types, Keys
  <2>2. ASSUME NEW f \in Flows, asked[f] \in [Devices -> Keys], NoOlder(Devices, asked[f], key)
        PROVE  NoOlder(Devices, asked[f], key')
    BY <2>1, <2>2 DEF NoOlder, Keys
  <2>3. UNCHANGED <<step, asked, fetched>>
    BY <1>10 DEF flow
  <2> QED
    BY <2>2, <2>3 DEF AskedTypes, KeysSince, Submitted, HasList, Locating
<1>11. CASE UNCHANGED <<flow, key>>
  <2>1. UNCHANGED <<step, asked, fetched, key>>
    BY <1>11 DEF flow
  <2> QED
    BY <2>1 DEF AskedTypes, KeysSince, Submitted, HasList, Locating, NoOlder
<1>12. ASSUME NEW f \in Flows, SearchRaises(f)
       PROVE  AskedTypes' /\ KeysSince'
  BY <1>1, <1>12, StepKeepsKeys DEF SearchRaises, Goto, Submitted, HasList, Locating
<1> QED
  BY <1>2, <1>3, <1>5, <1>6, <1>7, <1>8, <1>9, <1>10, <1>11, <1>12, RestlessAssumption
  DEF Next, Progress, vars

LEMMA KeyInductive == Spec => []KeyInv
  BY InitKeyInv, NextKeyInv, PTL DEF Spec

\* Every state of the flows is well-formed: no flow searches for a device that its
\* login did not list.
THEOREM FlowTypes == Spec => []TypeOK
<1>1. KeyInv => TypeOK
  BY DEF KeyInv, FlowInv, Types, AskedTypes, ChosenWhileLocating, Locating, TypeOK
<1> QED
  BY <1>1, KeyInductive, PTL

-----------------------------------------------------------------------------
(* What an entry is written with.                                          *)

\* A step that is not the end of a flow's search or address form leaves the
\* entries alone.
LEMMA EntriesWritten ==
  ASSUME [Next]_vars, entries' # entries
  PROVE  \E f \in Flows : Located(f) \/ Address(f)
<1>1. ASSUME NEW f \in Flows, List(f)
      PROVE  UNCHANGED entries
  BY <1>1 DEF List, Fail, results
<1>2. ASSUME NEW f \in Flows,
             \/ Start(f) \/ Submit(f) \/ LogIn(f) \/ Choose(f) \/ Abandon(f)
             \/ SearchRaises(f)
      PROVE  UNCHANGED entries
  BY <1>2 DEF Start, Submit, LogIn, Fail, Choose, Abandon, SearchRaises, results
<1> QED
  BY <1>1, <1>2 DEF Next, Progress, vars, flow, results

\* Whichever way a search ends, its device's entry is written, or none is.
LEMMA SearchWrites ==
  ASSUME FlowInv, NEW f \in Flows, Located(f)
  PROVE  /\ chosen[f] \in Devices
         /\ \/ UNCHANGED entries /\ step'[f] = "address"
            \/ \E a \in Addresses :
                 /\ entries' = [entries EXCEPT ![chosen[f]] = Data(f, a)]
                 /\ \/ a \in held[f][chosen[f]]
                    \/ entries[chosen[f]] # None /\ a = entries[chosen[f]].ip
<1> DEFINE d == chosen[f]
<1>1. Locating(f) /\ d \in Devices
  BY DEF Located, Locating, FlowInv, Types, ChosenWhileLocating
<1>2. PICK found \in SearchResults(f, d) :
        \/ target[f] # None /\ Update(f, found)
        \/ target[f] = None /\ found # None /\ Create(f, found)
        \/ /\ target[f] = None /\ found = None
           /\ step' = [step EXCEPT ![f] = "address"]
           /\ UNCHANGED <<target, fetched, chosen, asked, results>>
  BY DEF Located
<1>3. found # None => found \in Addresses /\ found \in held[f][d]
  BY <1>1, FoundType DEF SearchResults, Matching
<1>4. CASE target[f] # None /\ Update(f, found)
  <2>1. target[f] = d /\ entries[d] \in Entries /\ entries[d] # None
    BY <1>1, <1>4 DEF FlowInv, Types, TargetsExist
  <2>2. /\ KeptIp(f, found) \in Addresses
        /\ KeptIp(f, found) \in held[f][d] \/ KeptIp(f, found) = entries[d].ip
    BY <1>3, <2>1 DEF KeptIp, Entries
  <2> QED
    BY <1>1, <1>4, <2>1, <2>2 DEF Update
<1>5. CASE target[f] = None /\ found # None /\ Create(f, found)
  BY <1>1, <1>3, <1>5 DEF Create
<1>6. CASE /\ target[f] = None /\ found = None
           /\ step' = [step EXCEPT ![f] = "address"]
           /\ UNCHANGED <<target, fetched, chosen, asked, results>>
  BY <1>1, <1>6 DEF results, FlowInv, Types
<1> QED
  BY <1>1, <1>2, <1>4, <1>5, <1>6

\* Only the search's end and the address form's end take a flow from there.
LEMMA LocatingEnds ==
  ASSUME FlowInv, [Next]_vars, NEW f \in Flows, Locating(f), step'[f] = "done"
  PROVE  \/ step[f] = "search" /\ Located(f)
         \/ step[f] = "address" /\ (Address(f) \/ Abandon(f))
<1>1. step \in [Flows -> Forms \cup Waits \cup {"done"}]
  BY DEF FlowInv, Types
<1>2. ASSUME NEW g \in Flows,
             Start(g) \/ Submit(g) \/ Choose(g) \/ LogIn(g) \/ List(g)
      PROVE  step'[f] = step[f]
  <2>1. g # f
    BY <1>2 DEF Start, Submit, Goto, Choose, LogIn, Fail, List, Locating
  <2>2. \E to : step' = [step EXCEPT ![g] = to]
    BY <1>2
    DEF Start, Submit, Goto, Choose, LogIn, Fail, List, ListToAdd, ListToRefresh,
        Configure, Locate, Abort, Leave
  <2> QED
    BY <1>1, <2>1, <2>2
<1>3. ASSUME NEW g \in Flows, SearchRaises(g)
      PROVE  step'[f] # "done"
  <2>1. step' = [step EXCEPT ![g] = FormBefore(g)] /\ FormBefore(g) # "done"
    BY <1>3 DEF SearchRaises, Goto, FormBefore
  <2> QED
    BY <1>1, <2>1 DEF Locating
<1>4. ASSUME NEW g \in Flows, Located(g) \/ Address(g) \/ Abandon(g), g # f
      PROVE  step'[f] = step[f]
  BY <1>1, <1>4 DEF Located, Update, Address, Create, Abandon, Abort, Leave
<1>5. step[f] \in {"search", "address"}
  BY DEF Locating
<1>6. \A g \in Flows : Located(g) \/ Address(g) \/ Abandon(g) => g = f
  BY <1>4, <1>5
<1>7. Located(f) \/ Address(f) \/ Abandon(f)
  BY <1>2, <1>3, <1>5, <1>6 DEF Next, Progress, vars, flow
<1> QED
  BY <1>5, <1>7 DEF Located, Address, Abandon, Forms

\* An entry is written with a key at least as new as those of the moment the
\* user submitted the credentials, at the end of a search or of an address form,
\* however old the list is by then and whatever other flows have fetched
\* (_async_configure, async_step_address, async_step_reconfigure).
THEOREM FreshKeys == Spec => KeysAreFetched
<1> DEFINE Fresh == \A f \in Flows :
             /\ step[f] \in {"search", "address"} /\ step'[f] = "done"
             /\ (step[f] = "address" => entries' # entries)
             => entries'[chosen[f]].key >= asked[f][chosen[f]]
<1>1. KeyInv /\ [Next]_vars => Fresh
  <2> SUFFICES ASSUME KeyInv, [Next]_vars, NEW f \in Flows,
                      Locating(f), step'[f] = "done",
                      step[f] = "address" => entries' # entries
               PROVE  entries'[chosen[f]].key >= asked[f][chosen[f]]
    BY DEF Locating
  <2> DEFINE d == chosen[f]
  <2>1. PICK a \in Addresses : entries' = [entries EXCEPT ![d] = Data(f, a)]
    <3>1. CASE step[f] = "search" /\ Located(f)
      BY <3>1, SearchWrites DEF KeyInv
    <3>2. CASE step[f] = "address" /\ Address(f)
      BY <3>2 DEF Address, Create
    <3>3. CASE step[f] = "address" /\ Abandon(f)
      BY <3>3 DEF Abandon, results
    <3> QED
      BY <3>1, <3>2, <3>3, LocatingEnds DEF KeyInv
  <2>2. d \in Devices /\ d \in DOMAIN fetched[f]
    BY DEF KeyInv, FlowInv, Types, ChosenWhileLocating
  <2>3. entries'[d].key = fetched[f][d]
    BY <2>1, <2>2 DEF KeyInv, FlowInv, Types, Data
  <2>4. asked[f] \in [Devices -> Keys] /\ asked[f][d] <= fetched[f][d]
    BY <2>2 DEF KeyInv, KeysSince, NoOlder, Submitted, HasList
  <2>5. PICK D \in SUBSET Devices : fetched[f] \in [D -> Keys]
    BY DEF KeyInv, FlowInv, Types
  <2>6. asked[f][d] \in Nat /\ fetched[f][d] \in Nat
    BY <2>2, <2>4, <2>5 DEF Keys
  <2> QED
    BY <2>3, <2>4, <2>6
<1>2. KeyInv /\ [Next]_vars => [Fresh]_vars
  BY <1>1
<1> QED
  BY <1>2, KeyInductive, PTL DEF Spec, KeysAreFetched

\* An address that no user typed is the device's own during the search, or the
\* one its entry had (_async_configure, async_step_reconfigure, find_device_ip).
THEOREM OwnAddresses == Spec => AddressIsTheDevices
<1> DEFINE Own == \A d \in Devices : entries'[d] # entries[d] =>
             \E f \in Flows :
               /\ chosen[f] = d
               /\ \/ step[f] = "address"
                  \/ entries'[d].ip \in held[f][d]
                  \/ entries[d] # None /\ entries'[d].ip = entries[d].ip
<1>1. FlowInv /\ [Next]_vars => Own
  <2> SUFFICES ASSUME FlowInv, [Next]_vars, NEW d \in Devices, entries'[d] # entries[d]
               PROVE  \E f \in Flows :
                        /\ chosen[f] = d
                        /\ \/ step[f] = "address"
                           \/ entries'[d].ip \in held[f][d]
                           \/ entries[d] # None /\ entries'[d].ip = entries[d].ip
    OBVIOUS
  <2>1. PICK f \in Flows : Located(f) \/ Address(f)
    BY EntriesWritten
  <2>2. CASE Located(f)
    <3>1. PICK a \in Addresses :
            /\ entries' = [entries EXCEPT ![chosen[f]] = Data(f, a)]
            /\ \/ a \in held[f][chosen[f]]
               \/ entries[chosen[f]] # None /\ a = entries[chosen[f]].ip
      BY <2>2, SearchWrites
    <3>2. chosen[f] = d /\ entries'[d] = Data(f, a)
      BY <3>1 DEF FlowInv, Types
    <3>3. entries'[d].ip = a
      BY <3>2 DEF Data
    <3> QED
      BY <3>1, <3>2, <3>3
  <2>3. CASE Address(f)
    <3>1. PICK a \in Addresses : entries' = [entries EXCEPT ![chosen[f]] = Data(f, a)]
      BY <2>3 DEF Address, Create
    <3>2. chosen[f] = d
      BY <3>1 DEF FlowInv, Types
    <3> QED
      BY <2>3, <3>2 DEF Address
  <2> QED
    BY <2>1, <2>2, <2>3
<1>2. FlowInv /\ [Next]_vars => [Own]_vars
  BY <1>1
<1> QED
  BY <1>2, FlowInductive, PTL DEF Spec, AddressIsTheDevices
=============================================================================
