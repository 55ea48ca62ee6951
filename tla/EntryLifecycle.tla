---------------------------- MODULE EntryLifecycle ----------------------------
(***************************************************************************)
(* __init__.py: one config entry set up, reloaded, disabled and unloaded   *)
(* while polls and commands are in flight and its settings change.         *)
(*                                                                         *)
(* Executor threads cannot be cancelled: a request that is in flight when  *)
(* its entry is unloaded goes on with the client it was given.  A client   *)
(* is the local connection it may hold; a request opens it, keeps it, or   *)
(* drops it (LocalTransport).                                              *)
(*                                                                         *)
(* Home Assistant is external: set-up, unload and reload of an entry hold  *)
(* its setup_lock; a first refresh that fails is tried again later; update *)
(* listeners are called when the entry changes; a reload of an entry that  *)
(* failed to unload is refused.                                            *)
(***************************************************************************)
EXTENDS Naturals, FiniteSets

CONSTANTS
  Jobs,        \* executor threads
  Clients,     \* bound: clients alive at a time
  MaxChanges,  \* bound: changes of either kind of settings
  MaxReloads,  \* bound: reloads waiting for the lock
  None

ASSUME BoundsAssumption == MaxChanges \in Nat /\ MaxReloads \in Nat
ASSUME NoneAssumption   == None \notin Clients

VARIABLES
  state,      \* how far set-up or unload has come
  client,     \* the client of the coordinator that is set up, or None
  runs,       \* the settings it was built with
  listening,  \* the update listener is registered
  connected,  \* the clients whose local transport holds a connection
  works,      \* the client each job's request is on
  left,       \* how many requests the job has left to make
  settings,   \* the versions of the entry's data and options
  enabled,    \* environment: the user has not disabled the entry
  reloads,    \* environment: reloads waiting for the lock
  served,     \* environment: a path works
  late,       \* history: clients closed with a request in flight or to come
  givenUp     \* history: clients whose set-up failed

entry   == <<state, client, runs, listening>>
jobs    == <<works, left>>
history == <<late, givenUp>>
vars    == <<entry, connected, jobs, settings, enabled, reloads, served, history>>

States == {"unloaded", "targets", "refresh", "forward", "loaded", "unload",
           "close", "closed", "retry", "failed"}

Versions == [data : 0..MaxChanges, options : 0..MaxChanges]

TypeOK ==
  /\ state     \in States
  /\ client    \in Clients \cup {None}
  /\ runs      \in Versions
  /\ listening \in BOOLEAN
  /\ connected \in SUBSET Clients
  /\ works     \in [Jobs -> Clients \cup {None}]
  /\ left      \in [Jobs -> 0..2]
  /\ settings  \in Versions
  /\ enabled   \in BOOLEAN
  /\ reloads   \in 0..MaxReloads
  /\ served    \in BOOLEAN
  /\ late      \in SUBSET Clients
  /\ givenUp   \in SUBSET Clients
  /\ client = None <=> state \in {"unloaded", "targets", "retry"}

\* Home Assistant has called async_setup_entry.
Init ==
  /\ state = "targets"
  /\ client = None
  /\ settings = [data |-> 0, options |-> 0]
  /\ runs = settings
  /\ listening = FALSE
  /\ connected = {}
  /\ works = [j \in Jobs |-> None]
  /\ left = [j \in Jobs |-> 0]
  /\ enabled = TRUE
  /\ reloads = 0
  /\ served \in BOOLEAN
  /\ late = {}
  /\ givenUp = {}

-----------------------------------------------------------------------------
(* async_setup_entry.                                                      *)

InUse(c) == c = client \/ c \in connected \/ \E j \in Jobs : works[j] = c

\* The broadcast addresses are known: build_client, and a coordinator.
Build ==
  /\ state = "targets"
  /\ state' = "refresh"
  /\ \E c \in {c \in Clients : ~InUse(c)} :
       /\ client' = c
       /\ late' = late \ {c}
       /\ givenUp' = givenUp \ {c}
  /\ runs' = settings
  /\ UNCHANGED <<listening, connected, jobs, settings, enabled, reloads, served>>

\* The first refresh is served, locally or by the cloud.
Refreshed ==
  /\ state = "refresh"
  /\ served
  /\ state' = "forward"
  /\ connected' \in {connected, connected \cup {client}}
  /\ UNCHANGED <<client, runs, listening, jobs, settings, enabled, reloads, served, history>>

\* Mutant: the failure is taken for a permanent one.
RefreshFails_ForGood ==
  /\ state = "refresh"
  /\ ~served
  /\ state' = "unloaded"
  /\ client' = None
  /\ UNCHANGED <<runs, listening, connected, jobs, settings, enabled, reloads, served, history>>

\* Mutant: the client of a failed set-up is kept.
RefreshFails_KeepsClient ==
  /\ state = "refresh"
  /\ ~served
  /\ state' = "retry"
  /\ UNCHANGED <<client, runs, listening, connected, jobs, settings, enabled, reloads, served, history>>

\* UpdateFailed: set-up is given up, and the client with it.  Nothing closes it,
\* and not every request that failed has dropped its connection: a reply without
\* data keeps it, and so does a read that raises.
RefreshFails ==
  /\ state = "refresh"
  /\ ~served
  /\ state' = "retry"
  /\ client' = None
  /\ connected' \in {connected, connected \cup {client}}
  /\ givenUp' = givenUp \cup {client}
  /\ UNCHANGED <<runs, listening, jobs, settings, enabled, reloads, served, late>>

\* The platforms are set up, and the listener is registered.
Forwarded ==
  /\ state = "forward"
  /\ state' = "loaded"
  /\ listening' = TRUE
  /\ UNCHANGED <<client, runs, connected, jobs, settings, enabled, reloads, served, history>>

-----------------------------------------------------------------------------
(* async_unload_entry.                                                     *)

\* The platforms are unloaded, or one of them refuses.
PlatformsUnloaded ==
  /\ state = "unload"
  /\ state' \in {"close", "failed"}
  /\ UNCHANGED <<client, runs, listening, connected, jobs, settings, enabled, reloads, served, history>>

\* The clients closed under a request.
Busy == {c \in {client} : \E j \in Jobs : works[j] = c}

\* Mutant: a reload leaves the socket dangling.
Close_LeavesSocket ==
  /\ state = "close"
  /\ state' = "closed"
  /\ late' = late \cup Busy
  /\ UNCHANGED <<client, runs, listening, connected, jobs, settings, enabled, reloads, served,
                givenUp>>

\* client.close, in the executor.
Close ==
  /\ state = "close"
  /\ state' = "closed"
  /\ connected' = connected \ {client}
  /\ late' = late \cup Busy
  /\ UNCHANGED <<client, runs, listening, jobs, settings, enabled, reloads, served, givenUp>>

\* What Home Assistant goes on with: set-up, unless the entry is disabled.
Next_State == IF enabled THEN "targets" ELSE "unloaded"

\* Back on the event loop: the listener is removed, the coordinator shut down.
Unloaded ==
  /\ state = "closed"
  /\ state' = Next_State
  /\ client' = None
  /\ listening' = FALSE
  /\ UNCHANGED <<runs, connected, jobs, settings, enabled, reloads, served, history>>

-----------------------------------------------------------------------------
(* Home Assistant and the user.                                            *)

\* async_reload gets the lock; a failed entry refuses.
Reload ==
  /\ reloads > 0
  /\ reloads' = reloads - 1
  /\ \/ state = "loaded" /\ state' = "unload"
     \/ state \in {"retry", "unloaded"} /\ state' = Next_State
     \/ state = "failed" /\ UNCHANGED state
  /\ UNCHANGED <<client, runs, listening, connected, jobs, settings, enabled, served, history>>

RetrySetUp ==
  /\ state = "retry"
  /\ state' = "targets"
  /\ UNCHANGED <<client, runs, listening, connected, jobs, settings, enabled, reloads, served, history>>

\* A task that calls async_reload, for each of n reasons.
Asks(n) ==
  /\ reloads + n <= MaxReloads
  /\ reloads' = reloads + n

\* _async_reload_on_update, if it is registered.
Heard == IF listening THEN 1 ELSE 0

\* The options flow saves.
OptionsChange ==
  /\ settings.options < MaxChanges
  /\ settings' = [settings EXCEPT !.options = @ + 1]
  /\ Asks(Heard)
  /\ UNCHANGED <<entry, connected, jobs, enabled, served, history>>

\* Mutant: the new data is stored, and left at that.
Reconfigure_NoReload ==
  /\ settings.data < MaxChanges
  /\ settings' = [settings EXCEPT !.data = @ + 1]
  /\ Asks(Heard)
  /\ UNCHANGED <<entry, connected, jobs, enabled, served, history>>

\* async_update_reload_and_abort: stores, and asks for a reload of its own.
Reconfigure ==
  /\ settings.data < MaxChanges
  /\ settings' = [settings EXCEPT !.data = @ + 1]
  /\ Asks(Heard + 1)
  /\ UNCHANGED <<entry, connected, jobs, enabled, served, history>>

\* The user disables the entry, or enables it.
Toggle ==
  /\ enabled' = ~enabled
  /\ Asks(1)
  /\ UNCHANGED <<entry, connected, jobs, settings, served, history>>

-----------------------------------------------------------------------------
(* Requests.                                                               *)

\* A poll (the wildcard query and the metering query) or a command begins.  A
\* command that has been confirmed asks for a poll, also when its entities are
\* unloaded and the client is being closed, or is.
Begin(j) ==
  /\ client # None /\ state # "refresh"
  /\ works[j] = None
  /\ works' = [works EXCEPT ![j] = client]
  /\ \E n \in {1, 2} : left' = [left EXCEPT ![j] = n]
  /\ late' = IF state = "closed" THEN late \cup {client} ELSE late
  /\ UNCHANGED <<entry, connected, settings, enabled, reloads, served, givenUp>>

\* One request: the transport ends up with its connection, or without.
Request(j) ==
  /\ works[j] # None
  /\ connected' \in {connected \cup {works[j]}, connected \ {works[j]}}
  /\ left' = [left EXCEPT ![j] = @ - 1]
  /\ works' = IF left[j] = 1 THEN [works EXCEPT ![j] = None] ELSE works
  /\ UNCHANGED <<entry, settings, enabled, reloads, served, history>>

\* Python's garbage collector finds what nobody refers to any more.
Collect(c) ==
  /\ c \in connected
  /\ c # client
  /\ \A j \in Jobs : works[j] # c
  /\ connected' = connected \ {c}
  /\ UNCHANGED <<entry, jobs, settings, enabled, reloads, served, history>>

PathsChange ==
  /\ served' = ~served
  /\ UNCHANGED <<entry, connected, jobs, settings, enabled, reloads, history>>

Lifecycle ==
  \/ Build \/ Refreshed \/ RefreshFails \/ Forwarded
  \/ PlatformsUnloaded \/ Close \/ Unloaded \/ Reload \/ RetrySetUp

Next ==
  \/ Lifecycle
  \/ OptionsChange \/ Reconfigure \/ Toggle
  \/ \E j \in Jobs : Begin(j) \/ Request(j)
  \/ \E c \in Clients : Collect(c)
  \/ PathsChange

Spec == Init /\ [][Next]_vars

\* The event loop and the executor go on, and so does the garbage collector.
\* Users, polls and paths owe nothing.
Fairness ==
  /\ WF_vars(Lifecycle)
  /\ \A j \in Jobs : WF_vars(Request(j))
  /\ \A c \in Clients : WF_vars(Collect(c))

FairSpec == Spec /\ Fairness

-----------------------------------------------------------------------------
(* Properties.                                                             *)

\* "A reload that left it dangling would leak one every time" (__init__.py:107):
\* through reloads, disabling and requests that cross them, a connection is the
\* client's that is set up, or that of one with a request in flight when it was
\* closed or after, or of one whose set-up failed.  Reloads leave nothing else to
\* the garbage collector.
NothingDangles == connected \subseteq late \cup givenUp \cup {client}

\* What a reconfiguration stores is what the entry comes to run with, whichever
\* step of a set-up, an unload or another reload it meets.
ReconfiguredDataRuns ==
  state = "loaded" /\ reloads = 0 => runs.data = settings.data

\* "Rebuild the client when options change, so new timeouts take effect"
\* (__init__.py:116).  Options saved between the building of a client and the
\* registration of the listener are not heard.
OptionsTakeEffect ==
  state = "loaded" /\ reloads = 0 => runs.options = settings.options

\* The entry comes up: once a path works for good, no failure, change or reload
\* leaves an enabled entry out, except a platform that refuses to unload.
ComesUp ==
  <>[](served /\ enabled) => <>[](state \in {"loaded", "failed"})
=============================================================================
