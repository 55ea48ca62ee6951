------------------------ MODULE EntryLifecycleProofs ------------------------
(***************************************************************************)
(* Theorems about EntryLifecycle for any number of executor threads,       *)
(* clients, changes and reloads.                                           *)
(***************************************************************************)
EXTENDS EntryLifecycle, TLAPS

\* A job's request has a client, the one set up or one that is closed, and then it
\* was in flight at the time or began after it.
Working ==
  \A j \in Jobs : works[j] # None =>
    /\ left[j] > 0
    /\ works[j] \in Clients
    /\ works[j] \in late \cup {client}
    /\ state = "closed" => works[j] \in late

\* Until its first refresh is over, only that refresh can open a new client.
Unopened ==
  state = "refresh" =>
    /\ client \notin connected
    /\ \A j \in Jobs : works[j] # client

\* Once its client is closed, only a request that came too late opens it again.
Released == state = "closed" /\ client \in connected => client \in late

\* From the building of its client on, the entry runs with what is stored, or a
\* reload is waiting; one that failed to unload never runs again.
Current ==
  state \in {"refresh", "forward", "loaded"} /\ reloads = 0
    => runs.data = settings.data

EntryInv ==
  /\ TypeOK
  /\ Working
  /\ Unopened
  /\ Released
  /\ NothingDangles
  /\ Current

LEMMA InitEntryInv == Init => EntryInv
<1> SUFFICES ASSUME Init
             PROVE  EntryInv
  OBVIOUS
<1>1. settings \in Versions
  BY BoundsAssumption DEF Init, Versions
<1>2. TypeOK
  <2>1. left \in [Jobs -> 0..2] /\ works \in [Jobs -> Clients \cup {None}]
    BY DEF Init
  <2>2. client = None <=> state \in {"unloaded", "targets", "retry"}
    BY DEF Init
  <2>3. reloads \in 0..MaxReloads
    BY BoundsAssumption DEF Init
  <2> QED
    BY <1>1, <2>1, <2>2, <2>3 DEF Init, TypeOK, States
<1>3. Working /\ Unopened /\ Released /\ NothingDangles /\ Current
  BY DEF Init, Working, Unopened, Released, NothingDangles, Current
<1> QED
  BY <1>2, <1>3 DEF EntryInv

LEMMA NextEntryInv == EntryInv /\ [Next]_vars => EntryInv'
<1> SUFFICES ASSUME EntryInv, [Next]_vars
             PROVE  EntryInv'
  OBVIOUS
<1> USE BoundsAssumption, NoneAssumption
    DEF EntryInv, TypeOK, Working, Unopened, Released, NothingDangles, Current,
        States, Versions, entry, jobs, history
<1>1. CASE Build
  BY <1>1 DEF Build, InUse
<1>2. CASE Refreshed
  BY <1>2 DEF Refreshed
<1>3. CASE RefreshFails
  BY <1>3 DEF RefreshFails
<1>4. CASE Forwarded
  BY <1>4 DEF Forwarded
<1>5. CASE PlatformsUnloaded
  BY <1>5 DEF PlatformsUnloaded
<1>6. CASE Close
  BY <1>6 DEF Close, Busy
<1>7. CASE Reload
  BY <1>7 DEF Reload, Next_State
<1>8. CASE RetrySetUp
  BY <1>8 DEF RetrySetUp
<1>9. CASE OptionsChange
  BY <1>9 DEF OptionsChange, Asks, Heard
<1>10. CASE Reconfigure
  BY <1>10 DEF Reconfigure, Asks, Heard
<1>11. CASE Toggle
  BY <1>11 DEF Toggle, Asks
<1>12. ASSUME NEW j \in Jobs, Begin(j)
       PROVE  EntryInv'
  BY <1>12 DEF Begin
<1>13. ASSUME NEW j \in Jobs, Request(j)
       PROVE  EntryInv'
  BY <1>13 DEF Request
<1>14. ASSUME NEW c \in Clients, Collect(c)
       PROVE  EntryInv'
  BY <1>14 DEF Collect
<1>15. CASE Unloaded
  BY <1>15 DEF Unloaded, Next_State
<1>16. CASE PathsChange \/ UNCHANGED vars
  BY <1>16 DEF PathsChange, vars
<1> QED
  BY <1>1, <1>2, <1>3, <1>4, <1>5, <1>6, <1>7, <1>8, <1>9, <1>10, <1>11, <1>12,
     <1>13, <1>14, <1>15, <1>16
  DEF Next, Lifecycle

LEMMA EntryInductive == Spec => []EntryInv
  BY InitEntryInv, NextEntryInv, PTL DEF Spec

\* Reloads and disabling leave no connection behind but that of a client a request
\* was using when it was closed or after; set-ups that fail leave theirs
\* (async_unload_entry, async_setup_entry).
THEOREM NoLeak == Spec => []NothingDangles
  BY EntryInductive, PTL DEF EntryInv

\* Whatever a reconfiguration meets, what it stored is what the loaded entry runs
\* with once no reload is waiting (async_step_reconfigure, async_setup_entry).
THEOREM ReconfigurationArrives == Spec => []ReconfiguredDataRuns
<1>1. EntryInv => ReconfiguredDataRuns
  BY DEF EntryInv, Current, ReconfiguredDataRuns
<1> QED
  BY <1>1, EntryInductive, PTL

\* Types, and a client exactly from its building to its close.
THEOREM EntryTypes == Spec => []TypeOK
  BY EntryInductive, PTL DEF EntryInv
=============================================================================
