# Verification of homeassistant-cozylife

TLA+ models of the `cozylife_cloud` integration
(`src/custom_components/cozylife_cloud`), the TLC runs that check them, and
theorems checked by TLAPS. Paths below are relative to that directory; line
numbers refer to it.

## 1. The system

One config entry is one device: a Wi-Fi socket that speaks JSON lines over TCP on
the LAN (port 5555) and over CozyLife's cloud relay. Home Assistant polls it and
sends it commands; both run in executor threads. No object below has a lock except
`LocalTransport`; set-up and the config flow run on the event loop and wait for the
executor at each `await`.

| Part | State | Operations | Talks to |
|---|---|---|---|
| `api/fallback.py` FallbackClient | `_active_path`, `_consecutive_failures`, `_circuit_opened_at` | `query`, `control`, `close` | the local and the cloud transport |
| `api/local.py` LocalTransport | `_conn`, `_lock` | `query`, `control`, `close` | the device, over `wire` |
| `api/wire.py` LineSocket | `_buffer`, the socket | `send_line`, `lines`, `peer_has_closed` | TCP |
| `api/cloud.py` CloudRelayTransport | none between calls | `query`, `control` | the relay, one connection per call |
| `api/protocol.py` | `_last_sn` | `new_sn`, encoding | every transport |
| `api/rediscovering.py` | `_host`, `_transport`, `_last_search` | `query`, `control`, `close` | a LocalTransport, and discovery |
| `api/discovery.py` | none | `discover`, `find_device_ip` | UDP broadcast |
| `coordinator.py` | `data`, `last_update_success`, `_metering` | a poll, `async_control` | the client; Home Assistant's timer and debouncer |
| `__init__.py` | the loaded entry | set up, unload, reload | coordinator, client |
| `config_flow.py`, `api/account.py` | flow data; the session token | flow steps; `login`, `devices` | CozyLife's HTTP API, discovery |
| `switch.py`, `sensor.py` | none | turn on and off; readings | coordinator |

What is hard here, and what makes each part correct:

* **FallbackClient.** Requests race through unlocked counters. Correct: local is
  skipped only after the threshold of failures; a local outage alone is invisible
  while the relay works; a recovered listener is returned to; every request ends in
  a value or a `TransportError`.
* **LocalTransport.** A connection is held between calls, on a link where the peer
  may hang up, be reset or vanish at any moment. Correct: the connection is reused for
  as long as it is good; a frame that may have been received is not sent again;
  each call gets its own answer; a connection left for
  the next call holds nothing of the last one; the deadline bounds the call.
* **CloudRelayTransport.** The relay sends every report to everyone subscribed, and
  its receipt counts subscribers. Correct: a call returns the answer to its own
  frame; the subscription is in place before the device can answer; a receipt of
  `num=0` is believed only when nobody has the frame.
* **Sequence numbers.** Clock set back, two frames in one millisecond. Correct:
  never the same number twice.
* **RediscoveringLocalTransport.** Two requests fail together; the device moves
  while one is searching. Correct: one search at a time, without a lock; a command
  is not repeated; the device is followed.
* **Coordinator.** A poll reads in a thread and is stored later, while commands
  change the device. Correct: polling never stops; the metering probe is made once;
  the display settles on the truth.
* **Sensors.** Some of the four metering datapoints come with the wildcard reply, all or
  some with a query for the group that may fail by itself. Correct: the sensors that
  exist are those the polls ask for; no reading outlives the poll that failed to renew
  it; zero is a reading.
* **LineSocket.** TCP cuts lines anywhere. Correct: every line heard whole, once, in
  order.
* **Entry lifecycle.** Executor threads cannot be cancelled, and settings change at
  any moment. Correct: a reload leaves no connection behind; what was stored is what runs;
  an entry comes up when its device does.
* **Config flow.** Its checks and its writes are a search, or an open form, apart, and
  other flows, re-pairings and moves happen in between. Correct: a device is added
  once; an entry keeps to its own device; what is stored was fetched by this login and
  found by this search; every submission is answered.

## 2. Modules

Module, code and correspondence (PROJECT.json's `map` names the lines of each
definition):

* `Transport` - the abstract specification of a transport, as `FallbackClient` relies on
  it: an answer means the device has had the frame, a frame gets there at most once,
  even after its call has ended, and never when the call was told it reached nobody.
* `FallbackClient` - `_attempt` and what it calls, one action per stretch of code.
  A job is an executor thread. `openAge` is the age of `_circuit_opened_at`;
  `failures` is kept up to the threshold, which is as far as the code compares it.
  `hasCloud` is whether the client has a cloud transport.
* `CircuitBreaker` - the abstract specification of the breaker as the docs describe it:
  consecutive failures open it, one attempt per interval, a success closes it.
* `SequentialClient` - FallbackClient with one job, and the refinement mapping to
  `CircuitBreaker`.
* `LocalTransport` - `_exchange` over `LineSocket`, against a device and a network
  that act between any two steps. Every reconnection, error path and the deadline is
  there; a frame is its number and a line is the number it echoes.
* `CloudRelay`, `MCCloudRelay` - the same for the relay. `MCCloudRelay` adds symmetry.
  Both transports carry the refinement mapping to `Transport` (`Contract`): a caller is
  busy when its `pc` is not `idle`, and the rest has the same name in both.
* `SequenceNumber` - `new_sn` with a clock that takes any value at any time.
* `LineFraming` - `LineSocket.lines` over a byte stream, extending `SequenceNumber`: the
  lines answer numbers that `new_sn` has issued. `LineChannel` is the abstract
  specification: a queue of lines.
* `Rediscovering` - the wrapper, with the LAN as environment. Its transport is the
  address it is pinned to.
* `Coordinator` - polls, commands, the optimistic update and the requested refresh.
  A request is served or it fails; FallbackClient says when, and that one which crosses
  another may crash (`PollCrashes`, `PressCrashes`).
* `Sensors` - extends `Coordinator`: each of its actions is one of Coordinator's, with
  the readings that the poll gathers, stores or that a command leaves alone. All four of
  METERING_DPIDS are there; which of them a device has in its wildcard reply
  (`InWildcard`) and in its answer to the group's query (`InGroup`) are constants. The
  relay decides the load, so power and current read a genuine zero when it is open.
* `EntryLifecycle` - `async_setup_entry`, `async_unload_entry` and the update listener.
  `state` is how far they have come between two awaits. A client is the connection its
  local transport may hold; a request, on an executor thread that outlives the unload,
  opens or drops it. While `client.close` is in the executor (`close`) and until the loop
  has its result (`closed`), a command that was confirmed can still start a poll on that
  client. A first refresh that fails may have kept its connection, and nothing closes
  it. Settings are version numbers.
* `ConfigFlow` - the steps of adding and of reconfiguring, for several flows at once,
  with `Account` (one login and list: what they return or raise) and `Discovery`
  (`find_device_ip`: the addresses a device has had while it was searched for) as the
  executor's jobs it waits for. The search can also raise (`SearchRaises`), which shows
  the last form again. A key is its version; an entry records whose data it holds.
* `*Proofs` - the theorems of section 5.

**Grain.** CPython (with its interpreter lock) switches threads when a function is
entered, after a call and on a loop's back edge. An action is therefore the code
between two calls; a comparison and the store after it are one step unless a call
stands between them. The calls that matter are those of the clock
(`self._monotonic()`) and of the transports. On the event loop an action is the code
between two awaits.

**Home Assistant** is external and modelled from how the code relies on it:
`DataUpdateCoordinator` sets its timer again after every refresh, successful or not;
`async_set_updated_data` stores the data, resets the timer and cancels a pending
debounced refresh; `async_request_refresh` goes through a debouncer that drops a
call while an earlier one is running; a failed first refresh makes it set the entry
up again with new objects. An entry's set-up, unload and reload hold its lock; a reload
that finds the entry failed to unload is refused; update listeners are called when the
entry changes; `async_update_reload_and_abort` stores and asks for a reload of its own.
A unique ID belongs to the flow in progress that has set it and is released when the
flow ends; an exception a step does not catch is shown as "unknown" on its form.

**Data left out.** The JSON and `key=value` syntaxes, names, log messages, the
wording of forms and errors. A line that does not decode is skipped by the code, so it is
`Report` (local) or `Noise` (relay). In the transports' modules a line arrives whole, as
`LineFraming` shows it may be taken to.

## 3. Runs

| Run | Checks | Bounds |
|---|---|---|
| `FallbackClient` | types; local is cut out only after a full count of failures, never without a cloud; every request ends; return to local; with the relay up no `TransportError`, and no failure at all while the listener also stays down | a poll and a press racing, threshold 2, interval of 2 ticks |
| `Sequential` | the client implements `CircuitBreaker`, which opens on consecutive failures and probes once per interval | one job, threshold 3 as shipped, interval of 5 ticks |
| `LineFraming` | numbers are fresh; the socket implements `LineChannel` | two threads, numbers to 2, two lines of noise (empty, or half a terminator), segments of any length |
| `LocalTransport` | implements `Transport`; frames received at most once; clean held connection; answers not crossed and not lost; the connection reused until the far end ends it, a call fails or it is closed; every call ends | two callers, three calls, two lines of backlog |
| `CloudRelay` | implements `Transport`; `num=0`; a route for each answer | two callers, two calls, one line of noise per connection |
| `Rediscovering` | writes sent once; one relocation at a time; host and transport agree; a moved device is found; and followed | a poll and a press, two addresses, interval of 3 ticks |
| `Coordinator` (module `Sensors`) | one probing poll; polling continues; sensors for exactly what the polls ask for; a reading shown exactly if the poll last stored had it; display and sensors settle | two commands, both kinds of poll, a device with power and energy in its wildcard reply and all four in the group's |
| `EntryLifecycle` | types; a reload leaves nothing dangling; reconfigured data runs; the entry comes up | one executor thread beside the event loop, three clients alive, one change of each setting, two reloads waiting |
| `ConfigFlow` | added once; never repointed; keys as fetched; the device's own address; every flow answers | two flows, two devices of which one moves and is re-paired, two addresses, two versions of a key |

The other modules state a `TypeOK` too; their runs leave it out for the properties that
say more (`INVARIANT TypeOK` in the .cfg checks it).

Three more runs each show one statement of the docs or comments violated (section 4).

**Why the bounds suffice.** Races in this code need two threads: one that has
decided and one that acts in between; a third adds no new kind of step, and the
theorems cover any number for most properties. A threshold of 2 is the least that
tells a count from a single failure. Three calls on two callers let a call follow
one that failed while another waits for the lock; two lines of backlog let a report
stand before or after an answer, and `Recv` splits them in every way. Two addresses
let a device leave, and come back to one another job is still bound to. Ages are kept
up to the interval and counters up to their threshold, so time and failures need no bound.
A request spans at most one tick of the rate limit's clock in `Rediscovering`: a
request lasts seconds, an interval minutes, so an interval has at least three ticks.
In `LineFraming` four lines are enough for a segment with two lines and parts of two
more. In `EntryLifecycle` three clients are the one set up, the one a late request
holds and one not yet collected; two reloads are what one reconfiguration asks for.
In `ConfigFlow` one device that changes and one that does not are enough for either to
be taken for the other; the number of changes and of flows matters to no theorem.

**Fairness.** Executor threads are scheduled and every transport call returns at its
deadline: weak fairness of a job's steps. A poll is rescheduled for ever by Home
Assistant's timer: weak fairness of a poll's beginning. The clock runs. A free lock
is eventually taken by a thread waiting for it. Presses, the device, the LAN and the
relay owe nothing; a property that needs a device to stay up says so (`<>[]...`).
Set-up, unload and reload go on by themselves (the event loop runs, Home Assistant
retries), a closed client that nobody refers to is collected, and the executor's jobs
of a flow return: each has a timeout. Users owe nothing.
`CloudRelay` has no liveness of its own: its deadline is `LineSocket.lines`, the code
that `LocalTransport`'s `EveryCallEnds` exercises.

## 4. Disagreements found

| Run | Statement | What the code does |
|---|---|---|
| `FallbackTypeError` | "Base class for every error this package raises" (`api/errors.py:7`) | `_circuit_opened_at` is read twice around a call of the clock (`api/fallback.py:160`, `:163`). Another thread's success clears it in between and the subtraction raises `TypeError`, which the coordinator does not catch. When the request is the metering query, it fails the poll that has read the switch: "its failure must not take the switch down with it" (`coordinator.py:67`). |
| `CoordinatorStale` | "Reconcile against the device shortly after" (`coordinator.py:133`) | A refresh requested while an earlier command's refresh is in flight is dropped, and the result of that earlier refresh overwrites the confirmed state until the next interval. |
| `EntryStaleOptions` | "Rebuild the client when options change, so new timeouts take effect" (`__init__.py:116`) | The options are read in line 93 and the listener is registered in line 98, after the first refresh. Options saved in between, from a form that was open, are not heard. |

Others are stated as properties that do not hold, and are not kept as runs:

* `OpensOnlyOnConsecutiveFailures`, with two jobs: "one success clears the tally"
  (`api/fallback.py:189`), but a decision to open that is stored after another
  request's success opens the circuit on a tally of zero (`:180`).
* `CommandDeliveredOnce` (`FallbackClient`): "a command that may already have reached the
  device must never be sent twice" (README.md:184). The local transport keeps to it;
  the client sends the command again over the relay when the local reply is lost, and
  `tests/test_fallback.py:73` expects the fail-over.
* `RepairedOnNextPoll` (`Rediscovering`): "a DHCP lease change repairs itself on the next
  poll" (README.md:160), unless there was a search in the last 300 s.

Met while modelling: two requests that find the interval over both probe
(`api/fallback.py:166`), at the cost of one timeout and no more; one failed
probe sets metering aside for good, and the socket is
without the sensors that only the group's query reports until a reload
(`coordinator.py:77`); the probe
asks the device once per path (`const.py:62`); a failed metering query clears
`connection_path` on an available entity; unread lines hide a hang-up from
`peer_has_closed`; a neighbour given the old address answers in the device's place,
because a frame names no device; a request in flight at unload opens a connection that
stays until Python collects its client (`__init__.py:109`), and so does a first refresh
that fails on a connection it keeps: after a reply without a data map
(`api/local.py:77`) or a read that raises (`api/wire.py:67`), because a failed set-up
closes nothing (`__init__.py:94`); a search without a socket raises past the flow
(`api/discovery.py:72`); a body cut off in
`_request` passes every `except` up to Home Assistant's "unknown" (`api/account.py:199`);
two reconfigurations that cross may leave the older of the keys they fetched.

## 5. Theorems

For every number of threads, every threshold and every interval, from the named
assumptions on the constants (positive thresholds, `None` distinct from the values it
stands beside, pollers and pressers disjoint, a line terminator that is no number).

* `FallbackClientProofs` - `TypeCorrect`, `CutOutIsEarned`, `LocalOnlyIsSafe`,
  `OutageIsInvisible`. The inductive invariant adds to the properties that a job's
  deliveries fit its place in `_attempt` (else the count of two is not preserved) and
  that the tally never exceeds the failures seen (else a full tally would not be
  evidence of as many failures). `OutageIsInvisible` is the temporal formula itself,
  though a safety one: with the relay up no job comes to `giveUp` or ends in
  `TransportError`, and with the listener down throughout no success takes the stamp
  away from another job (`DownInv`), so none crashes either.
  For one job at a time (hypothesis `OneJob`, `Jobs = {Poll}`), `Refinement`: every step
  of the client is a step of `CircuitBreaker` or a stutter; and `OpensConsecutively`
  and `SingleProbes`. These fail for two jobs. Their invariant (`SeqInv`) says
  what each step has read of the circuit still holds when it acts: exactly what a second
  job breaks.
* `LocalTransportProofs` - `AtMostOnce`. A frame leaves a trace when it is on its way
  or received. The invariant: numbers not handed out and frames of calls still before
  their write have no trace, no two calls in progress share a number, and a frame on its
  way has not been received. Steps that neither write, read a frame nor take a number
  are shown harmless once, by one lemma (`QuietKeepsFrameInv`). And `ConnectionIsClean`,
  `AnswersStay`, `AnswersAreKept`, about `Content`, the lines that can
  be read of the connection in order. The invariant (`AnswerInv`): whoever is inside holds
  the lock; what answers a frame was sent by a device that has read it (so no answer to an
  unwritten frame can be there to be lost); and an open connection owes something only to
  the caller that waits, its frame or its answer and the answer once. The lemmas on
  sequences (`ConcatSet` to `OnceAppend`) say what a `recv` and a taken line leave of it.
  From both invariants, `LocalIsATransport`: every step is one of `Transport` or a stutter;
  a `reply` is only taken when its number is the frame's own, which was received.
  `LockIsGivenBack`: the lock is held exactly by the one caller inside `_exchange`,
  however a call ends. `ConnectionStays`: the connection is reused; a replacement, a
  timeout or a failed read has always an end of the far side or a failed call before it
  (`excused`). `LocalTypes`.
* `CloudRelayProofs` - `CloudIsATransport`, and `UndeliveredIsNowhere`,
  `SubscribedBeforePublished`, `ReceivedOnce`, `AnsweredIsReceived`, `RelayTypes`, all from
  one invariant, `RelayInv`. A call ends but its bytes do not: a frame may still be on a
  connection that is closed, with the relay, or on its way to the device. So the
  invariant follows the frame: it is in one place at a time (`OnePlace`), and in none of
  them while its connection still holds it unread or it has no call yet (`UnreadIsBlank`,
  `FutureIsBlank`). The lines a caller can hold then have a meaning (`LinesArePossible`):
  an answer to some frame that was received, or the receipt that its own went to nobody,
  which is there only while the frame is blank. `OutcomesHold` keeps what a finished call
  has said true for ever, which is what `Transport` asks of steps after its end. That an
  unread connection begins with the subscription (`Unread`) gives the route (`Routed`).
* `LineFramingProofs` - `FreshNumbers`, and `FreshNumbersFramed` for the numbers as the
  socket's peer uses them. `LinesAreAChannel`: `LineSocket` implements `LineChannel`,
  whatever the segments. The invariant (`LinesOnTheirWay`) says of the whole stream, read
  or not, that it decomposes into lines at known places, each spelled out with its
  terminator, that those with anything in them are what was said, and that the reader has
  taken the first M of them: buffer and wire together are the rest. It is stated with the
  places as functions, because a decomposition computed by recursion could not be
  reasoned about. The lemma that matters is `FirstTerminator`: the first terminator
  in the buffer, however much of the stream is there, is the end of its first line, even
  when that line is itself half a terminator.
* `RediscoveringProofs` - `WritesSentOnce`, `RelocatesAlone`, `HostIsFollowed`,
  `MovedIsFound`, `RediscoveringTypes`. The
  wrapper has no lock; the invariant is that a relocating job's search is so recent
  (age 0, or 1 for a job that has seen the clock tick) that the rate limit forbids
  everybody else's. It needs that a search is shorter than the interval. For `MovedIsFound`, a
  poll that fails at an address the device is not at either still has it to find, or has
  overlapped the relocation that found it (at most 2 ticks ago, of an interval of at least
  3) and is declined: it cannot search for nothing.
* `CoordinatorProofs` - `NeverStopsPolling`, `ProbesOnce`, `CoordinatorTypes`. Until the
  entity exists there is a single poll and nothing to start another, so the question
  about metering is decided before polls can overlap. Then, for `Sensors`,
  `SensorsMatchPolls`, `ReadingsAreThePolls` and `SensorTypes`, whatever the device has in
  either reply: every step of `Sensors` is one of
  Coordinator (`SensorsStepIsCoordinators`), so Coordinator's invariant carries over, and
  the first poll's readings agree with what its probe has decided. What a poll in flight
  has gathered is what it has had answers for, so what is stored is too.
* `EntryLifecycleProofs` - `EntryTypes`, `NoLeak`, `ReconfigurationArrives`. A request
  works on the client set up or on one closed during it, and nothing but the first
  refresh can open a client before that refresh is over; so what a failed set-up leaves
  open is its own client's. From its building on, a client's settings are current or a
  reload is waiting.
* `ConfigFlowProofs` - `NoDeviceTwice`, `EntriesStay`, `OwnAddresses`, `FlowTypes`. What the
  two checks of
  `_async_configure` establish has to last to the write: no two flows that add have
  chosen the same device, none has chosen one with an entry, and an update never makes
  an entry, because a reconfiguration's entry exists. And `FreshKeys`: a device's key only
  grows, so a list that comes after the credentials holds no key older than they saw
  (`KeysSince`), and what is stored is from that list, however long a search or an open
  form lies between.

Every safety and action property and every refinement that a passing run checks has its
theorem. Only model-checked is liveness: `EveryRequestEnds`, `ReturnsToLocal`,
`EveryCallEnds`, `DeviceIsFollowed`, `AllSettles`, `ComesUp` and `FlowsAnswer` need fairness
and ENABLED, which are out of the prover's reach. No module uses recursion.

## 6. Not modelled

* `discover` of `api/discovery.py`, which the integration does not call.
* The encodings of `api/protocol.py`, and the texts of forms and errors.
* What a reset of the energy counter means: Home Assistant's business
  (`TOTAL_INCREASING`).
* The order of two commands that take different transports: nothing in the repository
  promises one.
* The composition of `Rediscovering` with `LocalTransport`'s lock: a waiter on the old
  transport connects it to the old address once more, and its socket is closed when
  the waiter returns.
* Removal of an entry, and an unload while Home Assistant stops: the same handler
  without a set-up after it.
* `api/errors.py`, `const.py`: declarations.

## 7. Plan

1. A frame's fate across the two paths: `FallbackClient` over two instances of
   `Transport`, so that what the transports are proved to keep is what the client is
   proved from: a command reaches the device at most twice, and a client told that the
   relay reached nobody has sent it at most once.
2. Liveness stays with TLC; a safety lemma under each (what a waiting thread waits for
   is always about to be given back, as in `LockIsGivenBack`) can be proved.
