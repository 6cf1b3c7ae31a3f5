# A verification project for contributoor

contributoor is a sidecar of Ethereum beacon nodes: it connects to one or more nodes, subscribes to
their event streams, drops what it should not report (events while the node syncs, of another network,
seen before, or attestations of other subnets) and hands the rest to sinks.  This directory holds TLA+
modules of that program, configurations with which TLC model-checks them on small instances, and proofs
that TLAPS checks for every value of the constants.  All definitions are translated from `src/`;
`PROJECT.json` gives the lines each one stands for.

    tlc -workers 2 -config MCLifecycle.cfg MCLifecycle.tla    # one run
    tlapm TopicManagerProofs.tla                              # the proofs

## The system

| Component | State | Operations | Talks to |
|---|---|---|---|
| Topic manager (`pkg/ethereum/topic_manager.go`) | conditions, excluded topics; advertised and selected subnets; subnets seen, start of the window, mismatch count, time of the last mismatch; channel and once; cancel function of the refresh | `ShouldSubscribe`, `ExcludeTopic`, `SetAdvertisedSubnets`, `RecordAttestation`, `ResetAfterReconnection`, `StartSubnetRefresh`, `StopSubnetRefresh` | the event pipeline (records attestations), health callbacks and the refresh (set subnets), the monitor (waits on the channel) |
| Beacon wrapper (`beacon.go`, `beacon_factory.go`) | `isHealthy`, sinks, cache, summary, topic manager | `Start`, `Stop`, the health callbacks, one callback per event | ethcore's beacon node (external), identity requests |
| Events (`internal/events`, `v1`) | duplicate caches with a TTL; each event its two times | `Ignore`, `Decorated` | cache, topic manager and wallclock through the wrapper |
| Summary (`internal/events/summary.go`) | two atomic counters, a `sync.Map` | `Add…`, `Print`, `Reset` | callbacks and the summary goroutine |
| Sinks (`internal/sinks`) | the xatu output | `Start`, `Stop`, `HandleEvent` | the wrapper |
| Application (`pkg/application`) | the instances: node, cache, summary, `stopMonitor`, `summaryCancel`, `lastReconnect` | `Start`, `Stop`, `connectBeacons`, `monitorBeaconInstance`, `RestartWithoutSingleAttestation`, health and HTTP servers | everything above; the context of `main` |
| Configuration (`cmd/sentry`, `pkg/config/v1`) | the config while it is put together | the overrides from environment and flags, `createBeaconConfig` | the application |
| Clock drift (`internal/clockdrift`) | one duration | the query of `Start` and of a scheduled job, `Now`, `GetDrift` | callbacks, which read it twice: for the time of receipt and for the metadata |

What is hard to test here: identity requests whose answers are used later than they were true; a window
over slots that arrive in any order; a signal that must be given once, rearmed, and held back for a
cooldown; copies of an event on concurrent callbacks; a print that reads and resets counters which
callbacks add to; a restart that replaces the parts of an instance one by one, may fail in the middle,
and runs in a goroutine that shutdown also ends; connection attempts that report after nobody waits for
them; dates that three clocks and two reads of a drift go into, and unsigned fields that hold their
differences; and settings in which zero, "not set" and a value are not told apart.  `PROJECT.json` lists each of
these hazards with its line and the properties that would catch it.

## Modules

| Module | Models | Notes |
|---|---|---|
| `ReconnectSignal` | what the topic manager promises its monitor | abstract: fired or not, and time since the last signal |
| `TopicManager` | subnet selection, mismatch detection, the signal, the refresh goroutines | one step per critical section; a refresh fetches and applies in two steps; time is the time since the last mismatch, capped at the cooldown |
| `TopicManagerHistory` | `TopicManager` with history variables | what was recorded at which slot, against which the code's window is judged |
| `TopicManagerProofs`, `TopicSubscriptionsProofs`, `EventPipelineProofs`, `EventTimingProofs`, `SummaryProofs`, `LifecycleProofs`, `ConnectBeaconsProofs`, `ConfigOverridesProofs` | theorems about the module each is named for | `TopicManagerProofs` also has those about `TopicManagerHistory` and `SubnetTracking` |
| `SubnetTracking` | `TopicManager` inside a `BeaconWrapper` | the node's subnets change; start, stop, health callbacks and the refresh hand them on |
| `TopicSubscriptions` | which topics a connection subscribes to | conditions, exclusions, opt-in topics, creation and restart |
| `EventPipeline` | one callback per delivery, from metadata to sinks | every access to something shared is a step; an event is its topic, slot or epoch, what it is about and the rest; slots are `uint64` (`% UintMod`); the counters are totals, as `Summary.Reset` is left to `Summary` |
| `EventTiming` | the clock drift service, the two reads of the drift in `forwardEvent`, the date and the propagation that `Decorated` gives an event | a time is a number of nanoseconds since genesis; `Milliseconds` cuts a duration towards zero; whether an event is ignored is free; the names, epochs and wallclock slots of a row are left out |
| `Summary` | counters and map against `Print` and `Reset` | `sync.Map` calls are single steps, `AddEventStreamEvents` is two |
| `Lifecycle` | start, monitor, restart, summary and stop of the instances, and the HTTP servers around them | the restart's steps are steps of the monitor that calls it; generation g+1 of an instance comes from the restart of generation g |
| `Connecting` | what `Start` may rely on when it connects | abstract: attempts, and one answer that is true of them |
| `ConnectBeacons` | `connectBeacons` and its background receiver | channels, timer, context and `select` |
| `ConfigOverrides` | defaults or file, environment, flags, then `createBeaconConfig` | a string is the name of its source; a conversion to uint32 is `% UintMod` |

`TopicManagerHistory` and `SubnetTracking` extend `TopicManager`.  `TopicManager` refines
`ReconnectSignal`: `fired` is the closed channel and `quiet` the time since the last mismatch signal.
`ConnectBeacons` refines `Connecting`: an attempt is what its goroutine found, whether or not it has been
reported and received, and the answer is the result of the call.
`Lifecycle` uses of the topic manager only that it may signal while attestations are subscribed to, which
`TopicManager` and `TopicSubscriptions` model, and of `connectBeacons` what `Connecting` says.  Every `MCx` module instantiates `x`.  Operators named `X_Something` are
altered forms of `X`: a plausible slip in the code, for which each property was seen to fail.

External, and modelled by what the code relies on: the beacon node (its subnets, sync state, health checks
and events come in any order), HTTP identity requests (answered or not), sinks (succeed or fail), the NTP
server (answers with an offset, with an invalid response, or not at all) and the clock of the host, which
does not go back.

## Runs

| Run | Instance | Shows |
|---|---|---|
| `tracking` | 4 subnets, 4 slots in any order, window 2, threshold 2, high water mark 1, cooldown 2 | a signal rests on more unadvertised subnets than the high water mark, all within the window, when attestations have come in slot order since the last reset; mismatches of the latest slot, as many as the threshold, bring a signal in whatever order the slots come; refinement of `ReconnectSignal` |
| `subnet_tracking` | 4 lists over 2 subnets with a limit of 1, one health callback, one refresher | when the node settles on a non-empty list, the topic manager follows for good, whatever answers were under way; a stopped wrapper comes to rest; no interleaving selects a subnet that is not advertised; only the refresher whose cancel function is held runs uncancelled |
| `no_subnets` | as above | **violation**: when the node settles on no subnets, the refresh never tells the topic manager (below) |
| `subscriptions` | 3 topics, every list over 3 subnets, limits 1 and 2 | opt-in topics need a condition that holds and a connection that is not from a restart; subscription and selection agree, but for a node of no subnets, which is subscribed with none selected |
| `event_pipeline` | 2 deliveries of pairs of events (copies, two subnets, one payload on its two topics, no payload, fast confirmations of one block, checkpoints near and far), 2 sinks, TTL 2 | one copy per TTL, no copy dropped without an original on its own topic, only the selected subnet forwarded, every subnet recorded before the subnet, the hash or the cache can drop it, every sink tried, counters consistent with them |
| `event_timing` | attestations and preferences about slots 0 to 2 or a checkpoint on one callback, slot 1 or a checkpoint on the other, two units to a millisecond, clock 0 to 3, slots of 4, offsets -3 and 5, 2 queries, `UintMod = 16` | a reader recovers to less than a millisecond when an event was received and when its slot began, unless a sync fell between the two reads of the drift; a checkpoint is dated between its receipt and now; rows are dated in the order of receipt while the drift does not fall |
| `summary` | 2 callbacks of each kind, 2 prints | no summary shows more than was received; exported and failed events are in one summary at most |
| `lifecycle` | 2 instances, a server, up to 3 generations | one monitor, one connection and one summary that is not cancelled per instance; no second restart; no double close; a finished `Stop` leaves no connection and no server; a cancelled summary ends; a signal has its wrapper stopped and the monitor at the start of a new one or ended; shutdown ends every goroutine |
| `stop_panics` | 1 instance | **violation**: `Stop` meets a nil `Node` (below) |
| `connect` | 3 nodes | refinement of `Connecting`; the call returns; no reporter is left blocked; the background receives all |
| `config_overrides` | every source of 2 strings, credentials and TLS; every source of the limit and of one number | precedence of every kind of setting, for numbers that are not zero and flags that are uint32; the check is active by a flag of true, by the environment, or by the file when the environment is silent, and by nothing else |
| `flags_override` | the same | **violation**: a flag that is given does not decide (below) |

**Bounds.**  Every one is a constant in a `.cfg` or an operator of an MC module.  Two
deliveries are the fewest that can interleave; one refresher and one health callback hand on answers beside
each other, and what two refreshers do to each other is proved (`NoLeak`).  Slots span twice
the window, so that windows end and start again.  The lists include an empty one, one at the limit and one above
it.  Three generations are one more than `RestartedAtMostOnce` allows to be used.  `UintMod = 128` with flags of 0, 4,
65 and 128 takes the wrap-around; in the pipeline `UintMod = 256` makes the slot of epoch 10 wrap to the
current one.  In `event_timing` slot 2 begins after every reading of the clock, the drift of -3 puts
receipts before genesis, both offsets have a part of a millisecond that is cut, and with `UintMod = 16` a wrapped
difference is still no other one; two queries are one before and one between the steps of the callbacks.  Symmetry (deliveries, callbacks) is used in runs without liveness
properties only; exporters and adders never appear in a property by name.
Deadlock is checked except where the system ends (`lifecycle`, `connect`, `config_overrides` and `flags_override`) or a bound ends it (`summary`, `event_timing`).

**Fairness.**  `SFairSpec`: the refresh goroutine keeps running (weak fairness of
its steps) and, as Go's `select` picks among ready cases at random, its exit is strongly fair.  In
`SubnetTracking` identity requests are answered again and again while the node runs.  `Lifecycle`: the steps of running
goroutines are weakly fair; external events (signals, connections, shutdown) are not, and neither is the start of
a new wrapper in a restart: it waits for a healthy node without a timeout (`beacons.go:318`), where the first
connection has the 60 seconds of `connectBeacons`, so it has to return only once its context is done.  A summary
whose context is done may take its tick and print first, but `select` does not prefer the tick for ever.  `ConnectBeacons`: the
timer fires, the goroutines run; a connection attempt need never return, unless the context is done.

## What the checks found

* `stop_panics`.  `RestartWithoutSingleAttestation` sets `Node` to nil before it creates the new one
  (`beacons.go:297`).  If that fails, it stays nil for the rest of the run; `Application.Stop` calls
  `instance.Node.Stop` (`lifecycle.go:91`) and panics.  The same when shutdown falls into the restart.
* `no_subnets`.  `ParseAttnetsBitmask` returns nil for a node without subnets, and the refresh takes nil
  for a failed request (`topic_manager.go:415`); the health callback takes the same nil as the new list.
* `flags_override`.  The README says that flags override every option, and the usage of the limit's flag that
  it is "(0-64)".  A limit of zero becomes 2 in `createBeaconConfig` (`beacons.go:164`), where zero means that
  nothing was given; a check that the file or the environment enables stays active under a flag of false, which
  `c.Bool` does not tell from none (`config.go:240`).  TLC reports the limit first, and the flag of false when
  the conjunct about the limit is left out.  `HighestSourceWins` and `EnabledBySource` say what does hold.

Other divergences met while modelling, which no run is kept for:

* The comment on the restart lists the cache under the resources that are reused (`beacons.go:258`); the
  restart installs a new, empty one (`beacons.go:330`), so events of the last seven minutes that the new
  connection delivers again are accepted again.
* `clock_drift` and `slot_start_diff` are unsigned, and every event converts to them without a check: a
  host whose clock is ahead, or an event before its slot, gives a number near 2^64.  Proposer preferences
  are always about a slot to come.  The comments at the conversions say "safe." and "not concerned in
  reality"; a reader who takes the field as signed gets the number back (`ReaderRecoversTimes`), to less than a
  millisecond, as `Milliseconds` drops the rest towards zero where the dates keep nanoseconds.
* A finalized checkpoint is dated with `Time()` (`finalized_checkpoint.go:61`), the host's clock when the
  event was built, where every other event is dated with the adjusted time of receipt; its metadata
  declare a drift that is not in the date.  When a sync falls between the two reads of the drift, the other events declare a
  drift they are not dated by.
* The check of the network (`beacon.go:506`) takes the slot from the host's clock without the drift.
* A failed restart also leaves no monitor, though the monitor exits "as a new one will be started"
  (`lifecycle.go:157`), and the new cache of a successful one is never started.  One whose new node does not become
  healthy keeps its monitor waiting, with `Node` nil, for as long as the context lives.
* The restart cancels the context of the old summary and goes on (`beacons.go:280`): the old goroutine may print
  beside the new one for a while, but not for good (`OneSummary`, `CancelledSummariesEnd`).
* A node without subnets is within every limit of the condition on `single_attestation`
  (`topic_manager.go:500`): contributoor subscribes to attestations, selects no subnet and forwards none.
* Attestations of slots before the window join it, however old; slot 0 is also the value of a window that
  has not started; and `mismatchCount` counts attestations, where the comment on the default of the
  threshold (`config.go:12`) speaks of windows.
* Old subnets count as a mismatch only above the high water mark, though `beacon.go:155` says that
  detection will catch them.  The condition on `single_attestation` holds the number of subnets at creation.
* A health callback that was waiting while `Stop` ran sets the wrapper healthy again.
* `AddEventStreamEvents` is not atomic: it loses counts, and undoes a reset, so that one event can be in
  two summaries.
* A flag above 64 is taken, against the usage text "(0-64)", and one beyond uint32 wraps; the variable that
  enables the check resets the limit of the file.
* An event enters its duplicate cache before the last sync check (`beacon.go:447`); one dropped there
  suppresses its later copies for a TTL.
* `StoppedMeansDisconnected` needs `main`'s order, context first: `Stop` by itself ends no monitor.

## What is proved

`TopicManagerProofs` proves for all subnets, lists, slots, limits, windows, cooldowns and refreshers,
from the assumptions on the constants in `TopicManager` only:

* `TypeCorrect`: `Spec => []TypeOK`.
* `SelectionSafe`: a selected subnet is advertised, and there are no more than the limit.  Inductive with
  `TypeOK`: both operations that change the advertised subnets choose the selection anew in the same
  critical section.
* `OnceSafe`: the once is spent exactly when the channel is closed.
* `SignalRefinement`: every step maps to a step or a stutter of `ReconnectSignal`.  It needs `TypeOK` and
  `OnceMatchesChannel`: without the latter a spent once with an open channel would swallow a signal.
* `NoLeak`: by induction on the refresh state, a refresher that is neither cancelled nor exited is the one
  whose cancel function is held.

About `TopicManagerHistory`, from `WindowAssumption` (finitely many subnets, a window of at least one slot)
besides:

* `Detection`: `MismatchDetected`.  `LatestSlotCounted` is the heart of the invariant: `seenSubnets` holds
  every subnet recorded with the latest slot, and `mismatchCount` is at least the number of mismatches that
  slot alone has shown.  It is inductive only with `WindowHoldsLatest`, that the present window contains the
  latest slot: an attestation that ends a window is then of a later slot, so that a window never ends within a slot.
* `Evident`: `InOrderEvidence`, when slot 0 does not occur; with it the code cannot tell a window that began
  from none.  `NothingOlder` says that what has been seen in a window was seen in its slots.

About `SubnetTracking`, for any checks, if the wrapper has a refresh goroutine to start (`Refreshers # {}`):

* `WrapperSteps`: every step of the wrapper is a step of the topic manager or leaves it alone.  It needs that a
  health callback hands on a list the node has advertised (`WrapperInv`), however old the answer is.
* `WrapperSafe`, `WrapperSignal`: what holds of the topic manager alone holds of it in the wrapper.  The
  wrapper's initial states are not the topic manager's, as its constructor may already have been given the
  subnets: so the invariants are shown to hold there, and their preservation is taken from the lemmas about
  the steps (`NextType`, `NextSelection`, `NextOnce`, `NextNoLeak`, `NextSignal`), which are stated once.
* `StopEndsRefresh`: once `Stop` of a started wrapper has passed the refresh, no refresh goroutine is left but
  cancelled ones, for good (`StoppedRefreshEnds`).  It follows from `NoLeakedRefresher` at the step that
  cancels, and from `Start` having returned, since it alone starts a refresh.

`ConnectBeaconsProofs` proves for any finite set of nodes:

* `TypeCorrect`: `Spec => []TypeOK`.
* `ConnectingRefinement`: every step maps to a step or a stutter of `Connecting`.  The invariant counts: the
  attempts still expected are those under way and those whose report lies in a channel, and a node counts as
  healthy or failed only by its own report.
* `ReportersNeverBlock`: `RoomForReports`.  A goroutine that is about to report is not in the channel, which
  therefore holds fewer reports than there are nodes.
* `WaitsEnd`: `NeverWaitsInVain`.  The count of reports is zero exactly when none is left to receive, and
  neither loop goes on at zero (`WaitsForReports`).  With `ReportersNeverBlock` this is what the liveness
  properties of the run `connect` rest on, apart from the goroutines being scheduled.

`EventTimingProofs` proves for all events, clocks, slot times and numbers of queries:

* `TypeCorrect`: every unsigned field holds what its conversion gives.
* `DatedInOrder`: a row is dated by the clock and the drift at its receipt, which no later step of the
  callback or of the drift service changes.
* `TimesRecovered`: `ReaderRecoversTimes`.  `MillisecondsClose` bounds what the conversion to milliseconds drops,
  on either side of zero, `SignedUint64` is the round trip through the unsigned field, and `ReadBack` the reader's
  arithmetic; `DeclaredInv` says that without a sync the drift read again for the metadata is the one of the
  receipt.  It rests on `RangeAssumption`: the milliseconds of an offset and of the distance from a slot's start
  are an `int64`'s, as those of a `time.Duration` are.

`EventPipelineProofs` proves for all events, deliveries, sinks, clocks and TTLs:

* `TypeCorrect`: `Spec => []TypeOK`.
* `AcceptedOnce`: an event passes its duplicate cache at most once in a TTL.  The invariant `Remembers`
  says that what is left of its entry and the time since it last passed add up to the TTL or more; a tick
  moves one unit from the one to the other, and a look-up fills the first.  `SameKey` shows that events
  which are the same to their readers are looked up under the same key.
* `SelectedOnly`, `RecordedFirst`: an attestation that passes was of a subnet selected since it arrived,
  and was recorded.  Both follow from `FilterInv`, which also says that a running callback has seen the
  present selection: without that the check of the subnet proves nothing about the past.

* `DuplicatesJustified`: `DuplicatesHaveAnOriginal`.  Whatever the cache remembers some delivery has taken
  past it (`DuplicateInv`), so that a copy which finds its key there is not alone.  `KeySame`, the converse
  of `SameKey`, makes the one whose key it found a copy of the same event.
* `CountersRight`: `CountersMatchSinks`, for finitely many deliveries and any number of sinks.  `LoopInv` ties
  each callback's loop to what it has tried; the counters are the sizes of the sets of callbacks that have
  added to them.

`LifecycleProofs` proves for any instances, servers and bound on the generations `TypeCorrect`,
`OneConnection`, `RestartedOnce`, `SummaryAlone`, `NoCloseTwice` and `Disconnected`: all the safety
properties of the run `lifecycle`.  `SummaryAlone` (`OneSummary`) is about summaries nobody has cancelled: the
others end, which is liveness, by `CancelledSummariesEnd`.  Each instance is in one of four phases: its first wrapper, the restart step by step,
what a failed restart leaves, or the second wrapper (`Phase`).  Only the first subscribes to attestations,
so only its monitor restarts (`SignalsOnlyFirst`), from a phase in which `stopMonitor` is open.  Shutdown
needs `Stopping`: what `Stop` has stopped cannot connect again, since the context is done by then.
`PanicNeedsRestart` bounds the defect that the run `stop_panics` shows: `Stop` panics only when an instance
has signalled a mismatch and its restart is between putting the old node away and installing the new one, or
has failed there (`PanicsInRestart`).  It needs `MissingExplained`, inductive beside the phases: after the
start an instance without a node is one whose topic manager has signalled.

`SummaryProofs` proves for any topics and number of summaries and finitely many callbacks:

* `TypeCorrect`, and `NotOvercounted`: what a callback has loaded and not yet stored is bounded by the
  callbacks that had added by then, and their number does not fall; a store adds one to both.
* `ReportedOnce`: what is pending moves to what is reported.  The failed events are bounded by the callbacks
  that have ended, a stronger bound than the property's: it is what a step of a callback keeps.

`TopicSubscriptionsProofs` proves for any topics, opt-in topics, lists and limits `TypeCorrect`,
`ConsentNeeded` (`OptInTopicsNeedConsent`) and `LimitsAgree` (`SubscriptionMatchesSelection`): the restart's
exclusions reach the new topic manager before the enabled topics are read (`RestartExcludes`), and until the
node changes its subnets the condition and the selection come from one answer (`SameAnswer`).  They agree at
every number of subnets but zero, for which the property says what the code does instead.
`RestartsOnce`, an action property, follows: a connection that comes from a restart is not restarted.
`Lifecycle` builds on it where it gives the wrappers of restarts no attestations.

`ConfigOverridesProofs` proves for any settings, values, files and defaults, every flag an integer:

* `TypeCorrect`, `Precedence` (`HighestSourceWins`) and `SourcesOfEnabled` (`EnabledBySource`): all the properties
  of the run `config_overrides`.  The invariant says of each setting what the sources looked at so far have made
  of it, by how far the code has come (`PastStrings` to `PastNumbers`): `LimitInv` and `EnabledInv` follow the
  check through the four parts that may make or change it, `NumbersInv` counts the numbers looked at.
* `ZeroCannotBeGiven`: no limit or number of zero comes out, whatever the sources say, so that the zero of the run
  `flags_override` is not a matter of one flag.

Assumed are defaults that are positive and fit the width (`NumbersAssumption`) and files whose numbers are uint32
(`FileAssumption`), as the type of the configuration has it.

Every invariant and every action property of a passing run is the subject of a theorem.  Model-checked only
are the liveness properties, as the prover handles neither `ENABLED` nor fairness: `ConnectReturns`,
`ReportersEnd`, `BackgroundReceivesAll`, `CancelledSummariesEnd`, `SignalsAreHandled`, `ShutdownEndsGoroutines`,
`FollowsSubnets` and `StoppedWrapperQuiesces`; of the first three and the last the part that is safety is proved
(above).  The three properties expected to fail, `StopNeverPanics`, `FollowsNoSubnets` and `FlagsOverride`, have
counterexamples and no theorem.

## Not modelled

The fields of decorated events that are copied from the node's message or computed from it by the wallclock
library; Prometheus metrics; generated code
and mocks; address parsing; the options of the application and their defaults; what the HTTP servers serve; the process beyond `main`'s wait for the context.  The
health handlers read `instance.Node` without the lock while a restart writes it: a data race whose outcomes
Go does not define.

## Plan

1. More of the system: the health endpoint, which reads the instances one after the other while they
   change; trace identifiers and metric namespaces; `ParseAttnetsBitmask` and `ParseAddress` against a reference.
2. Composition: `EventPipeline` with `TopicManager` in place of `selectedSubnet`, and with `EventTiming`
   for the times its caches keep; `Lifecycle` over an abstract cache that says which events a restart lets in again.
3. Proofs: the safety parts of `FollowsSubnets`, `SignalsAreHandled` and `ShutdownEndsGoroutines`; that
   the signals `Lifecycle` lets a wrapper give are those of `ReconnectSignal`.
