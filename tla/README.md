# LiveMediaExt in TLA+

LiveMediaExt lets an application stream live audio and video over RTSP. It extends live555: capture
threads deliver media samples into queues, one event-loop thread takes them out and feeds every
connected client. This directory holds TLA+ models of that program, TLC configurations that check
them on small instances, and proofs, checked by TLAPS, of what holds for all instances.

Paths below are relative to the repository (`src/lib/...` etc.).

## 1. Inventory

| Part | State | Operations | Talks to |
|---|---|---|---|
| `RtspService` | `m_mChannels` (id to channel), two request queues, `m_channelLock`, watch byte `m_cEventloop` | `init`, `start`, `stop`, `createChannel`, `removeChannel`; every 50 ms `doCheckChannelsTask` | application threads call it; its poll calls `LiveRtspServer` |
| `LiveRtspServer` | `m_mRtspClientSessions`, client limit; (live555) the table of media sessions by name, client sessions with a reference to one | add and remove media sessions, kick clients, SETUP with limit, destruction | creates `LiveMediaSubsession`s |
| `LiveSourceTaskScheduler0` | registry channel id -> source id -> subsession | register, deregister, `processLiveSources`, `doEventLoop` | polls the `ChannelManager`, pushes to subsessions |
| `PacketManagerMediaChannel`, `SingleChannelManager` | one bounded lock-free queue for video, one for audio | `deliverVideo`, `deliverAudio` (capture threads), `getMedia` (event loop) | |
| `LiveMediaSubsession` | list of device sources, one sample buffer | `addMediaSample`, `createNewStreamSource`, client ids | registers itself with the scheduler |
| `LiveDeviceSource` (one per client and track) | queue of frames, `m_bIsPlaying`, live555's awaiting flag | `doGetNextFrame`, `retrieveMediaSampleFromBuffer`, `deliverFrame`, `processReceiverReports` | live555's RTP sink pulls from it |
| `LiveH264VideoDeviceSource` | `m_bWaitingForIdr` | splits payloads into NAL units, waits for an IDR frame | |
| `SwitchController` | current and target channel, limits, flag | switch, limit | an owner outside the repository |
| `SimpleRateAdaptation` and receiver reports | direction and position of a ramp, last packet number | `getRateAdaptAdvice` | `LiveDeviceSource` passes its advice to a global `IRateController` |
| `SingleMediaSampleBuffer`, `MultiMediaSampleBuffer`, `MultiplexedMediaHeader` | start time, payload and size of each channel | `addMediaSample` (parses the in-band header), `getNextFrame` | `LiveMediaSubsession` adds, each device source retrieves |
| `LiveAMRAudioDeviceSource`, `LiveAMRAudioRTPSink` | header byte of the frame retrieved last; the packet being built | strip the header; table of contents and packet size | live555's sink asks the source for frame after frame |
| AAC and H.264 subsessions and sinks | none of their own | construct live555 objects | live555 |
| `VirtualMediaSource` and the demo application | a timer, the next time stamp | start, stop, the timer's handler | gives samples to `PacketManagerMediaChannel` |

What makes it hard: application threads, capture threads and the event loop meet in the request
queues and the sample queues; requests are judged by a map that lags behind them; stopping and
restarting leaves queues filled; sessions live on while clients refer to them; frames are pushed and
pulled; what a frame is sent with is read when it leaves the queue, not when it enters; a timer's
handler may be queued when the timer is stopped; nested loops share a budget; a search loop moves its
own index. `PROJECT.json` lists these
hazards with their lines and the properties aimed at them.

What makes each part correct, in a sentence:
- RtspService: its map, the server's table and the scheduler's registry agree between polls, the first
  request for a name becomes its session as it was made, an accepted removal takes effect, `stop` ends the
  loop. (A second request for a name between two polls is accepted and dropped.)
- LiveRtspServer: the scheduler never polls a destroyed subsession, nobody streams from a destroyed
  session, removing a channel ends its streams and no others, the limit holds.
- Subsession and device sources: each client gets a gapless piece of the stream from an IDR frame on
  and never stalls.
- Scheduler: bounded work per call, fair between sources.
- Splitter: its samples are the NAL units.
- Capture path: every sample becomes one frame with its own start time and the payload of the last sample
  that the buffer did not reject; a frame that fits the sink reaches it whole; presentation times keep
  distance and order up to what a conversion cuts off; an AMR packet is complete.
- SwitchController: no switch it performs or flags leads out of its limits, and a limit leads back.
- Rate adaptation: each receiver report counts once, and no more is asked of the encoder than one ramp
  per device source.

## 2. Modules

| Module | Models | EXTENDS / INSTANCE |
|---|---|---|
| `RtspService` | the service, its API threads and event loop, with server and registry as seen without clients | |
| `LiveRtspServer` | media sessions as objects, client sessions, references, registry, shutdown | |
| `LiveStream` | abstract specification: a log that readers read contiguously | |
| `LiveMediaSubsession` | one subsession and its device sources | INSTANCE `LiveStream` |
| `LiveSourceTaskScheduler0` | sample queues, registry, `processLiveSources` | |
| `SwitchController` | the class of that name, called in any way | |
| `RateControl` | the poll for receiver reports, the ramp of each device source, the one controller | |
| `NalSplitter` | the loop of `splitPayloadIntoMediaSamples`, one iteration per step | |
| `SampleBuffer` | the two sample buffers and the multiplexed header, as operators | |
| `LiveDeviceSource` | one client's device source (plain or AMR) and RTP sink: retrieval, delivery, times, packets | EXTENDS `SampleBuffer` |
| `VirtualMediaSource` | timer, cancellation, the handler that is already queued | |
| `CapturePath` | the composition: virtual source or application, queue, subsession, source and sink | EXTENDS `LiveDeviceSource`, `VirtualMediaSource` |
| `MC*` | constants for TLC | the module of that name |
| `*_proofs` | theorems | the module of that name and TLAPS |

Variables and actions have the names of the code. The definitions called "Mutated form of" are not
part of a specification: each is a plausible mistake in the definition behind it, which TLC shows to
break a property; `PROJECT.json` pairs them.

How state and actions correspond to the code, where it is not obvious:

- **RtspService.** `pc` is the event-loop thread. The poll drains its queues one request per step
  with the lock held; an API call takes the lock in one step (`EnterCall`) and does its work in the
  next, so that an unlocked access can fall between. `Stop` writes the watch byte at any moment, and
  `EnterLoop` clears it as `live555EventLoop` does, so a `stop()` that comes before is lost. Restarts
  are in the model: the queues survive them as they do in the code, while map, server and scheduler
  are new. `Asserts` chooses between a debug build, which stops at a failed assert, and a
  release build, which goes on. The channel descriptors are reduced to the set of source ids they
  lead to.
  Kicking and lingering sessions are left out: `RemoveRtspMediaSession` is the server without clients, and
  `LiveRtspServer` has the whole.
- **LiveRtspServer.** `Objects` are the media session objects. `sms[o]` is the channel `o` was made
  for, `NoChannel` once it is destroyed; `fServerMediaSessions` is the table by name;
  `fOurServerMediaSession[s]` is the reference of a client session. A session that is off the table
  lives until its last reference goes. `DeregisterSubsessions` erases the channel's whole registry
  entry, as `removeMediaSubsession` does, whoever registered it. A SETUP is one handler and one step.
  The limit counts client sessions, also those that were rejected and not yet reclaimed, as the code does: `AdmissionWithinLimit` is the upper
  bound it gives; that nobody is turned away needlessly it does not promise.
- **LiveMediaSubsession.** A payload is the sequence of the kinds of its NAL units. `awaiting` is
  live555's `isCurrentlyAwaitingData()`. `received`, `joined`, `start` and `delivered` are history.
- **LiveSourceTaskScheduler0.** A queue is its length, since a FIFO of undistinguished samples has
  nothing else. `at` is the position of the two iterators; one `getMedia` with its hand-over is one
  step, and pushes fall in between. `served` and `emptied` are history of a call. It models the
  release build: the rest of a batch that does not fit the queue is dropped.
- **RateControl.** One H.264 subsession, the only kind that adapts its rate. `polled` are the sources the
  running `processLiveMediaSessions` has still to visit; the poll is one handler, so no other action is
  enabled until it is empty. The controller is an interface the application implements, and the
  default is none: `requested` counts what it is asked for. Of a report only the packet number is read.
  `joins` and `news` are history. The comment of `SimpleRateAdaptation.h` says the ramp starts on
  channel 3 and steps every 150 frames; the code starts at 0 and steps once per report, and so does
  the model.
- **SwitchController.** No class of the repository owns one: every method is called in any order and with any
  argument, `setChannelBitrates` again with another vector, `updateCurrentChannel` with any channel (the code
  tests none), `resetSwitchFlag` at any time. `Synchronise` is what the comments ask an owner to do about the flag.
  `DecisionsDoNotStray` speaks of what the class itself decides: what an owner's report or a pending switch does
  under changed limits it does not promise, and neither does the code (section 3).
- **NalSplitter.** Bytes are bytes here; a sample is the slice of the payload copied into it.
  Payloads are those an encoder produces: a start code at the front, and at least one byte in each
  unit. (With an empty unit the search would skip a start code.)
- **SampleBuffer.** Data is a sequence of cells that say which sample, stream and position they are
  from, so that a payload that is cut in the wrong place is another payload. A 32-bit word of the header
  is one cell. The header is written and read by what the code does with it: the optional FourCC is
  written if it is not 0, read if the indicator says so, and counted in `getHeaderLength` by its value.
  `addMediaSample` does not compare the lengths a header announces with the size of the sample: samples here are
  as long as their header says. The subsession would also take the buffer for several channels for one
  channel of a "switchable format" (`LiveMediaSubsession.cpp:73`); the parameter is never given in the repository.
- **LiveDeviceSource.** A time value is whole seconds and a fraction, which counts in ticks
  (`TicksPerSecond` stands for 1000000 microseconds), added up without a carry as in `deliverFrame`. The code
  subtracts doubles and converts the difference to whole microseconds, towards 0: 1.2 - 1 is 199999 us.
  `FallsShort` is the set of pairs of start times whose difference comes out just short of its tick, and
  `Elapsed` takes the tick off; the theorems hold for any such set. Start times may go back, and
  differences be negative. The clock is read twice for the first frame. `fFrameSize` belongs to the frame before, or, behind the AMR
  source, to what the last header announced, when a truncation is counted. The sink asks for the
  next frame in the same call chain; that chain is broken into steps (`sink = "asking"`) between which
  no other handler runs. `delivered` and `sent` are history.
- **VirtualMediaSource.** `Expire` is the timer's wait ending; `Timeout` is the handler, which runs later.
  `StopSource` withdraws a wait that has not ended and none that has.
- **CapturePath.** `config` is what the factory made for the channel: virtual or application as the
  capture device, AMR or not, one channel or two, and how far apart the start times of samples are. `pending` stands for queue, scheduler and channel
  manager, which for one source are a queue. A sample carries the payload the first channel is to get, or
  nothing if the buffer rejects it, as a specification of its own beside the data.

## 3. Runs

| Run | Asks | Instance |
|---|---|---|
| `rtsp_service` | `InSync`, `SlotsFreeWhenAdding`; `CreatedIsPublished`, `RemovedIsWithdrawn`, `StopEndsLoop` | 2 ids and names, 3 requests of which two differ for one id, queues of 2 |
| `rtsp_server` | `NoDanglingSubsession`, `StreamsAreHeld`, `NoCallIntoDestroyedServer`; action properties `AdmissionWithinLimit`, `RemovalEndsStreams`, `RemovalSparesOthers`, `ServedWhileOpen` | 3 clients, 3 objects, 2 channels (one with two tracks), limits 0 to 2; clients and objects symmetric |
| `media_subsession` | `NoStalledFrame`, `NoGap`, `StartsAtFirstIdr`, refinement `ImplementsLiveStream`; `FramesAreDelivered` | 2 clients, 3 samples, each an IDR sample with parameter set or a slice |
| `scheduler` | `BudgetKept`, `NoSourceOvertaken`, `CallDoesItsWork`; `LoopComesBack`, `SourcesAreServed` | 3 slots in 2 channels, 3 rounds, budget 4, queues of 2, batches of 1 and 2 |
| `switch_controller` | type; action properties `DecisionsDoNotStray`, `LimitsMatchRates`, `BestRateNotAbove` | any owner; vectors of 3 and 4 rates, sorted, unsorted and with equal rates, set again; channels 0 to 4 reported; rates asked for from 1 to 9 |
| `rate_control` | `RequestsBounded`; `EachReportCountsOnce`; `RatesAreSwept` | 2 clients, 2 device sources together or one after the other, 3 rates, packet numbers 0 to 2 that wrap |
| `nal_splitter` | `SlicesAreNals`, `AllNalsReturned`; `Terminates` | all payloads of up to three short units over the bytes 0, 1 and 2 |
| `capture_path` | type, `FramesAreCaptured`, `PresentationKeepsDistance`, `PresentationKeepsOrder`, `TocOwnUnlessBehind`, `PacketsAreComplete`; `CapturedIsDelivered` | five paths: virtual AMR, AMR, stereo AMR, plain, two multiplexed channels; up to 4 samples; 2 frames to a packet; room for 1 cell in the buffer and 2 at the sink; 4 ticks to a second, the clock at 3, steps of 4 and -3 on the plain path, and differences that fall short |

Type correctness is a theorem for every module that has a run; two of the types say something that could be
wrong (limits of the switch controller, sizes of buffers) and are checked as well. Every invariant and every
action property of these runs is a theorem too (section 5), so that it is for the liveness properties that
the bounds matter most.

Why the bounds are enough. Two ids and two requests per queue give every pair of requests between
two polls, in either order, with a third party; a third request for an id repeats what the second
meets. Three objects are a lingering session, its successor and a session of another channel; three
clients are one over a limit of two. The subsession's clients share nothing but the payload, so two
show that one does not disturb the other, and three samples are enough for a skipped one, a first one
and one that queues up behind it. The scheduler's real constants are 15 rounds, 30 samples and queues
of 10240; the instance keeps their relations: the budget exceeds the number of slots, so that a call
can end in the middle of a round, and is below slots times rounds, so that it bites; queues can
overflow. Three rates give the ramp both ends and a middle, and two device sources are a second one
that runs beside the first or starts where it left the encoder. Packet numbers are bound not to come
round to the one looked at last, since 2^32 packets do not arrive within the second between two polls.
For the splitter only equality with 0 and 1 matters, so one other byte stands for all. On the capture
path two frames to a packet instead of five give a packet with a first and a last frame and one that a
pause interrupts; payloads of 2 and 3 cells fit the sink and do not, and the buffer of 1 has to grow for
both, once and twice; of the two headers one is good and one has the padding and the quality bit set;
steps of 4 and -3 ticks from a clock that starts
at 3 of 4 ticks give differences of whole seconds, of fractions and below 0, sums of fractions that
reach a second, and, with the pairs in `MCFallsShort`, differences just short of their tick on either side
of a second. Where a theorem says the same, no bound is left.

`CHECK_DEADLOCK FALSE` is set where the system may stop: the splitter returns, an application captures a bounded number of samples, and a
failed assert ends the process.

The other runs each show a disagreement between the program and what a comment or an assert of
it says; TLC prints the trace. `PROJECT.json` quotes the lines.

| Run | Statement | What happens |
|---|---|---|
| `removal_assert` | the assert in `doCheckChannelsTask` | two `removeChannel` calls for one id between two polls are both accepted; the poll's assert fails for the second |
| `unsafe_clear` | "This method is thread-safe" (`createChannel`) | the event loop clears the map without the lock the API calls hold |
| `deliver_assert` | "returns true if a frame is retrieved from the live source buffer", and the assert in `deliverFrame` | after the first IDR frame a payload without a start code counts as retrieved |
| `amr_toc` | "Set the TOC field for the current frame" (`LiveAMRAudioRTPSink.cpp`) | a frame that waits in the queue is packed under the header of the newest frame behind it |

More disagreements came up while the modules were written. The modules do what the code does, and what is
checked is compatible with it, but no run is spent on finding them violated:

- `RtspService.h:72-73`: `createChannel` "results in a ServerMediaSession being added to the RTSP server". It judges
  by a map that the poll changes later, so a second request for a channel between two polls is accepted, with other
  sources too; the poll drops it with a warning (`LiveRtspServer.cpp:139-142`), and records it in the map all the same
  (`RtspService.cpp:227`). `CreatedIsPublished` promises the listing to the first of a name only, and to that one as it
  was requested; `InSync` compares the registry with the listed session, not with the map's description.
- `LiveRtspServer.cpp:147`: clients are kicked "so that there are no outstanding references". `endServerSession` finds
  only clients with a device source. One whose SETUP named a track the channel lacks holds a reference without a
  stream; the session lingers with its registrations, and creating the channel again runs into the assert of
  `LiveSourceTaskScheduler0.cpp:93-96`, or goes without samples: `ServedWhileOpen` has the premise `Alone`.
- `SwitchController.h:12-14`: after a limit that makes a switch necessary "the shouldSwitch flag is set".
  `setSwitchFlagIfNecessary` (226-239) looks at the current channel only: a pending switch keeps a target that the
  new limits exclude, and an owner that follows it ends outside them with no flag set.
- `SwitchController.h:45`: "update channel to uiCurrentChannel if within constraints"; line 63 assigns without a test.
- `LiveDeviceSource.cpp:269-270`: "If we switch for a single source - single client, this will be ok". A single client
  that leaves and comes back begins a new ramp at 0 while the encoder is where the old one left it: `RequestsBounded`
  is the bound that holds, a ramp per source that has ever joined.
- `LiveDeviceSource.cpp:151-158`: a frame beyond `fMaxSize` "should be truncated", and `fNumTruncatedBytes` be the bytes
  omitted. Nothing of it is copied, and the size of the frame before is subtracted (205-214). `FramesAreCaptured` says
  exactly that.
- `FrameGrabber.h:35`: "The getNextFrame method should return NULL if there's no data!!!" `SimpleFrameGrabber` never does:
  after a sample the buffer rejects, the payload before it is queued again, or an empty one. `FramesAreCaptured`
  says exactly that, too.
- `VirtualMediaSource.h:49`: `stop` "stops periodic generation of media samples". A handler that was queued by then makes
  its sample and arms the timer again (76-78), and the source goes on. Nothing is stated of `stop`, which keeps no
  promise that goes beyond its one assignment.

## 4. Fairness

- `RtspService!Fairness`: the event-loop thread and a thread that holds the lock run on (weak). The
  poll's timer is one of the events `SingleStep` handles, and live555 handles the earliest one first,
  so its turn comes back as often as the loop does; and a lock that is released again and again is
  obtained in the end (strong for both). No application call is assumed to happen, `init` and `stop`
  included.
- `LiveMediaSubsession!FairSpec`: a sink whose stream plays asks for its next frame (weak): live555
  sends the packet and schedules the next request. No sample is assumed to arrive.
- `LiveSourceTaskScheduler0!FairSpec`: the event-loop thread begins its calls and goes on with them
  (weak). Capture threads owe nothing. `SourcesAreServed` holds because the instance has no more slots
  than the budget; the code's comment warns of the other case.
- `RateControl!FairSpec`: the one-second timer that `doCheckSessionsTask` arms again is served, and its
  handler visits every source (weak). No client is assumed to report: `RatesAreSwept` speaks of those
  that do.
- `NalSplitter!FairSpec`: a sequential loop goes on.
- `CapturePath!FairSpec`: the event loop polls, a sink that has a frame goes on to the next one in the
  same call chain, and live555 runs the delayed task of a sink that has sent a packet (weak for each).
  Neither capture nor PLAY is assumed, and a pause releases the promise.

## 5. Proofs

All theorems are about `Spec` (no fairness) and hold for every value of the constants that satisfies
the named assumptions of the modules.

- **`RtspService_proofs`**: `TypeCorrect`; `PollExclusion` (poll and API calls exclude each other);
  `TablesInSync` and `SlotsFree`, under `NamesMatchIds`: the application always uses the same name for
  an id and different names for different ids. The code checks neither, and without it the three
  tables do go apart. The inductive invariant is `SyncInv == TypeOK /\ Boundaries /\ InSync`. `InSync`
  alone is not inductive: the server and the map are emptied in two steps, so `Boundaries` says in
  which states of the thread the tables are empty. The lemmas `AddAgree` and `RemoveAgree` show that
  one request keeps the three tables in agreement whatever the request is, which is why stale,
  doubled and left-over requests do not part the tables in a release build. `NoRequestLost` and `NoSessionVanishes`
  are about steps and need no such premise: an accepted request stays queued until it takes effect
  or, an addition, until it meets a session of its name, and a session goes only by a removal that was accepted for its name. The first has one exception, which
  the theorem names: in a debug build the assert on the session to remove ends the process.
- **`LiveMediaSubsession_proofs`**: `TypeCorrect`; `NoStall`; `Gapless`; `Implements`. The flags'
  handshake is `NoStalledFrame` with `PlayingIsAttached` (a playing stream has a device source).
  `DeliveryInv` adds `Positions` (a client that waits for its IDR frame has got nothing and starts
  behind everything received) to `NoGap`. The step that matters is `AddMediaSample`, which moves all
  clients at once; `SampleForClient` reduces it to one client, and `StepIsStreamStep` maps it to a
  single `Flow` step of `LiveStream`. `StartsRight` needs more: `SamplesCounted` (every frame received
  is of a sample that was counted) and `FirstIdr` (between joining and the start of its stream a client
  has met nothing but samples without an IDR frame). The code keeps no record of it, so that the invariant
  speaks of the history.
- **`LiveRtspServer_proofs`**: `TypeCorrect`, `NothingDangles`, `StreamsHeld`, `Orphaned`, `RemovalEnds`,
  `RemovalSpares`, `LimitHolds`, `StaysServed`, for any clients, objects, channels and limits, with and
  without asserts. `ServerInv` adds to the two invariants `Standing` (what exists in each phase of the
  destruction), `ListedIsOpen` (the table leads to living sessions) and `AdmittedExist` (the server knows
  only client sessions that exist and are not orphaned). One lemma, `DeleteKeepsInv`, covers every way
  in which client sessions go: alone, kicked with their channel, or with the server. `StaysServed` is
  about a session without a rival for its channel id; with one, the destructor of either takes the
  registration of both, as `removeMediaSubsession` asks for no owner.
- **`SwitchController_proofs`**: for any owner, `TypeCorrect` (by `Shape`: the limits are channels and in order),
  `NoDecisionStrays`, `LimitsMatch` and `BestRate`. `NoDecisionStrays` is about steps: a switch of a source that
  has not strayed, with or without a request pending, and a limit in any state, also after the owner has
  reported a channel beyond the vector. The last two rest on what the sort returns. The model's
  `Sorted` takes an order of the positions in which the rates ascend; that there is one is proved for
  vectors of any length: the number of positions ahead of a position is its place in a stable order.
- **`CapturePath_proofs`**: `Captured`, `DistancesKept`, `OrderKept`, `TocFollowsQueue` and
  `PacketsComplete`, for any samples, headers, clocks, packet and buffer sizes. `PathInv` holds the skeleton: `Fits`
  (delivered, queued and pending frames are, in order, the samples), `HeaderIsNewest`, `TocExists`,
  `PacketIsNewest` and `PacketContinues`. On it rest two more invariants. `TimeInv` says that every frame is
  stamped with the first clock advanced by what is kept of its distance to the first frame; `AdvancedInstant` is
  the arithmetic: what is taken off in whole seconds comes back in the fraction, also below 0. `ElapsedOf`
  bounds what a conversion takes off, and `ElapsedInOrder` shows that it reverses no order, since equal
  distances lose the same and others differ by a tick at least. `DataInv`
  says that the buffer's first payload, and each frame's data, is that of the last good sample up to it, and
  that what the sink was given of it is all or, beyond `fMaxSize`, nothing, counted against the frame before
  (`Cut`).
  Its core is `Faithful`, which each sample is proved to be: whatever the buffer holds, the sample puts its
  payload in or, if it is rejected, leaves the one before. For multiplexed samples this is the round trip
  of the header, from `HeaderWords` (what `writeHeader` writes) over `ReadBack` (what `read` finds) to
  `MuxedComesOut` (what is cut out at the offsets). Offsets and doublings are recursive functions;
  `Captured` needs only the first offset, hence the statement is about the first channel, which is the
  one retrieved. `TypeCorrect` needs what the doubling of a buffer ends with: `DoubledFits` shows that it
  ends with room for the payload, and `HasRoom` carries that through the path.
- **`LiveSourceTaskScheduler0_proofs`**: `TypeCorrect`, `NobodyOvertaken`, `CallComplete`, `WithinBudget`,
  `NeverStuck`, `VisitsGoForward`, for any finite set of slots, budget and number of rounds. `Rounds`, the heart of `RoundInv`, says how often each source
  has been served in the middle of a call: once per completed round, and once more if the iterators
  have passed it, unless it was found empty. `BudgetInv` adds `Counted`: the code's count of samples is
  the sum of what the sources were served. `NeverStuck` (the iterators always have a slot to move on to) and
  `VisitsGoForward` (every visit ends the call or takes it to a later slot or round) are the safety half of
  `LoopComesBack`.
- **`RateControl_proofs`**: `TypeCorrect`, `ReportsCountOnce`, `FirstSourceOk`, for any clients, rates and
  packet numbers. `RampInv` adds the direction of each ramp (up below the top, down above 0), without
  which a next step could leave the range; `NewsAgree` says that the two packet numbers the code
  compares tell whether there is news; `FirstSource` that the first source's ramp is what has been
  requested. `RequestsStayBounded` is about all sources together; its `AccountInv` counts the
  steps of the living sources' ramps as pairs of a source and a channel, a set instead of a sum; what is
  requested beyond them is at most a whole ramp for each source that is gone.
- **`NalSplitter_proofs`**: `TypeCorrect`, `ExactSlices`, `NothingLost`, for payloads of any length.
  `SplitInv` adds `Scanned` (a start code right before `uiStartingPos`, none between it and `i`) and
  `Adjacent` (the slice to come begins behind the last one). `LoopMovesOn` is the safety half of `Terminates`:
  what is left of the payload is a natural number that each iteration makes smaller.

Induction. The provers have no rule of induction over data, and a few facts need one: what is added to a
sum over a finite set, that a finite set of slots has a first one, and that doubling a size often enough
reaches any length. Each is proved from a least counterexample, which `WFMin` of the library's well-founded
relations supplies. For a recursive function that is not enough, as nothing says that its equation has a
solution: `GrowthExists` exhibits one first.

Assumptions on constants are those of the modules. The set of slots is finite, as the registry is a map; it
is needed for the sum of `BudgetKept`, and for an end of the iteration.

Only model-checked: the liveness properties `CreatedIsPublished`, `RemovedIsWithdrawn`, `StopEndsLoop`,
`FramesAreDelivered`, `LoopComesBack`, `SourcesAreServed`, `RatesAreSwept`, `Terminates` and
`CapturedIsDelivered`: liveness under fairness, and the ENABLED in it, are beyond the prover.

## 6. Not modelled

- A payload behind the first channel's of a multiplexed sample is cut out by the model, too, but nobody
  retrieves it: `setCurrentChannel` has no caller, and no subsession of the repository asks for a buffer of
  several channels. The base class takes their number as a parameter, which is what the path of two channels
  stands for.
- The wideband table of the AMR source, which is never selected; interleaving, CRCs and sorting of AMR
  frames, which the sink does not support.
- AAC and H.264 subclasses, sinks and session descriptions: they construct live555 objects. An AAC path is
  a plain one of `CapturePath`.
- The variants with a mutex around the sample queue, which are compiled out.
- `createNewSMS` returning NULL for a codec no factory knows (`LiveRtspServer.cpp:136`): what becomes of
  it is live555's affair. The descriptors of the models name codecs the factories know.
- How long live555 keeps a client session that was turned away: `LiveRtspServer` lets it stay or go.
- `MediaSample`, `Buffer`, `MediaTypes` and descriptors have no behaviour; what the properties need of
  them is in the records of the models. The estimated bit rate is only handed to live555.
- Option parsing, logging and service registration of the demo application.
- live555 itself is external: what the modules take from it is its documented contract (one handler
  at a time, a removed media session dies with its last reference, `getNextFrame` is asked once per
  frame).

## 7. Plan

Done: service, server, delivery, scheduler, splitter, switch controller, rate control, and the capture
path with sample buffers, virtual source and AMR, and a theorem for every invariant and action property of
the passing runs. What is left, in order:

1. A composition of `RtspService` and `LiveRtspServer`: the service's requests against a server whose
   sessions linger, so that the assert of `addMediaSubsession` can be judged with clients.
2. `PacketManagerMediaChannel` with samples that are told apart, to say what a subsession is given that
   takes over a queue with the samples of its predecessor.
3. Proofs that offsets behind the first channel are read back, so that `Captured` says of every channel of a
   multiplexed sample what it says of the first.
