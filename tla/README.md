# Shadow Cast: TLA+ models, checks and proofs

Shadow Cast records a desktop and its audio into a media file. This directory
holds the TLA+ modules that model its control, the TLC configurations that
check them on small instances, and theorems checked by TLAPS for every value of
the constants. Paths below are relative to the repository's root (`src/...` is
the program, `doc/...` its documentation).

    tlc -workers 2 -config EventLoop.cfg EventLoop      # model-check a run
    tlapm --threads 4 EventLoopProofs.tla               # check the proofs

`PROJECT.json` lists components, runs, mutants (for each property a plausible
bug in the code that the run catches), the map from definitions to source lines,
findings, hazards and theorems.

## 1. The system

| Part | State it keeps | Operations | Interacts with |
|------|----------------|------------|----------------|
| Event loop (`src/services/context.cpp`) | `stop_requested_`, `event_fd_`, the registry, timers, descriptors | `run`, `request_stop` | initialises, dispatches and uninitialises the services; `request_stop` comes from any thread |
| Frame clock (`context.cpp` `tick_timers`, `readiness.cpp`) | elapsed time of every timer | tick, timeout of `ppoll` | drives the video service |
| Service registry (`service_registry.*`) | services in order, a lock | `add`, `use`, iteration under the lock | owned by a context |
| Audio service (`audio_service.*`, `audio_chunk_writer.*`) | `input_buffer_` (bytes per channel, `sample_count`), `event_fd_`, the writer's pts | PipeWire's `on_process`, `dispatch_chunks`, `on_init`, `on_uninit` | PipeWire's own thread; writes frames to the encoder |
| Encoder (`av/`, `encoder.*`, `encoder_service.*`, `utils/pool.hpp`) | `pending_`, the pool, codecs, muxer | `write_frame`, `flush`, `dispatch`, `on_uninit` | three threads: video, audio and media |
| Video services (X11/NvFBC, DRM) | grab session, pts of the frame writer | a timer's handler | encoder; DRM also a helper process |
| DRM helper (`src/drm*`, `src/io/*`) | a Unix socket, the child's pid | spawn, accept with timeout, request and reply, terminate | a privileged child process |
| Session (`src/main.cpp`) | three contexts, two threads, the first exception | `run_loop`, the SIGINT handler, scope guards, trailer | all of the above |
| Configuration (`cmd_line.*`, `base64.cpp`, `utils/frame_time.*`) | none | `parse_cmd_line`, `get_parameters`, `base64_decode`, `fps_ratio` | timer, NvFBC, codec |
| Signal service (`signal_service.*`, `io/signals.cpp`) | thread mask, the mask at construction, a signalfd, handlers per signal | `add_signal_handler`, `dispatch_signal`, `on_uninit` | main context |
| Intrusive list and pool (`intrusive_list.hpp`, `pool.hpp`) | links inside the items; free items under a mutex | insert, erase, splice; `get`, `put`, `fill`, `clear` | encoder service and both writers |
| Platforms (`nvidia.cpp`, `platform/*`, `display.cpp`, `av/codec.cpp`) | handles of CUDA, NvFBC, X, Wayland, EGL, ffmpeg | one acquisition per function, deleters | `run`, `run_wayland` |
| Colour converter and GL wrappers (`color_converter.*`, `gl/*`) | GL objects; the context's bindings | `initialize`, `convert`, scoped `bind` | DRM video service |
| Histogram, metrics, logging | counters | none that captures anything | compiled on demand |

The program runs three contexts, each an event loop in a thread of its own:
*main* (signals and video), *audio*, and *media* (encoder and muxer). PipeWire
adds a fourth thread. A captured frame is taken from a pool, queued for the
media context and an eventfd is signalled; the media context encodes and muxes
it and returns the frame to the pool. On SIGINT the main and the audio contexts
are stopped, the audio thread is joined, both codecs are flushed *through the
queue*, the media context is stopped and joined, and the trailer is written.

What is hard in this code, and what makes each part correct:

* *Event loop.* The stop flag and the eventfd are two variables and the loop
  tests one and sleeps on the other; stops come before, during and after
  `run()`; every step may throw. Correct: no stop is lost and none waits for
  the poll's timeout; exactly the services that came up go down, once.
* *Frame clock.* Turns come early and late, by more than one period.
  Correct: no timer runs fast, drifts, or replays what it missed.
* *Audio.* Two threads share a buffer under a mutex and an eventfd counter
  that one of them reads outside it. Correct: samples are neither lost nor repeated, pts is the stream
  position, every whole frame is announced and eventually delivered.
* *Encoder.* Items travel between four places under two mutexes; codecs delay
  and refuse; a stop arrives with items queued. Correct: an item is in one
  place, packets leave in order, what was captured is in the file.
* *Session.* Three threads end or fail in any order, each has to stop the
  others, in an order that keeps the media context alive longest. Correct: the
  session always ends, the trailer is last, a failure is reported.
* *Configuration.* Attached and separate values, repeated options, a base64 key
  with any last chunk, single-precision divisions and truncations. Correct: a
  session starts with what was asked, and timer, capture interval and declared
  rate agree.
* *List and pool.* Items carry the links of the list they are in and travel
  between three lists and their owners. Correct: every list is a ring, an item
  is in one place, `splice` keeps order.
* *Set-up and unwinding.* Forty steps in five libraries, each of which may
  fail, unwound by destructors and guards; nested GL bindings that unbind to
  nothing. Correct: nothing is used outside its life, what depends on a handle
  goes before it, nothing stays bound, and a session that ran has a trailer.
* *Descriptor numbers.* Several owners keep a number after `close`, three threads
  open and close. Correct: a late write or second close hits nobody who matters.

## 2. Modules

Arrows of the composition: `Session` uses each context as a `StoppableLoop`
(`DrmHelper` details what its main context does with a SIGINT on Wayland);
`EventLoop` implements `StoppableLoop`; `FramePacing` details what `EventLoop`
leaves open (when a timer fires); `EncoderPipeline` and `AudioCapture` are what
the handlers inside `Session`'s contexts do; `ItemPool` is the pointer level of
the lists `EncoderPipeline` treats as sequences; `Lifetime` is what surrounds
`run_loop`, with `Session`'s main context inside it; `Descriptors` is `Session`
once more, reduced to the system calls on descriptors.

### StoppableLoop
The abstract specification of a context: `status` (idle, running, closing),
the set `up` of services and `asked`, whether a stop was requested that no run
has obeyed. A run may obey only a stop that was asked, forgets it only by
obeying it, and goes idle only with every service down; under fairness a run
that has been asked ends.

### EventLoop (`Context::run`, `Context::request_stop`)
`pc` is the place in `run()`, `pos` its iterator, `up` the initialised services,
`flag` is `stop_requested_`, `event_fd`/`counter` the eventfd, `notifications`
and `timers` what the services have registered. One action per step of the code:
`Run` (eventfd, registry lock), `InitService`/`InitThrows` with the rollback
loop, `InitDone` (early return when nothing is registered), `CheckStop`, the
timers, `PollReturns`/`PollThrows`, the dispatch loop, `UninitService` and
`RunReturns`. `request_stop` is two actions per thread, flag then event,
interleaved with everything. Handlers are reduced to how they end: they return,
ask for a stop, or throw. `Abstract` is the refinement mapping to
`StoppableLoop`.

### FramePacing (`tick_timers`, `readiness.cpp`, the poll timeout)
Time is an integer; each timer has its `Period` and the time `remaining` until it
is due. `LoopTurn(dt)` is one turn of the loop: the poll lasts at most `NextTimeout`
plus a bounded lateness (`MaxLag`), then every timer whose `remaining` is used up
fires and starts a new period less its overshoot, at most one period of it. The
histories `dispatched`, `last`, `penult` and `elapsed` only serve the properties.

### AudioCapture (`audio_service.cpp`, `audio_chunk_writer.cpp`)
`channel_bytes` and `sample_count` are the two halves of `input_buffer_`, `fd` and
`counter` the eventfd, `pts` the writer's `total_samples_written_`. Holding
`data_mutex_`, the PipeWire thread appends a buffer and then announces
`sample_count / frame_size_`; the audio thread reads the counter without the mutex
and then, one turn at a time, takes a frame under it. Samples are positions in the stream, not values. `on_init` and
`on_uninit` are modelled in the code's order (the descriptor is closed before
PipeWire is stopped), and a run may be repeated (`MaxRuns`).

### EncoderPipeline (`pool.hpp`, `encoder.cpp`, `encoder_service.cpp`, end of `run_loop`)
Two writers (video and audio), a pool of `PoolSize` items, `pending_`, the list
`dispatch` splices, and two codecs with a delay that may refuse a frame. It goes
from capture through flush, stop, `on_uninit`'s last dispatch and `pool.clear`
to the trailer. With `MediaMayFail` a codec or muxer error throws out of
`dispatch` at any item. A frame handler throws with an item in its hands, a flush
that finds the pool empty may throw and then skips the other one, and either
`on_init` that throws a pointer may do so; `ex` is the kind of the first exception.
If it is a pointer the process ends without a trailer (`WriteTrailer`'s guard).

### Session (`main.cpp`: `run_loop`, `run`, `run_wayland`, `main`)
For each context its `run()` as a `StoppableLoop`, its flag and the exception it
leaves with; for each thread and for main the step of the code behind the `try`
block (catch, `request_stop` of main and of audio, joins, the two flushes,
`media_ctx.request_stop`). `std::exception`s and pointers (`throw new`) are told
apart because `main` catches only the first. A flush that throws skips the rest
of its `try` block and is noted like a thread's exception: `raised` has, besides
the contexts, the source `"flush"`.

### CmdLine, Base64, FrameRate, Configuration (`cmd_line.*`, `base64.cpp`, `frame_time.cpp`, `main.cpp`)
Three modules of operators and one state machine that uses them. `CmdLine` is
`parse_cmd_line` over arguments abstracted to what the parser asks of them (the
dashes, the character behind them, the text behind that, the number
`std::from_chars` would read); `Base64` is the decoder over six-bit tokens, with a
bit-level reference; `FrameRate` is single-precision arithmetic, exact on the
values that occur (`Float`, `TruncatedQuotient`). `Configuration` goes from the
arguments through `get_parameters`, `read_env`, the choice of the platform and
NvFBC's key to the timer's nanoseconds, NvFBC's milliseconds and the codec's time
base.

### ItemLists, IntrusiveList, ItemPool (`intrusive_list.hpp`, `pool.hpp`, `encoder_service.cpp`)
`IntrusiveList` is the class as operators on a heap of `next` and `prev` links,
sentinels included. `ItemPool` runs them: as `client = "service"` the pool, its
deleter, `write_frame`, `dispatch`'s splice and `~ReturnToPoolGuard`, with the
steps of loops that hold no common mutex interleaved; as `client = "user"` the
public methods in any order their assertions allow, with splices of any range
to any position. `it`, `last` and `before` are the iterators of the loop that is
running, `goal` is what a splice is to lead to. `ItemLists` is the abstract
specification: lists are sequences without repetition, and a step inserts or
removes one item at one place.

### Scopes, Gl, ColorConverter, Platform, Lifetime (`main.cpp`, `gl/*`, `color_converter.cpp`, `nvidia.cpp`, `platform/*`)
Straight-line code is data: a *script* is a sequence of steps (`Scopes`), each
with the resources it needs, creates, owns or moves, the GL bindings it makes and
relies on, and the other ways it can end (throw, return, terminate, leave a GL
error). `Gl` has one operator per wrapper, `ColorConverter` and `Platform` one
script per function, in the order of the code. `Lifetime` interprets them: a
`stack` of cleanups, the set `live`, the GL bindings `gl` (the index buffer's
binding belongs to the vertex array), and `sig`, the thread's signal mask and the
signalfd. It goes from `main` through `run` or `run_wayland`, the DRM service's
`on_init`, frames with and without mouse, the loop's poll of the signalfd and the
finalization, and unwinds one destructor at a time. The other two contexts appear
only as a request to stop, or as an exception kept in `ex`, which may be the encoder
service's pointer.

### Descriptors (`context.cpp`, `unix_socket.cpp`, the services, `main.cpp`)
`table` says what each number refers to, `num` which number each owner believes to
have; opening takes the lowest free number. Each thread of `run_loop` opens and
closes its eventfd and its service's descriptor, the main one also the helper's
sockets and the dma-bufs of frames; `request_stop` is a flag and a write to
whatever `event_fd_` holds. `strays` keeps the calls that hit another owner's
descriptor, `poked` a write to the audio service's counter. `Uninit` of the media
context closes the encoder service's eventfd and `DispatchClosed` then reads from
its number, as `on_uninit`'s `dispatch` does (`Read`); what a read may wait for is
left out, since the module states safety only. `Flush` writes to the same
number or throws before it, and may repeat, for the second stream.

### DrmHelper (`drm_video_service.cpp`, `kms.cpp`, `drm/messaging.*`, `io/*`)
Two processes. `svc` is the place of the service's process between `on_init` and
its exit, `helper[h]` that of the helper session `h` has spawned; `backlog`,
`request` and `reply` are what the kernel holds of the sockets, `fds` and `hfds`
the dma-bufs open in each process. SIGINT is modelled as the kernel delivers it:
blocked, except while a `ppoll` with a mask waits with nothing ready; the helper
has a handler, the service has not. Writing to a socket whose other end is
closed kills the writer (SIGPIPE). The service's own two `ppoll`s around a
request ask for `POLLOUT` in both directions (`drm/messaging.hpp:43`), return at
once and therefore have no step: `Receive` waits without a limit. `Process::wait`
does not wait: `waitpid` refuses `WEXITED` (`io/process.cpp:59`). `Restart` starts
the program again with the helpers and the path the last session has left.

`MCAudioCapture`, `MCFramePacing`, `MCEncoderPipeline` and `MCConfiguration` only
define constants that a `.cfg` cannot write down.

## 3. Runs

| Run | Instance | Shows |
|-----|----------|-------|
| `audio_capture` | frame of 2 samples, buffers of 1 and 3, 8 samples | `NeverUnderNotified`, `BytesMatchSamples`, `PtsIsStreamPosition`, `FramesAreDelivered` in one run |
| `audio_expect` | as above, one buffer size | *violation*: the contract check of `dispatch_chunks` fails |
| `frame_pacing` | periods in ratio 2, lateness up to 4 ticks | `NeverFast`, `NoDrift`, `NoBurst` |
| `encoder_pipeline` | 2 writers, pool of 2, codec delay 1, errors and pointers allowed | `ItemsAccountedFor` (`ItemsInOnePlace`, `ClearIsBalanced`), `PacketsInOrder`, `PendingIsSignalled`, `FinalizedComplete`, `StopFinalizes` |
| `event_loop` | 2 services, 2 stopping threads, 2 runs, every failure | `StopWakesPoll`, `UninitOncePerInit`, refinement of `StoppableLoop` with its liveness |
| `session` | 3 contexts and the flush, all may fail, two with pointers | `ShutdownInOrder` (`MediaOutlivesCapture`, `TrailerIsLast`), `ExitTellsFailure`, `SessionEnds` (`SigintEnds`, `FailureEnds`), `ContextsAreLoops` |
| `configuration` | all rates from 18 to 71; all lines of up to two arguments of 17 kinds, with and without an output file behind them; all keys of up to five characters | `AttachedOrSeparate`, `ParametersAreValid` (`StartsWithValidParameters`), `RatesAgree` (`RateWithinOne`, `OutputHasRequestedRate`, `OutputLosesFraction`, `SamplingTracksTimer`, `TimerIsRequested`), `KeyIsDecoded` |
| `item_pool` | 3 items, 3 lists, pool of 2 | `ListsAreIntact` (`RingsAreClosed`, `IteratorsAreValid`, `SpliceKeepsOrder`), `OwnedOnce`, refinement of `ItemLists` |
| `lifetime` | both platforms, every step may fail, any number of frames | `LivesAreNested` (`NeedsAreLive`, `DependentsGoFirst`), `BindingsAreScoped` (`BindingsAreComplete`, `NothingStaysBound`), `NothingElseLeaks`, `KilledOnlyWhileWaiting`, `InterruptEnds` |
| `descriptors` | both platforms, any context may fail, one failure | `NumbersAreSafe` (`OutputIntact`, `NumbersAreKept`, `LateCallsHitNothing`, `DispatchReadsNobody`), `AbortsOnlyAfterFailure` |
| `drm_helper` | 2 sessions, 2 frames each, up to 3 planes for 2 descriptors, the service may die anywhere | `ReplyIsFresh`, `BuffersAccountedFor` (`BuffersAreClosed`), `PathIsFreed`, `SigintEndsSession`, `HelperEnds` |
| `drm_ctrl_c` | 1 session, nobody dies | *violation*: SIGINT does not finalise the output |

A name with others in brackets is their conjunction; in every module the type
invariant is checked by itself, as a conjunct of one of these, or (`FramePacing`)
proved.

**Bounds.** *Audio:* with a frame of 2 and buffers of 1 and 3 a buffer completes
no frame, one frame, or one and a half; 8 samples are four frames, so the reader
can fall two frames behind and catch up. *Pacing:* the two timers' periods
differ, so that a turn may serve one, both or neither; a lateness of 4 is more
than two periods of the faster timer. *Pipeline:* the pool is smaller than the
frames in flight, so items are reused; a delay of one is enough for a frame to
be inside a codec at the flush. *Loop:* two services are needed for a rollback
that has something to roll back and something it must not; two stoppers for two
concurrent `request_stop`s; two runs for a stop between them. *DRM:* two frames for a reply
that could be taken for the wrong request, two sessions for what one leaves to
the next, more planes than descriptors. *Configuration:* all
rates the command line accepts; two arguments are an option and its value, or two
options; five characters of a key are a whole chunk and one of every shorter
length. *Items:* three are a first, a middle and a last one, and one more than
the pool has. *Lifetime:* none, the scripts are finite and a frame returns to the
same state. *Descriptors:* one failure, because the first one already stops every
thread; the numbers suffice for all descriptors at once.

**Deadlock** is checked in `item_pool`, whose clients never stop. It is not in the
other runs (`CHECK_DEADLOCK FALSE`) because every modelled session ends: the process exits, the last run has returned, or time is used up. That
nobody is stuck before is what `StopFinalizes`, `SessionEnds`, `ImplementsLoop`,
`FramesAreDelivered`, `SigintEndsSession`, `HelperEnds` and
`InterruptEnds` say.

**Fairness.** Weak fairness of each thread's own steps. The code justifies it:
threads are scheduled by the kernel, `ppoll` always has a timeout of at most
`frame_time_` so that a loop returns to its test of the flag, handlers have no
unbounded wait, mutexes are held for a few statements and never nested the other
way round. There is *no* fairness for what nobody has to do: pressing Ctrl+C,
asking for a stop, failing, or delivering samples. In `Lifetime` there is only the
main thread (`WF_vars(Program_)`); frames may follow each other for ever, but each
turn ends in a poll of the signalfd. `DrmHelper` also assumes that
libdrm's calls in the helper return; since the service's timeout does not protect
its read, a helper stuck in the kernel would hold the main context for ever.

## 4. Proofs

TLAPS proves the following for every value of the constants.

* **`AudioCaptureProofs`** (`TypeCorrect`, `NotifyCoversBuffer`,
  `SamplesConserved`, `BytesInLine`), under `MaxRuns <= 1` (with a restart
  `BytesInLine` is false, see section 5). The type invariant is not
  inductive by itself: the reader's count could go below zero. `Inv` adds that
  `dispatch_chunks` leaves its loop exactly when its count is used up
  (`LoopCount`), that the eventfd is open while the loop runs (`FdOpen`), and that
  a service that may still be initialised has an empty buffer (`FirstInit`,
  because `on_init` does not reset `sample_count`). The arithmetic is in lemmas on
  whole frames in a buffer; `BytesInLine` rests on `Inv` for the type of the counts.
* **`EventLoopProofs`** (`TypeCorrect`, `StopIsPrompt`, `TeardownIsExact`,
  `LoopRefines`). `Inv` adds to the type invariant: which services are up in each
  phase and up to which position (`UpInPhase`), that the eventfd is open
  throughout the run (`FdInPhase`), that a set flag comes with a readable event
  or a thread about to write it (`StopWakes`), and that the flag is exactly the
  memory of an unobeyed stop (`FlagIsMemory`). `LoopRefines` is
  `Spec => Abstract!Safe`: each step of `Context::run` is a step of
  `StoppableLoop` or a stutter.
* **`SessionProofs`** (`ShutdownIsOrderly`, `FailuresAreReported`,
  `ContextsRefine`), for any set of contexts that may fail in either way, and a
  flush that may throw.
  `MediaOutlivesCapture` speaks of the loops, while the code orders *places* in
  `run_loop`: `LoopInPlace` ties each thread's place to its loop,
  `JoinsInOrder` the stop of the media context to the join of the audio thread,
  `UpAndRaised` services and exceptions to the loop's life. That nothing is
  swallowed needs that an exception is in `ex` as soon as its catch block is left
  and that `ex` never comes from nowhere (`RaisedIsKept`). `ContextsRefine` is the
  safety of `StoppableLoop` three times, once per context; with `LoopRefines` it
  ties `main.cpp` to `Context::run` through the same abstract specification.
* **`DrmHelperProofs`** (`BuffersDoNotPileUp`, `RepliesAreFresh`, `PathsAreFreed`),
  for any number of sessions, frames and planes. Messages carry no number, so
  freshness rests on there being one exchange at a time: the request is unread,
  served, answered, or gone with its helper (`OneExchange`), and nothing is under
  way between two frames (`ConnectionsAreIdle`). Both are inductive only with what
  a helper holds that has not connected yet (`FreshHelpersAreClean`), because a
  helper may connect to the next session.
* **`EncoderPipelineProofs`** (`ItemsAreAccountedFor`, `PacketsKeepOrder`,
  `NoLostWakeUp`, `FileIsComplete`), for any pool size, codec delay and number of
  frames, with and without media errors. The invariant has layers, each proved
  from the ones before it: `Types`; `Control` (which phase allows what, nothing
  after the stop); `Partition` (pool, hands, `pending_`, `tmp` and the item being
  encoded split the items without repetition); `Signals` (what is pending is known
  to nobody yet, or there is an event, or a writer about to make one); `Packets`
  (`PacketsInOrder`, and a codec with something to give has an item queued or in
  `tmp` that will ask for it). `FileIsComplete` needs all of them at once.
* **`ItemPoolProofs`**, first of `IntrusiveList` (`RangeForSeesTheList`,
  `EraseRemovesOne`, `InsertAddsOne`, `PushBackAppends`, `PushFrontPrepends`,
  `PopBackRemovesLast`, `PopFrontRemovesFirst`, `UnlinkedTouchesNoList`,
  `EmptyHeapHolds`), for any finite sets of items and lists. `Ring(h, l, s)` says
  that the links of `h` make one ring of the sentinel `l` and the items of `s` in
  both directions; `Holds(h, c)` that all lists are such rings and share no item.
  The walk of a range-for is a recursive function: that it visits `s` and stops is
  shown with the least place where it would not, since the induction theorems
  cannot be applied here. Every method is reduced to `Joined` (two nodes become
  neighbours), whose two stores leave all other nodes alone.

  Then of the pool and its users (`RingsStayIntact`, `ItemsAreOwnedOnce`,
  `ListsAreRefined`), for any items and any `kInitialPoolSize`. `Inv` is `Holds`
  for what the lists contain, `OneOwner`, the item `~ReturnToPoolGuard` holds
  between erase and put (`MineWhilePut`), that the loops that empty a list are at
  its first item (`AtTheFront`), and for a splice (`SpliceOnItsWay`) the places of
  its three iterators and that what is left to move makes up the goal: moving the
  first item of the range does not change it (`MovingKeepsGoal`), and it is reached
  when the iterators meet (`NothingToMove`). `ListsAreRefined` is the whole of
  `ItemLists`, which has no fairness.
* **`DescriptorsProofs`** (`StaleNumbersAreHarmless`, `NoAbortWithoutFailure`), for
  any number of failures. The table and the owners' beliefs are tied by: a
  descriptor is at its owner's number (`Table`); an owner that has one still has
  its number, unless it is the one exception `Taken`, and one that has closed it
  is gone or has leaked (`Holding`, `Released`). An open finds a free number because
  there are more numbers than owners (a pigeonhole lemma on finite sets). Which
  numbers a late `request_stop` can hit follows from who can be alive then
  (`Apart`): the media context outlives the audio context, and without a failure
  main leaves its loop only after the audio context was told to stop (`Quiet`).
  That the last dispatch's read takes from nobody is a layer above (`MediaObeyed`):
  unless it has failed, the media context closes its descriptor only after main has
  told it to stop, and then nobody opens anything, so that the number stays free.
* **`ConfigurationProofs`**, for every command line over any words, of any length,
  not only the enumerated ones (`ParametersAreValidAlways`, `RatesAgreeAlways`,
  `AttachedOrSeparateAlways`). The parser's loop is a recursive function towards
  the end of the line; that it satisfies its equation, and what holds of it, is
  shown with the last argument from which it would not. A turn is good when it
  moves on and finds only what passed the checks (`TurnIsGood`, `ParseIsGood`). The
  set `Values` alternates along a row of options that await one
  (`ValuesAlternate`) and a turn skips exactly its own value (`TurnSkipsItsValue`),
  so the first rate parsed is the first rate asked for (`ParseFindsRate`). For the
  separated line each argument is followed to its place there (`SeparatedAt`), and
  the turns at both find the same (`TurnsMatch`). The float arithmetic is turned
  into bounds on integers (`RatioIs`) and settled for every rate from 20 to 70
  (`AcceptedRates`) and every whole number of milliseconds (`WholeMilliseconds`,
  where the declared rate is exactly the quotient less its fraction).
  `Inv` says what each stage of `main` knows of the parameters (`Parsed`, `SetUp`).

  The frame clock, for any timers, periods and delays (`NeverRunsFast`,
  `NeverDrifts`, `NeverBursts`): `NeverFast` and `NoDrift` are inductive with the
  types; `NoBurst` needs to know where a timer stands between two dispatches
  (`AfterLast`). The sleep is a `Min` over the timers; that it is no longer than any
  timer has left is a lemma from well-foundedness. `RecordingIsInTime` puts the two
  together: with turns at most a frame late, a recording of a configured session
  plays for as long as it took to capture, to less than one frame a second, and
  never faster (but for the 2 ns a frame of the float rounding).

The inductive invariants were checked by TLC on the runs' instances before they
were proved.

Only model-checked, and why:

* everything about fairness (the prover has no rules for it): `FramesAreDelivered`,
  `StopFinalizes`, `SessionEnds`, `SigintEndsSession`, `HelperEnds`,
  `InterruptEnds`, and the fairness parts of `ImplementsLoop` and
  `ContextsAreLoops`;
* `KeyIsDecoded`: its reference adds up the bits of a key with folds over sets,
  and what a fold computes for every input is an induction over data;
* `Lifetime`: the module has no constants, its scripts and threads are fixed by the
  code, so the instance TLC explores *is* the system.

## 5. Findings

1. `audio_expect`: `on_process` announces every whole frame in the buffer each
   time, also frames announced before and not yet taken; the reader's count
   exceeds the frames there are and `SC_EXPECT(sample_count >= frame_size_)`
   (`src/services/audio_service.cpp:306`) terminates the process when the audio
   thread is one buffer behind.
2. `drm_ctrl_c`: while the service waits for its helper to connect, its `ppoll`
   lets SIGINT in and nothing handles it; the process is killed without a trailer
   and leaves its socket path behind, so that the next session cannot bind it.
   Later in the session a Ctrl+C makes the helper exit, and a request sent before
   the loop has read its signalfd kills the service with SIGPIPE.

Deviations that the models contain and the properties state as exceptions, without
a violation run of their own:

* `on_init` of the audio service clears the channel buffers and not
  `sample_count`, where `doc/architecture.md` says `on_init()` can safely be called
  again (`BytesMatchSamples` fails with `MaxRuns = 2`).
* `throw new std::runtime_error` (`drm_video_service.cpp:129`,
  `encoder_service.cpp:44`) throws a pointer that `main` does not catch: no
  unwinding, no trailer, no message, if it is the first exception that `run_loop`
  keeps (`Leave` in `Session`, `RethrowUncaught` in `Lifetime`, `Terminated` in
  `EncoderPipeline`, where `StopFinalizes` promises a trailer or that end).
* `fps_ratio` truncates 28.999998 to 28: 29, 51 and 58 fps are declared one frame
  per second slower (`OutputHasRequestedRate`).
* `doc/faq.md:22` says that with `SHADOW_CAST_STRICT_FPS=0` the output has NvFBC's
  rate, "e.g. `62.5` in the case of a 60fps capture". The code samples every 16 ms
  but declares 62: the truncation loses the fraction of every rate whose interval
  does not divide a second, and the file plays that much slower than it was
  captured. `RatesAgree` states what is declared (`OutputLosesFraction`), and
  `RateWithinOne` accepts the difference.
* A header without trailer is left if the signal service cannot be set up after
  `avformat_write_header`; the capture session if `nvFBCToCudaSetUp` fails; EGL
  images and the CUDA registration if a frame fails before their guards exist
  (`LeftBehind`). `destroy_nvfbc_capture_session` throws from a destructor.
* An error of `glEGLImageTargetTexture2DOES` is not looked at until the unbinding
  that follows, which is `noexcept` and terminates (`Aborts`).
* `num_shaders_attached` (`gl/program.cpp`) is never raised, so shaders are never
  detached; harmless, as they are deleted with the program.
* A key that does not decode is dereferenced all the same and terminates
  (`CreateSession`). An option with a list of acceptable values accepts the empty
  one, because the unused entries of its array are empty.
* `UnixSocket::close` keeps its number and the destructor closes it again. For
  the server socket of the DRM service another thread may have been given the
  number in between, and then loses it (`Taken` in `Descriptors`). A late
  `request_stop` may raise the audio service's counter instead of an event and
  end the process in `SC_EXPECT`, but only after a context has failed. The audio
  service leaks its descriptor when `start_pipewire` throws.
* `EncoderService::on_uninit` closes `notify_fd_` and then has `dispatch` read from
  it. After a failure of the media context another thread may have been given the
  number: the read then takes that owner's event or data, or waits on the helper's
  socket (`DispatchReadsNobody` excludes it for every other end).
* After a muxer error the pool is cleared while items are still outside it
  (`pool.hpp:158`), so `ClearIsBalanced` is stated for sessions that did not fail.
* `Process::wait` does not wait, so that a helper slower than the connect timeout
  may connect to the socket of the *next* session; `HelperEnds` allows for it.

## 6. Plan

Done, in this order, the most important behaviour first: event loop and session
(stop, failure, teardown), audio hand-over, encoder pipeline, frame clock, DRM
helper; then configuration, list and pool, set-up and unwinding with the signal
service and GL, descriptor numbers; then the proofs of section 4. Left:

1. `FramePacing`: that a late turn delays a timer by no more than its lateness.
2. `StoppableLoop` itself: that its safety part already implies that services go
   down only in a closing context, so that `Session` need not restate it.

## 7. Not modelled

What the libraries compute (pixels, packets, samples) is external: GL, EGL, CUDA,
NvFBC, Wayland, PipeWire and ffmpeg appear as calls that need handles, may fail,
delay or refuse, and keep order, as the code relies on. So shader sources, sizes,
formats and vertex data, PipeWire's format negotiation and the sample bytes are
not modelled, nor the GL wrappers and the list's move operations that nobody
calls. The vendored NvFBC header, logging, the usage text, and the histograms and
metrics (compiled on demand, without influence on the capture) are left out. The
overwriting of NvFBC's device buffer while the codec still reads it
(`video_frame_writer.cpp:32`) depends on the driver's ownership rules, and a
helper that cannot be executed (`process.cpp:87`) leaves a copy of the service
running whose further course no line of the code intends; both are listed as
hazards only.
