---------------------------- MODULE AudioCapture ----------------------------
(***************************************************************************)
(* AudioService (services/audio_service.cpp): the PipeWire thread appends  *)
(* captured samples to input_buffer_ and counts whole frames into an       *)
(* eventfd; the audio context's thread reads that count and hands one      *)
(* frame of samples at a time to ChunkWriter.                              *)
(*                                                                         *)
(* Abstractions.  A sample is a position in the capture stream, so the     *)
(* buffer is its byte counts (one per channel buffer) and sample_count.    *)
(* data_mutex_ makes ChunkWriter's turn atomic; the PipeWire thread's      *)
(* turn is split at the eventfd write, where `pw = "locked"` means that    *)
(* it holds data_mutex_.  on_process returning early (no buffer, no data)  *)
(* changes nothing and has no action.                                      *)
(***************************************************************************)
EXTENDS Integers

CONSTANTS
  FrameSize,    \* frame_size_: samples per encoded audio frame
  SampleSize,   \* sample_format_size(sample_format_)
  Interleaved,  \* is_interleaved_format(sample_format_)
  BufferSizes,  \* samples PipeWire may deliver in one buffer
  DataCounts,   \* n_datas values a PipeWire buffer may have
  MaxCaptured,  \* bound: samples captured in a behaviour
  MaxRuns       \* bound: times the service is initialised

ASSUME ConstantsAssumption ==
  /\ FrameSize \in Nat \ {0}
  /\ SampleSize \in Nat \ {0}
  /\ Interleaved \in BOOLEAN
  /\ BufferSizes \subseteq Nat
  /\ DataCounts \subseteq Nat
  /\ MaxCaptured \in Nat
  /\ MaxRuns \in Nat

VARIABLES
  audio,         \* where the audio context's thread is
  pw,            \* where the PipeWire thread is
  fd,            \* event_fd_: "open", or "none" (closed and -1)
  counter,       \* value of the eventfd
  num_frames,    \* dispatch_chunks' local
  channel_bytes, \* bytes_committed_ of each channel buffer
  sample_count,  \* input_buffer_.sample_count
  pts,           \* ChunkWriter::total_samples_written_
  captured,      \* history: samples appended by on_process
  delivered,     \* history: samples consumed after reaching the encoder
  runs           \* history: on_init calls

vars == <<audio, pw, fd, counter, num_frames, channel_bytes, sample_count,
          pts, captured, delivered, runs>>

buffers == <<channel_bytes, sample_count, pts, captured, delivered>>

AudioStates == {"idle", "polling", "counted", "throwing", "closing", "aborted"}
PwStates    == {"off", "idle", "locked"}

(* prepare_buffer_channels: one interleaved buffer, or one per channel.    *)
NumChannels == IF Interleaved THEN 1 ELSE 2
Channels == 1 .. NumChannels

(* Bytes of one channel buffer that hold one sample of the stream.         *)
BytesPerSample == IF Interleaved THEN 2 * SampleSize ELSE SampleSize

(* Fault: every format is taken for an interleaved one.                    *)
SamplesInInterleaved(num_bytes) == (num_bytes \div 2) \div SampleSize

(* on_process turns the byte size of the buffer into samples.              *)
SamplesIn(num_bytes) ==
  IF Interleaved THEN (num_bytes \div 2) \div SampleSize
                 ELSE num_bytes \div SampleSize

FramesIn(samples) == samples \div FrameSize

(* Faults: one event per on_process call; none for exactly one frame.      *)
NotifiedFramesOnce(samples) == IF samples >= FrameSize THEN 1 ELSE 0
NotifiedFramesAbove(samples) ==
  IF samples > FrameSize THEN FramesIn(samples) ELSE 0

(* What on_process adds to the eventfd when it leaves `samples` buffered.  *)
NotifiedFrames(samples) ==
  IF samples >= FrameSize THEN FramesIn(samples) ELSE 0

(* DynamicBuffer::prepare and commit, for every channel buffer.            *)
Commit(bytes, num_bytes) == [c \in Channels |-> bytes[c] + num_bytes]

(* Fault: the loop over the channel buffers always stops after the first.  *)
ConsumeFirst(bytes) == [bytes EXCEPT ![1] = @ - BytesPerSample * FrameSize]

(* dispatch_chunks consumes one frame from every channel buffer.           *)
ConsumeFrame(bytes) ==
  [c \in Channels |-> bytes[c] - BytesPerSample * FrameSize]

TypeOK ==
  /\ audio \in AudioStates
  /\ pw \in PwStates
  /\ fd \in {"open", "none"}
  /\ counter \in Nat
  /\ num_frames \in Nat
  /\ channel_bytes \in [Channels -> Int]
  /\ sample_count \in Nat
  /\ pts \in Nat
  /\ captured \in Nat
  /\ delivered \in Nat
  /\ runs \in Nat

(* Fault: the contract check of dispatch_chunks is left out.               *)
NoExpect == TRUE

(* The condition of the contract check in dispatch_chunks' loop.           *)
HasFullFrame == sample_count >= FrameSize

Init ==
  /\ audio = "idle"
  /\ pw = "off"
  /\ fd = "none"
  /\ counter = 0
  /\ num_frames = 0
  /\ channel_bytes = [c \in Channels |-> 0]
  /\ sample_count = 0
  /\ pts = 0
  /\ captured = 0
  /\ delivered = 0
  /\ runs = 0

-----------------------------------------------------------------------------
(* The audio context's thread.                                             *)

(* start_pipewire: the PipeWire loop's thread.  When pw_stream_connect     *)
(* fails, a message is printed and the loop is never started.              *)
StartPipewire == pw' \in {"idle", "off"}

(* stop_pipewire: joins the PipeWire thread, which finishes the on_process *)
(* call it is in.                                                          *)
StopPipewire == pw # "locked" /\ pw' = "off"

(* on_init: a fresh eventfd, empty channel buffers (sample_count is left   *)
(* as it is), and the PipeWire loop.                                       *)
OnInit ==
  /\ audio = "idle"
  /\ runs < MaxRuns
  /\ runs' = runs + 1
  /\ audio' = "polling"
  /\ fd' = "open"
  /\ counter' = 0
  /\ channel_bytes' = [c \in Channels |-> 0]
  /\ StartPipewire
  /\ UNCHANGED <<num_frames, sample_count, pts, captured, delivered>>

(* dispatch_chunks up to its loop: ppoll reported event_fd_ readable, the  *)
(* read takes the whole count and resets it.                               *)
DispatchRead ==
  /\ audio = "polling"
  /\ counter > 0
  /\ num_frames' = counter
  /\ counter' = 0
  /\ audio' = "counted"
  /\ UNCHANGED <<pw, fd, buffers, runs>>

(* One turn of dispatch_chunks' loop, under data_mutex_: ChunkWriter       *)
(* stamps the frame and gives it to the encoder, then the samples are      *)
(* consumed from every channel buffer.                                     *)
DispatchChunk ==
  /\ audio = "counted"
  /\ pw # "locked"
  /\ HasFullFrame
  /\ pts' = pts + FrameSize
  /\ channel_bytes' = ConsumeFrame(channel_bytes)
  /\ sample_count' = sample_count - FrameSize
  /\ delivered' = delivered + FrameSize
  /\ num_frames' = num_frames - 1
  /\ audio' = IF num_frames = 1 THEN "polling" ELSE "counted"
  /\ UNCHANGED <<pw, fd, counter, captured, runs>>

(* SC_EXPECT(sample_count >= frame_size_) does not hold: the contract      *)
(* handler terminates the process.                                         *)
DispatchExpectFails ==
  /\ audio = "counted"
  /\ pw # "locked"
  /\ ~HasFullFrame
  /\ audio' = "aborted"
  /\ UNCHANGED <<pw, fd, counter, num_frames, buffers, runs>>

(* ChunkWriter throws (no memory for the frame or its buffers), before or  *)
(* after it has advanced its sample count; nothing is consumed and the     *)
(* exception leaves Context::run.                                          *)
DispatchThrows ==
  /\ audio = "counted"
  /\ pw # "locked"
  /\ HasFullFrame
  /\ pts' \in {pts, pts + FrameSize}
  /\ audio' = "throwing"
  /\ UNCHANGED <<pw, fd, counter, num_frames, channel_bytes, sample_count,
                 captured, delivered, runs>>

(* on_uninit, first half: event_fd_ is closed and forgotten while the      *)
(* PipeWire thread may still be running.  The loop leaves for it when a    *)
(* stop was requested or an exception passed through.                      *)
OnUninitClose ==
  /\ audio \in {"polling", "throwing"}
  /\ audio' = "closing"
  /\ fd' = "none"
  /\ counter' = 0
  /\ UNCHANGED <<pw, num_frames, buffers, runs>>

(* on_uninit, second half: the PipeWire loop is stopped.                   *)
OnUninitStop ==
  /\ audio = "closing"
  /\ StopPipewire
  /\ audio' = "idle"
  /\ num_frames' = 0
  /\ UNCHANGED <<fd, counter, buffers, runs>>

-----------------------------------------------------------------------------
(* The PipeWire thread.                                                    *)

(* on_process up to notify: takes data_mutex_, appends n samples to every  *)
(* channel buffer and adds them to sample_count.                           *)
OnProcessAppend(n) ==
  LET num_bytes == n * BytesPerSample IN
  /\ pw = "idle"
  /\ audio # "aborted"
  /\ captured + n <= MaxCaptured
  /\ pw' = "locked"
  /\ channel_bytes' = Commit(channel_bytes, num_bytes)
  /\ sample_count' = sample_count + SamplesIn(num_bytes)
  /\ captured' = captured + n
  /\ UNCHANGED <<audio, fd, counter, num_frames, pts, delivered, runs>>

(* The rest of on_process: every whole frame now in the buffer is added to *)
(* the eventfd (a write to -1 fails and is ignored); data_mutex_ is freed. *)
OnProcessNotify ==
  /\ pw = "locked"
  /\ audio # "aborted"
  /\ pw' = "idle"
  /\ counter' = IF fd = "open" THEN counter + NotifiedFrames(sample_count)
                              ELSE counter
  /\ UNCHANGED <<audio, fd, num_frames, buffers, runs>>

(* A buffer whose n_datas is not the number of channel buffers: SC_EXPECT  *)
(* terminates the process.                                                 *)
OnProcessExpectFails(n_datas) ==
  /\ pw = "idle"
  /\ audio # "aborted"
  /\ n_datas # NumChannels
  /\ audio' = "aborted"
  /\ UNCHANGED <<pw, fd, counter, num_frames, buffers, runs>>

-----------------------------------------------------------------------------

AudioThread ==
  \/ OnInit
  \/ DispatchRead
  \/ DispatchChunk
  \/ DispatchExpectFails
  \/ DispatchThrows
  \/ OnUninitClose
  \/ OnUninitStop

PwThread ==
  \/ \E n \in BufferSizes : OnProcessAppend(n)
  \/ OnProcessNotify
  \/ \E d \in DataCounts : OnProcessExpectFails(d)

Next == AudioThread \/ PwThread

(* Both threads are scheduled; which of its alternatives a turn takes is   *)
(* not promised, and neither are a stop or the arrival of samples.         *)
Fairness ==
  /\ WF_vars(DispatchRead)
  /\ WF_vars(DispatchChunk \/ DispatchExpectFails \/ DispatchThrows)
  /\ WF_vars(OnUninitStop)
  /\ WF_vars(OnProcessNotify)

Spec == Init /\ [][Next]_vars
FairSpec == Spec /\ Fairness

-----------------------------------------------------------------------------

Running == audio \in {"polling", "counted"}

(* No whole frame sits in input_buffer_ without being counted, either in   *)
(* the eventfd or in the count dispatch_chunks is working off: notify's    *)
(* cumulative count never falls behind, whatever arrives between the read  *)
(* of the eventfd and the turns of the loop.                               *)
NeverUnderNotified ==
  Running /\ pw # "locked" => counter + num_frames >= FramesIn(sample_count)

(* Every channel buffer holds exactly sample_count samples, so that        *)
(* ChunkWriter's copy and consume() stay inside what was committed.        *)
BytesMatchSamples ==
  \A c \in Channels : channel_bytes[c] = BytesPerSample * sample_count

(* Samples are neither lost nor repeated between on_process and the        *)
(* encoder, and the pts of the next chunk is its position in the capture   *)
(* stream.                                                                 *)
PtsIsStreamPosition ==
  /\ delivered + sample_count = captured
  /\ Running => pts = delivered

(* The assertion of dispatch_chunks: each turn of its loop finds a whole   *)
(* frame in the buffer.                                                    *)
ExpectFullFrame ==
  audio = "counted" /\ pw # "locked" => sample_count >= FrameSize

(* A whole frame in the buffer is delivered, unless the service leaves its *)
(* loop.                                                                   *)
FramesAreDelivered ==
  \A d \in 0 .. MaxCaptured :
    (Running /\ sample_count >= FrameSize /\ delivered = d)
      ~> (delivered > d \/ ~Running)
=============================================================================
