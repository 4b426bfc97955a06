------------------------- MODULE AudioCaptureProofs -------------------------
(***************************************************************************)
(* AudioCapture for every frame size, sample size and buffer size, and     *)
(* for captures of any length, in a program that runs its audio context    *)
(* once (MaxRuns <= 1), as run_loop does.                                  *)
(*                                                                         *)
(* Inv is inductive.  Its added conjuncts say that dispatch_chunks leaves  *)
(* its loop exactly when its count is used up, that the eventfd is open    *)
(* while the loop runs, and that a service that may still be initialised   *)
(* has an empty buffer: on_init does not reset sample_count.               *)
(***************************************************************************)
EXTENDS AudioCapture, TLAPS

LoopCount ==
  /\ audio = "counted" => num_frames >= 1
  /\ audio = "polling" => num_frames = 0

FdOpen == Running => fd = "open"

FirstInit ==
  runs < MaxRuns =>
    audio = "idle" /\ pw = "off" /\ sample_count = 0 /\ num_frames = 0
      /\ pts = delivered

Inv ==
  /\ TypeOK
  /\ LoopCount
  /\ FdOpen
  /\ FirstInit
  /\ NeverUnderNotified
  /\ PtsIsStreamPosition

-----------------------------------------------------------------------------
(* Integer division, as on_process and notify use it.                      *)

(* The number of whole frames in a buffer is a natural number, and it is   *)
(* zero below one frame: the case in which on_process does not notify.     *)
LEMMA FramesInNat ==
  ASSUME NEW n \in Nat
  PROVE  /\ FramesIn(n) \in Nat
         /\ n < FrameSize => FramesIn(n) = 0
  BY ConstantsAssumption DEF FramesIn

(* Consuming one frame takes exactly one off the number of whole frames.   *)
LEMMA FramesInConsume ==
  ASSUME NEW n \in Nat, n >= FrameSize
  PROVE  FramesIn(n - FrameSize) = FramesIn(n) - 1
  BY ConstantsAssumption DEF FramesIn

(* What on_process adds to the eventfd covers all the buffer holds.        *)
LEMMA NotifiedCoversBuffer ==
  ASSUME NEW n \in Nat
  PROVE  NotifiedFrames(n) \in Nat /\ NotifiedFrames(n) = FramesIn(n)
  BY FramesInNat, ConstantsAssumption DEF NotifiedFrames

(* A delivery of n whole samples is counted as n samples in both layouts.  *)
LEMMA SamplesInExact ==
  ASSUME NEW n \in Nat
  PROVE  SamplesIn(n * BytesPerSample) = n
<1> BytesPerSample \in Nat
  BY ConstantsAssumption DEF BytesPerSample
<1>1. CASE Interleaved
  <2>1. n * BytesPerSample = 2 * (n * SampleSize)
    BY <1>1, ConstantsAssumption DEF BytesPerSample
  <2>2. n * SampleSize \in Nat
    BY ConstantsAssumption
  <2>3. (n * BytesPerSample) \div 2 = n * SampleSize
    BY <2>1, <2>2
  <2>4. (n * SampleSize) \div SampleSize = n
    BY ConstantsAssumption
  <2> QED BY <1>1, <2>3, <2>4 DEF SamplesIn
<1>2. CASE ~Interleaved
  BY <1>2, ConstantsAssumption DEF SamplesIn, BytesPerSample
<1> QED BY <1>1, <1>2

-----------------------------------------------------------------------------

LEMMA InitInv == Init => Inv
  BY ConstantsAssumption, FramesInNat
  DEF Init, Inv, TypeOK, LoopCount, FdOpen, FirstInit,
      NeverUnderNotified, PtsIsStreamPosition, AudioStates, PwStates, Running

(* One step of either thread keeps types, counts and samples in order.     *)
LEMMA NextInv ==
  ASSUME MaxRuns <= 1
  PROVE  Inv /\ [Next]_vars => Inv'
<1> SUFFICES ASSUME Inv, [Next]_vars PROVE Inv'
  OBVIOUS
<1> USE ConstantsAssumption
    DEF Inv, TypeOK, LoopCount, FdOpen, FirstInit, NeverUnderNotified,
        PtsIsStreamPosition, AudioStates, PwStates, Running, buffers
<1> FramesIn(0) = 0
  BY FramesInNat
<1>1. CASE OnInit
  <2>1. sample_count = 0 /\ num_frames = 0 /\ pts = delivered
    BY <1>1 DEF OnInit, StartPipewire
  <2>2. TypeOK'
    BY <1>1 DEF OnInit, StartPipewire
  <2>3. FirstInit'
    BY <1>1 DEF OnInit, StartPipewire
  <2>4. NeverUnderNotified'
    BY <1>1, <2>1 DEF OnInit, StartPipewire
  <2> QED BY <1>1, <2>1, <2>2, <2>3, <2>4 DEF OnInit, StartPipewire
<1>2. CASE DispatchRead
  BY <1>2 DEF DispatchRead
<1>3. CASE DispatchChunk
  <2>1. FramesIn(sample_count - FrameSize) = FramesIn(sample_count) - 1
    BY <1>3, FramesInConsume DEF DispatchChunk, HasFullFrame
  <2>2. FramesIn(sample_count) \in Nat
    BY FramesInNat
  <2>3. TypeOK'
    BY <1>3 DEF DispatchChunk, HasFullFrame, ConsumeFrame, BytesPerSample
  <2>4. NeverUnderNotified'
    BY <1>3, <2>1, <2>2 DEF DispatchChunk, HasFullFrame
  <2>5. LoopCount' /\ FdOpen' /\ FirstInit' /\ PtsIsStreamPosition'
    BY <1>3 DEF DispatchChunk, HasFullFrame
  <2> QED BY <2>3, <2>4, <2>5
<1>4. CASE DispatchExpectFails
  BY <1>4 DEF DispatchExpectFails
<1>5. CASE DispatchThrows
  BY <1>5 DEF DispatchThrows
<1>6. CASE OnUninitClose
  BY <1>6 DEF OnUninitClose
<1>7. CASE OnUninitStop
  BY <1>7 DEF OnUninitStop, StopPipewire
<1>8. ASSUME NEW n \in BufferSizes, OnProcessAppend(n)
      PROVE  Inv'
  <2>1. SamplesIn(n * BytesPerSample) = n
    BY SamplesInExact
  <2>2. n * BytesPerSample \in Nat
    BY DEF BytesPerSample
  <2> QED BY <1>8, <2>1, <2>2 DEF OnProcessAppend, Commit
<1>9. CASE OnProcessNotify
  <2>1. /\ NotifiedFrames(sample_count) \in Nat
        /\ NotifiedFrames(sample_count) = FramesIn(sample_count)
    BY NotifiedCoversBuffer
  <2> QED BY <1>9, <2>1 DEF OnProcessNotify
<1>10. ASSUME NEW d \in DataCounts, OnProcessExpectFails(d)
       PROVE  Inv'
  BY <1>10 DEF OnProcessExpectFails
<1>11. CASE UNCHANGED vars
  BY <1>11 DEF vars
<1> QED
  BY <1>1, <1>2, <1>3, <1>4, <1>5, <1>6, <1>7, <1>8, <1>9, <1>10, <1>11
  DEF Next, AudioThread, PwThread

(* The reachable states satisfy the inductive invariant.                   *)
THEOREM InvHolds ==
  ASSUME MaxRuns <= 1
  PROVE  Spec => []Inv
  BY InitInv, NextInv, PTL DEF Spec

(* AudioService keeps its types: no count goes below zero.                 *)
THEOREM TypeCorrect ==
  ASSUME MaxRuns <= 1
  PROVE  Spec => []TypeOK
<1>1. Inv => TypeOK
  BY DEF Inv
<1> QED BY InvHolds, <1>1, PTL

(* on_process never leaves a whole frame uncounted, however its calls      *)
(* interleave with the eventfd read and the turns of dispatch_chunks.      *)
THEOREM NotifyCoversBuffer ==
  ASSUME MaxRuns <= 1
  PROVE  Spec => []NeverUnderNotified
<1>1. Inv => NeverUnderNotified
  BY DEF Inv
<1> QED BY InvHolds, <1>1, PTL

(* No sample is lost or repeated on its way to the encoder, and ChunkWriter*)
(* stamps every chunk with its position in the capture stream.             *)
THEOREM SamplesConserved ==
  ASSUME MaxRuns <= 1
  PROVE  Spec => []PtsIsStreamPosition
<1>1. Inv => PtsIsStreamPosition
  BY DEF Inv
<1> QED BY InvHolds, <1>1, PTL

-----------------------------------------------------------------------------

(* One step keeps the bytes of every channel buffer in line with           *)
(* sample_count.                                                           *)
LEMMA NextBytes ==
  ASSUME MaxRuns <= 1
  PROVE  Inv /\ BytesMatchSamples /\ [Next]_vars => BytesMatchSamples'
<1> SUFFICES ASSUME Inv, BytesMatchSamples, [Next]_vars
             PROVE  BytesMatchSamples'
  OBVIOUS
<1> USE ConstantsAssumption DEF Inv, TypeOK, BytesMatchSamples, buffers
<1>0. BytesPerSample \in Nat
  BY DEF BytesPerSample
<1>1. CASE OnInit
  BY <1>0, <1>1 DEF OnInit, StartPipewire, FirstInit
<1>2. CASE DispatchChunk
  <2>1. BytesPerSample * (sample_count - FrameSize)
          = BytesPerSample * sample_count - BytesPerSample * FrameSize
    BY <1>0
  <2> QED BY <1>2, <2>1 DEF DispatchChunk, ConsumeFrame
<1>3. ASSUME NEW n \in BufferSizes, OnProcessAppend(n)
      PROVE  BytesMatchSamples'
  <2>1. SamplesIn(n * BytesPerSample) = n
    BY SamplesInExact
  <2>2. BytesPerSample * (sample_count + n)
          = BytesPerSample * sample_count + n * BytesPerSample
    BY <1>0
  <2> QED BY <1>3, <2>1, <2>2 DEF OnProcessAppend, Commit
<1>4. CASE \/ DispatchRead \/ DispatchExpectFails \/ DispatchThrows
           \/ OnUninitClose \/ OnUninitStop \/ OnProcessNotify
           \/ UNCHANGED vars
  BY <1>4 DEF DispatchRead, DispatchExpectFails, DispatchThrows,
              OnUninitClose, OnUninitStop, OnProcessNotify, vars
<1>5. ASSUME NEW d \in DataCounts, OnProcessExpectFails(d)
      PROVE  BytesMatchSamples'
  BY <1>5 DEF OnProcessExpectFails
<1> QED BY <1>1, <1>2, <1>3, <1>4, <1>5 DEF Next, AudioThread, PwThread

(* ChunkWriter's copy and consume() never leave the committed bytes of a   *)
(* channel buffer, planar or interleaved.                                  *)
THEOREM BytesInLine ==
  ASSUME MaxRuns <= 1
  PROVE  Spec => []BytesMatchSamples
<1>1. Init => BytesMatchSamples
  BY ConstantsAssumption DEF Init, BytesMatchSamples, BytesPerSample
<1> QED BY InvHolds, NextBytes, <1>1, PTL DEF Spec
=============================================================================
