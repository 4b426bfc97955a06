-------------------------- MODULE MCEncoderPipeline --------------------------
(* EncoderPipeline with a pool smaller than the frames in flight and       *)
(* codecs that hold one frame back.                                        *)
EXTENDS EncoderPipeline

MCMaxFrames == [s \in Streams |-> IF s = "video" THEN 2 ELSE 1]
=============================================================================
