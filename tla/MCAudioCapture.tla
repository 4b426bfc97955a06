--------------------------- MODULE MCAudioCapture ---------------------------
(* AudioCapture on small buffers.  Frames of two samples and deliveries of *)
(* one or three make the buffer hold less than one, exactly one, one and a *)
(* half and several frames when the eventfd is written and read.           *)
EXTENDS AudioCapture
=============================================================================
