------------------------------ MODULE Lifetime ------------------------------
(***************************************************************************)
(* The lifetime of everything main, run and run_wayland (main.cpp) set up: *)
(* every step may fail, the owners and guards unwind in reverse, and       *)
(* SIGINT may arrive at any time.  On Wayland the main context's service   *)
(* also runs its on_init and its frames here, with ColorConverter's GL     *)
(* objects and bindings; the other two contexts are Session's subject.     *)
(***************************************************************************)
EXTENDS ColorConverter, Platform, FiniteSets, SequencesExt

Targets == {"vertex_array", "array_buffer", "element_array_buffer",
            "texture_2d", "texture_external", "program", "draw_framebuffer"}
Signals == {"SIGINT", "SIGCHLD"}
None == "0"

(* What a resource still needs when it is released or finished.            *)
DependsOn(r) ==
  CASE r = "cuda_ctx" -> {"libcuda"}
    [] r = "nvfbc_session" -> {"libnvfbc"}
    [] r = "capture_session" -> {"nvfbc_session"}
    [] r \in {"registry", "output", "compositor", "surface"} -> {"wl_display"}
    [] r = "window" -> {"surface"}
    [] r = "egl_display" -> {"wl_display", "libegl"}
    [] r = "egl_surface" -> {"egl_display", "window"}
    [] r = "egl_context" -> {"egl_display"}
    [] r \in ToSet(Members) \cup {"vertex_shader", "fragment_shader",
             "mouse_vertex_shader", "mouse_fragment_shader"} -> {"egl_context"}
    [] r \in {"input_image", "mouse_image"} -> {"egl_display"}
    [] r = "cuda_gfx_resource" -> {"cuda_ctx", "output_texture"}
    [] r = "codec_frames" -> {"cuda_ctx"}
    [] r \in {"audio_stream", "video_stream", "file"} -> {"format_context"}
    [] r = "open_output" -> {"format_context", "audio_stream", "video_stream",
                             "file"}
    [] r = "video_service" -> {"ctx", "cuda_ctx"}
    [] r = "signal_service" -> {"ctx"}
    [] r = "audio_service" -> {"audio_ctx"}
    [] r = "encoder_service" -> {"media_ctx", "format_context"}
    [] OTHER -> {}

-----------------------------------------------------------------------------
(* The scripts.                                                            *)

(* The audio codec and its stream, from avformat_alloc_output_context2 to  *)
(* avcodec_parameters_from_context.  The streams belong to the format      *)
(* context.                                                                *)
OpenAudio ==
  <<[Own("format_context", {}) EXCEPT
       !.owns = <<Frees(<<"video_stream", "audio_stream",
                          "format_context">>)>>],
    Call("avcodec_find_encoder_by_name", {}),
    Call("is_sample_rate_supported", {}),
    Call("find_supported_formats", {}),
    Own("audio_codec", {}),
    Call("avcodec_open2", {"audio_codec"}),
    Open("audio_stream", {"format_context", "audio_codec"}),
    Call("avcodec_parameters_from_context", {"audio_stream", "audio_codec"})>>

(* Fault: the file's guard is declared after the header is written.        *)
OpenOutputGuardsLate ==
  <<Open("video_stream", {"format_context", "video_codec"}),
    Call("avcodec_parameters_from_context", {"video_stream", "video_codec"}),
    Open("file", {"format_context"}),
    Open("open_output", {"format_context", "audio_stream", "video_stream",
                         "file"}),
    Guard(<<"file">>)>>

(* The video stream, the output file and its header.                       *)
OpenOutput ==
  <<Open("video_stream", {"format_context", "video_codec"}),
    Call("avcodec_parameters_from_context", {"video_stream", "video_codec"}),
    Own("file", {"format_context"}),
    Open("open_output", {"format_context", "audio_stream", "video_stream",
                         "file"})>>

(* The three contexts, declared in this order, the services added to them  *)
(* and the handlers; then the guard that writes the trailer.  The services *)
(* of ctx lie in a hash map and may go in either order.                    *)
StartServices ==
  <<[Guard(<<"signal_service", "video_service">> \o Members \o <<"ctx">>)
       EXCEPT !.gets = {"ctx"}],
    [Guard(<<"audio_service", "audio_ctx">>) EXCEPT !.gets = {"audio_ctx"}],
    [Guard(<<"encoder_service", "media_ctx">>) EXCEPT !.gets = {"media_ctx"}],
    Open("signal_service", {"ctx"}),
    Call("add_signal_handler", {"signal_service"}),
    [Skip("add_from_factory") EXCEPT
       !.needs = {"ctx", "audio_ctx", "media_ctx", "cuda_ctx",
                  "format_context"},
       !.gets = {"audio_service", "video_service", "encoder_service"}],
    Guard(<<"open_output">>)>>

main == <<Call("block_signals", {}),
          [Skip("PipewireInit") EXCEPT !.gets = {"pipewire"},
                                       !.owns = <<Frees(<<"pipewire">>)>>]>>

run_wayland ==
  main
    \o <<[Skip("wl_display_connect") EXCEPT
            !.gets = {"wl_display"}, !.owns = <<Frees(<<"wl_display">>)>>]>>
    \o load_gl_extensions \o load_cuda
    \o initialize_wayland \o initialize_wayland_egl
    \o <<Call("cuInit", {"libcuda"})>> \o create_cuda_context
    \o OpenAudio \o create_video_encoder({}) \o OpenOutput
    \o StartServices

run ==
  main
    \o get_display \o load_cuda \o load_nvfbc
    \o <<Call("cuInit", {"libcuda"})>> \o create_cuda_context
    \o <<Call("NvFBCCreateInstance", {"libnvfbc"})>>
    \o create_nvfbc_session \o create_nvfbc_capture_session
    \o <<Guard(<<"capture_session">>)>>
    \o OpenAudio
    \o <<Own("buffer_pool", {}), Expect("XWidthOfScreen", {"x_display"})>>
    \o create_video_encoder({"buffer_pool"}) \o OpenOutput
    \o StartServices

(* DRMVideoService::on_init; the socket and the helper are DrmHelper's.    *)
(* A missing helper throws a pointer.                                      *)
on_init ==
  initialize \o <<Call("find_drm_helper_binary", {}),
                  Call("connect_helper", {"video_service"}),
                  Call("eglSwapInterval", {"egl_display"})>>

register_gl_texture_in_cuda ==
  <<[Skip("cuCtxPushCurrent") EXCEPT
       !.needs = {"cuda_ctx"}, !.gets = {"cuda_current"},
       !.owns = <<Frees(<<"cuda_current">>)>>],
    Open("cuda_gfx_resource", {"output_texture", "cuda_current"}),
    Call("cuGraphicsResourceSetMapFlags", {"cuda_gfx_resource"}),
    Call("cuGraphicsMapResources", {"cuda_gfx_resource"}),
    Call("cuGraphicsSubResourceGetMappedArray", {"cuda_gfx_resource"}),
    Leave(1)>>

(* The receiver: a frame for the video codec, a packet for the media       *)
(* context.                                                                *)
FrameHandler ==
  Call("frame_handler", {"video_codec", "codec_frames", "video_stream",
                         "encoder_service", "cuda_ctx"})

(* Attaching an image to the texture a draw will sample.                   *)
AttachImage(image, texture) ==
  <<Open(image, {"egl_display", "planes"})>>
    \o Scoped("texture_external", texture,
         <<Unchecked("glEGLImageTargetTexture2DOES",
                     {<<"texture_external", texture>>})>>)

(* DRMVideoService::dispatch_frame.                                        *)
dispatch_frame_drm(mouse) ==
  <<[Own("planes", {"video_service"}) EXCEPT !.ends = {"return", "throw"}]>>
    \o AttachImage("input_image", "input_texture")
    \o (IF mouse THEN AttachImage("mouse_image", "mouse_texture") ELSE <<>>)
    \o convert(mouse)
    \o <<Guard(<<"input_image", "mouse_image">>)>>
    \o register_gl_texture_in_cuda
    \o <<Guard(<<"cuda_gfx_resource">>), FrameHandler>>

(* VideoService's dispatch_frame.                                          *)
dispatch_frame_nvfbc ==
  <<Call("nvFBCToCudaGrabFrame", {"video_service", "capture_session"}),
    FrameHandler>>

Scripts ==
  [run |-> run, run_wayland |-> run_wayland, on_init |-> on_init,
   frame |-> dispatch_frame_drm(FALSE),
   frame_with_mouse |-> dispatch_frame_drm(TRUE),
   nvfbc_frame |-> dispatch_frame_nvfbc]

FramesOf(platform) ==
  IF platform = "run" THEN {"nvfbc_frame"} ELSE {"frame", "frame_with_mouse"}

-----------------------------------------------------------------------------

VARIABLES
  platform, \* "run" or "run_wayland"
  script,   \* the script being run
  pc,       \* its next step
  mode,     \* "forward": in a script; "tick", "poll": in Context::run;
            \* "returning", "escaping": leaving a frame or on_init;
            \* "flush": after the loop; "leaving": leaving main; "ended"
  base,     \* cleanups on the stack when run_loop was entered
  stack,    \* cleanups, the newest last
  live,     \* resources created and not released
  gl,       \* GL bindings and the error flag
  sig,      \* signal mask, signalfd, handlers and pending signals
  failed,   \* the step that threw first
  exit      \* "none", "ok", "error", "terminated" or "killed"

vars == <<platform, script, pc, mode, base, stack, live, gl, sig, failed,
          exit>>

Steps == UNION {ToSet(Scripts[s]) : s \in DOMAIN Scripts}
StepNames == {s.name : s \in Steps}
Resources == UNION {s.gets : s \in Steps}

(* Scripts, bindings and signals are in range, and no scope of the callers *)
(* is left by a frame or by on_init.                                       *)
TypeOK ==
  /\ platform \in {"run", "run_wayland"}
  /\ script \in DOMAIN Scripts
  /\ pc \in 1 .. Len(Scripts[script]) + 1
  /\ mode \in {"forward", "tick", "poll", "returning", "escaping", "flush",
               "leaving", "ended"}
  /\ mode # "ended" => base \in 0 .. Len(stack) \/ mode = "leaving"
  /\ live \subseteq Resources
  /\ gl.bound \in [Targets \ {"element_array_buffer"} -> Resources \cup {None}]
  /\ gl.elements \in [{None, "vao"} -> Resources \cup {None}]
  /\ gl.error \in BOOLEAN
  /\ sig \in [mask : SUBSET Signals, original : SUBSET Signals,
              signalfd : SUBSET Signals, handlers : SUBSET Signals,
              pending : SUBSET Signals]
  /\ failed \in StepNames \cup {"none", "run_loop", "flush", "another"}
  /\ exit \in {"none", "ok", "error", "terminated", "killed"}

Init ==
  /\ platform \in {"run", "run_wayland"}
  /\ script = platform
  /\ pc = 1
  /\ mode = "forward"
  /\ base = 0
  /\ stack = <<>>
  /\ live = {}
  /\ gl = [bound |-> [t \in Targets \ {"element_array_buffer"} |-> None],
           elements |-> [v \in {None, "vao"} |-> None],
           error |-> FALSE]
  /\ sig = [mask |-> {}, original |-> {}, signalfd |-> {}, handlers |-> {},
            pending |-> {}]
  /\ failed = "none"
  /\ exit = "none"

-----------------------------------------------------------------------------
(* GL bindings.  The index buffer's binding is state of the vertex array   *)
(* that is bound.                                                          *)

Bound(g, target) ==
  IF target = "element_array_buffer"
  THEN g.elements[g.bound["vertex_array"]]
  ELSE g.bound[target]

Rebound(g, target, object) ==
  IF target = "element_array_buffer"
  THEN [g EXCEPT !.elements[g.bound["vertex_array"]] = object]
  ELSE [g EXCEPT !.bound[target] = object]

Unbound(g, cleanup) ==
  FoldSet(LAMBDA t, h : Rebound(h, t, None), g, cleanup.unbinds)

-----------------------------------------------------------------------------
(* Signals.                                                                *)

(* Fault: the descriptor keeps its empty mask.                             *)
BlockWithoutDescriptor(s, signal) ==
  [s EXCEPT !.mask = @ \cup {signal}]

(* detail::block_signal: the thread's whole mask goes to the descriptor,   *)
(* SIGCHLD included.                                                       *)
block_signal(s, signal) ==
  [s EXCEPT !.mask = @ \cup {signal}, !.signalfd = s.mask \cup {signal}]

(* SignalService::add_signal_handler: emplace keeps an earlier handler.    *)
add_signal_handler(s, signal) ==
  [block_signal(s, signal) EXCEPT !.handlers = @ \cup {signal}]

AfterStep(s, name) ==
  CASE name = "block_signals" -> [s EXCEPT !.mask = Signals]
    [] name = "signal_service" -> [s EXCEPT !.original = s.mask]
    [] name = "add_signal_handler" -> add_signal_handler(s, "SIGINT")
    [] OTHER -> s

(* Fault: the service unblocks what it handled.                            *)
UninitUnblocks(s) == [s EXCEPT !.mask = s.original \ s.handlers]

(* SignalService::on_uninit.                                               *)
on_uninit(s) == [s EXCEPT !.mask = s.original]

-----------------------------------------------------------------------------
(* A step of a script.                                                     *)

Current == Scripts[script][pc]
Running == mode = "forward" /\ pc <= Len(Scripts[script])

(* The cleanups a step leaves, the newest first.                           *)
LeftBy(step) ==
  Reverse(SubSeq(stack, Len(stack) - step.leaves + 1, Len(stack)))

(* Unbinding reads the error flag, in a noexcept function.                 *)
Aborts(step) ==
  gl.error /\ \E i \in DOMAIN LeftBy(step) : LeftBy(step)[i].unbinds # {}

(* Moving out of an owner: only the owners of this function are emptied.   *)
MovedOut(cleanups, resources) ==
  [i \in DOMAIN cleanups |->
     IF i <= base THEN cleanups[i]
     ELSE [cleanups[i] EXCEPT
             !.frees = SelectSeq(@, LAMBDA r : r \notin resources)]]

Advance ==
  /\ Running
  /\ ~Aborts(Current)
  /\ LET left == LeftBy(Current)
         kept == SubSeq(stack, 1, Len(stack) - Current.leaves)
         freed == UNION {ToSet(left[i].frees) : i \in DOMAIN left}
         unbound == FoldLeft(Unbound, gl, left)
     IN  /\ live' = (live \ freed) \cup Current.gets
         /\ stack' = MovedOut(kept, Current.moves) \o Current.owns
         /\ gl' = FoldSet(LAMBDA b, g : Rebound(g, b[1], b[2]), unbound,
                          Current.binds)
  /\ sig' = AfterStep(sig, Current.name)
  /\ pc' = pc + 1
  /\ UNCHANGED <<platform, script, mode, base, failed, exit>>

(* A GL error that nobody looks at yet.                                    *)
LeaveGlError ==
  /\ Running
  /\ "gl_error" \in Current.ends
  /\ gl' = [gl EXCEPT !.error = TRUE]
  /\ pc' = pc + 1
  /\ UNCHANGED <<platform, script, mode, base, stack, live, sig, failed,
                 exit>>

(* An exception leaves main's set-up for good; in the loop, run_loop       *)
(* catches it.  When on_init throws, the signal service may have been      *)
(* initialized before it, and is uninitialized then.                       *)
Throw ==
  /\ Running
  /\ "throw" \in Current.ends
  /\ failed' = Current.name
  /\ mode' = IF script = platform THEN "leaving" ELSE "escaping"
  /\ \/ sig' = sig
     \/ script = "on_init" /\ sig' = on_uninit(sig)
  /\ UNCHANGED <<platform, script, pc, base, stack, live, gl, exit>>

(* A return in the middle of a frame.                                      *)
Return ==
  /\ Running
  /\ "return" \in Current.ends
  /\ mode' = "returning"
  /\ UNCHANGED <<platform, script, pc, base, stack, live, gl, sig, failed,
                 exit>>

Terminated ==
  /\ mode' = "ended"
  /\ exit' = "terminated"
  /\ UNCHANGED <<platform, script, pc, base, stack, live, gl, sig, failed>>

Terminate ==
  /\ Running
  /\ "terminate" \in Current.ends \/ Aborts(Current)
  /\ Terminated

-----------------------------------------------------------------------------
(* run_loop and the main context.                                          *)

Done(s) == mode = "forward" /\ script = s /\ pc > Len(Scripts[s])

(* run_loop adds a second SignalService, which the registry discards, and  *)
(* a second handler, which the first service discards.                     *)
EnterLoop ==
  /\ Done(platform)
  /\ base' = Len(stack)
  /\ sig' = add_signal_handler(sig, "SIGINT")
  /\ IF platform = "run_wayland"
     THEN script' = "on_init" /\ pc' = 1 /\ mode' = mode
     ELSE script' = script /\ pc' = pc /\ mode' = "tick"
  /\ UNCHANGED <<platform, stack, live, gl, failed, exit>>

(* The second SignalService's descriptor cannot be opened.                 *)
EnterLoopFails ==
  /\ Done(platform)
  /\ failed' = "run_loop"
  /\ mode' = "leaving"
  /\ UNCHANGED <<platform, script, pc, base, stack, live, gl, sig, exit>>

ServicesAreUp ==
  /\ Done("on_init")
  /\ mode' = "tick"
  /\ UNCHANGED <<platform, script, pc, base, stack, live, gl, sig, failed,
                 exit>>

(* tick_timers: a frame is due, or none is.                                *)
Tick ==
  /\ mode = "tick"
  /\ \E f \in FramesOf(platform) :
       script' = f /\ pc' = 1 /\ mode' = "forward"
  /\ UNCHANGED <<platform, base, stack, live, gl, sig, failed, exit>>

NoTick ==
  /\ mode = "tick"
  /\ mode' = "poll"
  /\ UNCHANGED <<platform, script, pc, base, stack, live, gl, sig, failed,
                 exit>>

FrameDone ==
  /\ \E f \in FramesOf(platform) : Done(f)
  /\ mode' = "returning"
  /\ UNCHANGED <<platform, script, pc, base, stack, live, gl, sig, failed,
                 exit>>

(* dispatch_signal reads until EAGAIN and skips a signal without handler.  *)
Poll ==
  /\ mode = "poll"
  /\ LET read == sig.pending \cap sig.signalfd
         kept == [sig EXCEPT !.pending = @ \ read]
         stop == read \cap sig.handlers # {}
     IN  /\ sig' = IF stop THEN on_uninit(kept) ELSE kept
         /\ mode' = IF stop THEN "flush" ELSE "tick"
  /\ UNCHANGED <<platform, script, pc, base, stack, live, gl, failed, exit>>

(* The audio or the media context has failed and asks main to stop.        *)
OtherContextStops ==
  /\ mode = "poll"
  /\ failed' = "another"
  /\ sig' = on_uninit(sig)
  /\ mode' = "flush"
  /\ UNCHANGED <<platform, script, pc, base, stack, live, gl, exit>>

(* Joining audio, flushing both codecs, joining media; a failed flush, or  *)
(* a context that has failed meanwhile, leaves an exception to rethrow     *)
(* unless there is one.  What is rethrown is the first that was kept: the  *)
(* pointer of main's own on_init may have come second.                     *)
Flush ==
  /\ mode = "flush"
  /\ failed' \in {failed, IF failed = "none" THEN "flush" ELSE failed}
  /\ mode' = "leaving"
  /\ UNCHANGED <<platform, script, pc, base, stack, live, gl, sig, exit>>

(* main catches std::exception only: a pointer finds no handler when it is *)
(* rethrown, and nothing is unwound.  It is find_drm_helper_binary's or    *)
(* that of the encoder service's on_init, which may be kept whatever the   *)
(* main thread has done.                                                   *)
RethrowUncaught ==
  /\ mode = "flush"
  /\ Terminated

-----------------------------------------------------------------------------
(* Unwinding, one destructor at a time.                                    *)

Floor == IF mode = "leaving" THEN 0 ELSE base
Unwinding == mode \in {"returning", "escaping", "leaving"}
Top == stack[Len(stack)]

Release ==
  /\ Unwinding
  /\ Len(stack) > Floor
  /\ Top.frees # <<>>
  /\ live' = live \ {Head(Top.frees)}
  /\ stack' = [stack EXCEPT ![Len(stack)].frees = Tail(@)]
  /\ UNCHANGED <<platform, script, pc, mode, base, gl, sig, failed, exit>>

(* destroy_nvfbc_capture_session throws from a destructor.                 *)
ReleaseThrows ==
  /\ Unwinding
  /\ Len(stack) > Floor
  /\ Top.frees # <<>>
  /\ Head(Top.frees) = "capture_session"
  /\ "capture_session" \in live
  /\ Terminated

Pop ==
  /\ Unwinding
  /\ Len(stack) > Floor
  /\ Top.frees = <<>>
  /\ gl' = Unbound(gl, Top)
  /\ stack' = Front(stack)
  /\ UNCHANGED <<platform, script, pc, mode, base, live, sig, failed, exit>>

Unwound ==
  /\ mode \in {"returning", "escaping"}
  /\ Len(stack) = Floor
  /\ mode' = IF mode = "returning" THEN "poll" ELSE "flush"
  /\ sig' \in IF mode = "escaping" /\ script # "on_init"
              THEN {on_uninit(sig)} ELSE {sig}
  /\ UNCHANGED <<platform, script, pc, base, stack, live, gl, failed, exit>>

Exit ==
  /\ mode = "leaving"
  /\ stack = <<>>
  /\ mode' = "ended"
  /\ exit' = IF failed = "none" THEN "ok" ELSE "error"
  /\ UNCHANGED <<platform, script, pc, base, stack, live, gl, sig, failed>>

-----------------------------------------------------------------------------
(* The environment.                                                        *)

(* Ctrl-C.  While it is blocked it stays pending.                          *)
Interrupt ==
  /\ mode # "ended"
  /\ "SIGINT" \in sig.mask
  /\ sig' = [sig EXCEPT !.pending = @ \cup {"SIGINT"}]
  /\ UNCHANGED <<platform, script, pc, mode, base, stack, live, gl, failed,
                 exit>>

(* The steps that wait for the helper in a ppoll with a mask of SIGCHLD.   *)
HelperWaits == {"connect_helper", "planes"}
Waiting == Running /\ Current.name \in HelperWaits

(* Where it is not blocked it is taken by default, and it may have been    *)
(* pending when the wait lets it in.                                       *)
InterruptKills ==
  /\ mode # "ended"
  /\ "SIGINT" \notin sig.mask \/ Waiting
  /\ mode' = "ended"
  /\ exit' = "killed"
  /\ UNCHANGED <<platform, script, pc, base, stack, live, gl, sig, failed>>

(* The DRM helper exits while the loop runs.                               *)
HelperExits ==
  /\ mode \in {"tick", "poll"}
  /\ platform = "run_wayland"
  /\ sig' = [sig EXCEPT !.pending = @ \cup ({"SIGCHLD"} \cap sig.mask)]
  /\ UNCHANGED <<platform, script, pc, mode, base, stack, live, gl, failed,
                 exit>>

Program_ ==
  \/ Advance \/ LeaveGlError \/ Throw \/ Return \/ Terminate
  \/ EnterLoop \/ EnterLoopFails \/ ServicesAreUp \/ Tick \/ NoTick
  \/ FrameDone \/ Poll \/ OtherContextStops \/ Flush \/ RethrowUncaught
  \/ Release \/ ReleaseThrows \/ Pop \/ Unwound \/ Exit

Next == Program_ \/ Interrupt \/ InterruptKills \/ HelperExits

(* The main thread keeps running.                                          *)
Spec == Init /\ [][Next]_vars /\ WF_vars(Program_)

-----------------------------------------------------------------------------

(* What a step of main, run, on_init or a frame uses exists when it is     *)
(* reached, whatever failed, was released or was moved before.             *)
NeedsAreLive == Running => Current.needs \subseteq live

(* Every GL call finds its objects bound: a draw of convert sees the       *)
(* vertex array with its index buffer, the framebuffer, its own texture    *)
(* and its own program, although a BoundTarget unbinds to 0 instead of to  *)
(* what was bound before.                                                  *)
BindingsAreComplete ==
  Running => \A b \in Current.sees : Bound(gl, b[1]) = b[2]

(* No GL binding, the vertex array's index buffer included, outlives the   *)
(* function that made it, whether it returned or threw.                    *)
NothingStaysBound ==
  mode \in {"tick", "poll", "flush"} =>
    /\ \A t \in DOMAIN gl.bound : gl.bound[t] = None
    /\ \A v \in DOMAIN gl.elements : gl.elements[v] = None

(* What some cleanup will still release.                                   *)
Owned == live \cap UNION {ToSet(stack[i].frees) : i \in DOMAIN stack}

(* A resource goes before what it depends on, on every path out of main:   *)
(* GL objects before the EGL context, EGL before Wayland, the trailer      *)
(* before the file is closed, services before their contexts.              *)
DependentsGoFirst ==
  exit \in {"none", "ok", "error"} =>
    \A r \in Owned : DependsOn(r) \subseteq live

(* What each failure leaves behind: a header without trailer if the signal *)
(* service fails after avformat_write_header, the capture session if       *)
(* nvFBCToCudaSetUp fails, EGL images and the CUDA registration if a frame *)
(* fails before their guards exist.  The libraries are never closed.       *)
LeftBehind ==
  Libraries
    \cup (IF failed \in {"signal_service", "add_signal_handler"}
          THEN {"open_output"} ELSE {})
    \cup (IF failed = "nvFBCToCudaSetUp" THEN {"capture_session"} ELSE {})
    \cup (IF failed \in {"mouse_image", "viewport", "clear", "uniform",
                         "draw_elements"}
          THEN {"input_image", "mouse_image"} ELSE {})
    \cup (IF failed \in {"cuGraphicsResourceSetMapFlags",
                         "cuGraphicsMapResources",
                         "cuGraphicsSubResourceGetMappedArray"}
          THEN {"cuda_gfx_resource"} ELSE {})

(* When main returns, nothing else is left: in particular every session    *)
(* that reached run_loop has a trailer.                                    *)
NothingElseLeaks == exit \in {"ok", "error"} => live \subseteq LeftBehind

(* Once main has blocked it, Ctrl-C kills the process only while the DRM   *)
(* service waits for its helper: not during the rest of the set-up, not in *)
(* the loop, and not in the finalization after the signal service is gone. *)
KilledOnlyWhileWaiting ==
  exit = "killed" =>
    \/ live = {}
    \/ pc <= Len(Scripts[script]) /\ Current.name \in HelperWaits

(* A Ctrl-C at any time, during set-up, a frame or the finalization, is    *)
(* followed by the end of the process.                                     *)
InterruptEnds == "SIGINT" \in sig.pending ~> mode = "ended"

(* Nothing is used before or after its life, and nothing outlives what its *)
(* release needs, on every path through set-up, frames and unwinding.      *)
LivesAreNested == TypeOK /\ NeedsAreLive /\ DependentsGoFirst

(* Bindings last exactly as long as the scopes that make them.             *)
BindingsAreScoped == BindingsAreComplete /\ NothingStaysBound
=============================================================================
