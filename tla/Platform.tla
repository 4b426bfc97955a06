------------------------------ MODULE Platform ------------------------------
(***************************************************************************)
(* What the two platforms are made of: the libraries loaded with dlopen,   *)
(* CUDA, NvFBC, the X and Wayland displays, EGL, and the video encoder on  *)
(* top of them.  One script per function, for Lifetime to run.             *)
(*                                                                         *)
(* A library is never closed: lib is a plain pointer.                      *)
(***************************************************************************)
EXTENDS Scopes

Libraries == {"libcuda", "libnvfbc", "libegl"}

get_display == <<Own("x_display", {})>>

load_cuda == <<Open("libcuda", {}), Call("attach_symbols", {"libcuda"})>>
load_nvfbc == <<Open("libnvfbc", {}), Call("attach_symbols", {"libnvfbc"})>>

create_cuda_context ==
  <<Call("cuDeviceGet", {"libcuda"}), Own("cuda_ctx", {"libcuda"})>>

(* A key that does not decode is dereferenced: operator* ends the process. *)
create_nvfbc_session ==
  <<Expect("base64_decode", {}), Own("nvfbc_session", {"libnvfbc"})>>

(* The capture session has no owner until the caller's guard.              *)
create_nvfbc_capture_session ==
  <<Open("capture_session", {"nvfbc_session"}),
    Call("nvFBCToCudaSetUp", {"capture_session"})>>

(* egl() loads the library on its first call, from load_gl_extensions.     *)
load_gl_extensions ==
  <<Open("libegl", {}), Call("attach_symbols", {"libegl"}),
    Call("glEGLImageTargetTexture2DOES", {"libegl"})>>

-----------------------------------------------------------------------------

(* Fault: the members are declared the other way round.                    *)
WaylandBackwards ==
  <<"wl_display", "registry", "output", "compositor", "surface", "window">>

(* The members of Wayland, in the order in which they are released.        *)
Wayland ==
  <<"window", "surface", "compositor", "output", "registry", "wl_display">>

(* The display comes from main.  The round trips run the registry's and    *)
(* the output's listeners: the compositor may lack either global, and a    *)
(* missing output leaves the sizes zero, which ends the process.  The      *)
(* guards reset output and registry when the function is left.             *)
initialize_wayland ==
  <<[Guard(Wayland) EXCEPT !.needs = {"wl_display"}],
    Open("registry", {"wl_display"}),
    Guard(<<"registry">>),
    [Expect("roundtrip", {"wl_display", "registry"}) EXCEPT
       !.gets = {"output"}],
    Guard(<<"output">>),
    Open("compositor", {"registry"}),
    Open("surface", {"compositor"}),
    Open("window", {"surface"}),
    Leave(2)>>

(* A display that fails to initialize is released, not terminated.         *)
initialize_wayland_egl ==
  <<Call("eglBindAPI", {"libegl"}),
    Call("eglGetDisplay", {"libegl", "wl_display"}),
    Own("egl_display", {"libegl", "wl_display"}),
    Call("eglChooseConfig", {"egl_display"}),
    Own("egl_surface", {"egl_display", "window"}),
    Own("egl_context", {"egl_display"}),
    Call("eglMakeCurrent", {"egl_display", "egl_surface", "egl_context"})>>

-----------------------------------------------------------------------------

(* The codec holds a reference of its own to the frames context when the   *)
(* two local references go.  pool is {} on Wayland.                        *)
create_video_encoder(pool) ==
  <<Call("avcodec_find_encoder_by_name", {}),
    [Own("video_codec", {}) EXCEPT
       !.owns = <<Frees(<<"codec_frames", "video_codec">>)>>],
    Own("device_ref", {"cuda_ctx"}),
    Call("av_hwdevice_ctx_init", {"device_ref", "cuda_ctx"}),
    Own("frames_ref", {"device_ref"}),
    Call("av_hwframe_ctx_init", {"frames_ref", "cuda_ctx"} \cup pool),
    [Skip("av_buffer_ref") EXCEPT
       !.needs = {"frames_ref", "video_codec"}, !.gets = {"codec_frames"}],
    Call("avcodec_open2", {"video_codec", "codec_frames", "cuda_ctx"}),
    Leave(2)>>
=============================================================================
