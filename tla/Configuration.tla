--------------------------- MODULE Configuration ---------------------------
(***************************************************************************)
(* From the arguments and the environment to a configured session:         *)
(* parse_cmd_line and get_parameters (utils/cmd_line.cpp), main's choice   *)
(* of platform and its truncation for NvFBC (main.cpp), the NvFBC key      *)
(* (nvidia.cpp), and the users of the frame time: NvFBC's sampling         *)
(* interval, the codec's time base (av/codec.cpp) and the video timer      *)
(* (services/readiness.cpp).                                               *)
(***************************************************************************)
EXTENDS CmdLine, FrameRate, Base64

CONSTANTS
  CommandLines,  \* sequences of arguments that are tried
  UsualLine,     \* the one that is tried with every key
  Keys           \* values of NVFBC_KEY that are tried

ASSUME InputsAssumption ==
  /\ UsualLine \in CommandLines
  /\ \A line \in CommandLines : line \in Seq(Arguments)
  /\ <<>> \in Keys
  /\ \A k \in Keys : k \in Seq(Chars)

VARIABLES
  stage,     \* how far main has come, or how it has ended
  argv,      \* the arguments behind the program's name
  key,       \* the variable with NvFBC's key, <<>> when it is not set
  env,       \* SHADOW_CAST_STRICT_FPS: "unset", "1" or "other"
  platform,  \* "x11" or "wayland", "none" before main has asked
  params,    \* Parameters
  sampling,  \* dwSamplingRateMs, -1 on wayland
  rate,      \* den of the codec's time base 1/den, and its framerate
  expiry     \* the video timer's frame_time

inputVars == <<argv, key>>
sessionVars == <<sampling, rate, expiry>>
vars == <<stage, inputVars, env, platform, params, sessionVars>>

NoParams ==
  [video_encoder |-> Empty, audio_encoder |-> Empty, frame_time |-> 0,
   sample_rate |-> 0, output_file |-> Empty, strict_frame_time |-> TRUE]

(* Times, rates and stages are in range: no rate the command line refuses  *)
(* reaches a session.                                                      *)
TypeOK ==
  /\ stage \in {"parse", "params", "env", "platform", "adjust", "session",
                "setup", "ready", "error", "help", "version", "terminated"}
  /\ argv \in CommandLines
  /\ key \in Keys
  /\ env \in {"unset", "1", "other"}
  /\ platform \in {"none", "x11", "wayland"}
  /\ params.frame_time \in 0 .. kNsPerSec \div 20
  /\ params.strict_frame_time \in BOOLEAN
  /\ params.sample_rate \in Nat /\ params.sample_rate <= 48000
  /\ sampling \in -1 .. 50
  /\ rate \in {0} \cup 20 .. 71
  /\ expiry \in 0 .. kNsPerSec \div 20

Init ==
  /\ stage = "parse"
  /\ argv \in CommandLines
  /\ key = <<>>
  /\ env = "unset"
  /\ platform = "none"
  /\ params = NoParams
  /\ sampling = -1 /\ rate = 0 /\ expiry = 0

(* parse_cmd_line throws: main reports it and returns 1.                   *)
Parse ==
  /\ stage = "parse"
  /\ stage' = IF parse_cmd_line(argv).ok THEN "params" ELSE "error"
  /\ UNCHANGED <<inputVars, env, platform, params, sessionVars>>

(* get_parameters up to the output file.                                   *)
GetParameters ==
  LET cmdline == parse_cmd_line(argv)
      Default(w, n) == [word |-> w, number |-> n]
  IN
  /\ stage = "params"
  /\ \/ /\ has_option(cmdline, "help")
        /\ stage' = "help"
        /\ UNCHANGED params
     \/ /\ ~has_option(cmdline, "help") /\ has_option(cmdline, "version")
        /\ stage' = "version"
        /\ UNCHANGED params
     \/ /\ ~has_option(cmdline, "help") /\ ~has_option(cmdline, "version")
        /\ params' =
             [video_encoder |->
                get_option_value(cmdline, "video_encoder",
                                 Default("hevc_nvenc", NoNumber)).word,
              audio_encoder |->
                get_option_value(cmdline, "audio_encoder",
                                 Default("libopus", NoNumber)).word,
              frame_time |->
                from_fps(get_option_value(cmdline, "frame_rate",
                                          Default("60", 60)).number),
              sample_rate |->
                get_option_value(cmdline, "sample_rate",
                                 Default("48000", 48000)).number,
              output_file |-> IF cmdline.args = <<>> THEN Empty
                              ELSE cmdline.args[1],
              strict_frame_time |-> TRUE]
        /\ stage' = IF cmdline.args = <<>> THEN "error" ELSE "env"
  /\ UNCHANGED <<inputVars, env, platform, sessionVars>>

(* read_env: when the variable is there, only "1" keeps the rate strict.   *)
ReadEnv ==
  /\ stage = "env"
  /\ stage' = "platform"
  /\ \E e \in {"unset", "1", "other"} :
       /\ env' = e
       /\ params' = [params EXCEPT !.strict_frame_time =
                        IF e = "unset" THEN @ ELSE e = "1"]
  /\ UNCHANGED <<inputVars, platform, sessionVars>>

(* wl_display_connect(nullptr).                                            *)
Connect ==
  /\ stage = "platform"
  /\ stage' = "adjust"
  /\ platform' \in {"x11", "wayland"}
  /\ UNCHANGED <<inputVars, env, params, sessionVars>>

(* Fault: the frame time is truncated on every platform.                   *)
AdjustAlways ==
  /\ stage = "adjust"
  /\ stage' = "session"
  /\ params' = [params EXCEPT !.frame_time = truncate_to_millisecond(@)]
  /\ UNCHANGED <<inputVars, env, platform, sessionVars>>

(* main: only run(), not run_wayland(), gets a truncated frame time.       *)
Adjust ==
  /\ stage = "adjust"
  /\ stage' = "session"
  /\ params' = [params EXCEPT !.frame_time =
                   IF platform = "x11" /\ ~params.strict_frame_time
                   THEN truncate_to_millisecond(@) ELSE @]
  /\ UNCHANGED <<inputVars, env, platform, sessionVars>>

(* run: create_nvfbc_session reads the key and takes the decoded one      *)
(* without asking whether there is one; without one, Result's operator*    *)
(* terminates.  Bound: keys other than none with one command line only.    *)
CreateSession ==
  /\ stage = "session" /\ platform = "x11"
  /\ \E k \in Keys :
       /\ argv # UsualLine \/ env # "unset" => k = <<>>
       /\ key' = k
       /\ stage' = IF base64_decode(k).ok THEN "setup" ELSE "terminated"
  /\ UNCHANGED <<argv, env, platform, params, sessionVars>>

(* run_wayland has no such session.                                        *)
NoSession ==
  /\ stage = "session" /\ platform = "wayland"
  /\ stage' = "setup"
  /\ UNCHANGED <<inputVars, env, platform, params, sessionVars>>

(* run and run_wayland set up the capture session, the video encoder and   *)
(* the contexts, whose video service registers FrameTimeRatio(1).          *)
Setup ==
  /\ stage = "setup"
  /\ stage' = "ready"
  /\ sampling' = IF platform = "x11"
                 THEN value_in_milliseconds(params.frame_time) ELSE -1
  /\ rate' = fps_ratio(params.frame_time)
  /\ expiry' = TimerExpiry(params.frame_time)
  /\ UNCHANGED <<inputVars, env, platform, params>>

Next ==
  \/ Parse \/ GetParameters \/ ReadEnv \/ Connect \/ Adjust \/ CreateSession
  \/ NoSession \/ Setup

Spec == Init /\ [][Next]_vars

-----------------------------------------------------------------------------

(* What the user asked for: the first -f of the command line, or 60.       *)
Requested ==
  LET rates == {i \in LookedAt(argv) \ Values(argv) :
                  argv[i].dashes = 1 /\ argv[i].key = "f"}
      first == argv[Min(rates)]
  IN IF rates = {} THEN 60
     ELSE IF first.rest.word # Empty THEN first.rest.number
     ELSE argv[Min(rates) + 1].number

(* A value may be attached to its option or follow it: the parser accepts  *)
(* both forms of every command line, or neither, and reads the same        *)
(* options and arguments from them.                                        *)
AttachedOrSeparate ==
  LET one == parse_cmd_line(argv)
      two == parse_cmd_line(Separated(argv))
  IN /\ one.ok = two.ok
     /\ one.options = two.options
     /\ one.args = two.args

(* A session only starts with a rate and a sample rate in the documented   *)
(* ranges, an encoder it knows (or none, which the padding of              *)
(* AcceptableValues lets through) and a place for the output, whatever     *)
(* options are repeated, clustered or swallowed as values.                 *)
StartsWithValidParameters ==
  platform # "none" =>
    /\ params.frame_time = from_fps(Requested) \/ stage # "adjust"
    /\ params.frame_time <= from_fps(20)
    /\ params.frame_time >= truncate_to_millisecond(from_fps(70))
    /\ 8000 <= params.sample_rate /\ params.sample_rate <= 48000
    /\ params.video_encoder \in {"h264_nvenc", "hevc_nvenc", Empty}
    /\ params.output_file # Empty

(* A frame lasts 1/rate seconds in the file and expiry ns on the clock.    *)
(* The file's rate is the capture rate rounded down to an integer: video   *)
(* never plays faster than it was captured, float rounding included, and   *)
(* loses less than one frame a second.                                     *)
RateWithinOne ==
  stage = "ready" =>
    /\ rate * expiry <= kNsPerSec + 2 * rate
    /\ (rate + 1) * expiry > kNsPerSec - 2 * rate

(* With a strict rate the file has exactly the rate of the command line,   *)
(* except for 29, 51 and 58, whose float quotient falls just short and     *)
(* which are declared one frame a second slower.                           *)
OutputHasRequestedRate ==
  stage = "ready" /\ (params.strict_frame_time \/ platform = "wayland") =>
    rate = IF Requested \in {29, 51, 58} THEN Requested - 1 ELSE Requested

(* NvFBC samples at the timer's interval to the nearest millisecond, and   *)
(* at exactly the timer's interval when the user gives up the strict rate. *)
SamplingTracksTimer ==
  stage = "ready" /\ platform = "x11" =>
    /\ sampling * kNsPerMs - params.frame_time <= kNsPerMs \div 2
    /\ params.frame_time - sampling * kNsPerMs < kNsPerMs \div 2
    /\ ~params.strict_frame_time => sampling * kNsPerMs = expiry

(* Without a strict rate the file has the rate NvFBC samples at, less its  *)
(* fraction: 62 for 60 frames a second, where doc/faq.md:22 says that the  *)
(* output's frame rate will be 62.5.  fps_ratio's truncation loses the     *)
(* half, and the file plays that much slower than it was captured; only    *)
(* the intervals that divide a second are declared exactly.                *)
OutputLosesFraction ==
  stage = "ready" /\ platform = "x11" /\ ~params.strict_frame_time =>
    rate = 1000 \div sampling

(* With a strict rate the timer is the requested rate to a few parts in    *)
(* ten million, on both platforms.                                         *)
TimerIsRequested ==
  stage = "ready" /\ (params.strict_frame_time \/ platform = "wayland") =>
    /\ expiry * Requested <= kNsPerSec + 2 * Requested
    /\ expiry * Requested >= kNsPerSec - 3 * Requested

(* A well-formed key is handed to NvFBC exactly as RFC 4648 decodes it,    *)
(* padded or not; one with a token from outside the alphabet or a single   *)
(* last token is refused, unless a '=' hides it.                           *)
KeyIsDecoded ==
  LET decoded == base64_decode(key) IN
  /\ WellFormed(key) => decoded = Bytes(Reference(key))
  /\ Pad \notin ToSet(key) =>
       decoded.ok = (Alien \notin ToSet(key) /\ Len(key) % 4 # 1)

(* Nothing but valid parameters reaches main's choice of a platform, and   *)
(* what is computed from them stays in range.                              *)
ParametersAreValid == TypeOK /\ StartsWithValidParameters

(* The clock, NvFBC and the output file agree on the rate that was asked   *)
(* for, the file to the next integer below it.                             *)
RatesAgree ==
  /\ RateWithinOne
  /\ OutputHasRequestedRate
  /\ OutputLosesFraction
  /\ SamplingTracksTimer
  /\ TimerIsRequested
=============================================================================
