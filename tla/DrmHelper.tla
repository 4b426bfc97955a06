------------------------------ MODULE DrmHelper ------------------------------
(***************************************************************************)
(* DRMVideoService (services/drm_video_service.cpp) and the privileged     *)
(* helper process it spawns (kms.cpp): the socket the helper connects to,  *)
(* one request and one reply per frame, Ctrl+C, the death of either        *)
(* process, teardown, and the next session, which uses the same path.      *)
(*                                                                         *)
(* Signals.  Both processes block SIGINT; a ppoll with a mask lets it in   *)
(* while it waits, and only then: a descriptor that is ready wins.  The    *)
(* helper has a handler for it, the service has none, so that a SIGINT let *)
(* in kills it.  A write to a socket whose other end is closed raises      *)
(* SIGPIPE, which nobody handles.                                          *)
(*                                                                         *)
(* The service's ppolls before the request and before the reply both wait  *)
(* for room to write, of which there always is: they neither wait nor time *)
(* out, and have no step.  Process::wait calls waitpid with WEXITED, which *)
(* is not an option of waitpid: it fails and nobody is waited for.  The    *)
(* helper's executable is taken to be there (see Session) and runnable.    *)
(***************************************************************************)
EXTENDS Naturals, Sequences, FiniteSets

CONSTANTS
  MaxSessions,          \* bound: sessions one after the other
  MaxFrames,            \* bound: frames requested in a session
  Planes,               \* numbers of planes with a framebuffer
  MaxPlaneDescriptors,  \* kMaxPlaneDescriptors
  MayDie                \* the service's process may be terminated elsewhere

Sessions == 1 .. MaxSessions

ASSUME ConstantsAssumption ==
  /\ MaxSessions \in Nat \ {0}
  /\ MaxFrames \in Nat
  /\ Planes \subseteq Nat
  /\ MaxPlaneDescriptors \in Nat
  /\ MayDie \in BOOLEAN

(* Helper s is the one session s has spawned; 0 is no helper.              *)
NoReply == [frame |-> 0, num_fds |-> 0]

VARIABLES
  session,  \* the current session
  svc,      \* where the service's process is
  sigint,   \* SIGINT in that process: "none", "pending" or "taken"
  path,     \* kSocketPath exists
  backlog,  \* helpers whose connection waits to be accepted
  pid,      \* drm_process_
  peer,     \* the helper at the other end of drm_socket_
  frame,    \* frames requested in this session
  got,      \* the frame that the reply in hand answers
  fds,      \* dma-bufs open in the service
  trailer,  \* the output has been finalised
  helper,   \* where each helper is
  hsig,     \* helpers with a SIGINT pending
  request,  \* request in each helper's socket, or 0
  serving,  \* request each helper is working on
  hfds,     \* dma-bufs open in each helper
  reply,    \* reply in each helper's socket
  killed    \* history: sessions killed while the path existed

connVars == <<path, backlog, pid, peer>>
frameVars == <<frame, got, fds>>
svcVars == <<session, svc, sigint, connVars, frameVars, trailer, killed>>
helperVars == <<helper, hsig, request, serving, hfds, reply>>
vars == <<svcVars, helperVars>>

Live == {"start", "accept", "tick", "recv", "frame", "poll", "uninit",
         "close", "finalize", "destroy"}
Connected == {"polling", "serving", "replying", "leaving"}

TypeOK ==
  /\ session \in Sessions
  /\ svc \in Live \cup {"gone", "killed"}
  /\ sigint \in {"none", "pending", "taken"}
  /\ path \in BOOLEAN /\ trailer \in BOOLEAN
  /\ backlog \in Seq(Sessions)
  /\ pid \in {0, session}
  /\ peer \in 0 .. session
  /\ frame \in 0 .. MaxFrames /\ got \in 0 .. MaxFrames
  /\ fds \in 0 .. MaxPlaneDescriptors
  /\ helper \in [Sessions -> {"none", "starting", "exited"} \cup Connected]
  /\ hsig \subseteq Sessions
  /\ request \in [Sessions -> 0 .. MaxFrames]
  /\ serving \in [Sessions -> 0 .. MaxFrames]
  /\ hfds \in [Sessions -> 0 .. MaxPlaneDescriptors]
  /\ reply \in [Sessions -> [frame : 0 .. MaxFrames,
                             num_fds : 0 .. MaxPlaneDescriptors]]
  /\ killed \subseteq Sessions

Init ==
  /\ session = 1
  /\ svc = "start"
  /\ sigint = "none"
  /\ path = FALSE
  /\ backlog = <<>>
  /\ pid = 0 /\ peer = 0
  /\ frame = 0 /\ got = 0 /\ fds = 0
  /\ trailer = FALSE
  /\ helper = [s \in Sessions |-> "none"]
  /\ hsig = {}
  /\ request = [s \in Sessions |-> 0]
  /\ serving = [s \in Sessions |-> 0]
  /\ hfds = [s \in Sessions |-> 0]
  /\ reply = [s \in Sessions |-> NoReply]
  /\ killed = {}

-----------------------------------------------------------------------------
(* The ends of a connection.                                               *)

HelperOpen(h) == helper[h] \in Connected
ServiceOpen(h) == h = peer \/ \E i \in DOMAIN backlog : backlog[i] = h

(* The process is gone: the kernel closes its sockets and dma-bufs, and    *)
(* nobody removes the path.                                                *)
Killed ==
  /\ svc' = "killed"
  /\ killed' = IF path THEN killed \cup {session} ELSE killed
  /\ backlog' = <<>> /\ pid' = 0 /\ peer' = 0
  /\ fds' = 0 /\ got' = 0
  /\ UNCHANGED <<session, path, frame, trailer>>

-----------------------------------------------------------------------------
(* on_init.                                                                *)

(* bind, listen and spawn_process.                                         *)
OnInit ==
  /\ svc = "start"
  /\ ~path
  /\ path' = TRUE
  /\ pid' = session
  /\ helper' = [helper EXCEPT ![session] = "starting"]
  /\ svc' = "accept"
  /\ UNCHANGED <<session, sigint, backlog, peer, frameVars, trailer, killed,
                 hsig, request, serving, hfds, reply>>

(* bind finds the path in use, or a step before the spawn fails; what was  *)
(* bound is unlinked.  on_uninit is not called for this service.           *)
OnInitThrows ==
  /\ svc = "start"
  /\ svc' = "finalize"
  /\ UNCHANGED <<session, sigint, connVars, frameVars, trailer, killed,
                 helperVars>>

(* AcceptHandler: the first connection.  The guard closes the listening    *)
(* socket and unlinks the path.                                            *)
Accept ==
  /\ svc = "accept"
  /\ backlog # <<>>
  /\ peer' = Head(backlog)
  /\ backlog' = <<>>
  /\ path' = FALSE
  /\ svc' = "tick"
  /\ UNCHANGED <<session, sigint, pid, frameVars, trailer, killed,
                 helperVars>>

(* Fault: a failing accept leaves the path behind.                         *)
AcceptLeavesPath ==
  /\ svc = "accept"
  /\ backlog = <<>>
  /\ svc' = "finalize"
  /\ UNCHANGED <<session, sigint, connVars, frameVars, trailer, killed,
                 helperVars>>

(* kDRMConnectTimeoutMs: on_init throws, through the same guard.           *)
AcceptTimesOut ==
  /\ svc = "accept"
  /\ backlog = <<>>
  /\ path' = FALSE
  /\ svc' = "finalize"
  /\ UNCHANGED <<session, sigint, backlog, pid, peer, frameVars, trailer,
                 killed, helperVars>>

(* SIGINT while ppoll waits with a mask of SIGCHLD only.                   *)
AcceptKilled ==
  /\ svc = "accept"
  /\ backlog = <<>>
  /\ sigint = "pending"
  /\ sigint' = "taken"
  /\ Killed
  /\ UNCHANGED helperVars

-----------------------------------------------------------------------------
(* The main context's loop.                                                *)

(* No frame is due: ppoll had returned for another descriptor.             *)
TickSkips ==
  /\ svc = "tick"
  /\ svc' = "poll"
  /\ UNCHANGED <<session, sigint, connVars, frameVars, trailer, killed,
                 helperVars>>

(* dispatch_frame, get_drm_data: the request.                              *)
SendRequest ==
  /\ svc = "tick"
  /\ frame < MaxFrames
  /\ HelperOpen(peer)
  /\ frame' = frame + 1
  /\ request' = [request EXCEPT ![peer] = frame + 1]
  /\ svc' = "recv"
  /\ UNCHANGED <<session, sigint, connVars, got, fds, trailer, killed,
                 helper, hsig, serving, hfds, reply>>

(* The helper is gone: sendmsg raises SIGPIPE.                             *)
SendKilled ==
  /\ svc = "tick"
  /\ frame < MaxFrames
  /\ ~HelperOpen(peer)
  /\ Killed
  /\ UNCHANGED <<sigint, helperVars>>

(* Faults: the wait for the reply times out and the frame is skipped; the  *)
(* end of the stream is not noticed.                                       *)
ReceiveEofOrTimeout ==
  /\ svc = "recv"
  /\ reply[peer] = NoReply
  /\ svc' = IF HelperOpen(peer) THEN "poll" ELSE "uninit"
  /\ UNCHANGED <<session, sigint, connVars, frameVars, trailer, killed,
                 helperVars>>
ReceiveNeverEof ==
  /\ svc = "recv"
  /\ reply[peer] = NoReply /\ ~HelperOpen(peer)
  /\ UNCHANGED vars

(* recvmsg waits for the whole reply and takes over its dma-bufs; without  *)
(* any the handler throws.                                                 *)
Receive ==
  /\ svc = "recv"
  /\ reply[peer] # NoReply
  /\ got' = reply[peer].frame
  /\ fds' = reply[peer].num_fds
  /\ reply' = [reply EXCEPT ![peer] = NoReply]
  /\ svc' = IF reply[peer].num_fds = 0 THEN "uninit" ELSE "frame"
  /\ UNCHANGED <<session, sigint, connVars, frame, trailer, killed,
                 helper, hsig, request, serving, hfds>>

(* The helper has closed its end: a short read, or a reset if it left the  *)
(* request unread.  Both are errors and leave the loop.                    *)
ReceiveEof ==
  /\ svc = "recv"
  /\ reply[peer] = NoReply
  /\ ~HelperOpen(peer)
  /\ svc' = "uninit"
  /\ UNCHANGED <<session, sigint, connVars, frameVars, trailer, killed,
                 helperVars>>

(* Fault: dma-bufs are closed only behind a frame that went well.          *)
FrameEndsLeaky ==
  /\ svc = "frame"
  /\ \/ svc' = "poll" /\ fds' = 0
     \/ svc' = "uninit" /\ fds' = fds
  /\ UNCHANGED <<session, sigint, connVars, frame, got, trailer, killed,
                 helperVars>>

(* The rest of dispatch_frame: it hands the frame over, or EGL, CUDA or    *)
(* the frame handler throws.  The guard closes the dma-bufs.               *)
FrameEnds ==
  /\ svc = "frame"
  /\ fds' = 0
  /\ svc' \in {"poll", "uninit"}
  /\ UNCHANGED <<session, sigint, connVars, frame, got, trailer, killed,
                 helperVars>>

(* The loop's ppoll and dispatch: a pending SIGINT is read and stops the   *)
(* context; another thread may have stopped it; or the next turn begins.   *)
Poll ==
  /\ svc = "poll"
  /\ IF sigint = "pending"
     THEN svc' = "uninit" /\ sigint' = "taken"
     ELSE svc' \in {"tick", "uninit"} /\ UNCHANGED sigint
  /\ UNCHANGED <<session, connVars, frameVars, trailer, killed, helperVars>>

-----------------------------------------------------------------------------
(* Teardown.                                                               *)

(* Process::terminate_and_wait: SIGINT, and no wait.                       *)
Terminated == IF pid = 0 THEN hsig ELSE hsig \cup {pid}

OnUninitTerminate ==
  /\ svc = "uninit"
  /\ hsig' = Terminated
  /\ pid' = 0
  /\ svc' = "close"
  /\ UNCHANGED <<session, sigint, path, backlog, peer, frameVars, trailer,
                 killed, helper, request, serving, hfds, reply>>

OnUninitClose ==
  /\ svc = "close"
  /\ peer' = 0
  /\ svc' = "finalize"
  /\ UNCHANGED <<session, sigint, path, backlog, pid, frameVars, trailer,
                 killed, helperVars>>

(* run_loop is left; run_wayland's guard writes the trailer.               *)
Finalize ==
  /\ svc = "finalize"
  /\ trailer' = TRUE
  /\ svc' = "destroy"
  /\ UNCHANGED <<session, sigint, connVars, frameVars, killed, helperVars>>

(* ~DRMVideoService: ~Process terminates a helper that on_init spawned     *)
(* before it threw.  Then the process exits.                               *)
Destroy ==
  /\ svc = "destroy"
  /\ hsig' = Terminated
  /\ pid' = 0
  /\ svc' = "gone"
  /\ UNCHANGED <<session, sigint, path, backlog, peer, frameVars, trailer,
                 killed, helper, request, serving, hfds, reply>>

-----------------------------------------------------------------------------
(* The helper's process.                                                   *)

(* app up to connect: no DRM device, no capability, or no listener at the  *)
(* path, and it exits.                                                     *)
HelperFails(h) ==
  /\ helper[h] = "starting"
  /\ helper' = [helper EXCEPT ![h] = "exited"]
  /\ UNCHANGED <<svcVars, hsig, request, serving, hfds, reply>>

HelperConnects(h) ==
  /\ helper[h] = "starting"
  /\ svc = "accept"
  /\ backlog' = Append(backlog, h)
  /\ helper' = [helper EXCEPT ![h] = "polling"]
  /\ UNCHANGED <<session, svc, sigint, path, pid, peer, frameVars, trailer,
                 killed, hsig, request, serving, hfds, reply>>

(* MessageReceiver: the request is there.  It is always kGetPlanes, the    *)
(* only one the service sends.                                             *)
HelperReads(h) ==
  /\ helper[h] = "polling"
  /\ request[h] # 0
  /\ serving' = [serving EXCEPT ![h] = request[h]]
  /\ request' = [request EXCEPT ![h] = 0]
  /\ helper' = [helper EXCEPT ![h] = "serving"]
  /\ UNCHANGED <<svcVars, hsig, hfds, reply>>

(* Fault: an empty read is taken for no request and the loop goes on.      *)
HelperIgnoresEof(h) == helper[h] = "polling" /\ UNCHANGED vars

(* The service has closed its end: a short read.                           *)
HelperEof(h) ==
  /\ helper[h] = "polling"
  /\ request[h] = 0
  /\ ~ServiceOpen(h)
  /\ helper' = [helper EXCEPT ![h] = "leaving"]
  /\ UNCHANGED <<svcVars, hsig, request, serving, hfds, reply>>

(* SIGINT while ppoll waits: EINTR.                                        *)
HelperInterrupted(h) ==
  /\ helper[h] = "polling"
  /\ request[h] = 0 /\ ServiceOpen(h)
  /\ h \in hsig
  /\ hsig' = hsig \ {h}
  /\ helper' = [helper EXCEPT ![h] = "leaving"]
  /\ UNCHANGED <<svcVars, request, serving, hfds, reply>>

(* get_fb's loop ends with the planes or with the descriptors.             *)
PlanesTaken(n) == IF n <= MaxPlaneDescriptors THEN n ELSE MaxPlaneDescriptors

(* get_fb: one dma-buf for each plane with a framebuffer.                  *)
HelperGrabs(h) ==
  /\ helper[h] = "serving"
  /\ \E n \in Planes : hfds' = [hfds EXCEPT ![h] = PlanesTaken(n)]
  /\ helper' = [helper EXCEPT ![h] = "replying"]
  /\ UNCHANGED <<svcVars, hsig, request, serving, reply>>

(* libdrm fails: the exception ends the process, dma-bufs and all.         *)
HelperThrows(h) ==
  /\ helper[h] = "serving"
  /\ helper' = [helper EXCEPT ![h] = "leaving"]
  /\ UNCHANGED <<svcVars, hsig, request, serving, hfds, reply>>

(* DRMResponseSender; the guard closes the helper's own dma-bufs.          *)
HelperReplies(h) ==
  /\ helper[h] = "replying"
  /\ ServiceOpen(h)
  /\ reply' = [reply EXCEPT ![h] = [frame |-> serving[h],
                                   num_fds |-> hfds[h]]]
  /\ hfds' = [hfds EXCEPT ![h] = 0]
  /\ helper' = [helper EXCEPT ![h] = "polling"]
  /\ UNCHANGED <<svcVars, hsig, request, serving>>

(* The service is gone: sendmsg raises SIGPIPE.                            *)
HelperKilled(h) ==
  /\ helper[h] = "replying"
  /\ ~ServiceOpen(h)
  /\ helper' = [helper EXCEPT ![h] = "exited"]
  /\ hfds' = [hfds EXCEPT ![h] = 0]
  /\ UNCHANGED <<svcVars, hsig, request, serving, reply>>

(* Out of app and main: the socket is closed, an unread request is lost.   *)
HelperExits(h) ==
  /\ helper[h] = "leaving"
  /\ helper' = [helper EXCEPT ![h] = "exited"]
  /\ request' = [request EXCEPT ![h] = 0]
  /\ UNCHANGED <<svcVars, hsig, serving, hfds, reply>>

-----------------------------------------------------------------------------
(* The environment.                                                        *)

(* Ctrl+C reaches the helper too, a SIGINT for the service alone does not. *)
Interrupt ==
  /\ svc \in Live
  /\ sigint = "none"
  /\ sigint' = "pending"
  /\ LET gone == {s \in Sessions : helper[s] \in {"none", "exited"}}
     IN  hsig' \in {hsig, hsig \cup ({session} \ gone)}
  /\ UNCHANGED <<session, svc, connVars, frameVars, trailer, killed,
                 helper, request, serving, hfds, reply>>

(* A failed contract check or an uncaught exception of another thread.     *)
Die ==
  /\ MayDie
  /\ svc \in Live
  /\ Killed
  /\ UNCHANGED <<sigint, helperVars>>

(* The program is started again.                                           *)
Restart ==
  /\ svc \in {"gone", "killed"}
  /\ session < MaxSessions
  /\ session' = session + 1
  /\ svc' = "start"
  /\ sigint' = "none"
  /\ frame' = 0 /\ got' = 0
  /\ trailer' = FALSE
  /\ UNCHANGED <<connVars, fds, killed, helperVars>>

-----------------------------------------------------------------------------

Service ==
  \/ OnInit \/ OnInitThrows
  \/ Accept \/ AcceptTimesOut \/ AcceptKilled
  \/ TickSkips \/ SendRequest \/ SendKilled \/ Receive \/ ReceiveEof
  \/ FrameEnds \/ Poll
  \/ OnUninitTerminate \/ OnUninitClose \/ Finalize \/ Destroy

Helper(h) ==
  \/ HelperFails(h) \/ HelperConnects(h)
  \/ HelperReads(h) \/ HelperEof(h) \/ HelperInterrupted(h)
  \/ HelperGrabs(h) \/ HelperThrows(h)
  \/ HelperReplies(h) \/ HelperKilled(h) \/ HelperExits(h)

Next ==
  \/ Service
  \/ \E h \in Sessions : Helper(h)
  \/ Interrupt \/ Die \/ Restart

(* Both processes are scheduled, and libdrm's calls return.                *)
Fairness ==
  /\ WF_vars(Service)
  /\ \A h \in Sessions : WF_vars(Helper(h))

Spec == Init /\ [][Next]_vars
FairSpec == Spec /\ Fairness

-----------------------------------------------------------------------------

(* The reply taken for a frame answers that frame's request: replies never *)
(* lag behind, whatever dies or is interrupted in between.                 *)
ReplyIsFresh == svc = "frame" => got = frame /\ fds > 0

(* Every dma-buf that a reply carries is closed in both processes, on      *)
(* every way out of dispatch_frame and of the helper's loop: none is open  *)
(* in a process that is between two frames.                                *)
BuffersAreClosed ==
  /\ svc # "frame" => fds = 0
  /\ \A h \in Sessions : helper[h] = "polling" => hfds[h] = 0

(* kSocketPath does not outlive on_init, so that the next session can bind *)
(* it, unless a session was killed while it waited for its helper.         *)
PathIsFreed == path => svc = "accept" \/ killed # {}

(* A SIGINT ends the session wherever the two processes are: the service   *)
(* never waits for a helper that is gone.                                  *)
SigintEndsSession == sigint = "pending" ~> svc \in {"gone", "killed"}

(* No helper is left behind: when the service has ended, in whatever way,  *)
(* its helper exits, though nobody waits for it, or it was late enough to  *)
(* be taken for the helper of the next session.                            *)
HelperEnds ==
  \A h \in Sessions :
    (svc \in {"gone", "killed"} /\ helper[h] # "none")
      ~> (helper[h] = "exited" \/ peer = h)

(* "Ctrl+C / SIGINT will stop the capture session and finalize the output  *)
(* media" (README.md).                                                     *)
CtrlCFinalizes == sigint = "pending" ~> trailer

(* A reply has at most as many dma-bufs as it can carry, and all of them   *)
(* are closed in both processes whenever nobody is using them.             *)
BuffersAccountedFor == TypeOK /\ BuffersAreClosed
=============================================================================
