--------------------------- MODULE DrmHelperProofs ---------------------------
(***************************************************************************)
(* Proofs about DrmHelper, for any number of sessions, frames, planes and  *)
(* descriptors, with helpers and services that die anywhere.               *)
(*                                                                         *)
(* ReplyIsFresh is about the one moment in which a reply is in hand.  What *)
(* carries it is that a connection holds at most one exchange: between two *)
(* frames every connection of the service is empty in both directions      *)
(* (ConnectionsAreIdle), and while the service waits the request is in     *)
(* exactly one place (OneExchange).  A helper that connects late, to the   *)
(* next session, has to be clean (FreshHelpersAreClean), and a service     *)
(* that is over must not leave a connection to the next (ConnectedInPlace).*)
(***************************************************************************)
EXTENDS DrmHelper, SequenceTheorems, TLAPS

InSession == {"tick", "recv", "frame", "poll", "uninit", "close"}

(* The service has a connection from accept to on_uninit, and a backlog    *)
(* only while it listens.                                                  *)
ConnectedInPlace ==
  /\ svc \in InSession => peer # 0
  /\ svc \notin InSession => peer = 0
  /\ svc # "accept" => backlog = <<>>
  /\ \A i \in DOMAIN backlog : backlog[i] <= session
  /\ svc \in {"start", "gone", "killed"} => pid = 0

(* Helpers that have not connected yet hold nothing, and exist only for    *)
(* sessions that have begun.                                               *)
FreshHelpersAreClean ==
  /\ \A h \in Sessions :
       helper[h] \in {"none", "starting"} =>
         request[h] = 0 /\ reply[h] = NoReply /\ hfds[h] = 0
  /\ \A h \in Sessions :
       session < h \/ (h = session /\ svc = "start") => helper[h] = "none"

(* Between two frames nothing is under way on the service's connections.   *)
ConnectionsAreIdle ==
  svc \in {"accept", "tick", "frame", "poll"} =>
    \A h \in Sessions : ServiceOpen(h) =>
      /\ request[h] = 0
      /\ reply[h] = NoReply
      /\ helper[h] \notin {"serving", "replying"}

(* While the service waits, its request is still unread, being served, or  *)
(* answered, or the helper is gone with it.                                *)
OneExchange ==
  svc = "recv" =>
    /\ frame > 0
    /\ request[peer] \in {0, frame}
    /\ helper[peer] \in {"serving", "replying"} =>
         serving[peer] = frame /\ request[peer] = 0 /\ reply[peer] = NoReply
    /\ reply[peer] # NoReply => reply[peer].frame = frame /\ request[peer] = 0

(* A helper that serves has not yet opened a dma-buf.                      *)
ClosedBeforeGrab ==
  \A h \in Sessions : helper[h] \in {"polling", "serving"} => hfds[h] = 0

(* TypeOK in two parts, one for each process.                              *)
ServiceType ==
  /\ session \in Sessions
  /\ svc \in Live \cup {"gone", "killed"}
  /\ sigint \in {"none", "pending", "taken"}
  /\ path \in BOOLEAN /\ trailer \in BOOLEAN
  /\ backlog \in Seq(Sessions)
  /\ pid \in {0, session}
  /\ peer \in 0 .. session
  /\ frame \in 0 .. MaxFrames /\ got \in 0 .. MaxFrames
  /\ fds \in 0 .. MaxPlaneDescriptors
  /\ killed \subseteq Sessions

HelperType ==
  /\ helper \in [Sessions -> {"none", "starting", "exited"} \cup Connected]
  /\ hsig \subseteq Sessions
  /\ request \in [Sessions -> 0 .. MaxFrames]
  /\ serving \in [Sessions -> 0 .. MaxFrames]
  /\ hfds \in [Sessions -> 0 .. MaxPlaneDescriptors]
  /\ reply \in [Sessions -> [frame : 0 .. MaxFrames,
                             num_fds : 0 .. MaxPlaneDescriptors]]

Inv ==
  /\ ServiceType
  /\ HelperType
  /\ BuffersAreClosed
  /\ ReplyIsFresh
  /\ PathIsFreed
  /\ ConnectedInPlace
  /\ FreshHelpersAreClean
  /\ ConnectionsAreIdle
  /\ OneExchange
  /\ ClosedBeforeGrab

(* The inductive invariant holds initially.                                *)
LEMMA InvInit == Init => Inv
<1> SUFFICES ASSUME Init PROVE Inv
  OBVIOUS
<1> USE ConstantsAssumption DEF Init, Sessions
<1>1. ServiceType
  <2>1. path \in BOOLEAN /\ trailer \in BOOLEAN
    OBVIOUS
  <2>2. backlog \in Seq(Sessions)
    OBVIOUS
  <2> QED
    BY <2>1, <2>2 DEF ServiceType, Live
<1>2. HelperType
  BY DEF HelperType, Connected, NoReply
<1>3. BuffersAreClosed /\ ReplyIsFresh /\ PathIsFreed /\ ClosedBeforeGrab
  BY DEF BuffersAreClosed, ReplyIsFresh, PathIsFreed, ClosedBeforeGrab
<1>4. ConnectedInPlace /\ FreshHelpersAreClean
  BY DEF ConnectedInPlace, FreshHelpersAreClean, InSession, NoReply
<1>5. ConnectionsAreIdle /\ OneExchange
  BY DEF ConnectionsAreIdle, OneExchange
<1> QED
  BY <1>1, <1>2, <1>3, <1>4, <1>5 DEF Inv

(* The first connection in the backlog is one of a session that has begun. *)
LEMMA FirstInBacklog ==
  ASSUME Inv, backlog # <<>>
  PROVE  /\ Head(backlog) = backlog[1]
         /\ backlog[1] \in 1 .. session
         /\ ServiceOpen(backlog[1])
<1>1. 1 \in DOMAIN backlog /\ Head(backlog) = backlog[1]
      /\ backlog[1] \in Sessions
  BY DEF Inv, ServiceType
<1> QED
  BY <1>1, ConstantsAssumption
     DEF Inv, ServiceType, ConnectedInPlace, Sessions, ServiceOpen

(* A connection joins the backlog behind those that wait.                  *)
LEMMA AppendedToBacklog ==
  ASSUME Inv, NEW h \in Sessions, backlog' = Append(backlog, h)
  PROVE  /\ backlog' \in Seq(Sessions)
         /\ \A i \in DOMAIN backlog' :
              \/ backlog'[i] = h
              \/ \E j \in DOMAIN backlog : backlog'[i] = backlog[j]
BY AppendProperties, LenProperties DEF Inv, ServiceType

(* get_fb never takes more planes than a reply has descriptors.            *)
LEMMA PlanesTakenFit ==
  \A n \in Planes : PlanesTaken(n) \in 0 .. MaxPlaneDescriptors
BY ConstantsAssumption DEF PlanesTaken

(* The death of the service preserves it, wherever it is.                  *)
LEMMA KilledPreserves ==
  ASSUME Inv, svc \in Live, Killed, UNCHANGED helperVars,
         sigint' \in {"none", "pending", "taken"}
  PROVE  Inv'
<1> USE ConstantsAssumption DEF Inv, Killed, Live, helperVars
<1>1. ServiceType'
  <2>1. path' \in BOOLEAN /\ trailer' \in BOOLEAN /\ killed' \subseteq Sessions
    BY DEF ServiceType
  <2>2. backlog' \in Seq(Sessions)
    OBVIOUS
  <2> QED
    BY <2>1, <2>2 DEF ServiceType, Sessions
<1>2. HelperType' /\ BuffersAreClosed' /\ ClosedBeforeGrab'
  BY DEF HelperType, BuffersAreClosed, ClosedBeforeGrab
<1>3. PathIsFreed' /\ ReplyIsFresh' /\ ConnectionsAreIdle' /\ OneExchange'
  BY DEF PathIsFreed, ReplyIsFresh, ConnectionsAreIdle, OneExchange
<1>4. ConnectedInPlace' /\ FreshHelpersAreClean'
  BY DEF ConnectedInPlace, InSession, FreshHelpersAreClean
<1> QED
  BY <1>1, <1>2, <1>3, <1>4

(* Steps of the service's process preserve it.                             *)
LEMMA ServicePreserves ==
  ASSUME Inv, Service
  PROVE  Inv'
<1> USE ConstantsAssumption
        DEF Inv, ServiceType, HelperType, BuffersAreClosed, ReplyIsFresh,
            PathIsFreed, ConnectedInPlace, FreshHelpersAreClean,
            ConnectionsAreIdle, OneExchange, ClosedBeforeGrab, InSession,
            Sessions, Live, Connected, NoReply, ServiceOpen, HelperOpen,
            connVars, frameVars, svcVars, helperVars
<1> 0 \in 0 .. MaxFrames /\ 0 \in 0 .. MaxPlaneDescriptors
  OBVIOUS
<1>1. CASE OnInit
  <2> USE <1>1 DEF OnInit
  <2>1. ServiceType' /\ HelperType'
    OBVIOUS
  <2>2. /\ BuffersAreClosed' /\ ReplyIsFresh'
        /\ PathIsFreed' /\ ConnectedInPlace'
    OBVIOUS
  <2>3. FreshHelpersAreClean'
    BY ONLY <1>1, ServiceType, HelperType, FreshHelpersAreClean
       DEF OnInit, ServiceType, HelperType, FreshHelpersAreClean, Sessions
  <2>4. ClosedBeforeGrab'
    OBVIOUS
  <2>5. ConnectionsAreIdle' /\ OneExchange'
    OBVIOUS
  <2> QED
    BY <2>1, <2>2, <2>3, <2>4, <2>5
<1>2. CASE OnInitThrows
  BY <1>2 DEF OnInitThrows
<1>3. CASE Accept
  <2> USE <1>3 DEF Accept
  <2>0. /\ Head(backlog) = backlog[1] /\ ServiceOpen(backlog[1])
        /\ backlog[1] \in 1 .. session
    BY FirstInBacklog
  <2>a. peer' = backlog[1] /\ peer' \in 1 .. session /\ backlog' = <<>>
    BY ONLY <1>3, <2>0 DEF Accept
  <2>p. peer' # 0 /\ peer' \in 0 .. session
    BY ONLY <2>a, session \in Nat
  <2>1. /\ HelperType' /\ BuffersAreClosed'
        /\ ReplyIsFresh' /\ PathIsFreed'
        /\ FreshHelpersAreClean' /\ ClosedBeforeGrab'
        /\ OneExchange'
    OBVIOUS
  <2>2. ServiceType'
    <3>1. /\ path' \in BOOLEAN /\ trailer' \in BOOLEAN
          /\ killed' \subseteq Sessions
      OBVIOUS
    <3>2. session' \in Sessions /\ backlog' \in Seq(Sessions)
      OBVIOUS
    <3>3. pid' \in {0, session'} /\ peer' \in 0 .. session'
      BY ONLY <1>3, <2>p, ServiceType DEF ServiceType, Accept
    <3> QED
      BY <3>1, <3>2, <3>3
  <2>3. ConnectedInPlace'
    BY ONLY <1>3, <2>p, <2>a, ConnectedInPlace
       DEF Accept, ConnectedInPlace, InSession
  <2>4. ConnectionsAreIdle'
    <3>1. \A g \in Sessions : ServiceOpen(g)' => ServiceOpen(g)
      BY ONLY <1>3, <2>0 DEF Accept, ServiceOpen
    <3> HIDE DEF ServiceOpen
    <3> QED
      BY <3>1
  <2> QED
    BY <2>1, <2>2, <2>3, <2>4
<1>4. CASE AcceptTimesOut
  BY <1>4 DEF AcceptTimesOut
<1>5. CASE AcceptKilled
  BY <1>5, KilledPreserves DEF AcceptKilled
<1>6. CASE TickSkips
  BY <1>6 DEF TickSkips
<1>7. CASE SendRequest
  <2> USE <1>7 DEF SendRequest
  <2> peer \in Sessions /\ frame + 1 \in 0 .. MaxFrames
    OBVIOUS
  <2>1. /\ ServiceType' /\ BuffersAreClosed'
        /\ ReplyIsFresh' /\ PathIsFreed'
        /\ ConnectedInPlace'
    OBVIOUS
  <2>2. FreshHelpersAreClean' /\ ClosedBeforeGrab' /\ ConnectionsAreIdle'
    OBVIOUS
  <2>3. OneExchange'
    OBVIOUS
  <2>4. HelperType'
    <3>1. request' \in [Sessions -> 0 .. MaxFrames]
      OBVIOUS
    <3>2. helper' \in
            [Sessions -> {"none", "starting", "exited"} \cup Connected]
      OBVIOUS
    <3> QED
      BY <3>1, <3>2
  <2> QED
    BY <2>1, <2>2, <2>3, <2>4
<1>8. CASE SendKilled
  BY <1>8, KilledPreserves DEF SendKilled
<1>9. CASE Receive
  <2> USE <1>9 DEF Receive
  <2> /\ peer \in Sessions
      /\ reply[peer] \in [frame : 0 .. MaxFrames,
                         num_fds : 0 .. MaxPlaneDescriptors]
    OBVIOUS
  <2>1. HelperType' /\ ConnectedInPlace'
    OBVIOUS
  <2>2. FreshHelpersAreClean' /\ ClosedBeforeGrab'
    OBVIOUS
  <2>3. ConnectionsAreIdle'
    OBVIOUS
  <2>4. OneExchange'
    OBVIOUS
  <2>5. ServiceType'
    <3>1. /\ path' \in BOOLEAN /\ trailer' \in BOOLEAN
          /\ killed' \subseteq Sessions
      OBVIOUS
    <3>2. session' \in Sessions /\ backlog' \in Seq(Sessions)
      OBVIOUS
    <3>3. pid' \in {0, session'} /\ peer' \in 0 .. session'
      OBVIOUS
    <3> QED
      BY <3>1, <3>2, <3>3
  <2>6. BuffersAreClosed' /\ ReplyIsFresh' /\ PathIsFreed'
    <3>1. BuffersAreClosed'
      OBVIOUS
    <3>2. ReplyIsFresh'
      OBVIOUS
    <3>3. PathIsFreed'
      OBVIOUS
    <3> QED
      BY <3>1, <3>2, <3>3
  <2> QED
    BY <2>1, <2>2, <2>3, <2>4, <2>5, <2>6
<1>10. CASE ReceiveEof
  BY <1>10 DEF ReceiveEof
<1>11. CASE FrameEnds
  BY <1>11 DEF FrameEnds
<1>12. CASE Poll
  BY <1>12 DEF Poll
<1>13. CASE OnUninitTerminate
  BY <1>13 DEF OnUninitTerminate, Terminated
<1>14. CASE OnUninitClose
  <2> USE <1>14 DEF OnUninitClose
  <2>1. ServiceType'
    OBVIOUS
  <2>2. /\ HelperType' /\ BuffersAreClosed'
        /\ ReplyIsFresh' /\ PathIsFreed'
        /\ ConnectedInPlace'
    OBVIOUS
  <2>3. /\ FreshHelpersAreClean' /\ ClosedBeforeGrab'
        /\ ConnectionsAreIdle' /\ OneExchange'
    OBVIOUS
  <2> QED
    BY <2>1, <2>2, <2>3
<1>15. CASE Finalize
  BY <1>15 DEF Finalize
<1>16. CASE Destroy
  BY <1>16 DEF Destroy, Terminated
<1> QED
  BY <1>1, <1>2, <1>3, <1>4, <1>5, <1>6, <1>7, <1>8, <1>9, <1>10, <1>11,
     <1>12, <1>13, <1>14, <1>15, <1>16 DEF Service

(* A step that is a helper's alone leaves the service's part as it was.    *)
LEMMA ServiceUntouched ==
  ASSUME Inv, UNCHANGED svcVars
  PROVE  /\ ServiceType' /\ PathIsFreed' /\ ConnectedInPlace' /\ ReplyIsFresh'
         /\ \A g : ServiceOpen(g)' <=> ServiceOpen(g)
<1> USE DEF Inv, svcVars, connVars, frameVars
<1>1. ServiceType'
  BY DEF ServiceType
<1>2. PathIsFreed' /\ ReplyIsFresh'
  BY DEF PathIsFreed, ReplyIsFresh
<1>3. ConnectedInPlace'
  BY DEF ConnectedInPlace
<1>4. \A g : ServiceOpen(g)' <=> ServiceOpen(g)
  BY DEF ServiceOpen
<1> QED
  BY <1>1, <1>2, <1>3, <1>4

(* While the service waits for a reply, it has a connection.               *)
LEMMA PeerWhileWaiting ==
  ASSUME Inv, svc = "recv"
  PROVE  peer \in Sessions /\ ServiceOpen(peer)
BY ConstantsAssumption
   DEF Inv, ServiceType, ConnectedInPlace, InSession, Sessions, ServiceOpen

(* Steps of a connected helper preserve it, be it the current session's or *)
(* an older one's.                                                         *)
LEMMA HelperPreserves ==
  ASSUME Inv, NEW h \in Sessions, Helper(h), ~HelperConnects(h)
  PROVE  Inv'
<1> USE ConstantsAssumption
        DEF Inv, HelperType, BuffersAreClosed, FreshHelpersAreClean,
            ConnectionsAreIdle, OneExchange, ClosedBeforeGrab, Connected,
            NoReply
<1>s. UNCHANGED svcVars
  BY DEF Helper, HelperFails, HelperReads, HelperEof, HelperInterrupted,
         HelperGrabs, HelperThrows, HelperReplies, HelperKilled, HelperExits
<1>a. /\ ServiceType' /\ PathIsFreed' /\ ConnectedInPlace' /\ ReplyIsFresh'
      /\ \A g : ServiceOpen(g)' <=> ServiceOpen(g)
  BY <1>s, ServiceUntouched
<1>b. svc = "recv" => peer \in Sessions /\ ServiceOpen(peer)
  BY PeerWhileWaiting
<1>c. 0 \in 0 .. MaxFrames /\ 0 \in 0 .. MaxPlaneDescriptors
  OBVIOUS
<1>d. UNCHANGED <<session, svc, peer, frame, fds>>
  BY <1>s DEF svcVars, connVars, frameVars
<1> USE <1>a, <1>b, <1>c, <1>d
<1>1. CASE HelperFails(h)
  <2> USE <1>1 DEF HelperFails
  <2>1. HelperType'
    OBVIOUS
  <2>2. BuffersAreClosed' /\ FreshHelpersAreClean' /\ ClosedBeforeGrab'
    OBVIOUS
  <2>3. ConnectionsAreIdle' /\ OneExchange'
    OBVIOUS
  <2> QED
    BY <2>1, <2>2, <2>3
<1>2. CASE HelperReads(h)
  <2> USE <1>2 DEF HelperReads
  <2>1. HelperType'
    OBVIOUS
  <2>2. BuffersAreClosed' /\ FreshHelpersAreClean' /\ ClosedBeforeGrab'
    OBVIOUS
  <2>3. ConnectionsAreIdle' /\ OneExchange'
    OBVIOUS
  <2> QED
    BY <2>1, <2>2, <2>3
<1>3. CASE HelperEof(h)
  <2> USE <1>3 DEF HelperEof
  <2>1. HelperType'
    OBVIOUS
  <2>2. BuffersAreClosed' /\ FreshHelpersAreClean' /\ ClosedBeforeGrab'
    OBVIOUS
  <2>3. ConnectionsAreIdle' /\ OneExchange'
    OBVIOUS
  <2> QED
    BY <2>1, <2>2, <2>3
<1>4. CASE HelperInterrupted(h)
  <2> USE <1>4 DEF HelperInterrupted
  <2>1. HelperType'
    OBVIOUS
  <2>2. BuffersAreClosed' /\ FreshHelpersAreClean' /\ ClosedBeforeGrab'
    OBVIOUS
  <2>3. ConnectionsAreIdle' /\ OneExchange'
    OBVIOUS
  <2> QED
    BY <2>1, <2>2, <2>3
<1>5. CASE HelperGrabs(h)
  <2> USE <1>5 DEF HelperGrabs
  <2>0. PICK n \in Planes : hfds' = [hfds EXCEPT ![h] = PlanesTaken(n)]
    OBVIOUS
  <2> PlanesTaken(n) \in 0 .. MaxPlaneDescriptors
    BY PlanesTakenFit
  <2>1. HelperType'
    <3>1. hfds' \in [Sessions -> 0 .. MaxPlaneDescriptors]
      BY <2>0
    <3> QED
      BY <3>1 DEF svcVars
  <2>2. BuffersAreClosed' /\ FreshHelpersAreClean' /\ ClosedBeforeGrab'
    OBVIOUS
  <2>3. ConnectionsAreIdle' /\ OneExchange'
    OBVIOUS
  <2> QED
    BY <2>1, <2>2, <2>3
<1>6. CASE HelperThrows(h)
  <2> USE <1>6 DEF HelperThrows
  <2>1. HelperType'
    OBVIOUS
  <2>2. BuffersAreClosed' /\ FreshHelpersAreClean' /\ ClosedBeforeGrab'
    OBVIOUS
  <2>3. ConnectionsAreIdle' /\ OneExchange'
    OBVIOUS
  <2> QED
    BY <2>1, <2>2, <2>3
<1>7. CASE HelperReplies(h)
  <2> USE <1>7 DEF HelperReplies
  <2> serving[h] \in 0 .. MaxFrames /\ hfds[h] \in 0 .. MaxPlaneDescriptors
    OBVIOUS
  <2>1. HelperType'
    OBVIOUS
  <2>2. BuffersAreClosed' /\ FreshHelpersAreClean' /\ ClosedBeforeGrab'
    OBVIOUS
  <2>3. ConnectionsAreIdle' /\ OneExchange'
    OBVIOUS
  <2> QED
    BY <2>1, <2>2, <2>3
<1>8. CASE HelperKilled(h)
  <2> USE <1>8 DEF HelperKilled
  <2>1. HelperType'
    OBVIOUS
  <2>2. BuffersAreClosed' /\ FreshHelpersAreClean' /\ ClosedBeforeGrab'
    OBVIOUS
  <2>3. ConnectionsAreIdle' /\ OneExchange'
    OBVIOUS
  <2> QED
    BY <2>1, <2>2, <2>3
<1>9. CASE HelperExits(h)
  <2> USE <1>9 DEF HelperExits
  <2>1. HelperType'
    OBVIOUS
  <2>2. BuffersAreClosed' /\ FreshHelpersAreClean' /\ ClosedBeforeGrab'
    OBVIOUS
  <2>3. ConnectionsAreIdle' /\ OneExchange'
    OBVIOUS
  <2> QED
    BY <2>1, <2>2, <2>3
<1> QED
  BY <1>1, <1>2, <1>3, <1>4, <1>5, <1>6, <1>7, <1>8, <1>9 DEF Helper

(* A helper connects, perhaps one of an earlier session.                   *)
LEMMA ConnectPreserves ==
  ASSUME Inv, NEW h \in Sessions, HelperConnects(h)
  PROVE  Inv'
<1> USE ConstantsAssumption DEF HelperConnects, frameVars
<1>1. /\ backlog' \in Seq(Sessions)
      /\ \A i \in DOMAIN backlog' :
           \/ backlog'[i] = h
           \/ \E j \in DOMAIN backlog : backlog'[i] = backlog[j]
  BY AppendedToBacklog
<1>2. h <= session
  BY DEF Inv, ServiceType, FreshHelpersAreClean, Sessions
<1>3. \A g \in Sessions : ServiceOpen(g)' => ServiceOpen(g) \/ g = h
  BY <1>1 DEF ServiceOpen
<1>4. ServiceType'
  BY <1>1 DEF Inv, ServiceType
<1>5. HelperType' /\ FreshHelpersAreClean' /\ ClosedBeforeGrab'
  BY DEF Inv, HelperType, FreshHelpersAreClean, ClosedBeforeGrab, Connected
<1>6. BuffersAreClosed' /\ ReplyIsFresh' /\ PathIsFreed' /\ OneExchange'
  BY DEF Inv, HelperType, BuffersAreClosed, ReplyIsFresh, PathIsFreed,
         OneExchange, FreshHelpersAreClean
<1>7. ConnectedInPlace'
  BY <1>1, <1>2 DEF Inv, ConnectedInPlace, InSession
<1>8. ConnectionsAreIdle'
  BY <1>3 DEF Inv, HelperType, ConnectionsAreIdle, FreshHelpersAreClean
<1> QED
  BY <1>4, <1>5, <1>6, <1>7, <1>8 DEF Inv

(* Every step preserves the inductive invariant.                           *)
LEMMA InvStep == Inv /\ [Next]_vars => Inv'
<1> SUFFICES ASSUME Inv, [Next]_vars PROVE Inv'
  OBVIOUS
<1> USE ConstantsAssumption
        DEF Inv, ServiceType, HelperType, BuffersAreClosed, ReplyIsFresh,
            PathIsFreed, ConnectedInPlace, FreshHelpersAreClean,
            ConnectionsAreIdle, OneExchange, ClosedBeforeGrab, InSession,
            Sessions, Live, Connected, NoReply, ServiceOpen, HelperOpen,
            connVars, frameVars, svcVars, helperVars
<1> 0 \in 0 .. MaxFrames /\ 0 \in 0 .. MaxPlaneDescriptors
  OBVIOUS
<1>1. CASE Service
  BY <1>1, ServicePreserves
<1>2. CASE \E h \in Sessions : Helper(h)
  BY <1>2, HelperPreserves, ConnectPreserves
<1>3. CASE Interrupt
  <2> USE <1>3 DEF Interrupt
  <2>1. ServiceType' /\ HelperType'
    OBVIOUS
  <2>2. /\ BuffersAreClosed' /\ ReplyIsFresh'
        /\ PathIsFreed' /\ ConnectedInPlace'
    OBVIOUS
  <2>3. /\ FreshHelpersAreClean' /\ ClosedBeforeGrab'
        /\ ConnectionsAreIdle' /\ OneExchange'
    OBVIOUS
  <2> QED
    BY <2>1, <2>2, <2>3
<1>4. CASE Die
  BY <1>4, KilledPreserves DEF Die
<1>5. CASE Restart
  <2> USE <1>5 DEF Restart
  <2>1. HelperType' /\ BuffersAreClosed' /\ ReplyIsFresh' /\ PathIsFreed'
    OBVIOUS
  <2>2. FreshHelpersAreClean' /\ ClosedBeforeGrab' /\ ConnectionsAreIdle'
    OBVIOUS
  <2>3. OneExchange'
    OBVIOUS
  <2>4. ServiceType'
    <3>1. /\ path' \in BOOLEAN /\ trailer' \in BOOLEAN
          /\ killed' \subseteq Sessions
      OBVIOUS
    <3>2. session' \in Sessions /\ backlog' \in Seq(Sessions)
      OBVIOUS
    <3>3. pid' \in {0, session'} /\ peer' \in 0 .. session'
      OBVIOUS
    <3> QED
      BY <3>1, <3>2, <3>3
  <2>5. ConnectedInPlace'
    <3>1. backlog = <<>> /\ peer = 0 /\ pid = 0
      OBVIOUS
    <3> QED
      BY <3>1
  <2> QED
    BY <2>1, <2>2, <2>3, <2>4, <2>5
<1>6. CASE UNCHANGED vars
  <2> USE <1>6 DEF vars
  <2>1. ServiceType' /\ HelperType'
    OBVIOUS
  <2>2. /\ BuffersAreClosed' /\ ReplyIsFresh'
        /\ PathIsFreed' /\ ConnectedInPlace'
    OBVIOUS
  <2>3. /\ FreshHelpersAreClean' /\ ClosedBeforeGrab'
        /\ ConnectionsAreIdle' /\ OneExchange'
    OBVIOUS
  <2> QED
    BY <2>1, <2>2, <2>3
<1> QED
  BY <1>1, <1>2, <1>3, <1>4, <1>5, <1>6 DEF Next

-----------------------------------------------------------------------------

(* The inductive invariant holds in every state of every session.          *)
THEOREM InvHolds == Spec => []Inv
BY InvInit, InvStep, PTL DEF Spec

(* No dma-buf stays open in the service behind dispatch_frame or in the    *)
(* helper behind its reply, and no reply has more of them than it can      *)
(* carry, however many planes there are and whoever dies on the way.       *)
THEOREM BuffersDoNotPileUp == Spec => []BuffersAccountedFor
<1>1. Inv => TypeOK
  BY DEF Inv, ServiceType, HelperType, TypeOK
<1>2. Inv => BuffersAccountedFor
  BY <1>1 DEF Inv, BuffersAccountedFor
<1> QED
  BY <1>2, InvHolds, PTL

(* The descriptors that dispatch_frame uses answer the request it has just *)
(* sent, though neither side numbers its messages: also with a helper that *)
(* connects a session late.                                                *)
THEOREM RepliesAreFresh == Spec => []ReplyIsFresh
<1>1. Inv => ReplyIsFresh
  BY DEF Inv
<1> QED
  BY <1>1, InvHolds, PTL

(* The socket path is left behind only by a service that was killed while  *)
(* it waited for its helper.                                               *)
THEOREM PathsAreFreed == Spec => []PathIsFreed
<1>1. Inv => PathIsFreed
  BY DEF Inv
<1> QED
  BY <1>1, InvHolds, PTL
=============================================================================
