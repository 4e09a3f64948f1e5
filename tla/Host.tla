-------------------------------- MODULE Host ---------------------------------
(***************************************************************************)
(* The host as a whole: the accept loop and its one-permit semaphore       *)
(* (endpoint.rs), one task per connection (conn.rs), the session of the    *)
(* task that holds the permit (HostSession) and the media threads it       *)
(* spawns.  Peers are arbitrary: they send any frame, malformed bytes, an  *)
(* oversized length, a reset, or vanish.                                   *)
(*                                                                         *)
(* A task is between two awaits in every state of this module; each action *)
(* is what it does from one await to the next.                             *)
(***************************************************************************)
EXTENDS HostSession, FiniteSets

CONSTANTS
  Conns,     \* the connections that may arrive
  Primary,   \* the primary stream, cfg.streams[0]
  Extras     \* the streams beyond it

Streams == {Primary} \cup Extras

ASSUME HostAssumption ==
  /\ Primary \notin Extras
  /\ HasExtras = (Extras # {})

VARIABLES
  conn,      \* the QUIC connection: none, handshake, open, closed
  task,      \* the connection's task: where it waits
  permits,   \* the semaphore of accept_loop
  media,     \* per connection and stream: none, opening, running, stopped
  notice     \* the ERROR frame: none, queued (written, not transmitted), sent

hostVars == <<conn, task, permits, media, notice>>
allVars == <<vars, hostVars>>

ConnStates == {"none", "handshake", "open", "closed"}
MediaStates == {"none", "opening", "running", "stopped"}

\* The tasks whose session has been made, those that hold the permit, all.
Serving == {"reading", "driving", "badFrame", "badFrameClose", "joining"}
InSession == {"acceptBi"} \cup Serving
Waits == {"none", "handshake", "busyBi", "busyWrite", "busyClose", "done"} \cup InSession

HostInit ==
  /\ Init
  /\ conn = [c \in Conns |-> "none"]
  /\ task = [c \in Conns |-> "none"]
  /\ permits = 1
  /\ media = [c \in Conns |-> [s \in Streams |-> "none"]]
  /\ notice = [c \in Conns |-> "none"]

Goto(c, from, to) == task[c] = from /\ task' = [task EXCEPT ![c] = to]
Closes(c) == conn' = [conn EXCEPT ![c] = "closed"]
Writes(c) == conn[c] = "open" /\ notice' = [notice EXCEPT ![c] = "queued"]

-----------------------------------------------------------------------------
(* The network and the peer.                                               *)

PeerVanishes(c) ==
  /\ conn[c] = "open"
  /\ Closes(c)
  /\ UNCHANGED <<vars, task, permits, media, notice>>

Transmit(c) ==
  /\ conn[c] = "open" /\ notice[c] = "queued"
  /\ notice' = [notice EXCEPT ![c] = "sent"]
  /\ UNCHANGED <<vars, conn, task, permits, media>>

-----------------------------------------------------------------------------
(* handle: the QUIC handshake, then the single-session gate.               *)

Arrives(c) ==
  /\ conn[c] = "none"
  /\ Goto(c, "none", "handshake")
  /\ conn' = [conn EXCEPT ![c] = "handshake"]
  /\ UNCHANGED <<vars, permits, media, notice>>

HandshakeFails(c) ==
  /\ Goto(c, "handshake", "done")
  /\ Closes(c)
  /\ UNCHANGED <<vars, permits, media, notice>>

Admit(c) ==
  /\ Goto(c, "handshake", "acceptBi")
  /\ permits > 0 /\ permits' = permits - 1
  /\ conn' = [conn EXCEPT ![c] = "open"]
  /\ UNCHANGED <<vars, media, notice>>

Reject(c) ==
  /\ Goto(c, "handshake", "busyBi")
  /\ permits = 0
  /\ conn' = [conn EXCEPT ![c] = "open"]
  /\ UNCHANGED <<vars, permits, media, notice>>

(* reject_busy.                                                            *)
BusyStreamOpened(c) ==
  /\ Goto(c, "busyBi", "busyWrite")
  /\ UNCHANGED <<vars, conn, permits, media, notice>>

BusyWrites(c) ==
  /\ Goto(c, "busyWrite", "busyClose")
  /\ Writes(c)
  /\ UNCHANGED <<vars, conn, permits, media>>

\* accept_bi or the write failed: only the close is left to do.
BusyFails(c) ==
  /\ \/ conn[c] = "closed" /\ Goto(c, "busyBi", "busyClose")
     \/ Goto(c, "busyWrite", "busyClose")
  /\ UNCHANGED <<vars, conn, permits, media, notice>>

BusyCloses(c) ==
  /\ Goto(c, "busyClose", "done")
  /\ Closes(c)
  /\ UNCHANGED <<vars, permits, media, notice>>

-----------------------------------------------------------------------------
(* session_loop.                                                           *)

(* The peer opened the control stream, maybe before it vanished: a fresh   *)
(* HostSession.                                                            *)
StreamOpened(c) ==
  /\ Goto(c, "acceptBi", "reading")
  /\ NewSession
  /\ UNCHANGED <<conn, permits, media, notice>>

AcceptFails(c) ==
  /\ conn[c] = "closed"
  /\ Goto(c, "acceptBi", "joining")
  /\ UNCHANGED <<vars, conn, permits, media, notice>>

(* A frame that decodes; it may have been buffered before the connection   *)
(* closed.                                                                 *)
FrameRead(c) ==
  /\ Goto(c, "reading", "driving")
  /\ \E m \in Messages : OnFrame(m)
  /\ UNCHANGED <<conn, permits, media, notice>>

(* Framing or CBOR the session never sees.                                 *)
BadFrameRead(c) ==
  /\ Goto(c, "reading", "badFrame")
  /\ UNCHANGED <<vars, conn, permits, media, notice>>

BadFrameWrites(c) ==
  /\ Goto(c, "badFrame", "badFrameClose")
  /\ Writes(c)
  /\ UNCHANGED <<vars, conn, permits, media>>

BadFrameCloses(c) ==
  /\ Goto(c, "badFrameClose", "joining")
  /\ Closes(c)
  /\ UNCHANGED <<vars, permits, media, notice>>

(* The peer finished its side at a frame boundary.                         *)
EndOfStream(c) ==
  /\ Goto(c, "reading", "joining")
  /\ Closes(c)
  /\ UNCHANGED <<vars, permits, media, notice>>

(* A length over the limit, a stream reset or finished inside a frame: the *)
(* error leaves session_loop through `?`, nothing is closed.               *)
ReadErrs(c) ==
  /\ Goto(c, "reading", "joining")
  /\ conn[c] = "open"
  /\ UNCHANGED <<vars, conn, permits, media, notice>>

(* Reading on a closed connection, what was buffered being consumed.       *)
ReadFails(c) ==
  /\ Goto(c, "reading", "joining")
  /\ conn[c] = "closed"
  /\ UNCHANGED <<vars, conn, permits, media, notice>>

(* A write fails on a closed connection, or because the peer stopped the   *)
(* stream: the error leaves drive, or the bad-frame arm, the same way.     *)
WriteFails(c) ==
  /\ \/ Goto(c, "driving", "joining") /\ out # <<>> /\ Head(out).kind \in {"Send", "ClockPong"}
     \/ Goto(c, "badFrame", "joining")
  /\ out' = <<>>
  /\ UNCHANGED <<sessionVars, conn, permits, media, notice>>

-----------------------------------------------------------------------------
(* drive: the outputs one by one.                                          *)

Driving(c, kinds) == task[c] = "driving" /\ out # <<>> /\ Head(out).kind \in kinds

DriveWrite(c) ==
  /\ Driving(c, {"Send", "ClockPong"})
  /\ conn[c] = "open"
  /\ IF Head(out).kind = "Send" /\ Head(out).msg = "ERROR"
     THEN Writes(c) ELSE UNCHANGED notice
  /\ out' = Tail(out)
  /\ UNCHANGED <<sessionVars, conn, task, permits, media>>

StartedAll(multi) == Streams   \* faulty: negotiated or not

Started(multi) == IF multi THEN Streams ELSE {Primary}

DriveStartMedia(c) ==
  /\ Driving(c, {"StartMedia"})
  /\ media' = [media EXCEPT ![c] =
                 [s \in Streams |-> IF s \in Started(Head(out).multi) THEN "opening" ELSE @[s]]]
  /\ out' = Tail(out)
  /\ UNCHANGED <<sessionVars, conn, task, permits, notice>>

(* Requests to the media threads and the statistics log change nothing     *)
(* here: their effect is MediaThread's.                                    *)
DriveQuietly(c) ==
  /\ Driving(c, {"RequestIdr", "Reconfigure", "Stats"})
  /\ out' = Tail(out)
  /\ UNCHANGED <<sessionVars, hostVars>>

DriveClose(c) ==
  /\ Driving(c, {"Close"})
  /\ Goto(c, "driving", "joining")
  /\ Closes(c)
  /\ out' = <<>>
  /\ UNCHANGED <<sessionVars, permits, media, notice>>

DriveDone(c) ==
  /\ out = <<>>
  /\ Goto(c, "driving", IF state = "Closed" THEN "joining" ELSE "reading")
  /\ UNCHANGED <<vars, conn, permits, media, notice>>

-----------------------------------------------------------------------------
(* run_session joins the media threads, handle drops the permit and, with  *)
(* the last handle, the connection.                                        *)

Idle(c) == \A s \in Streams : media[c][s] \in {"none", "stopped"}

\* Faulty: the threads are detached instead of joined.
JoinNothing(c) ==
  /\ Goto(c, "joining", "done")
  /\ permits' = permits + 1
  /\ Closes(c)
  /\ UNCHANGED <<vars, media, notice>>

\* Faulty: the permit is not given back.
JoinLeaking(c) ==
  /\ Idle(c)
  /\ Goto(c, "joining", "done")
  /\ Closes(c)
  /\ UNCHANGED <<vars, permits, media, notice>>

Join(c) ==
  /\ Idle(c)
  /\ Goto(c, "joining", "done")
  /\ permits' = permits + 1
  /\ Closes(c)
  /\ UNCHANGED <<vars, media, notice>>

(* The media threads, as MediaThread details them.                         *)
MediaStep(c, s, from, to) ==
  /\ media[c][s] \in from
  /\ media' = [media EXCEPT ![c][s] = to]
  /\ UNCHANGED <<vars, conn, task, permits, notice>>

MediaOpens(c, s) == MediaStep(c, s, {"opening"}, "running")
MediaFails(c, s) == MediaStep(c, s, {"opening", "running"}, "stopped")

\* Faulty: the thread looks at the connection before its first frame only.
MediaSeesCloseAtStart(c, s) == conn[c] = "closed" /\ MediaStep(c, s, {"opening"}, "stopped")

MediaSeesClose(c, s) == conn[c] = "closed" /\ MediaStep(c, s, {"running"}, "stopped")

-----------------------------------------------------------------------------
Gate(c) ==
  Arrives(c) \/ HandshakeFails(c) \/ Admit(c) \/ Reject(c)
Busy(c) ==
  BusyStreamOpened(c) \/ BusyWrites(c) \/ BusyFails(c) \/ BusyCloses(c)
Read(c) ==
  \/ StreamOpened(c) \/ AcceptFails(c) \/ FrameRead(c)
  \/ BadFrameRead(c) \/ BadFrameWrites(c) \/ BadFrameCloses(c)
  \/ EndOfStream(c) \/ ReadErrs(c) \/ ReadFails(c) \/ WriteFails(c)
Drive(c) ==
  DriveWrite(c) \/ DriveStartMedia(c) \/ DriveQuietly(c) \/ DriveClose(c) \/ DriveDone(c)
Media(c) ==
  \E s \in Streams : MediaOpens(c, s) \/ MediaFails(c, s) \/ MediaSeesClose(c, s)

HostNext ==
  \E c \in Conns :
    \/ PeerVanishes(c) \/ Transmit(c)
    \/ Gate(c) \/ Busy(c) \/ Read(c) \/ Drive(c) \/ Join(c) \/ Media(c)

(* tokio polls a task that can go on, and an await on a closed connection  *)
(* returns; the system runs the threads, and their opens return (not so a  *)
(* portal's picker dialog).  What was buffered before a close is finite,   *)
(* so reads in the end fail.  Nothing is assumed of a peer.                *)
TaskFairness(c) ==
  /\ WF_allVars(AcceptFails(c)) /\ SF_allVars(ReadFails(c))
  /\ WF_allVars(conn[c] = "closed" /\ WriteFails(c))
  /\ WF_allVars(BadFrameCloses(c)) /\ WF_allVars(Join(c))
  /\ WF_allVars(DriveStartMedia(c) \/ DriveQuietly(c) \/ DriveClose(c) \/ DriveDone(c))

ThreadFairness(c, s) ==
  /\ WF_allVars(media[c][s] = "opening" /\ (MediaOpens(c, s) \/ MediaFails(c, s)))
  /\ WF_allVars(MediaSeesClose(c, s))

Fairness ==
  \A c \in Conns : TaskFairness(c) /\ \A s \in Streams : ThreadFairness(c, s)

HostSpec == HostInit /\ [][HostNext]_allVars /\ Fairness

-----------------------------------------------------------------------------
(* Properties.                                                             *)

HostTypeOK ==
  /\ TypeOK
  /\ conn \in [Conns -> ConnStates]
  /\ task \in [Conns -> Waits]
  /\ permits \in 0 .. 1
  /\ media \in [Conns -> [Streams -> MediaStates]]
  /\ notice \in [Conns -> {"none", "queued", "sent"}]

(* The permit is free or held by exactly one task: no two sessions at a    *)
(* time, and no permit lost on any of the ways out of a session.           *)
Holders == {c \in Conns : task[c] \in InSession}

OneSession ==
  /\ permits = 1 => Holders = {}
  /\ permits = 0 => \E c \in Conns : Holders = {c}

(* A media thread lives only while its own connection holds the permit: a  *)
(* session never starts while an encoder of the one before is still open.  *)
Alive(c) == \E s \in Streams : media[c][s] \in {"opening", "running"}

MediaWithinSession == \A c \in Conns : Alive(c) => task[c] \in Serving

(* Each stream gets at most one thread, the extra streams only when they   *)
(* were negotiated, and none before the client acknowledged the CONFIG.    *)
MediaAsNegotiated ==
  \A c \in Conns : task[c] \in Serving =>
    /\ \A s \in Streams : media[c][s] # "none" =>
         state \in {"Streaming", "Closed"} /\ (s \in Extras => multiActive)
    /\ \A i \in 1 .. Len(out) : out[i].kind = "StartMedia" =>
         \A s \in Streams : media[c][s] = "none"
    /\ task[c] = "reading" /\ state = "Streaming" => media[c][Primary] # "none"

(* Once its connection is closed a session ends and gives the slot back,   *)
(* whatever it was doing.                                                  *)
SlotFreed ==
  \A c \in Conns : conn[c] = "closed" /\ task[c] \in InSession ~> task[c] = "done"

(* run_session's comment on the join: "The connection is closed by now, so *)
(* the media threads stop promptly."                                       *)
ClosedWhenJoining ==
  \A c \in Conns : task[c] = "joining" /\ Alive(c) => conn[c] = "closed"

(* Output::Close: "Flush pending sends, then close the QUIC connection".   *)
CloseFlushes ==
  [][\A c \in Conns :
       Driving(c, {"Close"}) /\ task'[c] = "joining" /\ conn[c] = "open"
         => notice[c] # "queued"]_allVars
=============================================================================
