----------------------------- MODULE HostProofs -------------------------------
(***************************************************************************)
(* The single-session gate for any number of connections and any set of    *)
(* streams.                                                                *)
(*                                                                         *)
(* OneSession and the range of the permit counter are proved together: the *)
(* counter stays below 2 because the task that gives the permit back is    *)
(* the one holder there is.                                                *)
(***************************************************************************)
EXTENDS Host, HostSessionProofs

-----------------------------------------------------------------------------
(* The session inside a task.                                              *)

(* A driver that consumes, drops or starts anew keeps the session typed.   *)
LEMMA DriverTypeOK ==
  ASSUME TypeOK,
         \/ NewSession
         \/ UNCHANGED sessionVars /\ (out' = <<>> \/ (out # <<>> /\ out' = Tail(out)))
         \/ UNCHANGED vars
  PROVE  TypeOK'
<1>1. CASE NewSession
  <2>1. InitSize \in Size
    BY HostSessionAssumption DEF Size
  <2>2. 0 \in Nat /\ FALSE \in BOOLEAN /\ <<>> \in Seq(Outputs)
    BY OutputTypes
  <2> QED
    BY <1>1, <2>1, <2>2 DEF NewSession, TypeOK, States, NoGen
<1>2. CASE UNCHANGED sessionVars /\ (out' = <<>> \/ (out # <<>> /\ out' = Tail(out)))
  <2>1. out' \in Seq(Outputs)
    <3>1. CASE out' = <<>>
      BY <3>1
    <3>2. CASE out # <<>> /\ out' = Tail(out)
      BY <3>2 DEF TypeOK
    <3> QED
      BY <1>2, <3>1, <3>2
  <2> QED
    BY <1>2, <2>1 DEF TypeOK, sessionVars
<1>3. CASE UNCHANGED vars
  BY <1>3 DEF TypeOK, vars, sessionVars
<1> QED
  BY <1>1, <1>2, <1>3

(* Whatever the step, the session inside it is handled as one of these.    *)
LEMMA HostStepTypeOK ==
  ASSUME TypeOK, HostNext
  PROVE  TypeOK'
<1> PICK c \in Conns :
      \/ PeerVanishes(c) \/ Transmit(c)
      \/ Gate(c) \/ Busy(c) \/ Read(c) \/ Drive(c) \/ Join(c) \/ Media(c)
  BY DEF HostNext
<1>1. CASE FrameRead(c)
  BY <1>1, FrameStepTypeOK DEF FrameRead
<1>2. CASE StreamOpened(c)
  BY <1>2, DriverTypeOK DEF StreamOpened
<1>3. CASE WriteFails(c) \/ DriveClose(c)
  BY <1>3, DriverTypeOK DEF WriteFails, DriveClose
<1>4. CASE DriveWrite(c) \/ DriveStartMedia(c) \/ DriveQuietly(c)
  BY <1>4, DriverTypeOK DEF DriveWrite, DriveStartMedia, DriveQuietly, Driving
<1>5. CASE DriveDone(c) \/ Join(c) \/ Media(c) \/ PeerVanishes(c) \/ Transmit(c)
           \/ Gate(c) \/ Busy(c)
  <2>1. UNCHANGED vars
    BY <1>5 DEF DriveDone, Join, Media, MediaOpens, MediaFails, MediaSeesClose, MediaStep,
                PeerVanishes, Transmit, Gate, Arrives, HandshakeFails, Admit, Reject,
                Busy, BusyStreamOpened, BusyWrites, BusyFails, BusyCloses
  <2> QED
    BY <2>1, DriverTypeOK
<1>6. CASE AcceptFails(c) \/ BadFrameRead(c) \/ BadFrameWrites(c) \/ BadFrameCloses(c)
           \/ EndOfStream(c) \/ ReadErrs(c) \/ ReadFails(c)
  <2>1. UNCHANGED vars
    BY <1>6 DEF AcceptFails, BadFrameRead, BadFrameWrites, BadFrameCloses, EndOfStream,
                ReadErrs, ReadFails
  <2> QED
    BY <2>1, DriverTypeOK
<1> QED
  BY <1>1, <1>2, <1>3, <1>4, <1>5, <1>6 DEF Read, Drive

-----------------------------------------------------------------------------
(* The permit and its holder.                                              *)

(* The moves of tasks: what a step does to `task` and to the permit.       *)
TaskStays == task' = task /\ permits' = permits
TaskMoves(c) ==
  /\ permits' = permits
  /\ \E to \in Waits :
       /\ task' = [task EXCEPT ![c] = to]
       /\ task[c] \in InSession <=> to \in InSession
       /\ task[c] \in Serving => to \in Serving
       /\ to \in Serving => task[c] \in InSession
TaskAdmitted(c) ==
  /\ task[c] = "handshake" /\ task' = [task EXCEPT ![c] = "acceptBi"]
  /\ permits = 1 /\ permits' = 0
TaskJoins(c) ==
  /\ task[c] = "joining" /\ task' = [task EXCEPT ![c] = "done"]
  /\ permits' = permits + 1
  /\ Idle(c)

(* Every step moves at most one task, takes the permit at the gate only    *)
(* and gives it back after the join only.                                  *)
LEMMA TaskSteps ==
  ASSUME HostTypeOK, [HostNext]_allVars
  PROVE  TaskStays \/ \E c \in Conns : TaskMoves(c) \/ TaskAdmitted(c) \/ TaskJoins(c)
<1>1. CASE UNCHANGED allVars
  BY <1>1 DEF allVars, hostVars, TaskStays
<1>2. ASSUME NEW c \in Conns, NEW from, NEW to \in Waits, Goto(c, from, to), permits' = permits,
             from \in InSession <=> to \in InSession,
             from \in Serving => to \in Serving,
             to \in Serving => from \in InSession
      PROVE  TaskMoves(c)
  BY <1>2 DEF Goto, TaskMoves
<1>3. CASE HostNext
  <2> PICK c \in Conns :
        \/ PeerVanishes(c) \/ Transmit(c)
        \/ Gate(c) \/ Busy(c) \/ Read(c) \/ Drive(c) \/ Join(c) \/ Media(c)
    BY <1>3 DEF HostNext
  <2> USE DEF Waits, InSession, Serving
  <2>1. CASE PeerVanishes(c) \/ Transmit(c) \/ Media(c) \/ DriveWrite(c) \/ DriveStartMedia(c)
             \/ DriveQuietly(c)
    BY <2>1 DEF PeerVanishes, Transmit, Media, MediaOpens, MediaFails, MediaSeesClose, MediaStep,
                DriveWrite, DriveStartMedia, DriveQuietly, hostVars, TaskStays
  <2>2. CASE Arrives(c) \/ HandshakeFails(c) \/ Reject(c)
    BY <1>2, <2>2 DEF Arrives, HandshakeFails, Reject
  <2>3. CASE Admit(c)
    <3>1. permits \in 0 .. 1
      BY DEF HostTypeOK
    <3>2. permits = 1 /\ permits' = 0
      BY <2>3, <3>1 DEF Admit
    <3> QED
      BY <2>3, <3>2 DEF Admit, Goto, TaskAdmitted
  <2>4. CASE Busy(c)
    BY <1>2, <2>4 DEF Busy, BusyStreamOpened, BusyWrites, BusyFails, BusyCloses
  <2>5. CASE Read(c)
    <3>1. CASE StreamOpened(c) \/ AcceptFails(c) \/ FrameRead(c)
      BY <1>2, <3>1 DEF StreamOpened, AcceptFails, FrameRead
    <3>2. CASE BadFrameRead(c) \/ BadFrameWrites(c) \/ BadFrameCloses(c)
      BY <1>2, <3>2 DEF BadFrameRead, BadFrameWrites, BadFrameCloses
    <3>3. CASE EndOfStream(c) \/ ReadErrs(c) \/ ReadFails(c) \/ WriteFails(c)
      BY <1>2, <3>3 DEF EndOfStream, ReadErrs, ReadFails, WriteFails
    <3> QED
      BY <2>5, <3>1, <3>2, <3>3 DEF Read
  <2>6. CASE DriveClose(c)
    BY <1>2, <2>6 DEF DriveClose
  <2>7. CASE DriveDone(c)
    BY <1>2, <2>7 DEF DriveDone
  <2>8. CASE Join(c)
    BY <2>8 DEF Join, Goto, TaskJoins
  <2> QED
    BY <2>1, <2>2, <2>3, <2>4, <2>5, <2>6, <2>7, <2>8 DEF Gate, Drive
<1> QED
  BY <1>1, <1>3

(* The gate's invariant is preserved.                                      *)
LEMMA GateStep ==
  ASSUME HostTypeOK, OneSession, [HostNext]_allVars
  PROVE  OneSession' /\ permits' \in 0 .. 1 /\ task' \in [Conns -> Waits]
<1> USE DEF OneSession, Holders
<1>0. task \in [Conns -> Waits] /\ permits \in 0 .. 1
  BY DEF HostTypeOK
<1>1. CASE TaskStays
  BY <1>0, <1>1 DEF TaskStays
<1>2. ASSUME NEW c \in Conns, TaskMoves(c)
      PROVE  OneSession' /\ permits' \in 0 .. 1 /\ task' \in [Conns -> Waits]
  <2>1. Holders' = Holders
    BY <1>0, <1>2 DEF TaskMoves
  <2>2. task' \in [Conns -> Waits] /\ permits' = permits
    BY <1>0, <1>2 DEF TaskMoves
  <2> QED
    BY <1>0, <2>1, <2>2
<1>3. ASSUME NEW c \in Conns, TaskAdmitted(c)
      PROVE  OneSession' /\ permits' \in 0 .. 1 /\ task' \in [Conns -> Waits]
  <2>1. Holders = {}
    BY <1>3 DEF TaskAdmitted
  <2>2. Holders' = {c}
    BY <1>0, <1>3, <2>1 DEF TaskAdmitted, InSession
  <2>3. task' \in [Conns -> Waits] /\ permits' = 0
    BY <1>0, <1>3 DEF TaskAdmitted, Waits, InSession
  <2> QED
    BY <2>2, <2>3
<1>4. ASSUME NEW c \in Conns, TaskJoins(c)
      PROVE  OneSession' /\ permits' \in 0 .. 1 /\ task' \in [Conns -> Waits]
  <2>1. c \in Holders
    BY <1>4 DEF TaskJoins, InSession, Serving
  \* The permit was taken, by this task.
  <2>2. permits = 0 /\ Holders = {c}
    BY <1>0, <2>1
  <2>3. Holders' = {}
    BY <1>0, <1>4, <2>2 DEF TaskJoins, InSession, Serving
  <2>4. task' \in [Conns -> Waits] /\ permits' = 1
    BY <1>0, <1>4, <2>2 DEF TaskJoins, Waits
  <2> QED
    BY <2>3, <2>4
<1> QED
  BY <1>1, <1>2, <1>3, <1>4, TaskSteps

-----------------------------------------------------------------------------
(* The connections, the media threads and the notices.                     *)

(* A step gives a connection one of its states and a notice one of its.    *)
LEMMA ConnStep ==
  ASSUME HostTypeOK, [HostNext]_allVars
  PROVE  conn' \in [Conns -> ConnStates] /\ notice' \in [Conns -> {"none", "queued", "sent"}]
<1> DEFINE Notices == {"none", "queued", "sent"}
<1>0. conn \in [Conns -> ConnStates] /\ notice \in [Conns -> Notices]
  BY DEF HostTypeOK
<1>1. CASE UNCHANGED allVars
  BY <1>0, <1>1 DEF allVars, hostVars
<1>2. ASSUME NEW c \in Conns, conn' = conn \/ Closes(c) \/ conn' = [conn EXCEPT ![c] = "open"]
                               \/ conn' = [conn EXCEPT ![c] = "handshake"]
      PROVE  conn' \in [Conns -> ConnStates]
  BY <1>0, <1>2 DEF Closes, ConnStates
<1>3. ASSUME NEW c \in Conns, notice' = notice \/ Writes(c) \/ notice' = [notice EXCEPT ![c] = "sent"]
      PROVE  notice' \in [Conns -> Notices]
  BY <1>0, <1>3 DEF Writes
<1>4. CASE HostNext
  <2> PICK c \in Conns :
        \/ PeerVanishes(c) \/ Transmit(c)
        \/ Gate(c) \/ Busy(c) \/ Read(c) \/ Drive(c) \/ Join(c) \/ Media(c)
    BY <1>4 DEF HostNext
  <2>1. conn' = conn \/ Closes(c) \/ conn' = [conn EXCEPT ![c] = "open"]
          \/ conn' = [conn EXCEPT ![c] = "handshake"]
    BY DEF PeerVanishes, Transmit, Gate, Arrives, HandshakeFails, Admit, Reject, Busy,
           BusyStreamOpened, BusyWrites, BusyFails, BusyCloses, Read, StreamOpened, AcceptFails,
           FrameRead, BadFrameRead, BadFrameWrites, BadFrameCloses, EndOfStream, ReadErrs,
           ReadFails, WriteFails, Drive, DriveWrite, DriveStartMedia, DriveQuietly, DriveClose,
           DriveDone, Join, Media, MediaOpens, MediaFails, MediaSeesClose, MediaStep, hostVars
  <2>2. notice' = notice \/ Writes(c) \/ notice' = [notice EXCEPT ![c] = "sent"]
    BY DEF PeerVanishes, Transmit, Gate, Arrives, HandshakeFails, Admit, Reject, Busy,
           BusyStreamOpened, BusyWrites, BusyFails, BusyCloses, Read, StreamOpened, AcceptFails,
           FrameRead, BadFrameRead, BadFrameWrites, BadFrameCloses, EndOfStream, ReadErrs,
           ReadFails, WriteFails, Drive, DriveWrite, DriveStartMedia, DriveQuietly, DriveClose,
           DriveDone, Join, Media, MediaOpens, MediaFails, MediaSeesClose, MediaStep, hostVars
  <2> QED
    BY <1>2, <1>3, <2>1, <2>2
<1> QED
  BY <1>1, <1>4

(* A media thread is born in a driven StartMedia, and moves only while     *)
(* alive.                                                                  *)
LEMMA MediaSteps ==
  ASSUME HostTypeOK, [HostNext]_allVars
  PROVE  \/ UNCHANGED media
         \/ \E c \in Conns : DriveStartMedia(c)
         \/ \E c \in Conns, s \in Streams, to \in {"running", "stopped"} :
              /\ media[c][s] \in {"opening", "running"}
              /\ media' = [media EXCEPT ![c][s] = to]
              /\ UNCHANGED <<vars, task>>
<1>1. CASE UNCHANGED allVars
  BY <1>1 DEF allVars, hostVars
<1>2. CASE HostNext
  <2> PICK c \in Conns :
        \/ PeerVanishes(c) \/ Transmit(c)
        \/ Gate(c) \/ Busy(c) \/ Read(c) \/ Drive(c) \/ Join(c) \/ Media(c)
    BY <1>2 DEF HostNext
  <2>1. CASE Media(c)
    BY <2>1 DEF Media, MediaOpens, MediaFails, MediaSeesClose, MediaStep
  <2>2. CASE DriveStartMedia(c)
    BY <2>2
  <2>3. CASE ~Media(c) /\ ~DriveStartMedia(c)
    BY <2>3 DEF PeerVanishes, Transmit, Gate, Arrives, HandshakeFails, Admit, Reject, Busy,
           BusyStreamOpened, BusyWrites, BusyFails, BusyCloses, Read, StreamOpened, AcceptFails,
           FrameRead, BadFrameRead, BadFrameWrites, BadFrameCloses, EndOfStream, ReadErrs,
           ReadFails, WriteFails, Drive, DriveWrite, DriveQuietly, DriveClose,
           DriveDone, Join, hostVars
  <2> QED
    BY <2>1, <2>2, <2>3
<1> QED
  BY <1>1, <1>2

(* So the threads' states stay in their range.                             *)
LEMMA MediaType ==
  ASSUME HostTypeOK, [HostNext]_allVars
  PROVE  media' \in [Conns -> [Streams -> MediaStates]]
<1>0. media \in [Conns -> [Streams -> MediaStates]]
  BY DEF HostTypeOK
<1>1. CASE UNCHANGED media
  BY <1>0, <1>1
<1>2. ASSUME NEW c \in Conns, DriveStartMedia(c)
      PROVE  media' \in [Conns -> [Streams -> MediaStates]]
  BY <1>0, <1>2 DEF DriveStartMedia, MediaStates
<1>3. ASSUME NEW c \in Conns, NEW s \in Streams, NEW to \in {"running", "stopped"},
             media' = [media EXCEPT ![c][s] = to]
      PROVE  media' \in [Conns -> [Streams -> MediaStates]]
  BY <1>0, <1>3 DEF MediaStates
<1> QED
  BY <1>1, <1>2, <1>3, MediaSteps

-----------------------------------------------------------------------------
(* The theorems.                                                           *)

GateInv == HostTypeOK /\ OneSession

(* The type invariant and the gate hold initially and are preserved.       *)
LEMMA GateInductive == HostSpec => []GateInv
<1>1. HostInit => GateInv
  <2> SUFFICES ASSUME HostInit PROVE GateInv
    OBVIOUS
  <2>1. TypeOK
    BY InitTypeOK DEF HostInit
  <2>2. HostTypeOK
    BY <2>1 DEF HostInit, HostTypeOK, ConnStates, Waits, MediaStates
  <2>3. Holders = {}
    BY DEF HostInit, Holders, InSession, Serving
  <2> QED
    BY <2>2, <2>3 DEF HostInit, GateInv, OneSession
<1>2. GateInv /\ [HostNext]_allVars => GateInv'
  <2> SUFFICES ASSUME GateInv, [HostNext]_allVars PROVE GateInv'
    OBVIOUS
  <2>1. TypeOK'
    <3>1. TypeOK
      BY DEF GateInv, HostTypeOK
    <3>2. CASE UNCHANGED allVars
      BY <3>1, <3>2, DriverTypeOK DEF allVars
    <3> QED
      BY <3>1, <3>2, HostStepTypeOK
  <2>2. OneSession' /\ permits' \in 0 .. 1 /\ task' \in [Conns -> Waits]
    BY GateStep DEF GateInv
  <2>3. /\ conn' \in [Conns -> ConnStates] /\ notice' \in [Conns -> {"none", "queued", "sent"}]
        /\ media' \in [Conns -> [Streams -> MediaStates]]
    BY ConnStep, MediaType DEF GateInv
  <2> QED
    BY <2>1, <2>2, <2>3 DEF GateInv, HostTypeOK
<1> QED
  BY <1>1, <1>2, PTL DEF HostSpec

(* The host's state is well typed for ever.                                *)
THEOREM HostTypeCorrect == HostSpec => []HostTypeOK
<1>1. GateInv => HostTypeOK
  BY DEF GateInv
<1> QED
  BY GateInductive, <1>1, PTL

(* One session at a time, and no permit lost: handle takes the permit at   *)
(* the gate and run_session's caller gives it back on every way out.       *)
THEOREM OneSessionCorrect == HostSpec => []OneSession
<1>1. GateInv => OneSession
  BY DEF GateInv
<1> QED
  BY GateInductive, <1>1, PTL

(* run_session joins the threads before handle drops the permit: no media  *)
(* thread of a session is alive once another may start.                    *)
THEOREM MediaWithinSessionCorrect == HostSpec => []MediaWithinSession
<1>1. HostInit => MediaWithinSession
  BY DEF HostInit, MediaWithinSession, Alive
<1>2. HostTypeOK /\ MediaWithinSession /\ [HostNext]_allVars => MediaWithinSession'
  <2> SUFFICES ASSUME HostTypeOK, MediaWithinSession, [HostNext]_allVars,
                      NEW d \in Conns, Alive(d)'
               PROVE  task'[d] \in Serving
    BY DEF MediaWithinSession
  <2>0. /\ task \in [Conns -> Waits] /\ task' \in [Conns -> Waits]
        /\ media \in [Conns -> [Streams -> MediaStates]]
    <3>1. task \in [Conns -> Waits]
      BY DEF HostTypeOK
    <3>2. TaskStays \/ \E c \in Conns : TaskMoves(c) \/ TaskAdmitted(c) \/ TaskJoins(c)
      BY TaskSteps
    <3>3. "acceptBi" \in Waits /\ "done" \in Waits
      BY DEF Waits, InSession
    <3> QED
      BY <3>1, <3>2, <3>3 DEF HostTypeOK, TaskStays, TaskMoves, TaskAdmitted, TaskJoins
  <2>1. Alive(d) \/ (task[d] = "driving" /\ task' = task)
    <3>1. CASE UNCHANGED media
      <4>1. Alive(d)
        BY <3>1 DEF Alive
      <4> QED
        BY <4>1
    <3>2. ASSUME NEW c \in Conns, DriveStartMedia(c)
          PROVE  Alive(d) \/ (task[d] = "driving" /\ task' = task)
      <4>1. CASE d = c
        BY <3>2, <4>1 DEF DriveStartMedia, Driving
      <4>2. CASE d # c
        <5>1. media'[d] = media[d]
          BY <2>0, <3>2, <4>2 DEF DriveStartMedia
        <5>2. Alive(d)
          BY <5>1 DEF Alive
        <5> QED
          BY <5>2
      <4> QED
        BY <4>1, <4>2
    <3>3. ASSUME NEW c \in Conns, NEW s \in Streams, NEW to \in {"running", "stopped"},
                 media[c][s] \in {"opening", "running"},
                 media' = [media EXCEPT ![c][s] = to]
          PROVE  Alive(d)
      <4>1. CASE d = c
        BY <3>3, <4>1 DEF Alive
      <4>2. CASE d # c
        <5>1. media'[d] = media[d]
          BY <2>0, <3>3, <4>2
        <5> QED
          BY <5>1 DEF Alive
      <4> QED
        BY <4>1, <4>2
    <3> QED
      BY <3>1, <3>2, <3>3, MediaSteps
  <2>2. CASE task[d] = "driving" /\ task' = task
    BY <2>2 DEF Serving
  <2>3. CASE Alive(d)
    <3>1. task[d] \in Serving
      BY <2>3 DEF MediaWithinSession
    <3>2. CASE TaskStays
      BY <3>1, <3>2 DEF TaskStays
    <3>3. ASSUME NEW c \in Conns, TaskMoves(c) PROVE task'[d] \in Serving
      BY <2>0, <3>1, <3>3 DEF TaskMoves
    <3>4. ASSUME NEW c \in Conns, TaskAdmitted(c) PROVE task'[d] \in Serving
      BY <2>0, <3>1, <3>4 DEF TaskAdmitted, Serving
    <3>5. ASSUME NEW c \in Conns, TaskJoins(c) PROVE task'[d] \in Serving
      \* The task that is done had no thread alive.
      BY <2>0, <2>3, <3>1, <3>5 DEF TaskJoins, Idle, Alive
    <3> QED
      BY <3>2, <3>3, <3>4, <3>5, TaskSteps
  <2> QED
    BY <2>1, <2>2, <2>3
<1> QED
  BY HostTypeCorrect, <1>1, <1>2, PTL DEF HostSpec

-----------------------------------------------------------------------------
(* Media as negotiated.                                                    *)
(*                                                                         *)
(* The session and the threads are tied by three facts that hold between   *)
(* awaits: a StartMedia still to be driven is the last output of a session *)
(* that has just begun to stream (OutInv), the threads it will start do    *)
(* not exist yet, and a streaming session either has its primary thread or *)
(* has that StartMedia before it (Negotiated).                             *)

Fresh(c) == \A s \in Streams : media[c][s] = "none"
Starts(i) == out[i].kind = "StartMedia"

OutInv ==
  \A i \in 1 .. Len(out) : Starts(i) =>
    i = Len(out) /\ out[i].multi = multiActive /\ state = "Streaming"

Negotiated(c) ==
  /\ task[c] \notin Serving \cup {"done"} => Fresh(c)
  /\ task[c] \in Serving =>
       /\ \A s \in Streams : media[c][s] # "none" =>
            state \in {"Streaming", "Closed"} /\ (s \in Extras => multiActive)
       /\ \A i \in 1 .. Len(out) : Starts(i) => Fresh(c)
       /\ task[c] = "reading" /\ state = "Streaming" => media[c][Primary] # "none"
       /\ task[c] = "driving" /\ state = "Streaming" =>
            media[c][Primary] # "none" \/ \E i \in 1 .. Len(out) : Starts(i)

NegotiationInv == OutInv /\ \A c \in Conns : Negotiated(c)

StepOf(c) ==
  \/ PeerVanishes(c) \/ Transmit(c)
  \/ Gate(c) \/ Busy(c) \/ Read(c) \/ Drive(c) \/ Join(c) \/ Media(c)

(* What one frame does to the phase: streaming is entered with the first   *)
(* ACK only, together with StartMedia, and the negotiation is then over.   *)
LEMMA FrameStreaming ==
  ASSUME NEW m \in Messages, OnFrame(m)
  PROVE  /\ state \in {"Streaming", "Closed"} =>
              state' \in {"Streaming", "Closed"} /\ multiActive' = multiActive
         /\ OutInv'
         /\ \A i \in 1 .. Len(out') : Starts(i)' => state = "WaitConfigAck"
         /\ state' = "Streaming" /\ state # "Streaming" =>
              \E i \in 1 .. Len(out') : Starts(i)'
<1> USE DEF OutInv, Starts
<1>1. CASE AcceptConfigAck(m)
  BY <1>1 DEF AcceptConfigAck, Dispatched, Send, StartMedia
<1>2. ASSUME ~AcceptConfigAck(m) PROVE \A i \in 1 .. Len(out') : out'[i].kind # "StartMedia"
  <2>1. ASSUME NEW code, Fatal(code) PROVE \A i \in 1 .. Len(out') : out'[i].kind # "StartMedia"
    BY <2>1 DEF Fatal, SendError, Close
  <2>2. CASE RefuseHello(m) \/ RefuseConfigAck(m) \/ RefuseReconfigAck(m) \/ RefuseStreaming(m)
    BY <2>1, <2>2 DEF RefuseHello, RefuseConfigAck, RefuseReconfigAck, RefuseStreaming,
                      ProtocolViolation
  <2>3. CASE OnBye(m) \/ OnClockPing(m) \/ OnStats(m) \/ OnIdrRequest(m)
    BY <2>3 DEF OnBye, Close, OnClockPing, OnStats, OnIdrRequest, Answer, ClockPong, Stats,
                RequestIdr
  <2>4. CASE Unheeded(m) \/ OnInput(m) \/ IgnoreViewport(m)
    BY <2>4 DEF Unheeded, OnInput, IgnoreViewport, Answer
  <2>5. CASE AcceptHello(m)
    BY <2>5 DEF AcceptHello, SendWelcome, SendConfig
  <2>6. CASE AcceptViewport(m) \/ AcceptReconfigAck(m)
    BY <2>6 DEF AcceptViewport, SendConfig, AcceptReconfigAck, Reconfigure
  <2> QED
    BY <1>2, <2>2, <2>3, <2>4, <2>5, <2>6 DEF OnFrame
<1>3. CASE ~AcceptConfigAck(m)
  <2>1. /\ state \in {"Streaming", "Closed"} =>
              state' \in {"Streaming", "Closed"} /\ multiActive' = multiActive
        /\ ~(state' = "Streaming" /\ state # "Streaming")
    BY <1>3 DEF OnFrame, Unheeded, OnBye, OnClockPing, RefuseHello, AcceptHello, RefuseConfigAck,
                OnIdrRequest, OnStats, OnInput, IgnoreViewport, AcceptViewport, AcceptReconfigAck,
                RefuseReconfigAck, RefuseStreaming, Answer, Fatal, ProtocolViolation, Dispatched,
                Heeded, sessionVars
  <2> QED
    BY <1>2, <1>3, <2>1
<1> QED
  BY <1>1, <1>3

(* A step of one connection leaves the others' tasks and threads alone,    *)
(* and the session too unless it is that connection's.                     *)
LEMMA Locality ==
  ASSUME HostTypeOK, NEW c \in Conns, StepOf(c), NEW d \in Conns, d # c
  PROVE  /\ task'[d] = task[d] /\ media'[d] = media[d]
         /\ task[c] \in InSession \/ UNCHANGED vars
<1>0. task \in [Conns -> Waits] /\ media \in [Conns -> [Streams -> MediaStates]]
  BY DEF HostTypeOK
<1>1. task'[d] = task[d] /\ media'[d] = media[d]
  BY <1>0 DEF StepOf, PeerVanishes, Transmit, Gate, Arrives, HandshakeFails, Admit, Reject, Busy,
       BusyStreamOpened, BusyWrites, BusyFails, BusyCloses, Read, StreamOpened, AcceptFails,
       FrameRead, BadFrameRead, BadFrameWrites, BadFrameCloses, EndOfStream, ReadErrs,
       ReadFails, WriteFails, Drive, DriveWrite, DriveStartMedia, DriveQuietly, DriveClose,
       DriveDone, Join, Media, MediaOpens, MediaFails, MediaSeesClose, MediaStep, Goto, hostVars
<1>2. task[c] \in InSession \/ UNCHANGED vars
  BY DEF StepOf, PeerVanishes, Transmit, Gate, Arrives, HandshakeFails, Admit, Reject, Busy,
       BusyStreamOpened, BusyWrites, BusyFails, BusyCloses, Read, StreamOpened, AcceptFails,
       FrameRead, BadFrameRead, BadFrameWrites, BadFrameCloses, EndOfStream, ReadErrs,
       ReadFails, WriteFails, Drive, DriveWrite, DriveStartMedia, DriveQuietly, DriveClose,
       DriveDone, Driving, Join, Media, MediaOpens, MediaFails, MediaSeesClose, MediaStep, Goto,
       InSession, Serving
<1> QED
  BY <1>1, <1>2

(* So it keeps what holds of the others: a second session does not exist.  *)
LEMMA OthersNegotiated ==
  ASSUME GateInv, NEW c \in Conns, StepOf(c), NEW d \in Conns, d # c, Negotiated(d)
  PROVE  Negotiated(d)'
<1>1. /\ task'[d] = task[d] /\ media'[d] = media[d]
      /\ task[c] \in InSession \/ UNCHANGED vars
  BY Locality DEF GateInv
<1>2. CASE task[c] \in InSession
  <2>1. task[d] \notin Serving
    BY <1>2 DEF GateInv, HostTypeOK, OneSession, Holders, InSession
  <2> QED
    BY <1>1, <2>1 DEF Negotiated, Fresh
<1>3. CASE UNCHANGED vars
  BY <1>1, <1>3 DEF Negotiated, Fresh, Starts, vars, sessionVars
<1> QED
  BY <1>1, <1>2, <1>3

(* The connection's own step, when no session is involved.                 *)
LEMMA IdleStepNegotiated ==
  ASSUME HostTypeOK, OutInv, NEW c \in Conns, Negotiated(c),
         UNCHANGED vars, media'[c] = media[c],
         \/ task'[c] = task[c]
         \/ task[c] \notin Serving /\ task'[c] \notin Serving
         \/ task[c] = "acceptBi" /\ task'[c] = "joining"
         \/ task[c] \in Serving
              /\ task'[c] \in {"badFrame", "badFrameClose", "joining", "done"}
         \/ task[c] = "driving" /\ task'[c] = "reading" /\ out = <<>>,
         task[c] = "done" => task'[c] = "done"
  PROVE  OutInv' /\ Negotiated(c)'
<1>1. OutInv'
  BY DEF OutInv, Starts, vars, sessionVars
<1>2. Negotiated(c)'
  BY DEF Negotiated, Fresh, Starts, Serving, vars, sessionVars
<1> QED
  BY <1>1, <1>2

(* A frame read: media are never there when StartMedia is returned.        *)
LEMMA FrameNegotiated ==
  ASSUME HostTypeOK, OutInv, NEW c \in Conns, Negotiated(c), FrameRead(c)
  PROVE  OutInv' /\ Negotiated(c)'
<1> PICK m \in Messages : OnFrame(m)
  BY DEF FrameRead
<1>1. task[c] = "reading" /\ task'[c] = "driving" /\ media' = media
  BY DEF FrameRead, Goto, HostTypeOK
<1>2. /\ \A s \in Streams : media[c][s] # "none" =>
            state \in {"Streaming", "Closed"} /\ (s \in Extras => multiActive)
      /\ state = "Streaming" => media[c][Primary] # "none"
  BY <1>1 DEF Negotiated, Serving
<1>3. \A s \in Streams : media'[c][s] # "none" =>
        state' \in {"Streaming", "Closed"} /\ (s \in Extras => multiActive')
  BY <1>1, <1>2, FrameStreaming
<1>4. ASSUME NEW i \in 1 .. Len(out'), Starts(i)' PROVE Fresh(c)'
  <2>1. state = "WaitConfigAck"
    BY <1>4, FrameStreaming
  <2> QED
    BY <2>1, <1>1, <1>2 DEF Fresh
<1>5. state' = "Streaming" => media'[c][Primary] # "none" \/ \E i \in 1 .. Len(out') : Starts(i)'
  BY <1>1, <1>2, FrameStreaming
<1>6. Negotiated(c)'
  BY <1>1, <1>3, <1>4, <1>5 DEF Negotiated, Serving
<1> QED
  BY <1>6, FrameStreaming

(* A fresh session.                                                        *)
LEMMA OpenedNegotiated ==
  ASSUME HostTypeOK, NEW c \in Conns, Negotiated(c), StreamOpened(c)
  PROVE  OutInv' /\ Negotiated(c)'
<1>1. task[c] = "acceptBi" /\ task'[c] = "reading" /\ media' = media
  BY DEF StreamOpened, Goto, HostTypeOK
<1>2. Fresh(c)
  BY <1>1 DEF Negotiated, Serving
<1>3. out' = <<>> /\ state' = "WaitHello"
  BY DEF StreamOpened, NewSession
<1> QED
  BY <1>1, <1>2, <1>3 DEF OutInv, Negotiated, Fresh, Starts, Serving

(* drive, output by output.                                                *)
LEMMA DriveNegotiated ==
  ASSUME HostTypeOK, OutInv, NEW c \in Conns, Negotiated(c),
         DriveWrite(c) \/ DriveStartMedia(c) \/ DriveQuietly(c) \/ DriveClose(c) \/ WriteFails(c)
  PROVE  OutInv' /\ Negotiated(c)'
<1>0. task \in [Conns -> Waits] /\ media \in [Conns -> [Streams -> MediaStates]]
  BY DEF HostTypeOK
<1>1. out \in Seq(Outputs)
  BY DEF HostTypeOK, TypeOK
<1>2. UNCHANGED <<state, multiActive>>
  BY DEF DriveWrite, DriveStartMedia, DriveQuietly, DriveClose, WriteFails, sessionVars
<1>3. CASE DriveClose(c) \/ WriteFails(c)
  <2>1. task[c] \in Serving /\ task'[c] = "joining" /\ out' = <<>> /\ media' = media
    BY <1>0, <1>3 DEF DriveClose, WriteFails, Goto, Serving
  <2> QED
    BY <1>2, <2>1 DEF OutInv, Negotiated, Fresh, Starts, Serving
<1>4. CASE DriveWrite(c) \/ DriveQuietly(c)
  <2>1. /\ task[c] = "driving" /\ task' = task /\ media' = media
        /\ out # <<>> /\ Head(out).kind # "StartMedia" /\ out' = Tail(out)
    BY <1>4 DEF DriveWrite, DriveQuietly, Driving, hostVars
  <2>2. /\ Len(out') = Len(out) - 1
        /\ \A i \in 1 .. Len(out') : i + 1 \in 1 .. Len(out) /\ out'[i] = out[i + 1]
    BY <1>1, <2>1
  <2>3. ~Starts(1)
    BY <1>1, <2>1 DEF Starts
  <2>4. \A i \in 1 .. Len(out) : Starts(i) => i - 1 \in 1 .. Len(out') /\ out'[i - 1] = out[i]
    BY <1>1, <2>1, <2>2, <2>3
  <2>5. OutInv'
    BY <1>2, <2>2 DEF OutInv, Starts
  <2>6. Negotiated(c)'
    BY <1>2, <2>1, <2>2, <2>4 DEF Negotiated, Fresh, Starts, Serving
  <2> QED
    BY <2>5, <2>6
<1>5. CASE DriveStartMedia(c)
  <2>1. /\ task[c] = "driving" /\ task' = task
        /\ out # <<>> /\ Head(out).kind = "StartMedia" /\ out' = Tail(out)
        /\ media' = [media EXCEPT ![c] =
             [s \in Streams |-> IF s \in Started(Head(out).multi) THEN "opening" ELSE @[s]]]
    BY <1>5 DEF DriveStartMedia, Driving
  <2>2. 1 \in 1 .. Len(out) /\ Starts(1) /\ Head(out) = out[1]
    BY <1>1, <2>1 DEF Starts
  \* It is the last output.
  <2>3. Len(out) = 1 /\ Head(out).multi = multiActive /\ state = "Streaming"
    BY <2>2 DEF OutInv
  <2>4. out' = <<>>
    BY <1>1, <2>1, <2>3
  <2>5. Fresh(c)
    BY <2>1, <2>2 DEF Negotiated, Serving
  <2>6. media'[c] = [s \in Streams |-> IF s \in Started(multiActive) THEN "opening" ELSE "none"]
    BY <1>0, <2>1, <2>3, <2>5 DEF Fresh
  <2>7. media'[c][Primary] # "none"
    BY <2>6 DEF Started, Streams
  <2>8. \A s \in Streams : media'[c][s] # "none" => (s \in Extras => multiActive)
    BY <2>6, HostAssumption DEF Started
  <2> QED
    BY <1>2, <2>1, <2>3, <2>4, <2>7, <2>8 DEF OutInv, Negotiated, Serving
<1> QED
  BY <1>3, <1>4, <1>5

(* A thread that opens or ends was there before.                           *)
LEMMA MediaNegotiated ==
  ASSUME HostTypeOK, OutInv, NEW c \in Conns, Negotiated(c), Media(c)
  PROVE  OutInv' /\ Negotiated(c)'
<1>0. media \in [Conns -> [Streams -> MediaStates]]
  BY DEF HostTypeOK
<1>1. PICK s \in Streams, to \in {"running", "stopped"} :
        /\ media[c][s] \in {"opening", "running"}
        /\ media' = [media EXCEPT ![c][s] = to]
        /\ UNCHANGED <<vars, task>>
  BY DEF Media, MediaOpens, MediaFails, MediaSeesClose, MediaStep
<1>2. \A r \in Streams : media'[c][r] # "none" <=> media[c][r] # "none"
  BY <1>0, <1>1
<1>3. ~Fresh(c) /\ Primary \in Streams
  BY <1>1 DEF Fresh, Streams
<1>4. OutInv'
  BY <1>1 DEF OutInv, Starts, vars, sessionVars
<1>5. Negotiated(c)'
  BY <1>1, <1>2, <1>3 DEF Negotiated, Starts, Serving, vars, sessionVars
<1> QED
  BY <1>4, <1>5

(* Every own step of a connection is one of the above.                     *)
LEMMA OwnNegotiated ==
  ASSUME GateInv, OutInv, NEW c \in Conns, Negotiated(c), StepOf(c)
  PROVE  OutInv' /\ Negotiated(c)'
<1> USE DEF GateInv
<1>0. task \in [Conns -> Waits] /\ media \in [Conns -> [Streams -> MediaStates]]
  BY DEF HostTypeOK
<1>1. CASE FrameRead(c)
  BY <1>1, FrameNegotiated
<1>2. CASE StreamOpened(c)
  BY <1>2, OpenedNegotiated
<1>3. CASE DriveWrite(c) \/ DriveStartMedia(c) \/ DriveQuietly(c) \/ DriveClose(c) \/ WriteFails(c)
  BY <1>3, DriveNegotiated
<1>4. CASE Media(c)
  BY <1>4, MediaNegotiated
<1>5. CASE PeerVanishes(c) \/ Transmit(c)
  BY <1>5, IdleStepNegotiated DEF PeerVanishes, Transmit
<1>6. CASE Gate(c) \/ Busy(c)
  <2>1. /\ UNCHANGED vars /\ media' = media
        /\ task[c] \notin Serving /\ task'[c] \notin Serving
        /\ task[c] # "done"
    BY <1>0, <1>6 DEF Gate, Arrives, HandshakeFails, Admit, Reject, Busy, BusyStreamOpened,
         BusyWrites, BusyFails, BusyCloses, Goto, Serving
  <2> QED
    BY <2>1, IdleStepNegotiated
<1>7. CASE AcceptFails(c) \/ BadFrameRead(c) \/ BadFrameWrites(c) \/ BadFrameCloses(c)
           \/ EndOfStream(c) \/ ReadErrs(c) \/ ReadFails(c)
  <2>1. /\ UNCHANGED vars /\ media' = media
        /\ \/ task[c] = "acceptBi" /\ task'[c] = "joining"
           \/ task[c] \in Serving /\ task'[c] \in {"badFrame", "badFrameClose", "joining"}
        /\ task[c] # "done"
    BY <1>0, <1>7 DEF AcceptFails, BadFrameRead, BadFrameWrites, BadFrameCloses, EndOfStream,
         ReadErrs, ReadFails, Goto, Serving
  <2> QED
    BY <2>1, IdleStepNegotiated
<1>8. CASE DriveDone(c) \/ Join(c)
  <2>1. /\ UNCHANGED vars /\ media' = media
        /\ \/ task[c] = "driving" /\ task'[c] = "reading" /\ out = <<>>
           \/ task[c] \in Serving /\ task'[c] \in {"joining", "done"}
        /\ task[c] # "done"
    BY <1>0, <1>8 DEF DriveDone, Join, Goto, Serving
  <2> QED
    BY <2>1, IdleStepNegotiated
<1> QED
  BY <1>1, <1>2, <1>3, <1>4, <1>5, <1>6, <1>7, <1>8 DEF StepOf, Read, Drive

(* Each stream gets at most one media thread, an extra stream only when    *)
(* HELLO negotiated it, and none before the client acknowledged CONFIG:    *)
(* drive acts on StartMedia once per session, in the session's own state.  *)
THEOREM MediaAsNegotiatedCorrect == HostSpec => []MediaAsNegotiated
<1>1. HostInit => NegotiationInv
  <2> SUFFICES ASSUME HostInit PROVE NegotiationInv
    OBVIOUS
  <2>1. OutInv
    BY DEF HostInit, Init, OutInv
  <2>2. \A c \in Conns : Negotiated(c)
    BY DEF HostInit, Negotiated, Fresh, Serving
  <2> QED
    BY <2>1, <2>2 DEF NegotiationInv
<1>2. GateInv /\ NegotiationInv /\ [HostNext]_allVars => NegotiationInv'
  <2> SUFFICES ASSUME GateInv, NegotiationInv, [HostNext]_allVars PROVE NegotiationInv'
    OBVIOUS
  <2>1. CASE UNCHANGED allVars
    BY <2>1 DEF NegotiationInv, OutInv, Negotiated, Fresh, Starts, allVars, hostVars, vars,
                sessionVars
  <2>2. ASSUME NEW c \in Conns, StepOf(c) PROVE NegotiationInv'
    <3>1. OutInv' /\ Negotiated(c)'
      BY <2>2, OwnNegotiated DEF NegotiationInv
    <3>2. ASSUME NEW d \in Conns, d # c PROVE Negotiated(d)'
      BY <2>2, <3>2, OthersNegotiated DEF NegotiationInv
    <3> QED
      BY <3>1, <3>2 DEF NegotiationInv
  <2> QED
    BY <2>1, <2>2 DEF HostNext, StepOf
<1>3. NegotiationInv => MediaAsNegotiated
  <2> SUFFICES ASSUME NegotiationInv, NEW c \in Conns, task[c] \in Serving
               PROVE  /\ \A s \in Streams : media[c][s] # "none" =>
                           state \in {"Streaming", "Closed"} /\ (s \in Extras => multiActive)
                      /\ \A i \in 1 .. Len(out) : out[i].kind = "StartMedia" =>
                           \A s \in Streams : media[c][s] = "none"
                      /\ task[c] = "reading" /\ state = "Streaming" => media[c][Primary] # "none"
    BY DEF MediaAsNegotiated
  <2> QED
    BY DEF NegotiationInv, Negotiated, Fresh, Starts
<1> QED
  BY GateInductive, <1>1, <1>2, <1>3, PTL DEF HostSpec
=============================================================================
