# Verification of the Loom host

Loom is a remote-desktop host: `loomd` captures a screen, encodes it, and
streams it to one client at a time over QUIC. A reliable control stream carries
the session protocol (HELLO, WELCOME, CONFIG, CONFIG_ACK, START, VIEWPORT, …);
unreliable datagrams carry the video. This directory holds TLA+ models of the
parts whose correctness depends on the order of events, the TLC configurations
that check them, and TLAPS proofs of their safety properties for every value of
the constants.

    tlc -config MCHost.cfg MCHost.tla       # model-check one instance
    tlapm HostProofs.tla                    # check the proofs of a module

`PROJECT.json` maps every definition to the lines it translates and lists the
runs, a faulty variant for each property that the run must refute, the hazards,
the findings and the theorems. Definitions preceded by `\* Faulty:` or
`\* A faulty …` are those variants: no specification uses them.

## 1. Inventory

| Part | Source | State | Operations | What makes it correct |
|---|---|---|---|---|
| Session state machine | `loomd/src/session.rs` | phase, params (size), generation, pending generation, client maximum, multi flag | `on_frame` and one handler per phase and message | one reconfiguration at a time; a generation names one size; sizes the encoder accepts; Close iff Closed |
| Connection driver and gate | `loomd/src/conn.rs`, `endpoint.rs` | one task per connection, one-permit semaphore, media handles | `handle`, `reject_busy`, `session_loop`, `drive`, `run_session` (join) | one session at a time; the permit comes back on every way out; media threads inside the session |
| Control framing, CBOR | `loom-proto/src/control.rs`, `cbor.rs`, `conn.rs` (`read_frame`) | the reader's place in the stream | `encode_frame`, `decode_frame`, `read_frame` | frames arrive in order and with their meaning; accusations for cause only; a clean end is told from a torn one |
| Clock filter | `loom-proto/src/clocksync.rs` | a window of sixteen samples | `push` | offset of the newest minimum-RTT sample; its error within half the round trip |
| Media pipeline | `loomd/src/media/mod.rs` | encoder, source, two mpsc channels, `frame_seq`, size | `run`'s loop: close check, reconfigure, IDR, produce, encode, send | a new size begins with an IDR; requests are not lost; the counter continues; it stops with the connection |
| Datagram codec | `loom-proto/src/datagram.rs` | none | `fragment`, `decode`, `decode_with_streams` | decode inverts fragment; what is accepted could have been built |
| Reassembly | `loom-proto/src/reassembly.rs` | window of two incomplete frames, newest complete, last decoded, counters, IDR clock | `push` (`deliver`, `maybe_idr`) | a decodable stream out of any loss; nothing comes back from the dead; rate-limited and repeated requests |
| Recovery loop | media, reassembly, `loomd/tests/recovery.rs` | the above, and datagrams in flight | loss → gap → IDR_REQUEST → IDR | a freeze ends, and so do the requests |
| Encoders | `loom-encode` | encoder session; VideoToolbox's sink, filled by a callback on another thread | open, `encode_i420`, drop; `annexb::append`, `convert` | IDR when forced or first; results belong to their own call; no callback into released memory; bitstreams restored or refused |
| Linux capture | `loom-capture/src/lib.rs`, `stream.rs` | slot and spare buffer, stop flag, ready channel, `StreamData` | `start`, `fill`, drop; PipeWire's events, timer and `on_process` | the newest whole frame; start reports once; drop leaves no thread |
| macOS capture | `loom-capture/src/sck.rs` | slot, spare, the SCStream and two awaited replies | `start`, `fill`, drop; `publish` on SCK's queue | the same, and the display asked for |
| Conversion, test pattern, CLI, TLS, keymap, tools | various | none shared | | unit tests |

Interactions. `accept_loop` spawns a task per connection. The task that wins the
permit makes a `HostSession`, reads one frame at a time, calls `on_frame`, and
drives the returned outputs in order: writes to the control stream, spawns of
media threads (one per negotiated stream), posts into their channels, the close.
A media thread shares nothing with the task but its two channels and the QUIC
connection; it polls `connection.close_reason()` at the top of each tick. It owns
one encoder and one source. A capture source has threads of its own, which it
meets in a slot under a mutex; a VideoToolbox encoder has a callback thread,
which it meets in its sink. When the session loop returns, by whatever way, the
task joins the media threads and only then drops the permit.

What is hard here: CONFIG, CONFIG_ACK and VIEWPORT crossing each other; requests
that reach a media thread at any point of a tick; a connection that closes while
a task writes or a thread opens; I/O errors that leave a function through `?`;
lost, repeated and reordered fragments; buffers that go round between threads;
replies that come late; callbacks after an error; limits and clocks.
`PROJECT.json` lists these as hazards, each at its line.

## 2. Modules

| Module | Models | Checked by | Proved in |
|---|---|---|---|
| `HostSession` | `session.rs` | `MCHostSession` | `HostSessionProofs` |
| `ControlPlane` (extends `HostSession`) | session, driver, both directions of the control stream, a conforming client | `MCControlPlane` | `ControlPlaneProofs` |
| `CborValue`, `ControlFrame` (extends it) | `control.rs`, `read_frame` over a stream of bytes | `MCControlPlane` | `ControlStreamProofs` |
| `Cbor` (extends `CborValue`) | `cbor.rs`, the codec of `ControlFrame`'s bodies | `MCControlPlane` | – |
| `ClockFilter` | `clocksync.rs` and the exchanges that feed it | `MCControlPlane` | `ControlStreamProofs` |
| `ControlStream` (extends these three) | one of them at a time | `MCControlPlane` | `ControlStreamProofs` |
| `Host` (extends `HostSession`) | accept loop, gate, tasks, session, media threads' lives, against arbitrary peers | `MCHost` | `HostProofs` |
| `MediaThread` | one media thread, its channels and encoder | `MCMediaThread` | `MediaThreadProofs` |
| `Reassembler` | `reassembly.rs` and the network in front of it | `MCReassembler` | `ReassemblerProofs` |
| `FrameStream` | what a receiver promises: abstract, implemented by `Reassembler` | `MCReassembler` | `ReassemblerProofs` |
| `Datagram` | `datagram.rs`, the numbering of streams | `MCReassembler` | `ReassemblerProofs` |
| `Recovery` | thread → lossy network → receiver → request → thread, without end | `MCReassembler` | `ReassemblerProofs` (types) |
| `Encoders` | the three encoders from opening to drop | `MCEncoders` | `EncodersProofs` |
| `EncoderSeam` | what the media loop takes an encoder for: abstract, implemented by `Encoders` | `MCEncoders` | `EncodersProofs` |
| `AnnexB` | `annexb.rs` and `convert` of `videotoolbox.rs` | `MCEncoders` | `EncodersProofs` |
| `Capture` | `PortalCapture` and its PipeWire thread | `MCCapture` | `CaptureProofs` |
| `ScreenCapture` | `sck.rs` | `MCCapture` | `CaptureProofs` |
| `FreshFrames` | what a capture promises: abstract, implemented by both | `MCCapture` | `CaptureProofs` |

**HostSession.** One action per handler and outcome; its guard repeats the
dispatch of `on_frame` and `on_streaming`. A frame is a record holding the keys
the session reads: optional pairs are sets of at most one element, and a missing
or wrong generation is one that no CONFIG has. `out` is the `Vec<Output>`
returned by the last call. The `as u64` and `as u16` casts wrap modulo the
constants `U64` and `U16`; `clamp_viewport` is translated term by term. Session
id, names, layout, bitrate and the other CONFIG keys decide nothing and are left
out. `Unheeded` is the frame that a closed session ignores or whose type is
unknown.

**ControlPlane.** The host reads only once its last outputs are driven, as
`session_loop` does; each output is one step. Queues are FIFO because the control
stream is. The client answers every CONFIG in order, when it likes, and may send
any of `ClientRequests` in between, like the clients under `loomd/tests`.

**Cbor, ControlFrame.** The bytes themselves. `ControlFrame` is the framing: it
takes the codec of a body as two operator constants, `EncodeItem` and
`DecodeItem`, which `MCControlPlane` gives `Encode` and `Decode` of `Cbor`: heads,
arguments in their shortest form, maps sorted by their encoded keys, against a
decoder that takes any form (ciborium, external). The lengths in front of frames
and the arguments of heads are digits of one base, as in the code
(`to_be_bytes`), and `CborValue` holds what both know. The numbers are smaller than CBOR's, so that every width of
argument occurs: an argument below `Inline` lies in the head, others follow in 1,
2, 4 or 8 digits of base `Radix`. Bytes arrive one at a time; the peer may finish
anywhere (`Finish`), and the stream may be reset or its connection lost at any
time (`Break`), which `read_exact` reports as an error at the start of a frame as
well as inside one (`ReadFails`). `need` is where `read_frame` is: in a length, or waiting for so many
bytes of body. `WriteForeign` is a peer of another make: longer forms, trailing
bytes, tags, and every malformed envelope of the tests.

**ClockFilter.** An exchange has any two leg times; the driver stamps receipt and
reply with one time (`conn.rs`). The window and the scan with `<=` are the code's.

**Host.** `task[c]` names the await at which a connection's task waits; an action
is what the task does from one await to the next, so everything else may happen
between two actions. `FrameRead` takes *any* frame in any state. `ReadErrs` and
`WriteFails` are the error exits through `?`, which do not close the connection;
`EndOfStream`, `BadFrameCloses` and `DriveClose` are the exits that do. `notice`
follows an ERROR frame from the write (`queued`) to its transmission (`sent`);
closing the connection drops what is queued. Media threads have only a life cycle
here: opening, running, stopped. The blocking join is `Join`'s guard `Idle`.
The state machine of the session is shared, since only the permit's holder makes
and drives one.

**MediaThread.** `pc` cuts a tick at every read of shared state: the close check,
the drain of the reconfiguration channel, the drain of the IDR channel, the
source, the encoder. `TakeIdr` keeps the short circuit of
`reconfigured || idr_rx.try_iter().count() > 0`. `have` says whether a
damage-driven source has produced a frame since it was opened; without one the
tick ends and `force_idr` is forgotten. The encoder is an `EncoderSeam` whose
`skips` says whether it may return `Ok(None)`. `wanted` and `owed` are history.
The drop injector is in `Recovery` (a `Send` of less than the whole frame; `Lose`
is the network's), fragmenting in `Datagram`; the pacing sleep
and the file dump are left out.

**Reassembler.** One action per path through `push`. A fragment of any frame may
arrive at any time, any number of times or never, which is every network.
`fate` is history: what became of each frame. `stale_fragments` saturates at
`StaleCap`, since only its growth is of interest and it would be unbounded.

**Datagram.** A body is the sequence of its bytes' positions, so that a chunk out
of place shows; a header is a record. `Checks` lists the tests of
`decode_with_streams` in the code's order, the first that fails naming the
`DropReason`. Index and count are cast to u16 as the code does.

**Recovery.** The stream has no end, so frames are known by their age, counted in
frames sent since; ages beyond what can be in flight are alike. The receiver is
`FrameStream`'s. A frame is whole or lost here: fragments are `Reassembler`'s.

**Encoders.** `backend` is which of the three, and how many frames its codec may
hold back (`zerolatency` and `delay=0` ask for none). The callback of VideoToolbox
runs at any time from the submission of a frame until `invalidate` returns, so
also after a failed flush. `accepts` is the codec's answer to each property:
`Configures` and `OptionsSet` say which answers are fatal. The drop is two steps,
since its order is what the comment on `drop` is about.

**AnnexB.** Every access unit over a few byte values, up to a length; each pass of
`append`'s loop is a step.

**Capture.** Three parties: the caller, the thread of the main loop with its
callbacks and timer, and PipeWire's data thread, on which `on_process` runs since
the stream is connected with `RT_PROCESS`. A buffer's pixels are the frames its two
halves come from; conversion and copy take two steps each, so a copy made while
another party writes would show as a mix. `aborted` is a borrow panic inside a C
callback.

**ScreenCapture.** The two awaited replies come in time, late or never. `publish`
takes its three locks one after the other, with `fill` in between.

**Abstract specifications.** `FreshFrames` (publish and take the newest),
`FrameStream` (complete, decode or discard, ask under a rate limit) and
`EncoderSeam` (a unit for this frame, nothing, or an error). `Capture`,
`ScreenCapture`, `Reassembler` and `Encoders` each instantiate theirs `WITH` a
mapping and state `Implements… == Abstract!Spec`, checked by TLC and proved; for
`ScreenCapture` of machines whose pixel buffers have planes (`nullPlanes` is
FALSE), as of others it does not hold (section 6).

## 3. Runs and what they show

| Run | Instance | Shows |
|---|---|---|
| `session` | ceiling 9×7, floor 4, casts modulo 16 and 4, values −1, 2, 5, 8, four generations | the session against a peer that sends any frame in any order |
| `control_plane` | plane: three frames in flight each way, four generations, two sizes to ask for; bytes: two frames, six messages of this crate and nine of others, base 3; clock: window 2, legs 0–2, four exchanges, offsets −3, 0, 2 | no conforming client is accused; the media thread is told acknowledged sizes only; both ends agree when nothing is in flight; reconfigurations and handshakes complete. Frames arrive in order and whole however the bytes are cut; reading ends for cause. The estimate is the newest best, its error bounded |
| `host` | two connections, a primary and one extra stream, two generations | one session at a time, media within it and as negotiated, the slot given back |
| `media_thread` | two sizes, two entries per channel, a counter modulo 4, both kinds of encoder, damage-driven source | resolution changes at IDRs, the counter continues, a taken request is answered by the next frame of an encoder that does not skip, the newest size wins, a close stops the thread |
| `reassembler` | reassembly: six frames, two IDRs, one or two fragments each, window 2, limit of 2 in 4 clock steps; wire: two displays, two frames, bodies of 0 to 6 bytes in datagrams of 2, 435 foreign datagrams; loop: three frames in flight, two requests, limit 2 | window, stream, counters, finality, requests, `FrameStream` implemented; bodies restored, nothing of this host's dropped, foreign headers accepted exactly when they could have been built; a freeze ends, requests end |
| `capture` | three buffers, four frames, two displays, both platforms | starts report once and return, drops leave no thread, the display is the one asked for, no buffer is in two hands, `FreshFrames` implemented |
| `encoders` | encoder: four calls, up to two frames held, one hint, two constraints; bitstream: all units up to six bytes over four values, prefixes of one and two bytes | results go to their own call, in order, never into released memory; `EncoderSeam` implemented; units restored or refused |
| `session_client_max`, `host_joins_open`, `host_close_flushes`, `media_thread_skipped_idr`, `capture_borrowed` | as above | the findings of section 6 |

Four MC modules check several modules in one run. `MCControlPlane` (in
`ControlStream`), `MCReassembler` and `MCEncoders` have a variable `part`
(`MCCapture`: `platform`) chosen in the initial state: the part it names moves, the others rest
in an initial state. The state space is the sum of the parts', not their
product, and each part's properties hold trivially while it rests. The parts'
properties on one subject are gathered under one name: `PartsTypeOK`, `StreamReadFaithfully`,
`EstimateTrustworthy`, `FramesRestored`, `BuffersKeptApart`, `CallersReturn`,
`ConversionExact`. The proofs are about the same combined specifications where a
property is stated over all parts (`PartsTypeOK`, `BuffersKeptApart`), and about
the part's own elsewhere. A resting part
has none of its fair actions enabled (or, in `MCReassembler`, its fairness is only
required while it moves), so fairness of one part says nothing about another.

Bounds. `MaxGeneration` caps reconfigurations: two suffice to have a superseded
generation, the runs allow three after the handshake (one in `host`, where the
task structure is the question). The dimension values hold a negative one, one
below the floor, an odd one and one at a ceiling; ceilings 9 and 7 are odd, so
rounding matters. `QueueBound` 3 lets a VIEWPORT, an ACK and another request be
in flight together; when a queue is full its writer waits, as flow control makes
it. Two connections are the smallest number that can contend, and a third would
only repeat the second. In `reassembler`, six frames let one be evicted, another
be overtaken, a gap open, an IDR close it and late fragments follow. Two control
frames are enough for a reader to slip from one into the next; with base 3 and one
inline value the messages use arguments of every width up to four digits. A window
of 2 and four exchanges evict twice. Bodies of 0 to 6 bytes at 2 per datagram are
empty, partial, full and full with a rest, up to the largest count a u16 of 4
holds. Three frames in flight reorder, overtake and lose in every way a gap can
open. Three buffers are one for each of slot, spare and conversion, so a fourth
holder would have to share, and four frames go round them more than once. Four
calls, two of them held back, give a unit to a later call and a request to an
earlier unit. `CHECK_DEADLOCK FALSE` stands where the system ends: all connections
done, client gone, thread stopped, stream read, capture dropped, encoder
released.

Fairness, and why the code justifies it:

* `MediaThread`: weak fairness of the thread's own step. The operating system
  schedules it and its calls return.
* `ControlPlane`: weak fairness of the host's task (tokio) and of a conforming
  client's reads; strong fairness of its acknowledgements, because a full queue
  may disable them now and then. Nothing obliges the client to ask or to leave.
* `ControlFrame`: while bytes are under way or can be read, some arrive or are
  read, and so is the error of a broken stream. QUIC delivers; nothing obliges the
  peer to write or to finish, nor the stream to break.
* `Host`: nothing is assumed of a peer. What a task can do without its peer it
  does in the end; awaits on a closed connection return an error. A read on a
  closed connection may first return buffered frames, which are finite, hence
  strong fairness of `ReadFails`. Opens of media threads are assumed to return,
  which a portal's picker dialog does only when somebody answers it.
* `Recovery`: the thread ticks, the control stream delivers, the clock goes on.
  Of the network: of infinitely many frames sent some arrive in time, and so of
  infinitely many IDRs (strong fairness of their sending whole and arriving).
  Without that no protocol ends a freeze.
* `Capture`: the capture thread, the data thread and the caller's join run, and
  the 50 ms timer fires. Nothing obliges PipeWire to negotiate a format.
* `ScreenCapture`: only the clock, that is, `recv_timeout` returns. SCK owes
  nothing.

## 4. What is proved

Every proof is for all values of the constants under the named ASSUME of the
module, and for behaviours of any length. None needs fairness.

* **HostSession** (`HostSessionAssumption`: positive moduli, an even floor not
  above the ceilings, sizes within the width). `TypeCorrect`, `PendingCorrect`,
  `ReconfiguredEncodable`, `GenerationNamesSize`, `CloseCorrect`. The
  invariants are inductive next to `TypeOK`; `GenerationNamesSize` is a step
  property that rests on `PendingIsNewest`: a session that is handling HELLO
  has nothing pending.
* **Host** (`HostAssumption`). `OneSession` is inductive only together with the
  counter's range: that a join does not raise the permit above 1 follows from its
  task being the one holder, and that there is one holder follows from the
  permit being 0 or 1 (`GateInv`). `MediaWithinSession` rests on the guard of the
  join. `MediaAsNegotiated` needs more (`NegotiationInv`): a StartMedia still to
  be driven is the last output, carries the negotiated flag, and finds no thread
  of its connection; and a streaming session has its primary thread or has that
  StartMedia ahead of it. That the other connections are undisturbed uses
  `OneSession`.
* **ControlPlane** (`ControlPlaneAssumption`: a client that offers version 1 and
  HEVC and asks for what a client may; queues of any length).
  `NoFalseAccusationCorrect`, `ActiveCorrect`, `QuietCorrect`, `PlaneTypeCorrect`.
  None is inductive. At most one CONFIG is unacknowledged, it is the newest, and
  it is in exactly one of four places: in the host's outputs, on its way, in the
  client's hands, or on its way back as an ACK (`AtHost`, `OnItsWay`, `Owed`,
  `OnItsWayBack`); the session waits exactly while it is in one (`Accounted`).
  Around that, what the client may have written so far (`ClientWrote`), what the
  host has still to drive (`Driven`) and what the media thread was told
  (`Media`). The ACK that arrives is then always the one awaited, and when
  nothing is in flight nothing is awaited.
* **ControlFrame** (`ControlFrameAssumption`: a length up to the limit fits its
  prefix, and bodies are within the limit). `StreamCorrect`: under `CodecFaithful`,
  what is read is what was written, in order, and reading ends for cause. The
  invariant (`FrameInv`) says that some sequence of bytes is one frame laid after
  another (`Laid`); that the reader stands at the start of a frame or of the body
  of one; and that what has arrived and is under way is the piece of that
  sequence ahead of it, up to the cut the peer made by finishing (`Ahead`). A break
  changes none of this: it adds an error the reader may end with. A
  slip of one byte would break it. That a prefix reads back as the length it was
  written for (`NumberOfDigits`) is an induction over the digits.
  `CodecFaithful` says of the codec that it decodes each message of `WireMessages`
  and each body of `Foreign` to what its sender meant. It speaks of no state, and
  TLC's instance satisfies it: otherwise a peer that writes the message first
  would violate `StreamReadFaithfully` in the run (as the faulty `EncodeInt` does).
* **ClockFilter** (`ClockFilterAssumption`). `EstimateCorrect`, from `ClockInv`: the
  window is the tail of the history, every sample of the history bounds its own
  error by half its round trip, and the estimate is `Best` of the window. What
  `Best`'s scan finds is shown along the scan (`ScanIs`).
* **MediaThread** (`MediaThreadAssumption`). `ResolutionCorrect` from
  `Continuity` (an encoder that coded a frame has the size of the last frame
  sent), `SeqCorrect` from `SeqFollows`, and `RequestAnswered`, under the
  hypothesis that the encoder never skips, from `RequestCarried` (a taken request
  survives in `force_idr` or in an encoder that has coded nothing) and
  `SourceLeads` (a source without a frame implies such an encoder).
* **Reassembler** (`ReassemblerAssumption`: any division into fragments, any
  positive window and limit). `FateCorrect` and `WindowCorrect` from `WindowInv`:
  a frame whose fate is final is at or below `newest_complete`, or below every
  frame of a *full* window. `StreamCorrect`, `RateCorrect` and `AskingCorrect`
  tie `last_decoded` and `idr_last_t` to the last delivery and request.
  `FramesCorrect`: it implements `FrameStream`; a completed frame is a `Complete`
  step, since what is not stale is above `newest_complete`, and everything a
  fragment may otherwise do is a stutter. `BalanceCorrect` (`CountersBalance`) counts
  the frames of each fate: a step moves one frame from one set to another, or
  none, and the counters with it.
* **Datagram** (`DatagramAssumption`). `AcceptedCorrect`: what the checks let through
  is exactly what some sender could have built. `RestoredCorrect`: a frame is put
  together as it was taken apart and none of its fragments is turned down, from
  `WireInv` (what is on the wire is a fragment of a frame that was sent, with that
  frame's number and its own place; a receiver keeps or drops nothing else, each
  for its reason), under the hypothesis `BodiesFit`: no body needs more fragments than a
  u16 counts. Of longer ones it is false (section 6); the run's bodies satisfy
  it.
* **Capture** (`CaptureAssumption`: at least three buffers). `CaptureInv` has a part
  for the start (`Handshake`: what has been reported against where the loop and
  the caller are), one for the buffers (`BuffersApart`), one for what the slot and
  a filled half show (`ShownBuffers`: the slot's buffer is whole and older than the
  one being converted; `Copying`: the half copied under the lock is the slot's).
  From it `ApartCorrect`, `ReportCorrect`, `OrphanCorrect`, and `FreshCorrect`:
  `Publish` maps to a publish of a newer frame, the second half of a fill to a
  take, all else to a stutter.
* **ScreenCapture** (as `MCCapture`'s instance `Mac`). Three independent invariants:
  the stage `publish` is at says which buffers are in whose hands
  (`MacApartCorrect`); the caller's progress says what became of the display and
  of the stream (`MacTargetCorrect`); and what is in the slot is a whole frame
  older than the one being converted, if every plane can be mapped
  (`MacFreshCorrect`). `KeptApartCorrect`, `TargetCorrect` and `BothFreshCorrect`
  carry these to the run's specification.
* **Encoders** (`EncodersAssumption`: any number of calls and of frames held).
  `CallbackCorrect` from `EncodersInv`: a frame is pending, or something is in the
  sink, only while a call flushes or after one failed, and the sink lives until the
  session is invalidated, which ends the callbacks. `OrderCorrect` from `OrderInv`: the units held are numbered
  in order above the last returned, and the first of all is an IDR.
  `SeamCorrect`: the encoders implement `EncoderSeam`, from `SeamInv`, which ties
  `started` to `last` when nothing is held back.
* **AnnexB** (`AnnexBAssumption`: units over any bytes, of any length, prefixes of one to
  four bytes).
  `ConversionCorrect` (`ConversionExact`): a unit is restored if it can be cut
  into prefixed NAL units, and refused if it cannot. What the loop has walked
  over is a cut of the bytes so far, whose NAL units are those it has written;
  and since a length has one prefix, every cut of the whole goes
  through where the loop stands, so that where it gives up there is none.
* **The runs' types.** `PartsTypeOK` of `MCControlPlane`, `MCReassembler` and
  `MCEncoders` for their combined specifications (`PartsTypeCorrect` in
  `ControlStreamProofs`, `ReassemblerProofs` and `EncodersProofs`), among them that
  ages, requests and clock of `Recovery` stay within their bounds.

Recursive functions (the scan of `Best`, digits and numbers, `AnnexB`'s cuts) are
reasoned about by the least counterexample: a set of naturals that is not empty
has a least element (`LeastExists`), so a property that fails fails first
somewhere, and not at zero.

The runs leave to the proofs what these establish and a run of theirs would only
repeat: `PendingIsNewest`, `CloseMeansClosed`, `WindowHolds`, `DecodableStream`,
`IdrRateLimited`, `GapKeepsAsking`, `InOrder` and the type
invariant of `Host`. TLC found each of them to hold before it was proved, and
several follow from a refinement that is still checked.

Every safety property a passing run checks is stated by a theorem. Only
model-checked are:

* the liveness properties (`SlotFreed`, `NewestSizeWins`, `ClosedStopsThread`,
  `NegotiationsComplete`, `FinishedIsNoticed`, `FreezeEnds`, `RequestsEnd`,
  `CallersReturn`): fairness and ENABLED are out of the prover's reach;
* `CodecFaithful`, that is, that `Cbor`'s decoder inverts its encoder: both are
  RECURSIVE operators over nested values, of which the provers can expand none
  and induct over none. The run writes and reads every message of its instance.

## 5. Plan

1. *Composition*: the life of a media thread as `Host` sees it (opening, running,
   stopped), implemented by `MediaThread`; `Recovery` shown to be implemented by
   `MediaThread` and `FrameStream` over a network.
2. *Proofs*: the safety that the liveness properties rest on, as invariants: a
   frozen receiver has a request on its way, an IDR on its way, or a clock that
   will let it ask; a task that is leaving owes its permit to somebody.

## 6. Findings

* `session_client_max` – `clamp_viewport` lifts the client's ceiling to `MIN_DIM`,
  so a client whose HELLO maximum is lower is sent sizes beyond it, against the
  comment on `HOST_MAX_WIDTH`.
* `host_joins_open` – an I/O error leaves `session_loop` without closing the
  connection, so `run_session` joins threads that only a closed connection stops;
  its comment says the connection is closed by then. The slot stays taken until
  the peer goes.
* `host_close_flushes` – `Output::Close` is documented to flush pending sends;
  `drive` closes the connection right after `finish()`, which drops an ERROR frame
  not yet transmitted.
* `media_thread_skipped_idr` – when the encoder returns `Ok(None)` for the forced
  frame the request is forgotten and the next frame sent is not an IDR, against
  the comment on `request_idr`.
* `capture_borrowed` – the stream is connected with `RT_PROCESS`, so `on_process`
  runs on PipeWire's data thread and holds the `RefCell` borrow while it converts;
  an event on the main loop borrows the same cell and panics, or races. The
  comment on `StreamData` speaks of one thread.

The models hold some behaviours about which no document promises otherwise, so
no run is made of them: a stream error after `start` ends the capture thread and
nobody is told (`stream.rs:107`); a pixel buffer with a null plane is published
unconverted (`sck.rs:142`, the case `nullPlanes` sets aside); a length over the
limit ends the connection with an error and no ERROR frame (`conn.rs:306`); a frame
of more than 65535 fragments has its count truncated (`datagram.rs:108`), which
would take a body of some 87 MB; `frame_seq` wraps (`media/mod.rs:408`) against a
receiver that compares integers, after more than two years at 60 frames a second.

## 7. Not modelled

Pixel conversion, the test pattern, keymap tables, command line, TLS and
certificates, the vector adapter and the latency probe: no protocol state, and
unit tests cover them. The audio, input and virtual-display crates are empty at
this commit. QUIC itself, x265, NVENC, VideoToolbox, PipeWire and ScreenCaptureKit
appear only through what the code relies on. Of CBOR, byte strings, floats,
booleans and indefinite lengths are left out, since the control messages the host
reads tell a leaf from another by its kind only. Timing (pacing, frame intervals)
is not modelled beyond the order of events.
