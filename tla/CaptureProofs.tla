--------------------------- MODULE CaptureProofs ---------------------------
(***************************************************************************)
(* Theorems about the two captures, for any set of buffers, any displays   *)
(* and any number of frames.                                               *)
(*                                                                         *)
(* Capture (Linux): one inductive invariant, CaptureInv, implies the       *)
(* safety invariants and makes every step one of FreshFrames or none.      *)
(*                                                                         *)
(* ScreenCapture (macOS), as MCCapture's instance Mac, in three            *)
(* independent parts: the stage of publish says which buffers are in whose *)
(* hands; the caller's progress says what became of the display and of the *)
(* stream; and, where every plane is mapped, what is in the slot is a      *)
(* whole frame older than the one being converted.                         *)
(***************************************************************************)
EXTENDS MCCapture, TLAPS

(* Where the handshake between the three parties is.                       *)
Handshake ==
  /\ ready \in {<<>>, <<"ok">>, <<"err">>}
  /\ ready = <<"ok">> => fmt
  /\ caller = "new" => loop = "none"
  /\ caller \in {"running", "copying", "dropping"} => ready # <<>>
  /\ stop => ready # <<>>
  /\ loop \in {"quitting", "destroying", "ended"} => ready # <<>>
  /\ NoOrphanThread

(* What the buffers show: the slot's is a whole frame, older than the one  *)
(* being converted; the conversion is as far as its stage says.            *)
ShownBuffers ==
  /\ \A b \in slot : /\ pixels[b].top = pixels[b].bottom
                     /\ 0 < pixels[b].top /\ pixels[b].top <= captured
                     /\ stage # "idle" => pixels[b].top < captured
  /\ stage # "idle" => captured > 0
  /\ \A b \in filling : /\ stage \in {"bottom", "publish"} => pixels[b].top = captured
                        /\ stage = "publish" => pixels[b].bottom = captured

(* A fill under way holds the lock, and what it has copied is in the slot. *)
Copying ==
  /\ lock = "caller" <=> caller = "copying"
  /\ caller = "copying" => slot # {} /\ \A b \in slot : half = pixels[b].top
  /\ dst.top = dst.bottom

CaptureInv == TypeOK /\ Handshake /\ BuffersApart /\ ShownBuffers /\ Copying

-----------------------------------------------------------------------------
LEMMA InitInv == Init => CaptureInv
<1> SUFFICES ASSUME Init PROVE CaptureInv
  OBVIOUS
<1>1. TypeOK
  <2>1. pixels \in [Buffers -> Shot] /\ dst \in Shot
    BY DEF Init, Blank, Shot
  <2>2. ready \in Seq({"ok", "err"})
    BY DEF Init
  <2> QED
    BY <2>1, <2>2 DEF Init, TypeOK, AtMostOne
<1>2. Handshake
  BY DEF Init, Handshake, NoOrphanThread
<1>3. BuffersApart
  BY DEF Init, BuffersApart
<1>4. ShownBuffers /\ Copying
  BY DEF Init, ShownBuffers, Copying, Blank
<1> QED
  BY <1>1, <1>2, <1>3, <1>4 DEF CaptureInv

(* A step that leaves the buffers alone keeps what is said of them.        *)
LEMMA TypeStep == CaptureInv /\ [Next]_vars => TypeOK'
<1> SUFFICES ASSUME CaptureInv, [Next]_vars PROVE TypeOK'
  OBVIOUS
<1> USE DEF CaptureInv
<1>1. CASE HandshakeFails \/ Spawn \/ StartReturns \/ Joined \/ Drop
  BY <1>1 DEF HandshakeFails, Spawn, StartReturns, Joined, Drop, TypeOK, frames
<1>2. CASE FillLocks
  BY <1>2 DEF FillLocks, TypeOK, frames, Shot, AtMostOne
<1>3. CASE FillCopies
  BY <1>3 DEF FillCopies, TypeOK, frames, Shot, AtMostOne
<1>4. CASE Events \/ TimerFires \/ LoopReturns \/ BorrowPanics
  <2>1. ready' \in Seq({"ok", "err"})
    <3>1. \/ Report("ok") \/ Report("err") \/ UNCHANGED ready
      BY <1>4 DEF Events, Connect, SetupFails, FormatAccepted, FormatRefused,
                  TimerFires, LoopReturns, BorrowPanics, vars
    <3>2. <<"ok">> \in Seq({"ok", "err"}) /\ <<"err">> \in Seq({"ok", "err"})
      OBVIOUS
    <3> QED
      BY <3>1, <3>2 DEF Report, TypeOK
  <2> QED
    BY <1>4, <2>1 DEF Events, Connect, SetupFails, FormatAccepted, FormatRefused,
                TimerFires, LoopReturns, BorrowPanics, TypeOK, frames, callers, vars
<1>5. CASE ProcessStarts
  <2>1. AtMostOne(filling') /\ AtMostOne({})
    BY <1>5 DEF ProcessStarts, TypeOK, AtMostOne
  <2> QED
    BY <1>5, <2>1 DEF ProcessStarts, TypeOK, callers, AtMostOne
<1>6. ASSUME NEW part \in {"top", "bottom"}, NEW next \in {"bottom", "publish"}, Convert(part, next)
      PROVE  TypeOK'
  <2>1. \A b \in Buffers : [pixels[b] EXCEPT ![part] = captured] \in Shot
    BY DEF TypeOK, Shot
  <2>2. pixels' \in [Buffers -> Shot]
    BY <1>6, <2>1 DEF Convert, TypeOK
  <2>3. /\ stage' \in {"idle", "top", "bottom", "publish"}
        /\ UNCHANGED <<callers, loop, ready, fmt, slot, spare, filling, captured, aborted>>
    BY <1>6 DEF Convert
  <2> QED
    BY <2>2, <2>3 DEF TypeOK, callers, AtMostOne
<1>7. CASE Publish
  BY <1>7 DEF Publish, TypeOK, callers, AtMostOne
<1>8. CASE UNCHANGED vars
  BY <1>8 DEF vars, callers, frames, TypeOK, AtMostOne
<1> QED
  BY <1>1, <1>2, <1>3, <1>4, <1>5, <1>6, <1>7, <1>8 DEF Next, Caller, OnProcess

LEMMA HandshakeStep == CaptureInv /\ [Next]_vars => Handshake'
<1> SUFFICES ASSUME CaptureInv, [Next]_vars PROVE Handshake'
  OBVIOUS
<1> USE DEF CaptureInv, Handshake, NoOrphanThread
<1>1. CASE HandshakeFails \/ Spawn \/ Joined \/ FillLocks \/ FillCopies \/ Drop
  BY <1>1 DEF HandshakeFails, Spawn, Joined, FillLocks, FillCopies, Drop
<1>2. CASE StartReturns
  BY <1>2 DEF StartReturns
<1>3. CASE Events
  BY <1>3 DEF Events, Connect, SetupFails, FormatAccepted, FormatRefused, Report,
              callers, vars
<1>4. CASE TimerFires \/ LoopReturns \/ BorrowPanics
  BY <1>4 DEF TimerFires, LoopReturns, BorrowPanics, callers
<1>5. CASE OnProcess \/ UNCHANGED vars
  BY <1>5 DEF OnProcess, ProcessStarts, Convert, Publish, callers, vars
<1> QED
  BY <1>1, <1>2, <1>3, <1>4, <1>5 DEF Next, Caller

LEMMA ApartStep == CaptureInv /\ [Next]_vars => BuffersApart'
<1> SUFFICES ASSUME CaptureInv, [Next]_vars PROVE BuffersApart'
  OBVIOUS
<1> USE DEF CaptureInv, BuffersApart
<1>1. CASE ProcessStarts
  BY <1>1 DEF ProcessStarts, TypeOK, AtMostOne
<1>2. CASE Publish \/ Convert("top", "bottom") \/ Convert("bottom", "publish")
  BY <1>2 DEF Publish, Convert
<1>3. CASE UNCHANGED frames
  BY <1>3 DEF frames
<1> QED
  BY <1>1, <1>2, <1>3 DEF Next, Caller, Events, OnProcess, HandshakeFails, Spawn, StartReturns,
     Joined, FillLocks, FillCopies, Drop, Connect, SetupFails, FormatAccepted,
     FormatRefused, TimerFires, LoopReturns, BorrowPanics, vars

LEMMA ShownStep == CaptureInv /\ [Next]_vars => ShownBuffers'
<1> SUFFICES ASSUME CaptureInv, [Next]_vars PROVE ShownBuffers'
  OBVIOUS
<1> USE DEF CaptureInv, ShownBuffers
<1>0. captured \in Nat /\ pixels \in [Buffers -> Shot] /\ slot \subseteq Buffers /\ filling \subseteq Buffers
  BY DEF TypeOK, AtMostOne
<1>1. CASE ProcessStarts
  BY <1>0, <1>1 DEF ProcessStarts, Shot
<1>2. CASE Convert("top", "bottom")
  <2>1. \A b \in slot : pixels'[b] = pixels[b]
    BY <1>0, <1>2 DEF Convert, BuffersApart
  <2>2. \A b \in filling : pixels'[b].top = captured
    BY <1>0, <1>2 DEF Convert, Shot
  <2> QED
    BY <1>2, <2>1, <2>2 DEF Convert
<1>3. CASE Convert("bottom", "publish")
  <2>1. \A b \in slot : pixels'[b] = pixels[b]
    BY <1>0, <1>3 DEF Convert, BuffersApart
  <2>2. \A b \in filling : pixels'[b].top = captured /\ pixels'[b].bottom = captured
    BY <1>0, <1>3 DEF Convert, Shot
  <2> QED
    BY <1>3, <2>1, <2>2 DEF Convert
<1>4. CASE Publish
  BY <1>0, <1>4 DEF Publish
<1>5. CASE UNCHANGED frames
  BY <1>5 DEF frames
<1> QED
  BY <1>1, <1>2, <1>3, <1>4, <1>5 DEF Next, Caller, Events, OnProcess, HandshakeFails, Spawn,
     StartReturns, Joined, FillLocks, FillCopies, Drop, Connect, SetupFails, 
     FormatAccepted, FormatRefused, TimerFires, LoopReturns, BorrowPanics, vars

LEMMA CopyingStep == CaptureInv /\ [Next]_vars => Copying'
<1> SUFFICES ASSUME CaptureInv, [Next]_vars PROVE Copying'
  OBVIOUS
<1> USE DEF CaptureInv, Copying
<1>1. CASE HandshakeFails \/ Spawn \/ StartReturns \/ Joined \/ Drop
  BY <1>1 DEF HandshakeFails, Spawn, StartReturns, Joined, Drop, frames
<1>2. CASE FillLocks
  BY <1>2 DEF FillLocks, frames, TypeOK, AtMostOne
<1>3. CASE FillCopies
  <2>1. dst'.top = dst'.bottom
    BY <1>3 DEF FillCopies, ShownBuffers
  <2> QED
    BY <1>3, <2>1 DEF FillCopies, TypeOK
<1>4. CASE Events \/ TimerFires \/ LoopReturns \/ BorrowPanics
  BY <1>4 DEF Events, Connect, SetupFails, FormatAccepted, FormatRefused,
              TimerFires, LoopReturns, BorrowPanics, frames, callers, vars
<1>5. CASE ProcessStarts \/ Publish
  BY <1>5 DEF ProcessStarts, Publish, callers, TypeOK
<1>6. CASE Convert("top", "bottom") \/ Convert("bottom", "publish")
  <2>1. \A b \in slot : pixels'[b] = pixels[b]
    BY <1>6 DEF Convert, BuffersApart, TypeOK, AtMostOne
  <2> QED
    BY <1>6, <2>1 DEF Convert, callers
<1>7. CASE UNCHANGED vars
  BY <1>7 DEF vars, callers, frames
<1> QED
  BY <1>1, <1>2, <1>3, <1>4, <1>5, <1>6, <1>7 DEF Next, Caller, OnProcess

LEMMA InvAlways == Spec => []CaptureInv
<1>1. CaptureInv /\ [Next]_vars => CaptureInv'
  BY TypeStep, HandshakeStep, ApartStep, ShownStep, CopyingStep DEF CaptureInv
<1> QED
  BY InitInv, <1>1, PTL DEF Spec

-----------------------------------------------------------------------------
(* The capture's state is well typed for any buffers.                      *)
THEOREM TypeCorrect == Spec => []TypeOK
<1>1. CaptureInv => TypeOK
  BY DEF CaptureInv
<1> QED
  BY InvAlways, <1>1, PTL

(* The slot, the spare and the buffer under conversion are never shared.   *)
THEOREM ApartCorrect == Spec => []BuffersApart
<1>1. CaptureInv => BuffersApart
  BY DEF CaptureInv
<1> QED
  BY InvAlways, <1>1, PTL

(* start hears of the outcome exactly once, whatever PipeWire does.        *)
THEOREM ReportCorrect == Spec => []ReportedOnce
<1>1. CaptureInv => ReportedOnce
  BY DEF CaptureInv, Handshake, ReportedOnce
<1> QED
  BY InvAlways, <1>1, PTL

(* A start that failed and a drop that returned leave no thread behind.    *)
THEOREM OrphanCorrect == Spec => []NoOrphanThread
<1>1. CaptureInv => NoOrphanThread
  BY DEF CaptureInv, Handshake
<1> QED
  BY InvAlways, <1>1, PTL

-----------------------------------------------------------------------------
Newest == IF slot = {} THEN 0 ELSE Shown(pixels[CHOOSE b \in Buffers : b \in slot])

LEMMA NewestIs ==
  ASSUME TypeOK, ShownBuffers, NEW b \in slot
  PROVE  Newest = pixels[b].top
<1>1. slot = {b} /\ b \in Buffers
  BY DEF TypeOK, AtMostOne
<1>2. (CHOOSE c \in Buffers : c \in slot) = b
  BY <1>1
<1> QED
  BY <1>1, <1>2 DEF Newest, Shown, ShownBuffers

(* What a fill copies is the newest whole frame, never a mix of two and    *)
(* never an older one, for any buffers and any number of frames: every     *)
(* step of the capture is a step of FreshFrames or leaves its state alone. *)
THEOREM FreshCorrect == Spec => ImplementsFreshFrames
<1>1. Init => Fresh!Init
  BY DEF Init, Fresh!Init, Shown, Blank
<1>2. CaptureInv /\ CaptureInv' /\ [Next]_vars
        => [Fresh!Publish \/ Fresh!Take]_<<Newest, Shown(dst)>>
  <2> SUFFICES ASSUME CaptureInv, CaptureInv', [Next]_vars
               PROVE  [Fresh!Publish \/ Fresh!Take]_<<Newest, Shown(dst)>>
    OBVIOUS
  <2> USE DEF CaptureInv
  <2>1. CASE Publish
    <3>1. PICK b \in Buffers : filling = {b} /\ slot' = {b}
      BY <2>1 DEF Publish, TypeOK, AtMostOne, BuffersApart
    <3>2. Newest' = captured
      <4>1. Newest' = pixels'[b].top
        BY <3>1, NewestIs DEF Newest, ShownBuffers, TypeOK, AtMostOne, Shown
      <4> QED
        BY <2>1, <3>1, <4>1 DEF Publish, ShownBuffers
    <3>3. Newest < captured /\ captured \in Nat
      <4>1. CASE slot = {}
        BY <2>1, <3>1, <4>1 DEF Newest, TypeOK, Publish, ShownBuffers
      <4>2. ASSUME NEW c \in slot PROVE Newest < captured
        BY <2>1, <4>2, NewestIs DEF Publish, ShownBuffers
      <4> QED
        BY <4>1, <4>2 DEF TypeOK
    <3> QED
      BY <2>1, <3>2, <3>3 DEF Publish, callers, Fresh!Publish, Newest, TypeOK
  <2>2. CASE FillCopies
    <3>1. PICK b \in slot : dst' = [top |-> half, bottom |-> pixels[b].bottom]
      BY <2>2 DEF FillCopies
    <3>2. Shown(dst') = Newest /\ Newest > 0
      BY <2>2, <3>1, NewestIs DEF FillCopies, Copying, ShownBuffers, Shown
    <3>3. UNCHANGED Newest
      BY <2>2 DEF FillCopies, frames, Newest
    <3> QED
      BY <3>2, <3>3 DEF Fresh!Take, Newest
  <2>3. CASE Convert("top", "bottom") \/ Convert("bottom", "publish")
    <3>1. slot' = slot /\ \A b \in slot : pixels'[b] = pixels[b]
      BY <2>3 DEF Convert, BuffersApart, TypeOK, AtMostOne
    <3>2. UNCHANGED Newest
      <4>1. CASE slot = {}
        BY <3>1, <4>1 DEF Newest
      <4>2. CASE slot # {}
        <5>1. (CHOOSE c \in Buffers : c \in slot) \in slot
          BY <4>2 DEF TypeOK, AtMostOne
        <5> QED
          BY <3>1, <4>2, <5>1 DEF Newest
      <4> QED
        BY <4>1, <4>2
    <3> QED
      BY <2>3, <3>2 DEF Convert, callers
  <2>4. CASE UNCHANGED <<pixels, slot, dst>>
    BY <2>4 DEF Newest
  <2> QED
    BY <2>1, <2>2, <2>3, <2>4 DEF Next, Caller, Events, OnProcess, ProcessStarts, HandshakeFails,
       Spawn, StartReturns, Joined, FillLocks, Drop, Connect, SetupFails, 
       FormatAccepted, FormatRefused, TimerFires, LoopReturns, BorrowPanics, vars, frames, callers
<1> QED
  BY InvAlways, <1>1, <1>2, PTL DEF Spec, ImplementsFreshFrames, Fresh!Spec, Newest

(* Who holds which buffer while publish takes its three locks.             *)
MacHands ==
  /\ stage_ \in {"top", "bottom", "replace"} <=> filling_ # {}
  /\ stage_ # "idle" => spare_ = {}
  /\ stage_ # "store" => displaced = {}
  /\ slot_ \cap spare_ = {} /\ slot_ \cap filling_ = {} /\ slot_ \cap displaced = {}

(* How far start has come, and what it has chosen by then.                 *)
MacProgress ==
  /\ caller_ \in {"new", "enumerating"} => stream = "none"
  /\ caller_ = "starting" => stream = "requested"
  /\ caller_ = "running" => stream = "capturing"
  /\ caller_ = "dropped" => stream = "stopped"
  /\ caller_ \in {"starting", "running", "dropped"} =>
       display # {} /\ (target # {} => display = target)

(* What the buffers show, unless a plane may be null.                      *)
MacShownBuffers ==
  /\ \A b \in slot_ : /\ pixels_[b].top = pixels_[b].bottom
                      /\ 0 < pixels_[b].top /\ pixels_[b].top <= captured_
                      /\ filling_ # {} => pixels_[b].top < captured_
  /\ filling_ # {} => captured_ > 0
  /\ \A b \in filling_ : /\ stage_ \in {"bottom", "replace"} => pixels_[b].top = captured_
                         /\ stage_ = "replace" => pixels_[b].bottom = captured_

MacInv == Mac!TypeOK /\ MacHands /\ MacProgress /\ (~nullPlanes => MacShownBuffers)

-----------------------------------------------------------------------------
LEMMA MacInitInv == Mac!Init => MacInv
<1> SUFFICES ASSUME Mac!Init PROVE MacInv
  OBVIOUS
<1>1. pixels_ \in [Buffers -> Mac!Shot] /\ dst_ \in Mac!Shot
  BY DEF Mac!Init, Mac!Blank, Mac!Shot
<1>2. Mac!TypeOK
  BY <1>1 DEF Mac!Init, Mac!TypeOK, Mac!AtMostOne
<1> QED
  BY <1>2 DEF Mac!Init, MacInv, MacHands, MacProgress, MacShownBuffers

(* pick_display: {} or one of the displays in SCK's list, the target if    *)
(* there is one.                                                           *)
LEMMA MacPickIs ==
  ASSUME NEW list \in Mac!Lists, Mac!AtMostOne(target, Displays)
  PROVE  /\ Mac!AtMostOne(Mac!Pick(list), Displays)
         /\ target # {} /\ Mac!Pick(list) # {} => Mac!Pick(list) = target
<1>1. \A n \in 1 .. Len(list) : list[n] \in Displays
  <2>1. PICK n \in Nat : list \in [1 .. n -> Displays]
    BY DEF Mac!Lists
  <2> QED
    BY <2>1
<1>2. CASE target = {}
  <2>1. Mac!Pick(list) = {list[n] : n \in 1 .. Len(list) \cap {1}}
    BY <1>2 DEF Mac!Pick
  <2> QED
    BY <1>1, <1>2, <2>1 DEF Mac!AtMostOne
<1>3. CASE target # {}
  <2>1. Mac!Pick(list) = {list[n] : n \in 1 .. Len(list)} \cap target
    BY <1>3 DEF Mac!Pick
  <2> QED
    BY <1>3, <2>1 DEF Mac!AtMostOne
<1> QED
  BY <1>2, <1>3

(* The steps of start, fill and drop leave the buffers alone, those of     *)
(* publish the caller.                                                     *)
LEMMA MacApart ==
  ASSUME [Mac!Next]_(Mac!vars)
  PROVE  /\ UNCHANGED nullPlanes
         /\ Mac!PublishSteps \/ UNCHANGED Mac!frames
         /\ Mac!PublishSteps => UNCHANGED <<Mac!starting, dst_>>
<1> USE DEF Mac!starting, Mac!frames
<1>1. Mac!PublishSteps => UNCHANGED <<nullPlanes, Mac!starting, dst_>>
  BY DEF Mac!PublishSteps, Mac!TakeSpare, Mac!DiscardSample, Mac!SkipConversion, Mac!Convert,
         Mac!Replace, Mac!StoreSpare
<1>2. CASE Mac!PublishSteps
  BY <1>1, <1>2
<1>3. CASE \E list \in Mac!Lists : Mac!ContentReply(list)
  BY <1>1, <1>3 DEF Mac!ContentReply
<1>4. CASE \E ok \in BOOLEAN : Mac!StartReply(ok)
  BY <1>1, <1>4 DEF Mac!StartReply
<1>5. CASE \/ Mac!RequestContent \/ Mac!ContentRefused \/ Mac!TimeOut \/ Mac!Fill \/ Mac!Drop
           \/ UNCHANGED Mac!vars
  BY <1>1, <1>5 DEF Mac!RequestContent, Mac!ContentRefused, Mac!TimeOut, Mac!Fill, Mac!Drop,
                    Mac!vars
<1> QED
  BY <1>2, <1>3, <1>4, <1>5 DEF Mac!Next

LEMMA MacTypeStep == MacInv /\ [Mac!Next]_(Mac!vars) => Mac!TypeOK'
<1> SUFFICES ASSUME MacInv, [Mac!Next]_(Mac!vars) PROVE Mac!TypeOK'
  OBVIOUS
<1>0. Mac!TypeOK
  BY DEF MacInv
<1> USE DEF Mac!starting, Mac!frames
<1>1. CASE Mac!RequestContent \/ Mac!ContentRefused \/ Mac!TimeOut \/ Mac!Drop
  BY <1>0, <1>1 DEF Mac!RequestContent, Mac!ContentRefused, Mac!TimeOut, Mac!Drop, Mac!TypeOK
<1>2. ASSUME NEW list \in Mac!Lists, Mac!ContentReply(list) PROVE Mac!TypeOK'
  <2>1. Mac!AtMostOne(display', Displays)
    BY <1>0, <1>2, MacPickIs DEF Mac!ContentReply, Mac!TypeOK
  <2> QED
    BY <1>0, <1>2, <2>1 DEF Mac!ContentReply, Mac!TypeOK
<1>3. ASSUME NEW ok \in BOOLEAN, Mac!StartReply(ok) PROVE Mac!TypeOK'
  BY <1>0, <1>3 DEF Mac!StartReply, Mac!TypeOK
<1>4. CASE Mac!Fill
  <2>1. dst_' \in Mac!Shot
    BY <1>0, <1>4 DEF Mac!Fill, Mac!TypeOK, Mac!AtMostOne
  <2> QED
    BY <1>0, <1>4, <2>1 DEF Mac!Fill, Mac!TypeOK
<1>5. CASE Mac!TakeSpare
  <2>1. Mac!AtMostOne(filling_', Buffers) /\ Mac!AtMostOne({}, Buffers)
    BY <1>0, <1>5 DEF Mac!TakeSpare, Mac!TypeOK, Mac!AtMostOne
  <2> QED
    BY <1>0, <1>5, <2>1 DEF Mac!TakeSpare, Mac!TypeOK
<1>6. CASE Mac!DiscardSample \/ Mac!SkipConversion \/ Mac!Replace \/ Mac!StoreSpare
  <2>1. Mac!AtMostOne({}, Buffers)
    BY DEF Mac!AtMostOne
  <2> QED
    BY <1>0, <1>6, <2>1 DEF Mac!DiscardSample, Mac!SkipConversion, Mac!Replace,
                            Mac!StoreSpare, Mac!TypeOK
<1>7. ASSUME NEW part \in {"top", "bottom"}, NEW next \in {"bottom", "replace"},
             Mac!Convert(part, next)
      PROVE  Mac!TypeOK'
  <2>1. \A b \in Buffers : [pixels_[b] EXCEPT ![part] = captured_] \in Mac!Shot
    BY <1>0 DEF Mac!TypeOK, Mac!Shot
  <2>2. pixels_' \in [Buffers -> Mac!Shot]
    BY <1>0, <1>7, <2>1 DEF Mac!Convert, Mac!TypeOK
  <2> QED
    BY <1>0, <1>7, <2>2 DEF Mac!Convert, Mac!TypeOK
<1>8. CASE UNCHANGED Mac!vars
  BY <1>0, <1>8 DEF Mac!vars, Mac!TypeOK
<1> QED
  BY <1>1, <1>2, <1>3, <1>4, <1>5, <1>6, <1>7, <1>8 DEF Mac!Next, Mac!PublishSteps

LEMMA MacHandsStep == MacInv /\ [Mac!Next]_(Mac!vars) => MacHands'
<1> SUFFICES ASSUME MacInv, [Mac!Next]_(Mac!vars) PROVE MacHands'
  OBVIOUS
<1>0. Mac!TypeOK /\ MacHands
  BY DEF MacInv
<1>1. CASE Mac!TakeSpare
  BY <1>0, <1>1 DEF Mac!TakeSpare, MacHands, Mac!TypeOK, Mac!AtMostOne
<1>2. CASE Mac!DiscardSample \/ Mac!SkipConversion \/ Mac!Replace \/ Mac!StoreSpare
  BY <1>0, <1>2 DEF Mac!DiscardSample, Mac!SkipConversion, Mac!Replace, Mac!StoreSpare, MacHands
<1>3. CASE Mac!Convert("top", "bottom") \/ Mac!Convert("bottom", "replace")
  BY <1>0, <1>3 DEF Mac!Convert, MacHands
<1>4. CASE UNCHANGED Mac!frames
  BY <1>0, <1>4 DEF Mac!frames, MacHands
<1> QED
  BY <1>1, <1>2, <1>3, <1>4, MacApart DEF Mac!PublishSteps

LEMMA MacProgressStep == MacInv /\ [Mac!Next]_(Mac!vars) => MacProgress'
<1> SUFFICES ASSUME MacInv, [Mac!Next]_(Mac!vars) PROVE MacProgress'
  OBVIOUS
<1>0. Mac!TypeOK /\ MacProgress
  BY DEF MacInv
<1>1. CASE Mac!RequestContent \/ Mac!ContentRefused \/ Mac!TimeOut \/ Mac!Fill \/ Mac!Drop
  BY <1>0, <1>1 DEF Mac!RequestContent, Mac!ContentRefused, Mac!TimeOut, Mac!Fill, Mac!Drop,
                    MacProgress, Mac!starting
<1>2. ASSUME NEW list \in Mac!Lists, Mac!ContentReply(list) PROVE MacProgress'
  BY <1>0, <1>2, MacPickIs DEF Mac!ContentReply, MacProgress, Mac!TypeOK
<1>3. ASSUME NEW ok \in BOOLEAN, Mac!StartReply(ok) PROVE MacProgress'
  BY <1>0, <1>3 DEF Mac!StartReply, MacProgress
<1>4. CASE Mac!PublishSteps \/ UNCHANGED Mac!vars
  <2>1. UNCHANGED Mac!starting
    BY <1>4, MacApart DEF Mac!vars
  <2> QED
    BY <1>0, <2>1 DEF Mac!starting, MacProgress
<1> QED
  BY <1>1, <1>2, <1>3, <1>4 DEF Mac!Next

LEMMA MacShownStep == MacInv /\ [Mac!Next]_(Mac!vars) => (~nullPlanes => MacShownBuffers)'
<1> SUFFICES ASSUME MacInv, [Mac!Next]_(Mac!vars), ~nullPlanes PROVE MacShownBuffers'
  BY MacApart
<1>0. /\ MacHands /\ MacShownBuffers
      /\ captured_ \in Nat /\ pixels_ \in [Buffers -> Mac!Shot]
      /\ slot_ \subseteq Buffers /\ filling_ \subseteq Buffers
  BY DEF MacInv, Mac!TypeOK, Mac!AtMostOne
<1>1. CASE Mac!TakeSpare
  <2>1. \A b \in slot_ : pixels_[b].top \in Nat
    BY <1>0 DEF Mac!Shot
  <2> QED
    BY <1>0, <1>1, <2>1 DEF Mac!TakeSpare, MacShownBuffers
<1>2. CASE Mac!Convert("top", "bottom")
  <2>1. \A b \in slot_ : pixels_'[b] = pixels_[b]
    BY <1>0, <1>2 DEF Mac!Convert, MacHands
  <2>2. \A b \in filling_ : pixels_'[b].top = captured_
    BY <1>0, <1>2 DEF Mac!Convert, Mac!Shot
  <2>3. stage_' = "bottom" /\ UNCHANGED <<slot_, filling_, captured_>>
    BY <1>2 DEF Mac!Convert
  <2> QED
    BY <1>0, <2>1, <2>2, <2>3 DEF MacShownBuffers
<1>3. CASE Mac!Convert("bottom", "replace")
  <2>1. \A b \in slot_ : pixels_'[b] = pixels_[b]
    <3>1. \A b \in slot_ : b \in Buffers /\ b \notin filling_
      BY <1>0 DEF MacHands
    <3>2. pixels_' = [b \in Buffers |->
                       IF b \in filling_ THEN [pixels_[b] EXCEPT !["bottom"] = captured_]
                                         ELSE pixels_[b]]
      BY <1>3 DEF Mac!Convert
    <3> QED
      BY <3>1, <3>2
  <2>2. \A b \in filling_ : pixels_'[b].top = captured_ /\ pixels_'[b].bottom = captured_
    BY <1>0, <1>3 DEF Mac!Convert, Mac!Shot, MacShownBuffers
  <2> QED
    BY <1>0, <1>3, <2>1, <2>2 DEF Mac!Convert, MacShownBuffers
<1>4. CASE Mac!Replace
  BY <1>0, <1>4 DEF Mac!Replace, MacShownBuffers, MacHands
<1>5. CASE Mac!DiscardSample \/ Mac!StoreSpare
  BY <1>0, <1>5 DEF Mac!DiscardSample, Mac!StoreSpare, MacShownBuffers
<1>6. CASE Mac!SkipConversion
  BY <1>6 DEF Mac!SkipConversion
<1>7. CASE UNCHANGED Mac!frames
  BY <1>0, <1>7 DEF Mac!frames, MacShownBuffers
<1> QED
  BY <1>1, <1>2, <1>3, <1>4, <1>5, <1>6, <1>7, MacApart DEF Mac!PublishSteps

LEMMA MacInvAlways == Mac!Spec => []MacInv
<1>1. MacInv /\ [Mac!Next]_(Mac!vars) => MacInv'
  BY MacTypeStep, MacHandsStep, MacProgressStep, MacShownStep DEF MacInv
<1> QED
  BY MacInitInv, <1>1, PTL DEF Mac!Spec

-----------------------------------------------------------------------------
(* The macOS capture's state is well typed for any buffers and displays    *)
(* (sck.rs).                                                               *)
THEOREM MacTypeCorrect == Mac!Spec => []Mac!TypeOK
<1>1. MacInv => Mac!TypeOK
  BY DEF MacInv
<1> QED
  BY MacInvAlways, <1>1, PTL

(* publish gives up its locks between its steps and yet no buffer is ever  *)
(* in two hands (sck.rs, publish).                                         *)
THEOREM MacApartCorrect == Mac!Spec => []Mac!BuffersApart
<1>1. MacInv => Mac!BuffersApart
  BY DEF MacInv, MacHands, Mac!BuffersApart
<1> QED
  BY MacInvAlways, <1>1, PTL

(* A capture that start hands out shows the display asked for, however     *)
(* late or early SCK answers (sck.rs, start and pick_display).             *)
THEOREM MacTargetCorrect == Mac!Spec => []Mac!TargetHonoured
<1>1. MacInv => Mac!TargetHonoured
  BY DEF MacInv, MacProgress, Mac!TargetHonoured
<1> QED
  BY MacInvAlways, <1>1, PTL

-----------------------------------------------------------------------------
LEMMA MacInSlotIs ==
  ASSUME Mac!TypeOK, NEW b \in slot_
  PROVE  Mac!InSlot = Mac!Shown(pixels_[b])
<1>1. slot_ = {b} /\ b \in Buffers
  BY DEF Mac!TypeOK, Mac!AtMostOne
<1>2. (CHOOSE c \in Buffers : c \in slot_) = b
  BY <1>1
<1> QED
  BY <1>1, <1>2 DEF Mac!InSlot

MacNewest == IF nullPlanes THEN 0 ELSE Mac!InSlot
MacTaken == IF nullPlanes THEN 0 ELSE Mac!Shown(dst_)

LEMMA MacFreshInit == Mac!Init => Mac!Fresh!Init
  BY DEF Mac!Init, Mac!Fresh!Init, Mac!Shown, Mac!InSlot, Mac!Blank

LEMMA MacFreshStep ==
  MacInv /\ MacInv' /\ [Mac!Next]_(Mac!vars)
    => [Mac!Fresh!Publish \/ Mac!Fresh!Take]_<<MacNewest, MacTaken>>
<1> SUFFICES ASSUME MacInv, MacInv', [Mac!Next]_(Mac!vars)
             PROVE  [Mac!Fresh!Publish \/ Mac!Fresh!Take]_<<MacNewest, MacTaken>>
  OBVIOUS
<1>0. /\ UNCHANGED nullPlanes
      /\ Mac!TypeOK /\ MacHands /\ (~nullPlanes => MacShownBuffers)
  BY MacApart DEF MacInv
<1>1. CASE nullPlanes
  BY <1>0, <1>1 DEF MacNewest, MacTaken
<1>2. CASE ~nullPlanes /\ Mac!Replace
  <2>1. PICK b \in Buffers : filling_ = {b} /\ slot_' = {b}
    BY <1>0, <1>2 DEF Mac!Replace, MacHands, Mac!TypeOK, Mac!AtMostOne
  <2>2. pixels_[b].top = captured_ /\ pixels_[b].bottom = captured_ /\ captured_ \in Nat \ {0}
    BY <1>0, <1>2, <2>1 DEF MacShownBuffers, Mac!Replace, Mac!TypeOK
  <2>3. Mac!InSlot' = captured_
    <3>1. (CHOOSE c \in Buffers : c \in slot_') = b
      BY <2>1
    <3> QED
      BY <1>2, <2>1, <2>2, <3>1 DEF Mac!InSlot, Mac!Replace, Mac!Shown
  <2>4. Mac!InSlot < captured_
    <3>1. CASE slot_ = {}
      BY <2>2, <3>1 DEF Mac!InSlot
    <3>2. ASSUME NEW c \in slot_ PROVE Mac!InSlot < captured_
      BY <1>0, <1>2, <2>1, <3>2, MacInSlotIs DEF MacShownBuffers, Mac!Shown
    <3> QED
      BY <3>1, <3>2
  <2> QED
    BY <1>0, <1>2, <2>2, <2>3, <2>4 DEF Mac!Replace, Mac!Fresh!Publish, MacNewest, MacTaken
<1>3. CASE ~nullPlanes /\ Mac!Fill
  <2>1. PICK b \in slot_ : dst_' = pixels_[b]
    BY <1>3 DEF Mac!Fill
  <2>2. Mac!Shown(dst_') = Mac!InSlot /\ Mac!InSlot > 0
    BY <1>0, <1>3, <2>1, MacInSlotIs DEF MacShownBuffers, Mac!Shown
  <2>3. UNCHANGED Mac!InSlot
    BY <1>3 DEF Mac!Fill, Mac!frames, Mac!InSlot
  <2> QED
    BY <1>0, <1>3, <2>2, <2>3 DEF Mac!Fresh!Take, MacNewest, MacTaken
<1>4. CASE Mac!Convert("top", "bottom") \/ Mac!Convert("bottom", "replace")
  <2>1. UNCHANGED <<slot_, dst_>> /\ \A b \in slot_ : pixels_'[b] = pixels_[b]
    BY <1>0, <1>4 DEF Mac!Convert, MacHands, Mac!TypeOK, Mac!AtMostOne
  <2>2. UNCHANGED Mac!InSlot
    <3>1. CASE slot_ = {}
      BY <2>1, <3>1 DEF Mac!InSlot
    <3>2. CASE slot_ # {}
      <4>1. (CHOOSE c \in Buffers : c \in slot_) \in slot_
        BY <1>0, <3>2 DEF Mac!TypeOK, Mac!AtMostOne
      <4> QED
        BY <2>1, <3>2, <4>1 DEF Mac!InSlot
    <3> QED
      BY <3>1, <3>2
  <2> QED
    BY <1>0, <2>1, <2>2 DEF MacNewest, MacTaken
<1>5. CASE UNCHANGED <<pixels_, slot_, dst_>>
  BY <1>0, <1>5 DEF MacNewest, MacTaken, Mac!InSlot
<1>6. /\ ~Mac!Replace /\ ~Mac!Fill
      /\ ~(Mac!Convert("top", "bottom") \/ Mac!Convert("bottom", "replace"))
      => UNCHANGED <<pixels_, slot_, dst_>>
  <2>1. CASE \E list \in Mac!Lists : Mac!ContentReply(list)
    BY <2>1 DEF Mac!ContentReply, Mac!frames
  <2>2. CASE \E ok \in BOOLEAN : Mac!StartReply(ok)
    BY <2>2 DEF Mac!StartReply, Mac!frames
  <2> QED
    BY <2>1, <2>2 DEF Mac!Next, Mac!PublishSteps, Mac!RequestContent, Mac!ContentRefused,
       Mac!TimeOut, Mac!Drop, Mac!TakeSpare, Mac!DiscardSample, Mac!SkipConversion,
       Mac!StoreSpare, Mac!vars, Mac!frames
<1> QED
  BY <1>1, <1>2, <1>3, <1>4, <1>5, <1>6

(* Where every plane is mapped, every step of the macOS capture is a step  *)
(* of FreshFrames or leaves its state alone: a fill copies the newest      *)
(* whole frame, never a mix of two and never an older one (sck.rs, fill    *)
(* and publish).                                                           *)
THEOREM MacFreshCorrect == Mac!Spec => Mac!ImplementsFreshFrames
  BY MacInvAlways, MacFreshInit, MacFreshStep, PTL
     DEF Mac!Spec, Mac!ImplementsFreshFrames, Mac!Fresh!Spec, MacNewest, MacTaken

-----------------------------------------------------------------------------
(* The two side by side, as MCCapture runs them.                           *)
LEMMA BothAlways ==
  MCSpec => /\ [](CaptureInv /\ MacInv)
            /\ [][Next]_vars /\ [][Mac!Next]_(Mac!vars) /\ Init /\ Mac!Init
<1>1. MCInit => Init /\ Mac!Init
  BY DEF MCInit
<1>2. [MCNext]_<<platform, vars, macVars>> => [Next]_vars /\ [Mac!Next]_(Mac!vars)
  <2>1. UNCHANGED macVars => UNCHANGED Mac!vars
    BY DEF macVars, Mac!vars, Mac!starting, Mac!frames
  <2> QED
    BY <2>1 DEF MCNext
<1>3. CaptureInv /\ [Next]_vars => CaptureInv'
  BY TypeStep, HandshakeStep, ApartStep, ShownStep, CopyingStep DEF CaptureInv
<1>4. MacInv /\ [Mac!Next]_(Mac!vars) => MacInv'
  BY MacTypeStep, MacHandsStep, MacProgressStep, MacShownStep DEF MacInv
<1> QED
  BY InitInv, MacInitInv, <1>1, <1>2, <1>3, <1>4, PTL DEF MCSpec

(* No buffer of either capture is ever in two hands, though both give up   *)
(* their locks between the steps of a publish (stream.rs, sck.rs).         *)
THEOREM KeptApartCorrect == MCSpec => []BuffersKeptApart
<1>1. CaptureInv /\ MacInv => BuffersKeptApart
  BY DEF CaptureInv, MacInv, MacHands, BuffersKeptApart, Mac!BuffersApart
<1> QED
  BY BothAlways, <1>1, PTL

(* A macOS capture that start hands out shows the display asked for, and a *)
(* Linux build leaves that promise alone (sck.rs, start and pick_display). *)
THEOREM TargetCorrect == MCSpec => []TargetHonoured
<1>1. MacInv => TargetHonoured
  BY DEF MacInv, MacProgress, TargetHonoured, Mac!TargetHonoured
<1> QED
  BY BothAlways, <1>1, PTL

(* The macOS capture gives the media loop whole frames, none of them older *)
(* than the one before it, in a build of either platform (sck.rs, fill).   *)
THEOREM BothFreshCorrect == MCSpec => MacImplementsFreshFrames
  BY BothAlways, MacFreshInit, MacFreshStep, PTL
     DEF MacImplementsFreshFrames, Mac!ImplementsFreshFrames, Mac!Fresh!Spec, MacNewest, MacTaken
=============================================================================
