---------------------------- MODULE MCReassembler ----------------------------
(* Small instances of the three views of the video path, one at a time: the *)
(* receiver of fragments (Reassembler), the datagrams they travel in        *)
(* (Datagram), and the loop from a lost frame to the next IDR (Recovery).   *)
EXTENDS Reassembler, Datagram

CONSTANTS InFlight, MaxAsked

VARIABLES
  part,      \* which of the three; the others rest in their initial state
  fresh, queued, flight, complete, decoded, asked, sinceAsk, frozen

loopVars == <<fresh, queued, flight, complete, decoded, asked, sinceAsk, frozen>>

Loop == INSTANCE Recovery

ASSUME LoopAssumption == Loop!RecoveryAssumption

MCInit ==
  /\ part \in {"reassembly", "wire", "loop"}
  /\ Init /\ WireInit /\ Loop!Init

MCNext ==
  \/ part = "reassembly" /\ Next /\ UNCHANGED <<part, wireVars, loopVars>>
  \/ part = "wire" /\ WireNext /\ UNCHANGED <<part, vars, loopVars>>
  \/ part = "loop" /\ Loop!Next /\ UNCHANGED <<part, vars, wireVars>>

MCSpec ==
  /\ MCInit /\ [][MCNext]_<<part, vars, wireVars, loopVars>>
  /\ part = "loop" => Loop!Fairness

-----------------------------------------------------------------------------
(* Six frames, two of them IDRs, of one or two fragments.                   *)
MCCount == [s \in Seqs |-> IF s \in {2, 4} THEN 1 ELSE 2]
MCKeyframes == {0, 3}

\* Bodies that are empty, fill a datagram, and leave a rest.
MCBodies == {0, 1, 2, 3, 5, 6}

\* Every header over small fields, with a reserved bit set or not, in a datagram
\* with no payload, and some in datagrams too short or too long.
MCForeign ==
  LET headers == [ magic : {MAGIC, 0}, stream : {0, 1, 2, 3}, seq : {0}, index : 0 .. 2,
                   count : 0 .. 2, flags : {0, 1, 2, 3, 4, 7} ]
      sizes == {3, HEADER_LEN + MAX_PAYLOAD, HEADER_LEN + MAX_PAYLOAD + 1}
  IN  {[bytes |-> HEADER_LEN, header |-> h, payload |-> <<>>] : h \in headers}
      \cup {[bytes |-> n, header |-> Header(TRUE, 0, 0, 1, 2), payload |-> <<>>] : n \in sizes}

-----------------------------------------------------------------------------
(* Types of the three parts.                                                *)
PartsTypeOK == TypeOK /\ WireTypeOK /\ Loop!TypeOK

(* Whatever is lost, a picture comes and a frozen one moves again           *)
(* (reassembly.rs, media/mod.rs).                                           *)
FreezeEnds == part = "loop" => Loop!FreezeEnds

(* Recovery does not feed on itself: requests come to an end.               *)
RequestsEnd == part = "loop" => Loop!RequestsEnd
=============================================================================
