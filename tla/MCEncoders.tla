----------------------------- MODULE MCEncoders -----------------------------
(* Small instances of an encoder from opening to drop (Encoders) and of the *)
(* bitstream VideoToolbox's units are rewritten into (AnnexB), one of them  *)
(* at a time.                                                               *)
EXTENDS Encoders, AnnexB

VARIABLE part     \* which of the two; the other rests in an initial state

MCInit ==
  /\ part \in {"encoder", "bitstream"}
  /\ part = "encoder" => src = <<>> /\ size = 1 /\ repeat = FALSE
  /\ part = "bitstream" => /\ backend = [kind |-> "videotoolbox", holds |-> 0]
                           /\ accepts = [k \in Hints \cup Constraints |-> "ok"]
  /\ Init /\ BitInit

MCNext ==
  \/ part = "encoder" /\ Next /\ UNCHANGED <<part, bitVars>>
  \/ part = "bitstream" /\ BitNext /\ UNCHANGED <<part, vars>>

MCSpec == MCInit /\ [][MCNext]_<<part, vars, bitVars>>

\* Zero and short lengths, the first byte of a P slice (2) and of an IDR slice.
MCBytes == {0, 1, 2, 40}

MCSets == <<<<64>>, <<66>>, <<68>>>>

(* Types of the two parts.                                                  *)
PartsTypeOK == TypeOK /\ BitTypeOK
=============================================================================
