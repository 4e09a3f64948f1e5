------------------------------- MODULE MCHost --------------------------------
(* A small instance of Host: two connections and two streams, one size a    *)
(* peer can ask for.                                                        *)
EXTENDS Host

MCHostMax == [w |-> 8, h |-> 6]
MCInitSize == [w |-> 6, h |-> 4]
=============================================================================
