--------------------------- MODULE MCResilientLlm ---------------------------
(* Small instances of ResilientLlm for TLC. *)
EXTENDS ResilientLlm, TLC

CONSTANTS p1, c1, c2

MCRpm == p1 :> 2

MCHeader == {[kind |-> "none", value |-> 0], [kind |-> "after", value |-> 2]}

=============================================================================
