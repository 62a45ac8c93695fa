-------------------------- MODULE MCGroundStation --------------------------
(* An instance of GroundStation for TLC: a header is two units, as long as  *)
(* a record; a misread header may announce nothing, a part of a record, or  *)
(* a record.                                                                *)
EXTENDS GroundStation

MCGarbled ==
    {[type |-> "other", nbytes |-> 1], [type |-> "text", nbytes |-> 0],
     [type |-> "text", nbytes |-> 2]}
=============================================================================
