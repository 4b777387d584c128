-------------------------------- MODULE MCHub --------------------------------
(* A payload that fits the journal several times over and one that exceeds *)
(* it alone.                                                               *)
EXTENDS Hub

MCSize == {1, 4}
=============================================================================
