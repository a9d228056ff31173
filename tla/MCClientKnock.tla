--------------------------- MODULE MCClientKnock ----------------------------
(***************************************************************************)
(* Instances of ClientKnock for TLC.                                       *)
(***************************************************************************)
EXTENDS ClientKnock

MCPortList == {<<22, 80>>, <<80>>}
MCDrift == -1
=============================================================================
