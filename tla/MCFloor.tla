------------------------------ MODULE MCFloor -------------------------------
(***************************************************************************)
(* Instances of Floor for TLC: PROTECTED holds two ports, so that 443 is   *)
(* refused when it takes the place of 80, which goes only after 443 came,  *)
(* and fits where 22 was alone.                                            *)
(***************************************************************************)
EXTENDS Floor

MCPortList == {<<22>>, <<443>>}
MCPolicy == {{22}, {22, 80}, {22, 443}}
=============================================================================
