------------------------------ MODULE MCOtaUpdate ------------------------------
(* Constants for checking OtaUpdate: the image of u1 starts its bridge, that of *)
(* u2 does not.                                                            *)
EXTENDS OtaUpdate

CONSTANTS u1, u2

BadUpdate  == {u2}
TwoUpdates == {u1, u2}

SoundImages == {u1, Factory}
OnlyFactory == {Factory}
===============================================================================
