------------------------------ MODULE MCWsBridge ------------------------------
(* Constants for checking WsBridge.                                        *)
EXTENDS WsBridge

\* Others is retain, on lists of up to three descriptors.
ASSUME RetainAssumption ==
  \A list \in BoundedSeq(Fd, 3), f \in Fd :
    Others(list, f) = SelectSeq(list, LAMBDA g : g # f)

CONSTANTS com1, usb0

TwoPorts == <<com1, usb0>>
\* With rings of one byte a terminal that heard the first may miss the second
\* and hear the third.  The other port is silent: what its terminals heard
\* would be com1's.
ThreeOnCom1 == com1 :> 3 @@ usb0 :> 0
===============================================================================
