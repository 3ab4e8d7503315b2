----------------------------- MODULE SerialStream -----------------------------
(***************************************************************************)
(* What a console session promises about the bytes its serial device sends *)
(* (README, "console"): they reach the client in the order in which they   *)
(* came, each at most once; none is lost while fewer than Low wait, at     *)
(* most High ever wait; and all that comes before the stream opens is      *)
(* discarded.  A byte is its position in what the device sent.             *)
(***************************************************************************)
EXTENDS Integers, Sequences

CONSTANTS Low, High

VARIABLES
  heard,      \* how many bytes the device has sent
  waiting,    \* those on the way to the client, oldest first
  delivered,  \* those the client's channel has taken, in order
  opened      \* does the stream let bytes through

svars == <<heard, waiting, delivered, opened>>

SInit ==
  /\ heard = 0
  /\ waiting = <<>>
  /\ delivered = <<>>
  /\ opened \in BOOLEAN

\* n more bytes, of which the last n - k do not fit.
Hear ==
  /\ \E k \in 0 .. heard' - heard :
       /\ waiting' = waiting \o [i \in 1 .. k |-> heard + i]
       /\ k < heard' - heard => Len(waiting) + k >= Low
       /\ Len(waiting) + k <= High
  /\ heard' > heard
  /\ UNCHANGED <<delivered, opened>>

\* The oldest k bytes leave.
Leaves(k) == waiting' = SubSeq(waiting, k + 1, Len(waiting))

Deliver ==
  /\ opened
  /\ \E k \in 1 .. Len(waiting) :
       /\ Leaves(k)
       /\ delivered' = delivered \o SubSeq(waiting, 1, k)
  /\ UNCHANGED <<heard, opened>>

Discard ==
  /\ ~opened
  /\ \E k \in 1 .. Len(waiting) : Leaves(k)
  /\ UNCHANGED <<heard, delivered, opened>>

Open ==
  /\ ~opened
  /\ opened' = TRUE
  /\ UNCHANGED <<heard, waiting, delivered>>

SNext == Hear \/ Deliver \/ Discard \/ Open

SSpec == SInit /\ [][SNext]_svars

\* Under SFairSpec a waiting byte of an open stream is delivered.
SFairSpec == SSpec /\ WF_svars(Deliver)
===============================================================================
