-------------------------------- MODULE CdcRing --------------------------------
(***************************************************************************)
(* The ring buffer of one console session (ring_slot_t of ssh_bridge.c):   *)
(* the receive thread writes in ring_write_locked, the session reads in    *)
(* ring_read, each a loop over single bytes under s_devtable_mutex.        *)
(*                                                                         *)
(* A byte is its position in what the device sent.                         *)
(***************************************************************************)
EXTENDS Integers, Sequences

CONSTANTS
  RingSize,   \* CDC_RING_SZ
  MaxLen,     \* max_len, the size of the reader's buffer
  MaxHeard    \* bound: bytes the device ever sends

ASSUME RingAssumption ==
  /\ RingSize \in Nat \ {0}
  /\ MaxLen \in Nat \ {0}
  /\ MaxHeard \in Nat

VARIABLES
  ring, head, tail,  \* ring_slot_t
  mutex,             \* who holds s_devtable_mutex
  heard,             \* bytes sent so far, those before "left" included
  left,              \* len - i: bytes ring_write_locked has still to write
  n,                 \* n of ring_read
  out                \* all that ring_read ever copied to a caller's buffer

vars == <<ring, head, tail, mutex, heard, left, n, out>>

Index == 0 .. RingSize - 1

TypeOK ==
  /\ ring \in [Index -> Nat]
  /\ head \in Index
  /\ tail \in Index
  /\ mutex \in {"free", "writer", "reader"}
  /\ heard \in Nat
  /\ left \in Nat
  /\ n \in Nat
  /\ out \in Seq(Nat)

\* devtable_acquire: fresh from heap_caps_malloc the content is arbitrary, and
\* nothing reads it before it is written.
Init ==
  /\ ring = [i \in Index |-> 0]
  /\ head = 0
  /\ tail = 0
  /\ mutex = "free"
  /\ heard = 0
  /\ left = 0
  /\ n = 0
  /\ out = <<>>

Next1(i) == (i + 1) % RingSize

-----------------------------------------------------------------------------
(* device_broadcast_write and ring_write_locked.                           *)

write_begin ==
  /\ mutex = "free"
  /\ mutex' = "writer"
  /\ left' \in 1 .. MaxHeard - heard
  /\ UNCHANGED <<ring, head, tail, heard, n, out>>

\* Mutant: the oldest bytes are overwritten.
write_byte_overwrites ==
  /\ mutex = "writer"
  /\ left > 0
  /\ heard' = heard + 1
  /\ left' = left - 1
  /\ ring' = [ring EXCEPT ![head] = heard']
  /\ head' = Next1(head)
  /\ UNCHANGED <<tail, mutex, n, out>>

\* One turn of the loop: without room the byte is dropped.
write_byte ==
  /\ mutex = "writer"
  /\ left > 0
  /\ heard' = heard + 1
  /\ left' = left - 1
  /\ IF Next1(head) # tail
     THEN /\ ring' = [ring EXCEPT ![head] = heard']
          /\ head' = Next1(head)
     ELSE UNCHANGED <<ring, head>>
  /\ UNCHANGED <<tail, mutex, n, out>>

write_end ==
  /\ mutex = "writer"
  /\ left = 0
  /\ mutex' = "free"
  /\ UNCHANGED <<ring, head, tail, heard, left, n, out>>

-----------------------------------------------------------------------------
(* ring_read.                                                              *)

read_begin ==
  /\ mutex = "free"
  /\ mutex' = "reader"
  /\ n' = 0
  /\ UNCHANGED <<ring, head, tail, heard, left, out>>

read_byte ==
  /\ mutex = "reader"
  /\ tail # head
  /\ n < MaxLen
  /\ out' = Append(out, ring[tail])
  /\ n' = n + 1
  /\ tail' = Next1(tail)
  /\ UNCHANGED <<ring, head, mutex, heard, left>>

read_end ==
  /\ mutex = "reader"
  /\ tail = head \/ n >= MaxLen
  /\ mutex' = "free"
  /\ UNCHANGED <<ring, head, tail, heard, left, n, out>>

Next ==
  \/ write_begin \/ write_byte \/ write_end
  \/ read_begin \/ read_byte \/ read_end

Spec == Init /\ [][Next]_vars

\* The session calls ring_read in every turn of its loop, and a task that waits
\* for the mutex gets it.
FairSpec ==
  /\ Spec
  /\ WF_vars(write_byte \/ write_end)
  /\ SF_vars(read_begin)
  /\ WF_vars(read_byte \/ read_end)

-----------------------------------------------------------------------------
\* What is in the ring, oldest first: one cell always stays free, so that
\* head = tail means empty and never full.
Fill(h, t) == (h - t) % RingSize

Content(r, h, t) == [i \in 1 .. Fill(h, t) |-> r[(t + i - 1) % RingSize]]

Contents == Content(ring, head, tail)

\* The ring keeps the promise of SerialStream with RingSize - 1 bytes: byte by
\* byte, whatever the interleaving of the two loops, no byte is lost before
\* the ring is full, none comes twice or out of order, and every byte that is
\* in the ring is read in the end.
Stream == INSTANCE SerialStream
  WITH Low <- RingSize - 1, High <- RingSize - 1, waiting <- Contents,
       delivered <- out, opened <- TRUE

StreamSpec     == Stream!SSpec
StreamFairSpec == Stream!SFairSpec
===============================================================================
