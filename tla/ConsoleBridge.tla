----------------------------- MODULE ConsoleBridge -----------------------------
(***************************************************************************)
(* The data path of one console session (ssh_session_task of ssh_bridge.c, *)
(* from the flush after the banner to the end of the bridge loop), with    *)
(* the receive thread that fills its ring and the SSH client.              *)
(*                                                                         *)
(* Bytes from the device and keys from the client are their positions in   *)
(* what was sent.  The ring is the bounded queue that CdcRing implements,  *)
(* private to the session; SshBridge says when it is.                      *)
(***************************************************************************)
EXTENDS Integers, Sequences

CONSTANTS
  RingCap,   \* bytes that fit in the ring, CDC_RING_SZ - 1
  BufSize,   \* sizeof(buf): bytes of one ring_read, keys of one ChannelIdRead
  Window,    \* bytes the client's channel window holds
  MaxHeard,  \* bound: bytes the device ever sends
  MaxTyped   \* bound: keys the client ever types

ASSUME ConsoleAssumption ==
  /\ RingCap \in Nat \ {0}
  /\ BufSize \in Nat \ {0}
  /\ Window \in Nat \ {0}
  /\ MaxHeard \in Nat
  /\ MaxTyped \in Nat

VARIABLES
  pc,              \* location of the session task
  heard,           \* bytes the device has sent
  ring,            \* bytes in the session's ring, oldest first
  pend,            \* pend_buf from pend_off on, or buf between read and send
  input_received,
  delivered,       \* bytes wolfSSH_ChannelIdSend took
  limit,           \* how many it may take in all, by the window the server knows
  consumed,        \* how many of them the client has read
  typed,           \* keys the client has sent
  socket,          \* keys on the way, before wolfSSH_worker
  channel,         \* keys in wolfSSH's channel buffer
  keys,            \* keys in buf, for device_write_cb
  written,         \* keys the device was given
  onType, onWrite  \* history: "heard" when the first key was typed / written

serialVars  == <<heard, ring>>
sendVars    == <<pend, delivered, limit>>
keyVars     == <<socket, channel, keys, written>>
clientVars  == <<consumed, typed, onType>>
vars == <<pc, serialVars, sendVars, input_received, keyVars, clientVars, onWrite>>

Location == {"flush", "poll", "input", "write", "discard", "pending", "take",
             "send", "cleanup"}

Positions(max) == Seq(1 .. max)

TypeOK ==
  /\ pc \in Location
  /\ heard \in 0 .. MaxHeard
  /\ ring \in Positions(MaxHeard) /\ Len(ring) <= RingCap
  /\ pend \in Positions(MaxHeard) /\ Len(pend) <= BufSize
  /\ input_received \in BOOLEAN
  /\ delivered \in Positions(MaxHeard)
  /\ consumed \in 0 .. Len(delivered)
  /\ limit \in Len(delivered) .. consumed + Window
  /\ typed \in 0 .. MaxTyped
  /\ socket \in Positions(MaxTyped)
  /\ channel \in Positions(MaxTyped)
  /\ keys \in Positions(MaxTyped) /\ Len(keys) <= BufSize
  /\ written \in Positions(MaxTyped)
  /\ onType \in 0 .. MaxHeard \cup {-1}
  /\ onWrite \in 0 .. MaxHeard \cup {-1}

\* The ring was acquired, the banner is sent.
Init ==
  /\ pc = "flush"
  /\ heard = 0
  /\ ring = <<>>
  /\ pend = <<>>
  /\ input_received = FALSE
  /\ delivered = <<>>
  /\ limit = Window
  /\ consumed = 0
  /\ typed = 0
  /\ socket = <<>>
  /\ channel = <<>>
  /\ keys = <<>>
  /\ written = <<>>
  /\ onType = -1
  /\ onWrite = -1

Goto(l) == pc' = l

Least(a, b) == IF a < b THEN a ELSE b

First(n, q)   == SubSeq(q, 1, n)
Without(n, q) == SubSeq(q, n + 1, Len(q))

-----------------------------------------------------------------------------
(* The receive thread, and the client.                                     *)

\* n bytes in one critical section, of which the ring takes what fits.
ring_write_locked(n) ==
  LET k == Least(n, RingCap - Len(ring))
  IN  ring' = ring \o [i \in 1 .. k |-> heard + i]

Receive ==
  /\ pc # "cleanup"
  /\ \E n \in 1 .. MaxHeard - heard :
       /\ ring_write_locked(n)
       /\ heard' = heard + n
  /\ UNCHANGED <<pc, sendVars, input_received, keyVars, clientVars, onWrite>>

Type ==
  /\ typed < MaxTyped
  /\ typed' = typed + 1
  /\ socket' = Append(socket, typed')
  /\ onType' = IF typed = 0 THEN heard ELSE onType
  /\ UNCHANGED <<pc, serialVars, sendVars, input_received, channel, keys, written,
                 consumed, onWrite>>

\* The client reads and opens its window again.
Consume ==
  /\ consumed < Len(delivered)
  /\ consumed' = Len(delivered)
  /\ UNCHANGED <<pc, serialVars, sendVars, input_received, keyVars, typed, onType,
                 onWrite>>

-----------------------------------------------------------------------------
(* The session task.                                                       *)

\* ring_read(devslot, discard): the oldest bytes go, up to the buffer's size.
ring_discard == ring' = Without(Least(BufSize, Len(ring)), ring)

flush ==
  /\ pc = "flush"
  /\ ring_discard
  /\ Goto(IF ring = <<>> THEN "poll" ELSE "flush")
  /\ UNCHANGED <<heard, sendVars, input_received, keyVars, clientVars, onWrite>>

\* select and wolfSSH_worker, which learns of the window and of keys: with
\* WS_CHAN_RXD ...
worker_rxd ==
  /\ pc = "poll"
  /\ socket # <<>>
  /\ \E n \in 1 .. Len(socket) :
       /\ channel' = channel \o First(n, socket)
       /\ socket' = Without(n, socket)
  /\ limit' = consumed + Window
  /\ Goto("input")
  /\ UNCHANGED <<serialVars, pend, delivered, input_received, keys, written,
                 clientVars, onWrite>>

\* Mutant: wolfSSH_worker runs only when the socket has keys.
worker_when_readable ==
  /\ pc = "poll"
  /\ Goto("pending")
  /\ UNCHANGED <<serialVars, sendVars, input_received, keyVars, clientVars, onWrite>>

\* ... or without.
worker ==
  /\ pc = "poll"
  /\ limit' = consumed + Window
  /\ Goto("pending")
  /\ UNCHANGED <<serialVars, pend, delivered, input_received, keyVars, clientVars,
                 onWrite>>

\* Mutant: what does not fit in buf is gone from the channel, too.
channel_read_drops_rest ==
  /\ pc = "input"
  /\ channel # <<>>
  /\ keys' = First(Least(BufSize, Len(channel)), channel)
  /\ channel' = <<>>
  /\ Goto("write")
  /\ UNCHANGED <<serialVars, sendVars, input_received, socket, written, clientVars,
                 onWrite>>

\* wolfSSH_ChannelIdRead until nothing is left.
channel_read ==
  /\ pc = "input"
  /\ channel # <<>>
  /\ LET n == Least(BufSize, Len(channel))
     IN  /\ keys' = First(n, channel)
         /\ channel' = Without(n, channel)
  /\ Goto("write")
  /\ UNCHANGED <<serialVars, sendVars, input_received, socket, written, clientVars,
                 onWrite>>

channel_empty ==
  /\ pc = "input"
  /\ channel = <<>>
  /\ Goto("pending")
  /\ UNCHANGED <<serialVars, sendVars, input_received, keyVars, clientVars, onWrite>>

\* Mutants: output is let through at once; one ChannelIdRead per worker call.
device_write_unlocks ==
  /\ pc = "write"
  /\ written' = written \o keys
  /\ keys' = <<>>
  /\ onWrite' = IF input_received THEN onWrite ELSE heard
  /\ input_received' = TRUE
  /\ Goto("input")
  /\ UNCHANGED <<serialVars, sendVars, socket, channel, clientVars>>

device_write_once ==
  /\ pc = "write"
  /\ written' = written \o keys
  /\ keys' = <<>>
  /\ onWrite' = IF input_received THEN onWrite ELSE heard
  /\ input_received' = TRUE
  /\ Goto("pending")
  /\ UNCHANGED <<serialVars, sendVars, socket, channel, clientVars>>

\* device_write_cb returns.
device_write ==
  /\ pc = "write"
  /\ written' = written \o keys
  /\ keys' = <<>>
  /\ onWrite' = IF input_received THEN onWrite ELSE heard
  /\ Goto(IF input_received THEN "input" ELSE "discard")
  /\ UNCHANGED <<serialVars, sendVars, input_received, socket, channel, clientVars>>

\* After the first write, once: ring_read until it returns 0.
discard ==
  /\ pc = "discard"
  /\ ring_discard
  /\ input_received' = (ring = <<>>)
  /\ Goto(IF ring = <<>> THEN "input" ELSE "discard")
  /\ UNCHANGED <<heard, sendVars, keyVars, clientVars, onWrite>>

\* wolfSSH_ChannelIdSend takes n of the bytes in pend.
ChannelIdSend(n) ==
  /\ n <= Len(pend)
  /\ Len(delivered) + n <= limit
  /\ delivered' = delivered \o First(n, pend)
  /\ pend' = Without(n, pend)
  /\ UNCHANGED limit

\* The loop over the pending bytes: some go ...
pending_send ==
  /\ pc = "pending"
  /\ \E n \in 1 .. Len(pend) : ChannelIdSend(n)
  /\ UNCHANGED <<pc, serialVars, input_received, keyVars, clientVars, onWrite>>

\* Mutant: pend_off and pend_len are reset when the channel is full, too.
pending_end_resets ==
  /\ pc = "pending"
  /\ pend' = <<>>
  /\ Goto("take")
  /\ UNCHANGED <<serialVars, delivered, limit, input_received, keyVars, clientVars,
                 onWrite>>

\* ... or none can (WS_WANT_WRITE, 0), or none is left.
pending_end ==
  /\ pc = "pending"
  /\ Goto(IF pend = <<>> THEN "take" ELSE "poll")
  /\ UNCHANGED <<serialVars, sendVars, input_received, keyVars, clientVars, onWrite>>

\* ring_read; without input so far its bytes are discarded.
take ==
  /\ pc = "take"
  /\ LET n == Least(BufSize, Len(ring))
     IN  /\ ring' = Without(n, ring)
         /\ pend' = IF input_received THEN First(n, ring) ELSE <<>>
  /\ Goto(IF pend' = <<>> THEN "poll" ELSE "send")
  /\ UNCHANGED <<heard, delivered, limit, input_received, keyVars, clientVars, onWrite>>

\* All, some or none of them are sent; the rest stays in pend_buf.
send ==
  /\ pc = "send"
  /\ \E n \in 0 .. Len(pend) : ChannelIdSend(n)
  /\ Goto("poll")
  /\ UNCHANGED <<serialVars, input_received, keyVars, clientVars, onWrite>>

\* select, wolfSSH_worker, ChannelIdRead or ChannelIdSend ends with an error, or
\* the client disconnects.
loop_break ==
  /\ pc \in {"poll", "input", "pending", "send"}
  /\ Goto("cleanup")
  /\ UNCHANGED <<serialVars, sendVars, input_received, keyVars, clientVars, onWrite>>

-----------------------------------------------------------------------------
Loop ==
  \/ flush \/ worker_rxd \/ worker \/ channel_read \/ channel_empty
  \/ device_write \/ discard \/ pending_send \/ pending_end \/ take \/ send

Next == Receive \/ Type \/ Consume \/ Loop \/ loop_break

Spec == Init /\ [][Next]_vars

\* FreeRTOS runs the session task again and again; the client reads what its
\* channel takes; when select says so wolfSSH_worker gets the keys that are
\* there, and ChannelIdSend, called with room in the window again and again,
\* takes something.  None of this promises that the session goes on.
Fairness ==
  /\ WF_vars(Loop)
  /\ WF_vars(Consume)
  /\ SF_vars(worker_rxd)
  /\ SF_vars(pending_send)

FairSpec == Spec /\ Fairness

-----------------------------------------------------------------------------
\* The session keeps the promise of SerialStream: from the first key on, what
\* waits in ring and pend_buf reaches the client in order, once, with nothing
\* missing but what came while the ring was full, whatever the channel takes.
Stream == INSTANCE SerialStream
  WITH Low <- RingCap, High <- RingCap + BufSize, waiting <- pend \o ring,
       opened <- input_received

StreamSpec == Stream!SSpec

\* "Serial data received before the first keystroke from the SSH client is
\* discarded" (README): nothing that came before the client typed is ever
\* sent, wherever it was when the key arrived.
NothingStale ==
  \A i \in 1 .. Len(delivered) : onType >= 0 /\ delivered[i] > onType

\* Why: the stream opens only after a key went all the way to the device, and
\* with an empty ring, so that what waits in an open one came after the key.
After(q) == \A i \in 1 .. Len(q) : q[i] > onType

KeysNeedTyping ==
  typed = 0 => /\ socket = <<>> /\ channel = <<>>
               /\ pc \notin {"write", "discard"}
               /\ ~input_received

OnTypeRecorded == onType <= heard /\ (typed > 0 <=> onType >= 0)

ClosedIsEmpty ==
  /\ ~input_received => pend = <<>> /\ delivered = <<>>
  /\ pc \in {"flush", "discard"} => ~input_received
  /\ pc = "take" => pend = <<>>

OpenIsFresh == input_received => After(delivered) /\ After(pend) /\ After(ring)

StreamInv ==
  TypeOK /\ KeysNeedTyping /\ OnTypeRecorded /\ ClosedIsEmpty /\ OpenIsFresh

\* The keys are nowhere lost, repeated or overtaken: what was written, what is in
\* buf, in wolfSSH and on the way are together what was typed.
KeysInOrder ==
  written \o keys \o channel \o socket = [i \in 1 .. typed |-> i]

\* A byte that waits in an open stream is sent, as long as the session lasts
\* and its client reads: no partial send and no full window strands it.
OutputSent ==
  \A b \in 1 .. MaxHeard :
    input_received /\ (\E i \in 1 .. Len(pend \o ring) : (pend \o ring)[i] = b)
      ~> pc = "cleanup" \/ \E i \in 1 .. Len(delivered) : delivered[i] = b

\* Every key reaches the device, in its place, without the client having to
\* type another one.
KeysWritten ==
  \A k \in 1 .. MaxTyped :
    typed >= k ~> pc = "cleanup" \/ (Len(written) >= k /\ written[k] = k)

\* "Discard any serial data queued before first input" (ssh_bridge.c:634): with
\* room in the ring for all there is, what the device sends after it was given
\* the first key is not discarded.
ReplyKept ==
  onWrite >= 0 /\ pc # "cleanup" /\ MaxHeard <= RingCap
    => \A b \in onWrite + 1 .. heard :
         \E i \in 1 .. Len(delivered \o pend \o ring) :
           (delivered \o pend \o ring)[i] = b
===============================================================================
