------------------------------ MODULE DeviceTable ------------------------------
(***************************************************************************)
(* The table of serial devices shared by the SSH console sessions:         *)
(*                                                                         *)
(*   slots   s_devices[] of ssh_bridge.c, for every device a row of        *)
(*           MaxPerDevice ring slots, protected by s_devtable_mutex;       *)
(*   active  ACTIVE_DEVICES[] of usb_host.rs, for every device the number  *)
(*           of sessions that selected it, an array of atomic counters.    *)
(*                                                                         *)
(* A function of the C file that takes s_devtable_mutex is one operator    *)
(* here: nothing that touches the table can run inside it.  The content    *)
(* of a ring is its number of bytes (ConsoleBridge has the bytes).  The    *)
(* module has no behaviour of its own: SshBridge says who calls what.      *)
(***************************************************************************)
EXTENDS Integers, FiniteSets

CONSTANTS
  Session,       \* the session tasks that can exist
  Device,        \* usb0..usb3, com1, com2
  MaxPerDevice,  \* MAX_SESSIONS_PER_DEVICE
  RingCap,       \* bytes that fit in a ring, CDC_RING_SZ - 1
  ReadMax,       \* bytes one ring_read may return
  NoSession      \* a NULL owner_ssh

ASSUME TableAssumption ==
  /\ IsFiniteSet(Session)
  /\ NoSession \notin Session
  /\ MaxPerDevice \in Nat \ {0}
  /\ RingCap \in Nat
  /\ ReadMax \in Nat \ {0}

VARIABLES slots, active

Slot == 1 .. MaxPerDevice

\* ring: is a buffer allocated; fill: what head and tail say is in it, which
\* neither freeing nor force-clearing resets; owner: owner_ssh.
RingSlot == [ring : BOOLEAN, fill : 0 .. RingCap, owner : Session \cup {NoSession}]

EmptySlot == [ring |-> FALSE, fill |-> 0, owner |-> NoSession]

TableTypeOK ==
  /\ slots \in [Device -> [Slot -> RingSlot]]
  /\ active \in [Device -> Nat]

EmptyTable == [d \in Device |-> [i \in Slot |-> EmptySlot]]

NoneActive == [d \in Device |-> 0]

-----------------------------------------------------------------------------
(* The counters of usb_host.rs.                                            *)

ssh_select_device(d) == active' = [active EXCEPT ![d] = @ + 1]

\* Mutant: the first session to leave turns forwarding off.
ssh_release_device_resets(d) == active' = [active EXCEPT ![d] = 0]

\* saturating_sub: a count of 0 stays 0.
ssh_release_device(d) ==
  active' = [active EXCEPT ![d] = IF @ > 0 THEN @ - 1 ELSE 0]

-----------------------------------------------------------------------------
(* The ring slots of ssh_bridge.c.                                         *)

\* Mutant: the owner is left in the freed slot.
Freed_keeps_owner(r) == [r EXCEPT !.ring = FALSE]

Freed(r) == [r EXCEPT !.ring = FALSE, !.owner = NoSession]

\* The scan of devtable_acquire: the slots whose owner's socket looks dead
\* lose their ring, wherever the owner's task is.
ForceClear(row, dead) ==
  [i \in Slot |-> IF row[i].ring /\ row[i].owner \in dead
                  THEN Freed(row[i]) ELSE row[i]]

IsFirstFree(row, k) ==
  /\ ~row[k].ring
  /\ \A j \in Slot : j < k => row[j].ring

\* Slot k goes to s.  "dead" are the owners the probe takes for dead.
devtable_acquire(s, d, dead, k) ==
  LET row == ForceClear(slots[d], dead)
  IN  /\ IsFirstFree(row, k)
      /\ slots' = [slots EXCEPT ![d] =
                     [row EXCEPT ![k] = [ring |-> TRUE, fill |-> 0, owner |-> s]]]

\* No slot is free, or the ring cannot be allocated: the scan's force-clearing
\* stays.
devtable_acquire_fails(d, dead) ==
  slots' = [slots EXCEPT ![d] = ForceClear(slots[d], dead)]

\* Frees whatever ring is in the slot, whoever owns it by now.
devtable_release(d, k) == slots' = [slots EXCEPT ![d][k] = Freed(@)]

\* n bytes into one ring; what does not fit is dropped.
ring_write_locked(r, n) ==
  IF r.ring
  THEN [r EXCEPT !.fill = IF @ + n <= RingCap THEN @ + n ELSE RingCap]
  ELSE r

device_broadcast_write(d, n) ==
  slots' = [slots EXCEPT ![d] = [i \in Slot |-> ring_write_locked(@[i], n)]]

\* The part of ring_read under the mutex.  With bytes to copy and no ring it
\* reads through a NULL pointer.
ReadsNull(r) == r.fill > 0 /\ ~r.ring

Drained(r) == [r EXCEPT !.fill = IF @ > ReadMax THEN @ - ReadMax ELSE 0]

ring_read_locked(d, k) == slots' = [slots EXCEPT ![d][k] = Drained(@)]
===============================================================================
