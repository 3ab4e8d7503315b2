---------------------------- MODULE SshBridge_proofs ----------------------------
(* Theorems about SshBridge for any number of sessions, devices, slots.    *)
EXTENDS SshBridge, FiniteSetTheorems, TLAPS

-----------------------------------------------------------------------------
(* Types.                                                                  *)

LEMMA ActiveType ==
  ASSUME TableTypeOK, NEW d \in Device
  PROVE  /\ ssh_select_device(d) => active' \in [Device -> Nat]
         /\ ssh_release_device(d) => active' \in [Device -> Nat]
BY DEF TableTypeOK, ssh_select_device, ssh_release_device

LEMMA SlotsType ==
  ASSUME TableTypeOK, NEW d \in Device, NEW k \in Slot
  PROVE  /\ devtable_release(d, k) => slots' \in [Device -> [Slot -> RingSlot]]
         /\ ring_read_locked(d, k) => slots' \in [Device -> [Slot -> RingSlot]]
<1>1. ASSUME NEW r \in RingSlot
      PROVE  Freed(r) \in RingSlot /\ Drained(r) \in RingSlot
  <2>1. Freed(r) \in RingSlot
    BY DEF Freed, RingSlot
  <2>2. r.fill \in 0 .. RingCap
    BY DEF RingSlot
  <2>3. (IF r.fill > ReadMax THEN r.fill - ReadMax ELSE 0) \in 0 .. RingCap
    BY <2>2, TableAssumption
  <2>4. Drained(r) \in RingSlot
    BY <2>3 DEF Drained, RingSlot
  <2> QED BY <2>1, <2>4
<1>2. slots[d][k] \in RingSlot
  BY DEF TableTypeOK
<1>3. ASSUME NEW r \in RingSlot, slots' = [slots EXCEPT ![d][k] = r]
      PROVE  slots' \in [Device -> [Slot -> RingSlot]]
  BY <1>3 DEF TableTypeOK
<1>4. devtable_release(d, k) => slots' \in [Device -> [Slot -> RingSlot]]
  BY <1>1, <1>2, <1>3 DEF devtable_release
<1>5. ring_read_locked(d, k) => slots' \in [Device -> [Slot -> RingSlot]]
  BY <1>1, <1>2, <1>3 DEF ring_read_locked
<1> QED BY <1>4, <1>5

LEMMA ForceClearType ==
  ASSUME NEW row \in [Slot -> RingSlot], NEW dead
  PROVE  ForceClear(row, dead) \in [Slot -> RingSlot]
BY DEF ForceClear, Freed, RingSlot

LEMMA AcquireType ==
  ASSUME TableTypeOK, NEW s \in Session, NEW d \in Device, NEW dead
  PROVE  /\ \A k \in Slot : devtable_acquire(s, d, dead, k)
                               => slots' \in [Device -> [Slot -> RingSlot]]
         /\ devtable_acquire_fails(d, dead) => slots' \in [Device -> [Slot -> RingSlot]]
<1>1. ForceClear(slots[d], dead) \in [Slot -> RingSlot]
  BY ForceClearType DEF TableTypeOK
<1>2. [ring |-> TRUE, fill |-> 0, owner |-> s] \in RingSlot
  BY TableAssumption DEF RingSlot
<1> QED BY <1>1, <1>2 DEF TableTypeOK, devtable_acquire, devtable_acquire_fails

LEMMA BroadcastType ==
  ASSUME TableTypeOK, NEW d \in Device, NEW n \in Nat, device_broadcast_write(d, n)
  PROVE  slots' \in [Device -> [Slot -> RingSlot]]
<1>1. ASSUME NEW r \in RingSlot
      PROVE  ring_write_locked(r, n) \in RingSlot
  BY TableAssumption DEF ring_write_locked, RingSlot
<1> QED BY <1>1 DEF TableTypeOK, device_broadcast_write

\* Every location a session goes to is one of Location.
LEMMA GotoType ==
  ASSUME TypeOK, NEW s \in Session, NEW l \in Location, Goto(s, l)
  PROVE  pc' \in [Session -> Location]
BY DEF TypeOK, Goto

\* Init, and the state after a restart, are well-typed.
LEMMA InitType == Init => TypeOK
<1>1. EmptySlot \in RingSlot
  BY TableAssumption DEF EmptySlot, RingSlot
<1>2. EmptyTable \in [Device -> [Slot -> RingSlot]]
  BY <1>1 DEF EmptyTable
<1> QED
  BY <1>2, BridgeAssumption
  DEF Init, TypeOK, TableTypeOK, NoneActive, NoTask, NoneSelected, NoneHeld, Location

LEMMA RestartedType == Restarted => TypeOK'
<1>1. EmptySlot \in RingSlot
  BY TableAssumption DEF EmptySlot, RingSlot
<1>2. EmptyTable \in [Device -> [Slot -> RingSlot]]
  BY <1>1 DEF EmptyTable
<1> QED
  BY <1>2, BridgeAssumption
  DEF Restarted, TypeOK, TableTypeOK, NoneActive, NoTask, NoneSelected, NoneHeld, Location

LEMMA TypeStep ==
  ASSUME BridgeInv, Next
  PROVE  TypeOK'
<1> USE DEF BridgeInv, Location, LiveLocation, Looping, Cleanup, tableVars, conn, sessionVars,
            listenerVars, MayRead
<1>0. TypeOK /\ TableTypeOK
  BY DEF TypeOK
<1>1. ASSUME NEW s \in Session, Connect(s) PROVE TypeOK'
  BY <1>0, <1>1, GotoType DEF TypeOK, TableTypeOK, Connect
<1>2. ASSUME NEW s \in Session, PeerClose(s) PROVE TypeOK'
  BY <1>0, <1>2 DEF TypeOK, TableTypeOK, PeerClose
<1>3. ASSUME NEW s \in Session, listen_accept(s) PROVE TypeOK'
  BY <1>0, <1>3, GotoType DEF TypeOK, TableTypeOK, listen_accept
<1>4. CASE listen_check
  BY <1>0, <1>4, GotoType DEF TypeOK, TableTypeOK, listen_check, TurnAway, ListenerInv
<1>5. CASE listen_create
  BY <1>0, <1>5, GotoType, BridgeAssumption DEF TypeOK, TableTypeOK, listen_create, ListenerInv
<1>6. CASE listen_create_fails
  BY <1>0, <1>6, GotoType DEF TypeOK, TableTypeOK, listen_create_fails, TurnAway, ListenerInv
<1>7. CASE listen_count
  BY <1>0, <1>7 DEF TypeOK, TableTypeOK, listen_count
<1>8. ASSUME NEW s \in Session, session_new(s) PROVE TypeOK'
  BY <1>0, <1>8, GotoType DEF TypeOK, TableTypeOK, session_new
<1>9. ASSUME NEW s \in Session,
             \/ Waiting(s) \/ worker(s) \/ worker_break(s) \/ write(s) \/ drain(s)
             \/ free(s) \/ close(s)
      PROVE  TypeOK'
  <2>1. CASE handshake(s)
    BY <1>0, <2>1, GotoType DEF TypeOK, TableTypeOK, handshake
  <2>2. CASE exec(s)
    BY <1>0, <2>2, GotoType DEF TypeOK, TableTypeOK, exec
  <2>3. CASE worker(s)
    BY <1>0, <2>3, GotoType DEF TypeOK, TableTypeOK, worker
  <2>4. CASE worker_break(s)
    BY <1>0, <2>4, GotoType DEF TypeOK, TableTypeOK, worker_break
  <2>5. CASE drain(s)
    BY <1>0, <2>5, GotoType DEF TypeOK, TableTypeOK, drain
  <2>6. CASE free(s)
    BY <1>0, <2>6, GotoType DEF TypeOK, TableTypeOK, free
  <2>7. CASE close(s)
    BY <1>0, <2>7, GotoType DEF TypeOK, TableTypeOK, close
  <2>8. CASE reboot(s)
    BY <2>8, RestartedType DEF reboot
  <2>9. CASE write(s)
    BY <1>0, <2>9, GotoType DEF TypeOK, TableTypeOK, write
  <2> QED BY <1>9, <2>1, <2>2, <2>3, <2>4, <2>5, <2>6, <2>7, <2>8, <2>9 DEF Waiting
<1>10. ASSUME NEW s \in Session, dispatch(s) PROVE TypeOK'
  BY <1>0, <1>10, GotoType DEF TypeOK, TableTypeOK, dispatch
<1>11. ASSUME NEW s \in Session, select(s) PROVE TypeOK'
  <2>1. dev[s] \in Device
    BY <1>11 DEF select, SessionInv
  <2>2. active' \in [Device -> Nat]
    BY <1>0, <1>11, <2>1, ActiveType DEF select, TableTypeOK
  <2>3. pc' \in [Session -> Location]
    BY <1>0, <1>11, GotoType DEF select
  <2> QED
    BY <1>0, <1>11, <2>2, <2>3 DEF TypeOK, TableTypeOK, select
<1>12. ASSUME NEW s \in Session, acquire(s) PROVE TypeOK'
  <2>1. dev[s] \in Device
    BY <1>12 DEF acquire, SessionInv
  <2>2. slots' \in [Device -> [Slot -> RingSlot]]
    <3>1. PICK dead : \/ \E k \in Slot : devtable_acquire(s, dev[s], dead, k)
                      \/ devtable_acquire_fails(dev[s], dead)
      BY <1>12 DEF acquire
    <3> QED BY <1>0, <2>1, <3>1, AcquireType
  <2>3. pc' \in [Session -> Location]
    BY <1>0, <1>12, GotoType DEF acquire
  <2>4. devslot' \in [Session -> Slot \cup {0}]
    BY <1>0, <1>12 DEF TypeOK, acquire
  <2> QED
    BY <1>0, <1>12, <2>2, <2>3, <2>4 DEF TypeOK, TableTypeOK, acquire
<1>13. ASSUME NEW s \in Session, undo(s) PROVE TypeOK'
  <2>1. dev[s] \in Device
    BY <1>13 DEF undo, SessionInv
  <2>2. active' \in [Device -> Nat]
    BY <1>0, <1>13, <2>1, ActiveType DEF undo, TableTypeOK
  <2>3. pc' \in [Session -> Location]
    BY <1>0, <1>13, GotoType DEF undo
  <2> QED
    BY <1>0, <1>13, <2>2, <2>3 DEF TypeOK, TableTypeOK, undo
<1>14. ASSUME NEW s \in Session, read(s) PROVE TypeOK'
  BY <1>0, <1>14, GotoType, SlotsType DEF TypeOK, TableTypeOK, read, SessionInv
<1>15. ASSUME NEW s \in Session, panic(s) PROVE TypeOK'
  BY <1>15, RestartedType DEF panic
<1>16. ASSUME NEW s \in Session, release(s) PROVE TypeOK'
  <2>1. slots' \in [Device -> [Slot -> RingSlot]]
    <3>1. CASE devslot[s] = 0
      BY <1>0, <1>16, <3>1 DEF TableTypeOK, release
    <3>2. CASE devslot[s] # 0
      <4>1. dev[s] \in Device /\ devslot[s] \in Slot
        BY <1>0, <3>2 DEF SessionInv, TypeOK
      <4> QED BY <1>0, <1>16, <3>2, <4>1, SlotsType DEF release
    <3> QED BY <3>1, <3>2
  <2>2. pc' \in [Session -> Location]
    BY <1>0, <1>16, GotoType DEF release
  <2> QED
    BY <1>0, <1>16, <2>1, <2>2 DEF TypeOK, TableTypeOK, release
<1>17. ASSUME NEW s \in Session, deselect(s) PROVE TypeOK'
  <2>1. active' \in [Device -> Nat]
    <3>1. CASE s \notin cb
      BY <1>0, <1>17, <3>1 DEF TableTypeOK, deselect
    <3>2. CASE s \in cb
      <4>1. dev[s] \in Device
        BY <3>2 DEF SessionInv
      <4> QED BY <1>0, <1>17, <3>2, <4>1, ActiveType DEF deselect, TableTypeOK
    <3> QED BY <3>1, <3>2
  <2>2. pc' \in [Session -> Location]
    BY <1>0, <1>17, GotoType DEF deselect
  <2> QED
    BY <1>0, <1>17, <2>1, <2>2 DEF TypeOK, TableTypeOK, deselect
<1>18. ASSUME NEW d \in Device, rx_check(d) PROVE TypeOK'
  BY <1>0, <1>18 DEF TypeOK, TableTypeOK, rx_check
<1>19. ASSUME NEW d \in Device, ssh_bridge_cdc_rx(d) PROVE TypeOK'
  BY <1>0, <1>19, BroadcastType, TableAssumption DEF TypeOK, TableTypeOK, ssh_bridge_cdc_rx
<1> QED
  BY <1>1, <1>2, <1>3, <1>4, <1>5, <1>6, <1>7, <1>8, <1>9, <1>10, <1>11, <1>12,
     <1>13, <1>14, <1>15, <1>16, <1>17, <1>18, <1>19
  DEF Next, Listener, Task

-----------------------------------------------------------------------------
(* The number of sessions.                                                 *)

LEMMA LiveFinite == IsFiniteSet(Live) /\ Cardinality(Live) \in Nat
<1>1. Live \in SUBSET Session
  BY DEF Live
<1>2. IsFiniteSet(Live)
  BY <1>1, FS_Subset, TableAssumption
<1> QED BY <1>2, FS_CardinalityType

\* One session enters or leaves Live by going to another location.
LEMMA LiveGoto ==
  ASSUME TypeOK, NEW s \in Session, NEW l \in Location, Goto(s, l)
  PROVE  Live' = IF l \in LiveLocation THEN Live \cup {s} ELSE Live \ {s}
BY DEF TypeOK, Goto, Live

LEMMA LiveGotoCardinality ==
  ASSUME TypeOK, NEW s \in Session, NEW l \in Location, Goto(s, l)
  PROVE  Cardinality(Live') =
           Cardinality(Live) + (IF l \in LiveLocation THEN 1 ELSE 0)
                             - (IF pc[s] \in LiveLocation THEN 1 ELSE 0)
<1>1. s \in Live <=> pc[s] \in LiveLocation
  BY DEF Live
<1>2. Cardinality(Live \cup {s}) = IF s \in Live THEN Cardinality(Live) ELSE Cardinality(Live) + 1
  BY FS_AddElement, LiveFinite
<1>3. Cardinality(Live \ {s}) = IF s \in Live THEN Cardinality(Live) - 1 ELSE Cardinality(Live)
  BY FS_RemoveElement, LiveFinite
<1>4. CASE l \in LiveLocation
  <2>1. Live' = Live \cup {s}
    BY <1>4, LiveGoto
  <2>2. Cardinality(Live') = Cardinality(Live \cup {s})
    BY <2>1
  <2> QED BY <1>1, <1>2, <1>4, <2>2, LiveFinite
<1>5. CASE l \notin LiveLocation
  <2>1. Live' = Live \ {s}
    BY <1>5, LiveGoto
  <2>2. Cardinality(Live') = Cardinality(Live \ {s})
    BY <2>1
  <2> QED BY <1>1, <1>3, <1>5, <2>2, LiveFinite
<1> QED BY <1>4, <1>5

\* What the listener relies on survives a step of a session that the listener
\* does not hold, when the count goes down with the session that leaves Live.
LEMMA SessionMoves ==
  ASSUME BridgeInv, NEW s \in Session, NEW l \in Location, Goto(s, l),
         pc[s] # "taken", UNCHANGED listenerVars,
         \/ count' = count /\ (pc[s] \in LiveLocation <=> l \in LiveLocation)
         \/ count' = count - 1 /\ pc[s] \in LiveLocation /\ l \notin LiveLocation
  PROVE  ListenerInv' /\ SessionLimit'
<1>1. Cardinality(Live') = Cardinality(Live) + (count' - count)
  BY LiveGotoCardinality, LiveFinite DEF BridgeInv, TypeOK
<1>2. count' = count \/ count' = count - 1
  OBVIOUS
<1>3. lpc' \in {"check", "create"} => cur' \in Session /\ pc'[cur'] = "taken"
  BY DEF BridgeInv, ListenerInv, listenerVars, Goto, TypeOK
<1> QED
  BY <1>1, <1>2, <1>3, LiveFinite, BridgeAssumption
  DEF BridgeInv, ListenerInv, SessionLimit, listenerVars, TypeOK

\* The same for a step that moves no session.
LEMMA NobodyMoves ==
  ASSUME BridgeInv, UNCHANGED <<pc, listenerVars, count>>
  PROVE  ListenerInv' /\ SessionLimit'
BY DEF BridgeInv, ListenerInv, SessionLimit, Live, listenerVars

LEMMA RestartedListener == Restarted => ListenerInv' /\ SessionLimit'
<1> SUFFICES ASSUME Restarted PROVE ListenerInv' /\ SessionLimit'
  OBVIOUS
<1>1. Live' = {}
  BY DEF Restarted, NoTask, Live, LiveLocation
<1>2. Cardinality(Live') = 0
  BY <1>1, FS_EmptySet
<1> QED BY <1>2, BridgeAssumption DEF Restarted, ListenerInv, SessionLimit

LEMMA ListenerStep ==
  ASSUME BridgeInv, Next
  PROVE  ListenerInv' /\ SessionLimit'
<1> USE DEF Location, LiveLocation
<1>0. TypeOK
  BY DEF BridgeInv
<1>1. ASSUME NEW s \in Session, Connect(s)
      PROVE  ListenerInv' /\ SessionLimit'
  BY <1>1, SessionMoves DEF Connect
<1>2. ASSUME NEW s \in Session, PeerClose(s)
      PROVE  ListenerInv' /\ SessionLimit'
  BY <1>2, NobodyMoves DEF PeerClose
<1>3. ASSUME NEW s \in Session, listen_accept(s)
      PROVE  ListenerInv' /\ SessionLimit'
  <2>1. Goto(s, "taken") /\ pc[s] = "backlog"
    BY <1>3 DEF listen_accept
  <2>2. Cardinality(Live') = Cardinality(Live)
    BY <1>0, <2>1, LiveGotoCardinality, LiveFinite
  <2>3. pc'[s] = "taken"
    BY <1>0, <2>1 DEF TypeOK, Goto
  <2> QED
    BY <1>3, <2>2, <2>3 DEF listen_accept, BridgeInv, ListenerInv, SessionLimit
<1>4. CASE TurnAway /\ lpc \in {"check", "create"} /\ UNCHANGED count
  <2>1. Goto(cur, "none") /\ cur \in Session /\ pc[cur] = "taken"
    BY <1>4 DEF TurnAway, BridgeInv, ListenerInv
  <2>2. Cardinality(Live') = Cardinality(Live)
    BY <1>0, <2>1, LiveGotoCardinality, LiveFinite
  <2> QED
    BY <1>4, <2>2 DEF TurnAway, BridgeInv, ListenerInv, SessionLimit
<1>5. CASE listen_check
  <2>1. CASE count < MaxSessions /\ lpc' = "create" /\ UNCHANGED <<pc, conn, cur>>
    <3>1. Live' = Live
      BY <2>1 DEF Live
    <3>2. count = Cardinality(Live) /\ Cardinality(Live') = Cardinality(Live)
      BY <1>5, <3>1, LiveFinite DEF listen_check, BridgeInv, ListenerInv
    <3> QED
      BY <1>5, <2>1, <3>2 DEF listen_check, BridgeInv, ListenerInv, SessionLimit
  <2> QED BY <1>4, <1>5, <2>1 DEF listen_check
<1>6. CASE listen_create
  <2>1. Goto(cur, "new") /\ cur \in Session /\ pc[cur] = "taken"
    BY <1>6 DEF listen_create, BridgeInv, ListenerInv
  <2>2. Cardinality(Live') = Cardinality(Live) + 1
    BY <1>0, <2>1, LiveGotoCardinality, LiveFinite
  <2> QED
    BY <1>6, <2>2, LiveFinite, BridgeAssumption
    DEF listen_create, BridgeInv, ListenerInv, SessionLimit
<1>7. CASE listen_create_fails
  BY <1>4, <1>7 DEF listen_create_fails
<1>8. CASE listen_count
  BY <1>8, LiveFinite DEF listen_count, BridgeInv, ListenerInv, SessionLimit, Live, TypeOK
<1>11. ASSUME NEW s \in Session, Waiting(s) \/ worker_break(s) \/ write(s)
       PROVE  ListenerInv' /\ SessionLimit'
  <2>1. CASE handshake(s)
    BY <2>1, SessionMoves DEF handshake
  <2>2. CASE exec(s)
    BY <2>2, SessionMoves DEF exec
  <2>3. CASE reboot(s)
    BY <2>3, RestartedListener DEF reboot
  <2>4. CASE worker_break(s)
    BY <2>4, SessionMoves DEF worker_break
  <2>5. CASE write(s)
    BY <2>5, SessionMoves DEF write
  <2> QED BY <1>11, <2>1, <2>2, <2>3, <2>4, <2>5 DEF Waiting
<1>9. ASSUME NEW s \in Session, Task(s), ~panic(s)
      PROVE  ListenerInv' /\ SessionLimit'
  <2>1. CASE session_new(s)
    BY <2>1, SessionMoves DEF session_new
  <2>2. CASE dispatch(s)
    BY <2>2, SessionMoves DEF dispatch
  <2>3. CASE select(s)
    BY <2>3, SessionMoves DEF select
  <2>4. CASE acquire(s)
    BY <2>4, SessionMoves DEF acquire
  <2>5. CASE undo(s)
    BY <2>5, SessionMoves DEF undo
  <2>6. CASE drain(s)
    <3>1. Goto(s, "read") \/ Goto(s, "worker")
      BY <2>6 DEF drain
    <3>2. pc[s] = "drain" /\ UNCHANGED <<listenerVars, count>>
      BY <2>6 DEF drain
    <3> QED BY <3>1, <3>2, SessionMoves
  <2>7. CASE read(s)
    BY <2>7, SessionMoves DEF read
  <2>8. CASE worker(s)
    BY <2>8, SessionMoves DEF worker
  <2>9. CASE release(s)
    BY <2>9, SessionMoves DEF release
  <2>10. CASE deselect(s)
    BY <2>10, SessionMoves DEF deselect
  <2>11. CASE free(s)
    BY <2>11, SessionMoves DEF free
  <2>12. CASE close(s)
    BY <2>12, SessionMoves DEF close
  <2> QED
    BY <1>9, <1>11, <2>1, <2>2, <2>3, <2>4, <2>5, <2>6, <2>7, <2>8, <2>9, <2>10, <2>11, <2>12
    DEF Task
<1>10. ASSUME NEW s \in Session, panic(s)
       PROVE  ListenerInv' /\ SessionLimit'
  BY <1>10, RestartedListener DEF panic
<1>12. ASSUME NEW d \in Device, rx_check(d) \/ ssh_bridge_cdc_rx(d)
       PROVE  ListenerInv' /\ SessionLimit'
  BY <1>12, NobodyMoves DEF rx_check, ssh_bridge_cdc_rx
<1> QED
  BY <1>1, <1>2, <1>3, <1>5, <1>6, <1>7, <1>8, <1>9, <1>10, <1>11, <1>12
  DEF Next, Listener

-----------------------------------------------------------------------------
(* What a session holds.                                                   *)

LEMMA SessionStep ==
  ASSUME BridgeInv, Next
  PROVE  SessionInv'
<1> USE DEF BridgeInv, Looping, Cleanup
<1>0. TypeOK /\ SessionInv
  OBVIOUS
<1>1. ASSUME NEW s \in Session, Connect(s) PROVE SessionInv'
  BY <1>0, <1>1 DEF TypeOK, SessionInv, Connect, Goto, sessionVars
<1>2. ASSUME NEW s \in Session, PeerClose(s) PROVE SessionInv'
  BY <1>0, <1>2 DEF SessionInv, PeerClose, sessionVars
<1>3. ASSUME NEW s \in Session, listen_accept(s) PROVE SessionInv'
  BY <1>0, <1>3 DEF TypeOK, SessionInv, listen_accept, Goto, sessionVars
<1>4. CASE listen_check
  BY <1>0, <1>4 DEF TypeOK, SessionInv, ListenerInv, listen_check, TurnAway, Goto, sessionVars
<1>5. CASE listen_create
  BY <1>0, <1>5 DEF TypeOK, SessionInv, ListenerInv, listen_create, Goto, sessionVars
<1>6. CASE listen_create_fails
  BY <1>0, <1>6 DEF TypeOK, SessionInv, ListenerInv, listen_create_fails, TurnAway, Goto, sessionVars
<1>7. CASE listen_count
  BY <1>0, <1>7 DEF SessionInv, listen_count, sessionVars
<1>9. CASE Restarted
  BY <1>9 DEF Restarted, SessionInv, NoTask, NoneHeld
<1>10. ASSUME NEW s \in Session, Waiting(s) \/ worker_break(s) \/ write(s)
       PROVE  SessionInv'
  <2>1. CASE handshake(s)
    BY <1>0, <2>1 DEF TypeOK, SessionInv, handshake, Goto, sessionVars
  <2>2. CASE exec(s)
    BY <1>0, <2>2 DEF TypeOK, SessionInv, exec, Goto, sessionVars
  <2>3. CASE reboot(s)
    BY <1>9, <2>3 DEF reboot
  <2>4. CASE worker_break(s)
    BY <1>0, <2>4 DEF TypeOK, SessionInv, worker_break, Goto, sessionVars
  <2>5. CASE write(s)
    BY <1>0, <2>5 DEF TypeOK, SessionInv, write, Goto, sessionVars
  <2> QED BY <1>10, <2>1, <2>2, <2>3, <2>4, <2>5 DEF Waiting
<1>8. ASSUME NEW s \in Session, Task(s), ~panic(s) PROVE SessionInv'
  <2>1. CASE session_new(s)
    BY <1>0, <2>1 DEF TypeOK, SessionInv, session_new, Goto, sessionVars
  <2>2. CASE dispatch(s)
    BY <1>0, <2>2 DEF TypeOK, SessionInv, dispatch, Goto
  <2>3. CASE select(s)
    BY <1>0, <2>3 DEF TypeOK, SessionInv, select, Goto
  <2>4. CASE acquire(s)
    BY <1>0, <2>4, TableAssumption DEF TypeOK, SessionInv, acquire, Goto, Slot
  <2>5. CASE undo(s)
    BY <1>0, <2>5 DEF TypeOK, SessionInv, undo, Goto
  <2>6. CASE drain(s)
    BY <1>0, <2>6 DEF TypeOK, SessionInv, drain, Goto, sessionVars
  <2>7. CASE read(s)
    BY <1>0, <2>7 DEF TypeOK, SessionInv, read, Goto, sessionVars
  <2>8. CASE worker(s)
    BY <1>0, <2>8 DEF TypeOK, SessionInv, worker, Goto, sessionVars
  <2>9. CASE release(s)
    BY <1>0, <2>9 DEF TypeOK, SessionInv, release, Goto, sessionVars
  <2>10. CASE deselect(s)
    BY <1>0, <2>10 DEF TypeOK, SessionInv, deselect, Goto, sessionVars
  <2>11. CASE free(s)
    BY <1>0, <2>11 DEF TypeOK, SessionInv, free, Goto, sessionVars
  <2>12. CASE close(s)
    BY <1>0, <2>12 DEF TypeOK, SessionInv, close, Goto
  <2> QED
    BY <1>8, <1>10, <2>1, <2>2, <2>3, <2>4, <2>5, <2>6, <2>7, <2>8, <2>9, <2>10, <2>11, <2>12
    DEF Task
<1>11. ASSUME NEW d \in Device, rx_check(d) \/ ssh_bridge_cdc_rx(d) PROVE SessionInv'
  BY <1>0, <1>11 DEF SessionInv, rx_check, ssh_bridge_cdc_rx, sessionVars
<1> QED
  BY <1>1, <1>2, <1>3, <1>4, <1>5, <1>6, <1>7, <1>8, <1>9, <1>10, <1>11
  DEF Next, Listener, panic

-----------------------------------------------------------------------------
(* The counts of ACTIVE_DEVICES.                                           *)

LEMMA SelectingFinite ==
  ASSUME TypeOK, NEW d
  PROVE  IsFiniteSet(Selecting(d)) /\ Cardinality(Selecting(d)) \in Nat
<1>1. Selecting(d) \in SUBSET Session
  BY DEF Selecting, TypeOK
<1>2. IsFiniteSet(Selecting(d))
  BY <1>1, FS_Subset, TableAssumption
<1> QED BY <1>2, FS_CardinalityType

\* Between select and release.
Selected(s) == s \in cb /\ pc[s] \notin {"free", "close"}

\* A step that neither selects nor releases keeps the counts exact, even when
\* it changes the device name of a session that holds none.
LEMMA NobodySelects ==
  ASSUME BridgeInv, UNCHANGED active, cb' \subseteq Session,
         \A s \in Session : /\ Selected(s)' <=> Selected(s)
                            /\ Selected(s) => dev'[s] = dev[s]
  PROVE  ActiveExact'
<1>1. ASSUME NEW d \in Device
      PROVE  Selecting(d)' = Selecting(d)
  BY DEF Selecting, Selected, BridgeInv, TypeOK
<1> QED BY <1>1 DEF BridgeInv, ActiveExact

LEMMA Selects ==
  ASSUME BridgeInv, NEW s \in Session, s \notin cb, dev[s] \in Device,
         ssh_select_device(dev[s]), cb' = cb \cup {s}, dev' = dev, Goto(s, "acquire")
  PROVE  ActiveExact'
<1> SUFFICES ASSUME NEW d \in Device
             PROVE  active'[d] = Cardinality(Selecting(d)')
  BY DEF ActiveExact
<1>0. TypeOK /\ active[d] = Cardinality(Selecting(d))
  BY DEF BridgeInv, ActiveExact
<1>1. CASE d = dev[s]
  <2>1. Selecting(d)' = Selecting(d) \cup {s} /\ s \notin Selecting(d)
    BY <1>0, <1>1 DEF Selecting, Goto, TypeOK
  <2>2. Cardinality(Selecting(d)') = Cardinality(Selecting(d)) + 1
    BY <1>0, <2>1, SelectingFinite, FS_AddElement
  <2>3. active'[d] = active[d] + 1
    BY <1>0, <1>1 DEF ssh_select_device, TypeOK, TableTypeOK
  <2> QED BY <1>0, <2>2, <2>3
<1>2. CASE d # dev[s]
  <2>1. Selecting(d)' = Selecting(d)
    BY <1>0, <1>2 DEF Selecting, Goto, TypeOK
  <2>2. active'[d] = active[d]
    BY <1>0, <1>2 DEF ssh_select_device, TypeOK, TableTypeOK
  <2> QED BY <1>0, <2>1, <2>2
<1> QED BY <1>1, <1>2

LEMMA Releases ==
  ASSUME BridgeInv, NEW s \in Session, Selected(s), ssh_release_device(dev[s]),
         \A d \in Device : Selecting(d)' = Selecting(d) \ {s}
  PROVE  ActiveExact'
<1> SUFFICES ASSUME NEW d \in Device
             PROVE  active'[d] = Cardinality(Selecting(d)')
  BY DEF ActiveExact
<1>0. TypeOK /\ active[d] = Cardinality(Selecting(d)) /\ dev[s] \in Device
  BY DEF BridgeInv, ActiveExact, SessionInv, Selected
<1>1. CASE d = dev[s]
  <2>1. Selecting(d)' = Selecting(d) \ {s} /\ s \in Selecting(d)
    BY <1>1 DEF Selecting, Selected
  <2>2. Cardinality(Selecting(d)') = Cardinality(Selecting(d)) - 1
    BY <1>0, <2>1, SelectingFinite, FS_RemoveElement
  <2>3. Cardinality(Selecting(d)) > 0
    BY <1>0, <2>1, SelectingFinite, FS_EmptySet
  <2>4. active'[d] = active[d] - 1
    BY <1>0, <1>1, <2>3 DEF ssh_release_device, TypeOK, TableTypeOK
  <2> QED BY <1>0, <2>2, <2>4
<1>2. CASE d # dev[s]
  <2>1. Selecting(d)' = Selecting(d)
    BY <1>2 DEF Selecting
  <2>2. active'[d] = active[d]
    BY <1>0, <1>2 DEF ssh_release_device, TypeOK, TableTypeOK
  <2> QED BY <1>0, <2>1, <2>2
<1> QED BY <1>1, <1>2

LEMMA RestartedActive == Restarted => ActiveExact'
<1> SUFFICES ASSUME Restarted, NEW d \in Device
             PROVE  active'[d] = Cardinality(Selecting(d)')
  BY DEF ActiveExact
<1>1. Selecting(d)' = {}
  BY DEF Restarted, Selecting
<1> QED BY <1>1, FS_EmptySet DEF Restarted, NoneActive

LEMMA ActiveStep ==
  ASSUME BridgeInv, Next
  PROVE  ActiveExact'
<1>0. TypeOK /\ SessionInv
  BY DEF BridgeInv
<1>1. ASSUME NEW s \in Session,
             \/ Connect(s) \/ PeerClose(s) \/ listen_accept(s) \/ session_new(s)
             \/ handshake(s) \/ exec(s) \/ drain(s) \/ worker(s) \/ worker_break(s)
             \/ write(s) \/ release(s) \/ free(s)
      PROVE  ActiveExact'
  <2>1. PICK l \in Location : \/ UNCHANGED pc
                              \/ Goto(s, l) /\ (s \in cb => (pc[s] \in {"free", "close"}
                                                           <=> l \in {"free", "close"}))
    BY <1>0, <1>1
    DEF Connect, PeerClose, listen_accept, session_new, handshake, exec, drain,
        worker, worker_break, write, release, free, SessionInv, Looping, Cleanup,
        Location, LiveLocation
  <2>2. UNCHANGED <<active, cb, dev>>
    BY <1>1
    DEF Connect, PeerClose, listen_accept, session_new, handshake, exec, drain,
        worker, worker_break, write, release, free, tableVars, sessionVars
  <2>3. \A t \in Session : Selected(t)' <=> Selected(t)
    BY <1>0, <2>1, <2>2 DEF Selected, Goto, TypeOK
  <2> QED BY <1>0, <2>2, <2>3, NobodySelects DEF TypeOK
<1>2. CASE Listener
  <2>1. /\ UNCHANGED <<active, cb, dev>>
        /\ UNCHANGED pc \/ \E l \in {"none", "new"} : lpc \in {"check", "create"} /\ Goto(cur, l)
    BY <1>2
    DEF Listener, listen_check, listen_create, listen_create_fails, listen_count,
        TurnAway, tableVars, sessionVars
  <2>2. \A t \in Session : Selected(t)' <=> Selected(t)
    BY <1>0, <2>1 DEF Selected, Goto, TypeOK, BridgeInv, ListenerInv, SessionInv,
       Looping, Cleanup
  <2> QED BY <1>0, <2>1, <2>2, NobodySelects DEF TypeOK
<1>3. ASSUME NEW d \in Device, rx_check(d) \/ ssh_bridge_cdc_rx(d)
      PROVE  ActiveExact'
  BY <1>0, <1>3, NobodySelects
  DEF rx_check, ssh_bridge_cdc_rx, tableVars, sessionVars, Selected, TypeOK
<1>4. ASSUME NEW s \in Session, dispatch(s)
      PROVE  ActiveExact'
  <2>1. s \notin cb /\ UNCHANGED <<active, cb>>
    BY <1>0, <1>4 DEF SessionInv, dispatch, Looping, Cleanup, tableVars
  <2>2. \A t \in Session : Selected(t)' <=> Selected(t)
    BY <1>0, <1>4, <2>1 DEF dispatch, Selected, Goto, TypeOK
  <2>3. \A t \in cb : dev'[t] = dev[t]
    BY <1>0, <1>4, <2>1 DEF dispatch, TypeOK
  <2> QED BY <1>0, <2>1, <2>2, <2>3, NobodySelects DEF Selected, TypeOK
<1>5. ASSUME NEW s \in Session, select(s)
      PROVE  ActiveExact'
  <2>1. s \notin cb /\ dev[s] \in Device
    BY <1>0, <1>5 DEF SessionInv, select, Looping, Cleanup
  <2>2. CASE ssh_select_device(dev[s]) /\ cb' = cb \cup {s} /\ Goto(s, "acquire")
    BY <1>5, <2>1, <2>2, Selects DEF select
  <2>3. CASE UNCHANGED <<active, cb>> /\ Goto(s, "release")
    <3>1. dev' = dev /\ \A t \in Session : Selected(t)' <=> Selected(t)
      BY <1>0, <1>5, <2>1, <2>3 DEF select, Selected, Goto, TypeOK
    <3> QED BY <1>0, <2>3, <3>1, NobodySelects DEF TypeOK
  <2> QED BY <1>5, <2>2, <2>3 DEF select
<1>6. ASSUME NEW s \in Session, acquire(s)
      PROVE  ActiveExact'
  <2>1. /\ UNCHANGED <<active, cb, dev>>
        /\ pc[s] = "acquire"
        /\ \E l \in {"drain", "undo"} : Goto(s, l)
    BY <1>6 DEF acquire
  <2>2. \A t \in Session : Selected(t)' <=> Selected(t)
    BY <1>0, <2>1 DEF Selected, Goto, TypeOK
  <2> QED BY <1>0, <2>1, <2>2, NobodySelects DEF TypeOK
<1>7. ASSUME NEW s \in Session, read(s)
      PROVE  ActiveExact'
  <2>1. /\ UNCHANGED <<active, cb, dev>>
        /\ pc[s] = "read"
        /\ \E l \in {"drain", "worker"} : Goto(s, l)
    BY <1>7 DEF read, sessionVars
  <2>2. \A t \in Session : Selected(t)' <=> Selected(t)
    BY <1>0, <2>1 DEF Selected, Goto, TypeOK
  <2> QED BY <1>0, <2>1, <2>2, NobodySelects DEF TypeOK
<1>9. ASSUME NEW s \in Session, undo(s)
      PROVE  ActiveExact'
  <2>1. Selected(s)
    BY <1>0, <1>9 DEF SessionInv, undo, Selected
  <2>2. \A d \in Device : Selecting(d)' = Selecting(d) \ {s}
    BY <1>0, <1>9 DEF undo, Selecting, Goto, TypeOK
  <2> QED BY <1>9, <2>1, <2>2, Releases DEF undo
<1>10. ASSUME NEW s \in Session, deselect(s)
       PROVE  ActiveExact'
  <2>1. \A d \in Device : Selecting(d)' = Selecting(d) \ {s}
    BY <1>0, <1>10 DEF deselect, Selecting, Goto, TypeOK, sessionVars
  <2>2. CASE s \in cb
    <3>1. Selected(s)
      BY <1>10, <2>2 DEF deselect, Selected
    <3> QED BY <1>10, <2>1, <2>2, <3>1, Releases DEF deselect
  <2>3. CASE s \notin cb
    <3>1. UNCHANGED <<active, cb, dev>> /\ \A t \in Session : Selected(t)' <=> Selected(t)
      BY <1>0, <1>10, <2>3 DEF deselect, Selected, Goto, TypeOK, sessionVars
    <3> QED BY <1>0, <3>1, NobodySelects DEF TypeOK
  <2> QED BY <2>2, <2>3
<1>11. ASSUME NEW s \in Session, close(s)
       PROVE  ActiveExact'
  <2>1. UNCHANGED active /\ cb' \subseteq Session
    BY <1>0, <1>11 DEF close, TypeOK, tableVars
  <2>2. \A t \in Session : /\ Selected(t)' <=> Selected(t)
                           /\ Selected(t) => dev'[t] = dev[t]
    BY <1>0, <1>11 DEF close, Selected, Goto, TypeOK
  <2> QED BY <2>1, <2>2, NobodySelects
<1>8. ASSUME NEW s \in Session, reboot(s) \/ panic(s)
      PROVE  ActiveExact'
  BY <1>8, RestartedActive DEF reboot, panic
<1> QED
  BY <1>1, <1>2, <1>3, <1>4, <1>5, <1>6, <1>7, <1>8, <1>9, <1>10, <1>11
  DEF Next, Task, Waiting

-----------------------------------------------------------------------------
(* The owners of the rings.                                                *)

\* What OwnerHoldsSlot says of one slot.
SlotOwned(d, i) ==
  LET r == slots[d][i]
  IN  /\ r.ring <=> r.owner # NoSession
      /\ r.ring => /\ pc[r.owner] \in {"drain", "read", "worker", "write", "release"}
                   /\ dev[r.owner] = d
                   /\ devslot[r.owner] = i

LEMMA OwnerHoldsSlotBySlot == OwnerHoldsSlot <=> \A d \in Device, i \in Slot : SlotOwned(d, i)
BY DEF OwnerHoldsSlot, SlotOwned

\* A slot that keeps its ring and owner, or has lost both, stays owned when no
\* owner moves out of the bridge loop and cleanup.
LEMMA SlotKept ==
  ASSUME BridgeInv, NEW d \in Device, NEW i \in Slot,
         \/ slots'[d][i].ring = slots[d][i].ring /\ slots'[d][i].owner = slots[d][i].owner
         \/ slots'[d][i].ring = FALSE /\ slots'[d][i].owner = NoSession,
         slots[d][i].ring =>
           LET s == slots[d][i].owner
           IN  slots'[d][i].ring =>
                 /\ pc'[s] \in {"drain", "read", "worker", "write", "release"}
                 /\ dev'[s] = dev[s]
                 /\ devslot'[s] = devslot[s]
  PROVE  SlotOwned(d, i)'
<1>1. SlotOwned(d, i)
  BY OwnerHoldsSlotBySlot DEF BridgeInv
<1>2. slots[d][i].ring \in BOOLEAN
  BY DEF BridgeInv, TypeOK, TableTypeOK, RingSlot
<1> QED BY <1>1, <1>2 DEF SlotOwned

\* A step that leaves the table alone and moves no owner out of the bridge
\* loop and cleanup.
LEMMA TableUntouched ==
  ASSUME BridgeInv, UNCHANGED slots,
         \A s \in Session :
           pc[s] \in {"drain", "read", "worker", "write", "release"} =>
             /\ pc'[s] \in {"drain", "read", "worker", "write", "release"}
             /\ dev'[s] = dev[s]
             /\ devslot'[s] = devslot[s]
  PROVE  OwnerHoldsSlot'
<1> SUFFICES ASSUME NEW d \in Device, NEW i \in Slot
             PROVE  SlotOwned(d, i)'
  BY DEF OwnerHoldsSlot, SlotOwned
<1>1. SlotOwned(d, i)
  BY OwnerHoldsSlotBySlot DEF BridgeInv
<1>2. slots[d][i].owner \in Session \cup {NoSession}
  BY DEF BridgeInv, TypeOK, TableTypeOK, RingSlot
<1> QED BY <1>1, <1>2 DEF SlotOwned

LEMMA AcquireOwns ==
  ASSUME BridgeInv, NEW s \in Session, acquire(s)
  PROVE  OwnerHoldsSlot'
<1> SUFFICES ASSUME NEW d \in Device, NEW i \in Slot
             PROVE  SlotOwned(d, i)'
  BY DEF OwnerHoldsSlot, SlotOwned
<1>0. TypeOK /\ SessionInv /\ SlotOwned(d, i)
  BY OwnerHoldsSlotBySlot DEF BridgeInv
<1>1. PICK dead \in LooksDead(dev[s]) :
         \/ \E k \in Slot : /\ devtable_acquire(s, dev[s], dead, k)
                            /\ devslot' = [devslot EXCEPT ![s] = k]
                            /\ Goto(s, "drain")
         \/ /\ devtable_acquire_fails(dev[s], dead)
            /\ Goto(s, "undo")
            /\ UNCHANGED devslot
  BY DEF acquire
<1>2. dev[s] \in Device /\ pc[s] = "acquire" /\ dev' = dev
  BY <1>0 DEF acquire, SessionInv
<1>3. \A t \in Session \ {s} : pc'[t] = pc[t] /\ devslot'[t] = devslot[t]
  BY <1>0, <1>1 DEF TypeOK, Goto
<1>4. slots[d][i].ring => slots[d][i].owner \in Session \ {s}
  BY <1>0, <1>2 DEF SlotOwned, TypeOK, TableTypeOK, RingSlot
<1>5. ForceClear(slots[dev[s]], dead)[i] \in {slots[dev[s]][i], Freed(slots[dev[s]][i])}
  BY DEF ForceClear
<1>6. slots[dev[s]][i] \in RingSlot
  BY <1>0, <1>2 DEF TypeOK, TableTypeOK
<1>7. ASSUME slots'[d][i] \in {slots[d][i], Freed(slots[d][i])}
      PROVE  SlotOwned(d, i)'
  <2>1. slots[d][i] \in RingSlot
    BY <1>0 DEF TypeOK, TableTypeOK
  <2>2. \/ slots'[d][i].ring = slots[d][i].ring /\ slots'[d][i].owner = slots[d][i].owner
        \/ slots'[d][i].ring = FALSE /\ slots'[d][i].owner = NoSession
    BY <1>7, <2>1 DEF Freed, RingSlot
  <2> QED BY <1>0, <1>2, <1>3, <1>4, <2>2, SlotKept DEF SlotOwned
<1>8. CASE devtable_acquire_fails(dev[s], dead)
  <2>1. slots'[d][i] \in {slots[d][i], Freed(slots[d][i])}
    BY <1>0, <1>2, <1>5, <1>8 DEF devtable_acquire_fails, TypeOK, TableTypeOK
  <2> QED BY <1>7, <2>1
<1>9. ASSUME NEW k \in Slot, devtable_acquire(s, dev[s], dead, k),
             devslot' = [devslot EXCEPT ![s] = k], Goto(s, "drain")
      PROVE  SlotOwned(d, i)'
  <2>1. slots' = [slots EXCEPT ![dev[s]] =
                    [ForceClear(slots[dev[s]], dead) EXCEPT
                       ![k] = [ring |-> TRUE, fill |-> 0, owner |-> s]]]
    BY <1>9 DEF devtable_acquire
  <2>2. CASE d = dev[s] /\ i = k
    <3>1. slots'[d][i] = [ring |-> TRUE, fill |-> 0, owner |-> s]
      BY <1>0, <1>2, <2>1, <2>2 DEF TypeOK, TableTypeOK, ForceClear
    <3>2. pc'[s] = "drain" /\ devslot'[s] = k /\ dev'[s] = dev[s]
      BY <1>0, <1>2, <1>9 DEF TypeOK, Goto
    <3>3. s # NoSession
      BY TableAssumption
    <3> QED BY <2>2, <3>1, <3>2, <3>3 DEF SlotOwned
  <2>3. CASE ~(d = dev[s] /\ i = k)
    <3>1. slots'[d][i] \in {slots[d][i], Freed(slots[d][i])}
      BY <1>0, <1>2, <1>5, <2>1, <2>3 DEF TypeOK, TableTypeOK, ForceClear
    <3> QED BY <1>7, <3>1
  <2> QED BY <2>2, <2>3
<1> QED BY <1>1, <1>8, <1>9

LEMMA ReadOwns ==
  ASSUME BridgeInv, NEW s \in Session, read(s)
  PROVE  OwnerHoldsSlot'
<1> SUFFICES ASSUME NEW d \in Device, NEW i \in Slot
             PROVE  SlotOwned(d, i)'
  BY DEF OwnerHoldsSlot, SlotOwned
<1>0. TypeOK /\ SessionInv /\ SlotOwned(d, i)
  BY OwnerHoldsSlotBySlot DEF BridgeInv
<1>1. dev[s] \in Device /\ devslot[s] \in Slot
  BY <1>0 DEF read, SessionInv, Looping, TypeOK
<1>2. slots' = [slots EXCEPT ![dev[s]][devslot[s]] = Drained(@)]
  BY DEF read, ring_read_locked
<1>3. slots'[d][i] \in {slots[d][i], Drained(slots[d][i])}
  BY <1>0, <1>1, <1>2 DEF TypeOK, TableTypeOK
<1>4. slots'[d][i].ring = slots[d][i].ring /\ slots'[d][i].owner = slots[d][i].owner
  BY <1>0, <1>3 DEF Drained, TypeOK, TableTypeOK, RingSlot
<1>5. /\ \E l \in {"worker", "drain"} : pc' = [pc EXCEPT ![s] = l]
      /\ dev' = dev /\ devslot' = devslot
  BY DEF read, Goto, sessionVars
<1>6. \A t \in Session : pc[t] \in {"drain", "read", "worker", "write", "release"}
                           => pc'[t] \in {"drain", "read", "worker", "write", "release"}
  BY <1>0, <1>5 DEF TypeOK
<1>7. slots[d][i].ring => slots[d][i].owner \in Session
  BY <1>0 DEF SlotOwned, TypeOK, TableTypeOK, RingSlot
<1> QED BY <1>0, <1>4, <1>5, <1>6, <1>7, SlotKept DEF SlotOwned

LEMMA ReleaseOwns ==
  ASSUME BridgeInv, NEW s \in Session, release(s)
  PROVE  OwnerHoldsSlot'
<1> SUFFICES ASSUME NEW d \in Device, NEW i \in Slot
             PROVE  SlotOwned(d, i)'
  BY DEF OwnerHoldsSlot, SlotOwned
<1>0. TypeOK /\ SessionInv /\ SlotOwned(d, i)
  BY OwnerHoldsSlotBySlot DEF BridgeInv
<1>1. slots[d][i] \in RingSlot
  BY <1>0 DEF TypeOK, TableTypeOK
<1>2. \A t \in Session \ {s} : pc'[t] = pc[t] /\ devslot'[t] = devslot[t] /\ dev'[t] = dev[t]
  BY <1>0 DEF release, TypeOK, Goto, sessionVars
<1>3. slots[d][i].ring => slots[d][i].owner \in Session
  BY <1>0, <1>1 DEF SlotOwned, RingSlot
<1>4. CASE dev[s] = d /\ devslot[s] = i
  <2>1. devslot[s] # 0
    BY <1>4, TableAssumption DEF Slot
  <2>2. slots'[d][i] = Freed(slots[d][i])
    BY <1>0, <1>4, <2>1 DEF release, devtable_release, TypeOK, TableTypeOK
  <2>3. slots'[d][i].ring = FALSE /\ slots'[d][i].owner = NoSession
    BY <1>1, <2>2 DEF Freed, RingSlot
  <2> QED BY <2>3, SlotKept
<1>5. CASE ~(dev[s] = d /\ devslot[s] = i)
  <2>1. slots'[d][i] = slots[d][i]
    <3>1. CASE devslot[s] = 0
      BY <3>1 DEF release
    <3>2. CASE devslot[s] # 0
      <4>1. dev[s] \in Device /\ devslot[s] \in Slot
        BY <1>0, <3>2 DEF SessionInv, TypeOK
      <4> QED
        BY <1>0, <1>5, <3>2, <4>1 DEF release, devtable_release, TypeOK, TableTypeOK
    <3> QED BY <3>1, <3>2
  <2>2. slots[d][i].ring => slots[d][i].owner \in Session \ {s}
    BY <1>0, <1>3, <1>5 DEF SlotOwned
  <2> QED BY <1>0, <1>2, <2>1, <2>2, SlotKept DEF SlotOwned
<1> QED BY <1>4, <1>5

LEMMA BroadcastOwns ==
  ASSUME BridgeInv, NEW e \in Device, ssh_bridge_cdc_rx(e)
  PROVE  OwnerHoldsSlot'
<1> SUFFICES ASSUME NEW d \in Device, NEW i \in Slot
             PROVE  SlotOwned(d, i)'
  BY DEF OwnerHoldsSlot, SlotOwned
<1>0. TypeOK /\ SlotOwned(d, i)
  BY OwnerHoldsSlotBySlot DEF BridgeInv
<1>1. slots[d][i] \in RingSlot
  BY <1>0 DEF TypeOK, TableTypeOK
<1>2. PICK n \in 1 .. RingCap + 1 : device_broadcast_write(e, n)
  BY DEF ssh_bridge_cdc_rx
<1>3. slots'[d][i] \in {slots[d][i], ring_write_locked(slots[d][i], n)}
  BY <1>0, <1>2 DEF device_broadcast_write, TypeOK, TableTypeOK
<1>4. slots'[d][i].ring = slots[d][i].ring /\ slots'[d][i].owner = slots[d][i].owner
  BY <1>1, <1>3 DEF ring_write_locked, RingSlot
<1>5. UNCHANGED <<pc, dev, devslot>>
  BY DEF ssh_bridge_cdc_rx, sessionVars
<1> QED BY <1>0, <1>4, <1>5, SlotKept DEF SlotOwned

LEMMA RestartedOwns == Restarted => OwnerHoldsSlot'
BY TableAssumption DEF Restarted, OwnerHoldsSlot, EmptyTable, EmptySlot

LEMMA OwnerStep ==
  ASSUME BridgeInv, Next
  PROVE  OwnerHoldsSlot'
<1>0. TypeOK /\ SessionInv /\ ListenerInv
  BY DEF BridgeInv
<1>1. ASSUME NEW s \in Session,
             \/ Connect(s) \/ PeerClose(s) \/ listen_accept(s) \/ session_new(s)
             \/ handshake(s) \/ exec(s) \/ drain(s) \/ worker(s) \/ worker_break(s)
             \/ write(s) \/ free(s) \/ close(s)
      PROVE  OwnerHoldsSlot'
  BY <1>0, <1>1, TableUntouched
  DEF Connect, PeerClose, listen_accept, session_new, handshake, exec, drain,
      worker, worker_break, write, free, close, Goto, TypeOK, tableVars, sessionVars
<1>2. ASSUME NEW s \in Session, dispatch(s) \/ select(s) \/ undo(s) \/ deselect(s)
      PROVE  OwnerHoldsSlot'
  BY <1>0, <1>2, TableUntouched
  DEF dispatch, select, undo, deselect, Goto, TypeOK, tableVars, sessionVars
<1>3. CASE Listener
  BY <1>0, <1>3, TableUntouched
  DEF Listener, listen_check, listen_create, listen_create_fails, listen_count,
      TurnAway, Goto, ListenerInv, TypeOK, tableVars, sessionVars
<1>4. ASSUME NEW d \in Device, rx_check(d)
      PROVE  OwnerHoldsSlot'
  BY <1>4, TableUntouched DEF rx_check, tableVars, sessionVars
<1> QED
  BY <1>1, <1>2, <1>3, <1>4, AcquireOwns, ReadOwns, ReleaseOwns, BroadcastOwns,
     RestartedOwns
  DEF Next, Task, Waiting, reboot, panic

-----------------------------------------------------------------------------
(* The theorems.                                                           *)

LEMMA BridgeInvInit == Init => BridgeInv
<1> SUFFICES ASSUME Init PROVE BridgeInv
  OBVIOUS
<1>1. TypeOK
  BY InitType
<1>2. Live = {}
  BY DEF Init, NoTask, Live, LiveLocation
<1>3. Cardinality(Live) = 0
  BY <1>2, FS_EmptySet
<1>4. ListenerInv /\ SessionLimit
  BY <1>3, BridgeAssumption DEF Init, ListenerInv, SessionLimit
<1>5. SessionInv
  BY DEF Init, NoTask, NoneHeld, SessionInv, Looping
<1>6. ASSUME NEW d \in Device
      PROVE  active[d] = Cardinality(Selecting(d))
  <2>1. Selecting(d) = {}
    BY DEF Init, Selecting
  <2> QED BY <2>1, FS_EmptySet DEF Init, NoneActive
<1>7. OwnerHoldsSlot
  BY TableAssumption DEF Init, OwnerHoldsSlot, EmptyTable, EmptySlot
<1> QED BY <1>1, <1>4, <1>5, <1>6, <1>7 DEF BridgeInv, ActiveExact

LEMMA BridgeInvStep == BridgeInv /\ [Next]_vars => BridgeInv'
<1> SUFFICES ASSUME BridgeInv, [Next]_vars PROVE BridgeInv'
  OBVIOUS
<1>1. CASE Next
  BY <1>1, TypeStep, ListenerStep, SessionStep, ActiveStep, OwnerStep DEF BridgeInv
<1>2. CASE UNCHANGED vars
  BY <1>2
  DEF vars, tableVars, conn, sessionVars, listenerVars, BridgeInv, TypeOK, TableTypeOK,
      ListenerInv, SessionLimit, SessionInv, ActiveExact, Selecting, OwnerHoldsSlot, Live
<1> QED BY <1>1, <1>2

\* The inductive invariant: the types, what the listener knows, what every
\* session holds, and the four safety properties' first three.
THEOREM BridgeInvariant == Spec => []BridgeInv
BY BridgeInvInit, BridgeInvStep, PTL DEF Spec

\* Every variable keeps its type.
THEOREM TypeCorrect == Spec => []TypeOK
<1>1. BridgeInv => TypeOK
  BY DEF BridgeInv
<1> QED BY <1>1, BridgeInvariant, PTL

\* ssh_listen_task and the session tasks together keep the limit of
\* MAX_CONCURRENT_SESSIONS, whatever that limit is.
THEOREM SessionsLimited == Spec => []SessionLimit
<1>1. BridgeInv => SessionLimit
  BY DEF BridgeInv
<1> QED BY <1>1, BridgeInvariant, PTL

\* ACTIVE_DEVICES is exact on every device, for any number of sessions.
THEOREM ActiveCountsExact == Spec => []ActiveExact
<1>1. BridgeInv => ActiveExact
  BY DEF BridgeInv
<1> QED BY <1>1, BridgeInvariant, PTL

\* No owner_ssh dangles and no ring leaks.
THEOREM OwnersHoldSlots == Spec => []OwnerHoldsSlot
<1>1. BridgeInv => OwnerHoldsSlot
  BY DEF BridgeInv
<1> QED BY <1>1, BridgeInvariant, PTL

\* A device with a ring has a positive count, so that the receive threads
\* forward to it.
THEOREM RingsFed == Spec => []RingFed
<1>1. ASSUME BridgeInv, NEW d \in Device, NEW i \in Slot, slots[d][i].ring
      PROVE  active[d] > 0
  <2> DEFINE s == slots[d][i].owner
  <2>1. TypeOK /\ SessionInv /\ SlotOwned(d, i) /\ active[d] = Cardinality(Selecting(d))
    BY <1>1, OwnerHoldsSlotBySlot DEF BridgeInv, ActiveExact
  <2>2. s \in Session
    BY <1>1, <2>1 DEF SlotOwned, TypeOK, TableTypeOK, RingSlot
  <2>3. devslot[s] = i /\ i # 0 /\ dev[s] = d
    BY <1>1, <2>1, TableAssumption DEF SlotOwned, Slot
  <2>4. s \in Selecting(d)
    BY <1>1, <2>1, <2>2, <2>3 DEF SessionInv, SlotOwned, Selecting
  <2> QED BY <2>1, <2>4, SelectingFinite, FS_EmptySet
<1>2. BridgeInv => RingFed
  BY <1>1 DEF RingFed
<1> QED BY <1>2, BridgeInvariant, PTL

\* A connection is turned away at the check only when MaxSessions sessions are
\* alive in that state.
THEOREM RejectsJustified == Spec => RejectOnlyWhenFull
<1>1. ASSUME BridgeInv, Next, lpc = "check", lpc' = "accept", Live' = Live
      PROVE  Cardinality(Live) >= MaxSessions
  <2>1. count = Cardinality(Live)
    BY <1>1, LiveFinite DEF BridgeInv, ListenerInv
  <2>2. CASE listen_check
    BY <1>1, <2>1, <2>2 DEF listen_check
  <2>3. ASSUME NEW s \in Session, reboot(s) \/ panic(s)
        PROVE  FALSE
    <3>1. s \in Live
      BY <2>3 DEF reboot, panic, Live, LiveLocation
    <3>2. s \notin Live'
      BY <2>3 DEF reboot, panic, Restarted, NoTask, Live, LiveLocation
    <3> QED BY <1>1, <3>1, <3>2
  <2>4. CASE listen_check \/ \E s \in Session : reboot(s) \/ panic(s)
    BY <2>2, <2>3, <2>4
  <2>5. CASE listen_create \/ listen_create_fails \/ listen_count
    BY <1>1, <2>5 DEF listen_create, listen_create_fails, listen_count
  <2>6. CASE \E s \in Session :
               \/ Connect(s) \/ PeerClose(s) \/ listen_accept(s) \/ session_new(s)
               \/ handshake(s) \/ exec(s) \/ dispatch(s) \/ select(s) \/ acquire(s)
               \/ undo(s) \/ drain(s) \/ read(s) \/ worker(s) \/ worker_break(s)
               \/ write(s) \/ release(s) \/ deselect(s) \/ free(s) \/ close(s)
    BY <1>1, <2>6
    DEF Connect, PeerClose, listen_accept, session_new, handshake, exec, dispatch,
        select, acquire, undo, drain, read, worker, worker_break, write, release,
        deselect, free, close, listenerVars
  <2>7. CASE \E d \in Device : rx_check(d) \/ ssh_bridge_cdc_rx(d)
    BY <1>1, <2>7 DEF rx_check, ssh_bridge_cdc_rx, listenerVars
  <2> QED
    BY <1>1, <2>4, <2>5, <2>6, <2>7 DEF Next, Listener, Task, Waiting
<1>2. BridgeInv /\ [Next]_vars
        => [lpc = "check" /\ lpc' = "accept" /\ Live' = Live
              => Cardinality(Live) >= MaxSessions]_vars
  BY <1>1
<1> QED BY <1>2, BridgeInvariant, PTL DEF Spec, RejectOnlyWhenFull

-----------------------------------------------------------------------------
(* The server implements AdmissionControl.                                 *)

\* What a session's move does to the two abstract variables.
LEMMA PendingGoto ==
  ASSUME TypeOK, NEW s \in Session, NEW l \in Location, Goto(s, l)
  PROVE  Pending' = IF l \in {"backlog", "taken"} THEN Pending \cup {s} ELSE Pending \ {s}
BY DEF TypeOK, Goto, Pending

\* A step that moves nobody, or moves a session without admitting or removing
\* it, is a stutter of AdmissionControl.
LEMMA AbstractStutter ==
  ASSUME TypeOK, NEW s \in Session, NEW l \in Location, Goto(s, l),
         pc[s] \in {"backlog", "taken"} <=> l \in {"backlog", "taken"},
         pc[s] \in LiveLocation <=> l \in LiveLocation
  PROVE  UNCHANGED <<Pending, Live>>
BY LiveGoto, PendingGoto DEF Pending, Live

LEMMA AbstractLeave ==
  ASSUME TypeOK, NEW s \in Session, Goto(s, "close"), pc[s] \in LiveLocation
  PROVE  Admission!ANext
<1>1. Live' = Live \ {s} /\ Pending' = Pending \ {s}
  BY LiveGoto, PendingGoto DEF Location, LiveLocation
<1>2. s \in Live /\ s \notin Pending
  BY DEF Live, Pending, LiveLocation
<1> QED BY <1>1, <1>2 DEF Admission!ANext, Admission!Leave

LEMMA AbstractRestart ==
  ASSUME NEW s \in Session, pc[s] \in LiveLocation, Restarted
  PROVE  Admission!ANext
<1>1. Live' = {} /\ Pending' = {}
  BY DEF Restarted, NoTask, Live, Pending, LiveLocation
<1>2. Live # {}
  BY DEF Live
<1> QED BY <1>1, <1>2 DEF Admission!ANext, Admission!PowerCycle

LEMMA AbstractStep ==
  ASSUME BridgeInv, Next
  PROVE  Admission!ANext \/ UNCHANGED <<Pending, Live>>
<1> USE DEF Location, LiveLocation
<1>0. TypeOK
  BY DEF BridgeInv
<1>1. ASSUME NEW s \in Session, Connect(s)
      PROVE  Admission!ANext
  <2>1. Pending' = Pending \cup {s} /\ Live' = Live \ {s}
    BY <1>0, <1>1, LiveGoto, PendingGoto DEF Connect
  <2>2. s \notin Pending /\ s \notin Live
    BY <1>1 DEF Connect, Pending, Live
  <2> QED BY <2>1, <2>2 DEF Admission!ANext, Admission!Arrive
<1>2. ASSUME NEW s \in Session,
             \/ listen_accept(s) \/ handshake(s) \/ exec(s) \/ dispatch(s) \/ select(s)
             \/ acquire(s) \/ undo(s) \/ read(s) \/ worker(s) \/ worker_break(s)
             \/ write(s) \/ release(s) \/ deselect(s) \/ close(s)
      PROVE  UNCHANGED <<Pending, Live>>
  BY <1>0, <1>2, AbstractStutter
  DEF listen_accept, handshake, exec, dispatch, select, acquire, undo, read, worker,
      worker_break, write, release, deselect, close
<1>3. ASSUME NEW s \in Session, drain(s)
      PROVE  UNCHANGED <<Pending, Live>>
  <2>1. pc[s] = "drain" /\ (Goto(s, "read") \/ Goto(s, "worker"))
    BY <1>3 DEF drain
  <2> QED BY <1>0, <2>1, AbstractStutter
<1>4. ASSUME NEW s \in Session, session_new(s) \/ free(s)
      PROVE  Admission!ANext \/ UNCHANGED <<Pending, Live>>
  BY <1>0, <1>4, AbstractStutter, AbstractLeave DEF session_new, free
<1>5. ASSUME NEW s \in Session, reboot(s) \/ panic(s)
      PROVE  Admission!ANext
  BY <1>5, AbstractRestart DEF reboot, panic
<1>6. CASE lpc \in {"check", "create"} /\ TurnAway
  <2>1. Goto(cur, "none") /\ cur \in Session /\ pc[cur] = "taken"
    BY <1>6 DEF TurnAway, BridgeInv, ListenerInv
  <2>2. Pending' = Pending \ {cur} /\ Live' = Live \ {cur}
    BY <1>0, <2>1, LiveGoto, PendingGoto
  <2>3. cur \in Pending /\ cur \notin Live
    BY <2>1 DEF Pending, Live
  <2> QED BY <2>1, <2>2, <2>3 DEF Admission!ANext, Admission!Refuse
<1>7. CASE listen_create
  <2>1. Goto(cur, "new") /\ cur \in Session /\ pc[cur] = "taken"
    BY <1>7 DEF listen_create, BridgeInv, ListenerInv
  <2>2. Pending' = Pending \ {cur} /\ Live' = Live \cup {cur}
    BY <1>0, <2>1, LiveGoto, PendingGoto
  <2>3. cur \in Pending
    BY <2>1 DEF Pending
  <2>4. Cardinality(Live) < MaxSessions
    BY <1>7 DEF BridgeInv, ListenerInv, listen_create
  <2>5. Admission!Admit(cur)
    BY <2>2, <2>3, <2>4 DEF Admission!Admit, Admission!Cardinality, Cardinality
  <2> QED BY <2>1, <2>5 DEF Admission!ANext
<1>8. ASSUME UNCHANGED pc
      PROVE  UNCHANGED <<Pending, Live>>
  BY <1>8 DEF Pending, Live
<1>9. CASE Listener
  BY <1>6, <1>7, <1>8, <1>9
  DEF Listener, listen_check, listen_create_fails, listen_count
<1>10. ASSUME NEW s \in Session, PeerClose(s)
       PROVE  UNCHANGED <<Pending, Live>>
  BY <1>8, <1>10 DEF PeerClose
<1>11. ASSUME NEW d \in Device, rx_check(d) \/ ssh_bridge_cdc_rx(d)
       PROVE  UNCHANGED <<Pending, Live>>
  BY <1>8, <1>11 DEF rx_check, ssh_bridge_cdc_rx
<1> QED
  BY <1>1, <1>2, <1>3, <1>4, <1>5, <1>9, <1>10, <1>11 DEF Next, Task, Waiting

\* Every behaviour of the server is one of AdmissionControl: admission happens
\* at the creation of the task, where the limit of the check still holds.
THEOREM ImplementsAdmission == Spec => AdmissionSpec
<1>1. Init => Admission!AInit
  BY DEF Init, NoTask, Pending, Live, LiveLocation, Admission!AInit
<1>2. BridgeInv /\ [Next]_vars => [Admission!ANext]_(Admission!avars)
  <2>1. UNCHANGED vars => UNCHANGED <<Pending, Live>>
    BY DEF vars, Pending, Live
  <2> QED BY <2>1, AbstractStep DEF Admission!avars
<1> QED
  BY <1>1, <1>2, BridgeInvariant, PTL DEF Spec, AdmissionSpec, Admission!ASpec
===============================================================================
