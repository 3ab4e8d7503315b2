------------------------------- MODULE SshBridge -------------------------------
(***************************************************************************)
(* The SSH server of ssh_bridge.c: one listener task, one task per         *)
(* session, the serial devices' receive threads, and the clients.          *)
(*                                                                         *)
(* A session task is at a location pc[s]; a step ends where another task   *)
(* can see the difference: at a mutex, at an atomic counter, at a blocking *)
(* call.  A client is its TCP connection, as the server's stack sees it:   *)
(* its end (FIN or RST) may come at any moment, behind data the session    *)
(* has not read, or never, when the client just vanishes.                  *)
(***************************************************************************)
EXTENDS DeviceTable

CONSTANTS
  MaxSessions,  \* MAX_CONCURRENT_SESSIONS
  Stacks,       \* session stacks that fit in PSRAM
  NoDevice      \* a session that has not selected a device

ASSUME BridgeAssumption ==
  /\ MaxSessions \in Nat \ {0}
  /\ Stacks \in Nat
  /\ NoDevice \notin Device

VARIABLES
  pc,       \* location of every session, see Location
  open,     \* connections whose end has not arrived at the server
  unread,   \* of the others, those with data in front of the end, as long as
            \* the server may look
  dev,      \* device_name of a session
  cb,       \* sessions with device_write_cb # NULL
  devslot,  \* devslot of a session, 0 for NULL
  lpc,      \* location of the listener
  cur,      \* session whose client_fd the listener holds
  count,    \* s_session_count
  stacks,   \* session stacks left in PSRAM
  fwd       \* devices whose receive thread is about to call ssh_bridge_cdc_rx

conn         == <<open, unread>>
sessionVars  == <<dev, cb, devslot>>
listenerVars == <<lpc, cur>>
tableVars    == <<slots, active>>
vars == <<tableVars, pc, conn, sessionVars, listenerVars, count, stacks, fwd>>

\* Without a task: no connection, in the accept queue, held by the listener.
\* With a task that s_session_count is to count:
LiveLocation == {"new", "handshake", "dispatch", "exec", "select", "acquire",
                 "undo", "worker", "write", "drain", "read", "release",
                 "deselect", "free"}
\* Last, with the task not counted any more: "close".
Location == {"none", "backlog", "taken", "close"} \cup LiveLocation

Live == {s \in Session : pc[s] \in LiveLocation}

TypeOK ==
  /\ TableTypeOK
  /\ pc \in [Session -> Location]
  /\ open \subseteq Session
  /\ unread \subseteq Session
  /\ dev \in [Session -> Device \cup {NoDevice}]
  /\ cb \subseteq Session
  /\ devslot \in [Session -> Slot \cup {0}]
  /\ lpc \in {"accept", "check", "create", "count"}
  /\ cur \in Session \cup {NoSession}
  /\ count \in Int
  /\ stacks \in 0 .. Stacks
  /\ fwd \subseteq Device

NoTask       == [s \in Session |-> "none"]
NoneSelected == [s \in Session |-> NoDevice]
NoneHeld     == [s \in Session |-> 0]

\* ssh_bridge_init returned 0 and the listener waits in accept().
Init ==
  /\ slots = EmptyTable
  /\ active = NoneActive
  /\ pc = NoTask
  /\ open = {}
  /\ unread = {}
  /\ dev = NoneSelected
  /\ cb = {}
  /\ devslot = NoneHeld
  /\ lpc = "accept"
  /\ cur = NoSession
  /\ count = 0
  /\ stacks = Stacks
  /\ fwd = {}

Goto(s, l) == pc' = [pc EXCEPT ![s] = l]
-----------------------------------------------------------------------------
(* The clients.                                                            *)

\* A connection enters the accept queue, which listen() bounds.
Connect(s) ==
  /\ pc[s] = "none"
  /\ Cardinality({t \in Session : pc[t] = "backlog"}) < MaxSessions
  /\ Goto(s, "backlog")
  /\ open' = open \cup {s}
  /\ UNCHANGED <<tableVars, unread, sessionVars, listenerVars, count, stacks, fwd>>

\* The end of the connection arrives, perhaps behind data.  A client without
\* power or network sends none, and the server does not look for it.
PeerClose(s) ==
  /\ s \in open
  /\ open' = open \ {s}
  /\ \/ UNCHANGED unread
     \/ pc[s] \notin {"deselect", "free", "close"} /\ unread' = unread \cup {s}
  /\ UNCHANGED <<tableVars, pc, sessionVars, listenerVars, count, stacks, fwd>>

-----------------------------------------------------------------------------
(* ssh_listen_task.                                                        *)

listen_accept(s) ==
  /\ lpc = "accept"
  /\ pc[s] = "backlog"
  /\ Goto(s, "taken")
  /\ lpc' = "check"
  /\ cur' = s
  /\ UNCHANGED <<tableVars, conn, sessionVars, count, stacks, fwd>>

\* close(client_fd) and back to accept().
TurnAway ==
  /\ Goto(cur, "none")
  /\ open' = open \ {cur}
  /\ unread' = unread \ {cur}
  /\ lpc' = "accept"
  /\ cur' = NoSession

\* Mutant: one session too many.
listen_check_off_by_one ==
  /\ lpc = "check"
  /\ \/ count > MaxSessions /\ TurnAway
     \/ count <= MaxSessions /\ lpc' = "create" /\ UNCHANGED <<pc, conn, cur>>
  /\ UNCHANGED <<tableVars, sessionVars, count, stacks, fwd>>

listen_check ==
  /\ lpc = "check"
  /\ \/ /\ count >= MaxSessions
        /\ TurnAway
     \/ /\ count < MaxSessions
        /\ lpc' = "create"
        /\ UNCHANGED <<pc, conn, cur>>
  /\ UNCHANGED <<tableVars, sessionVars, count, stacks, fwd>>

\* The task runs at a higher priority than the listener, and before it is
\* counted.
listen_create ==
  /\ lpc = "create"
  /\ stacks > 0
  /\ Goto(cur, "new")
  /\ stacks' = stacks - 1
  /\ lpc' = "count"
  /\ cur' = NoSession
  /\ UNCHANGED <<tableVars, conn, sessionVars, count, fwd>>

\* Mutant: try until it works.
listen_create_fails_retries == lpc = "create" /\ UNCHANGED vars

\* The stack or another part of the task cannot be allocated.
listen_create_fails ==
  /\ lpc = "create"
  /\ TurnAway
  /\ UNCHANGED <<tableVars, sessionVars, count, stacks, fwd>>

listen_count ==
  /\ lpc = "count"
  /\ count' = count + 1
  /\ lpc' = "accept"
  /\ UNCHANGED <<tableVars, pc, conn, sessionVars, cur, stacks, fwd>>

-----------------------------------------------------------------------------
(* ssh_session_task, up to the command.                                    *)

\* Mutant: the early return forgets s_session_count.
session_new_uncounted(s) ==
  /\ pc[s] = "new"
  /\ Goto(s, "handshake") \/ Goto(s, "close")
  /\ UNCHANGED <<tableVars, conn, sessionVars, listenerVars, count, stacks, fwd>>

session_new(s) ==
  /\ pc[s] = "new"
  /\ \/ Goto(s, "handshake") /\ UNCHANGED count
     \/ Goto(s, "close") /\ count' = count - 1     \* wolfSSH_new failed
  /\ UNCHANGED <<tableVars, conn, sessionVars, listenerVars, stacks, fwd>>

\* The task reads from the connection, perhaps to its end.
MayRead(s) == unread' \in {unread, unread \ {s}}

\* Mutant: the count goes down here and again in the cleanup.
handshake_uncounts(s) ==
  /\ pc[s] = "handshake"
  /\ \/ s \in open \cup unread /\ Goto(s, "dispatch") /\ UNCHANGED count
     \/ Goto(s, "release") /\ count' = count - 1
  /\ MayRead(s)
  /\ UNCHANGED <<tableVars, open, sessionVars, listenerVars, stacks, fwd>>

\* wolfSSH_accept blocks until the handshake is over or the connection ends.
handshake(s) ==
  /\ pc[s] = "handshake"
  /\ \/ s \in open \cup unread /\ Goto(s, "dispatch")
     \/ Goto(s, "release")
  /\ MayRead(s)
  /\ UNCHANGED <<tableVars, open, sessionVars, listenerVars, count, stacks, fwd>>

dispatch(s) ==
  /\ pc[s] = "dispatch"
  /\ \/ /\ Goto(s, "exec")
        /\ UNCHANGED dev
     \/ /\ Goto(s, "select")
        /\ \E d \in Device : dev' = [dev EXCEPT ![s] = d]
  /\ UNCHANGED <<tableVars, conn, cb, devslot, listenerVars, count, stacks, fwd>>

\* power, dcpower, powercycle, pwm, an update that failed, or the usage text.
exec(s) ==
  /\ pc[s] = "exec"
  /\ Goto(s, "release")
  /\ UNCHANGED <<tableVars, conn, sessionVars, listenerVars, count, stacks, fwd>>

-----------------------------------------------------------------------------
(* ssh_session_task, "console".                                            *)

select(s) ==
  /\ pc[s] = "select"
  /\ \/ /\ ssh_select_device(dev[s])
        /\ cb' = cb \cup {s}
        /\ Goto(s, "acquire")
     \/ /\ Goto(s, "release")               \* the device is not there
        /\ UNCHANGED <<active, cb>>
  /\ UNCHANGED <<slots, conn, dev, devslot, listenerVars, count, stacks, fwd>>

\* ssh_handle_is_dead peeks at the socket: the end of a connection shows unless
\* data is in front of it.  Any of the connections with unread data may have it
\* in the socket (or in wolfSSH already).
LooksDead(d) ==
  LET ended == {t \in Session \ open : \E i \in Slot : slots[d][i].owner = t}
  IN  {dead \in SUBSET ended : ended \ unread \subseteq dead}

acquire(s) ==
  /\ pc[s] = "acquire"
  /\ \E dead \in LooksDead(dev[s]) :
       \/ \E k \in Slot :
            /\ devtable_acquire(s, dev[s], dead, k)
            /\ devslot' = [devslot EXCEPT ![s] = k]
            /\ Goto(s, "drain")
       \/ /\ devtable_acquire_fails(dev[s], dead)
          /\ Goto(s, "undo")
          /\ UNCHANGED devslot
  /\ UNCHANGED <<active, conn, dev, cb, listenerVars, count, stacks, fwd>>

\* Mutant: the device stays selected when there is no ring for the session.
undo_keeps_selected(s) ==
  /\ pc[s] = "undo"
  /\ cb' = cb \ {s}
  /\ Goto(s, "release")
  /\ UNCHANGED <<tableVars, conn, dev, devslot, listenerVars, count, stacks, fwd>>

undo(s) ==
  /\ pc[s] = "undo"
  /\ ssh_release_device(dev[s])
  /\ cb' = cb \ {s}
  /\ Goto(s, "release")
  /\ UNCHANGED <<slots, conn, dev, devslot, listenerVars, count, stacks, fwd>>

\* ring_read looks at slot->ring before it takes the mutex.
drain(s) ==
  /\ pc[s] = "drain"
  /\ Goto(s, IF slots[dev[s]][devslot[s]].ring THEN "read" ELSE "worker")
  /\ UNCHANGED <<tableVars, conn, sessionVars, listenerVars, count, stacks, fwd>>

\* ... and copies through slot->ring after; see panic for a NULL one.  The
\* loops that discard what is old read until the ring is empty.
read(s) ==
  /\ pc[s] = "read"
  /\ ~ReadsNull(slots[dev[s]][devslot[s]])
  /\ ring_read_locked(dev[s], devslot[s])
  /\ \/ Goto(s, "worker")
     \/ slots[dev[s]][devslot[s]].fill > 0 /\ Goto(s, "drain")
  /\ UNCHANGED <<active, conn, sessionVars, listenerVars, count, stacks, fwd>>

\* Mutant: the worker takes the end of the stream for a transient error.
worker_goes_on(s) ==
  /\ pc[s] = "worker"
  /\ MayRead(s)
  /\ Goto(s, "write") \/ Goto(s, "drain") \/ Goto(s, "worker")
  /\ UNCHANGED <<tableVars, open, sessionVars, listenerVars, count, stacks, fwd>>

\* select, wolfSSH_worker and wolfSSH_ChannelIdRead.  While the connection has
\* not ended, or has data left, the loop goes on: to the device with what was
\* typed, to the ring, or round again while the last send is incomplete ...
worker(s) ==
  /\ pc[s] = "worker"
  /\ s \in open \cup unread
  /\ MayRead(s)
  /\ Goto(s, "write") \/ Goto(s, "drain") \/ Goto(s, "worker")
  /\ UNCHANGED <<tableVars, open, sessionVars, listenerVars, count, stacks, fwd>>

\* device_write_cb, which may try for as long as the device refuses.
write(s) ==
  /\ pc[s] = "write"
  /\ Goto(s, "drain") \/ Goto(s, "worker")
  /\ UNCHANGED <<tableVars, conn, sessionVars, listenerVars, count, stacks, fwd>>

\* ... or it ends, on the client's disconnect, the end of the stream or an error.
worker_break(s) ==
  /\ pc[s] = "worker"
  /\ Goto(s, "release")
  /\ UNCHANGED <<tableVars, conn, sessionVars, listenerVars, count, stacks, fwd>>

-----------------------------------------------------------------------------
(* ssh_session_task, cleanup.                                              *)

\* The locals keep their values.  From here on nobody looks at the connection.
release(s) ==
  /\ pc[s] = "release"
  /\ IF devslot[s] # 0 THEN devtable_release(dev[s], devslot[s]) ELSE UNCHANGED slots
  /\ Goto(s, "deselect")
  /\ unread' = unread \ {s}
  /\ UNCHANGED <<active, open, sessionVars, listenerVars, count, stacks, fwd>>

deselect(s) ==
  /\ pc[s] = "deselect"
  /\ IF s \in cb THEN ssh_release_device(dev[s]) ELSE UNCHANGED active
  /\ Goto(s, "free")
  /\ UNCHANGED <<slots, conn, sessionVars, listenerVars, count, stacks, fwd>>

\* wolfSSH_free and the count, in one critical section of s_ssh_mutex.
free(s) ==
  /\ pc[s] = "free"
  /\ count' = count - 1
  /\ Goto(s, "close")
  /\ UNCHANGED <<tableVars, conn, sessionVars, listenerVars, stacks, fwd>>

\* close(client_fd), and the locals end with the task.  vTaskDelete(NULL) does
\* not give back a stack that xTaskCreateWithCaps allocated.
close(s) ==
  /\ pc[s] = "close"
  /\ Goto(s, "none")
  /\ open' = open \ {s}
  /\ unread' = unread \ {s}
  /\ dev' = [dev EXCEPT ![s] = NoDevice]
  /\ cb' = cb \ {s}
  /\ devslot' = [devslot EXCEPT ![s] = 0]
  /\ UNCHANGED <<tableVars, listenerVars, count, stacks, fwd>>

-----------------------------------------------------------------------------
(* The receive threads: bulk_in_cb and uart_rx_thread.                     *)

rx_check(d) ==
  /\ d \notin fwd
  /\ active[d] > 0
  /\ fwd' = fwd \cup {d}
  /\ UNCHANGED <<tableVars, pc, conn, sessionVars, listenerVars, count, stacks>>

ssh_bridge_cdc_rx(d) ==
  /\ d \in fwd
  /\ \E n \in 1 .. RingCap + 1 : device_broadcast_write(d, n)
  /\ fwd' = fwd \ {d}
  /\ UNCHANGED <<active, pc, conn, sessionVars, listenerVars, count, stacks>>

-----------------------------------------------------------------------------
(* The whole device.                                                       *)

\* All tasks start again, every connection is gone.
Restarted ==
  /\ slots' = EmptyTable
  /\ active' = NoneActive
  /\ pc' = NoTask
  /\ open' = {}
  /\ unread' = {}
  /\ dev' = NoneSelected
  /\ cb' = {}
  /\ devslot' = NoneHeld
  /\ lpc' = "accept"
  /\ cur' = NoSession
  /\ count' = 0
  /\ stacks' = Stacks
  /\ fwd' = {}

\* esp_restart of "reboot" and of an "update" that is complete.
reboot(s) == pc[s] = "exec" /\ Restarted

\* The panic handler, after a read through NULL.
panic(s) ==
  /\ pc[s] = "read"
  /\ ReadsNull(slots[dev[s]][devslot[s]])
  /\ Restarted

Listener == listen_check \/ listen_create \/ listen_create_fails \/ listen_count

\* What a session task does without waiting for its client or its device.
Task(s) ==
  \/ session_new(s) \/ dispatch(s) \/ select(s) \/ acquire(s) \/ undo(s)
  \/ drain(s) \/ read(s) \/ panic(s) \/ worker(s) \/ worker_break(s)
  \/ release(s) \/ deselect(s) \/ free(s) \/ close(s)

\* What may wait for the client: the handshake, and a command, for the image of
\* an "update".
Waiting(s) == handshake(s) \/ exec(s) \/ reboot(s)

Next ==
  \/ \E s \in Session :
       \/ Connect(s) \/ PeerClose(s)
       \/ listen_accept(s)
       \/ Task(s) \/ Waiting(s) \/ write(s)
  \/ Listener
  \/ \E d \in Device : rx_check(d) \/ ssh_bridge_cdc_rx(d)

Spec == Init /\ [][Next]_vars

\* FreeRTOS preempts, so that every task runs again and again; lwIP's accept
\* queue is first in, first out; recv does not block once the end of the
\* connection has arrived; a loop that reads finite data comes to its end, and
\* one that empties a ring is faster than the device that fills it.  Nothing is
\* assumed of a client that does not close, nor of device_write_cb.
Fairness ==
  /\ WF_vars(Listener)
  /\ \A s \in Session :
       /\ SF_vars(listen_accept(s))
       /\ WF_vars(Task(s))
       /\ WF_vars(s \notin open /\ Waiting(s))
       /\ SF_vars(s \in unread /\ worker(s) /\ s \notin unread')
       /\ SF_vars(read(s) /\ pc'[s] = "worker")

FairSpec == Spec /\ Fairness

-----------------------------------------------------------------------------
(* Safety.                                                                 *)

\* At most MaxSessions session tasks hold a WOLFSSH handle, although the
\* listener counts a session only after its task runs, and a task may leave
\* the count before it was in it.
SessionLimit == Cardinality(Live) <= MaxSessions

\* The listener turns a connection away for the limit only when that many
\* sessions are alive at that moment: no session that failed early or was
\* counted late uses up a place.
RejectOnlyWhenFull ==
  [][lpc = "check" /\ lpc' = "accept" /\ Live' = Live
       => Cardinality(Live) >= MaxSessions]_vars

\* The console sessions between ssh_select_device and ssh_release_device.
Selecting(d) == {s \in cb : dev[s] = d /\ pc[s] \notin {"free", "close"}}

\* ACTIVE_DEVICES[d] is the number of sessions that hold device d: whichever
\* way the console sessions end, none is counted twice or left behind.
ActiveExact == \A d \in Device : active[d] = Cardinality(Selecting(d))

\* A ring is allocated exactly while a session owns the slot, and the owner is
\* a running console session that will still release this very slot: the
\* staleness probe never follows a freed WOLFSSH, and no ring leaks.
OwnerHoldsSlot ==
  \A d \in Device, i \in Slot :
    LET r == slots[d][i]
    IN  /\ r.ring <=> r.owner # NoSession
        /\ r.ring => /\ pc[r.owner] \in {"drain", "read", "worker", "write", "release"}
                     /\ dev[r.owner] = d
                     /\ devslot[r.owner] = i

\* While a session has a ring, received bytes are forwarded to it: the receive
\* threads' unlocked look at ACTIVE_DEVICES never misses a ring.
RingFed ==
  \A d \in Device : (\E i \in Slot : slots[d][i].ring) => active[d] > 0

-----------------------------------------------------------------------------
(* The inductive invariant behind the four.                                *)

\* The listener holds the client_fd of one connection nobody else touches;
\* s_session_count lags behind the live sessions by the one it is about to
\* count; after the check there is room for one more.
ListenerInv ==
  /\ lpc \in {"check", "create"} => cur \in Session /\ pc[cur] = "taken"
  /\ count = Cardinality(Live) - (IF lpc = "count" THEN 1 ELSE 0)
  /\ lpc = "create" => Cardinality(Live) < MaxSessions

\* In the bridge loop, and in the cleanup.
Looping == {"drain", "read", "worker", "write"}
Cleanup == {"release", "deselect", "free", "close"}

\* What a console session holds at which location.
SessionInv ==
  \A s \in Session :
    /\ pc[s] \in {"select", "acquire", "undo"} \cup Looping => dev[s] \in Device
    /\ pc[s] \in {"acquire", "undo"} \cup Looping => s \in cb
    /\ s \in cb => /\ dev[s] \in Device
                   /\ pc[s] \in {"acquire", "undo"} \cup Looping \cup Cleanup
    /\ pc[s] \in Looping => devslot[s] # 0
    /\ devslot[s] # 0 => s \in cb /\ pc[s] \in Looping \cup Cleanup

BridgeInv ==
  /\ TypeOK
  /\ ListenerInv
  /\ SessionLimit
  /\ SessionInv
  /\ ActiveExact
  /\ OwnerHoldsSlot

-----------------------------------------------------------------------------
(* Liveness, under FairSpec.                                               *)

\* Once the end of a connection has arrived, its session ends: whatever the
\* client left behind, wherever the task is and whatever other sessions do to
\* its slot, it reaches the end of the cleanup, unless it is stuck in a write to
\* the device for ever.
ClosedSessionEnds ==
  \A s \in Session :
    []<>(pc[s] # "write")
      => (pc[s] # "none" /\ s \notin open ~> pc[s] = "none")

-----------------------------------------------------------------------------
\* The server keeps the promise of AdmissionControl: a connection waits in the
\* accept queue or in the listener's hands, a session is admitted from the
\* creation of its task to the end of its WOLFSSH handle.  Under FairSpec every
\* connection that waits is admitted or turned away in the end.
Pending == {s \in Session : pc[s] \in {"backlog", "taken"}}

Admission == INSTANCE AdmissionControl WITH waiting <- Pending, live <- Live

AdmissionSpec     == Admission!ASpec
AdmissionFairSpec == Admission!AFairSpec

-----------------------------------------------------------------------------
(* What the source says and the code does not do.                          *)

\* "Each session gets its own ring buffer ... freed when it disconnects"
\* (ssh_bridge.c:101): in the bridge loop, a session whose client is connected
\* owns the ring it reads.
RingPrivate ==
  \A s \in Session :
    pc[s] \in Looping /\ s \in open
      => slots[dev[s]][devslot[s]].owner = s

\* "NULL when this session slot is free" (ssh_bridge.c:122): no session reads
\* bytes through a slot that is free.
NoNullRead ==
  \A s \in Session : pc[s] = "read" => ~ReadsNull(slots[dev[s]][devslot[s]])

\* "a task created with xTaskCreateWithCaps() must be torn down via
\* vTaskDeleteWithCaps() from another task" (ssh_bridge.c:433): with no session
\* task left, every session stack is free.
StacksReturned ==
  (\A s \in Session : pc[s] = "none") /\ lpc = "accept" => stacks = Stacks
===============================================================================
