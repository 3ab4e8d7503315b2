-------------------------------- MODULE WsBridge --------------------------------
(***************************************************************************)
(* The browser's terminals: the frames that ws_handler of httpserver.rs    *)
(* serves in the httpd task, and the rings, sender lists and transmit      *)
(* queues of usb_host.rs between it, the receive threads and the thread    *)
(* ws_send.                                                                *)
(*                                                                         *)
(* A connection is its descriptor fd.  A ring and a queue hold WS_RING_CAP *)
(* bytes; the n-th byte of port p is <<p, n>>.                             *)
(***************************************************************************)
EXTENDS Integers, Sequences, SequencesExt, FiniteSets

CONSTANTS
  Ports,        \* the ports in the order ws_send and the removals visit them
  Fd,           \* descriptors of connections
  WS_RING_CAP,
  MaxHeard,     \* bound: bytes each port receives
  MaxTyped,     \* bound: keys typed into all terminals
  NoPort

VARIABLES
  conn,      \* what the browser did: "none", "new", "closed", or the port it chose
  senders,   \* WS_SENDERS_*: the descriptors in each list, in order
  fd_port,   \* WS_FD_PORT_MAP
  ring, tx,  \* WS_RING_*, WS_TX_*
  httpd,     \* the frame being served: removals left, and what follows them
  ws_send,   \* locals of the thread; todo: the senders it still has to try
  work,      \* the send ws_send queued to httpd and waits for
  heard, typed,  \* counters of bytes and keys
  hist       \* history: got, lost, written (see Hist)

vars == <<conn, senders, fd_port, ring, tx, httpd, ws_send, work, heard, typed, hist>>

Port == Range(Ports)

\* A port is none of what else conn and fd_port may hold.
ASSUME WsAssumption ==
  /\ Ports \in Seq(Port) \ {<<>>} /\ Fd # {}
  /\ Port \cap {"none", "new", "closed", NoPort} = {}
  /\ WS_RING_CAP \in Nat \ {0} /\ MaxTyped \in Nat

Byte == Port \X (Nat \ {0})
Key  == [n : 1 .. MaxTyped, port : Port]

Httpd == [fd : Fd, port : Port \cup {NoPort}, left : Seq(Port),
          at : {"idle", "remove", "register"}]
Sender == [at : {"drain", "draining", "lock", "send", "wait", "tx", "tx_draining"},
           k : 1 .. Len(Ports), data : Seq(Byte), todo : Seq(Fd), keep : Seq(Fd)]

\* got: what the browser received since it chose its port; lost: bytes that
\* a full or a contended ring dropped; written: keys the device received
Hist == [got : [Fd -> Seq(Byte)], lost : SUBSET Byte, written : [Port -> Seq(Key)]]

TypeOK ==
  /\ conn \in [Fd -> {"none", "new", "closed"} \cup Port]
  /\ senders \in [Port -> Seq(Fd)]
  /\ fd_port \in [Fd -> Port \cup {NoPort}]
  /\ ring \in [Port -> Seq(Byte)] /\ \A p \in Port : Len(ring[p]) <= WS_RING_CAP
  /\ tx \in [Port -> Seq(Key)] /\ \A p \in Port : Len(tx[p]) <= WS_RING_CAP
  /\ httpd \in Httpd /\ ws_send \in Sender
  /\ work \in {"none", "queued", "sent", "failed"}
  /\ heard \in [Port -> Nat] /\ typed \in 0 .. MaxTyped
  /\ hist \in Hist

Idle == [at |-> "idle", fd |-> CHOOSE f \in Fd : TRUE, port |-> NoPort, left |-> <<>>]

Init ==
  /\ conn = [f \in Fd |-> "none"]
  /\ senders = [p \in Port |-> <<>>]
  /\ fd_port = [f \in Fd |-> NoPort]
  /\ ring = [p \in Port |-> <<>>] /\ tx = [p \in Port |-> <<>>]
  /\ httpd = Idle
  /\ ws_send = [at |-> "drain", k |-> 1, data |-> <<>>, todo |-> <<>>, keep |-> <<>>]
  /\ work = "none"
  /\ heard = [p \in Port |-> 0] /\ typed = 0
  /\ hist = [got |-> [f \in Fd |-> <<>>], lost |-> {}, written |-> [p \in Port |-> <<>>]]

Here == Ports[ws_send.k]

\* ws_send holds the list of its port while it tries its senders.
Held(p) == ws_send.at \in {"send", "wait"} /\ Here = p

-------------------------------------------------------------------------------
(* Receive threads.                                                        *)

\* A full ring drops its oldest byte; while ws_send has the ring locked, the
\* new ones are dropped.
ws_enqueue(p) ==
  /\ heard[p] < MaxHeard[p]
  /\ LET b    == <<p, heard[p] + 1>>
         full == Len(ring[p]) = WS_RING_CAP
     IN  IF ws_send.at = "draining" /\ Here = p
           THEN /\ hist' = [hist EXCEPT !.lost = @ \cup {b}]
                /\ ring' = ring
           ELSE /\ ring' = [ring EXCEPT ![p] = Append(IF full THEN Tail(@) ELSE @, b)]
                /\ hist' = [hist EXCEPT !.lost = IF full THEN @ \cup {Head(ring[p])} ELSE @]
  /\ heard' = [heard EXCEPT ![p] = @ + 1]
  /\ UNCHANGED <<conn, senders, fd_port, tx, httpd, ws_send, work, typed>>

-------------------------------------------------------------------------------
(* The httpd task: one frame after the other, and what is queued to it.    *)

Connect(f) ==
  /\ httpd.at = "idle" /\ conn[f] = "none"
  /\ conn' = [conn EXCEPT ![f] = "new"]
  /\ UNCHANGED <<senders, fd_port, ring, tx, httpd, ws_send, work, heard, typed, hist>>

\* The connection is closed, by the browser or because it broke.
handle_closed(f) ==
  /\ httpd.at = "idle" /\ conn[f] \notin {"none", "closed"}
  /\ conn' = [conn EXCEPT ![f] = "closed"]
  /\ httpd' = [at |-> "remove", fd |-> f, port |-> NoPort, left |-> Ports]
  /\ hist' = [hist EXCEPT !.got[f] = <<>>]
  /\ UNCHANGED <<senders, fd_port, ring, tx, ws_send, work, heard, typed>>

\* Mutant: a terminal that chooses a port leaves no other one.
handle_text_keeps(f, p) ==
  /\ httpd.at = "idle" /\ conn[f] \notin {"none", "closed"}
  /\ conn' = [conn EXCEPT ![f] = p]
  /\ httpd' = [at |-> "register", fd |-> f, port |-> p, left |-> <<>>]
  /\ hist' = [hist EXCEPT !.got[f] = <<>>]
  /\ UNCHANGED <<senders, fd_port, ring, tx, ws_send, work, heard, typed>>

\* A text frame: the terminal chooses port p, maybe another than before.
handle_text(f, p) ==
  /\ httpd.at = "idle" /\ conn[f] \notin {"none", "closed"}
  /\ conn' = [conn EXCEPT ![f] = p]
  /\ httpd' = [at |-> "remove", fd |-> f, port |-> p, left |-> Ports]
  /\ hist' = [hist EXCEPT !.got[f] = <<>>]
  /\ UNCHANGED <<senders, fd_port, ring, tx, ws_send, work, heard, typed>>

\* The frame is done when the lists are clean, or goes on to register.
Removed ==
  IF Len(httpd.left) > 1 THEN [httpd EXCEPT !.left = Tail(@)]
    ELSE IF httpd.port = NoPort THEN Idle
    ELSE [httpd EXCEPT !.left = <<>>, !.at = "register"]

\* retain: the descriptors but f, in their order.
Rank(i, S) == Cardinality({j \in S : j <= i})

Others(list, f) ==
  LET kept == {i \in DOMAIN list : list[i] # f}
  IN  [k \in 1 .. Cardinality(kept) |-> list[CHOOSE i \in kept : Rank(i, kept) = k]]

ws_remove_sender ==
  /\ httpd.at = "remove" /\ ~Held(Head(httpd.left))
  /\ senders' = [senders EXCEPT ![Head(httpd.left)] = Others(@, httpd.fd)]
  /\ fd_port' = [fd_port EXCEPT ![httpd.fd] = NoPort]
  /\ httpd' = Removed
  /\ conn' = [conn EXCEPT ![httpd.fd] = IF Removed.at = "idle" THEN "none" ELSE @]
  /\ UNCHANGED <<ring, tx, ws_send, work, heard, typed, hist>>

ws_register_sender ==
  /\ httpd.at = "register" /\ ~Held(httpd.port)
  /\ senders' = [senders EXCEPT ![httpd.port] = Append(@, httpd.fd)]
  /\ fd_port' = [fd_port EXCEPT ![httpd.fd] = httpd.port]
  /\ httpd' = Idle
  /\ UNCHANGED <<conn, ring, tx, ws_send, work, heard, typed, hist>>

\* A binary frame: serial_write queues the key for the port of the map, but
\* not while ws_send has the queue locked.
handle_binary(f) ==
  /\ httpd.at = "idle" /\ conn[f] \in Port /\ typed < MaxTyped
  /\ typed' = typed + 1
  /\ LET p   == fd_port[f]
         key == [n |-> typed + 1, port |-> conn[f]]
     IN  tx' = IF p = NoPort \/ (ws_send.at = "tx_draining" /\ Here = p) THEN tx
               ELSE [tx EXCEPT ![p] = Append(IF Len(@) = WS_RING_CAP THEN Tail(@) ELSE @, key)]
  /\ UNCHANGED <<conn, senders, fd_port, ring, httpd, ws_send, work, heard, hist>>

\* The queued send: the socket takes the frame or fails.
do_work ==
  /\ httpd.at = "idle" /\ work = "queued"
  /\ LET f == Head(ws_send.todo) IN
       \/ /\ conn[f] \notin {"none", "closed"}
          /\ work' = "sent"
          /\ hist' = [hist EXCEPT !.got[f] = @ \o ws_send.data]
       \/ work' = "failed" /\ hist' = hist
  /\ UNCHANGED <<conn, senders, fd_port, ring, tx, httpd, ws_send, heard, typed>>

-------------------------------------------------------------------------------
(* The thread ws_send: the rings of all ports, then their transmit queues. *)

\* On to the next port, or from the rings to the queues and back.
NextStage(at, other) ==
  ws_send' = [at |-> IF ws_send.k < Len(Ports) THEN at ELSE other,
              k |-> (ws_send.k % Len(Ports)) + 1, data |-> <<>>, todo |-> <<>>, keep |-> <<>>]

drain_lock ==
  /\ ws_send.at = "drain"
  /\ IF ring[Here] = <<>> THEN NextStage("drain", "tx")
       ELSE ws_send' = [ws_send EXCEPT !.at = "draining"]
  /\ UNCHANGED <<conn, senders, fd_port, ring, tx, httpd, work, heard, typed, hist>>

drain ==
  /\ ws_send.at = "draining"
  /\ ring' = [ring EXCEPT ![Here] = <<>>]
  /\ ws_send' = [ws_send EXCEPT !.at = "lock", !.data = ring[Here]]
  /\ UNCHANGED <<conn, senders, fd_port, tx, httpd, work, heard, typed, hist>>

\* Mutant: the ring is copied under its lock and cleared after it.
lock_list_clears ==
  /\ ws_send.at = "lock"
  /\ ring' = [ring EXCEPT ![Here] = <<>>]
  /\ ws_send' = [ws_send EXCEPT !.at = "send", !.todo = senders[Here]]
  /\ UNCHANGED <<conn, senders, fd_port, tx, httpd, work, heard, typed, hist>>

lock_list ==
  /\ ws_send.at = "lock"
  /\ ws_send' = [ws_send EXCEPT !.at = "send", !.todo = senders[Here]]
  /\ UNCHANGED <<conn, senders, fd_port, ring, tx, httpd, work, heard, typed, hist>>

\* retain_mut: a closed sender is pruned, another is sent to.
try_sender ==
  /\ ws_send.at = "send" /\ ws_send.todo # <<>>
  /\ IF conn[Head(ws_send.todo)] = "closed"
       THEN /\ ws_send' = [ws_send EXCEPT !.todo = Tail(@)]
            /\ work' = work
       ELSE /\ ws_send' = [ws_send EXCEPT !.at = "wait"]
            /\ work' = "queued"
  /\ UNCHANGED <<conn, senders, fd_port, ring, tx, httpd, heard, typed, hist>>

\* Mutant: the list keeps only the last terminal that was sent to.
sent_keeps_last ==
  /\ ws_send.at = "wait" /\ work \in {"sent", "failed"}
  /\ ws_send' = [ws_send EXCEPT !.at = "send", !.todo = <<>>,
                   !.keep = <<Head(ws_send.todo)>>]
  /\ work' = "none"
  /\ UNCHANGED <<conn, senders, fd_port, ring, tx, httpd, heard, typed, hist>>

\* A sender that failed is pruned; its entry in the map stays.
sent ==
  /\ ws_send.at = "wait" /\ work \in {"sent", "failed"}
  /\ ws_send' = [ws_send EXCEPT !.at = "send", !.todo = Tail(@),
                   !.keep = IF work = "sent" THEN Append(@, Head(ws_send.todo)) ELSE @]
  /\ work' = "none"
  /\ UNCHANGED <<conn, senders, fd_port, ring, tx, httpd, heard, typed, hist>>

unlock_list ==
  /\ ws_send.at = "send" /\ ws_send.todo = <<>>
  /\ senders' = [senders EXCEPT ![Here] = ws_send.keep]
  /\ NextStage("drain", "tx")
  /\ UNCHANGED <<conn, fd_port, ring, tx, httpd, work, heard, typed, hist>>

drain_tx_lock ==
  /\ ws_send.at = "tx"
  /\ IF tx[Here] = <<>> THEN NextStage("tx", "drain")
       ELSE ws_send' = [ws_send EXCEPT !.at = "tx_draining"]
  /\ UNCHANGED <<conn, senders, fd_port, ring, tx, httpd, work, heard, typed, hist>>

\* Mutant: the keys stay queued when they are written.
ws_drain_tx_copies ==
  /\ ws_send.at = "tx_draining"
  /\ hist' = [hist EXCEPT !.written[Here] = @ \o tx[Here]]
  /\ NextStage("tx", "drain")
  /\ UNCHANGED <<conn, senders, fd_port, ring, tx, httpd, work, heard, typed>>

\* The device may be away: then the keys are dropped.
ws_drain_tx ==
  /\ ws_send.at = "tx_draining"
  /\ tx' = [tx EXCEPT ![Here] = <<>>]
  /\ \/ hist' = [hist EXCEPT !.written[Here] = @ \o tx[Here]]
     \/ hist' = hist
  /\ NextStage("tx", "drain")
  /\ UNCHANGED <<conn, senders, fd_port, ring, httpd, work, heard, typed>>

-------------------------------------------------------------------------------
frame == \/ \E f \in Fd : \/ Connect(f) \/ handle_closed(f) \/ handle_binary(f)
                          \/ \E p \in Port : handle_text(f, p)
lists == ws_remove_sender \/ ws_register_sender
thread == \/ drain_lock \/ drain \/ lock_list \/ try_sender \/ sent \/ unlock_list
          \/ drain_tx_lock \/ ws_drain_tx

Next == \/ \E p \in Port : ws_enqueue(p)
        \/ frame \/ lists \/ do_work \/ thread

Spec == Init /\ [][Next]_vars

\* Both tasks go on; httpd takes the queued send between two frames.
FairSpec == Spec /\ WF_vars(lists) /\ SF_vars(do_work) /\ WF_vars(thread)

-------------------------------------------------------------------------------
(* Properties                                                              *)

\* Between two frames a terminal is in at most one list, once, and the map
\* has that port: what is typed goes where what is read comes from.
OneHome ==
  httpd.at = "idle" => \A f \in Fd, p \in Port :
    f \in Range(senders[p]) =>
      /\ fd_port[f] = p /\ conn[f] = p
      /\ \A q \in Port : Cardinality({i \in DOMAIN senders[q] : senders[q][i] = f})
                           = (IF q = p THEN 1 ELSE 0)

\* A terminal receives bytes of its port only, in order, none twice, and
\* between two it received nothing is missing but what a ring dropped.
BytesInOrder ==
  \A f \in Fd : conn[f] \in Port /\ httpd.at = "idle" =>
    LET got == hist.got[f] IN
    /\ \A i \in DOMAIN got : got[i][1] = conn[f]
    /\ \A i \in 1 .. Len(got) - 1 :
         /\ got[i][2] < got[i + 1][2]
         /\ \A n \in got[i][2] + 1 .. got[i + 1][2] - 1 : <<conn[f], n>> \in hist.lost

\* A device receives the keys of its own terminals only, and each key once.
KeysOnce ==
  \A p \in Port :
    LET keys == hist.written[p] IN
    /\ \A i \in DOMAIN keys : keys[i].port = p
    /\ \A i, j \in DOMAIN keys : i # j => keys[i].n # keys[j].n

\* f is being removed from the lists: it is in those that are left at most.
Removing(f) == httpd.at = "remove" /\ httpd.fd = f

\* What a frame is served with is what its connection is, and a list has a
\* connection once, and it is the connection's port and the map's.
HomeInv ==
  /\ httpd.at = "remove" =>
       /\ httpd.left # <<>>
       /\ conn[httpd.fd] = IF httpd.port = NoPort THEN "closed" ELSE httpd.port
  /\ httpd.at = "register" => /\ httpd.port \in Port /\ conn[httpd.fd] = httpd.port
                             /\ fd_port[httpd.fd] = NoPort
  /\ \A f \in Fd : fd_port[f] \in {NoPort, conn[f]} \/ Removing(f)
  /\ \A p \in Port :
       /\ IsInjective(senders[p])
       /\ \A f \in Range(senders[p]) :
            IF Removing(f) THEN p \in Range(httpd.left) ELSE conn[f] = p /\ fd_port[f] = p

\* While ws_send has a list locked it has kept some of it, and has some to try.
SendInv ==
  /\ work # "none" <=> ws_send.at = "wait"
  /\ ws_send.at = "wait" => ws_send.todo # <<>>
  /\ ws_send.at \notin {"send", "wait"} => ws_send.todo = <<>> /\ ws_send.keep = <<>>
  /\ ws_send.at \notin {"lock", "send", "wait"} => ws_send.data = <<>>
  /\ IsInjective(ws_send.todo) /\ IsInjective(ws_send.keep)
  /\ Range(ws_send.todo) \cap Range(ws_send.keep) = {}
  /\ Range(ws_send.todo) \cup Range(ws_send.keep) \subseteq Range(senders[Here])

\* Keys of port p in the order in which they were typed, up to number m, and
\* the keys of s before those of t.
KeysOf(p, s, m) ==
  \A i \in DOMAIN s : /\ s[i].port = p /\ s[i].n <= m
                      /\ \A j \in DOMAIN s : i < j => s[i].n < s[j].n
KeysBefore(s, t) == \A i \in DOMAIN s, j \in DOMAIN t : s[i].n < t[j].n

\* The queues and what was written are in the order the keys were typed.
KeysInv ==
  \A p \in Port : /\ KeysOf(p, hist.written[p], typed) /\ KeysOf(p, tx[p], typed)
                  /\ KeysBefore(hist.written[p], tx[p])

\* Bytes of port p, in order; those of S before those of T; from each of S on,
\* T has them all up to number m.
Sorted(p, s) == \A i \in DOMAIN s : s[i][1] = p /\ \A j \in DOMAIN s : i < j => s[i][2] < s[j][2]
Before(S, T) == \A b \in S, c \in T : b[2] < c[2]
Whole(p, S, m, T) == \A b \in S : \A n \in b[2] .. m : <<p, n>> \in T

\* What is in the ring and what ws_send took from it before.
RingInv ==
  /\ \A p \in Port : LET R == Range(ring[p]) IN
       /\ Sorted(p, ring[p]) /\ \A b \in R : b[2] <= heard[p]
       /\ Whole(p, R, heard[p], R \cup hist.lost)
  /\ LET D == Range(ws_send.data)
         R == Range(ring[Here])
     IN  /\ Sorted(Here, ws_send.data) /\ Before(D, R) /\ \A b \in D : b[2] <= heard[Here]
         /\ Whole(Here, D, heard[Here], D \cup R \cup hist.lost)

\* f is in the list of p and no send to it failed; it has data to receive.
Listens(f, p) == f \in IF Held(p) THEN Range(ws_send.todo) \cup Range(ws_send.keep)
                                 ELSE Range(senders[p])
Pending(f, p) ==
  /\ Here = p
  /\ \/ ws_send.at = "lock"
     \/ /\ ws_send.at \in {"send", "wait"} /\ f \in Range(ws_send.todo)
        /\ ~(work = "sent" /\ f = Head(ws_send.todo))
Coming(f, p) == Range(ring[p]) \cup IF Pending(f, p) THEN Range(ws_send.data) ELSE {}

\* What f received has no gap but what was lost, nor has what follows it.
Gapless(f) ==
  LET G == Range(hist.got[f]) IN
  /\ hist.got[f] # <<>> => conn[f] \in Port /\ (httpd.at = "idle" \/ httpd.fd # f)
  /\ Sorted(conn[f], hist.got[f])
  /\ \A c \in G : c[2] <= heard[conn[f]] /\ Whole(conn[f], G, c[2], G \cup hist.lost)
  /\ \A p \in Port : Listens(f, p) =>
       /\ Before(G, Coming(f, p))
       /\ Whole(p, G, heard[p], G \cup Coming(f, p) \cup hist.lost)

GotInv == \A f \in Fd : Gapless(f)

\* With these the properties above are inductive.
WsInv == TypeOK /\ HomeInv /\ SendInv /\ KeysInv /\ RingInv /\ GotInv

\* ws_send holds a list and waits for httpd, which waits for that list.
Stuck ==
  /\ work = "queued"
  /\ \/ httpd.at = "remove" /\ Held(Head(httpd.left))
     \/ httpd.at = "register" /\ Held(httpd.port)

\* Unless the two get stuck so, what is in a ring reaches every terminal that
\* stays registered.
HeardByAll ==
  \A f \in Fd : \A b \in UNION {{p} \X (1 .. MaxHeard[p]) : p \in Port} :
    (b \in Range(ring[b[1]]) /\ f \in Range(senders[b[1]]))
      ~> (Stuck \/ b \in Range(hist.got[f]) \cup hist.lost \/ f \notin Range(senders[b[1]])
            \/ (httpd.fd = f /\ httpd.at # "idle"))
===============================================================================
