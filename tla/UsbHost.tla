-------------------------------- MODULE UsbHost --------------------------------
(***************************************************************************)
(* The USB host of usb_host.rs: usb_client_task with its callbacks and its *)
(* control requests, the life of a device in handle_new_device, the        *)
(* bulk-IN transfers it keeps polling, and the tasks that write to a port  *)
(* through its one bulk-OUT transfer while the device comes and goes.      *)
(*                                                                         *)
(* Callbacks run in usb_host_client_handle_events only, which the client   *)
(* task calls at three places (Pumping).  Devices are numbered as they are *)
(* plugged in; a write is any number of transfers (chunks).                *)
(***************************************************************************)
EXTENDS UsbDescriptors, FiniteSets

CONSTANTS
  Writer,         \* tasks that write: SSH sessions, ws_tx
  Target,         \* ports they write to
  Device          \* the devices plugged in, one after the other (UsbDescriptors)

VARIABLES
  bus,             \* the host library: see Bus
  events,          \* messages the client has not handled yet
  NEW_DEV_ADDR, DEV_GONE, CDC_DEV_HDL, CDC_PORT_COUNT,
  client,          \* locals of usb_client_task and handle_new_device
  ctrl,            \* the control transfer; DONE: CTRL_DONE with CTRL_STATUS
  bulk_in,         \* the bulk-IN transfer of each port
  NEEDS_RESUBMIT,
  bulk_out,        \* transfer and busy flag of each port
  writer,          \* locals of usb_cdc_write_port
  hist             \* history: see Hist

hostvars == <<NEW_DEV_ADDR, DEV_GONE, CDC_DEV_HDL, CDC_PORT_COUNT, client, ctrl>>
hostvars_but_client == <<NEW_DEV_ADDR, DEV_GONE, CDC_DEV_HDL, CDC_PORT_COUNT, ctrl>>
invars   == <<bulk_in, NEEDS_RESUBMIT>>
vars     == <<bus, events, hostvars, invars, bulk_out, writer, hist>>

Port   == 0 .. MAX_USB_PORTS - 1
MaxPlugs == Len(Device)
Plug   == 1 .. MaxPlugs
Eps    == [k \in DOMAIN Device |-> eps_to_use(Device[k])]

ASSUME UsbAssumption ==
  /\ MAX_USB_PORTS \in Nat \ {0}
  /\ Target \subseteq Port
  /\ MaxPlugs \in Nat /\ DOMAIN Device = Plug
  /\ \A k \in Plug : Descriptor(Device[k].items) /\ Device[k].ports \in Nat \ {0}

\* now: the device attached, 0: none; plugs: devices so far; known: the one
\* attached is enumerated; held: devices whose closing was refused
Bus ==
  [now : 0 .. MaxPlugs, plugs : 0 .. MaxPlugs, known : BOOLEAN, held : SUBSET Plug]
Client ==
  [at : {"scan", "idle", "claim", "ctrl", "wait", "alloc", "publish", "serve",
         "reinit", "recover", "recover_out", "resubmit", "invalidate", "free"},
   dev : 0 .. MaxPlugs, port : 0 .. MAX_USB_PORTS, active : 0 .. MAX_USB_PORTS,
   claimed : SUBSET Port, plan : Seq(Request), ok : BOOLEAN,
   then : {"alloc", "reinit", "recover", "recover_out", "resubmit"}]
Ctrl   == [at : {"idle", "flying", "done", "failed"}, req : Request \cup {""},
           DONE : {"no", "ok", "error"}]
Out    == [xfer : 0 .. MaxPlugs, busy : BOOLEAN, at : {"none", "idle", "flying", "done"}]
Write  == [at : {"idle", "check", "wait", "claim", "fill", "submit", "again"},
           port : Port, hdl : 0 .. MaxPlugs, xfer : 0 .. MaxPlugs]
\* accepted: CDC requests the device accepted in this set-up;
\* dropped: ports whose bulk-IN submit the attached device's driver refused, and
\* nobody looked;
\* stale: a claim of a port outlived its device;
\* unserved: the attached device, of which no port could be initialised
Hist   == [accepted : SUBSET ClassRequests, dropped : SUBSET Port, stale : BOOLEAN,
           unserved : 0 .. MaxPlugs]

TypeOK ==
  /\ bus \in Bus
  /\ events \in Seq({"NEW", "GONE"} \X Plug)
  /\ NEW_DEV_ADDR \in 0 .. MaxPlugs
  /\ DEV_GONE \in BOOLEAN
  /\ CDC_DEV_HDL \in 0 .. MaxPlugs
  /\ CDC_PORT_COUNT \in 0 .. MAX_USB_PORTS
  /\ client \in Client
  /\ ctrl \in Ctrl
  /\ bulk_in \in [Port -> {"none", "idle", "flying", "data", "error", "canceled"}]
  /\ NEEDS_RESUBMIT \in [Port -> BOOLEAN]
  /\ bulk_out \in [Port -> Out]
  /\ writer \in [Writer -> Write]
  /\ hist \in Hist

Idle  == [at |-> "idle", dev |-> 0, port |-> 0, active |-> 0,
          claimed |-> {}, plan |-> <<>>, then |-> "alloc", ok |-> TRUE]
Away  == [at |-> "idle", port |-> 0, hdl |-> 0, xfer |-> 0]
NoOut == [xfer |-> 0, busy |-> FALSE, at |-> "none"]

Init ==
  /\ bus = [now |-> 0, plugs |-> 0, known |-> FALSE, held |-> {}]
  /\ events = <<>>
  /\ NEW_DEV_ADDR = 0 /\ DEV_GONE = FALSE
  /\ CDC_DEV_HDL = 0 /\ CDC_PORT_COUNT = 0
  /\ client = [Idle EXCEPT !.at = "scan"]
  /\ ctrl = [at |-> "idle", req |-> "", DONE |-> "no"]
  /\ bulk_in = [p \in Port |-> "none"]
  /\ NEEDS_RESUBMIT = [p \in Port |-> FALSE]
  /\ bulk_out = [p \in Port |-> NoOut]
  /\ writer = [w \in Writer |-> Away]
  /\ hist = [accepted |-> {}, dropped |-> {}, stale |-> FALSE, unserved |-> 0]

Attached == client.dev # 0 /\ bus.now = client.dev
Opened   == Device[client.dev]
eps      == Eps[client.dev]

-------------------------------------------------------------------------------
(* The bus and the host library.  A device is announced once it is         *)
(* enumerated.  Unplugging fails what is in flight; only a client that has *)
(* the device open is told, and after that.                                *)

PlugIn ==
  /\ bus.now = 0 /\ bus.plugs < MaxPlugs
  /\ bus' = [bus EXCEPT !.now = bus.plugs + 1, !.plugs = @ + 1, !.known = FALSE]
  /\ UNCHANGED <<events, hostvars, invars, bulk_out, writer, hist>>

Enumerate ==
  /\ bus.now # 0 /\ ~bus.known
  /\ bus' = [bus EXCEPT !.known = TRUE]
  /\ events' = Append(events, <<"NEW", bus.now>>)
  /\ UNCHANGED <<hostvars, invars, bulk_out, writer, hist>>

Unplug ==
  /\ bus.now # 0
  /\ bus' = [bus EXCEPT !.now = 0]
  /\ events' = IF bus.now \in bus.held \cup {client.dev}
                  THEN Append(events, <<"GONE", bus.now>>) ELSE events
  /\ ctrl' = [ctrl EXCEPT !.at = IF @ = "flying" THEN "failed" ELSE @]
  /\ hist' = [hist EXCEPT !.dropped = {}, !.unserved = 0]
  /\ IF Attached
       THEN /\ \E status \in {"error", "canceled"} :
                 bulk_in' = [p \in Port |-> IF bulk_in[p] = "flying" THEN status ELSE bulk_in[p]]
            /\ bulk_out' = [p \in Port |-> IF bulk_out[p].at = "flying"
                                             THEN [bulk_out[p] EXCEPT !.at = "done"]
                                             ELSE bulk_out[p]]
       ELSE UNCHANGED <<bulk_in, bulk_out>>
  /\ UNCHANGED <<NEW_DEV_ADDR, DEV_GONE, CDC_DEV_HDL, CDC_PORT_COUNT, client,
                 NEEDS_RESUBMIT, writer>>

\* The device answers a control request, or stalls it.
AnswerCtrl ==
  /\ ctrl.at = "flying"
  /\ \/ /\ ctrl' = [ctrl EXCEPT !.at = "done"]
        /\ hist' = [hist EXCEPT !.accepted = @ \cup ({ctrl.req} \cap ClassRequests)]
     \/ /\ ctrl' = [ctrl EXCEPT !.at = "failed"]
        /\ hist' = hist
  /\ UNCHANGED <<bus, events, NEW_DEV_ADDR, DEV_GONE, CDC_DEV_HDL, CDC_PORT_COUNT,
                 client, invars, bulk_out, writer>>

CompleteIn(p) ==
  /\ bulk_in[p] = "flying"
  /\ \E status \in {"data", "error"} : bulk_in' = [bulk_in EXCEPT ![p] = status]
  /\ UNCHANGED <<bus, events, hostvars, NEEDS_RESUBMIT, bulk_out, writer, hist>>

CompleteOut(p) ==
  /\ bulk_out[p].at = "flying"
  /\ bulk_out' = [bulk_out EXCEPT ![p].at = "done"]
  /\ UNCHANGED <<bus, events, hostvars, invars, writer, hist>>

-------------------------------------------------------------------------------
(* Callbacks, in usb_host_client_handle_events.                            *)

Pumping == client.at \in {"idle", "wait", "serve"}

\* Mutant: a new device is noted only while none is open.
client_event_cb_while_idle ==
  /\ Pumping /\ events # <<>>
  /\ LET type == Head(events)[1] IN
       /\ type = "GONE" => /\ ctrl.at \in {"idle", "flying"}
                           /\ \A p \in Port : /\ bulk_in[p] \in {"none", "idle", "flying"}
                                              /\ bulk_out[p].at # "done"
       /\ NEW_DEV_ADDR' = IF type = "NEW" /\ client.dev = 0 THEN Head(events)[2] ELSE NEW_DEV_ADDR
       /\ DEV_GONE' = (DEV_GONE \/ type = "GONE")
  /\ events' = Tail(events)
  /\ UNCHANGED <<bus, CDC_DEV_HDL, CDC_PORT_COUNT, client, ctrl, invars, bulk_out, writer, hist>>

client_event_cb ==
  /\ Pumping /\ events # <<>>
  /\ LET type == Head(events)[1] IN
       /\ type = "GONE" => /\ ctrl.at \in {"idle", "flying"}
                           /\ \A p \in Port : /\ bulk_in[p] \in {"none", "idle", "flying"}
                                              /\ bulk_out[p].at # "done"
       /\ NEW_DEV_ADDR' = IF type = "NEW" THEN Head(events)[2] ELSE NEW_DEV_ADDR
       /\ DEV_GONE' = (DEV_GONE \/ type = "GONE")
  /\ events' = Tail(events)
  /\ UNCHANGED <<bus, CDC_DEV_HDL, CDC_PORT_COUNT, client, ctrl, invars, bulk_out, writer, hist>>

ctrl_xfer_cb ==
  /\ Pumping /\ ctrl.at \in {"done", "failed"}
  /\ ctrl' = [ctrl EXCEPT !.at = "idle", !.req = "",
                          !.DONE = IF ctrl.at = "done" THEN "ok" ELSE "error"]
  /\ UNCHANGED <<bus, events, NEW_DEV_ADDR, DEV_GONE, CDC_DEV_HDL, CDC_PORT_COUNT,
                 client, invars, bulk_out, writer, hist>>

bulk_out_cb(p) ==
  /\ Pumping /\ bulk_out[p].at = "done"
  /\ bulk_out' = [bulk_out EXCEPT ![p].at = "idle", ![p].busy = FALSE]
  /\ UNCHANGED <<bus, events, hostvars, invars, writer, hist>>

\* After data the transfer is submitted again; whether that is refused is not
\* looked at.  After an error the serving loop does it later; a canceled one is
\* left alone.
Resubmits(p) ==
  \E sent \in BOOLEAN :
    LET again == bulk_in[p] = "data" /\ ~DEV_GONE IN
    /\ sent => again /\ Attached
    /\ bulk_in' = [bulk_in EXCEPT ![p] = IF sent THEN "flying" ELSE "idle"]
    /\ hist' = [hist EXCEPT !.dropped = IF again /\ Attached /\ ~sent THEN @ \cup {p} ELSE @]

\* Mutant: a failed transfer is not flagged.
bulk_in_cb_keeps_error(p) ==
  /\ Pumping /\ bulk_in[p] \in {"data", "error", "canceled"}
  /\ Resubmits(p)
  /\ UNCHANGED <<bus, events, hostvars, NEEDS_RESUBMIT, bulk_out, writer>>

bulk_in_cb(p) ==
  /\ Pumping /\ bulk_in[p] \in {"data", "error", "canceled"}
  /\ Resubmits(p)
  /\ NEEDS_RESUBMIT' = [NEEDS_RESUBMIT EXCEPT ![p] = @ \/ bulk_in[p] = "error"]
  /\ UNCHANGED <<bus, events, hostvars, bulk_out, writer>>

-------------------------------------------------------------------------------
(* ctrl_transfer_sync: the requests of client.plan, one after the other.   *)

\* A client that sends the plan, then goes on at then.
Sends(c, plan, then) == [c EXCEPT !.at = "ctrl", !.plan = plan, !.then = then, !.ok = TRUE]

\* CDC-ACM repeats a refused request for the data interface.
Answered(good) ==
  LET plan == IF ~good /\ client.plan[1] \in {"SetLineCoding", "SetControlLineState"}
                       /\ Opened.chip = "CDC"
                THEN <<OnData(client.plan[1])>> \o Tail(client.plan)
                ELSE Tail(client.plan)
  IN  [client EXCEPT !.plan = plan,
                     !.ok = @ /\ (good \/ Len(plan) = Len(client.plan)
                                       \/ Opened.chip # "CDC"),
                     !.at = IF plan = <<>> THEN client.then ELSE "ctrl"]

\* done: what becomes of CTRL_DONE.  A request that timed out leaves the
\* transfer in flight, and the next is refused until its callback has run.
submit_control(done) ==
  /\ client.at = "ctrl"
  /\ IF Attached /\ ctrl.at = "idle"
       THEN /\ ctrl' = [ctrl EXCEPT !.at = "flying", !.req = client.plan[1], !.DONE = done]
            /\ client' = [client EXCEPT !.at = "wait"]
       ELSE /\ ctrl' = [ctrl EXCEPT !.DONE = done]
            /\ client' = Answered(FALSE)
  /\ UNCHANGED <<bus, events, NEW_DEV_ADDR, DEV_GONE, CDC_DEV_HDL, CDC_PORT_COUNT,
                 invars, bulk_out, writer, hist>>

\* Mutant: CTRL_DONE is not reset.
ctrl_submit_keeps_done == submit_control(ctrl.DONE)

ctrl_submit == submit_control("no")

ctrl_answered ==
  /\ client.at = "wait" /\ ctrl.DONE # "no"
  /\ client' = Answered(ctrl.DONE = "ok")
  /\ UNCHANGED <<bus, events, hostvars_but_client, invars, bulk_out, writer, hist>>

ctrl_timeout ==
  /\ client.at = "wait" /\ ctrl.DONE = "no"
  /\ client' = Answered(FALSE)
  /\ UNCHANGED <<bus, events, hostvars_but_client, invars, bulk_out, writer, hist>>

-------------------------------------------------------------------------------
(* usb_client_task and handle_new_device.                                  *)

Unchanged_but_client ==
  UNCHANGED <<events, CDC_DEV_HDL, CDC_PORT_COUNT, ctrl, invars, bulk_out, writer>>

\* The list of devices that were there before the client; with retries the
\* task stays here until there is one.
scan ==
  /\ client.at = "scan"
  /\ NEW_DEV_ADDR' = IF bus.known THEN bus.now ELSE 0
  /\ client' = Idle
  /\ UNCHANGED <<bus, DEV_GONE, hist>> /\ Unchanged_but_client

\* The device may be gone or never closed, or its descriptors of no use.
open_device ==
  /\ client.at = "idle" /\ NEW_DEV_ADDR # 0
  /\ NEW_DEV_ADDR' = 0
  /\ \/ /\ bus.now = NEW_DEV_ADDR /\ bus.now \notin bus.held
        /\ Eps[NEW_DEV_ADDR] # <<>>
        /\ client' = [client EXCEPT !.at = "claim", !.dev = NEW_DEV_ADDR, !.port = 0, !.active = 0]
        /\ UNCHANGED <<DEV_GONE, hist>>
     \/ /\ \/ bus.now # NEW_DEV_ADDR \/ bus.now \in bus.held
           \/ Eps[NEW_DEV_ADDR] = <<>>
        /\ client' = client
        /\ DEV_GONE' = FALSE
        /\ hist' = [hist EXCEPT !.unserved = IF bus.now = NEW_DEV_ADDR THEN bus.now ELSE @]
  /\ UNCHANGED bus /\ Unchanged_but_client

NextPort(c) == [c EXCEPT !.at = IF c.port + 1 < Len(eps) THEN "claim" ELSE "publish",
                         !.port = @ + 1]

claim ==
  /\ client.at = "claim"
  /\ \/ /\ Attached
        /\ client' = Sends([client EXCEPT !.claimed = @ \cup {client.port}],
                           chip_init(Opened.chip), "alloc")
        /\ hist' = [hist EXCEPT !.accepted = {}]
     \/ /\ client' = NextPort(client)
        /\ hist' = hist
  /\ UNCHANGED <<bus, NEW_DEV_ADDR, DEV_GONE>> /\ Unchanged_but_client

\* Either transfer may not be allocated; without bulk-IN the port is skipped,
\* but stays claimed.
alloc ==
  /\ client.at = "alloc"
  /\ LET p == client.port IN
     \/ /\ client' = NextPort(client)
        /\ UNCHANGED <<bulk_in, bulk_out>>
     \/ /\ client' = NextPort([client EXCEPT !.active = @ + 1])
        /\ bulk_in' = [bulk_in EXCEPT ![p] = "idle"]
        /\ \/ bulk_out' = [bulk_out EXCEPT ![p].xfer = client.dev, ![p].at = "idle"]
           \/ bulk_out' = bulk_out
  /\ hist' = [hist EXCEPT !.accepted = {}]
  /\ UNCHANGED <<bus, events, hostvars_but_client, NEEDS_RESUBMIT, writer>>

Active == 0 .. client.active - 1

\* Any submit may be refused, which only the log tells.
publish ==
  /\ client.at = "publish" /\ client.active > 0
  /\ CDC_PORT_COUNT' = client.active
  /\ CDC_DEV_HDL' = client.dev
  /\ DEV_GONE' = FALSE
  /\ LET ready == {p \in Active : bulk_in[p] = "idle"} IN
     \E sent \in SUBSET ready :
       /\ sent # {} => Attached
       /\ bulk_in' = [p \in Port |-> IF p \in sent THEN "flying" ELSE bulk_in[p]]
       /\ hist' = [hist EXCEPT !.dropped = IF Attached THEN ready \ sent ELSE {}]
  /\ NEEDS_RESUBMIT' = [p \in Port |-> FALSE]
  /\ client' = [client EXCEPT !.at = "serve"]
  /\ UNCHANGED <<bus, events, NEW_DEV_ADDR, ctrl, bulk_out, writer>>

\* usb_host_device_close is refused, and stays so, while one of the device's
\* interfaces is claimed.
close(claimed) ==
  bus' = [bus EXCEPT !.held = IF claimed = {} THEN @ ELSE @ \cup {client.dev}]

\* No port could be initialised.  What was claimed is not released.
give_up ==
  /\ client.at = "publish" /\ client.active = 0
  /\ close(client.claimed)
  /\ client' = Idle
  /\ DEV_GONE' = FALSE
  /\ hist' = [hist EXCEPT !.unserved = IF Attached THEN client.dev ELSE @]
  /\ UNCHANGED NEW_DEV_ADDR /\ Unchanged_but_client

\* A retry period is over and a transfer waits to be submitted again.
retry ==
  /\ client.at = "serve"
  /\ \E p \in Active : NEEDS_RESUBMIT[p]
  /\ IF Opened.chip = "CDC"
       THEN /\ client' = Sends([client EXCEPT !.port = 0], cdc_acm_init, "reinit")
            /\ hist' = [hist EXCEPT !.accepted = {}]
       ELSE /\ client' = [client EXCEPT !.at = "recover", !.port = 0]
            /\ hist' = hist
  /\ UNCHANGED <<bus, NEW_DEV_ADDR, DEV_GONE>> /\ Unchanged_but_client

\* The device is ready: the set-up runs once more, for the log.
reinit ==
  /\ client.at = "reinit"
  /\ client' = IF client.ok THEN Sends(client, cdc_acm_init, "recover")
                            ELSE [client EXCEPT !.at = "recover"]
  /\ hist' = [hist EXCEPT !.accepted = {}]
  /\ UNCHANGED <<bus, NEW_DEV_ADDR, DEV_GONE>> /\ Unchanged_but_client

\* ep_recover halts, flushes and clears the host's pipe, which cancels what
\* is in flight, then asks the device to clear its endpoint.
recover_in ==
  /\ client.at = "recover" /\ client.port \in Active
  /\ NEEDS_RESUBMIT' = [NEEDS_RESUBMIT EXCEPT ![client.port] = FALSE]
  /\ client' = IF NEEDS_RESUBMIT[client.port] /\ bulk_in[client.port] # "none"
                 THEN Sends(client, <<"CLEAR_FEATURE">>, "recover_out")
                 ELSE [client EXCEPT !.port = @ + 1]
  /\ UNCHANGED <<bus, events, hostvars_but_client, bulk_in, bulk_out, writer, hist>>

recover_out ==
  /\ client.at = "recover_out"
  /\ bulk_out' = [bulk_out EXCEPT ![client.port].at = IF @ = "flying" THEN "done" ELSE @]
  /\ client' = Sends(client, <<"CLEAR_FEATURE">>, "resubmit")
  /\ UNCHANGED <<bus, events, hostvars_but_client, invars, writer, hist>>

recovered ==
  /\ client.at = "recover" /\ client.port \notin Active
  /\ client' = [client EXCEPT !.at = "serve"]
  /\ UNCHANGED <<bus, NEW_DEV_ADDR, DEV_GONE, hist>> /\ Unchanged_but_client

resubmit ==
  /\ client.at = "resubmit"
  /\ \/ /\ Attached
        /\ bulk_in' = [bulk_in EXCEPT ![client.port] = "flying"]
        /\ UNCHANGED NEEDS_RESUBMIT
     \/ /\ NEEDS_RESUBMIT' = [NEEDS_RESUBMIT EXCEPT ![client.port] = TRUE]
        /\ UNCHANGED bulk_in
  /\ client' = [client EXCEPT !.at = "recover", !.port = @ + 1]
  /\ UNCHANGED <<bus, events, hostvars_but_client, bulk_out, writer, hist>>

unpublish ==
  /\ client.at = "serve" /\ DEV_GONE
  /\ CDC_DEV_HDL' = 0 /\ CDC_PORT_COUNT' = 0
  /\ client' = [client EXCEPT !.at = "invalidate"]
  /\ UNCHANGED <<bus, events, NEW_DEV_ADDR, DEV_GONE, ctrl, invars, bulk_out, writer, hist>>

Claims(w) == writer[w].at \in {"fill", "submit", "again"}

invalidate ==
  /\ client.at = "invalidate"
  /\ bulk_out' = [p \in Port |-> [bulk_out[p] EXCEPT !.busy = FALSE, !.xfer = 0]]
  /\ NEEDS_RESUBMIT' = [p \in Port |-> FALSE]
  /\ hist' = [hist EXCEPT !.stale = @ \/ \E w \in Writer : Claims(w)]
  /\ client' = [client EXCEPT !.at = "free"]
  /\ UNCHANGED <<bus, events, hostvars_but_client, bulk_in, writer>>

\* Mutant: the interfaces are not released.
free_keeps_claims ==
  /\ client.at = "free"
  /\ bulk_in' = [p \in Port |-> "none"]
  /\ bulk_out' = [p \in Port |-> [bulk_out[p] EXCEPT !.at = "none"]]
  /\ close(client.claimed)
  /\ client' = Idle
  /\ DEV_GONE' = FALSE
  /\ UNCHANGED <<events, NEW_DEV_ADDR, CDC_DEV_HDL, CDC_PORT_COUNT, ctrl,
                 NEEDS_RESUBMIT, writer, hist>>

\* Of the ports 0 .. active_ports - 1 the transfers are freed and the
\* interfaces released.  The transfers of another are out of reach.
free ==
  /\ client.at = "free"
  /\ bulk_in' = [p \in Port |-> "none"]
  /\ bulk_out' = [p \in Port |-> [bulk_out[p] EXCEPT !.at = "none"]]
  /\ close(client.claimed \ Active)
  /\ client' = Idle
  /\ DEV_GONE' = FALSE
  /\ UNCHANGED <<events, NEW_DEV_ADDR, CDC_DEV_HDL, CDC_PORT_COUNT, ctrl,
                 NEEDS_RESUBMIT, writer, hist>>

-------------------------------------------------------------------------------
(* usb_cdc_write_port and usb_cdc_submit_chunk.                            *)

hostside == <<bus, events, hostvars, invars>>
At(w, at) == writer' = [writer EXCEPT ![w].at = at]
Again(w)  == writer' = [writer EXCEPT ![w].at = "check", ![w].hdl = 0, ![w].xfer = 0]

write_begin(w) ==
  /\ writer[w].at = "idle"
  /\ \E p \in Target : writer' = [writer EXCEPT ![w].at = "check", ![w].port = p]
  /\ UNCHANGED <<hostside, bulk_out, hist>>

\* Mutant: without a device the write waits for the next one.
write_check_waits(w) ==
  /\ writer[w].at = "check" /\ CDC_DEV_HDL # 0
  /\ writer' = [writer EXCEPT ![w] =
                  IF bulk_out[@.port].xfer = 0 THEN Away
                    ELSE [@ EXCEPT !.hdl = CDC_DEV_HDL, !.at = "wait"]]
  /\ UNCHANGED <<hostside, bulk_out, hist>>

write_check(w) ==
  /\ writer[w].at = "check"
  /\ writer' = [writer EXCEPT ![w] =
                  IF CDC_DEV_HDL = 0 \/ bulk_out[@.port].xfer = 0 THEN Away
                    ELSE [@ EXCEPT !.hdl = CDC_DEV_HDL, !.at = "wait"]]
  /\ UNCHANGED <<hostside, bulk_out, hist>>

\* After 200 ms the rest of the write is dropped.
write_wait(w) ==
  /\ writer[w].at = "wait"
  /\ writer' = [writer EXCEPT ![w] = IF bulk_out[@.port].busy THEN Away
                                        ELSE [@ EXCEPT !.at = "claim"]]
  /\ UNCHANGED <<hostside, bulk_out, hist>>

\* Mutant: the flag is set without looking at it.
submit_claim_blind(w) ==
  LET p == writer[w].port IN
  /\ writer[w].at = "claim"
  /\ At(w, "fill") /\ bulk_out' = [bulk_out EXCEPT ![p].busy = TRUE]
  /\ UNCHANGED <<hostside, hist>>

\* The compare-and-exchange on the busy flag.
submit_claim(w) ==
  LET p == writer[w].port IN
  /\ writer[w].at = "claim"
  /\ IF bulk_out[p].busy THEN Again(w) /\ UNCHANGED bulk_out
       ELSE At(w, "fill") /\ bulk_out' = [bulk_out EXCEPT ![p].busy = TRUE]
  /\ UNCHANGED <<hostside, hist>>

submit_transfer(w) ==
  LET p == writer[w].port IN
  /\ writer[w].at = "fill"
  /\ IF bulk_out[p].xfer = 0 THEN Again(w)
       ELSE writer' = [writer EXCEPT ![w].xfer = bulk_out[p].xfer, ![w].at = "submit"]
  /\ bulk_out' = [bulk_out EXCEPT ![p].busy = bulk_out[p].xfer # 0]
  /\ UNCHANGED <<hostside, hist>>

\* What the writer still holds: neither freed nor of a device that is closed.
Holds(w) == {writer[w].xfer, writer[w].hdl} = {client.dev}

\* The last chunk of the write, or one more to go.
Submitted(w) ==
  \E next \in {Away, [Away EXCEPT !.at = "check", !.port = writer[w].port]} :
    writer' = [writer EXCEPT ![w] = next]

\* The chunk is copied and submitted.  A halted pipe refuses; then it is
\* cleared, which flushes it, and the chunk is submitted once more.
submit_chunk(w) ==
  LET p == writer[w].port IN
  /\ writer[w].at = "submit" /\ Holds(w)
  /\ \/ /\ bus.now = writer[w].hdl /\ bulk_out[p].at = "idle"
        /\ bulk_out' = [bulk_out EXCEPT ![p].at = "flying"]
        /\ Submitted(w)
     \/ /\ bulk_out' = bulk_out
        /\ At(w, "again")
  /\ UNCHANGED <<hostside, hist>>

submit_again(w) ==
  LET p == writer[w].port IN
  /\ writer[w].at = "again" /\ Holds(w)
  /\ \/ /\ bus.now = writer[w].hdl /\ bulk_out[p].at = "idle"
        /\ bulk_out' = [bulk_out EXCEPT ![p].at = "flying"]
        /\ Submitted(w)
     \/ /\ bulk_out' = [bulk_out EXCEPT ![p].busy = FALSE]
        /\ Again(w)
  /\ UNCHANGED <<hostside, hist>>

\* The transfer or the device is freed: whatever the driver makes of it, here
\* the submit is refused.
submit_freed(w) ==
  /\ writer[w].at \in {"submit", "again"} /\ ~Holds(w)
  /\ bulk_out' = [bulk_out EXCEPT ![writer[w].port].busy = FALSE]
  /\ Again(w)
  /\ UNCHANGED <<hostside, hist>>

-------------------------------------------------------------------------------
bus_next == \/ PlugIn \/ Enumerate \/ Unplug \/ AnswerCtrl
            \/ \E p \in Port : CompleteIn(p) \/ CompleteOut(p)

callbacks == \/ ctrl_xfer_cb
             \/ \E p \in Port : bulk_in_cb(p) \/ bulk_out_cb(p)

client_next ==
  \/ ctrl_submit \/ ctrl_answered \/ ctrl_timeout
  \/ scan \/ open_device \/ claim \/ alloc \/ publish \/ give_up
  \/ retry \/ reinit \/ recover_in \/ recover_out \/ recovered \/ resubmit
  \/ unpublish \/ invalidate \/ free

write(w) ==
  \/ write_check(w) \/ write_wait(w) \/ submit_claim(w) \/ submit_transfer(w)
  \/ submit_chunk(w) \/ submit_again(w) \/ submit_freed(w)

Next == \/ bus_next \/ client_event_cb \/ callbacks \/ client_next
        \/ \E w \in Writer : write_begin(w) \/ write(w)

Spec == Init /\ [][Next]_vars

\* The client task goes on; every turn of its loops handles what is pending,
\* and that of the serving loop looks at DEV_GONE.  The writers go on.  The
\* library enumerates a device when it has no other to keep.  Nothing is asked
\* of devices or users.
FairSpec == /\ Spec
            /\ WF_vars(client.dev = 0 /\ bus.held = {} /\ Enumerate)
            /\ WF_vars(client_next)
            /\ SF_vars(callbacks) /\ SF_vars(client_event_cb) /\ SF_vars(unpublish)
            /\ \A w \in Writer : WF_vars(write(w))

-------------------------------------------------------------------------------
(* Properties                                                              *)

\* Where the client is: what a control request counts as is what follows it.
Asking  == client.at \in {"ctrl", "wait"}
Stage   == IF Asking THEN client.then ELSE client.at
SetUp   == {"claim", "alloc", "publish"}
Serving == {"serve", "reinit", "recover", "recover_out", "resubmit"}

\* A device is published exactly while it is served; the ports that are set up
\* and recovered exist.
StageInv ==
  /\ Asking => client.plan # <<>>
  /\ Stage \in {"scan", "idle"} <=> client.dev = 0
  /\ CDC_DEV_HDL = IF Stage \in Serving THEN client.dev ELSE 0
  /\ Stage \in {"claim", "alloc"} => client.port < Len(eps)
  /\ Stage \in SetUp => client.active <= client.port
  /\ Stage \in {"recover_out", "resubmit"} => client.port < client.active

\* The device attached is the last one plugged in.  Its unplugging is not
\* announced yet, and what is announced concerns the device that is open.
BusInv ==
  /\ bus.now \in {0, bus.plugs}
  /\ client.dev <= bus.plugs /\ NEW_DEV_ADDR <= bus.plugs
  /\ \A k \in bus.held : k <= bus.plugs /\ client.at # "scan" /\ (k = bus.now => client.dev = 0)
  /\ \A i \in 1 .. Len(events) :
       /\ events[i][2] <= bus.plugs
       /\ \A j \in i .. Len(events) : events[i][2] <= events[j][2]
       /\ events[i][1] = "GONE" =>
            /\ events[i][2] # bus.now
            /\ client.dev # 0 => events[i][2] = client.dev
            /\ client.at # "scan"
            /\ bus.now # 0 => bus.now \notin {NEW_DEV_ADDR, client.dev}

\* DEV_GONE of a published device is true, and nothing of it is in flight any
\* more; before a device is published and after, nothing is in flight either.
Quiet == \A p \in Port : bulk_out[p].at \notin {"flying", "done"}

GoneInv ==
  /\ Stage \in Serving /\ DEV_GONE => ~Attached /\ Quiet
  /\ Stage \in {"invalidate", "free"} => ~Attached
  /\ Stage \notin Serving => Quiet
  /\ \A p \in Port : bulk_out[p].at = "flying" => Attached

\* The handle a writer keeps is that of the device served, or of none that
\* will ever be attached again.
WriterInv ==
  \A w \in Writer :
    /\ writer[w].at \in {"submit", "again"} => writer[w].xfer # 0
    /\ writer[w].hdl # 0 => /\ writer[w].hdl <= bus.plugs
                            /\ writer[w].hdl \in {CDC_DEV_HDL} \/ writer[w].hdl # bus.now
    /\ Stage \in SetUp => writer[w].hdl # client.dev

\* The busy flag of a port says whether a writer or the transfer has it.
Owns(w, p) == Claims(w) /\ writer[w].port = p
InFlight(p) == bulk_out[p].at \in {"flying", "done"}

OwnerInv ==
  ~hist.stale => \A p \in Port :
    /\ \A v, w \in Writer : Owns(v, p) /\ Owns(w, p) => v = w
    /\ InFlight(p) => \A w \in Writer : ~Owns(w, p)
    /\ bulk_out[p].busy <=> InFlight(p) \/ \E w \in Writer : Owns(w, p)

\* Only a served device has bulk-IN transfers in flight; one that rests is
\* flagged, or the client is about to submit it, or the refusal was dropped:
\* one of the three.
Recovering(p) == Stage \in {"recover_out", "resubmit"} /\ p = client.port

Watched(p) ==
  /\ bulk_in[p] = "idle" <=> NEEDS_RESUBMIT[p] \/ Recovering(p) \/ p \in hist.dropped
  /\ NEEDS_RESUBMIT[p] => ~Recovering(p)
  /\ p \in hist.dropped => ~NEEDS_RESUBMIT[p] /\ ~Recovering(p)

InInv ==
  /\ Stage \in {"scan", "idle"} => \A p \in Port : bulk_in[p] = "none"
  /\ Stage \in SetUp => \A p \in Port : bulk_in[p] \in {"none", "idle"}
  /\ Stage \in SetUp /\ client.active = 0 => \A p \in Port : bulk_in[p] = "none"
  /\ \A p \in Port : bulk_in[p] = "canceled" => ~Attached
  /\ Stage \in Serving /\ Attached => \A p \in Active : Watched(p)

\* What is known of the two requests that set up a CDC device.
LineCoding   == {"SetLineCoding", "SetLineCoding on data"}
ControlLines == {"SetControlLineState", "SetControlLineState on data"}

ReadyInv ==
  /\ client.at = "wait" => /\ ctrl.at = "idle" => ctrl.DONE # "no"
                           /\ ctrl.at # "idle" => ctrl.DONE = "no" /\ ctrl.req = client.plan[1]
                           /\ ctrl.at = "done" \/ ctrl.DONE = "ok" =>
                                client.plan[1] \in hist.accepted \/ client.plan[1] \notin ClassRequests
  /\ Asking /\ client.then \in {"alloc", "reinit"} /\ Opened.chip = "CDC" =>
       \/ \E req \in LineCoding : client.plan = <<req, "SetControlLineState">>
       \/ /\ \E req \in ControlLines : client.plan = <<req>>
          /\ client.ok => hist.accepted \cap LineCoding # {}
  /\ client.at \in {"alloc", "reinit"} /\ Opened.chip = "CDC" /\ client.ok =>
       hist.accepted \cap LineCoding # {} /\ hist.accepted \cap ControlLines # {}

UsbInv == /\ TypeOK /\ StageInv /\ BusInv /\ GoneInv /\ WriterInv /\ OwnerInv
          /\ InInv /\ ReadyInv

\* Of the writers to a port only one fills and submits its transfer, none
\* while it is in flight, and the port is busy exactly while someone does or
\* it is: unless a device went while a writer was in the middle.
OneOwner ==
  ~hist.stale => \A p \in Port :
    LET owners == {w \in Writer : Claims(w) /\ writer[w].port = p}
        taken  == Cardinality(owners) + (IF bulk_out[p].at \in {"flying", "done"} THEN 1 ELSE 0)
    IN  taken <= 1 /\ (bulk_out[p].busy <=> taken = 1)

\* A port of an attached device waits for data, or its callback or the serving
\* loop will submit its transfer: unless a submit was refused whose result
\* publish or the callback drops, which the loop never makes up for.
Polled ==
  client.at \in {"serve", "reinit"} /\ Attached => \A p \in Active :
    bulk_in[p] = "idle" /\ ~NEEDS_RESUBMIT[p] <=> p \in hist.dropped

\* The client believes the CDC device ready only when it accepted both
\* requests in this set-up: no answer is taken for another's.
ReadyIsTrue ==
  client.at \in {"reinit", "alloc"} /\ client.dev # 0 /\ Opened.chip = "CDC" /\ client.ok =>
    /\ hist.accepted \cap {"SetLineCoding", "SetLineCoding on data"} # {}
    /\ hist.accepted \cap {"SetControlLineState", "SetControlLineState on data"} # {}

\* The endpoints of a port belong to one interface, no two ports share one, and
\* a composite device whose last CDC data interface is serial is served there.
PortsPaired == client.at = "claim" => eps # <<>> /\ Paired(Opened, eps)

\* What the comment before the selection says: data interfaces of RNDIS are
\* skipped.  It does not hold of a device that has RNDIS last.
RndisSkipped == client.at = "claim" => SkipsRndis(Opened, eps)

\* The device that is served is gone and nothing will say so any more.
Forgotten == /\ Stage \in Serving /\ ~Attached /\ ~DEV_GONE
             /\ <<"GONE", client.dev>> \notin Range(events)

\* A device that is gone was never closed.
Leaked == bus.held \ {bus.now} # {}

\* A device that stays is published in the end, or none of its ports could
\* be initialised; so the one before it is given up when it is unplugged:
\* unless the client forgot that unplugging, or closed it with an interface
\* claimed.
Served ==
  \A d \in Plug :
    bus.now = d ~> \/ bus.now # d \/ CDC_DEV_HDL = d \/ hist.unserved = d
                   \/ Forgotten \/ Leaked

\* A device whose ports were all set up is closed for good in the end: only of one
\* of which a port was skipped may an interface stay claimed.
ClosedClean ==
  [][client.dev # 0 /\ client'.dev = 0 /\ client.active = Len(eps)
       => client.dev \notin bus'.held]_vars

\* w goes back to the check of the device: for the next chunk, or for one that
\* was not submitted.
next_attempt(w) == /\ writer[w].at \in {"claim", "fill", "submit", "again"}
                   /\ writer'[w].at = "check"

\* A write ends once no device is published for good.  Before, it may only go on
\* from chunk to chunk, submitted or refused: it waits for nobody for ever.
WriteEnds ==
  \A w \in Writer :
    \/ []<>(writer[w].at = "idle")
    \/ []<>(CDC_DEV_HDL # 0) /\ []<><<next_attempt(w)>>_vars

\* w's chunk is submitted.
chunk_submitted(w) == \E p \in Port : /\ bulk_out[p].at = "idle"
                                      /\ bulk_out'[p].at = "flying" /\ writer[w].port = p
                                      /\ writer'[w] # writer[w]

\* What the comments of the write say: its waiting is bounded, it does not hang
\* the task.  It does not hold of a write whose submits are refused for ever.
WriteBounded ==
  \A w \in Writer : []<>(writer[w].at = "idle") \/ []<><<chunk_submitted(w)>>_vars
===============================================================================
