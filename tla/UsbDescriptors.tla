---------------------------- MODULE UsbDescriptors ----------------------------
(***************************************************************************)
(* What handle_new_device of usb_host.rs reads out of a device: the walk   *)
(* over its configuration descriptor, the endpoint pairs it serves, and    *)
(* the control requests that set up each kind of serial chip.              *)
(*                                                                         *)
(* A device is a record of its chip (by vendor), the ports its product ID  *)
(* stands for, and its descriptor: a sequence of items, each an interface  *)
(* (num, class) or an endpoint (num: its address, class: its kind).        *)
(***************************************************************************)
EXTENDS Integers, Sequences, SequencesExt, FiniteSetsExt

CONSTANT MAX_USB_PORTS

\* What classes of interfaces and kinds of endpoints are told apart.
Class == {"ACM control", "RNDIS control", "CDC data", "storage", "vendor",
          "bulk_in", "bulk_out", "other"}
Item  == [type : {"interface", "endpoint"}, num : 0 .. 255, class : Class]

\* What the USB specification says of a descriptor: an endpoint follows its
\* interface, and address 0 is the control endpoint's, which has none.
Descriptor(items) ==
  /\ items \in Seq(Item)
  /\ items # <<>> => items[1].type = "interface"
  /\ \A i \in DOMAIN items : items[i].type = "endpoint" => items[i].num # 0

Kind(item, kind) == item.type = "endpoint" /\ item.class = kind

\* find_all_bulk_eps: one pair for every interface with a bulk endpoint in
\* either direction, the first of each.
Flushed(w) ==
  IF w.ep_in # 0 /\ w.ep_out # 0
    THEN Append(w.found, [intf |-> w.intf, class |-> w.class,
                          ep_in |-> w.ep_in, ep_out |-> w.ep_out])
    ELSE w.found

\* Mutant: an interface does not reset the endpoints.
Walked_keeps_endpoint(w, item) ==
  CASE item.type = "interface" ->
         [w EXCEPT !.intf = item.num, !.class = item.class, !.seen = TRUE,
                   !.found = IF w.seen THEN Flushed(w) ELSE @]
    [] Kind(item, "bulk_in")  /\ w.ep_in = 0  -> [w EXCEPT !.ep_in = item.num]
    [] Kind(item, "bulk_out") /\ w.ep_out = 0 -> [w EXCEPT !.ep_out = item.num]
    [] OTHER -> w

Walked(w, item) ==
  CASE item.type = "interface" ->
         [intf |-> item.num, class |-> item.class, ep_in |-> 0, ep_out |-> 0,
          seen |-> TRUE, found |-> IF w.seen THEN Flushed(w) ELSE w.found]
    [] Kind(item, "bulk_in")  /\ w.ep_in = 0  -> [w EXCEPT !.ep_in = item.num]
    [] Kind(item, "bulk_out") /\ w.ep_out = 0 -> [w EXCEPT !.ep_out = item.num]
    [] OTHER -> w

WalkBegins == [intf |-> 0, class |-> "other", ep_in |-> 0, ep_out |-> 0, seen |-> FALSE, found |-> <<>>]

find_all_bulk_eps(items) ==
  LET walk[i \in 0 .. Len(items)] == IF i = 0 THEN WalkBegins ELSE Walked(walk[i - 1], items[i])
  IN  Flushed(walk[Len(items)])

\* Of a composite device the last CDC data interface, else its first pair.
selected_eps(device, all) ==
  LET data == {i \in DOMAIN all : all[i].class = "CDC data"}
  IN  IF device.chip = "FTDI" \/ Len(all) <= 1 THEN all
      ELSE <<all[IF data # {} THEN Max(data) ELSE 1]>>

eps_to_use(device) ==
  LET eps == selected_eps(device, find_all_bulk_eps(device.items))
      ftdi_port_count == device.ports
      most == IF device.chip = "FTDI" THEN {ftdi_port_count, MAX_USB_PORTS} ELSE {1}
  IN  SubSeq(eps, 1, Min(most \cup {Len(eps)}))

-------------------------------------------------------------------------------
(* What the endpoints of the ports should be.                              *)

\* The addresses of the interface at j's endpoints of a kind: those up to the
\* next interface.
Endpoints(items, j, kind) ==
  {items[i].num : i \in {k \in DOMAIN items :
     /\ j < k /\ Kind(items[k], kind)
     /\ \A n \in j + 1 .. k : items[n].type # "interface"}}

\* The interfaces, by where they stand, with bulk endpoints both ways.
Pairs(items) ==
  {j \in DOMAIN items : /\ items[j].type = "interface"
                        /\ Endpoints(items, j, "bulk_in") # {}
                        /\ Endpoints(items, j, "bulk_out") # {}}

PairOf(items, j, ep) ==
  /\ ep.intf = items[j].num /\ ep.class = items[j].class
  /\ ep.ep_in \in Endpoints(items, j, "bulk_in")
  /\ ep.ep_out \in Endpoints(items, j, "bulk_out")

\* The data interfaces that follow a control interface of a class.
DataOf(items, class) ==
  {j \in Pairs(items) : /\ items[j].class = "CDC data"
                        /\ \E c \in 1 .. j - 1 :
                             /\ items[c].type = "interface" /\ items[c].class = class
                             /\ \A n \in c + 1 .. j - 1 : items[n].type # "interface"}

\* Each port has the pair of an interface of its own, in their order: those
\* of an FTDI chip without a gap.  Another chip has one port at most: a serial
\* one when the last CDC data interface is serial, the first where none is CDC data.
Paired(device, eps) ==
  LET items  == device.items
      Data   == {j \in Pairs(items) : items[j].class = "CDC data"}
      Serial == DataOf(items, "ACM control")
  IN  \E at \in [1 .. Len(eps) -> Pairs(items)] :
        /\ \A n \in 1 .. Len(eps) : PairOf(items, at[n], eps[n])
        /\ \A m, n \in 1 .. Len(eps) : m < n => at[m] < at[n]
        /\ device.chip = "FTDI" =>
             \A n \in 1 .. Len(eps) : \A j \in Pairs(items) :
               j < at[n] => \E m \in 1 .. n - 1 : at[m] = j
        /\ device.chip # "FTDI" =>
             /\ Len(eps) <= 1
             /\ \A n \in 1 .. Len(eps) :
                  /\ (\E s \in Serial : \A j \in Data : j <= s) => at[n] \in Serial
                  /\ Data # {} => at[n] \in Data
                  /\ Data = {} => \A j \in Pairs(items) : at[n] <= j

\* No port has the pair of an RNDIS interface where another is serial.
SkipsRndis(device, eps) ==
  device.chip # "FTDI" /\ DataOf(device.items, "ACM control") # {} =>
    \A n \in 1 .. Len(eps) : \A j \in DataOf(device.items, "RNDIS control") :
      ~PairOf(device.items, j, eps[n])

-------------------------------------------------------------------------------
(* The requests of each chip's set-up, in order.                           *)

ClassRequests ==
  {"SetLineCoding", "SetLineCoding on data",
   "SetControlLineState", "SetControlLineState on data"}

Request == ClassRequests \cup
  {"GetLineCoding", "CLEAR_FEATURE", "read", "write",
   "IFC_ENABLE", "SET_BAUDRATE", "SET_LINE_CTL", "SET_MHS", "PURGE",
   "RESET", "SET_BAUD_RATE", "SET_DATA", "SET_FLOW_CTRL", "MODEM_CTRL",
   "SET_LATENCY", "PURGE_RX", "PURGE_TX"}

pl2303_init ==
  <<"read", "write", "read", "read", "read", "write", "read", "read",
    "write", "write", "write", "SetLineCoding", "write", "write", "write",
    "write", "write", "SetControlLineState", "GetLineCoding">>

cp210x_init == <<"IFC_ENABLE", "SET_BAUDRATE", "SET_LINE_CTL", "SET_MHS", "PURGE">>

ftdi_init ==
  <<"RESET", "SET_BAUD_RATE", "SET_DATA", "SET_FLOW_CTRL", "MODEM_CTRL",
    "SET_LATENCY", "PURGE_RX", "PURGE_TX">>

\* Each is repeated for the data interface when the other refuses it.
cdc_acm_init == <<"SetLineCoding", "SetControlLineState">>
OnData(req)  == CASE req = "SetLineCoding"       -> "SetLineCoding on data"
                  [] req = "SetControlLineState" -> "SetControlLineState on data"

chip_init(chip) ==
  CASE chip = "PL2303" -> pl2303_init
    [] chip = "CP210x" -> cp210x_init
    [] chip = "FTDI"   -> ftdi_init
    [] OTHER           -> cdc_acm_init
===============================================================================
