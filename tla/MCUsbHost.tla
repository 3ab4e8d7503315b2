------------------------------- MODULE MCUsbHost -------------------------------
(* Devices for checking UsbHost: an FTDI chip with two ports, a Linux       *)
(* gadget with RNDIS, CDC-ACM and mass storage, a CP210x adapter.           *)
EXTENDS UsbHost

Interface(num, class) == [type |-> "interface", num |-> num, class |-> class]
Endpoint(num, class)  == [type |-> "endpoint", num |-> num, class |-> class]

Ftdi == [chip |-> "FTDI", ports |-> 2, items |->
  <<Interface(0, "vendor"), Endpoint(129, "bulk_in"), Endpoint(2, "bulk_out"),
    Interface(1, "vendor"), Endpoint(131, "bulk_in"), Endpoint(4, "bulk_out")>>]

Gadget == [chip |-> "CDC", ports |-> 1, items |->
  <<Interface(0, "RNDIS control"), Endpoint(129, "other"),
    Interface(1, "CDC data"), Endpoint(130, "bulk_in"), Endpoint(3, "bulk_out"),
    Interface(2, "ACM control"), Endpoint(131, "other"),
    Interface(3, "CDC data"), Endpoint(132, "bulk_in"), Endpoint(5, "bulk_out"),
    Interface(4, "storage"), Endpoint(133, "bulk_in"), Endpoint(6, "bulk_out")>>]

\* The same with the serial interfaces first: it shows that RndisSkipped fails.
SerialFirst == [chip |-> "CDC", ports |-> 1, items |->
  <<Interface(0, "ACM control"), Endpoint(129, "other"),
    Interface(1, "CDC data"), Endpoint(130, "bulk_in"), Endpoint(3, "bulk_out"),
    Interface(2, "RNDIS control"), Endpoint(131, "other"),
    Interface(3, "CDC data"), Endpoint(132, "bulk_in"), Endpoint(5, "bulk_out")>>]

Adapter == [chip |-> "CP210x", ports |-> 1, items |->
  <<Interface(0, "vendor"), Endpoint(129, "bulk_in"), Endpoint(2, "bulk_out")>>]

Replugged  == <<Ftdi, Gadget>>
OneAdapter == <<Adapter>>
RndisLast  == <<SerialFirst>>
FirstPort  == {0}
===============================================================================
