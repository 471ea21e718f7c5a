------------------------------ MODULE HalLibusb ------------------------------
(***************************************************************************)
(* The HAL for PCs (usb_disp_hal_libusb.cpp).  A port is served by the     *)
(* supported device that has its number in the order of enumeration, which *)
(* shifts when an earlier device comes or goes.  All transfers are         *)
(* synchronous: the HAL learns that a device has gone when one fails.      *)
(*                                                                         *)
(* The bulk buffer is not modelled: device_close and device_scan empty it. *)
(***************************************************************************)
EXTENDS Naturals, Sequences, FiniteSets, SequencesExt

CONSTANTS
  Ports,     \* numbers of the ports in use: 0..n
  Devices,   \* supported devices
  NoDev, Gone

ASSUME LibusbAssumption ==
  /\ Ports \subseteq Nat /\ Ports # {} /\ Devices # {}
  /\ {NoDev, Gone} \cap Devices = {} /\ NoDev # Gone

VARIABLES
  bus,   \* the supported devices in the order of enumeration
  hal    \* h->dev of each port: NoDev if not attached, Gone if unplugged since

busVars == <<bus, hal>>

BusInit == bus = <<>> /\ hal = [p \in Ports |-> NoDev]

Attached(p) == hal[p] # NoDev

\* device_in_use
InUse(d) == \E q \in Ports : hal[q] = d

\* Mutant: that another port has the device is not looked at.
ScannedUnchecked(p) == {NoDev} \cup {bus[i] : i \in {k \in DOMAIN bus : k = p + 1}}

\* Mutant: the ports count from one.
ScannedFromOne(p) ==
  {NoDev} \cup {bus[i] : i \in {k \in DOMAIN bus : k = p /\ ~InUse(bus[k])}}

\* device_scan: the device that has the port's number, unless another port
\* has it or something fails on the way; no other device is tried then.
Scanned(p) ==
  {NoDev} \cup {bus[i] : i \in {k \in DOMAIN bus : k = p + 1 /\ ~InUse(bus[k])}}

\* usb_disp_hal_poll: what the port may hold after it.  The scan is tried every
\* 500 ms, which are or are not over.
Polled(p) == IF Attached(p) THEN {hal[p]} ELSE Scanned(p)

\* usb_disp_hal_ctrl, bulk_drain: what is left of handle h when a transfer has
\* failed.  A device that has gone is closed, one that is there perhaps.
AfterFailure(h) == IF h = Gone THEN {NoDev} ELSE {h, NoDev}

\* bulk_write, bulk_flush, bulk_split, bulk_zlp of a port
Bulk(p) ==
  /\ Attached(p)
  /\ \E h \in AfterFailure(hal[p]) : hal' = [hal EXCEPT ![p] = h]
  /\ UNCHANGED bus

\* usb_disp_hal_request_reenum: device_close
Reenum(p) == hal' = [hal EXCEPT ![p] = NoDev] /\ UNCHANGED bus

-----------------------------------------------------------------------------
(* The bus: a device comes anywhere in the order.                          *)

Plug(d) ==
  /\ d \notin Range(bus)
  /\ \E i \in 1..(Len(bus) + 1) : bus' = InsertAt(bus, i, d)
  /\ UNCHANGED hal

Unplug(d) ==
  /\ \E i \in DOMAIN bus : bus[i] = d /\ bus' = RemoveAt(bus, i)
  /\ hal' = [p \in Ports |-> IF hal[p] = d THEN Gone ELSE hal[p]]

=============================================================================
