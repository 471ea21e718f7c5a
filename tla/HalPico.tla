------------------------------- MODULE HalPico -------------------------------
(***************************************************************************)
(* The Pico HAL of one port, usb_disp_hal_pico.cpp, on top of its host     *)
(* engine.  usb_disp_hal_poll enumerates a device when the host runs,      *)
(* retries with bus resets, and notices by the level of the host's state   *)
(* that the device is gone.  It, the application's transfers and the       *)
(* re-enumeration requests all run on core 0, one after the other.         *)
(*                                                                         *)
(* The device is plugged in directly: the hub states of this file are left *)
(* out.  A plugged device has a bulk OUT endpoint unless OtherDevices.     *)
(***************************************************************************)
EXTENDS UdhHost

CONSTANTS
  MaxAttempts,   \* USB_DISP_ENUM_MAX_ATTEMPTS
  Wrap,          \* attempts is a uint8_t: 2^8 in the code
  OtherDevices   \* devices without a bulk OUT endpoint exist

ASSUME HalAssumption ==
  /\ MaxAttempts \in Nat \ {0}
  /\ Wrap \in Nat /\ Wrap > MaxAttempts
  /\ OtherDevices \in BOOLEAN

VARIABLES
  hal,           \* h->state
  attempts, retry_pending,
  todo           \* the next call enum_device makes; 0 outside enum_device

halVars == <<hal, attempts, retry_pending, todo>>
allVars == <<vars, halVars>>

\* What enum_device and enum_addressed call, in order.  The descriptor reads
\* at one address are one read; the last two calls set up the bulk stream.
EnumCalls ==
  << <<"set_device", 0>>, <<"in", 0>>, <<"addr", 0>>, <<"set_device", 1>>,
     <<"in", 1>>, <<"cfg", 1>>, <<"set_device", 1>>, <<"set_bulk_out", 1>> >>

HalInit ==
  /\ Init
  /\ hal = "WAIT_DEVICE" /\ attempts = 0 /\ retry_pending = FALSE /\ todo = 0

Idle == pc0 = "idle" /\ todo = 0

-----------------------------------------------------------------------------
(* usb_disp_hal_poll, WAIT_DEVICE.                                         *)

PollWaiting ==
  /\ Idle /\ hal = "WAIT_DEVICE" /\ ~Running
  /\ ~retry_pending /\ attempts' = 0
  /\ UNCHANGED <<vars, hal, retry_pending, todo>>

EnumStart ==
  /\ Idle /\ hal = "WAIT_DEVICE" /\ Running
  /\ retry_pending' = FALSE
  /\ todo' = 1
  /\ UNCHANGED <<vars, hal, attempts>>

\* The next call, when the one before it succeeded.
EnumCall ==
  /\ pc0 = "idle" /\ todo \in 1..Len(EnumCalls)
  /\ todo = 1 \/ call.ok
  /\ LET op == EnumCalls[todo][1]
         a  == EnumCalls[todo][2]
     IN  CASE op = "set_device"   -> SetDevice(a)
           [] op = "set_bulk_out" -> SetBulkOut
           [] OTHER               -> ControlCall(op, a)
  /\ todo' = todo + 1
  /\ UNCHANGED <<hal, attempts, retry_pending>>

EnumDone ==
  /\ pc0 = "idle" /\ todo > Len(EnumCalls) /\ call.ok
  /\ hal' = "ATTACHED" /\ attempts' = 0 /\ todo' = 0
  /\ UNCHANGED <<vars, retry_pending>>

\* The descriptors show no bulk OUT endpoint: the configuration is set all the
\* same, whatever comes of it, and the poll waits for the periodic retry.
EnumNoEndpoint ==
  /\ OtherDevices
  /\ pc0 = "idle" /\ call.ok
  /\ todo > 1 /\ todo <= Len(EnumCalls) /\ EnumCalls[todo] = <<"cfg", 1>>
  /\ ControlCall("cfg", 1)
  /\ hal' = "NO_EP" /\ todo' = 0
  /\ UNCHANGED <<attempts, retry_pending>>

EnumFailed ==
  /\ pc0 = "idle" /\ todo > 1 /\ ~call.ok
  /\ attempts' = (attempts + 1) % Wrap
  /\ hal' = IF attempts' < MaxAttempts THEN "RETRY_WAIT" ELSE "NO_EP"
  /\ todo' = 0
  /\ UNCHANGED <<vars, retry_pending>>

-----------------------------------------------------------------------------
(* usb_disp_hal_poll, the other states.                                    *)

\* The host does not run: the device is gone.
PollGone ==
  /\ Idle /\ hal \in {"RETRY_WAIT", "ATTACHED", "NO_EP"} /\ ~Running
  /\ hal' = "WAIT_DEVICE"
  /\ UNCHANGED <<vars, attempts, retry_pending, todo>>

\* The 500 ms after a failed enumeration have passed.
PollRetry ==
  /\ Idle /\ hal = "RETRY_WAIT" /\ Running
  /\ retry_pending' = TRUE /\ hal' = "WAIT_DEVICE"
  /\ RequestReenum
  /\ UNCHANGED <<attempts, todo>>

\* The 30 s of NO_EP have passed.
PollPeriodic ==
  /\ Idle /\ hal = "NO_EP" /\ Running
  /\ attempts' = 0 /\ retry_pending' = TRUE /\ hal' = "WAIT_DEVICE"
  /\ RequestReenum
  /\ UNCHANGED todo

\* No timer is due, or there is nothing to do.
PollQuiet ==
  /\ Idle
  /\ \/ hal \in {"ATTACHED", "RETRY_WAIT", "NO_EP"} /\ Running
     \/ hal = "WAIT_DEVICE" /\ ~Running /\ retry_pending
  /\ UNCHANGED allVars

HalPoll ==
  \/ PollWaiting \/ PollGone \/ PollRetry \/ PollPeriodic \/ PollQuiet
  \/ EnumStart \/ EnumCall \/ EnumDone \/ EnumNoEndpoint \/ EnumFailed

-----------------------------------------------------------------------------
(* The other functions of the HAL.                                         *)

Attached == hal = "ATTACHED" /\ Running

HalRequestReenum ==
  /\ Idle
  /\ retry_pending' = TRUE /\ hal' = "WAIT_DEVICE"
  /\ RequestReenum
  /\ UNCHANGED <<attempts, todo>>

-----------------------------------------------------------------------------
HalTypeOK ==
  /\ TypeOK
  /\ hal \in {"WAIT_DEVICE", "RETRY_WAIT", "ATTACHED", "NO_EP"}
  /\ attempts \in 0..Wrap-1
  /\ retry_pending \in BOOLEAN
  /\ todo \in 0..Len(EnumCalls)+1

-----------------------------------------------------------------------------
(* The bulk stream as the device gets it.                                  *)

Span(from, to) == [i \in 1..(to - from) |-> from + i - 1]

\* A session whose stream is set up at both ends.  stray: a bulk_write that
\* began in an earlier session put its last chunk into this one.
StreamUp == Running /\ bulk_ep /\ dev.cfg /\ ~stray

\* The device got every byte core 1 counts as sent, once and in order, and at
\* most the packet core 1 still holds besides (its ACK was lost): the toggles
\* of prep_pkt and of the device agree through losses, NAKs and retries.
StreamExact ==
  StreamUp /\ ~dev.halt =>
    \/ dev.got = Span(base, ring_tail)
    \/ pkt.valid /\ dev.got = Span(base, ring_tail + pkt.len)

\* No byte that bulk_write accepted before a disconnection reaches the device
\* after it: clear_transfers leaves none, in the ring or in the packet.
NoOldBytes ==
  Running /\ dev.cfg => \A i \in 1..Len(dev.got) : dev.got[i] >= base

\* What the bytes written in the session come to when a flush returns true:
\* the device has every one of them; or the endpoint halted in this session;
\* or a write began in an earlier session; or the session ended while the
\* flush waited, or the device was pulled out of it.  bulk_flush tests the ring
\* and flush_req before the state, and enter_detect and a STALL empty them.
\* The loop must look at the ring as well as at flush_req, which core 1 may
\* clear for an earlier flush.
FlushDelivers ==
  [][FlushDone =>
       \/ dev.got = Span(base, ring_head)
       \/ dev.halt
       \/ stray
       \/ ~Running \/ ~bulk_ep \/ ~dev.cfg]_allVars

\* usb_disp_hal.h:62 has bulk_flush wait until the transfer is complete: none
\* of the bytes a flush waited for was dropped when it returns true.
FlushTrueMeansSent == [][FlushDone => ~dropped]_allVars

\* A device that usb_disp_hal_attached reports has its bulk stream: the host
\* engine forgets the endpoint in enter_detect, and the HAL enumerates again
\* before it reports a device.  docs/usage.md:110 promises that of a device
\* that was unplugged; the HAL only looks at the level of the host's state.
AttachedHasStream == Attached /\ Idle => bulk_ep

=============================================================================
