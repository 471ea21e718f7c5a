------------------------------- MODULE UdhHost -------------------------------
(***************************************************************************)
(* One port of the Pico USB host engine, usb_disp_udh_host.cpp.            *)
(*                                                                         *)
(* Core 1 runs the host state machine (DETECT, RESET, WARMUP, RUN): it     *)
(* resets the bus, keeps the frames going, serves the control mailbox and  *)
(* sends the bytes of the bulk ring in packets.  Core 0 runs the API       *)
(* functions, which share the mailbox, the ring and a few volatile flags   *)
(* with core 1 and take no lock.  The device at the other end of the cable *)
(* is external: it may be unplugged, lose packets, answer NAK or STALL.    *)
(*                                                                         *)
(* A byte of the bulk stream is its position: the p-th byte bulk_write     *)
(* copied into the ring is p.  ring_head and ring_tail run freely, as in   *)
(* the code; 2^32 is a multiple of the ring size, so their wrapping does   *)
(* not move a slot and is left out.  Of pkt[0] and pkt[1] only             *)
(* pkt[pipeline_cur] is ever valid: pkt stands for it.                     *)
(***************************************************************************)
EXTENDS Integers, Sequences

CONSTANTS
  RingSize,    \* USB_DISP_UDH_RING_SIZE
  Mps,         \* bulk_mps, the largest bulk packet
  DeadStreak,  \* USB_DISP_UDH_DEAD_STREAK
  ProbeLimit,  \* unanswered probes that end a session (3 in the code)
  Faults,      \* what the world may do: a subset of AllFaults
  MaxWrite,    \* bound: the largest len of one bulk_write
  MaxBytes     \* bound: the bytes written in a behaviour

AllFaults ==
  {"unplug",   \* the device is pulled and plugged again
   "loss",     \* a packet or a handshake is lost
   "nak",      \* the device answers NAK
   "stall",    \* the device halts the bulk endpoint
   "late",     \* core 0's deadlines expire
   "reenum",   \* the application asks for a re-enumeration
   "diag"}     \* the application runs the line diagnosis

ASSUME ConstantAssumption ==
  /\ RingSize \in Nat \ {0}
  /\ Mps \in 1..RingSize
  /\ DeadStreak \in Nat \ {0}
  /\ ProbeLimit \in Nat \ {0}
  /\ Faults \subseteq AllFaults
  /\ MaxWrite \in Nat
  /\ MaxBytes \in Nat

VARIABLES
  line,              \* what is plugged: "none" or "fs", a full-speed device
  dev,               \* that device
  hs,                \* host->hs
  pc1,               \* where core 1 is in host_task_once
  bus_ok,
  reenum_req,
  diag_hold,
  addr,              \* host->addr; address 0 is the default address
  bulk_ep,           \* host->bulk_ep # 0
  reset_toggle_req,
  probe_fails,
  ctrl,              \* the control mailbox
  ring, ring_head, ring_tail, flush_req,
  pkt,               \* pkt[pipeline_cur]
  bulk_toggle, err_streak,
  pc0,               \* where core 0 is in an API function
  call,              \* the arguments, locals and result of that function
  base,              \* history: ring_head when clear_transfers last ran
  stray,             \* history: bytes came after the session they were for,
                     \* or while pump_bulk is past its test of
                     \* reset_toggle_req and has yet to look into the ring
  dropped            \* history: bytes the flush waits for were dropped

wireVars   == <<line, dev>>
schedVars  == <<hs, pc1, bus_ok>>
flagVars   == <<reenum_req, diag_hold>>
targetVars == <<addr, bulk_ep, reset_toggle_req>>
ringVars   == <<ring, ring_head, ring_tail, flush_req>>
pktVars    == <<pkt, bulk_toggle, err_streak>>
core0Vars  == <<pc0, call>>
histVars   == <<base, stray, dropped>>

vars == <<wireVars, schedVars, flagVars, targetVars, probe_fails, ctrl,
          ringVars, pktVars, core0Vars, histVars>>

-----------------------------------------------------------------------------
(* The data.                                                               *)

Addresses == 0..1            \* the default address and the assigned one
Requests  == {"in", "addr", "cfg"}  \* a read, SET_ADDRESS, SET_CONFIGURATION
Slots     == 0..RingSize-1
Slot(p)   == p % RingSize

\* A device after a bus reset, and what it keeps in a session: the data
\* toggle it expects, whether its bulk endpoint is halted, the bytes it took.
Fresh == [addr |-> 0, cfg |-> FALSE, tog |-> 0, halt |-> FALSE, got |-> <<>>]

NoPkt  == [valid |-> FALSE, len |-> 0, tog |-> 0, addr |-> 0, data |-> <<>>]
NoMail == [req |-> 0, op |-> "in", addr |-> 0, result |-> "OK"]

\* Core 0 between two calls: whether the function that returned last returned
\* true (or wrote every byte).
Returned(ok) ==
  [op |-> "none", ok |-> ok, addr |-> 0, left |-> 0, chunk |-> 0,
   late |-> FALSE]

Called(op, a, len) ==
  [op |-> op, ok |-> FALSE, addr |-> a, left |-> len, chunk |-> 0,
   late |-> FALSE]

\* host->state as core 0 reads it: enter_detect and the advance functions
\* write it together with hs.
Running    == hs = "RUN"
ring_count == ring_head - ring_tail
\* Mutation: one more byte than the ring has.
ring_space_off_by_one == RingSize - ring_count + 1
ring_space == RingSize - ring_count

\* ring_peek: the n bytes from the tail on.
ring_peek(n) == [i \in 1..n |-> ring[Slot(ring_tail + i - 1)]]

\* pick_chunk(h, 0): a full packet, or what is left when a flush is asked for.
pick_chunk == IF ring_count >= Mps THEN Mps
              ELSE IF flush_req THEN ring_count ELSE 0

-----------------------------------------------------------------------------
Init ==
  /\ line = "none" /\ dev = Fresh
  /\ hs = "DETECT" /\ pc1 = "top" /\ bus_ok = FALSE
  /\ reenum_req = FALSE /\ diag_hold = FALSE
  /\ addr = 0 /\ bulk_ep = FALSE /\ reset_toggle_req = FALSE
  /\ probe_fails = 0
  /\ ctrl = NoMail
  /\ ring = [s \in Slots |-> 0]
  /\ ring_head = 0 /\ ring_tail = 0 /\ flush_req = FALSE
  /\ pkt = NoPkt /\ bulk_toggle = 0 /\ err_streak = 0
  /\ pc0 = "idle" /\ call = Returned(FALSE)
  /\ base = 0 /\ stray = FALSE /\ dropped = FALSE

-----------------------------------------------------------------------------
(* The cable (external).  A plug comes back only after core 1 has seen the *)
(* line dead: the SE0 check runs every millisecond.                        *)

Unplug ==
  /\ "unplug" \in Faults
  /\ line = "fs"
  /\ line' = "none"
  /\ UNCHANGED <<dev, schedVars, flagVars, targetVars, probe_fails, ctrl,
                 ringVars, pktVars, core0Vars, histVars>>

Plug ==
  /\ line = "none" /\ ~bus_ok
  /\ line' = "fs" /\ dev' = Fresh
  /\ UNCHANGED <<schedVars, flagVars, targetVars, probe_fails, ctrl,
                 ringVars, pktVars, core0Vars, histVars>>

-----------------------------------------------------------------------------
(* Core 1: the host state machine.                                         *)

\* host_sof_tick: SE0 before a start-of-frame means the device is gone.  It
\* runs from the scheduler and from gate(), wherever a transaction waits.
SofLost ==
  /\ hs \in {"WARMUP", "RUN"} /\ pc1 \in {"top", "ctl", "txn", "probe"}
  /\ bus_ok /\ line = "none"
  /\ bus_ok' = FALSE
  /\ UNCHANGED <<wireVars, hs, pc1, flagVars, targetVars, probe_fails,
                 ctrl, ringVars, pktVars, core0Vars, histVars>>

\* Mutation: the endpoint is not forgotten.
EnterDetectKeepsEndpoint ==
  /\ hs' = "DETECT" /\ bus_ok' = FALSE
  /\ addr' = 0 /\ UNCHANGED bulk_ep
  /\ pc1' = "clear"

\* enter_detect up to its call of clear_transfers.
EnterDetect ==
  /\ hs' = "DETECT" /\ bus_ok' = FALSE
  /\ addr' = 0 /\ bulk_ep' = FALSE
  /\ pc1' = "clear"

\* History: what is left of the ring is given up.
DropRing == dropped' = (dropped \/ (pc0 = "flushPoll" /\ ring_count > 0))

\* Core 1 answers the request in the mailbox: the result, then req = 0.  What
\* else the mailbox still holds is never read again and told apart no more.
Finished(result) == [NoMail EXCEPT !.result = result]

\* Mutation: the ring is not emptied.
ClearTransfersKeepsRing ==
  /\ pc1 = "clear"
  /\ ctrl' = IF ctrl.req = 1 THEN Finished("FAIL") ELSE ctrl
  /\ flush_req' = FALSE
  /\ pkt' = NoPkt /\ bulk_toggle' = 0 /\ err_streak' = 0
  /\ base' = ring_head /\ stray' = FALSE /\ DropRing
  /\ pc1' = "top"
  /\ UNCHANGED <<wireVars, hs, bus_ok, flagVars, targetVars, probe_fails,
                 ring, ring_head, ring_tail, core0Vars>>

\* clear_transfers, called by enter_detect: end the pending control request,
\* drop the ring and the packet, start again from DATA0.
ClearTransfers ==
  /\ pc1 = "clear"
  /\ ctrl' = IF ctrl.req = 1 THEN Finished("FAIL") ELSE ctrl
  /\ ring_tail' = ring_head /\ flush_req' = FALSE
  /\ pkt' = NoPkt /\ bulk_toggle' = 0 /\ err_streak' = 0
  /\ base' = ring_head /\ stray' = FALSE /\ DropRing
  /\ pc1' = "top"
  /\ UNCHANGED <<wireVars, hs, bus_ok, flagVars, targetVars, probe_fails,
                 ring, ring_head, core0Vars>>

\* advance_detect: the debounced samples say a full-speed device is there.
AdvanceDetect ==
  /\ pc1 = "top" /\ hs = "DETECT"
  /\ ~diag_hold /\ line = "fs"
  /\ hs' = "RESET" /\ dev' = Fresh
  /\ UNCHANGED <<line, pc1, bus_ok, flagVars, targetVars, probe_fails,
                 ctrl, ringVars, pktVars, core0Vars, histVars>>

AdvanceReset ==
  /\ pc1 = "top" /\ hs = "RESET"
  /\ hs' = "WARMUP" /\ bus_ok' = TRUE
  /\ UNCHANGED <<wireVars, pc1, flagVars, targetVars, probe_fails, ctrl,
                 ringVars, pktVars, core0Vars, histVars>>

WarmupLost ==
  /\ pc1 = "top" /\ hs = "WARMUP" /\ ~bus_ok
  /\ EnterDetect
  /\ UNCHANGED <<wireVars, flagVars, reset_toggle_req, probe_fails, ctrl,
                 ringVars, pktVars, core0Vars, histVars>>

WarmupDone ==
  /\ pc1 = "top" /\ hs = "WARMUP" /\ bus_ok
  /\ hs' = "RUN" /\ probe_fails' = 0
  /\ UNCHANGED <<wireVars, pc1, bus_ok, flagVars, targetVars, ctrl,
                 ringVars, pktVars, core0Vars, histVars>>

\* Mutation: the request to re-enumerate is not taken back.
RunLostKeepsRequest ==
  /\ pc1 = "top" /\ hs = "RUN" /\ (~bus_ok \/ reenum_req)
  /\ EnterDetect
  /\ UNCHANGED <<wireVars, flagVars, reset_toggle_req, probe_fails, ctrl,
                 ringVars, pktVars, core0Vars, histVars>>

\* advance_run, its three ways on: end the session, serve the mailbox, pump.
RunLost ==
  /\ pc1 = "top" /\ hs = "RUN" /\ (~bus_ok \/ reenum_req)
  /\ reenum_req' = FALSE
  /\ EnterDetect
  /\ UNCHANGED <<wireVars, diag_hold, reset_toggle_req, probe_fails, ctrl,
                 ringVars, pktVars, core0Vars, histVars>>

RunControl ==
  /\ pc1 = "top" /\ hs = "RUN" /\ bus_ok /\ ~reenum_req
  /\ ctrl.req = 1
  /\ pc1' = "ctl"
  /\ UNCHANGED <<wireVars, hs, bus_ok, flagVars, targetVars, probe_fails,
                 ctrl, ringVars, pktVars, core0Vars, histVars>>

\* Mutation: the request for DATA0 is not taken back.
RunPumpKeepsRequest ==
  /\ pc1 = "top" /\ hs = "RUN" /\ bus_ok /\ ~reenum_req
  /\ ctrl.req = 0
  /\ pc1' = IF bulk_ep THEN "pump" ELSE "probe"
  /\ IF bulk_ep /\ reset_toggle_req
       THEN bulk_toggle' = 0 /\ pkt' = NoPkt
       ELSE UNCHANGED <<bulk_toggle, pkt>>
  /\ UNCHANGED <<wireVars, hs, bus_ok, flagVars, targetVars, probe_fails,
                 ctrl, ringVars, err_streak, core0Vars, histVars>>

\* The entry of pump_bulk.
RunPump ==
  /\ pc1 = "top" /\ hs = "RUN" /\ bus_ok /\ ~reenum_req
  /\ ctrl.req = 0
  /\ pc1' = IF bulk_ep THEN "pump" ELSE "probe"
  /\ IF bulk_ep /\ reset_toggle_req
       THEN /\ reset_toggle_req' = FALSE
            /\ bulk_toggle' = 0 /\ pkt' = NoPkt
       ELSE UNCHANGED <<reset_toggle_req, bulk_toggle, pkt>>
  /\ UNCHANGED <<wireVars, hs, bus_ok, flagVars, addr, bulk_ep, probe_fails,
                 ctrl, ringVars, err_streak, core0Vars, histVars>>

-----------------------------------------------------------------------------
(* Core 1: a control transfer.  run_control is one step, its transactions  *)
(* are not told apart; it ends within half a second.  The caller reads     *)
(* every result but CTRL_OK as a failure.                                  *)

\* What the device (external) does with a request it has taken.
Performed(op) ==
  CASE op = "in"   -> dev
    [] op = "addr" -> [dev EXCEPT !.addr = 1]
    [] op = "cfg"  -> [Fresh EXCEPT !.addr = dev.addr, !.cfg = TRUE]

\* The device takes the request; the host may miss the status stage.
ControlTaken(result) ==
  /\ pc1 = "ctl" /\ bus_ok
  /\ line = "fs" /\ dev.addr = ctrl.addr
  /\ result = "OK" \/ "loss" \in Faults
  /\ dev' = Performed(ctrl.op)
  /\ ctrl' = Finished(result)
  /\ pc1' = "top"
  /\ UNCHANGED <<line, hs, bus_ok, flagVars, targetVars, probe_fails,
                 ringVars, pktVars, core0Vars, histVars>>

\* Mutation: a failure is not answered.
ControlFailedSilently ==
  /\ pc1 = "ctl"
  /\ ~bus_ok \/ line = "none" \/ dev.addr # ctrl.addr \/ "loss" \in Faults
  /\ ctrl' = [ctrl EXCEPT !.result = "FAIL"]
  /\ pc1' = "top"
  /\ UNCHANGED <<wireVars, hs, bus_ok, flagVars, targetVars, probe_fails,
                 ringVars, pktVars, core0Vars, histVars>>

\* gate() fails, no device answers at that address, or every try is lost.
ControlFailed ==
  /\ pc1 = "ctl"
  /\ \/ ~bus_ok
     \/ line = "none"
     \/ dev.addr # ctrl.addr
     \/ "loss" \in Faults
  /\ ctrl' = Finished("FAIL")
  /\ pc1' = "top"
  /\ UNCHANGED <<wireVars, hs, bus_ok, flagVars, targetVars, probe_fails,
                 ringVars, pktVars, core0Vars, histVars>>

-----------------------------------------------------------------------------
(* Core 1: the bulk pump.                                                  *)

\* prep_pkt: the next packet is encoded before gate().
PumpPrepare ==
  /\ pc1 = "pump" /\ ~pkt.valid /\ pick_chunk > 0
  /\ pkt' = [valid |-> TRUE, len |-> pick_chunk, tog |-> bulk_toggle,
             addr |-> addr, data |-> ring_peek(pick_chunk)]
  /\ pc1' = "txn"
  /\ UNCHANGED <<wireVars, hs, bus_ok, flagVars, targetVars, probe_fails,
                 ctrl, ringVars, bulk_toggle, err_streak, core0Vars,
                 histVars>>

\* A packet that was not acknowledged is sent again as it is.
PumpResume ==
  /\ pc1 = "pump" /\ pkt.valid
  /\ pc1' = "txn"
  /\ UNCHANGED <<wireVars, hs, bus_ok, flagVars, targetVars, probe_fails,
                 ctrl, ringVars, pktVars, core0Vars, histVars>>

\* Nothing to send.  The flush request is tested here and cleared one step
\* later: core 0 may write and ask again in between.
PumpIdle ==
  /\ pc1 = "pump" /\ ~pkt.valid /\ pick_chunk = 0
  /\ pc1' = IF flush_req /\ ring_count = 0 THEN "unflush" ELSE "probe"
  /\ UNCHANGED <<wireVars, hs, bus_ok, flagVars, targetVars, probe_fails,
                 ctrl, ringVars, pktVars, core0Vars, histVars>>

PumpUnflush ==
  /\ pc1 = "unflush"
  /\ flush_req' = FALSE
  /\ pc1' = "probe"
  /\ UNCHANGED <<wireVars, hs, bus_ok, flagVars, targetVars, probe_fails,
                 ctrl, ring, ring_head, ring_tail, pktVars, core0Vars,
                 histVars>>

\* The device listens to the packet being sent.
Listening == line = "fs" /\ dev.cfg /\ dev.addr = pkt.addr

\* The device (external) when the packet reaches it: the wrong toggle marks a
\* packet it already has, which it acknowledges and drops.
Received == IF dev.tog = pkt.tog
              THEN [dev EXCEPT !.tog = 1 - @, !.got = @ \o pkt.data]
              ELSE dev

TxnBlocked ==
  /\ pc1 = "txn" /\ ~bus_ok
  /\ pc1' = "probe"
  /\ UNCHANGED <<wireVars, hs, bus_ok, flagVars, targetVars, probe_fails,
                 ctrl, ringVars, pktVars, core0Vars, histVars>>

TxnAck ==
  /\ pc1 = "txn" /\ bus_ok /\ Listening /\ ~dev.halt
  /\ dev' = Received
  /\ ring_tail' = ring_tail + pkt.len
  /\ bulk_toggle' = 1 - bulk_toggle
  /\ pkt' = NoPkt /\ err_streak' = 0
  /\ pc1' = "pump"
  /\ UNCHANGED <<line, hs, bus_ok, flagVars, targetVars, probe_fails,
                 ctrl, ring, ring_head, flush_req, core0Vars, histVars>>

TxnNak ==
  /\ "nak" \in Faults
  /\ pc1 = "txn" /\ bus_ok /\ Listening /\ ~dev.halt
  /\ err_streak' = 0
  /\ pc1' = "pump"
  /\ UNCHANGED <<wireVars, hs, bus_ok, flagVars, targetVars, probe_fails,
                 ctrl, ringVars, pkt, bulk_toggle, core0Vars, histVars>>

\* Mutation: the packet outlives its bytes.
TxnStallKeepsPacket ==
  /\ pc1 = "txn" /\ bus_ok /\ Listening
  /\ dev.halt \/ "stall" \in Faults
  /\ dev' = [dev EXCEPT !.halt = TRUE]
  /\ ring_tail' = ring_head /\ err_streak' = 0
  /\ pc1' = "unflush"
  /\ DropRing
  /\ UNCHANGED <<line, hs, bus_ok, flagVars, targetVars, probe_fails,
                 ctrl, ring, ring_head, flush_req, pkt, bulk_toggle,
                 core0Vars, base, stray>>

\* The endpoint is halted: what is in the ring is dropped, then the flush
\* request (PumpUnflush).
TxnStall ==
  /\ pc1 = "txn" /\ bus_ok /\ Listening
  /\ dev.halt \/ "stall" \in Faults
  /\ dev' = [dev EXCEPT !.halt = TRUE]
  /\ ring_tail' = ring_head
  /\ pkt' = NoPkt /\ err_streak' = 0
  /\ pc1' = "unflush"
  /\ DropRing
  /\ UNCHANGED <<line, hs, bus_ok, flagVars, targetVars, probe_fails,
                 ctrl, ring, ring_head, flush_req, bulk_toggle, core0Vars,
                 base, stray>>

\* Mutation: one error more.
CountErrorLate ==
  IF err_streak + 1 > DeadStreak
    THEN err_streak' = 0 /\ bus_ok' = FALSE /\ pc1' = "probe"
    ELSE err_streak' = err_streak + 1 /\ pc1' = "pump" /\ UNCHANGED bus_ok

\* No handshake; the streak of them ends the session.
CountError ==
  IF err_streak + 1 >= DeadStreak
    THEN err_streak' = 0 /\ bus_ok' = FALSE /\ pc1' = "probe"
    ELSE err_streak' = err_streak + 1 /\ pc1' = "pump" /\ UNCHANGED bus_ok

\* The packet is lost on its way, or nobody listens.
TxnLost ==
  /\ pc1 = "txn" /\ bus_ok
  /\ ~Listening \/ "loss" \in Faults
  /\ CountError
  /\ UNCHANGED <<wireVars, hs, flagVars, targetVars, probe_fails, ctrl,
                 ringVars, pkt, bulk_toggle, core0Vars, histVars>>

\* The device takes the packet, its ACK is lost.
TxnAckLost ==
  /\ "loss" \in Faults
  /\ pc1 = "txn" /\ bus_ok /\ Listening /\ ~dev.halt
  /\ dev' = Received
  /\ CountError
  /\ UNCHANGED <<line, hs, flagVars, targetVars, probe_fails, ctrl,
                 ringVars, pkt, bulk_toggle, core0Vars, histVars>>

-----------------------------------------------------------------------------
(* Core 1: the idle probe at the end of advance_run, once a second.        *)

ProbeSkipped ==
  /\ pc1 = "probe"
  /\ pc1' = "top"
  /\ UNCHANGED <<wireVars, hs, bus_ok, flagVars, targetVars, probe_fails,
                 ctrl, ringVars, pktVars, core0Vars, histVars>>

ProbeAnswered ==
  /\ pc1 = "probe" /\ addr # 0 /\ bus_ok
  /\ line = "fs" /\ dev.addr = addr
  /\ probe_fails' = 0
  /\ pc1' = "top"
  /\ UNCHANGED <<wireVars, hs, bus_ok, flagVars, targetVars, ctrl,
                 ringVars, pktVars, core0Vars, histVars>>

ProbeMissed ==
  /\ pc1 = "probe" /\ addr # 0 /\ bus_ok
  /\ line = "none" \/ dev.addr # addr \/ "loss" \in Faults
  /\ IF probe_fails + 1 >= ProbeLimit
       THEN probe_fails' = 0 /\ bus_ok' = FALSE
       ELSE probe_fails' = probe_fails + 1 /\ UNCHANGED bus_ok
  /\ pc1' = "top"
  /\ UNCHANGED <<wireVars, hs, flagVars, targetVars, ctrl, ringVars,
                 pktVars, core0Vars, histVars>>

Core1 ==
  \/ SofLost \/ ClearTransfers
  \/ AdvanceDetect \/ AdvanceReset \/ WarmupLost \/ WarmupDone
  \/ RunLost \/ RunControl \/ RunPump
  \/ \E result \in {"OK", "FAIL"} : ControlTaken(result)
  \/ ControlFailed
  \/ PumpPrepare \/ PumpResume \/ PumpIdle \/ PumpUnflush
  \/ TxnBlocked \/ TxnAck \/ TxnNak \/ TxnStall \/ TxnLost \/ TxnAckLost
  \/ ProbeSkipped \/ ProbeAnswered \/ ProbeMissed

-----------------------------------------------------------------------------
(* Core 0: usb_disp_udh_host_control_addr.                                 *)

core1Vars == <<wireVars, schedVars, probe_fails, pktVars>>

Return(ok) == pc0' = "idle" /\ call' = Returned(ok)

ControlCall(op, a) ==
  /\ pc0 = "idle"
  /\ IF Running THEN pc0' = "ctlWait" /\ call' = Called(op, a, 0)
                ELSE pc0' = "idle" /\ call' = Returned(FALSE)
  /\ UNCHANGED <<core1Vars, flagVars, targetVars, ctrl, ringVars, histVars>>

\* Mutation: the mailbox is filled at once.
ControlPostAtOnce ==
  /\ pc0 = "ctlWait"
  /\ ctrl' = [req |-> 1, op |-> call.op, addr |-> call.addr, result |-> "FAIL"]
  /\ pc0' = "ctlPoll"
  /\ UNCHANGED <<core1Vars, flagVars, targetVars, call, ringVars, histVars>>

\* The wait for the mailbox has no deadline; it is filled, then req is set.
ControlPost ==
  /\ pc0 = "ctlWait" /\ ctrl.req = 0
  /\ ctrl' = [req |-> 1, op |-> call.op, addr |-> call.addr, result |-> "FAIL"]
  /\ pc0' = "ctlPoll"
  /\ UNCHANGED <<core1Vars, flagVars, targetVars, call, ringVars, histVars>>

ControlReturn ==
  /\ pc0 = "ctlPoll" /\ ctrl.req = 0
  /\ Return(ctrl.result = "OK")
  /\ UNCHANGED <<core1Vars, flagVars, targetVars, ctrl, ringVars, histVars>>

\* The deadline is twice what a transfer may take, so core 1 must have been
\* elsewhere for its first half: not in RUN, or in a pump that waits on NAKs.
ControlLate ==
  /\ "late" \in Faults
  /\ pc0 = "ctlPoll" /\ ctrl.req = 1 /\ ~call.late
  /\ ~Running \/ (pc1 \in {"pump", "txn"} /\ pkt.valid)
  /\ call' = [call EXCEPT !.late = TRUE]
  /\ UNCHANGED <<core1Vars, flagVars, targetVars, ctrl, ringVars, pc0,
                 histVars>>

\* The caller gives up; the request stays in the mailbox.
ControlTimeout ==
  /\ pc0 = "ctlPoll" /\ ctrl.req = 1 /\ call.late
  /\ Return(FALSE)
  /\ UNCHANGED <<core1Vars, flagVars, targetVars, ctrl, ringVars, histVars>>

-----------------------------------------------------------------------------
(* Core 0: usb_disp_udh_host_bulk_write.                                   *)

WriteCall(len) ==
  /\ pc0 = "idle" /\ ring_head + len <= MaxBytes
  /\ pc0' = "write" /\ call' = Called("write", 0, len)
  /\ UNCHANGED <<core1Vars, flagVars, targetVars, ctrl, ringVars, histVars>>

\* Mutation: the copy is one byte short.
WriteCopyShort ==
  /\ pc0 = "write" /\ call.left > 0 /\ Running /\ ring_space > 0
  /\ \E n \in 1..call.left :
       /\ n = IF call.left > ring_space THEN ring_space ELSE call.left
       /\ LET copied == ring_head..(ring_head + n - 2)
          IN  ring' = [s \in Slots |->
                         IF \E p \in copied : Slot(p) = s
                           THEN CHOOSE p \in copied : Slot(p) = s
                           ELSE ring[s]]
       /\ call' = [call EXCEPT !.left = @ - n, !.chunk = n]
  /\ pc0' = "publish"
  /\ UNCHANGED <<core1Vars, flagVars, targetVars, ctrl, ring_head, ring_tail,
                 flush_req, histVars>>

\* The state and the space are tested, then the bytes are copied.
WriteCopy ==
  /\ pc0 = "write" /\ call.left > 0 /\ Running /\ ring_space > 0
  /\ \E n \in 1..call.left :
       /\ n = IF call.left > ring_space THEN ring_space ELSE call.left
       /\ LET copied == ring_head..(ring_head + n - 1)
          IN  ring' = [s \in Slots |->
                         IF \E p \in copied : Slot(p) = s
                           THEN CHOOSE p \in copied : Slot(p) = s
                           ELSE ring[s]]
       /\ call' = [call EXCEPT !.left = @ - n, !.chunk = n]
  /\ pc0' = "publish"
  /\ UNCHANGED <<core1Vars, flagVars, targetVars, ctrl, ring_head, ring_tail,
                 flush_req, histVars>>

\* ring_head moves, whatever core 1 has done to the port since the test.
WritePublish ==
  /\ pc0 = "publish"
  /\ ring_head' = ring_head + call.chunk
  /\ call' = [call EXCEPT !.chunk = 0]
  /\ pc0' = "write"
  /\ stray' = (stray \/ ~bulk_ep \/ (pc1 = "pump" /\ reset_toggle_req))
  /\ UNCHANGED <<core1Vars, flagVars, targetVars, ctrl, ring, ring_tail,
                 flush_req, base, dropped>>

\* All is written, or the port has stopped.
WriteReturn ==
  /\ pc0 = "write"
  /\ call.left = 0 \/ ~Running
  /\ Return(call.left = 0)
  /\ UNCHANGED <<core1Vars, flagVars, targetVars, ctrl, ringVars, histVars>>

\* The ring has stayed full for a second.
WriteTimeout ==
  /\ "late" \in Faults
  /\ pc0 = "write" /\ call.left > 0 /\ Running /\ ring_space = 0
  /\ Return(FALSE)
  /\ UNCHANGED <<core1Vars, flagVars, targetVars, ctrl, ringVars, histVars>>

-----------------------------------------------------------------------------
(* Core 0: usb_disp_udh_host_bulk_flush.                                   *)

FlushCall ==
  /\ pc0 = "idle"
  /\ IF Running THEN pc0' = "flush" /\ call' = Called("flush", 0, 0)
                ELSE pc0' = "idle" /\ call' = Returned(FALSE)
  /\ UNCHANGED <<core1Vars, flagVars, targetVars, ctrl, ringVars, histVars>>

FlushRequest ==
  /\ pc0 = "flush"
  /\ flush_req' = TRUE
  /\ pc0' = "flushPoll"
  /\ UNCHANGED <<core1Vars, flagVars, targetVars, ctrl, ring, ring_head,
                 ring_tail, call, histVars>>

\* Mutation: the ring is not looked at.
FlushPendingRequest == flush_req

FlushPending == flush_req \/ ring_count > 0

FlushDone ==
  /\ pc0 = "flushPoll" /\ ~FlushPending
  /\ Return(TRUE)
  /\ dropped' = FALSE
  /\ UNCHANGED <<core1Vars, flagVars, targetVars, ctrl, ringVars, base,
                 stray>>

FlushStopped ==
  /\ pc0 = "flushPoll" /\ FlushPending /\ ~Running
  /\ Return(FALSE)
  /\ dropped' = FALSE
  /\ UNCHANGED <<core1Vars, flagVars, targetVars, ctrl, ringVars, base,
                 stray>>

\* The caller's deadline has passed: flush_req stays set.
FlushTimeout ==
  /\ "late" \in Faults
  /\ pc0 = "flushPoll" /\ FlushPending /\ Running
  /\ Return(FALSE)
  /\ dropped' = FALSE
  /\ UNCHANGED <<core1Vars, flagVars, targetVars, ctrl, ringVars, base,
                 stray>>

-----------------------------------------------------------------------------
(* Core 0: the functions that only write flags of the port.                *)

SetDevice(a) ==
  /\ pc0 = "idle"
  /\ addr' = a
  /\ call' = Returned(TRUE)
  /\ UNCHANGED <<core1Vars, flagVars, bulk_ep, reset_toggle_req, ctrl,
                 ringVars, pc0, histVars>>

\* set_bulk_out stores the endpoint first and asks for the toggle last.
SetBulkOut ==
  /\ pc0 = "idle"
  /\ bulk_ep' = TRUE
  /\ pc0' = "toggle" /\ call' = Called("set_bulk_out", 0, 0)
  /\ UNCHANGED <<core1Vars, flagVars, addr, reset_toggle_req, ctrl, ringVars,
                 histVars>>

SetBulkOutToggle ==
  /\ pc0 = "toggle"
  /\ reset_toggle_req' = TRUE
  /\ Return(TRUE)
  /\ UNCHANGED <<core1Vars, flagVars, addr, bulk_ep, ctrl, ringVars, histVars>>

RequestReenum ==
  /\ pc0 = "idle"
  /\ reenum_req' = TRUE
  /\ call' = Returned(TRUE)
  /\ UNCHANGED <<core1Vars, diag_hold, targetVars, ctrl, ringVars, pc0,
                 histVars>>

\* usb_disp_udh_host_line_diag: take the port down, wait 5 ms, sample.
DiagStart ==
  /\ pc0 = "idle"
  /\ diag_hold' = TRUE /\ reenum_req' = TRUE /\ bus_ok' = FALSE
  /\ pc0' = "diagWait" /\ call' = Called("line_diag", 0, 0)
  /\ UNCHANGED <<wireVars, hs, pc1, probe_fails, pktVars, targetVars,
                 ctrl, ringVars, histVars>>

\* Within 5 ms core 1 leaves RUN, and a WARMUP whose bus_ok was taken away.
\* A RESET sets it again when it ends.
DiagSample ==
  /\ pc0 = "diagWait"
  /\ pc1 = "top"
  /\ hs \in {"DETECT", "RESET"} \/ (hs = "WARMUP" /\ bus_ok)
  /\ pc0' = "diagSample"
  /\ UNCHANGED <<core1Vars, flagVars, targetVars, ctrl, ringVars, call,
                 histVars>>

DiagEnd ==
  /\ pc0 = "diagSample"
  /\ diag_hold' = FALSE
  /\ Return(TRUE)
  /\ UNCHANGED <<core1Vars, reenum_req, targetVars, ctrl, ringVars, histVars>>

\* What core 0 does inside a function.
Core0 ==
  \/ ControlPost \/ ControlReturn \/ ControlLate \/ ControlTimeout
  \/ WriteCopy \/ WritePublish \/ WriteReturn \/ WriteTimeout
  \/ FlushRequest \/ FlushDone \/ FlushStopped \/ FlushTimeout
  \/ SetBulkOutToggle
  \/ DiagSample \/ DiagEnd

\* Any caller: every function, in every order.
AnyCall ==
  \/ \E op \in Requests, a \in Addresses : ControlCall(op, a)
  \/ \E len \in 1..MaxWrite : WriteCall(len)
  \/ FlushCall
  \/ \E a \in Addresses : SetDevice(a)
  \/ SetBulkOut
  \/ "reenum" \in Faults /\ RequestReenum
  \/ "diag" \in Faults /\ DiagStart

Next == Unplug \/ Plug \/ Core1 \/ Core0 \/ AnyCall

Spec == Init /\ [][Next]_vars

-----------------------------------------------------------------------------
(* Type correctness.                                                       *)

Devices   == [addr : Addresses, cfg : BOOLEAN, tog : 0..1, halt : BOOLEAN,
              got : Seq(Nat)]
Mailboxes == [req : 0..1, op : Requests, addr : Addresses,
              result : {"OK", "FAIL"}]
Packets   == [valid : BOOLEAN, len : 0..Mps, tog : 0..1, addr : Addresses,
              data : Seq(Nat)]
Functions == Requests \cup {"none", "write", "flush", "set_bulk_out", "line_diag"}
Calls     == [op : Functions, ok : BOOLEAN, addr : Addresses, left : Nat,
              chunk : Nat, late : BOOLEAN]

\* The states and the flags.
StateOK ==
  /\ line \in {"none", "fs"}
  /\ hs \in {"DETECT", "RESET", "WARMUP", "RUN"}
  /\ pc1 \in {"top", "clear", "ctl", "pump", "unflush", "txn", "probe"}
  /\ bus_ok \in BOOLEAN /\ reenum_req \in BOOLEAN /\ diag_hold \in BOOLEAN
  /\ bulk_ep \in BOOLEAN /\ reset_toggle_req \in BOOLEAN
  /\ flush_req \in BOOLEAN
  /\ pc0 \in {"idle", "ctlWait", "ctlPoll", "write", "publish", "flush",
              "flushPoll", "toggle", "diagWait", "diagSample"}
  /\ stray \in BOOLEAN /\ dropped \in BOOLEAN

\* The records, the counters and the ring.
DataOK ==
  /\ dev \in Devices
  /\ addr \in Addresses
  /\ probe_fails \in 0..ProbeLimit-1
  /\ ctrl \in Mailboxes
  /\ ring \in [Slots -> Nat]
  /\ ring_head \in Nat /\ ring_tail \in Nat
  /\ pkt \in Packets
  /\ bulk_toggle \in 0..1 /\ err_streak \in 0..DeadStreak-1
  /\ call \in Calls
  /\ base \in Nat

\* The request core 0 waits to put into the mailbox.
CallOK == pc0 = "ctlWait" => call.op \in Requests

TypeOK == StateOK /\ DataOK /\ CallOK

-----------------------------------------------------------------------------
(* What must hold of the ring and of the mailbox for every caller.         *)

\* The ring never holds more than it can, the chunk being copied included,
\* and between tail and head every slot holds the byte of its position: the
\* producer overwrites nothing that bulk_write accepted and pump_bulk has yet
\* to send, although core 0 tests the space and moves ring_head in two steps
\* while core 1 moves ring_tail.
RingIntact ==
  /\ ring_tail <= ring_head
  /\ ring_count + call.chunk <= RingSize
  /\ \A p \in ring_tail..(ring_head + call.chunk - 1) : ring[Slot(p)] = p

\* An encoded packet always carries the oldest bytes of the ring.  pump_bulk
\* keeps it over retries and NAKs, in which core 0 goes on writing, and whatever
\* drops or moves the ring must drop the packet with it.
PacketIntact ==
  pkt.valid => /\ pkt.len > 0 /\ pkt.len <= ring_count
               /\ pkt.data = [i \in 1..pkt.len |-> ring_tail + i - 1]

\* From the moment core 1 takes a request until it answers, the mailbox holds
\* that request, and it is answered once: a caller that comes after one that
\* timed out waits for core 1 before it writes its own.  So no call returns
\* the result of another one's request.
MailboxHeld ==
  [][pc1 = "ctl" => ctrl.req = 1 /\ (pc1' = "ctl" => ctrl' = ctrl)]_vars

\* The ring implements the bounded queue of BulkQueue.
Queue == INSTANCE BulkQueue WITH
           Capacity <- RingSize,
           accepted <- ring_head,
           queue    <- ring_peek(ring_count),
           packet   <- pkt.data

QueueSpec == Queue!Spec

-----------------------------------------------------------------------------
\* The comments of line_diag (usb_disp_udh_host.cpp:751 and 755) have it drop
\* the port to the disconnected state and wait for core 1 to reach the detect
\* loop: the lines are sampled in DETECT only.
DiagInDetect == pc0 = "diagSample" => hs = "DETECT"

=============================================================================
