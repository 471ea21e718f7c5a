---------------------------- MODULE DispPico_proofs ---------------------------
(***************************************************************************)
(* Theorems about the stack of the Pico: the host engine, its HAL and one  *)
(* display with its application (DispPico).                                *)
(***************************************************************************)
EXTENDS DispPico, UdhHost_proofs

USE DEF wireVars, schedVars, flagVars, targetVars, ringVars, pktVars,
        core0Vars, histVars, core1Vars

-----------------------------------------------------------------------------
(* Who writes what: the only steps of the engine that change a variable.   *)

\* The device.
LEMMA DeviceWriters ==
  ASSUME [EngineStep]_vars
  PROVE  \/ UNCHANGED dev
         \/ Plug \/ AdvanceDetect
         \/ \E result \in {"OK", "FAIL"} : ControlTaken(result) \/ TxnAck
         \/ TxnStall \/ TxnAckLost
<1>1. CASE Core1
  BY <1>1, Zenon
     DEF Core1, SofLost, ClearTransfers, AdvanceReset, WarmupLost, WarmupDone,
         RunLost, RunControl, RunPump, ControlFailed, PumpPrepare, PumpResume,
         PumpIdle, PumpUnflush, TxnBlocked, TxnNak, TxnLost, ProbeSkipped,
         ProbeAnswered, ProbeMissed, EnterDetect
<1>2. CASE Core0
  BY <1>2, Zenon
     DEF Core0, ControlPost, ControlReturn, ControlLate, ControlTimeout,
         WriteCopy, WritePublish, WriteReturn, WriteTimeout, FlushRequest,
         FlushDone, FlushStopped, FlushTimeout, SetBulkOutToggle, DiagSample,
         DiagEnd
<1>3. CASE Request
  BY <1>3, Zenon
     DEF Request, ControlCall, WriteCall, FlushCall, SetDevice, SetBulkOut,
         RequestReenum, DiagStart
<1>4. CASE Unplug \/ Plug \/ UNCHANGED vars
  BY <1>4, Zenon
     DEF vars, Unplug
<1> QED
  BY <1>1, <1>2, <1>3, <1>4, Zenon DEF EngineStep

\* The state of the port.
LEMMA StateWriters ==
  ASSUME [EngineStep]_vars
  PROVE  \/ UNCHANGED hs
         \/ AdvanceDetect \/ AdvanceReset \/ WarmupLost \/ WarmupDone
         \/ RunLost
<1>1. CASE Core1
  BY <1>1, Zenon
     DEF Core1, SofLost, ClearTransfers, RunControl, RunPump, ControlTaken,
         ControlFailed, PumpPrepare, PumpResume, PumpIdle, PumpUnflush,
         TxnBlocked, TxnAck, TxnNak, TxnStall, TxnLost, TxnAckLost,
         ProbeSkipped, ProbeAnswered, ProbeMissed
<1>2. CASE Core0
  BY <1>2, Zenon
     DEF Core0, ControlPost, ControlReturn, ControlLate, ControlTimeout,
         WriteCopy, WritePublish, WriteReturn, WriteTimeout, FlushRequest,
         FlushDone, FlushStopped, FlushTimeout, SetBulkOutToggle, DiagSample,
         DiagEnd
<1>3. CASE Request
  BY <1>3, Zenon
     DEF Request, ControlCall, WriteCall, FlushCall, SetDevice, SetBulkOut,
         RequestReenum, DiagStart
<1>4. CASE Unplug \/ Plug \/ UNCHANGED vars
  BY <1>4, Zenon
     DEF vars, Unplug, Plug
<1> QED
  BY <1>1, <1>2, <1>3, <1>4, Zenon DEF EngineStep

\* The head of the ring.
LEMMA HeadWriters ==
  ASSUME [EngineStep]_vars
  PROVE  \/ UNCHANGED ring_head
         \/ WritePublish
<1>1. CASE Core1
  BY <1>1, Zenon
     DEF Core1, SofLost, ClearTransfers, AdvanceDetect, AdvanceReset,
         WarmupLost, WarmupDone, RunLost, RunControl, RunPump, ControlTaken,
         ControlFailed, PumpPrepare, PumpResume, PumpIdle, PumpUnflush,
         TxnBlocked, TxnAck, TxnNak, TxnStall, TxnLost, TxnAckLost,
         ProbeSkipped, ProbeAnswered, ProbeMissed, EnterDetect
<1>2. CASE Core0
  BY <1>2, Zenon
     DEF Core0, ControlPost, ControlReturn, ControlLate, ControlTimeout,
         WriteCopy, WriteReturn, WriteTimeout, FlushRequest, FlushDone,
         FlushStopped, FlushTimeout, SetBulkOutToggle, DiagSample, DiagEnd
<1>3. CASE Request
  BY <1>3, Zenon
     DEF Request, ControlCall, WriteCall, FlushCall, SetDevice, SetBulkOut,
         RequestReenum, DiagStart
<1>4. CASE Unplug \/ Plug \/ UNCHANGED vars
  BY <1>4, Zenon
     DEF vars, Unplug, Plug
<1> QED
  BY <1>1, <1>2, <1>3, <1>4, Zenon DEF EngineStep

\* The tail of the ring.
LEMMA TailWriters ==
  ASSUME [EngineStep]_vars
  PROVE  \/ UNCHANGED ring_tail
         \/ ClearTransfers \/ TxnAck \/ TxnStall
<1>1. CASE Core1
  BY <1>1, Zenon
     DEF Core1, SofLost, AdvanceDetect, AdvanceReset, WarmupLost, WarmupDone,
         RunLost, RunControl, RunPump, ControlTaken, ControlFailed,
         PumpPrepare, PumpResume, PumpIdle, PumpUnflush, TxnBlocked, TxnNak,
         TxnLost, TxnAckLost, ProbeSkipped, ProbeAnswered, ProbeMissed,
         EnterDetect
<1>2. CASE Core0
  BY <1>2, Zenon
     DEF Core0, ControlPost, ControlReturn, ControlLate, ControlTimeout,
         WriteCopy, WritePublish, WriteReturn, WriteTimeout, FlushRequest,
         FlushDone, FlushStopped, FlushTimeout, SetBulkOutToggle, DiagSample,
         DiagEnd
<1>3. CASE Request
  BY <1>3, Zenon
     DEF Request, ControlCall, WriteCall, FlushCall, SetDevice, SetBulkOut,
         RequestReenum, DiagStart
<1>4. CASE Unplug \/ Plug \/ UNCHANGED vars
  BY <1>4, Zenon
     DEF vars, Unplug, Plug
<1> QED
  BY <1>1, <1>2, <1>3, <1>4, Zenon DEF EngineStep

\* The start of the session in the stream.
LEMMA BaseWriters ==
  ASSUME [EngineStep]_vars
  PROVE  \/ UNCHANGED base
         \/ ClearTransfers
<1>1. CASE Core1
  BY <1>1, Zenon
     DEF Core1, SofLost, AdvanceDetect, AdvanceReset, WarmupLost, WarmupDone,
         RunLost, RunControl, RunPump, ControlTaken, ControlFailed,
         PumpPrepare, PumpResume, PumpIdle, PumpUnflush, TxnBlocked, TxnAck,
         TxnNak, TxnStall, TxnLost, TxnAckLost, ProbeSkipped, ProbeAnswered,
         ProbeMissed, EnterDetect
<1>2. CASE Core0
  BY <1>2, Zenon
     DEF Core0, ControlPost, ControlReturn, ControlLate, ControlTimeout,
         WriteCopy, WritePublish, WriteReturn, WriteTimeout, FlushRequest,
         FlushDone, FlushStopped, FlushTimeout, SetBulkOutToggle, DiagSample,
         DiagEnd
<1>3. CASE Request
  BY <1>3, Zenon
     DEF Request, ControlCall, WriteCall, FlushCall, SetDevice, SetBulkOut,
         RequestReenum, DiagStart
<1>4. CASE Unplug \/ Plug \/ UNCHANGED vars
  BY <1>4, Zenon
     DEF vars, Unplug, Plug
<1> QED
  BY <1>1, <1>2, <1>3, <1>4, Zenon DEF EngineStep

\* Whether bytes came after their session.
LEMMA StrayWriters ==
  ASSUME [EngineStep]_vars
  PROVE  \/ UNCHANGED stray
         \/ ClearTransfers \/ WritePublish
<1>1. CASE Core1
  BY <1>1, Zenon
     DEF Core1, SofLost, AdvanceDetect, AdvanceReset, WarmupLost, WarmupDone,
         RunLost, RunControl, RunPump, ControlTaken, ControlFailed,
         PumpPrepare, PumpResume, PumpIdle, PumpUnflush, TxnBlocked, TxnAck,
         TxnNak, TxnStall, TxnLost, TxnAckLost, ProbeSkipped, ProbeAnswered,
         ProbeMissed, EnterDetect
<1>2. CASE Core0
  BY <1>2, Zenon
     DEF Core0, ControlPost, ControlReturn, ControlLate, ControlTimeout,
         WriteCopy, WriteReturn, WriteTimeout, FlushRequest, FlushDone,
         FlushStopped, FlushTimeout, SetBulkOutToggle, DiagSample, DiagEnd
<1>3. CASE Request
  BY <1>3, Zenon
     DEF Request, ControlCall, WriteCall, FlushCall, SetDevice, SetBulkOut,
         RequestReenum, DiagStart
<1>4. CASE Unplug \/ Plug \/ UNCHANGED vars
  BY <1>4, Zenon
     DEF vars, Unplug, Plug
<1> QED
  BY <1>1, <1>2, <1>3, <1>4, Zenon DEF EngineStep

\* The bulk endpoint.
LEMMA EndpointWriters ==
  ASSUME [EngineStep]_vars
  PROVE  \/ UNCHANGED bulk_ep
         \/ WarmupLost \/ RunLost \/ SetBulkOut
<1>1. CASE Core1
  BY <1>1, Zenon
     DEF Core1, SofLost, ClearTransfers, AdvanceDetect, AdvanceReset,
         WarmupDone, RunControl, RunPump, ControlTaken, ControlFailed,
         PumpPrepare, PumpResume, PumpIdle, PumpUnflush, TxnBlocked, TxnAck,
         TxnNak, TxnStall, TxnLost, TxnAckLost, ProbeSkipped, ProbeAnswered,
         ProbeMissed
<1>2. CASE Core0
  BY <1>2, Zenon
     DEF Core0, ControlPost, ControlReturn, ControlLate, ControlTimeout,
         WriteCopy, WritePublish, WriteReturn, WriteTimeout, FlushRequest,
         FlushDone, FlushStopped, FlushTimeout, SetBulkOutToggle, DiagSample,
         DiagEnd
<1>3. CASE Request
  BY <1>3, Zenon
     DEF Request, ControlCall, WriteCall, FlushCall, SetDevice, RequestReenum,
         DiagStart
<1>4. CASE Unplug \/ Plug \/ UNCHANGED vars
  BY <1>4, Zenon
     DEF vars, Unplug, Plug
<1> QED
  BY <1>1, <1>2, <1>3, <1>4, Zenon DEF EngineStep

\* The request for DATA0.
LEMMA ToggleRequestWriters ==
  ASSUME [EngineStep]_vars
  PROVE  \/ UNCHANGED reset_toggle_req
         \/ RunPump \/ SetBulkOutToggle
<1>1. CASE Core1
  BY <1>1, Zenon
     DEF Core1, SofLost, ClearTransfers, AdvanceDetect, AdvanceReset,
         WarmupLost, WarmupDone, RunLost, RunControl, ControlTaken,
         ControlFailed, PumpPrepare, PumpResume, PumpIdle, PumpUnflush,
         TxnBlocked, TxnAck, TxnNak, TxnStall, TxnLost, TxnAckLost,
         ProbeSkipped, ProbeAnswered, ProbeMissed, EnterDetect
<1>2. CASE Core0
  BY <1>2, Zenon
     DEF Core0, ControlPost, ControlReturn, ControlLate, ControlTimeout,
         WriteCopy, WritePublish, WriteReturn, WriteTimeout, FlushRequest,
         FlushDone, FlushStopped, FlushTimeout, DiagSample, DiagEnd
<1>3. CASE Request
  BY <1>3, Zenon
     DEF Request, ControlCall, WriteCall, FlushCall, SetDevice, SetBulkOut,
         RequestReenum, DiagStart
<1>4. CASE Unplug \/ Plug \/ UNCHANGED vars
  BY <1>4, Zenon
     DEF vars, Unplug, Plug
<1> QED
  BY <1>1, <1>2, <1>3, <1>4, Zenon DEF EngineStep

\* The packet and the toggle of the host.
LEMMA PacketWriters ==
  ASSUME [EngineStep]_vars
  PROVE  \/ UNCHANGED <<pkt, bulk_toggle>>
         \/ ClearTransfers \/ RunPump \/ PumpPrepare \/ TxnAck \/ TxnStall
<1>1. CASE Core1
  BY <1>1, Zenon
     DEF Core1, SofLost, AdvanceDetect, AdvanceReset, WarmupLost, WarmupDone,
         RunLost, RunControl, ControlTaken, ControlFailed, PumpResume,
         PumpIdle, PumpUnflush, TxnBlocked, TxnNak, TxnLost, TxnAckLost,
         ProbeSkipped, ProbeAnswered, ProbeMissed, EnterDetect
<1>2. CASE Core0
  BY <1>2, Zenon
     DEF Core0, ControlPost, ControlReturn, ControlLate, ControlTimeout,
         WriteCopy, WritePublish, WriteReturn, WriteTimeout, FlushRequest,
         FlushDone, FlushStopped, FlushTimeout, SetBulkOutToggle, DiagSample,
         DiagEnd
<1>3. CASE Request
  BY <1>3, Zenon
     DEF Request, ControlCall, WriteCall, FlushCall, SetDevice, SetBulkOut,
         RequestReenum, DiagStart
<1>4. CASE Unplug \/ Plug \/ UNCHANGED vars
  BY <1>4, Zenon
     DEF vars, Unplug, Plug
<1> QED
  BY <1>1, <1>2, <1>3, <1>4, Zenon DEF EngineStep

\* The mailbox.
LEMMA MailboxWriters ==
  ASSUME [EngineStep]_vars
  PROVE  \/ UNCHANGED ctrl
         \/ ClearTransfers
         \/ \E result \in {"OK", "FAIL"} : ControlTaken(result)
         \/ ControlFailed \/ ControlPost
<1>1. CASE Core1
  BY <1>1, Zenon
     DEF Core1, SofLost, AdvanceDetect, AdvanceReset, WarmupLost, WarmupDone,
         RunLost, RunControl, RunPump, PumpPrepare, PumpResume, PumpIdle,
         PumpUnflush, TxnBlocked, TxnAck, TxnNak, TxnStall, TxnLost,
         TxnAckLost, ProbeSkipped, ProbeAnswered, ProbeMissed, EnterDetect
<1>2. CASE Core0
  BY <1>2, Zenon
     DEF Core0, ControlReturn, ControlLate, ControlTimeout, WriteCopy,
         WritePublish, WriteReturn, WriteTimeout, FlushRequest, FlushDone,
         FlushStopped, FlushTimeout, SetBulkOutToggle, DiagSample, DiagEnd
<1>3. CASE Request
  BY <1>3, Zenon
     DEF Request, ControlCall, WriteCall, FlushCall, SetDevice, SetBulkOut,
         RequestReenum, DiagStart
<1>4. CASE Unplug \/ Plug \/ UNCHANGED vars
  BY <1>4, Zenon
     DEF vars, Unplug, Plug
<1> QED
  BY <1>1, <1>2, <1>3, <1>4, Zenon DEF EngineStep

\* The request for a re-enumeration.
LEMMA ReenumWriters ==
  ASSUME [EngineStep]_vars
  PROVE  \/ UNCHANGED reenum_req
         \/ RunLost \/ RequestReenum \/ DiagStart
<1>1. CASE Core1
  BY <1>1, Zenon
     DEF Core1, SofLost, ClearTransfers, AdvanceDetect, AdvanceReset,
         WarmupLost, WarmupDone, RunControl, RunPump, ControlTaken,
         ControlFailed, PumpPrepare, PumpResume, PumpIdle, PumpUnflush,
         TxnBlocked, TxnAck, TxnNak, TxnStall, TxnLost, TxnAckLost,
         ProbeSkipped, ProbeAnswered, ProbeMissed, EnterDetect
<1>2. CASE Core0
  BY <1>2, Zenon
     DEF Core0, ControlPost, ControlReturn, ControlLate, ControlTimeout,
         WriteCopy, WritePublish, WriteReturn, WriteTimeout, FlushRequest,
         FlushDone, FlushStopped, FlushTimeout, SetBulkOutToggle, DiagSample,
         DiagEnd
<1>3. CASE Request
  BY <1>3, Zenon
     DEF Request, ControlCall, WriteCall, FlushCall, SetDevice, SetBulkOut
<1>4. CASE Unplug \/ Plug \/ UNCHANGED vars
  BY <1>4, Zenon
     DEF vars, Unplug, Plug
<1> QED
  BY <1>1, <1>2, <1>3, <1>4, Zenon DEF EngineStep

-----------------------------------------------------------------------------
(* A session of the engine, from the bus reset to enter_detect: what holds *)
(* of it for every caller.                                                 *)

\* Core 1 leaves the loop only in RUN, and calls clear_transfers in DETECT.
Pc1InState ==
  /\ pc1 = "clear" => hs = "DETECT"
  /\ pc1 \in {"ctl", "pump", "unflush", "txn", "probe"} => hs = "RUN"

\* The stream of a session starts where clear_transfers left the ring.
BaseInRing == base <= ring_tail

\* The packet was encoded with the toggle the host still has.
PacketToggle == pkt.valid => pkt.tog = bulk_toggle

\* Before the first ACK of a session the host sends DATA0.
FirstToggle == ring_tail = base => bulk_toggle = 0

\* What no byte was written for has not reached the device.
NothingSent == hs # "DETECT" /\ ring_head = base => dev.tog = 0 /\ dev.got = <<>>

\* A device that was just reset is not configured.
Unconfigured == hs \in {"RESET", "WARMUP"} => ~dev.cfg

\* The device got bytes of this session only.
NewBytes == hs # "DETECT" => \A i \in 1..Len(dev.got) : dev.got[i] >= base

\* bulk_write publishes its last chunk after the session when the endpoint of
\* that session is gone, so that the chunk is known as stray,
LateChunk == hs # "RUN" /\ pc0 = "publish" => ~bulk_ep

\* and without such a chunk a session starts with an empty ring.
StartsEmpty == hs # "RUN" /\ pc1 # "clear" /\ ~stray => ring_head = base

SessionInv ==
  /\ Pc1InState /\ BaseInRing /\ PacketToggle /\ FirstToggle /\ NothingSent
  /\ Unconfigured /\ NewBytes /\ LateChunk /\ StartsEmpty

EngineInv == TypeOK /\ RingInv /\ MailboxTaken /\ SessionInv

\* The numbers of the ring, for arithmetic.
LEMMA RingNumbers ==
  ASSUME EngineInv
  PROVE  /\ base \in Nat /\ ring_tail \in Nat /\ ring_head \in Nat
         /\ base <= ring_tail /\ ring_tail <= ring_head
         /\ call.chunk \in Nat
         /\ pkt.len \in Nat /\ bulk_toggle \in 0..1 /\ dev.tog \in 0..1
         /\ dev.got \in Seq(Nat)
         /\ pkt.valid => /\ pkt.len > 0 /\ pkt.len <= ring_head - ring_tail
                         /\ pkt.data = Positions(ring_tail, pkt.len)
  BY ConstantAssumption
     DEF EngineInv, TypeOK, DataOK, Calls, Packets, Devices, RingInv, RingIntact,
         SessionInv, BaseInRing, PacketIntact, ring_count, Positions

\* What a control request leaves of the device.
LEMMA PerformedKinds ==
  ASSUME dev \in Devices, NEW op \in Requests
  PROVE  /\ op = "cfg" => /\ Performed(op).tog = 0 /\ Performed(op).got = <<>>
                          /\ Performed(op).cfg /\ ~Performed(op).halt
         /\ op # "cfg" => /\ Performed(op).tog = dev.tog
                          /\ Performed(op).got = dev.got
                          /\ Performed(op).cfg = dev.cfg
                          /\ Performed(op).halt = dev.halt
<1>1. CASE op = "in"
  BY <1>1 DEF Performed
<1>2. CASE op = "addr"
  <2>1. Performed(op) = [dev EXCEPT !.addr = 1]
    BY <1>2 DEF Performed
  <2> QED
    BY <1>2, <2>1 DEF Devices
<1>3. CASE op = "cfg"
  <2>1. Performed(op) = [Fresh EXCEPT !.addr = dev.addr, !.cfg = TRUE]
    BY <1>3 DEF Performed
  <2> QED
    BY <1>3, <2>1 DEF Fresh
<1> QED
  BY <1>1, <1>2, <1>3 DEF Requests

\* What an acknowledged packet leaves of the device: it had it already, or it
\* takes the bytes of it.
LEMMA ReceivedKinds ==
  ASSUME dev \in Devices
  PROVE  /\ dev.tog # pkt.tog => Received = dev
         /\ dev.tog = pkt.tog => /\ Received.tog = 1 - dev.tog
                                 /\ Received.got = dev.got \o pkt.data
                                 /\ Received.cfg = dev.cfg
                                 /\ Received.halt = dev.halt
  BY DEF Received, Devices

\* No step takes core 1 out of the part of its loop that the state allows.
LEMMA Pc1InStateStep ==
  ASSUME Pc1InState, [EngineStep]_vars
  PROVE  Pc1InState'
<1> USE DEF Pc1InState
<1>1. CASE UNCHANGED <<hs, pc1>>
  BY <1>1
<1>2. CASE Core1
  <2>1. CASE \/ SofLost \/ ClearTransfers \/ AdvanceDetect \/ AdvanceReset
             \/ WarmupLost \/ WarmupDone \/ RunLost \/ RunControl
    BY <2>1 DEF SofLost, ClearTransfers, AdvanceDetect, AdvanceReset, WarmupLost,
                WarmupDone, RunLost, RunControl, EnterDetect
  <2>2. CASE \/ RunPump \/ ControlFailed
             \/ \E result \in {"OK", "FAIL"} : ControlTaken(result)
             \/ PumpPrepare \/ PumpResume \/ PumpIdle \/ PumpUnflush
    BY <2>2 DEF RunPump, ControlTaken, ControlFailed, PumpPrepare, PumpResume,
                PumpIdle, PumpUnflush
  <2>3. CASE \/ TxnBlocked \/ TxnAck \/ TxnNak \/ TxnStall \/ TxnLost
             \/ TxnAckLost \/ ProbeSkipped \/ ProbeAnswered \/ ProbeMissed
    BY <2>3 DEF TxnBlocked, TxnAck, TxnNak, TxnStall, TxnLost, TxnAckLost,
                CountError, ProbeSkipped, ProbeAnswered, ProbeMissed
  <2> QED
    BY <1>2, <2>1, <2>2, <2>3, Zenon DEF Core1
<1>3. CASE Core0 \/ Request \/ Unplug \/ Plug \/ UNCHANGED vars
  <2>1. UNCHANGED <<hs, pc1>>
    BY <1>3, Zenon
       DEF Core0, ControlPost, ControlReturn, ControlLate, ControlTimeout,
           WriteCopy, WritePublish, WriteReturn, WriteTimeout, FlushRequest,
           FlushDone, FlushStopped, FlushTimeout, SetBulkOutToggle, DiagSample,
           DiagEnd, Request, ControlCall, WriteCall, FlushCall, SetDevice,
           SetBulkOut, RequestReenum, DiagStart, Unplug, Plug, vars
  <2> QED
    BY <2>1, <1>1
<1> QED
  BY <1>2, <1>3 DEF EngineStep

\* The tail never falls behind the start of the session.
LEMMA BaseInRingStep ==
  ASSUME EngineInv, [EngineStep]_vars
  PROVE  BaseInRing'
<1> USE RingNumbers DEF BaseInRing
<1>1. CASE ClearTransfers
  BY <1>1 DEF ClearTransfers
<1>2. CASE TxnAck
  BY <1>2 DEF TxnAck
<1>3. CASE TxnStall
  BY <1>3 DEF TxnStall
<1> QED
  BY <1>1, <1>2, <1>3, TailWriters, BaseWriters

\* The toggle of the host does not move under a packet that is held.
LEMMA PacketToggleStep ==
  ASSUME EngineInv, [EngineStep]_vars
  PROVE  PacketToggle'
<1> USE DEF PacketToggle
<1>1. CASE ClearTransfers \/ TxnAck \/ TxnStall
  BY <1>1 DEF ClearTransfers, TxnAck, TxnStall, NoPkt
<1>2. CASE RunPump
  BY <1>2 DEF RunPump, NoPkt, EngineInv, SessionInv
<1>3. CASE PumpPrepare
  BY <1>3 DEF PumpPrepare
<1> QED
  BY <1>1, <1>2, <1>3, PacketWriters DEF EngineInv, SessionInv

\* The toggle moves with the tail, which each session starts afresh.
LEMMA FirstToggleStep ==
  ASSUME EngineInv, [EngineStep]_vars
  PROVE  FirstToggle'
<1> USE RingNumbers DEF FirstToggle
<1>1. FirstToggle
  BY DEF EngineInv, SessionInv
<1>2. CASE ClearTransfers
  BY <1>2 DEF ClearTransfers
<1>3. CASE TxnAck \/ TxnStall
  <2>1. pkt.valid /\ base' = base
    BY <1>3, Zenon DEF TxnAck, TxnStall, EngineInv, RingInv, PacketReady
  <2>2. ring_tail' # base'
    BY <1>3, <2>1 DEF TxnAck, TxnStall
  <2> QED
    BY <2>2
<1>4. CASE RunPump
  BY <1>1, <1>4 DEF RunPump
<1>5. CASE PumpPrepare
  BY <1>1, <1>5 DEF PumpPrepare
<1> QED
  BY <1>1, <1>2, <1>3, <1>4, <1>5, PacketWriters, TailWriters, BaseWriters

\* Only bytes of the ring reach the device.
LEMMA NothingSentStep ==
  ASSUME EngineInv, [EngineStep]_vars
  PROVE  NothingSent'
<1> USE DEF NothingSent
<1>1. NothingSent
  BY DEF EngineInv, SessionInv
<1>2. CASE Plug \/ AdvanceDetect
  BY <1>2 DEF Plug, AdvanceDetect, Fresh
<1>3. CASE \E result \in {"OK", "FAIL"} : ControlTaken(result)
  <2>1. PICK result \in {"OK", "FAIL"} : ControlTaken(result)
    BY <1>3
  <2>2. UNCHANGED <<hs, ring_head, base>> /\ dev' = Performed(ctrl.op)
    BY <2>1 DEF ControlTaken
  <2>3. \/ dev'.tog = 0 /\ dev'.got = <<>>
        \/ dev'.tog = dev.tog /\ dev'.got = dev.got
    <3>1. dev \in Devices /\ ctrl.op \in Requests
      BY DEF EngineInv, TypeOK, DataOK, Mailboxes
    <3> QED
      BY <2>2, <3>1, PerformedKinds
  <2> QED
    BY <1>1, <2>2, <2>3
<1>4. CASE TxnAck \/ TxnStall \/ TxnAckLost
  <2>1. pkt.valid /\ UNCHANGED <<ring_head, base>>
    BY <1>4, Zenon DEF TxnAck, TxnStall, TxnAckLost, EngineInv, RingInv, PacketReady
  <2> QED
    BY <2>1, RingNumbers
<1>5. CASE UNCHANGED dev
  <2>1. CASE hs' = "DETECT"
    BY <2>1
  <2>2. CASE hs' # "DETECT" /\ hs = "DETECT"
    BY <2>2, StateWriters, <1>2 DEF AdvanceReset, WarmupLost, WarmupDone, RunLost, EnterDetect
  <2>3. CASE hs # "DETECT"
    <3>1. ~ClearTransfers
      BY <2>3 DEF ClearTransfers, EngineInv, SessionInv, Pc1InState
    <3>2. CASE WritePublish
      <4>1. ring_head' = ring_head + call.chunk /\ base' = base
        BY <3>2, Zenon DEF WritePublish
      <4> QED
        BY <4>1, <1>1, <1>5, <2>3, RingNumbers
    <3> QED
      BY <1>1, <1>5, <2>3, <3>1, <3>2, HeadWriters, BaseWriters
  <2> QED
    BY <2>1, <2>2, <2>3
<1> QED
  BY <1>2, <1>3, <1>4, <1>5, DeviceWriters

\* A device is configured in RUN only.
LEMMA UnconfiguredStep ==
  ASSUME EngineInv, [EngineStep]_vars
  PROVE  Unconfigured'
<1> USE DEF Unconfigured
<1>1. Unconfigured
  BY DEF EngineInv, SessionInv
<1>2. CASE Plug \/ AdvanceDetect
  BY <1>2 DEF Plug, AdvanceDetect, Fresh
<1>3. CASE pc1 \in {"ctl", "txn"} /\ hs' = hs
  BY <1>3 DEF EngineInv, SessionInv, Pc1InState
<1>4. CASE \/ \E result \in {"OK", "FAIL"} : ControlTaken(result)
           \/ TxnAck \/ TxnStall \/ TxnAckLost
  <2>1. pc1 \in {"ctl", "txn"} /\ hs' = hs
    BY <1>4, Zenon DEF ControlTaken, TxnAck, TxnStall, TxnAckLost
  <2> QED
    BY <2>1, <1>3
<1>5. CASE UNCHANGED dev
  BY <1>1, <1>2, <1>5, StateWriters
     DEF AdvanceReset, WarmupLost, WarmupDone, RunLost, EnterDetect
<1> QED
  BY <1>2, <1>4, <1>5, DeviceWriters

\* What the device has after it took the bytes of a packet.
LEMMA Appended ==
  ASSUME NEW s \in Seq(Nat), NEW t \in Seq(Nat)
  PROVE  /\ Len(s \o t) = Len(s) + Len(t)
         /\ \A i \in 1..Len(s \o t) : (s \o t)[i] = IF i <= Len(s) THEN s[i]
                                                   ELSE t[i - Len(s)]
<1>1. /\ Len(s \o t) = Len(s) + Len(t)
      /\ \A i \in 1..(Len(s) + Len(t)) :
           (s \o t)[i] = IF i <= Len(s) THEN s[i] ELSE t[i - Len(s)]
  BY ConcatProperties
<1> QED
  BY <1>1, Zenon

\* The device takes bytes of the packet, which are of this session.
LEMMA NewBytesStep ==
  ASSUME EngineInv, [EngineStep]_vars
  PROVE  NewBytes'
<1> USE DEF NewBytes
<1>1. NewBytes
  BY DEF EngineInv, SessionInv
<1>2. CASE Plug \/ AdvanceDetect
  <2>1. dev'.got = <<>> /\ Len(<<>>) = 0
    BY <1>2 DEF Plug, AdvanceDetect, Fresh
  <2> QED
    BY <2>1
<1>3. CASE hs' = "DETECT"
  BY <1>3
<1>4. ASSUME hs' # "DETECT", ~AdvanceDetect
      PROVE  hs # "DETECT" /\ base' = base
  <2>1. hs # "DETECT"
    BY <1>4, StateWriters
       DEF AdvanceReset, WarmupLost, WarmupDone, RunLost, EnterDetect
  <2>2. ~ClearTransfers
    BY <2>1 DEF ClearTransfers, EngineInv, SessionInv, Pc1InState
  <2> QED
    BY <2>1, <2>2, BaseWriters
<1>5. CASE \E result \in {"OK", "FAIL"} : ControlTaken(result)
  <2>1. dev' = Performed(ctrl.op) /\ hs' = hs
    BY <1>5, Zenon DEF ControlTaken
  <2>2. dev'.got = <<>> \/ dev'.got = dev.got
    BY <2>1, PerformedKinds DEF EngineInv, TypeOK, DataOK, Mailboxes
  <2>3. ~AdvanceDetect
    BY <2>1 DEF AdvanceDetect
  <2> QED
    BY <1>1, <1>3, <1>4, <2>2, <2>3, Len(<<>>) = 0
<1>6. CASE TxnAck \/ TxnAckLost
  <2>1. /\ dev' = Received /\ pkt.valid /\ UNCHANGED <<hs, base>>
    BY <1>6, Zenon DEF TxnAck, TxnAckLost, EngineInv, RingInv, PacketReady
  <2>2. CASE dev.tog # pkt.tog
    BY <1>1, <2>1, <2>2, ReceivedKinds DEF EngineInv, TypeOK, DataOK
  <2>3. CASE dev.tog = pkt.tog
    <3>1. dev'.got = dev.got \o pkt.data
      BY <2>1, <2>3, ReceivedKinds DEF EngineInv, TypeOK, DataOK
    <3>2. pkt.data = Positions(ring_tail, pkt.len)
      BY <2>1, RingNumbers
    <3>3. ASSUME hs # "DETECT", NEW i \in 1..Len(dev'.got)
          PROVE  dev'.got[i] >= base
      <4>1. /\ Positions(ring_tail, pkt.len) \in Seq(Nat)
            /\ Len(Positions(ring_tail, pkt.len)) = pkt.len
            /\ \A j \in 1..pkt.len :
                 Positions(ring_tail, pkt.len)[j] = ring_tail + j - 1
        BY RingNumbers, PositionsSeq
      <4>2. /\ Len(dev'.got) = Len(dev.got) + pkt.len
            /\ dev'.got[i] = IF i <= Len(dev.got) THEN dev.got[i]
                             ELSE pkt.data[i - Len(dev.got)]
        <5> DEFINE s == dev.got
                   t == pkt.data
                   u == dev'.got
        <5>1. /\ s \in Seq(Nat) /\ t \in Seq(Nat) /\ u = s \o t
              /\ Len(t) = pkt.len /\ i \in 1..Len(u)
          BY <3>1, <3>2, <4>1, RingNumbers
        <5> HIDE DEF s, t, u
        <5>2. /\ Len(s \o t) = Len(s) + Len(t)
              /\ \A j \in 1..Len(s \o t) :
                   (s \o t)[j] = IF j <= Len(s) THEN s[j] ELSE t[j - Len(s)]
          BY <5>1, Appended
        <5>3. /\ Len(u) = Len(s) + pkt.len
              /\ u[i] = IF i <= Len(s) THEN s[i] ELSE t[i - Len(s)]
          BY <5>1, <5>2, Zenon
        <5> QED
          BY <5>3 DEF s, t, u
      <4>3. Len(dev.got) \in Nat
        BY RingNumbers, LenProperties
      <4>4. CASE i <= Len(dev.got)
        BY <1>1, <3>3, <4>2, <4>3, <4>4
      <4>5. CASE i > Len(dev.got)
        <5> DEFINE j == i - Len(dev.got)
        <5>1. j \in 1..pkt.len
          BY <4>2, <4>3, <4>5, RingNumbers
        <5>2. dev'.got[i] = ring_tail + j - 1
          BY <3>2, <4>1, <4>2, <4>3, <4>5, <5>1
        <5> QED
          BY <5>1, <5>2, RingNumbers
      <4> QED
        BY <4>3, <4>4, <4>5
    <3> QED
      BY <2>1, <3>3
  <2> QED
    BY <2>2, <2>3
<1>7. CASE TxnStall
  <2>1. dev'.got = dev.got /\ UNCHANGED <<hs, base>>
    BY <1>7 DEF TxnStall, EngineInv, TypeOK, DataOK, Devices
  <2> QED
    BY <1>1, <2>1
<1>8. CASE UNCHANGED dev /\ ~AdvanceDetect
  BY <1>1, <1>3, <1>4, <1>8
<1> QED
  BY <1>2, <1>5, <1>6, <1>7, <1>8, DeviceWriters

\* Core 1 and the cable leave core 0 where it is.
LEMMA EnvironmentLeavesCore0 ==
  ASSUME Core1 \/ Unplug \/ Plug \/ UNCHANGED vars
  PROVE  UNCHANGED core0Vars
  BY Zenon
     DEF Core1, SofLost, ClearTransfers, AdvanceDetect, AdvanceReset, WarmupLost,
         WarmupDone, RunLost, RunControl, RunPump, EnterDetect, ControlTaken,
         ControlFailed, PumpPrepare, PumpResume, PumpIdle, PumpUnflush,
         TxnBlocked, TxnAck, TxnNak, TxnStall, TxnLost, TxnAckLost,
         ProbeSkipped, ProbeAnswered, ProbeMissed, Unplug, Plug, vars

\* From enter_detect core 1 goes on only with clear_transfers.
LEMMA ClearEnds ==
  ASSUME pc1 = "clear", [EngineStep]_vars
  PROVE  pc1' = "clear" \/ ClearTransfers
<1>1. CASE Core1
  BY <1>1
     DEF Core1, SofLost, AdvanceDetect, AdvanceReset, WarmupLost, WarmupDone,
         RunLost, RunControl, RunPump, EnterDetect, ControlTaken, ControlFailed,
         PumpPrepare, PumpResume, PumpIdle, PumpUnflush, TxnBlocked, TxnAck,
         TxnNak, TxnStall, TxnLost, TxnAckLost, ProbeSkipped, ProbeAnswered,
         ProbeMissed
<1>2. CASE Core0 \/ Request \/ Unplug \/ Plug \/ UNCHANGED vars
  <2>1. UNCHANGED pc1
    BY <1>2, Zenon
       DEF Core0, ControlPost, ControlReturn, ControlLate, ControlTimeout,
           WriteCopy, WritePublish, WriteReturn, WriteTimeout, FlushRequest,
           FlushDone, FlushStopped, FlushTimeout, SetBulkOutToggle, DiagSample,
           DiagEnd, Request, ControlCall, WriteCall, FlushCall, SetDevice,
           SetBulkOut, RequestReenum, DiagStart, Unplug, Plug, vars
  <2> QED
    BY <2>1
<1> QED
  BY <1>1, <1>2 DEF EngineStep

\* A session that ends takes the endpoint away from the chunk in progress.
LEMMA LateChunkStep ==
  ASSUME EngineInv, [EngineStep]_vars
  PROVE  LateChunk'
<1> USE DEF LateChunk
<1>1. LateChunk
  BY DEF EngineInv, SessionInv
<1>2. CASE Core1
  <2>1. UNCHANGED pc0
    BY <1>2, Zenon
       DEF Core1, SofLost, ClearTransfers, AdvanceDetect, AdvanceReset,
           WarmupLost, WarmupDone, RunLost, RunControl, RunPump, EnterDetect,
           ControlTaken, ControlFailed, PumpPrepare, PumpResume, PumpIdle,
           PumpUnflush, TxnBlocked, TxnAck, TxnNak, TxnStall, TxnLost,
           TxnAckLost, ProbeSkipped, ProbeAnswered, ProbeMissed
  <2>2. CASE WarmupLost \/ RunLost
    BY <2>2 DEF WarmupLost, RunLost, EnterDetect
  <2>3. CASE UNCHANGED <<hs, bulk_ep>>
    BY <1>1, <2>1, <2>3
  <2>4. CASE AdvanceDetect \/ AdvanceReset \/ WarmupDone
    BY <1>1, <2>1, <2>4 DEF AdvanceDetect, AdvanceReset, WarmupDone
  <2>5. ~SetBulkOut
    BY <2>1 DEF SetBulkOut
  <2> QED
    BY <2>2, <2>3, <2>4, <2>5, StateWriters, EndpointWriters
<1>3. CASE WriteCopy
  BY <1>3 DEF WriteCopy, Running
<1>4. CASE Core0 /\ ~WriteCopy
  <2>1. (pc0' # "publish" /\ UNCHANGED hs) \/ UNCHANGED <<hs, pc0, bulk_ep>>
    BY <1>4
       DEF Core0, ControlPost, ControlReturn, ControlLate, ControlTimeout,
           WritePublish, WriteReturn, WriteTimeout, FlushRequest, FlushDone,
           FlushStopped, FlushTimeout, SetBulkOutToggle, DiagSample, DiagEnd,
           Return
  <2> QED
    BY <1>1, <2>1
<1>5. CASE Request
  <2>1. pc0' # "publish"
    BY <1>5
       DEF Request, ControlCall, WriteCall, FlushCall, SetDevice, SetBulkOut,
           RequestReenum, DiagStart
  <2> QED
    BY <2>1
<1>6. CASE Unplug \/ Plug \/ UNCHANGED vars
  BY <1>1, <1>6 DEF Unplug, Plug, vars
<1> QED
  BY <1>2, <1>3, <1>4, <1>5, <1>6 DEF EngineStep

\* Between two sessions only such a chunk moves the head.
LEMMA StartsEmptyStep ==
  ASSUME EngineInv, [EngineStep]_vars
  PROVE  StartsEmpty'
<1> USE DEF StartsEmpty
<1>1. StartsEmpty
  BY DEF EngineInv, SessionInv
<1>2. CASE ClearTransfers
  BY <1>2 DEF ClearTransfers
<1>3. CASE WritePublish
  <2>1. hs' = hs /\ pc0 = "publish" /\ (stray \/ ~bulk_ep => stray')
    BY <1>3, Zenon DEF WritePublish
  <2> QED
    BY <2>1 DEF EngineInv, SessionInv, LateChunk
<1>4. CASE UNCHANGED <<ring_head, base, stray>>
  <2>1. CASE UNCHANGED hs /\ pc1 = "clear"
    <3>1. pc1' = "clear" \/ ClearTransfers
      BY <2>1, ClearEnds
    <3> QED
      BY <3>1, <1>2
  <2>2. CASE UNCHANGED hs /\ pc1 # "clear"
    BY <1>1, <1>4, <2>2
  <2>3. CASE WarmupLost \/ RunLost
    BY <2>3 DEF WarmupLost, RunLost, EnterDetect
  <2>4. CASE AdvanceDetect \/ AdvanceReset \/ WarmupDone
    BY <1>1, <1>4, <2>4 DEF AdvanceDetect, AdvanceReset, WarmupDone
  <2> QED
    BY <2>1, <2>2, <2>3, <2>4, StateWriters
<1> QED
  BY <1>2, <1>3, <1>4, HeadWriters, BaseWriters, StrayWriters

\* Together they are inductive over the steps of the engine.
LEMMA SessionStep ==
  ASSUME EngineInv, [EngineStep]_vars
  PROVE  EngineInv'
<1>1. TypeOK' /\ RingInv' /\ MailboxTaken'
  BY TypeStep, RingStep, MailboxStep DEF EngineInv
<1>2. SessionInv'
  BY Pc1InStateStep, BaseInRingStep, PacketToggleStep, FirstToggleStep,
     NothingSentStep, UnconfiguredStep, NewBytesStep, LateChunkStep,
     StartsEmptyStep
     DEF EngineInv, SessionInv
<1> QED
  BY <1>1, <1>2 DEF EngineInv

\* They hold when the port starts.
LEMMA SessionInit == Init => EngineInv
<1> SUFFICES ASSUME Init PROVE EngineInv
  OBVIOUS
<1>1. TypeOK /\ RingInv
  BY TypeInit, RingInit
<1>2. MailboxTaken
  BY DEF Init, MailboxTaken
<1>3. /\ hs = "DETECT" /\ pc1 = "top" /\ pc0 = "idle" /\ pkt = NoPkt
      /\ base = 0 /\ ring_tail = 0 /\ ring_head = 0 /\ bulk_toggle = 0
  BY Zenon DEF Init
<1>4. SessionInv
  BY <1>3
     DEF SessionInv, Pc1InState, BaseInRing, PacketToggle, FirstToggle,
         NothingSent, Unconfigured, NewBytes, LateChunk, StartsEmpty,
         NoPkt
<1> QED
  BY <1>1, <1>2, <1>4 DEF EngineInv

-----------------------------------------------------------------------------
(* What the HAL and the display ask of the engine.                         *)

\* The eight calls of an enumeration.
LEMMA EnumCallKinds ==
  ASSUME EnumCall
  PROVE  \/ todo = 1 /\ SetDevice(0)
         \/ todo = 2 /\ ControlCall("in", 0)
         \/ todo = 3 /\ ControlCall("addr", 0)
         \/ todo = 4 /\ SetDevice(1)
         \/ todo = 5 /\ ControlCall("in", 1)
         \/ todo = 6 /\ ControlCall("cfg", 1)
         \/ todo = 7 /\ SetDevice(1)
         \/ todo = 8 /\ SetBulkOut
<1> DEFINE op == EnumCalls[todo][1]
           a  == EnumCalls[todo][2]
<1>1. Len(EnumCalls) = 8
  BY DEF EnumCalls
<1>2. todo \in 1..8
  BY <1>1, Zenon DEF EnumCall
<1>3. (CASE op = "set_device" -> SetDevice(a)
         [] op = "set_bulk_out" -> SetBulkOut
         [] OTHER -> ControlCall(op, a))
  BY Zenon DEF EnumCall
<1>4. /\ op = "set_device" => SetDevice(a)
      /\ op = "set_bulk_out" => SetBulkOut
      /\ op \notin {"set_device", "set_bulk_out"} => ControlCall(op, a)
  <2>1. op = "set_device" => SetDevice(a)
    BY <1>3, Zenon
  <2>2. op = "set_bulk_out" => SetBulkOut
    <3>1. "set_bulk_out" # "set_device"
      OBVIOUS
    <3> QED
      BY <1>3, <3>1, Zenon
  <2>3. op \notin {"set_device", "set_bulk_out"} => ControlCall(op, a)
    BY <1>3, Zenon
  <2> QED
    BY <2>1, <2>2, <2>3
<1>5. /\ todo = 1 => op = "set_device" /\ a = 0
      /\ todo = 2 => op = "in" /\ a = 0
      /\ todo = 3 => op = "addr" /\ a = 0
      /\ todo = 4 => op = "set_device" /\ a = 1
      /\ todo = 5 => op = "in" /\ a = 1
      /\ todo = 6 => op = "cfg" /\ a = 1
      /\ todo = 7 => op = "set_device" /\ a = 1
      /\ todo = 8 => op = "set_bulk_out" /\ a = 1
  BY <1>1 DEF EnumCalls
<1> HIDE DEF op, a
<1>6. todo \in {1, 2, 3, 4, 5, 6, 7, 8}
  BY <1>2
<1> QED
  BY <1>4, <1>5, <1>6

\* No call of the table is reached beyond its end, and the one that a device
\* without the endpoint is left at is SET_CONFIGURATION.
LEMMA EnumCallBounds ==
  ASSUME todo \in Nat
  PROVE  /\ Len(EnumCalls) = 8
         /\ EnumCall => todo \in 1..8 /\ todo' = todo + 1 /\ (todo = 1 \/ call.ok)
         /\ EnumNoEndpoint => todo = 6
<1>1. Len(EnumCalls) = 8
  BY DEF EnumCalls
<1>2. EnumCall => todo \in 1..8 /\ todo' = todo + 1 /\ (todo = 1 \/ call.ok)
  BY <1>1, Zenon DEF EnumCall
<1>3. ASSUME EnumNoEndpoint
      PROVE  todo = 6
  <2>1. todo > 1 /\ todo <= 8 /\ EnumCalls[todo] = <<"cfg", 1>>
    BY <1>1, <1>3, Zenon DEF EnumNoEndpoint
  <2>2. EnumCalls[todo][1] = "cfg"
    BY <2>1
  <2>3. todo \in {2, 3, 4, 5, 7, 8} => EnumCalls[todo][1] # "cfg"
    BY DEF EnumCalls
  <2>4. todo \in {2, 3, 4, 5, 6, 7, 8}
    BY <2>1
  <2> QED
    BY <2>2, <2>3, <2>4
<1> QED
  BY <1>1, <1>2, <1>3


-----------------------------------------------------------------------------
(* Two kinds of steps: those of the environment leave the HAL and the      *)
(* display alone, those of the HAL, the display and the application leave  *)
(* core 1 alone and are taken between two functions of the engine.         *)

\* A step of the environment is one of the engine and leaves the caller alone.
LEMMA EnvironmentSteps ==
  ASSUME Environment
  PROVE  /\ Unplug \/ Plug \/ Core1 \/ Core0
         /\ EngineStep
         /\ UNCHANGED <<hal, attempts, retry_pending, todo, phase, stage,
                        ready, moded, edid_pending>>
  BY Zenon DEF Environment, EnvStep, EngineStep, halVars, dispVars

\* The calls of the engine's functions.
LEMMA RequestSteps ==
  ASSUME Request
  PROVE  /\ pc0 = "idle"
         /\ UNCHANGED <<line, dev, hs, pc1, probe_fails, reset_toggle_req, ctrl,
                        ring, ring_head, ring_tail, flush_req, pkt, bulk_toggle,
                        err_streak, base, stray>>
  BY Zenon
     DEF Request, ControlCall, WriteCall, FlushCall, SetDevice, SetBulkOut,
         RequestReenum, DiagStart

Caller == DispPoll \/ App \/ UNCHANGED stackVars

\* A step of the HAL calls a function of the engine or changes nothing of it.
LEMMA PollHalSteps ==
  ASSUME HalPoll
  PROVE  Request \/ UNCHANGED vars
<1>1. \A op \in Requests, a \in Addresses : ControlCall(op, a) => Request
  BY Zenon DEF Request
<1>2. \A a \in Addresses : SetDevice(a) => Request
  BY Zenon DEF Request
<1>3. "in" \in Requests /\ "addr" \in Requests /\ "cfg" \in Requests
      /\ 0 \in Addresses /\ 1 \in Addresses
  BY DEF Requests, Addresses
<1>4. CASE EnumCall
  <2>1. \/ SetDevice(0) \/ SetDevice(1) \/ SetBulkOut
        \/ ControlCall("in", 0) \/ ControlCall("addr", 0)
        \/ ControlCall("in", 1) \/ ControlCall("cfg", 1)
    BY <1>4, EnumCallKinds, Zenon
  <2>2. SetBulkOut => Request
    BY Zenon DEF Request
  <2> QED
    BY <2>1, <2>2, <1>1, <1>2, <1>3, Zenon
<1>5. CASE EnumNoEndpoint
  BY <1>1, <1>3, <1>5, Zenon DEF EnumNoEndpoint
<1>6. CASE PollRetry \/ PollPeriodic
  BY <1>6, Zenon DEF PollRetry, PollPeriodic, Request
<1>7. CASE \/ PollWaiting \/ EnumStart \/ EnumDone \/ EnumFailed \/ PollGone
           \/ PollQuiet
  BY <1>7, Zenon
     DEF PollWaiting, EnumStart, EnumDone, EnumFailed, PollGone, PollQuiet, allVars
<1> QED
  BY <1>4, <1>5, <1>6, <1>7, Zenon DEF HalPoll

\* So does a step of the display or of the application.
LEMMA CallerRequests ==
  ASSUME TypeOK, Caller
  PROVE  Request \/ UNCHANGED vars
<1>1. addr \in Addresses /\ "in" \in Requests
  BY DEF TypeOK, DataOK, Requests
<1>2. \A op \in Requests, a \in Addresses : ControlCall(op, a) => Request
  BY Zenon DEF Request
<1>3. \A len \in Nat : WriteCall(len) => Request
  BY Zenon DEF Request
<1>4. CASE SetMode
  <2>1. WriteCall(IF ring_head < MaxBytes THEN 1 ELSE 0)
    BY <1>4, Zenon DEF SetMode
  <2>2. (IF ring_head < MaxBytes THEN 1 ELSE 0) \in Nat
    OBVIOUS
  <2> QED
    BY <2>1, <2>2, <1>3, Zenon
<1>5. CASE PollHal
  BY <1>5, PollHalSteps, Zenon DEF PollHal
<1>6. CASE SwitchAttach \/ SwitchEdid
  BY <1>6, <1>1, <1>2, Zenon DEF SwitchAttach, SwitchEdid
<1>7. CASE SwitchPeriodic \/ AppReenum
  BY <1>7, Zenon DEF SwitchPeriodic, AppReenum, HalRequestReenum, Request
<1>8. CASE \/ PollBegin \/ SwitchGone \/ SwitchQuiet \/ SwitchUnsupported
           \/ SwitchAttached \/ ModeSet \/ ModeFailed \/ UNCHANGED stackVars
  BY <1>8, Zenon
     DEF PollBegin, SwitchGone, SwitchQuiet, SwitchUnsupported, SwitchAttached,
         ModeSet, ModeFailed, stackVars, allVars
<1>9. CASE EdidMissing \/ EdidRead \/ AppSetMode
  BY <1>9, <1>4, Zenon DEF EdidMissing, EdidRead, AppSetMode
<1>10. CASE ModeWritten \/ AppFlush \/ AppDiag
  BY <1>10, Zenon DEF ModeWritten, AppFlush, AppDiag, Request
<1>11. CASE AppUpdate
  <2>1. PICK len \in 1..MaxWrite : WriteCall(len)
    BY <1>11, Zenon DEF AppUpdate
  <2>2. len \in Nat
    BY ConstantAssumption
  <2> QED
    BY <2>1, <2>2, <1>3
<1> QED
  BY <1>5, <1>6, <1>7, <1>8, <1>9, <1>10, <1>11, Zenon DEF Caller, DispPoll, App

\* What a caller never writes: it calls, and core 0 goes on from there.
LEMMA CallerSteps ==
  ASSUME TypeOK, Caller
  PROVE  /\ UNCHANGED <<line, dev, hs, pc1, probe_fails, reset_toggle_req, ctrl,
                        ring, ring_head, ring_tail, flush_req, pkt, bulk_toggle,
                        err_streak, base, stray>>
         /\ pc0 = "idle" \/ UNCHANGED vars
<1>1. CASE Request
  BY <1>1, RequestSteps
<1>2. CASE UNCHANGED vars
  BY <1>2 DEF vars
<1> QED
  BY <1>1, <1>2, CallerRequests

\* Every step of the stack is one of the two kinds, and one of the engine or
\* none of it: what holds of the engine with any caller holds of it here.
LEMMA StackIsEngine ==
  ASSUME TypeOK, [DispNext]_stackVars
  PROVE  [EngineStep]_vars /\ (Environment \/ Caller)
<1>1. Environment \/ Caller
  BY Zenon DEF DispNext, Caller
<1>2. [EngineStep]_vars
  BY <1>1, EnvironmentSteps, CallerRequests, Zenon DEF EngineStep
<1> QED
  BY <1>1, <1>2


-----------------------------------------------------------------------------
(* The engine under this caller.                                           *)

\* The engine's part of the initial state.
LEMMA StackInit == DispInit => Init
  BY Zenon DEF DispInit, HalInit

\* The engine keeps its invariant under the HAL and the display.
LEMMA EngineInvariant == DispSpec => []EngineInv
<1>1. DispInit => EngineInv
  BY StackInit, SessionInit
<1>2. EngineInv /\ [DispNext]_stackVars => EngineInv'
  BY StackIsEngine, SessionStep DEF EngineInv
<1> QED
  BY <1>1, <1>2, PTL DEF DispSpec

\* The bulk ring is intact under the HAL and the display as well, which call
\* the engine with no byte to write and re-enumerate on their own account.
THEOREM StackRingCorrect == DispSpec => [](RingIntact /\ PacketIntact)
<1>1. EngineInv => RingIntact /\ PacketIntact
  BY DEF EngineInv, RingInv
<1> QED
  BY <1>1, EngineInvariant, PTL

\* No byte that bulk_write accepted before a disconnection reaches the device
\* after it, however often the device comes and goes and whatever is in
\* progress on core 0 when it does.
THEOREM NoOldBytesReach == DispSpec => []NoOldBytes
<1>1. EngineInv => NoOldBytes
  BY DEF EngineInv, SessionInv, NewBytes, NoOldBytes, Running
<1> QED
  BY <1>1, EngineInvariant, PTL

\* The display, the HAL and the engine together implement the bounded queue.
THEOREM StackImplementsQueue == DispSpec => QueueSpec
<1>1. DispInit => Queue!Init /\ PacketEmpty
  BY StackInit, QueueInit
<1>2. EngineInv /\ PacketEmpty /\ [DispNext]_stackVars => PacketEmpty'
  BY StackIsEngine, PacketEmptyStep DEF EngineInv
<1>3. EngineInv /\ PacketEmpty => QueueInv
  BY DEF EngineInv, QueueInv
<1>4. QueueInv /\ QueueInv' /\ [DispNext]_stackVars => [Queue!Next]_(Queue!vars)
  BY StackIsEngine, QueueStep DEF QueueInv
<1> QED
  BY <1>1, <1>2, <1>3, <1>4, EngineInvariant, PTL DEF DispSpec, QueueSpec, Queue!Spec

-----------------------------------------------------------------------------
(* Type correctness of the HAL and the display.                            *)

\* The part of DispTypeOK that is not the engine's.
CallerTypes ==
  /\ hal \in {"WAIT_DEVICE", "RETRY_WAIT", "ATTACHED", "NO_EP"}
  /\ attempts \in 0..Wrap-1
  /\ retry_pending \in BOOLEAN
  /\ todo \in 0..9
  /\ phase \in {"app", "hal", "disp", "attach", "edid", "write", "flush"}
  /\ stage \in {"WAIT_DEVICE", "MODE_SETUP", "READY", "FAILED"}
  /\ ready \in BOOLEAN /\ moded \in BOOLEAN /\ edid_pending \in BOOLEAN
  /\ inited \in BOOLEAN /\ forced \in BOOLEAN

\* DispTypeOK in its two parts, the engine's and the caller's.
LEMMA DispTypeParts == DispTypeOK <=> TypeOK /\ CallerTypes
<1>1. Len(EnumCalls) + 1 = 9
  BY DEF EnumCalls
<1> QED
  BY <1>1 DEF DispTypeOK, HalTypeOK, CallerTypes

\* The HAL's variables keep their types in its poll.
LEMMA HalPollTypes ==
  ASSUME CallerTypes, HalPoll
  PROVE  /\ hal' \in {"WAIT_DEVICE", "RETRY_WAIT", "ATTACHED", "NO_EP"}
         /\ attempts' \in 0..Wrap-1
         /\ retry_pending' \in BOOLEAN
         /\ todo' \in 0..9
<1> USE HalAssumption DEF CallerTypes
<1>1. CASE EnumCall
  <2>1. UNCHANGED <<hal, attempts, retry_pending>>
    BY <1>1, Zenon DEF EnumCall
  <2> QED
    BY <1>1, <2>1, EnumCallBounds
<1>2. CASE EnumNoEndpoint
  BY <1>2 DEF EnumNoEndpoint
<1>3. CASE PollRetry \/ PollPeriodic
  <2>1. /\ hal' = "WAIT_DEVICE" /\ retry_pending' = TRUE /\ todo' = todo
        /\ attempts' = attempts \/ attempts' = 0
    BY <1>3, Zenon DEF PollRetry, PollPeriodic
  <2> QED
    BY <2>1
<1>4. CASE EnumStart \/ EnumDone
  <2>1. /\ hal' = hal \/ hal' = "ATTACHED"
        /\ retry_pending' = FALSE \/ retry_pending' = retry_pending
        /\ todo' = 1 \/ todo' = 0
        /\ attempts' = attempts \/ attempts' = 0
    BY <1>4, Zenon DEF EnumStart, EnumDone
  <2>2. retry_pending' \in BOOLEAN
    BY <2>1, Zenon
  <2>3. attempts' \in 0..Wrap-1 /\ todo' \in 0..9
    BY <2>1
  <2> QED
    BY <2>1, <2>2, <2>3, Zenon
<1>5. CASE EnumFailed
  <2>1. attempts' \in 0..Wrap-1
    <3>1. attempts' = (attempts + 1) % Wrap
      BY <1>5, Zenon DEF EnumFailed
    <3> QED
      BY <3>1
  <2>2. hal' \in {"RETRY_WAIT", "NO_EP"} /\ todo' = 0 /\ retry_pending' = retry_pending
    BY <1>5, Zenon DEF EnumFailed
  <2> QED
    BY <2>1, <2>2
<1>6. CASE PollWaiting \/ PollGone
  BY <1>6 DEF PollWaiting, PollGone
<1>7. CASE PollQuiet
  <2>1. UNCHANGED <<hal, attempts, retry_pending, todo>>
    BY <1>7, Zenon DEF PollQuiet, allVars, halVars
  <2> QED
    BY <2>1
<1> QED
  BY <1>1, <1>2, <1>3, <1>4, <1>5, <1>6, <1>7, Zenon DEF HalPoll

\* No step breaks a type of the caller's.
LEMMA CallerTypesStep ==
  ASSUME CallerTypes, TypeOK, [DispNext]_stackVars
  PROVE  CallerTypes'
<1> USE DEF CallerTypes
<1>1. CASE Environment
  <2>1. UNCHANGED <<hal, attempts, retry_pending, todo, phase, stage, ready,
                    moded, edid_pending>>
    BY <1>1, EnvironmentSteps
  <2>2. inited' \in BOOLEAN /\ forced' \in BOOLEAN
    BY <1>1 DEF Environment, EnvStep
  <2> QED
    BY <2>1, <2>2, Zenon
<1>2. CASE PollHal
  <2>1. UNCHANGED <<stage, ready, moded, edid_pending, inited, forced>>
    BY <1>2, Zenon DEF PollHal, history
  <2>2. phase' \in {"hal", "disp"}
    BY <1>2, Zenon DEF PollHal
  <2> QED
    BY <1>2, <2>1, <2>2, HalPollTypes DEF PollHal
<1>4. CASE PollBegin \/ SwitchGone \/ SwitchQuiet \/ SwitchAttach
  BY <1>4 DEF PollBegin, SwitchGone, SwitchQuiet, SwitchAttach, PollEnd,
              ResetDeviceState, allVars, halVars, history
<1>5. CASE SwitchUnsupported \/ SwitchAttached \/ SwitchEdid
  BY <1>5, DispAssumption
     DEF SwitchUnsupported, SwitchAttached, SwitchEdid, PollEnd, allVars, halVars,
         history
<1>6. CASE SwitchPeriodic
  <2>1. UNCHANGED <<attempts, todo>> /\ hal' = "WAIT_DEVICE" /\ retry_pending' = TRUE
    BY <1>6, Zenon DEF SwitchPeriodic, HalRequestReenum
  <2> QED
    BY <1>6, <2>1 DEF SwitchPeriodic, ResetDeviceState, PollEnd
<1>7. CASE EdidMissing \/ EdidRead
  BY <1>7 DEF EdidMissing, EdidRead, SetMode, PollEnd, halVars, history
<1>8. CASE ModeWritten \/ ModeSet \/ ModeFailed
  <2>1. bulk_ep \in BOOLEAN
    BY DEF TypeOK, StateOK
  <2> QED
    BY <1>8, <2>1
       DEF ModeWritten, ModeSet, ModeFailed, PollEnd, allVars, halVars, history
<1>9. CASE AppUpdate \/ AppFlush \/ AppSetMode \/ AppDiag
  BY <1>9 DEF AppUpdate, AppFlush, AppSetMode, AppDiag, SetMode, halVars,
              dispVars, history
<1>10. CASE AppReenum
  <2>1. UNCHANGED <<attempts, todo>> /\ hal' = "WAIT_DEVICE" /\ retry_pending' = TRUE
    BY <1>10, Zenon DEF AppReenum, HalRequestReenum
  <2> QED
    BY <1>10, <2>1 DEF AppReenum, dispVars, history
<1>11. CASE UNCHANGED stackVars
  BY <1>11 DEF stackVars, allVars, halVars, dispVars, history
<1> QED
  BY <1>1, <1>2, <1>4, <1>5, <1>6, <1>7, <1>8, <1>9, <1>10, <1>11, Zenon
     DEF DispNext, DispPoll, App


\* They hold when the port starts.
LEMMA CallerTypesInit == DispInit => CallerTypes
<1>1. ASSUME DispInit
      PROVE  /\ hal = "WAIT_DEVICE" /\ attempts = 0 /\ retry_pending = FALSE
             /\ todo = 0 /\ phase = "app" /\ stage = "WAIT_DEVICE"
             /\ ready = FALSE /\ moded = FALSE /\ edid_pending = FALSE
             /\ inited = FALSE /\ forced = FALSE
  BY <1>1, Zenon DEF DispInit, HalInit
<1> QED
  BY <1>1, HalAssumption DEF CallerTypes

-----------------------------------------------------------------------------
(* Where core 0 can be: how the function of the engine it is in, the call  *)
(* of the enumeration it makes and the stage of the display fit together.  *)

\* The stages in which the display writes.
Up == {"MODE_SETUP", "READY"}

DisplayShape ==
  /\ ready <=> stage = "READY"
  /\ moded => stage = "READY"
  /\ phase = "attach" => stage = "WAIT_DEVICE"
  /\ phase \in {"edid", "write", "flush"} => stage \in Up
  /\ pc0 \in {"write", "publish"} => stage \in Up /\ phase \in {"app", "write"}

\* An enumeration runs in the HAL's poll and makes control calls only, its
\* last but one call is SET_CONFIGURATION, and the protocol's control calls
\* are made on an attached device.
EnumShape ==
  /\ todo > 0 => /\ phase = "hal" /\ hal = "WAIT_DEVICE"
                 /\ pc0 \in {"idle", "ctlWait", "ctlPoll", "toggle"}
  /\ pc0 = "toggle" => todo = 9
  /\ phase \in {"attach", "edid"} => hal = "ATTACHED"
  /\ pc0 = "ctlWait" =>
       /\ call.op = "cfg" => hal # "ATTACHED" /\ todo \in {0, 7}
       /\ todo = 3 => call.op = "in"

\* Inside a function core 0 goes on in that function or returns from it.
LEMMA FunctionSteps ==
  ASSUME Environment
  PROVE  /\ pc0 = "idle" => UNCHANGED <<pc0, call>>
         /\ pc0' \in {"write", "publish"} => pc0 \in {"write", "publish"}
         /\ pc0' \in {"ctlWait", "toggle"} => UNCHANGED <<pc0, call>>
         /\ pc0 \in {"idle", "ctlWait", "ctlPoll", "toggle"} =>
              pc0' \in {"idle", "ctlWait", "ctlPoll", "toggle"}
         /\ pc0 \in {"idle", "diagWait", "diagSample"} =>
              pc0' \in {"idle", "diagWait", "diagSample"}
<1>1. Unplug \/ Plug \/ Core1 \/ Core0
  BY EnvironmentSteps
<1>2. CASE Core0
  BY <1>2
     DEF Core0, ControlPost, ControlReturn, ControlLate, ControlTimeout,
         WriteCopy, WritePublish, WriteReturn, WriteTimeout, FlushRequest,
         FlushDone, FlushStopped, FlushTimeout, SetBulkOutToggle, DiagSample,
         DiagEnd, Return
<1>3. CASE Unplug \/ Plug \/ Core1
  BY <1>3, EnvironmentLeavesCore0
<1> QED
  BY <1>1, <1>2, <1>3

\* What the HAL's poll does to the call of the enumeration.
LEMMA HalPollMoves ==
  ASSUME HalPoll, todo \in Nat
  PROVE  /\ pc0 = "idle"
         /\ pc0' \in {"idle", "ctlWait", "toggle"}
         /\ \/ UNCHANGED <<hal, todo>> /\ todo = 0 /\ UNCHANGED pc0
            \/ /\ EnumStart /\ UNCHANGED <<pc0, call, reenum_req, hal>>
               /\ todo = 0 /\ todo' = 1 /\ hal = "WAIT_DEVICE" /\ Running
            \/ /\ EnumCall /\ UNCHANGED <<reenum_req, hal>>
               /\ todo \in 1..8 /\ todo' = todo + 1 /\ (todo = 1 \/ call.ok)
               /\ pc0' = "toggle" => todo = 8
               /\ pc0' = "ctlWait" =>
                    /\ todo \in {2, 3, 5, 6}
                    /\ call'.op = "cfg" => todo = 6
                    /\ todo = 2 => call'.op = "in"
               /\ todo = 2 /\ Running => pc0' = "ctlWait"
            \/ /\ EnumDone /\ UNCHANGED <<pc0, call, reenum_req>>
               /\ todo = 9 \/ todo > 9
               /\ call.ok /\ todo' = 0 /\ hal' = "ATTACHED"
            \/ /\ EnumNoEndpoint /\ UNCHANGED reenum_req
               /\ todo = 6 /\ todo' = 0 /\ hal' = "NO_EP" /\ pc0' # "toggle"
            \/ /\ EnumFailed /\ UNCHANGED <<pc0, call, reenum_req>>
               /\ todo > 1 /\ todo' = 0 /\ ~call.ok
               /\ hal' \in {"RETRY_WAIT", "NO_EP"}
            \/ /\ PollGone /\ UNCHANGED <<pc0, call, reenum_req>>
               /\ ~Running /\ todo = 0 /\ todo' = 0 /\ hal' = "WAIT_DEVICE"
            \/ /\ PollRetry \/ PollPeriodic
               /\ Running /\ reenum_req' = TRUE /\ pc0' = pc0
               /\ hal \in {"RETRY_WAIT", "NO_EP"}
               /\ todo = 0 /\ todo' = 0 /\ hal' = "WAIT_DEVICE"
<1> USE DEF Idle
<1>1. CASE EnumCall
  <2>1. /\ todo \in 1..8 /\ todo' = todo + 1 /\ (todo = 1 \/ call.ok)
        /\ pc0 = "idle" /\ hal' = hal
    BY <1>1, EnumCallBounds, Zenon DEF EnumCall
  <2>2. /\ pc0' \in {"idle", "ctlWait", "toggle"} /\ reenum_req' = reenum_req
        /\ pc0' = "toggle" => todo = 8
        /\ pc0' = "ctlWait" => /\ todo \in {2, 3, 5, 6}
                               /\ call'.op = "cfg" => todo = 6
                               /\ todo = 2 => call'.op = "in"
        /\ todo = 2 /\ Running => pc0' = "ctlWait"
    <3>1. \A a \in {0, 1} :
            SetDevice(a) => pc0' = "idle" /\ reenum_req' = reenum_req
      BY <2>1, Zenon DEF SetDevice
    <3>2. SetBulkOut => pc0' = "toggle" /\ reenum_req' = reenum_req
      BY Zenon DEF SetBulkOut
    <3>3. \A op \in {"in", "addr", "cfg"}, a \in {0, 1} :
            ControlCall(op, a) =>
              /\ pc0' \in {"idle", "ctlWait"} /\ reenum_req' = reenum_req
              /\ pc0' = "ctlWait" => call'.op = op
              /\ Running => pc0' = "ctlWait"
      <4>1. ASSUME NEW op \in {"in", "addr", "cfg"}, NEW a \in {0, 1},
                   ControlCall(op, a)
            PROVE  /\ reenum_req' = reenum_req
                   /\ \/ pc0' = "ctlWait" /\ call' = Called(op, a, 0)
                      \/ pc0' = "idle"
                   /\ Running => pc0' = "ctlWait"
        BY <4>1, Zenon DEF ControlCall
      <4>2. \A op, a : Called(op, a, 0).op = op
        BY DEF Called
      <4> QED
        BY <4>1, <4>2
    <3>4. CASE \/ todo = 1 /\ SetDevice(0)
               \/ todo = 4 /\ SetDevice(1)
               \/ todo = 7 /\ SetDevice(1)
      BY <3>1, <3>4
    <3>5. CASE todo = 8 /\ SetBulkOut
      BY <3>2, <3>5
    <3>6. CASE \/ todo = 2 /\ ControlCall("in", 0)
               \/ todo = 3 /\ ControlCall("addr", 0)
               \/ todo = 5 /\ ControlCall("in", 1)
      BY <3>3, <3>6
    <3>7. CASE todo = 6 /\ ControlCall("cfg", 1)
      BY <3>3, <3>7
    <3> QED
      BY <1>1, <3>4, <3>5, <3>6, <3>7, EnumCallKinds, Zenon
  <2> QED
    BY <1>1, <2>1, <2>2
<1>2. CASE EnumNoEndpoint
  <2>1. todo = 6 /\ todo' = 0 /\ hal' = "NO_EP" /\ ControlCall("cfg", 1)
    BY <1>2, EnumCallBounds, Zenon DEF EnumNoEndpoint
  <2>2. pc0 = "idle" /\ pc0' \in {"idle", "ctlWait"} /\ reenum_req' = reenum_req
    BY <2>1 DEF ControlCall
  <2> QED
    BY <1>2, <2>1, <2>2
<1>3. CASE PollRetry \/ PollPeriodic
  BY <1>3 DEF PollRetry, PollPeriodic, RequestReenum
<1>4. CASE EnumStart \/ EnumDone \/ EnumFailed
  <2>1. UNCHANGED <<pc0, call, reenum_req>>
    BY <1>4, Zenon DEF EnumStart, EnumDone, EnumFailed, vars
  <2>2. CASE EnumStart
    BY <2>1, <2>2 DEF EnumStart
  <2>3. CASE EnumDone
    <3>1. Len(EnumCalls) = 8
      BY DEF EnumCalls
    <3> QED
      BY <2>1, <2>3, <3>1 DEF EnumDone
  <2>4. CASE EnumFailed
    <3>1. pc0 = "idle" /\ todo > 1 /\ ~call.ok /\ todo' = 0
      BY <2>4, Zenon DEF EnumFailed
    <3>2. hal' \in {"RETRY_WAIT", "NO_EP"}
      BY <2>4, Zenon DEF EnumFailed
    <3> QED
      BY <2>1, <2>4, <3>1, <3>2
  <2> QED
    BY <1>4, <2>2, <2>3, <2>4
<1>5. CASE PollWaiting \/ PollGone \/ PollQuiet
  <2>1. UNCHANGED <<pc0, call, reenum_req, todo>>
    BY <1>5, Zenon DEF PollWaiting, PollGone, PollQuiet, vars, allVars, halVars
  <2>2. CASE PollGone
    BY <2>1, <2>2 DEF PollGone
  <2>3. CASE PollWaiting \/ PollQuiet
    <3>1. hal' = hal /\ pc0 = "idle" /\ todo = 0
      BY <2>3, Zenon DEF PollWaiting, PollQuiet, allVars, halVars
    <3> QED
      BY <2>1, <3>1
  <2> QED
    BY <1>5, <2>2, <2>3
<1> QED
  BY <1>1, <1>2, <1>3, <1>4, <1>5, Zenon DEF HalPoll


\* The stage of the display agrees with the function core 0 is in.
LEMMA DisplayShapeStep ==
  ASSUME DispTypeOK, DisplayShape, EnumShape, [DispNext]_stackVars
  PROVE  DisplayShape'
<1> USE DEF DisplayShape, Up
<1>0. TypeOK /\ CallerTypes /\ (Environment \/ Caller)
  BY DispTypeParts, StackIsEngine
<1>1. CASE Environment
  BY <1>1, EnvironmentSteps, FunctionSteps
<1>2. CASE PollHal
  <2>1. todo \in Nat /\ HalPoll
    BY <1>0, <1>2 DEF CallerTypes, PollHal
  <2>2. UNCHANGED <<stage, ready, moded>> /\ phase' \in {"hal", "disp"}
    BY <1>2, Zenon DEF PollHal
  <2>3. pc0' \notin {"write", "publish"}
    BY <2>1, HalPollMoves
  <2> QED
    BY <2>2, <2>3
<1>3. CASE PollBegin \/ SwitchGone \/ SwitchQuiet \/ UNCHANGED stackVars
  <2>1. UNCHANGED pc0
    BY <1>3, Zenon DEF PollBegin, SwitchGone, SwitchQuiet, stackVars, allVars, vars
  <2> QED
    BY <1>3, <2>1
       DEF PollBegin, SwitchGone, SwitchQuiet, PollEnd, ResetDeviceState, AtSwitch,
           Idle, stackVars, dispVars
<1>4. CASE SwitchUnsupported \/ SwitchAttached
  <2>1. UNCHANGED pc0 /\ pc0 = "idle"
    BY <1>4, Zenon
       DEF SwitchUnsupported, SwitchAttached, AtSwitch, Idle, allVars, vars
  <2> QED
    BY <1>4, <2>1, DispAssumption DEF SwitchUnsupported, SwitchAttached, PollEnd
<1>5. CASE SwitchAttach \/ SwitchEdid
  <2>1. pc0' \in {"idle", "ctlWait"}
    BY <1>5, Zenon DEF SwitchAttach, SwitchEdid, ControlCall
  <2> QED
    BY <1>5, <2>1 DEF SwitchAttach, SwitchEdid
<1>6. CASE SwitchPeriodic
  <2>1. pc0' = "idle"
    BY <1>6, Zenon DEF SwitchPeriodic, HalRequestReenum, RequestReenum
  <2> QED
    BY <1>6, <2>1 DEF SwitchPeriodic, ResetDeviceState, PollEnd
<1>7. CASE EdidMissing \/ EdidRead
  <2>1. /\ phase = "edid" /\ UNCHANGED <<stage, ready, moded>>
        /\ phase' \in {"write", "app"}
    BY <1>7, Zenon DEF EdidMissing, EdidRead, SetMode, PollEnd
  <2> QED
    BY <2>1
<1>8. CASE ModeWritten
  <2>1. pc0' \in {"idle", "flush"}
    BY <1>8, Zenon DEF ModeWritten, FlushCall
  <2> QED
    BY <1>8, <2>1 DEF ModeWritten
<1>9. CASE ModeSet \/ ModeFailed
  <2>1. UNCHANGED pc0 /\ pc0 = "idle"
    BY <1>9, Zenon DEF ModeSet, ModeFailed, Idle, allVars, vars
  <2> QED
    BY <1>9, <2>1 DEF ModeSet, ModeFailed, PollEnd
<1>10. CASE AppUpdate \/ AppFlush \/ AppSetMode \/ AppDiag
  <2>1. UNCHANGED <<stage, ready, moded>>
    BY <1>10, Zenon DEF AppUpdate, AppFlush, AppSetMode, AppDiag, dispVars
  <2>2. \/ ready /\ phase = "app" /\ UNCHANGED phase
        \/ stage = "READY" /\ phase' = "write"
        \/ UNCHANGED phase /\ pc0' \in {"idle", "flush", "diagWait"}
    BY <1>10, Zenon
       DEF AppUpdate, AppFlush, AppSetMode, AppDiag, SetMode, FlushCall, DiagStart,
           dispVars
  <2> QED
    BY <2>1, <2>2
<1>11. CASE AppReenum
  <2>1. pc0' = "idle" /\ UNCHANGED <<stage, ready, moded, phase>>
    BY <1>11, Zenon DEF AppReenum, HalRequestReenum, RequestReenum, dispVars
  <2> QED
    BY <2>1
<1> QED
  BY <1>0, <1>1, <1>2, <1>3, <1>4, <1>5, <1>6, <1>7, <1>8, <1>9, <1>10, <1>11, Zenon
     DEF Caller, DispPoll, App

\* Who changes the HAL's state and the progress of an enumeration.
LEMMA HalWriters ==
  ASSUME Caller
  PROVE  \/ PollHal
         \/ SwitchPeriodic \/ AppReenum
         \/ UNCHANGED <<hal, todo>>
  BY Zenon
     DEF Caller, DispPoll, App, PollBegin, SwitchGone, SwitchQuiet, SwitchAttach,
         SwitchUnsupported, SwitchAttached, SwitchEdid, EdidMissing, EdidRead,
         ModeWritten, ModeSet, ModeFailed, AppUpdate, AppFlush, AppSetMode, AppDiag,
         stackVars, allVars, halVars

\* Where the display goes from the phases it is in.
LEMMA PhaseMoves ==
  ASSUME Caller
  PROVE  \/ UNCHANGED phase
         \/ PollHal
         \/ phase = "app" /\ phase' \in {"hal", "write"}
         \/ phase \in {"disp", "attach", "edid", "write", "flush"} /\ phase' = "app"
         \/ SwitchAttach \/ SwitchEdid
         \/ phase = "edid" /\ phase' = "write"
         \/ phase = "write" /\ phase' = "flush"
<1>1. CASE \/ PollBegin \/ PollHal \/ SwitchAttach \/ SwitchEdid \/ App
           \/ UNCHANGED stackVars
  BY <1>1, Zenon
     DEF PollBegin, App, AppUpdate, AppFlush, AppSetMode, AppReenum, AppDiag, SetMode,
         stackVars, dispVars
<1>2. CASE \/ SwitchGone \/ SwitchQuiet \/ SwitchUnsupported \/ SwitchAttached
           \/ SwitchPeriodic
  BY <1>2, Zenon
     DEF SwitchGone, SwitchQuiet, SwitchUnsupported, SwitchAttached, SwitchPeriodic,
         PollEnd, AtSwitch
<1>3. CASE EdidMissing \/ EdidRead \/ ModeWritten \/ ModeSet \/ ModeFailed
  BY <1>3, Zenon
     DEF EdidMissing, EdidRead, ModeWritten, ModeSet, ModeFailed, SetMode, PollEnd
<1> QED
  BY <1>1, <1>2, <1>3, Zenon DEF Caller, DispPoll

\* While an enumeration is in progress only the HAL's poll takes a step.
LEMMA EnumAlone ==
  ASSUME Caller, ~PollHal, todo > 0 => phase = "hal", todo > 0
  PROVE  UNCHANGED vars /\ UNCHANGED phase /\ UNCHANGED <<hal, todo, stage>>
  BY Zenon
     DEF Caller, DispPoll, App, PollBegin, SwitchGone, SwitchQuiet, SwitchAttach,
         SwitchUnsupported, SwitchAttached, SwitchEdid, SwitchPeriodic,
         EdidMissing, EdidRead, ModeWritten, ModeSet, ModeFailed, AppUpdate,
         AppFlush, AppSetMode, AppReenum, AppDiag, HalRequestReenum, AtSwitch, Idle,
         stackVars, allVars, halVars, dispVars

\* The control calls of the display are reads on an attached device.
LEMMA CallerCalls ==
  ASSUME Caller, ~PollHal
  PROVE  \/ UNCHANGED <<pc0, call>>
         \/ pc0' \notin {"ctlWait", "ctlPoll", "toggle"}
         \/ /\ SwitchAttach \/ SwitchEdid
            /\ Attached /\ todo = 0 /\ UNCHANGED <<hal, todo>>
            /\ pc0' = "ctlWait" /\ call' = Called("in", addr, 0)
<1>1. CASE SwitchAttach \/ SwitchEdid
  <2>1. Attached /\ ControlCall("in", addr) /\ todo = 0 /\ UNCHANGED <<hal, todo>>
    BY <1>1, Zenon DEF SwitchAttach, SwitchEdid, AtSwitch, Idle, halVars
  <2> QED
    BY <1>1, <2>1, Zenon DEF ControlCall, Attached
<1>2. CASE ~SwitchAttach /\ ~SwitchEdid
  <2>1. CASE (\E len \in Nat : WriteCall(len)) \/ FlushCall
    BY <2>1 DEF WriteCall, FlushCall
  <2>2. CASE DiagStart \/ RequestReenum
    BY <2>2 DEF DiagStart, RequestReenum
  <2>3. CASE UNCHANGED vars
    BY <2>3, Zenon DEF vars
  <2>4. CASE SetMode \/ AppUpdate
    BY <2>4, Zenon DEF SetMode, AppUpdate, WriteCall
  <2> QED
    BY <1>2, <2>1, <2>2, <2>3, <2>4, Zenon
       DEF Caller, DispPoll, App, PollBegin, SwitchGone, SwitchQuiet,
           SwitchUnsupported, SwitchAttached, SwitchPeriodic, HalRequestReenum,
           EdidMissing, EdidRead, ModeWritten, ModeSet, ModeFailed, AppFlush,
           AppSetMode, AppReenum, AppDiag, stackVars, allVars
<1> QED
  BY <1>1, <1>2

\* The enumeration agrees with the function core 0 is in.
LEMMA EnumShapeStep ==
  ASSUME DispTypeOK, EnumShape, [DispNext]_stackVars
  PROVE  EnumShape'
<1> USE DEF EnumShape
<1>0. TypeOK /\ CallerTypes /\ (Environment \/ Caller) /\ todo \in Nat
  BY DispTypeParts, StackIsEngine DEF CallerTypes
<1>1. CASE Environment
  BY <1>1, EnvironmentSteps, FunctionSteps
<1>2. CASE PollHal
  <2>1. HalPoll /\ phase = "hal" /\ phase' = IF todo' = 0 THEN "disp" ELSE "hal"
    BY <1>2, Zenon DEF PollHal
  <2> HIDE DEF EnumShape
  <2>2. todo > 0 => hal = "WAIT_DEVICE"
    BY DEF EnumShape
  <2>3. pc0 = "idle" /\ pc0' \in {"idle", "ctlWait", "toggle"}
    BY <1>0, <2>1, HalPollMoves
  <2>4. todo' \in Nat /\ (todo' > 0 => hal' = "WAIT_DEVICE")
    <3>1. \/ todo' = 0
          \/ todo' = 1 /\ hal' = hal /\ hal = "WAIT_DEVICE"
          \/ todo \in 1..8 /\ todo' = todo + 1 /\ hal' = hal
      BY <1>0, <2>1, HalPollMoves, Zenon
    <3> QED
      BY <2>2, <3>1
  <2>5. pc0' = "toggle" => todo' = 9
    BY <1>0, <2>1, <2>2, <2>3, HalPollMoves
  <2>6. pc0' = "ctlWait" =>
          /\ call'.op = "cfg" => hal' # "ATTACHED" /\ todo' \in {0, 7}
          /\ todo' = 3 => call'.op = "in"
    BY <1>0, <2>1, <2>2, <2>3, HalPollMoves
  <2> QED
    BY <2>1, <2>3, <2>4, <2>5, <2>6 DEF EnumShape
<1>3. CASE SwitchPeriodic \/ AppReenum
  <2>1. pc0' = "idle" /\ todo = 0 /\ todo' = 0 /\ phase' = "app"
    BY <1>3, Zenon
       DEF SwitchPeriodic, AppReenum, HalRequestReenum, RequestReenum, Idle, PollEnd,
           dispVars
  <2> QED
    BY <2>1
<1>4. ASSUME UNCHANGED <<hal, todo>>, Caller, ~PollHal
      PROVE  EnumShape'
  <2>1. CASE todo > 0
    <3>1. UNCHANGED vars /\ UNCHANGED phase
      BY <1>4, <2>1, EnumAlone
    <3> QED
      BY <1>4, <2>1, <3>1 DEF vars
  <2>2. CASE SwitchAttach \/ SwitchEdid
    <3>1. /\ Attached /\ todo = 0
          /\ pc0' = "ctlWait" /\ call' = Called("in", addr, 0)
      BY <1>4, <2>2, Zenon DEF SwitchAttach, SwitchEdid, AtSwitch, Idle, ControlCall,
                               Attached
    <3>2. call'.op = "in"
      BY <3>1 DEF Called
    <3>3. hal' = "ATTACHED" /\ todo' = 0
      BY <1>4, <3>1 DEF Attached
    <3> QED
      BY <3>1, <3>2, <3>3
  <2>3. CASE ~SwitchAttach /\ ~SwitchEdid /\ todo = 0
    <3>1. UNCHANGED <<pc0, call>> \/ pc0' \notin {"ctlWait", "toggle"}
      BY <1>4, <2>3, CallerCalls
    <3>2. phase' \in {"attach", "edid"} => phase' = phase
      BY <1>4, <2>3, PhaseMoves
    <3> QED
      BY <1>4, <2>3, <3>1, <3>2
  <2> QED
    BY <1>0, <2>1, <2>2, <2>3
<1> QED
  BY <1>0, <1>1, <1>2, <1>3, <1>4, HalWriters, Zenon

\* Both agree when the port starts.
LEMMA ShapeInit == DispInit => DisplayShape /\ EnumShape
<1>1. ASSUME DispInit
      PROVE  /\ pc0 = "idle" /\ todo = 0 /\ phase = "app"
             /\ stage = "WAIT_DEVICE" /\ ready = FALSE /\ moded = FALSE
  BY <1>1, Zenon DEF DispInit, HalInit, Init
<1> QED
  BY <1>1 DEF DisplayShape, EnumShape

\* What holds of the stack for every application.
StackInv == DispTypeOK /\ EngineInv /\ DisplayShape /\ EnumShape

\* It is inductive.
LEMMA StackStep ==
  ASSUME StackInv, [DispNext]_stackVars
  PROVE  StackInv'
<1>1. TypeOK /\ CallerTypes
  BY DispTypeParts DEF StackInv
<1>2. [EngineStep]_vars
  BY <1>1, StackIsEngine
<1>3. EngineInv' /\ TypeOK'
  BY <1>2, SessionStep DEF StackInv, EngineInv
<1>4. DispTypeOK'
  <2>1. CallerTypes'
    BY <1>1, CallerTypesStep
  <2>2. TypeOK' /\ CallerTypes' => DispTypeOK'
    BY DispTypeParts, PTL
  <2> QED
    BY <1>3, <2>1, <2>2
<1> QED
  BY <1>3, <1>4, DisplayShapeStep, EnumShapeStep DEF StackInv

\* It holds when the port starts.
LEMMA StackInvInit == DispInit => StackInv
<1> SUFFICES ASSUME DispInit PROVE StackInv
  OBVIOUS
<1>1. EngineInv /\ TypeOK
  BY StackInit, SessionInit DEF EngineInv
<1>2. CallerTypes
  BY CallerTypesInit
<1> QED
  BY <1>1, <1>2, DispTypeParts, ShapeInit DEF StackInv

-----------------------------------------------------------------------------
(* A session of the stack.  The port may go down and come back inside one  *)
(* call of core 0, so nothing here assumes that the HAL has seen it down.  *)

Down == hs # "RUN"

\* No byte of this session was written,
Blank == stray \/ ring_head = base

\* and none that is written now is one of this session.
Mute ==
  \/ ~bulk_ep
  \/ stage \in {"WAIT_DEVICE", "FAILED"}
  \/ todo > 0
  \/ hal # "ATTACHED" /\ phase = "disp"

MuteBlank == Mute /\ (hs = "RUN" => Blank)

\* The session ends: core 1 will take the request for a re-enumeration before
\* it serves another control call, so that no enumeration gets far.
Ending ==
  /\ hal # "ATTACHED" /\ reenum_req /\ todo <= 3
  /\ todo = 3 /\ pc0 = "idle" => ~call.ok
  /\ pc0 \in {"ctlWait", "ctlPoll"} => hs = "RUN"
  /\ pc0 = "ctlWait" => call.op = "in"
  /\ pc0 = "ctlPoll" => ctrl.req = 1 /\ pc1 # "ctl"

\* A session is blank until the HAL has attached the device, and ends when the
\* HAL gives the device up.
Course == MuteBlank \/ (hal = "ATTACHED" /\ todo = 0) \/ Ending

\* Where the enumeration is while a SET_CONFIGURATION is in the mailbox.
ConfigCalls ==
  \/ todo = 7 /\ (pc0 = "ctlPoll" \/ (pc0 = "idle" /\ ~call.ok))
  \/ todo <= 2
  \/ todo = 3 /\ (pc0 = "ctlWait" \/ (pc0 = "idle" /\ ~call.ok))

\* SET_CONFIGURATION reaches the device in a blank session only, although the
\* request of a call that timed out stays in the mailbox.
ConfigPending ==
  ctrl.req = 1 /\ ctrl.op = "cfg" =>
    MuteBlank /\ hal # "ATTACHED" /\ ConfigCalls

\* How the port goes down and up.
LEMMA UpDown ==
  ASSUME [EngineStep]_vars
  PROVE  /\ Down /\ ~Down' => WarmupDone
         /\ ~Down /\ Down' => RunLost
<1> USE DEF Down
<1>1. CASE UNCHANGED hs
  BY <1>1
<1>2. CASE AdvanceDetect \/ AdvanceReset
  BY <1>2 DEF AdvanceDetect, AdvanceReset
<1>3. CASE WarmupLost
  BY <1>3 DEF WarmupLost, EnterDetect
<1>4. CASE WarmupDone
  BY <1>4 DEF WarmupDone
<1>5. CASE RunLost
  BY <1>5 DEF RunLost, EnterDetect
<1> QED
  BY <1>1, <1>2, <1>3, <1>4, <1>5, StateWriters

\* A session starts with nothing written to a device without configuration.
LEMMA SessionStarts ==
  ASSUME StackInv, [DispNext]_stackVars, Down, ~Down'
  PROVE  /\ Blank' /\ pc1' = "top" /\ ~dev'.cfg
         /\ UNCHANGED <<dev, ring_head, ring_tail, base, stray, pkt, bulk_toggle>>
<1>1. WarmupDone
  BY StackIsEngine, UpDown DEF StackInv, EngineInv
<1>2. /\ pc1 = "top" /\ hs = "WARMUP" /\ pc1' = "top"
      /\ UNCHANGED <<dev, ring_head, ring_tail, base, stray, pkt, bulk_toggle>>
  BY <1>1, Zenon DEF WarmupDone
<1>3. (stray \/ ring_head = base) /\ ~dev.cfg
  BY <1>2 DEF StackInv, EngineInv, SessionInv, StartsEmpty, Unconfigured
<1> QED
  BY <1>2, <1>3 DEF Blank

\* A request for the end of the session stays until it ends.
LEMMA ReenumStays ==
  ASSUME [EngineStep]_vars, ~RunLost, reenum_req
  PROVE  reenum_req'
<1>1. RequestReenum \/ DiagStart => reenum_req'
  BY Zenon DEF RequestReenum, DiagStart
<1> QED
  BY <1>1, ReenumWriters, Zenon

\* Within a session its start in the stream stays.
LEMMA SessionGoesOn ==
  ASSUME StackInv, [DispNext]_stackVars, ~Down, ~Down'
  PROVE  /\ base' = base /\ (stray => stray')
         /\ ~ClearTransfers /\ ~AdvanceDetect
<1>1. ~ClearTransfers /\ ~AdvanceDetect
  BY DEF ClearTransfers, AdvanceDetect, StackInv, EngineInv, SessionInv, Pc1InState,
         Down
<1>2. [EngineStep]_vars
  BY StackIsEngine DEF StackInv, EngineInv
<1>3. WritePublish => (stray => stray')
  BY Zenon DEF WritePublish
<1>4. stray => stray'
  BY <1>1, <1>2, <1>3, StrayWriters, Zenon
<1>5. base' = base
  BY <1>1, <1>2, BaseWriters, Zenon
<1> QED
  BY <1>1, <1>4, <1>5, Zenon

\* Core 0 takes its steps between two functions of the engine.
LEMMA CallerIdle ==
  ASSUME Caller
  PROVE  pc0 = "idle" \/ UNCHANGED stackVars
<1>1. HalPoll => pc0 = "idle"
  BY Zenon
     DEF HalPoll, PollWaiting, PollGone, PollRetry, PollPeriodic, PollQuiet,
         EnumStart, EnumCall, EnumDone, EnumNoEndpoint, EnumFailed, Idle
<1>2. (\E len : WriteCall(len)) \/ SetMode \/ FlushCall \/ DiagStart => pc0 = "idle"
  BY Zenon DEF WriteCall, SetMode, FlushCall, DiagStart
<1>3. SwitchAttach \/ SwitchEdid \/ SwitchPeriodic \/ AppReenum => pc0 = "idle"
  BY Zenon
     DEF SwitchAttach, SwitchEdid, SwitchPeriodic, AppReenum, AtSwitch,
         HalRequestReenum, Idle
<1> QED
  BY <1>1, <1>2, <1>3, Zenon
     DEF Caller, DispPoll, App, PollBegin, PollHal, SwitchGone, SwitchQuiet,
         SwitchUnsupported, SwitchAttached, EdidMissing, EdidRead, ModeWritten,
         ModeSet, ModeFailed, AppUpdate, AppFlush, AppSetMode, AppDiag, AtSwitch,
         Idle

\* Who moves the display to another stage.
LEMMA StageWriters ==
  ASSUME Caller
  PROVE  \/ UNCHANGED stage
         \/ stage' \in {"WAIT_DEVICE", "FAILED"}
         \/ phase = "attach" /\ todo = 0 /\ pc0 = "idle" /\ UNCHANGED <<hal, todo>>
         \/ phase \in {"write", "flush"}
<1>1. CASE PollBegin \/ PollHal \/ App \/ UNCHANGED stackVars
  BY <1>1, Zenon
     DEF PollBegin, PollHal, App, AppUpdate, AppFlush, AppSetMode, AppReenum,
         AppDiag, stackVars, dispVars
<1>2. CASE SwitchGone \/ SwitchPeriodic
  BY <1>2 DEF SwitchGone, SwitchPeriodic, ResetDeviceState
<1>3. CASE \/ SwitchQuiet \/ SwitchUnsupported \/ SwitchAttached \/ SwitchAttach
           \/ SwitchEdid
  BY <1>3, Zenon
     DEF SwitchQuiet, SwitchUnsupported, SwitchAttached, SwitchAttach, SwitchEdid,
         Idle, allVars, halVars
<1>4. CASE EdidMissing \/ EdidRead \/ ModeWritten \/ ModeSet \/ ModeFailed
  BY <1>4, Zenon DEF EdidMissing, EdidRead, ModeWritten, ModeSet, ModeFailed
<1> QED
  BY <1>1, <1>2, <1>3, <1>4, Zenon DEF Caller, DispPoll

\* The end of a session takes the endpoint.
LEMMA LostIsMute ==
  ASSUME RunLost
  PROVE  MuteBlank'
<1>1. hs' = "DETECT" /\ ~bulk_ep'
  BY DEF RunLost, EnterDetect
<1> QED
  BY <1>1 DEF MuteBlank, Mute

\* The endpoint is given by the last call of the enumeration.
LEMMA EndpointGivers ==
  ASSUME StackInv, [DispNext]_stackVars, ~bulk_ep, bulk_ep'
  PROVE  /\ Caller /\ PollHal /\ todo = 8 /\ phase = "hal" /\ hal = "WAIT_DEVICE"
         /\ pc0' = "toggle" /\ todo' = 9
<1>0. (Environment \/ Caller) /\ [EngineStep]_vars
  BY StackIsEngine DEF StackInv, EngineInv
<1>1. SetBulkOut
  <2>1. ~WarmupLost /\ ~RunLost
    BY DEF WarmupLost, RunLost, EnterDetect
  <2>2. ~UNCHANGED bulk_ep
    BY Zenon
  <2> QED
    BY <1>0, <2>1, <2>2, EndpointWriters
<1>2. pc0 = "idle" /\ pc0' = "toggle"
  BY <1>1, Zenon DEF SetBulkOut
<1>3. Caller
  BY <1>0, <1>2, FunctionSteps
<1>4. PollHal
  BY <1>2, <1>3, CallerCalls
<1>5. todo = 8 /\ phase = "hal" /\ todo' = 9
  <2>1. todo \in Nat
    BY DispTypeParts DEF StackInv, CallerTypes
  <2> QED
    BY <1>2, <1>4, <2>1, HalPollMoves DEF PollHal
<1>6. hal = "WAIT_DEVICE"
  BY <1>5 DEF StackInv, EnumShape
<1> QED
  BY <1>2, <1>3, <1>4, <1>5, <1>6

\* Between the HAL's poll and its own switch a display whose device is gone
\* can only notice it.
LEMMA GoneNoticed ==
  ASSUME Caller, phase = "disp", hal # "ATTACHED"
  PROVE  UNCHANGED phase \/ stage' = "WAIT_DEVICE"
<1>1. ~Attached
  BY DEF Attached
<1>2. CASE SwitchGone
  BY <1>2 DEF SwitchGone, ResetDeviceState
<1>3. CASE UNCHANGED stackVars
  BY <1>3, Zenon DEF stackVars, dispVars
<1>4. CASE ~SwitchGone /\ ~UNCHANGED stackVars
  BY <1>1, <1>4
     DEF Caller, DispPoll, App, PollBegin, PollHal, SwitchQuiet, SwitchAttach,
         SwitchUnsupported, SwitchAttached, SwitchEdid, SwitchPeriodic,
         EdidMissing, EdidRead, ModeWritten, ModeSet, ModeFailed, AppUpdate,
         AppFlush, AppSetMode, AppReenum, AppDiag
<1> QED
  BY <1>2, <1>3, <1>4

\* Nothing is written to a session until its device is attached.
LEMMA MuteStays ==
  ASSUME StackInv, [DispNext]_stackVars, Mute
  PROVE  Mute' \/ (hal' = "ATTACHED" /\ todo' = 0)
<1> USE DEF Mute
<1>0. (Environment \/ Caller) /\ todo \in Nat
  BY DispTypeParts, StackIsEngine DEF StackInv, CallerTypes
<1>1. CASE Environment
  <2>1. UNCHANGED <<hal, todo, phase, stage>>
    BY <1>1, EnvironmentSteps
  <2>2. ~bulk_ep => ~bulk_ep'
    <3>1. pc0' = "toggle" => UNCHANGED pc0
      BY <1>1, FunctionSteps
    <3>2. ASSUME ~bulk_ep, bulk_ep' PROVE FALSE
      <4>1. todo = 8 /\ todo' = 9
        BY <3>2, EndpointGivers
      <4> QED
        BY <2>1, <4>1
    <3> QED
      BY <3>2
  <2> QED
    BY <2>1, <2>2
<1>2. CASE PollHal
  <2>1. HalPoll /\ phase' = IF todo' = 0 THEN "disp" ELSE "hal"
    BY <1>2, Zenon DEF PollHal
  <2>2. \/ todo' \in Nat /\ todo' > 0
        \/ todo' = 0 /\ phase' = "disp"
    <3>1. \/ todo' = 0
          \/ todo' = 1
          \/ todo \in 1..8 /\ todo' = todo + 1
          \/ todo = 0 /\ todo' = todo
      BY <1>0, <2>1, HalPollMoves, Zenon
    <3> QED
      BY <2>1, <3>1
  <2> QED
    BY <2>2
<1>3. CASE SwitchPeriodic
  BY <1>3 DEF SwitchPeriodic, ResetDeviceState
<1>4. CASE AppReenum
  <2>1. phase = "app" /\ todo = 0 /\ UNCHANGED <<bulk_ep, stage>>
    BY <1>4, Zenon
       DEF AppReenum, HalRequestReenum, RequestReenum, Idle, dispVars
  <2> QED
    BY <2>1
<1>5. CASE Caller /\ ~PollHal /\ UNCHANGED <<hal, todo>>
  <2>1. CASE ~bulk_ep
    <3>1. ~bulk_ep'
      BY <1>5, <2>1, EndpointGivers
    <3> QED
      BY <3>1
  <2>2. CASE stage \in {"WAIT_DEVICE", "FAILED"}
    <3>1. phase \notin {"write", "flush"}
      BY <2>2 DEF StackInv, DisplayShape, Up
    <3>2. phase = "attach" => hal = "ATTACHED"
      BY DEF StackInv, EnumShape
    <3> QED
      BY <1>5, <2>2, <3>1, <3>2, StageWriters
  <2>3. CASE todo > 0
    BY <1>5, <2>3
  <2>4. CASE hal # "ATTACHED" /\ phase = "disp"
    BY <1>5, <2>4, GoneNoticed
  <2> QED
    BY <2>1, <2>2, <2>3, <2>4
<1> QED
  BY <1>0, <1>1, <1>2, <1>3, <1>4, <1>5, HalWriters, Zenon

\* A session in which nothing is written stays blank.
LEMMA BlankStays ==
  ASSUME StackInv, [DispNext]_stackVars, MuteBlank, ~Down'
  PROVE  Blank'
<1>0. TypeOK /\ [EngineStep]_vars
  BY DispTypeParts, StackIsEngine DEF StackInv
<1>1. CASE Down
  BY <1>1, SessionStarts
<1>2. CASE ~Down
  <2>1. base' = base /\ (stray => stray') /\ Blank
    BY <1>2, SessionGoesOn DEF MuteBlank, Down
  <2>2. CASE ring_head' = ring_head
    BY <2>1, <2>2 DEF Blank
  <2>3. CASE WritePublish
    <3>1. pc0 = "publish" /\ (~bulk_ep => stray')
      BY <2>3, Zenon DEF WritePublish
    <3>2. /\ stage \in {"MODE_SETUP", "READY"} /\ phase # "disp"
          /\ ~(todo > 0)
      BY <3>1 DEF StackInv, DisplayShape, EnumShape, Up
    <3>3. ~bulk_ep
      BY <3>2 DEF MuteBlank, Mute
    <3> QED
      BY <3>1, <3>3 DEF Blank
  <2> QED
    BY <1>0, <2>2, <2>3, HeadWriters
<1> QED
  BY <1>1, <1>2

\* Core 1 takes no request for a control transfer any more.
LEMMA NotTaken ==
  ASSUME StackInv, [EngineStep]_vars, pc1 # "ctl", reenum_req
  PROVE  pc1' # "ctl"
<1>1. ~RunControl
  BY DEF RunControl
<1>2. CASE Core1
  BY <1>1, <1>2
     DEF Core1, SofLost, ClearTransfers, AdvanceDetect, AdvanceReset, WarmupLost,
         WarmupDone, RunLost, RunPump, EnterDetect, ControlTaken, ControlFailed,
         PumpPrepare, PumpResume, PumpIdle, PumpUnflush, TxnBlocked, TxnAck, TxnNak,
         TxnStall, TxnLost, TxnAckLost, CountError, ProbeSkipped, ProbeAnswered,
         ProbeMissed
<1>3. CASE Core0 \/ Request \/ Unplug \/ Plug \/ UNCHANGED vars
  <2>1. UNCHANGED pc1
    BY <1>3, Zenon
       DEF Core0, ControlPost, ControlReturn, ControlLate, ControlTimeout,
           WriteCopy, WritePublish, WriteReturn, WriteTimeout, FlushRequest,
           FlushDone, FlushStopped, FlushTimeout, SetBulkOutToggle, DiagSample,
           DiagEnd, Request, ControlCall, WriteCall, FlushCall, SetDevice,
           SetBulkOut, RequestReenum, DiagStart, Unplug, Plug, vars
  <2> QED
    BY <2>1
<1> QED
  BY <1>2, <1>3, Zenon DEF EngineStep

\* What core 0 does with a control call that waits or is posted.
LEMMA ControlSteps ==
  ASSUME Environment, pc0 \in {"ctlWait", "ctlPoll"}
  PROVE  \/ UNCHANGED <<pc0, call>>
         \/ ControlPost
         \/ ControlReturn
         \/ ControlLate
         \/ ControlTimeout /\ pc0' = "idle" /\ ~call'.ok
<1>1. Unplug \/ Plug \/ Core1 \/ Core0
  BY EnvironmentSteps
<1>2. CASE Core0
  <2>1. ControlPost \/ ControlReturn \/ ControlLate \/ ControlTimeout
    BY <1>2
       DEF Core0, WriteCopy, WritePublish, WriteReturn, WriteTimeout, FlushRequest,
           FlushDone, FlushStopped, FlushTimeout, SetBulkOutToggle, DiagSample,
           DiagEnd
  <2>2. ControlTimeout => pc0' = "idle" /\ ~call'.ok
    <3>1. ControlTimeout => pc0' = "idle" /\ call' = Returned(FALSE)
      BY Zenon DEF ControlTimeout, Return
    <3>2. ~Returned(FALSE).ok
      BY DEF Returned
    <3> QED
      BY <3>1, <3>2, Zenon
  <2> QED
    BY <2>1, <2>2
<1>3. CASE Unplug \/ Plug \/ Core1
  BY <1>3, EnvironmentLeavesCore0
<1> QED
  BY <1>1, <1>2, <1>3

\* A session that ends goes on ending.
LEMMA EndingStays ==
  ASSUME StackInv, [DispNext]_stackVars, Ending, ~RunLost
  PROVE  Ending'
<1>0. /\ TypeOK /\ (Environment \/ Caller) /\ [EngineStep]_vars /\ todo \in Nat
      /\ hal # "ATTACHED" /\ reenum_req /\ todo <= 3
      /\ todo = 3 /\ pc0 = "idle" => ~call.ok
      /\ pc0 \in {"ctlWait", "ctlPoll"} => hs = "RUN"
      /\ pc0 = "ctlWait" => call.op = "in"
      /\ pc0 = "ctlPoll" => ctrl.req = 1 /\ pc1 # "ctl"
      /\ ctrl.req = 0 => pc1 # "ctl"
  BY DispTypeParts, StackIsEngine
     DEF StackInv, CallerTypes, Ending, EngineInv, MailboxTaken
<1>1. reenum_req'
  BY <1>0, ReenumStays
<1>h. hs = "RUN" => hs' = "RUN"
  BY <1>0, UpDown DEF Down
<1>2. CASE Environment
  <2>1. UNCHANGED <<hal, todo>>
    BY <1>2, EnvironmentSteps
  <2>2. CASE pc0 \in {"ctlWait", "ctlPoll"}
    <3>0. hs = "RUN" /\ hs' = "RUN"
      BY <1>0, <1>h, <2>2
    <3>1. CASE UNCHANGED <<pc0, call>> \/ ControlLate
      <4>1. pc0' = pc0 /\ (pc0 = "ctlWait" => call' = call)
        BY <3>1 DEF ControlLate
      <4>2. pc0 = "ctlPoll" => ctrl'.req = 1 /\ pc1' # "ctl"
        <5>0. ~ClearTransfers
          BY <3>0, SessionGoesOn DEF Down
        <5>1. pc0 = "ctlPoll" => UNCHANGED ctrl
          BY <1>0, <5>0, MailboxWriters
             DEF ControlTaken, ControlFailed, ControlPost
        <5> QED
          BY <1>0, <5>1, NotTaken
      <4> QED
        BY <1>0, <1>1, <2>1, <2>2, <3>0, <4>1, <4>2 DEF Ending
    <3>2. CASE ControlPost
      <4>1. ctrl.req = 0 /\ pc0' = "ctlPoll" /\ ctrl'.req = 1
        BY <3>2 DEF ControlPost
      <4> QED
        BY <1>0, <1>1, <2>1, <3>0, <4>1, NotTaken DEF Ending
    <3>3. CASE ControlReturn
      BY <1>0, <3>3 DEF ControlReturn
    <3>4. CASE pc0' = "idle" /\ ~call'.ok
      BY <1>0, <1>1, <2>1, <3>4 DEF Ending
    <3> QED
      BY <1>2, <2>2, <3>1, <3>2, <3>3, <3>4, ControlSteps
  <2>3. CASE pc0 = "idle"
    BY <1>0, <1>1, <1>2, <2>1, <2>3, FunctionSteps DEF Ending
  <2>4. CASE pc0 \notin {"idle", "ctlWait", "ctlPoll"}
    <3>1. todo = 0
      BY <1>0, <2>4 DEF StackInv, EnumShape
    <3>2. pc0' \notin {"ctlWait", "ctlPoll"}
      <4>1. ~ControlPost /\ ~ControlLate
        BY <2>4 DEF ControlPost, ControlLate
      <4>2. CASE Core0
        BY <2>4, <4>1, <4>2
           DEF Core0, ControlReturn, ControlTimeout, WriteCopy, WritePublish,
               WriteReturn, WriteTimeout, FlushRequest, FlushDone, FlushStopped,
               FlushTimeout, SetBulkOutToggle, DiagSample, DiagEnd, Return
      <4>3. CASE Unplug \/ Plug \/ Core1
        BY <2>4, <4>3, EnvironmentLeavesCore0
      <4> QED
        BY <1>2, <4>2, <4>3, EnvironmentSteps
    <3> QED
      BY <1>0, <1>1, <2>1, <3>1, <3>2 DEF Ending
  <2> QED
    BY <2>2, <2>3, <2>4
<1>3. CASE Caller /\ PollHal
  <2>1. HalPoll
    BY <1>3, Zenon DEF PollHal
  <2>2. hs' = hs
    BY <1>0, <1>3, CallerSteps
  <2>3. pc0 = "idle" /\ pc0' \in {"idle", "ctlWait", "toggle"}
    BY <1>0, <2>1, HalPollMoves
  <2>4. /\ hal' # "ATTACHED" /\ todo' <= 3
        /\ todo' = 3 => \/ todo = 2 /\ (pc0' = "ctlWait" \/ ~call'.ok)
                        \/ todo = 3 /\ UNCHANGED vars
        /\ pc0' = "ctlWait" => call'.op = "in" /\ hs = "RUN"
    <3>1. CASE EnumCall
      <4>1. todo \in 1..2
        BY <1>0, <2>3, <3>1, EnumCallBounds
      <4>2. CASE todo = 1
        <5>1. SetDevice(0) /\ hal' = hal /\ todo' = 2
          BY <1>0, <3>1, <4>2, EnumCallKinds, EnumCallBounds DEF EnumCall
        <5>2. pc0' = "idle"
          BY <2>3, <5>1, Zenon DEF SetDevice
        <5> QED
          BY <1>0, <5>1, <5>2
      <4>3. CASE todo = 2
        <5>1. ControlCall("in", 0) /\ hal' = hal /\ todo' = 3
          BY <1>0, <3>1, <4>3, EnumCallKinds, EnumCallBounds DEF EnumCall
        <5>2. \/ Running /\ pc0' = "ctlWait" /\ call' = Called("in", 0, 0)
              \/ pc0' = "idle" /\ call' = Returned(FALSE)
          BY <5>1, Zenon DEF ControlCall
        <5>3. \/ hs = "RUN" /\ pc0' = "ctlWait" /\ call'.op = "in"
              \/ pc0' = "idle" /\ ~call'.ok
          BY <5>2 DEF Called, Returned, Running
        <5> QED
          BY <1>0, <4>3, <5>1, <5>3
      <4> QED
        BY <4>1, <4>2, <4>3
    <3>2. CASE EnumNoEndpoint \/ EnumDone
      <4>1. todo # 6 /\ ~(todo > 8)
        BY <1>0
      <4>2. Len(EnumCalls) = 8
        BY DEF EnumCalls
      <4> QED
        BY <1>0, <3>2, <4>1, <4>2, EnumCallBounds DEF EnumDone
    <3>3. CASE EnumStart \/ EnumFailed \/ PollRetry \/ PollPeriodic \/ PollGone
      <4>1. pc0' = "idle" /\ todo' \in {0, 1}
        BY <2>3, <3>3, Zenon
           DEF EnumStart, EnumFailed, PollRetry, PollPeriodic, PollGone, Idle,
               RequestReenum, vars
      <4>2. hal' # "ATTACHED"
        BY <1>0, <3>3
           DEF EnumStart, EnumFailed, PollRetry, PollPeriodic, PollGone
      <4> QED
        BY <4>1, <4>2
    <3>4. CASE PollWaiting \/ PollQuiet
      <4>1. UNCHANGED <<hal, todo, pc0>> /\ todo = 0
        BY <3>4, Zenon DEF PollWaiting, PollQuiet, Idle, allVars, halVars, vars
      <4> QED
        BY <1>0, <2>3, <4>1
    <3> QED
      BY <2>1, <3>1, <3>2, <3>3, <3>4, Zenon DEF HalPoll
  <2>5. todo' = 3 => pc0' # "idle" \/ ~call'.ok
    <3>1. CASE todo = 3 /\ UNCHANGED vars
      BY <1>0, <2>3, <3>1 DEF vars
    <3> QED
      BY <2>4, <3>1
  <2> QED
    BY <1>1, <2>2, <2>3, <2>4, <2>5 DEF Ending
<1>4. CASE SwitchPeriodic \/ AppReenum
  <2>1. hal' = "WAIT_DEVICE" /\ todo' = 0 /\ pc0' = "idle"
    BY <1>4, Zenon
       DEF SwitchPeriodic, AppReenum, HalRequestReenum, RequestReenum, Idle
  <2> QED
    BY <1>1, <2>1 DEF Ending
<1>5. CASE Caller /\ ~PollHal /\ UNCHANGED <<hal, todo>>
  <2>1. CASE todo > 0
    <3>1. UNCHANGED <<pc0, call, ctrl, pc1, hs>>
      <4>1. UNCHANGED vars
        BY <1>5, <2>1, EnumAlone DEF StackInv, EnumShape
      <4> QED
        BY <4>1, Zenon DEF vars
    <3> QED
      BY <1>0, <1>1, <1>5, <2>1, <3>1 DEF Ending
  <2>2. CASE todo = 0
    <3>1. UNCHANGED <<pc0, call>> \/ pc0' \notin {"ctlWait", "ctlPoll"}
      BY <1>0, <1>5, CallerCalls DEF Attached
    <3>2. UNCHANGED <<ctrl, pc1, hs>>
      BY <1>0, <1>5, CallerSteps
    <3> QED
      BY <1>0, <1>1, <1>5, <2>2, <3>1, <3>2 DEF Ending
  <2> QED
    BY <1>0, <2>1, <2>2
<1> QED
  BY <1>0, <1>2, <1>3, <1>4, <1>5, HalWriters, Zenon

\* A request for a re-enumeration on core 0 ends the session.
LEMMA ReenumEnds ==
  ASSUME SwitchPeriodic \/ AppReenum
  PROVE  hal' = "WAIT_DEVICE" /\ todo' = 0 /\ Ending'
<1>1. hal' = "WAIT_DEVICE" /\ todo' = 0 /\ pc0' = "idle" /\ reenum_req'
  BY Zenon DEF SwitchPeriodic, AppReenum, HalRequestReenum, RequestReenum, Idle
<1> QED
  BY <1>1 DEF Ending

\* A session takes its course from blank over attached to ending.
LEMMA CourseStep ==
  ASSUME StackInv, Course, [DispNext]_stackVars
  PROVE  Course'
<1> USE DEF Course
<1>0. (Environment \/ Caller) /\ todo \in Nat /\ TypeOK
  BY DispTypeParts, StackIsEngine DEF StackInv, CallerTypes
<1>1. CASE MuteBlank
  <2>1. Mute' \/ (hal' = "ATTACHED" /\ todo' = 0)
    BY <1>1, MuteStays DEF MuteBlank
  <2>2. hs' = "RUN" => Blank'
    BY <1>1, BlankStays DEF Down
  <2> QED
    BY <2>1, <2>2 DEF MuteBlank
<1>2. CASE Ending
  BY <1>2, EndingStays, LostIsMute
<1>3. CASE hal = "ATTACHED" /\ todo = 0
  <2>1. CASE UNCHANGED <<hal, todo>>
    BY <1>3, <2>1
  <2>2. CASE SwitchPeriodic \/ AppReenum
    BY <2>2, ReenumEnds
  <2>3. CASE PollHal
    <3>1. HalPoll /\ phase' = IF todo' = 0 THEN "disp" ELSE "hal"
      BY <2>3, Zenon DEF PollHal
    <3>2. hs' = hs
      BY <1>0, <2>3, CallerSteps, Zenon DEF Caller, DispPoll
    <3>3. \/ UNCHANGED <<hal, todo>>
          \/ ~Running /\ todo' = 0 /\ hal' = "WAIT_DEVICE"
      <4>1. todo # 6 /\ ~(todo \in 1..8) /\ todo # 9 /\ ~(todo > 9) /\ ~(todo > 1)
        BY <1>3
      <4>2. hal # "WAIT_DEVICE" /\ hal \notin {"RETRY_WAIT", "NO_EP"}
        BY <1>3
      <4> QED
        BY <1>0, <3>1, <4>1, <4>2, HalPollMoves, Zenon
    <3>4. CASE ~Running /\ todo' = 0 /\ hal' = "WAIT_DEVICE"
      BY <3>1, <3>2, <3>4 DEF MuteBlank, Mute, Running
    <3> QED
      BY <2>1, <3>3, <3>4
  <2> QED
    BY <1>0, <2>1, <2>2, <2>3, HalWriters, EnvironmentSteps
<1> QED
  BY <1>1, <1>2, <1>3

\* What becomes of the calls of the enumeration until core 1 answers.
LEMMA ConfigPendingCalls ==
  ASSUME StackInv, [DispNext]_stackVars, ctrl.req = 1, hal # "ATTACHED", ConfigCalls
  PROVE  hal' # "ATTACHED" /\ ConfigCalls'
<1> USE DEF ConfigCalls
<1>0. (Environment \/ Caller) /\ todo \in Nat
  BY DispTypeParts, StackIsEngine DEF StackInv, CallerTypes
<1>1. CASE Environment
  <2>1. UNCHANGED <<hal, todo>>
    BY <1>1, EnvironmentSteps
  <2>2. CASE pc0 \in {"ctlWait", "ctlPoll"}
    <3>1. ~ControlPost /\ ~ControlReturn
      BY DEF ControlPost, ControlReturn
    <3>2. \/ UNCHANGED <<pc0, call>>
          \/ pc0 = "ctlPoll" /\ pc0' = "ctlPoll"
          \/ pc0 = "ctlPoll" /\ pc0' = "idle" /\ ~call'.ok
      BY <1>1, <2>2, <3>1, ControlSteps DEF ControlLate, ControlTimeout
    <3> QED
      BY <2>1, <3>2
  <2>3. CASE pc0 = "idle"
    BY <1>1, <2>1, <2>3, FunctionSteps
  <2>4. CASE todo <= 2
    BY <2>1, <2>4
  <2> QED
    BY <2>2, <2>3, <2>4
<1>2. CASE PollHal
  <2>1. HalPoll
    BY <1>2, Zenon DEF PollHal
  <2>2. pc0 = "idle" /\ (todo <= 2 \/ (todo \in {3, 7} /\ ~call.ok))
    BY <1>0, <2>1, HalPollMoves
  <2>3. CASE EnumCall
    <3>1. todo \in {1, 2} /\ todo' = todo + 1 /\ hal' = hal
      BY <1>0, <2>2, <2>3, EnumCallBounds DEF EnumCall
    <3>2. todo = 2 => pc0' = "ctlWait" \/ (pc0' = "idle" /\ ~call'.ok)
      <4>1. todo = 2 => ControlCall("in", 0)
        BY <2>3, EnumCallKinds
      <4>2. ControlCall("in", 0) => pc0' = "ctlWait" \/ (pc0' = "idle" /\ call' = Returned(FALSE))
        BY Zenon DEF ControlCall
      <4> QED
        BY <4>1, <4>2 DEF Returned
    <3> QED
      BY <3>1, <3>2
  <2>4. CASE EnumNoEndpoint \/ EnumDone
    <3>1. todo # 6 /\ ~(todo > 8)
      BY <1>0, <2>2
    <3>2. Len(EnumCalls) = 8
      BY DEF EnumCalls
    <3> QED
      BY <1>0, <2>4, <3>1, <3>2, EnumCallBounds DEF EnumDone
  <2>5. CASE EnumStart \/ EnumFailed \/ PollRetry \/ PollPeriodic \/ PollGone
    <3>1. todo' \in {0, 1}
      BY <2>5, Zenon
         DEF EnumStart, EnumFailed, PollRetry, PollPeriodic, PollGone, Idle
    <3>2. hal' # "ATTACHED"
      BY <2>5 DEF EnumStart, EnumFailed, PollRetry, PollPeriodic, PollGone
    <3> QED
      BY <3>1, <3>2
  <2>6. CASE PollWaiting \/ PollQuiet
    <3>1. UNCHANGED <<hal, todo>> /\ todo = 0
      BY <2>6, Zenon DEF PollWaiting, PollQuiet, Idle, allVars, halVars
    <3> QED
      BY <3>1
  <2> QED
    BY <2>1, <2>3, <2>4, <2>5, <2>6, Zenon DEF HalPoll
<1>3. CASE SwitchPeriodic \/ AppReenum
  BY <1>3, ReenumEnds
<1>4. CASE Caller /\ ~PollHal /\ UNCHANGED <<hal, todo>>
  <2>1. CASE todo > 0
    <3>1. UNCHANGED vars
      BY <1>4, <2>1, EnumAlone DEF StackInv, EnumShape
    <3>2. UNCHANGED <<pc0, call>>
      BY <3>1, Zenon DEF vars
    <3> QED
      BY <1>4, <3>2
  <2>2. CASE todo = 0
    BY <1>4, <2>2
  <2> QED
    BY <1>0, <2>1, <2>2
<1> QED
  BY <1>0, <1>1, <1>2, <1>3, <1>4, HalWriters, Zenon

\* A SET_CONFIGURATION is posted, and stays, in a blank session only.
LEMMA ConfigPendingStep ==
  ASSUME StackInv, Course, ConfigPending, [DispNext]_stackVars
  PROVE  ConfigPending'
<1> USE DEF ConfigPending
<1>0. (Environment \/ Caller) /\ [EngineStep]_vars /\ TypeOK
  BY DispTypeParts, StackIsEngine DEF StackInv
<1> SUFFICES ASSUME ctrl'.req = 1, ctrl'.op = "cfg"
             PROVE  MuteBlank' /\ hal' # "ATTACHED" /\ ConfigCalls'
  OBVIOUS
<1>1. MuteBlank /\ hal' # "ATTACHED" => MuteBlank'
  BY MuteStays, BlankStays DEF MuteBlank, Down
<1>2. CASE ctrl' = ctrl
  <2>1. ctrl.req = 1 /\ MuteBlank /\ hal # "ATTACHED" /\ ConfigCalls
    BY <1>2
  <2> QED
    BY <1>1, <2>1, ConfigPendingCalls
<1>3. CASE ControlPost
  <2>1. /\ pc0 = "ctlWait" /\ pc0' = "ctlPoll" /\ call.op = "cfg"
    BY <1>3 DEF ControlPost
  <2>2. Environment
    BY <1>0, <2>1, CallerIdle DEF stackVars, allVars, vars
  <2>3. hal # "ATTACHED" /\ todo \in {0, 7} /\ UNCHANGED <<hal, todo>>
    BY <2>1, <2>2, EnvironmentSteps DEF StackInv, EnumShape
  <2>4. MuteBlank
    BY <2>1, <2>3 DEF Course, Ending
  <2> QED
    BY <1>1, <2>1, <2>3, <2>4 DEF ConfigCalls
<1>4. CASE ClearTransfers
  <2>1. ctrl' = ctrl \/ ctrl' = Finished("FAIL")
    BY <1>4, Zenon DEF ClearTransfers
  <2> QED
    BY <1>2, <2>1 DEF Finished, NoMail
<1>5. CASE (\E result \in {"OK", "FAIL"} : ControlTaken(result)) \/ ControlFailed
  <2>1. ctrl'.req = 0
    BY <1>5 DEF ControlTaken, ControlFailed, Finished, NoMail
  <2> QED
    BY <2>1
<1> QED
  BY <1>0, <1>2, <1>3, <1>4, <1>5, MailboxWriters

-----------------------------------------------------------------------------
(* The stream of a session.                                                *)

\* Nothing was sent in this session.
Unsent == ring_tail = base /\ ~pkt.valid /\ dev.tog = 0 /\ dev.got = <<>>

\* As long as core 1 has not taken the request for DATA0, nothing was sent.
\* The request may come while core 1 is in the pump already, for the endpoint
\* is stored first: then the ring stays empty until core 1 comes out.
FreshToggle ==
  hs = "RUN" /\ ~stray /\ reset_toggle_req =>
    /\ Unsent
    /\ pc1 # "txn"
    /\ pc1 = "pump" => ring_head = base

\* The toggles of the host and of the device agree on whether the device has
\* the packet that the host still holds.
StreamAgrees ==
  hs = "RUN" /\ bulk_ep /\ dev.cfg /\ ~stray /\ ~dev.halt =>
    \/ dev.tog = bulk_toggle /\ dev.got = Positions(base, ring_tail - base)
    \/ /\ pkt.valid /\ dev.tog # bulk_toggle
       /\ dev.got = Positions(base, ring_tail + pkt.len - base)

\* A session in which no byte was written
Unwritten == hs # "DETECT" /\ ring_head = base

\* has sent none, and the host is at DATA0.
LEMMA UnwrittenUnsent == EngineInv /\ Unwritten => Unsent /\ bulk_toggle = 0
<1> SUFFICES ASSUME EngineInv, hs # "DETECT", ring_head = base
             PROVE  Unsent /\ bulk_toggle = 0
  BY DEF Unwritten
<1>1. /\ base \in Nat /\ ring_tail \in Nat /\ ring_head \in Nat
      /\ base <= ring_tail /\ ring_tail <= ring_head
      /\ pkt.len \in Nat
      /\ pkt.valid => pkt.len > 0 /\ pkt.len <= ring_head - ring_tail
  BY RingNumbers
<1>2. ring_tail = base /\ ~pkt.valid
  BY <1>1
<1>3. dev.tog = 0 /\ dev.got = <<>> /\ bulk_toggle = 0
  BY <1>2 DEF EngineInv, SessionInv, NothingSent, FirstToggle
<1> QED
  BY <1>2, <1>3 DEF Unsent

\* Core 1 comes to the pump through its entry only.
LEMMA PumpEntry ==
  ASSUME [EngineStep]_vars, pc1 \notin {"pump", "txn"}, pc1' \in {"pump", "txn"}
  PROVE  RunPump /\ bulk_ep
<1>1. CASE Core1
  <2>1. CASE \/ SofLost \/ ClearTransfers \/ AdvanceDetect \/ AdvanceReset
             \/ WarmupLost \/ WarmupDone \/ RunLost \/ RunControl \/ RunPump
    BY <2>1 DEF SofLost, ClearTransfers, AdvanceDetect, AdvanceReset, WarmupLost,
                WarmupDone, RunLost, RunControl, RunPump, EnterDetect
  <2>2. CASE \/ ControlFailed \/ \E result \in {"OK", "FAIL"} : ControlTaken(result)
             \/ PumpPrepare \/ PumpResume \/ PumpIdle \/ PumpUnflush
    BY <2>2 DEF ControlTaken, ControlFailed, PumpPrepare, PumpResume, PumpIdle,
                PumpUnflush
  <2>3. CASE \/ TxnBlocked \/ TxnAck \/ TxnNak \/ TxnStall \/ TxnLost
             \/ TxnAckLost \/ ProbeSkipped \/ ProbeAnswered \/ ProbeMissed
    BY <2>3 DEF TxnBlocked, TxnAck, TxnNak, TxnStall, TxnLost, TxnAckLost,
                CountError, ProbeSkipped, ProbeAnswered, ProbeMissed
  <2> QED
    BY <1>1, <2>1, <2>2, <2>3, Zenon DEF Core1
<1>2. CASE Core0 \/ Request \/ Unplug \/ Plug \/ UNCHANGED vars
  <2>1. UNCHANGED pc1
    BY <1>2, Zenon
       DEF Core0, ControlPost, ControlReturn, ControlLate, ControlTimeout,
           WriteCopy, WritePublish, WriteReturn, WriteTimeout, FlushRequest,
           FlushDone, FlushStopped, FlushTimeout, SetBulkOutToggle, DiagSample,
           DiagEnd, Request, ControlCall, WriteCall, FlushCall, SetDevice,
           SetBulkOut, RequestReenum, DiagStart, Unplug, Plug, vars
  <2> QED
    BY <2>1
<1> QED
  BY <1>1, <1>2, Zenon DEF EngineStep

\* In a session that goes on, with the request for DATA0 not taken yet and
\* core 1 outside the pump, nothing is sent.
LEMMA UnsentStays ==
  ASSUME StackInv, [EngineStep]_vars, ~Down, ~Down', Unsent,
         base' = base, ~ClearTransfers, ~AdvanceDetect,
         pc1 \notin {"pump", "txn"}
  PROVE  Unsent'
<1> USE DEF Unsent
<1>0. ~TxnAck /\ ~TxnStall /\ ~PumpPrepare /\ ~TxnAckLost
  BY DEF TxnAck, TxnStall, PumpPrepare, TxnAckLost
<1>1. ring_tail' = ring_tail
  BY <1>0, TailWriters
<1>2. ~pkt'.valid
  <2>1. CASE UNCHANGED <<pkt, bulk_toggle>>
    BY <2>1
  <2>2. CASE RunPump
    <3>1. pkt' = NoPkt \/ pkt' = pkt
      BY <2>2, Zenon DEF RunPump
    <3> QED
      BY <3>1 DEF NoPkt
  <2> QED
    BY <1>0, <2>1, <2>2, PacketWriters
<1>3. dev'.tog = 0 /\ dev'.got = <<>>
  <2>1. CASE UNCHANGED dev
    BY <2>1
  <2>2. CASE Plug
    BY <2>2 DEF Plug, Fresh
  <2>3. CASE \E result \in {"OK", "FAIL"} : ControlTaken(result)
    <3>1. dev' = Performed(ctrl.op)
      BY <2>3 DEF ControlTaken
    <3>2. ctrl.op \in Requests /\ dev \in Devices
      BY DEF StackInv, EngineInv, TypeOK, DataOK, Mailboxes
    <3> QED
      BY <3>1, <3>2, PerformedKinds
  <2> QED
    BY <1>0, <2>1, <2>2, <2>3, DeviceWriters
<1> QED
  BY <1>1, <1>2, <1>3

\* The request for DATA0 finds both ends at the start of the stream.
LEMMA FreshToggleStep ==
  ASSUME StackInv, Course, FreshToggle, [DispNext]_stackVars
  PROVE  FreshToggle'
<1> USE DEF FreshToggle
<1>0. /\ (Environment \/ Caller) /\ [EngineStep]_vars
      /\ EngineInv /\ EngineInv' /\ TypeOK
  BY DispTypeParts, StackIsEngine, SessionStep DEF StackInv
<1>a. hs' = "RUN" /\ ring_head' = base' => Unsent' /\ pc1' # "txn"
  <2>1. EngineInv' /\ Unwritten' => Unsent'
    BY UnwrittenUnsent, PTL
  <2>2. pc1' = "txn" => pkt'.valid
    BY <1>0 DEF EngineInv, RingInv, PacketReady
  <2> QED
    BY <1>0, <2>1, <2>2 DEF Unwritten, Unsent
<1>1. CASE Down'
  BY <1>1 DEF Down
<1>2. CASE Down /\ ~Down'
  BY <1>2, <1>a, SessionStarts DEF Down, Blank
<1>3. CASE ~Down /\ ~Down'
  <2> SUFFICES ASSUME ~stray', reset_toggle_req'
               PROVE  Unsent' /\ pc1' # "txn" /\ (pc1' = "pump" => ring_head' = base')
    OBVIOUS
  <2>0. ~stray /\ base' = base /\ ~ClearTransfers /\ ~AdvanceDetect
        /\ hs = "RUN" /\ hs' = "RUN"
    BY <1>3, SessionGoesOn DEF Down
  <2>1. CASE ~reset_toggle_req
    <3>1. SetBulkOutToggle
      <4>1. ~RunPump
        <5>1. RunPump => reset_toggle_req' = FALSE \/ reset_toggle_req' = reset_toggle_req
          BY Zenon DEF RunPump
        <5> QED
          BY <2>1, <5>1, Zenon
      <4>2. ~UNCHANGED reset_toggle_req
        BY <2>1, Zenon
      <4> QED
        BY <1>0, <4>1, <4>2, ToggleRequestWriters
    <3>2. pc0 = "toggle" /\ UNCHANGED ring_head
      BY <3>1, Zenon DEF SetBulkOutToggle, core1Vars, schedVars, ringVars
    <3>3. todo = 9 /\ hal = "WAIT_DEVICE"
      BY <3>2 DEF StackInv, EnumShape
    <3>4. Blank
      BY <2>0, <3>3 DEF Course, Ending, MuteBlank
    <3>5. ring_head' = base'
      BY <2>0, <3>2, <3>4 DEF Blank
    <3> QED
      BY <1>a, <2>0, <3>5
  <2>2. CASE reset_toggle_req /\ pc1 = "pump"
    <3>1. ring_head = base
      BY <2>0, <2>2
    <3>2. ring_head' = base'
      <4>1. ~WritePublish
        <5>1. WritePublish => stray' = (stray \/ ~bulk_ep \/ (pc1 = "pump" /\ reset_toggle_req))
          BY Zenon DEF WritePublish
        <5> QED
          BY <2>2, <5>1, Zenon
      <4> QED
        BY <1>0, <2>0, <3>1, <4>1, HeadWriters
    <3> QED
      BY <1>a, <2>0, <3>2
  <2>3. CASE reset_toggle_req /\ pc1 # "pump"
    <3>1. Unsent /\ pc1 \notin {"pump", "txn"}
      BY <2>0, <2>3
    <3>2. Unsent'
      BY <1>0, <1>3, <2>0, <3>1, UnsentStays
    <3>3. pc1' \notin {"pump", "txn"}
      <4>1. ~(RunPump /\ bulk_ep)
        <5>1. RunPump /\ bulk_ep /\ reset_toggle_req => reset_toggle_req' = FALSE
          BY Zenon DEF RunPump
        <5> QED
          BY <2>3, <5>1, Zenon
      <4> QED
        BY <1>0, <3>1, <4>1, PumpEntry
    <3> QED
      BY <3>2, <3>3
  <2> QED
    BY <2>1, <2>2, <2>3
<1> QED
  BY <1>1, <1>2, <1>3

\* An acknowledged packet, or one whose ACK is lost, keeps the two ends in
\* agreement.
LEMMA PacketTaken ==
  ASSUME EngineInv, pc1 = "txn", dev' = Received,
         \/ dev.tog = bulk_toggle /\ dev.got = Positions(base, ring_tail - base)
         \/ dev.tog # bulk_toggle
            /\ dev.got = Positions(base, ring_tail + pkt.len - base)
  PROVE  /\ pkt.valid /\ dev'.tog # bulk_toggle /\ dev'.tog = 1 - bulk_toggle
         /\ dev'.got = Positions(base, ring_tail + pkt.len - base)
<1>1. pkt.valid
  BY DEF EngineInv, RingInv, PacketReady
<1>2. pkt.tog = bulk_toggle /\ dev \in Devices
  BY <1>1 DEF EngineInv, SessionInv, PacketToggle, TypeOK, DataOK
<1>3. /\ base \in Nat /\ ring_tail \in Nat /\ base <= ring_tail
      /\ pkt.len \in Nat /\ bulk_toggle \in 0..1 /\ dev.tog \in 0..1
      /\ pkt.data = Positions(ring_tail, pkt.len)
  BY <1>1, RingNumbers
<1>4. CASE dev.tog = bulk_toggle /\ dev.got = Positions(base, ring_tail - base)
  <2>1. dev'.tog = 1 - dev.tog /\ dev'.got = dev.got \o pkt.data
    BY <1>2, <1>4, ReceivedKinds
  <2>2. /\ ring_tail - base \in Nat /\ base + (ring_tail - base) = ring_tail
        /\ ring_tail - base + pkt.len = ring_tail + pkt.len - base
    BY <1>3
  <2>3. Positions(base, ring_tail - base) \o Positions(base + (ring_tail - base), pkt.len)
          = Positions(base, ring_tail - base + pkt.len)
    BY <1>3, <2>2, PositionsConcat
  <2>4. dev'.got = Positions(base, ring_tail + pkt.len - base)
    BY <1>3, <1>4, <2>1, <2>2, <2>3, Zenon
  <2>5. dev'.tog # bulk_toggle /\ dev'.tog = 1 - bulk_toggle
    BY <1>3, <1>4, <2>1
  <2> QED
    BY <1>1, <2>4, <2>5
<1>5. CASE /\ dev.tog # bulk_toggle
           /\ dev.got = Positions(base, ring_tail + pkt.len - base)
  <2>1. dev' = dev
    BY <1>2, <1>5, ReceivedKinds
  <2>2. dev.tog = 1 - bulk_toggle
    BY <1>3, <1>5
  <2> QED
    BY <1>1, <1>5, <2>1, <2>2
<1> QED
  BY <1>4, <1>5

\* The endpoint is given in a session in which no byte was written yet.
LEMMA EndpointGiven ==
  ASSUME StackInv, Course, [DispNext]_stackVars, ~Down, ~bulk_ep, bulk_ep'
  PROVE  Caller /\ Blank
<1>1. Caller /\ todo = 8 /\ hal = "WAIT_DEVICE"
  BY EndpointGivers
<1> QED
  BY <1>1 DEF Course, Ending, MuteBlank, Down

\* The toggles and the bytes of the two ends stay in agreement.
LEMMA StreamAgreesStep ==
  ASSUME StackInv, Course, ConfigPending, FreshToggle,
         StreamAgrees, [DispNext]_stackVars
  PROVE  StreamAgrees'
<1> USE DEF StreamAgrees
<1>0. /\ (Environment \/ Caller) /\ [EngineStep]_vars /\ EngineInv /\ TypeOK
      /\ base \in Nat /\ ring_tail \in Nat /\ pkt.len \in Nat
  BY DispTypeParts, StackIsEngine, RingNumbers DEF StackInv
<1>1. CASE Down'
  BY <1>1 DEF Down
<1>2. CASE Down /\ ~Down'
  BY <1>2, SessionStarts
<1>3. CASE ~Down /\ ~Down'
  <2> SUFFICES ASSUME bulk_ep', dev'.cfg, ~stray', ~dev'.halt
               PROVE  \/ /\ dev'.tog = bulk_toggle'
                         /\ dev'.got = Positions(base', ring_tail' - base')
                      \/ /\ pkt'.valid /\ dev'.tog # bulk_toggle'
                         /\ dev'.got = Positions(base', ring_tail' + pkt'.len - base')
    OBVIOUS
  <2>0. /\ ~stray /\ base' = base /\ ~ClearTransfers /\ ~AdvanceDetect
        /\ hs = "RUN" /\ hs' = "RUN"
    BY <1>3, SessionGoesOn DEF Down
  <2>u. Unwritten => Unsent /\ bulk_toggle = 0
    BY <1>0, UnwrittenUnsent
  <2>e. Positions(base, base - base) = <<>>
    <3>1. base - base = 0
      BY <1>0
    <3> QED
      BY <3>1 DEF Positions
  <2>n. ~bulk_ep => Caller /\ Unwritten
    BY <1>3, <2>0, EndpointGiven DEF Blank, Unwritten
  <2>1. CASE Caller
    <3>1. UNCHANGED <<dev, ring_tail, pkt, bulk_toggle>>
      BY <1>0, <2>1, CallerSteps, Zenon
    <3>2. dev.cfg /\ ~dev.halt
      BY <3>1, Zenon
    <3>3. CASE bulk_ep
      BY <2>0, <3>1, <3>2, <3>3
    <3>4. CASE ~bulk_ep
      <4>1. Unsent /\ bulk_toggle = 0
        BY <2>n, <2>u, <3>4
      <4> QED
        BY <2>0, <2>e, <3>1, <4>1 DEF Unsent
    <3> QED
      BY <3>3, <3>4
  <2>2. CASE Environment /\ ~Caller
    <3>0. bulk_ep
      BY <2>2, <2>n
    <3>1. CASE UNCHANGED dev
      <4>0. dev.cfg /\ ~dev.halt
        BY <3>1, Zenon
      <4>1. \/ dev.tog = bulk_toggle /\ dev.got = Positions(base, ring_tail - base)
            \/ /\ pkt.valid /\ dev.tog # bulk_toggle
               /\ dev.got = Positions(base, ring_tail + pkt.len - base)
        BY <2>0, <3>0, <4>0
      <4>2. CASE TxnAck
        <5>1. dev' = Received /\ pc1 = "txn" /\ ring_tail' = ring_tail + pkt.len
              /\ bulk_toggle' = 1 - bulk_toggle
          BY <4>2 DEF TxnAck
        <5> QED
          BY <1>0, <2>0, <4>1, <5>1, PacketTaken
      <4>3. CASE RunPump
        <5>1. UNCHANGED ring_tail
          BY <4>3, Zenon DEF RunPump, ringVars
        <5>2. CASE UNCHANGED <<pkt, bulk_toggle>>
          BY <2>0, <3>1, <4>1, <5>1, <5>2
        <5>3. CASE ~UNCHANGED <<pkt, bulk_toggle>>
          <6>1. reset_toggle_req /\ bulk_toggle' = 0 /\ pc1 = "top"
            BY <4>3, <5>3, Zenon DEF RunPump
          <6>2. Unsent
            BY <2>0, <6>1 DEF FreshToggle
          <6> QED
            BY <2>0, <2>e, <3>1, <5>1, <6>1, <6>2 DEF Unsent
        <5> QED
          BY <5>2, <5>3
      <4>4. CASE PumpPrepare
        <5>1. ~pkt.valid /\ UNCHANGED <<ring_tail, bulk_toggle>>
          BY <4>4, Zenon DEF PumpPrepare, ringVars
        <5> QED
          BY <2>0, <3>1, <4>1, <5>1
      <4>5. CASE TxnStall
        <5>1. dev'.halt
          BY <1>0, <4>5 DEF TxnStall, TypeOK, DataOK, Devices
        <5> QED
          BY <5>1, Zenon
      <4>6. CASE UNCHANGED <<ring_tail, pkt, bulk_toggle>>
        BY <2>0, <3>1, <4>1, <4>6
      <4> QED
        BY <1>0, <2>0, <4>2, <4>3, <4>4, <4>5, <4>6, TailWriters, PacketWriters
    <3>2. CASE Plug
      <4>1. ~dev'.cfg
        BY <3>2 DEF Plug, Fresh
      <4> QED
        BY <4>1, Zenon
    <3>3. CASE TxnStall
      <4>1. dev'.halt
        BY <1>0, <3>3 DEF TxnStall, TypeOK, DataOK, Devices
      <4> QED
        BY <4>1, Zenon
    <3>4. CASE TxnAck \/ TxnAckLost
      <4>1. dev' = Received /\ pc1 = "txn"
        BY <3>4 DEF TxnAck, TxnAckLost
      <4>2. dev.cfg /\ ~dev.halt
        BY <3>4 DEF TxnAck, TxnAckLost, Listening
      <4>3. \/ dev.tog = bulk_toggle /\ dev.got = Positions(base, ring_tail - base)
            \/ dev.tog # bulk_toggle
               /\ dev.got = Positions(base, ring_tail + pkt.len - base)
        BY <2>0, <3>0, <4>2
      <4>4. /\ pkt.valid /\ dev'.tog # bulk_toggle /\ dev'.tog = 1 - bulk_toggle
            /\ dev'.got = Positions(base, ring_tail + pkt.len - base)
        BY <1>0, <4>1, <4>3, PacketTaken
      <4>5. CASE TxnAck
        <5>1. ring_tail' = ring_tail + pkt.len /\ bulk_toggle' = 1 - bulk_toggle
          BY <4>5 DEF TxnAck
        <5>2. ring_tail' - base' = ring_tail + pkt.len - base
          BY <1>0, <2>0, <5>1
        <5>3. dev'.got = Positions(base', ring_tail' - base')
          BY <1>0, <2>0, <4>4, <5>2
        <5> QED
          BY <4>4, <5>1, <5>3
      <4>6. CASE TxnAckLost
        <5>1. UNCHANGED <<ring_tail, pkt, bulk_toggle>>
          BY <4>6, Zenon DEF TxnAckLost, ringVars
        <5> QED
          BY <2>0, <4>4, <5>1
      <4> QED
        BY <3>4, <4>5, <4>6
    <3>5. CASE \E result \in {"OK", "FAIL"} : ControlTaken(result)
      <4>1. /\ pc1 = "ctl" /\ dev' = Performed(ctrl.op)
            /\ UNCHANGED <<ring_tail, pkt, bulk_toggle>>
        BY <3>5, Zenon DEF ControlTaken, ringVars, pktVars
      <4>2. ctrl.op \in Requests /\ dev \in Devices /\ ctrl.req = 1
        BY <1>0, <4>1 DEF EngineInv, MailboxTaken, TypeOK, DataOK, Mailboxes
      <4>3. CASE ctrl.op = "cfg"
        <5>1. Unsent /\ bulk_toggle = 0
          BY <2>0, <2>u, <4>2, <4>3 DEF ConfigPending, MuteBlank, Blank, Unwritten
        <5>2. dev'.tog = 0 /\ dev'.got = <<>>
          BY <4>1, <4>2, <4>3, PerformedKinds
        <5> QED
          BY <2>0, <2>e, <4>1, <5>1, <5>2 DEF Unsent
      <4>4. CASE ctrl.op # "cfg"
        <5>1. /\ dev'.tog = dev.tog /\ dev'.got = dev.got
              /\ dev'.cfg = dev.cfg /\ dev'.halt = dev.halt
          BY <4>1, <4>2, <4>4, PerformedKinds
        <5>2. dev.cfg /\ ~dev.halt
          BY <5>1, Zenon
        <5> QED
          BY <2>0, <3>0, <4>1, <5>1, <5>2
      <4> QED
        BY <4>3, <4>4
    <3> QED
      BY <1>0, <2>0, <3>1, <3>2, <3>3, <3>4, <3>5, DeviceWriters
  <2> QED
    BY <1>0, <2>1, <2>2
<1> QED
  BY <1>1, <1>2, <1>3

-----------------------------------------------------------------------------
(* The mode of a display.                                                  *)

\* The HAL gives a device up together with the display's mode, or at the
\* application's own request, or the display notices next.
GivenUp == hal # "ATTACHED" => forced \/ phase = "disp" \/ stage = "WAIT_DEVICE"

\* With an endpoint in place the mode is one of this session.
ModeOfSession == moded /\ ~forced /\ bulk_ep => inited

\* The endpoint is in place while the port is down only when an enumeration did
\* not see the port go down: then the display has no mode yet.
EndpointDown ==
  Down /\ bulk_ep =>
    /\ forced \/ ~moded
    /\ phase = "flush" => pc0 = "idle" /\ ~call.ok

ModeInv == GivenUp /\ ModeOfSession /\ EndpointDown

\* Who forgets that the re-enumeration was asked for.
LEMMA ForcedWriters ==
  ASSUME Caller, StackInv
  PROVE  (forced => forced') \/ ~moded'
<1>1. CASE PollBegin \/ PollHal \/ AppUpdate \/ AppFlush \/ AppSetMode \/ AppDiag
           \/ UNCHANGED stackVars
  BY <1>1, Zenon
     DEF PollBegin, PollHal, AppUpdate, AppFlush, AppSetMode, AppDiag, stackVars,
         history
<1>2. CASE AppReenum
  <2>1. forced' = (stage # "WAIT_DEVICE") /\ moded' = moded
    BY <1>2, Zenon DEF AppReenum, dispVars
  <2> QED
    BY <2>1 DEF StackInv, DisplayShape
<1>3. CASE SwitchGone \/ SwitchPeriodic
  BY <1>3, Zenon DEF SwitchGone, SwitchPeriodic, ResetDeviceState
<1>4. CASE \/ SwitchQuiet \/ SwitchUnsupported \/ SwitchAttached \/ SwitchAttach
           \/ SwitchEdid
  BY <1>4, Zenon
     DEF SwitchQuiet, SwitchUnsupported, SwitchAttached, SwitchAttach, SwitchEdid,
         history
<1>5. CASE EdidMissing \/ EdidRead \/ ModeWritten \/ ModeSet \/ ModeFailed
  BY <1>5, Zenon
     DEF EdidMissing, EdidRead, ModeWritten, ModeSet, ModeFailed, history
<1> QED
  BY <1>1, <1>2, <1>3, <1>4, <1>5, Zenon DEF Caller, DispPoll, App

\* Who gives the display a mode.
LEMMA ModeWriters ==
  ASSUME Caller
  PROVE  \/ UNCHANGED inited /\ (moded' => moded)
         \/ /\ ModeSet /\ inited' = bulk_ep /\ phase = "flush" /\ call.ok
            /\ UNCHANGED <<vars, forced>> /\ phase' = "app"
<1>1. CASE PollBegin \/ PollHal \/ App \/ UNCHANGED stackVars
  BY <1>1, Zenon
     DEF PollBegin, PollHal, App, AppUpdate, AppFlush, AppSetMode, AppReenum,
         AppDiag, stackVars, history, dispVars
<1>2. CASE \/ SwitchGone \/ SwitchQuiet \/ SwitchUnsupported \/ SwitchAttached
           \/ SwitchPeriodic \/ SwitchAttach \/ SwitchEdid
  BY <1>2, Zenon
     DEF SwitchGone, SwitchQuiet, SwitchUnsupported, SwitchAttached, SwitchPeriodic,
         SwitchAttach, SwitchEdid, ResetDeviceState, history
<1>3. CASE EdidMissing \/ EdidRead \/ ModeWritten \/ ModeFailed
  BY <1>3, Zenon DEF EdidMissing, EdidRead, ModeWritten, ModeFailed, history
<1>4. CASE ModeSet
  BY <1>4, Zenon DEF ModeSet, PollEnd, allVars
<1> QED
  BY <1>1, <1>2, <1>3, <1>4, Zenon DEF Caller, DispPoll

\* The endpoint is given to a display without a mode of its own.
LEMMA EndpointUnmoded ==
  ASSUME StackInv, GivenUp, [DispNext]_stackVars, ~bulk_ep, bulk_ep'
  PROVE  (forced' \/ ~moded') /\ phase' # "flush" /\ hs' = hs
<1>1. /\ Caller /\ PollHal /\ todo' = 9 /\ phase = "hal" /\ hal = "WAIT_DEVICE"
  BY EndpointGivers
<1>2. forced \/ ~moded
  BY <1>1 DEF GivenUp, StackInv, DisplayShape
<1>3. UNCHANGED <<forced, moded>> /\ phase' \in {"hal", "disp"}
  BY <1>1, Zenon DEF PollHal, history
<1>4. hs' = hs
  BY <1>1, CallerSteps DEF StackInv, EngineInv
<1> QED
  BY <1>2, <1>3, <1>4

\* No step gives up a device unnoticed.
LEMMA GivenUpStep ==
  ASSUME StackInv, GivenUp, [DispNext]_stackVars
  PROVE  GivenUp'
<1> USE DEF GivenUp
<1>0. (Environment \/ Caller) /\ todo \in Nat
  BY DispTypeParts, StackIsEngine DEF StackInv, CallerTypes
<1>s. stage = "WAIT_DEVICE" => ~moded
  BY DEF StackInv, DisplayShape
<1>1. CASE Environment
  <2>1. UNCHANGED <<hal, phase, stage>> /\ UNCHANGED forced
    BY <1>1, EnvironmentSteps DEF Environment, EnvStep
  <2> QED
    BY <2>1
<1>2. CASE PollHal
  <2>1. /\ HalPoll /\ phase = "hal" /\ phase' = IF todo' = 0 THEN "disp" ELSE "hal"
        /\ UNCHANGED <<stage, forced>>
    BY <1>2, Zenon DEF PollHal, history
  <2>2. todo' = 0 \/ hal' = hal
    BY <1>0, <2>1, HalPollMoves, Zenon
  <2> QED
    BY <2>1, <2>2
<1>3. CASE SwitchPeriodic
  BY <1>3 DEF SwitchPeriodic, ResetDeviceState
<1>4. CASE AppReenum
  <2>1. forced' = (stage # "WAIT_DEVICE") /\ stage' = stage
    BY <1>4, Zenon DEF AppReenum, dispVars
  <2> QED
    BY <2>1
<1>5. CASE Caller /\ ~PollHal /\ ~AppReenum /\ UNCHANGED <<hal, todo>>
  <2> SUFFICES ASSUME hal # "ATTACHED"
               PROVE  forced' \/ phase' = "disp" \/ stage' = "WAIT_DEVICE"
    BY <1>5
  <2>0. phase # "attach"
    BY DEF StackInv, EnumShape
  <2>1. CASE phase = "disp"
    BY <1>5, <2>1, GoneNoticed
  <2>2. CASE stage = "WAIT_DEVICE"
    <3>1. phase \notin {"edid", "write", "flush"}
      BY <2>2 DEF StackInv, DisplayShape, Up
    <3>2. stage' # "FAILED" \/ stage' = stage \/ phase = "disp"
      <4>1. CASE SwitchUnsupported
        BY <2>0, <4>1 DEF SwitchUnsupported, AtSwitch
      <4>2. CASE ~SwitchUnsupported
        <5>1. stage' = stage \/ stage' = "WAIT_DEVICE" \/ stage' = "READY"
              \/ stage' = "MODE_SETUP"
          BY <1>5, <4>2, DispAssumption, Zenon
             DEF Caller, DispPoll, App, PollBegin, SwitchGone, SwitchQuiet,
                 SwitchAttach, SwitchAttached, SwitchEdid, SwitchPeriodic,
                 ResetDeviceState, EdidMissing, EdidRead, ModeWritten, ModeSet,
                 ModeFailed, AppUpdate, AppFlush, AppSetMode, AppDiag, stackVars,
                 dispVars
        <5> QED
          BY <2>2, <5>1
      <4> QED
        BY <4>1, <4>2
    <3>3. CASE phase # "disp"
      BY <1>5, <2>0, <2>2, <3>1, <3>2, <3>3, StageWriters
    <3> QED
      BY <2>1, <3>3
  <2>3. CASE forced /\ phase # "disp" /\ stage # "WAIT_DEVICE"
    <3>1. CASE SwitchGone \/ SwitchPeriodic
      BY <2>3, <3>1 DEF SwitchGone, SwitchPeriodic, AtSwitch
    <3>2. CASE ~SwitchGone /\ ~SwitchPeriodic
      <4>1. UNCHANGED forced
        BY <1>5, <3>2, Zenon
           DEF Caller, DispPoll, App, PollBegin, SwitchQuiet, SwitchUnsupported,
               SwitchAttach, SwitchAttached, SwitchEdid, EdidMissing, EdidRead,
               ModeWritten, ModeSet, ModeFailed, AppUpdate, AppFlush, AppSetMode,
               AppDiag, stackVars, history
      <4> QED
        BY <2>3, <4>1
    <3> QED
      BY <3>1, <3>2
  <2> QED
    BY <2>1, <2>2, <2>3
<1> QED
  BY <1>0, <1>1, <1>2, <1>3, <1>4, <1>5, HalWriters, Zenon

\* The mode stays one of the session.
LEMMA ModeOfSessionStep ==
  ASSUME StackInv, ModeInv, [DispNext]_stackVars
  PROVE  ModeOfSession'
<1> USE DEF ModeInv, ModeOfSession
<1>0. Environment \/ Caller
  BY StackIsEngine DEF StackInv, EngineInv
<1> SUFFICES ASSUME moded', ~forced', bulk_ep'
             PROVE  inited'
  OBVIOUS
<1>1. bulk_ep
  BY EndpointUnmoded
<1>2. CASE Environment
  <2>1. UNCHANGED moded /\ UNCHANGED forced /\ inited' = (inited /\ hs' # "RESET")
    BY <1>2, EnvironmentSteps, Zenon DEF Environment, EnvStep
  <2>2. inited
    BY <1>1, <2>1, Zenon
  <2>3. hs' # "RESET"
    <3>1. ~UNCHANGED hs => hs' # "RESET" \/ AdvanceDetect
      BY StackIsEngine, StateWriters
         DEF StackInv, EngineInv, AdvanceReset, WarmupLost, WarmupDone, RunLost,
             EnterDetect
    <3>2. hs' = "RESET" => Down
      BY <3>1 DEF AdvanceDetect, Down
    <3>3. ~Down
      BY <1>1, <2>1, Zenon DEF EndpointDown
    <3> QED
      BY <3>2, <3>3
  <2> QED
    BY <2>1, <2>2, <2>3, Zenon
<1>3. CASE Caller
  <2>1. CASE UNCHANGED inited /\ (moded' => moded)
    <3>1. ~forced
      BY <1>3, ForcedWriters, Zenon
    <3> QED
      BY <1>1, <2>1, <3>1, Zenon
  <2>2. CASE inited' = bulk_ep
    BY <1>1, <2>2, Zenon
  <2> QED
    BY <1>3, <2>1, <2>2, ModeWriters, Zenon
<1> QED
  BY <1>0, <1>2, <1>3

\* No mode is set while the port is down and the endpoint in place.
LEMMA EndpointDownStep ==
  ASSUME StackInv, ModeInv, [DispNext]_stackVars
  PROVE  EndpointDown'
<1> USE DEF ModeInv, EndpointDown
<1>0. (Environment \/ Caller) /\ [EngineStep]_vars /\ TypeOK
  BY DispTypeParts, StackIsEngine DEF StackInv
<1> SUFFICES ASSUME Down', bulk_ep'
             PROVE  /\ forced' \/ ~moded'
                    /\ phase' = "flush" => pc0' = "idle" /\ ~call'.ok
  OBVIOUS
<1>1. CASE ~bulk_ep
  BY <1>1, EndpointUnmoded
<1>2. CASE bulk_ep
  <2>1. Down
    <3>1. RunLost => ~bulk_ep'
      BY DEF RunLost, EnterDetect
    <3> QED
      BY <1>0, <3>1, UpDown
  <2>2. /\ forced \/ ~moded
        /\ phase = "flush" => pc0 = "idle" /\ ~call.ok
    BY <1>2, <2>1
  <2>3. CASE Environment
    <3>1. UNCHANGED <<moded, phase>> /\ UNCHANGED forced
      BY <2>3, EnvironmentSteps, Zenon DEF Environment, EnvStep
    <3>2. pc0 = "idle" => UNCHANGED <<pc0, call>>
      BY <2>3, FunctionSteps
    <3> QED
      BY <2>2, <3>1, <3>2
  <2>4. CASE Caller
    <3>1. forced' \/ ~moded'
      <4>1. CASE moded' => moded
        BY <2>2, <2>4, <4>1, ForcedWriters, Zenon
      <4>2. CASE phase = "flush" /\ call.ok
        BY <2>2, <4>2
      <4> QED
        BY <2>4, <4>1, <4>2, ModeWriters, Zenon
    <3>2. ASSUME phase' = "flush"
          PROVE  pc0' = "idle" /\ ~call'.ok
      <4>1. CASE UNCHANGED phase
        <5>1. phase = "flush" /\ pc0 = "idle" /\ ~call.ok
          BY <2>2, <3>2, <4>1
        <5>2. UNCHANGED vars
          BY <2>4, <4>1, <5>1, Zenon
             DEF Caller, DispPoll, App, PollBegin, PollHal, SwitchGone, SwitchQuiet,
                 SwitchUnsupported, SwitchAttached, SwitchPeriodic, SwitchAttach,
                 SwitchEdid, EdidMissing, EdidRead, ModeWritten, ModeSet, ModeFailed,
                 AppUpdate, AppFlush, AppSetMode, AppReenum, AppDiag, AtSwitch,
                 stackVars, allVars
        <5> QED
          BY <5>1, <5>2 DEF vars
      <4>2. CASE ~UNCHANGED phase
        <5>1. ModeWritten
          BY <2>4, <3>2, <4>2
             DEF Caller, DispPoll, App, PollBegin, PollHal, SwitchGone, SwitchQuiet,
                 SwitchUnsupported, SwitchAttached, SwitchPeriodic, SwitchAttach,
                 SwitchEdid, EdidMissing, EdidRead, ModeSet, ModeFailed, SetMode,
                 PollEnd, AppUpdate, AppFlush, AppSetMode, AppReenum, AppDiag,
                 stackVars, dispVars
        <5>2. pc0' = "idle" /\ call' = Returned(FALSE)
          BY <2>1, <5>1, Zenon DEF ModeWritten, FlushCall, Down, Running
        <5> QED
          BY <5>2 DEF Returned
      <4> QED
        BY <4>1, <4>2
    <3> QED
      BY <3>1, <3>2
  <2> QED
    BY <1>0, <2>3, <2>4
<1> QED
  BY <1>1, <1>2

-----------------------------------------------------------------------------
(* The theorems.                                                           *)

\* What holds of a stack, however often its application polls.
StreamInv ==
  StackInv /\ Course /\ ConfigPending /\ FreshToggle /\ StreamAgrees /\ ModeInv

\* It is inductive.
LEMMA StreamInvStep ==
  ASSUME StreamInv, [DispNext]_stackVars
  PROVE  StreamInv'
<1> USE DEF StreamInv
<1>1. ModeInv'
  BY GivenUpStep, ModeOfSessionStep, EndpointDownStep DEF ModeInv
<1> QED
  BY <1>1, StackStep, CourseStep, ConfigPendingStep, FreshToggleStep,
     StreamAgreesStep

\* It holds when the port starts.
LEMMA StreamInvInit == DispInit => StreamInv
<1> SUFFICES ASSUME DispInit PROVE StreamInv
  OBVIOUS
<1>1. /\ hs = "DETECT" /\ hal = "WAIT_DEVICE" /\ todo = 0 /\ ctrl = NoMail
      /\ stage = "WAIT_DEVICE" /\ pc0 = "idle" /\ phase = "app"
  BY DEF DispInit, HalInit, Init
<1>2. ~moded /\ ~bulk_ep
  BY Zenon DEF DispInit, HalInit, Init
<1>3. Course /\ ConfigPending
  BY <1>1 DEF Course, ConfigPending, MuteBlank, Mute, NoMail
<1>4. ModeInv
  BY <1>1, <1>2 DEF ModeInv, GivenUp, ModeOfSession, EndpointDown
<1> QED
  BY <1>1, <1>3, <1>4, StackInvInit DEF StreamInv, FreshToggle, StreamAgrees

\* The theorems about a session rest on it alone: no assumption is made on when
\* the application polls, nor on which faults there are.
LEMMA StreamInvariant == DispSpec => []StreamInv
<1>1. StreamInv /\ [DispNext]_stackVars => StreamInv'
  BY StreamInvStep
<1> QED
  BY <1>1, StreamInvInit, PTL DEF DispSpec

\* The two ways to write an interval of the stream.
LEMMA SpanPositions ==
  ASSUME NEW p \in Int, NEW q \in Int
  PROVE  Span(p, q) = Positions(p, q - p)
  BY DEF Span, Positions

\* StreamExact: in a session whose stream is set up, which no write of an
\* earlier session reaches into, the device has every byte that core 1 counts
\* as sent, in order and once, and besides at most the packet whose ACK was
\* lost: through losses, NAKs, retries, disconnections and enumerations.
THEOREM StreamIsExact == DispSpec => []StreamExact
<1>1. ASSUME StreamInv, StreamUp, ~dev.halt
      PROVE  \/ dev.got = Span(base, ring_tail)
             \/ pkt.valid /\ dev.got = Span(base, ring_tail + pkt.len)
  <2>1. \/ dev.got = Positions(base, ring_tail - base)
        \/ pkt.valid /\ dev.got = Positions(base, ring_tail + pkt.len - base)
    BY <1>1, Zenon DEF StreamInv, StreamAgrees, StreamUp, Running
  <2> QED
    <3>1. /\ base \in Int /\ ring_tail \in Int /\ ring_tail + pkt.len \in Int
          /\ (ring_tail + pkt.len) - base = ring_tail + pkt.len - base
      BY <1>1, RingNumbers DEF StreamInv, StackInv
    <3>2. Span(base, ring_tail) = Positions(base, ring_tail - base)
      BY <3>1, SpanPositions
    <3>3. Span(base, ring_tail + pkt.len) = Positions(base, ring_tail + pkt.len - base)
      BY <3>1, SpanPositions
    <3> QED
      BY <2>1, <3>2, <3>3
<1>2. StreamInv => StreamExact
  BY <1>1, Zenon DEF StreamExact
<1> QED
  BY <1>2, StreamInvariant, PTL

\* DrawsOnSetDisplay: whatever the application draws on a display with a running
\* bulk stream, the mode of that display was set in this session of the port;
\* the port may have gone down and come back between any two polls, or inside
\* one.
THEOREM DrawsAfterSetMode == DispSpec => []DrawsOnSetDisplay
<1>1. StreamInv => DrawsOnSetDisplay
  BY Zenon DEF StreamInv, ModeInv, ModeOfSession, DrawsOnSetDisplay
<1> QED
  BY <1>1, StreamInvariant, PTL

\* FlushDelivers: a flush returns true only when the device has every byte of
\* the session, or the endpoint halted, or a write of an earlier session reached
\* into this one, or the session ended or its device was pulled.
THEOREM FlushIsDelivery == DispSpec => FlushDelivers
<1>1. ASSUME StreamInv, FlushDone, StreamUp, ~dev.halt
      PROVE  dev.got = Span(base, ring_head)
  <2>1. /\ base \in Nat /\ ring_tail \in Nat /\ ring_head \in Nat
        /\ ring_tail <= ring_head /\ pkt.len \in Nat
        /\ pkt.valid => pkt.len > 0 /\ pkt.len <= ring_head - ring_tail
    BY <1>1, RingNumbers DEF StreamInv, StackInv
  <2>2. ~(ring_count > 0)
    BY <1>1, Zenon DEF FlushDone, FlushPending
  <2>3. ring_tail = ring_head /\ ~pkt.valid
    BY <2>1, <2>2 DEF ring_count
  <2> QED
    BY <1>1, <2>3 DEF StreamInv, StreamAgrees, StreamUp, Running, Positions, Span
<1>2. StreamInv =>
        (FlushDone => \/ dev.got = Span(base, ring_head)
                      \/ dev.halt \/ stray
                      \/ ~Running \/ ~bulk_ep \/ ~dev.cfg)
  BY <1>1, Zenon DEF StreamUp
<1>3. StreamInv => [FlushDone => \/ dev.got = Span(base, ring_head)
                                 \/ dev.halt \/ stray
                                 \/ ~Running \/ ~bulk_ep \/ ~dev.cfg]_allVars
  BY <1>2
<1> QED
  BY <1>3, StreamInvariant, PTL DEF FlushDelivers

=============================================================================
