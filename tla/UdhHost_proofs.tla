--------------------------- MODULE UdhHost_proofs ---------------------------
(***************************************************************************)
(* Theorems about the host engine of UdhHost: for every ring and packet    *)
(* size, every set of faults and every caller.                             *)
(***************************************************************************)
EXTENDS UdhHost, SequenceTheorems, TLAPS

USE DEF wireVars, schedVars, flagVars, targetVars, ringVars, pktVars,
        core0Vars, histVars, core1Vars

-----------------------------------------------------------------------------
(* What the proofs rely on: any caller at all, of which AnyCall, with the  *)
(* bounds and faults of the engine's runs, is one and DispPico another.    *)

Request ==
  \/ \E op \in Requests, a \in Addresses : ControlCall(op, a)
  \/ \E len \in Nat : WriteCall(len)
  \/ FlushCall
  \/ \E a \in Addresses : SetDevice(a)
  \/ SetBulkOut
  \/ RequestReenum
  \/ DiagStart

EngineStep == Unplug \/ Plug \/ Core1 \/ Core0 \/ Request

\* The module's own callers are among them.
LEMMA NextIsEngineStep == [Next]_vars => [EngineStep]_vars
<1>1. \A len \in 1..MaxWrite : len \in Nat
  BY ConstantAssumption
<1> QED
  BY <1>1, Zenon DEF Next, AnyCall, EngineStep, Request

-----------------------------------------------------------------------------
(* Lemmas about the ring.                                                  *)

\* A position has a slot.
LEMMA SlotType == \A p \in Nat : Slot(p) \in Slots
  BY ConstantAssumption DEF Slot, Slots

\* Positions less than a ring apart have different slots.
LEMMA SlotInjective ==
  ASSUME NEW p \in Nat, NEW q \in Nat, p < q, q < p + RingSize
  PROVE  Slot(p) # Slot(q)
<1> DEFINE a == p \div RingSize
           b == q \div RingSize
<1>1. RingSize \in Nat /\ RingSize > 0
  BY ConstantAssumption
<1>2. a \in Int /\ p = RingSize * a + Slot(p)
  BY <1>1 DEF Slot
<1>3. b \in Int /\ q = RingSize * b + Slot(q)
  BY <1>1 DEF Slot
<1>4. Slot(p) \in Int /\ Slot(q) \in Int
  BY <1>1 DEF Slot
<1>5. SUFFICES ASSUME Slot(p) = Slot(q) PROVE FALSE
  OBVIOUS
<1> HIDE DEF a, b
<1>6. q - p = RingSize * (b - a)
  BY <1>1, <1>2, <1>3, <1>4, <1>5
<1>7. b - a >= 1
  BY <1>1, <1>2, <1>3, <1>6, b - a <= 0 => RingSize * (b - a) <= 0
<1>8. RingSize * (b - a) >= RingSize
  BY <1>1, <1>2, <1>3, <1>7
<1> QED
  BY <1>1, <1>6, <1>8

\* pick_chunk gives no more than a packet holds, and no more than there is.
LEMMA PickChunk ==
  ASSUME ring_head \in Nat, ring_tail \in Nat, pick_chunk > 0
  PROVE  pick_chunk \in 1..Mps /\ pick_chunk <= ring_count
  BY ConstantAssumption DEF pick_chunk, ring_count

\* What ring_peek returns is a sequence of that length.
LEMMA PeekType ==
  ASSUME ring \in [Slots -> Nat], ring_tail \in Nat, NEW n \in Nat
  PROVE  /\ ring_peek(n) \in Seq(Nat)
         /\ Len(ring_peek(n)) = n
         /\ DOMAIN ring_peek(n) = 1..n
<1>1. \A i \in 1..n : ring_tail + i - 1 \in Nat
  OBVIOUS
<1>2. \A i \in 1..n : ring[Slot(ring_tail + i - 1)] \in Nat
  BY <1>1, SlotType
<1>3. ring_peek(n) \in [1..n -> Nat]
  BY <1>2 DEF ring_peek
<1>4. ring_peek(n) \in Seq(Nat)
  BY <1>3, SeqDef
<1> QED
  BY <1>3, <1>4, LenProperties

\* What bulk_write copies into the ring.
LEMMA CopyType ==
  ASSUME ring \in [Slots -> Nat], ring_head \in Nat, NEW n \in Nat,
         NEW new,
         new = [s \in Slots |->
                  IF \E p \in ring_head..(ring_head + n - 1) : Slot(p) = s
                    THEN CHOOSE p \in ring_head..(ring_head + n - 1) : Slot(p) = s
                    ELSE ring[s]]
  PROVE  new \in [Slots -> Nat]
  BY DEF Slots

-----------------------------------------------------------------------------
(* The types of the records the actions build.                             *)

\* The empty packet,
LEMMA NoPktType == NoPkt \in Packets
  BY ConstantAssumption, EmptySeq DEF NoPkt, Packets, Addresses

\* a device after a bus reset,
LEMMA FreshType == Fresh \in Devices
  BY EmptySeq DEF Fresh, Devices, Addresses

\* the frame of core 0 between two calls,
LEMMA ReturnedType == \A ok \in BOOLEAN : Returned(ok) \in Calls
  BY DEF Returned, Calls, Functions, Addresses

\* the frame of a call,
LEMMA CalledType ==
  ASSUME NEW op \in Functions, NEW a \in Addresses, NEW len \in Nat
  PROVE  Called(op, a, len) \in Calls
  BY DEF Called, Calls

\* an answered mailbox,
LEMMA FinishedType ==
  \A result \in {"OK", "FAIL"} : Finished(result) \in Mailboxes
  BY DEF Finished, NoMail, Mailboxes, Requests, Addresses

\* and the device after a control request have their types.
LEMMA PerformedType ==
  ASSUME dev \in Devices, NEW op \in Requests
  PROVE  Performed(op) \in Devices
<1> DEFINE configured == [Fresh EXCEPT !.addr = dev.addr]
<1>1. configured \in Devices
  BY FreshType DEF Devices
<1>2. [Fresh EXCEPT !.addr = dev.addr, !.cfg = TRUE]
        = [configured EXCEPT !.cfg = TRUE]
  BY FreshType DEF Devices
<1> HIDE DEF configured
<1>3. [configured EXCEPT !.cfg = TRUE] \in Devices
  BY <1>1 DEF Devices
<1>4. [dev EXCEPT !.addr = 1] \in Devices
  BY DEF Devices, Addresses
<1> QED
  BY <1>2, <1>3, <1>4 DEF Performed, Requests

\* So has the device after a packet,
LEMMA ReceivedType ==
  ASSUME dev \in Devices, pkt \in Packets
  PROVE  Received \in Devices
<1> DEFINE flipped == [dev EXCEPT !.tog = 1 - @]
<1>1. flipped \in Devices /\ flipped.got = dev.got
  BY DEF Devices
<1>2. dev.got \o pkt.data \in Seq(Nat)
  BY ConcatProperties DEF Devices, Packets
<1>3. [dev EXCEPT !.tog = 1 - @, !.got = @ \o pkt.data]
        = [flipped EXCEPT !.got = dev.got \o pkt.data]
  BY DEF Devices
<1> HIDE DEF flipped
<1>4. [flipped EXCEPT !.got = dev.got \o pkt.data] \in Devices
  BY <1>1, <1>2 DEF Devices
<1> QED
  BY <1>3, <1>4 DEF Received

\* the ring after a copy of bulk_write,
LEMMA CopiedType ==
  ASSUME call \in Calls, NEW n \in Nat, call.left - n \in Nat
  PROVE  [call EXCEPT !.left = @ - n, !.chunk = n] \in Calls
<1> DEFINE shorter == [call EXCEPT !.left = @ - n]
<1>1. shorter \in Calls
  BY DEF Calls
<1>2. [call EXCEPT !.left = @ - n, !.chunk = n] = [shorter EXCEPT !.chunk = n]
  BY DEF Calls
<1> HIDE DEF shorter
<1>3. [shorter EXCEPT !.chunk = n] \in Calls
  BY <1>1 DEF Calls
<1> QED
  BY <1>2, <1>3

\* and the streak of errors.
LEMMA CountErrorType ==
  ASSUME err_streak \in 0..DeadStreak-1, CountError
  PROVE  err_streak' \in 0..DeadStreak-1
  BY ConstantAssumption DEF CountError

-----------------------------------------------------------------------------
(* Type correctness.                                                       *)

\* Every action leaves the states and the flags in their sets.
LEMMA StateStep ==
  ASSUME StateOK, [EngineStep]_vars
  PROVE  StateOK'
<1> USE DEF StateOK
<1>1. CASE Unplug \/ Plug
  BY <1>1, ZenonT(60)
     DEF Unplug, Plug
<1>2. CASE SofLost \/ ClearTransfers
  BY <1>2, ZenonT(60)
     DEF SofLost, ClearTransfers, DropRing
<1>3. CASE AdvanceDetect \/ AdvanceReset \/ WarmupLost \/ WarmupDone
  BY <1>3, ZenonT(60)
     DEF AdvanceDetect, AdvanceReset, WarmupLost, WarmupDone, EnterDetect
<1>4. CASE RunLost \/ RunControl \/ RunPump
  BY <1>4, ZenonT(60)
     DEF RunLost, RunControl, RunPump, EnterDetect
<1>5. CASE ControlFailed \/ \E result \in {"OK", "FAIL"} : ControlTaken(result)
  BY <1>5, ZenonT(60)
     DEF ControlFailed, ControlTaken
<1>6. CASE PumpPrepare
  BY <1>6
     DEF PumpPrepare
<1>17. CASE PumpResume \/ PumpUnflush
  BY <1>17, ZenonT(60)
     DEF PumpResume, PumpUnflush
<1>16. CASE PumpIdle
  BY <1>16, ZenonT(60)
     DEF PumpIdle
<1>7. CASE TxnBlocked \/ TxnAck \/ TxnNak \/ TxnStall
  BY <1>7, ZenonT(60)
     DEF TxnBlocked, TxnAck, TxnNak, TxnStall, DropRing
<1>8. CASE TxnLost \/ TxnAckLost
  BY <1>8, ZenonT(60)
     DEF TxnLost, TxnAckLost, CountError
<1>9. CASE ProbeSkipped \/ ProbeAnswered \/ ProbeMissed
  BY <1>9, ZenonT(60)
     DEF ProbeSkipped, ProbeAnswered, ProbeMissed
<1>10. CASE ControlPost \/ ControlReturn \/ ControlLate \/ ControlTimeout
  BY <1>10, ZenonT(60)
     DEF ControlPost, ControlReturn, ControlLate, ControlTimeout, Return
<1>11. CASE WriteCopy \/ WritePublish \/ WriteReturn \/ WriteTimeout
  BY <1>11, ZenonT(60)
     DEF WriteCopy, WritePublish, WriteReturn, WriteTimeout, Return
<1>12. CASE FlushRequest \/ FlushDone \/ FlushStopped \/ FlushTimeout
  BY <1>12, ZenonT(60)
     DEF FlushRequest, FlushDone, FlushStopped, FlushTimeout, Return
<1>13. CASE SetBulkOutToggle \/ DiagSample \/ DiagEnd
  BY <1>13, ZenonT(60)
     DEF SetBulkOutToggle, DiagSample, DiagEnd, Return
<1>14. CASE Request
  BY <1>14, ZenonT(60)
     DEF Request, ControlCall, WriteCall, FlushCall, SetDevice, SetBulkOut,
         RequestReenum, DiagStart
<1>15. CASE UNCHANGED vars
  BY <1>15
     DEF vars
<1> QED
  BY <1>1, <1>2, <1>3, <1>4, <1>5, <1>6, <1>7, <1>8, <1>9, <1>10, <1>11,
     <1>12, <1>13, <1>14, <1>15, <1>16, <1>17, ZenonT(60)
     DEF EngineStep, Core1, Core0

\* Every action leaves the records, the counters and the ring in their sets.
LEMMA DataStep ==
  ASSUME DataOK, CallOK, [EngineStep]_vars
  PROVE  DataOK'
<1> USE DEF DataOK
<1>1. CASE Unplug \/ Plug
  BY <1>1, FreshType, Zenon
     DEF Unplug, Plug
<1>2. CASE SofLost \/ AdvanceReset \/ RunControl
  BY <1>2
     DEF SofLost, AdvanceReset, RunControl
<1>3. CASE WarmupLost \/ RunLost
  BY <1>3
     DEF WarmupLost, RunLost, EnterDetect, Addresses
<1>4. CASE ClearTransfers
  BY <1>4, ConstantAssumption, NoPktType, FinishedType
     DEF ClearTransfers
<1>5. CASE AdvanceDetect
  BY <1>5, FreshType, Zenon
     DEF AdvanceDetect
<1>6. CASE WarmupDone
  BY <1>6, ConstantAssumption
     DEF WarmupDone
<1>7. CASE RunPump
  BY <1>7, NoPktType
     DEF RunPump
<1>8. CASE ControlFailed \/ \E result \in {"OK", "FAIL"} : ControlTaken(result)
  BY <1>8, FinishedType, PerformedType
     DEF ControlFailed, ControlTaken, Mailboxes
<1>9. CASE PumpPrepare
  <2>1. pick_chunk \in 1..Mps
    BY <1>9, PickChunk DEF PumpPrepare
  <2>2. pick_chunk \in Nat /\ pick_chunk \in 0..Mps
    BY <2>1, ConstantAssumption
  <2>3. ring_peek(pick_chunk) \in Seq(Nat)
    BY <2>2, PeekType
  <2>4. [valid |-> TRUE, len |-> pick_chunk, tog |-> bulk_toggle,
         addr |-> addr, data |-> ring_peek(pick_chunk)] \in Packets
    BY <2>2, <2>3 DEF Packets
  <2> QED
    BY <1>9, <2>4, Zenon DEF PumpPrepare
<1>10. CASE PumpResume \/ PumpIdle \/ PumpUnflush \/ TxnBlocked
  BY <1>10, Zenon
     DEF PumpResume, PumpIdle, PumpUnflush, TxnBlocked
<1>11. CASE TxnAck
  BY <1>11, ReceivedType, NoPktType, ConstantAssumption
     DEF TxnAck, Packets
<1>12. CASE TxnNak
  BY <1>12, ConstantAssumption
     DEF TxnNak
<1>13. CASE TxnStall
  <2>1. [dev EXCEPT !.halt = TRUE] \in Devices
    BY DEF Devices
  <2> QED
    BY <1>13, <2>1, NoPktType, ConstantAssumption DEF TxnStall
<1>14. CASE TxnLost
  <2>1. err_streak' \in 0..DeadStreak-1
    BY <1>14, CountErrorType DEF TxnLost
  <2> QED
    BY <1>14, <2>1, Zenon DEF TxnLost
<1>15. CASE TxnAckLost
  <2>1. err_streak' \in 0..DeadStreak-1
    BY <1>15, CountErrorType DEF TxnAckLost
  <2> QED
    BY <1>15, <2>1, ReceivedType, Zenon DEF TxnAckLost
<1>16. CASE ProbeSkipped \/ ProbeAnswered
  BY <1>16, ConstantAssumption
     DEF ProbeSkipped, ProbeAnswered
<1>17. CASE ProbeMissed
  <2>1. probe_fails' = IF probe_fails + 1 >= ProbeLimit
                         THEN 0 ELSE probe_fails + 1
    BY <1>17, Zenon DEF ProbeMissed
  <2>2. probe_fails' \in 0..ProbeLimit-1
    BY <2>1, ConstantAssumption
  <2> QED
    BY <1>17, <2>2, Zenon DEF ProbeMissed
<1>18. CASE ControlPost
  <2>1. [req |-> 1, op |-> call.op, addr |-> call.addr, result |-> "FAIL"]
          \in Mailboxes
    BY <1>18 DEF ControlPost, CallOK, Mailboxes, Calls
  <2> QED
    BY <1>18, <2>1, Zenon DEF ControlPost
<1>19. CASE ControlReturn \/ ControlTimeout
  BY <1>19, ReturnedType, Zenon
     DEF ControlReturn, ControlTimeout, Return
<1>20. CASE ControlLate
  BY <1>20
     DEF ControlLate, Calls
<1>21. CASE WriteCopy
  <2>1. PICK n \in 1..call.left :
          /\ ring' = [s \in Slots |->
               IF \E p \in ring_head..(ring_head + n - 1) : Slot(p) = s
                 THEN CHOOSE p \in ring_head..(ring_head + n - 1) : Slot(p) = s
                 ELSE ring[s]]
          /\ call' = [call EXCEPT !.left = @ - n, !.chunk = n]
    BY <1>21, Zenon DEF WriteCopy
  <2>2. call.left \in Nat /\ n \in Nat /\ call.left - n \in Nat
    BY DEF Calls
  <2>3. ring' \in [Slots -> Nat]
    BY <2>1, <2>2, CopyType
  <2>4. call' \in Calls
    BY <2>1, <2>2, CopiedType
  <2> QED
    BY <1>21, <2>3, <2>4, Zenon DEF WriteCopy
<1>22. CASE WritePublish
  BY <1>22
     DEF WritePublish, Calls
<1>23. CASE WriteReturn \/ WriteTimeout
  BY <1>23, ReturnedType, Zenon
     DEF WriteReturn, WriteTimeout, Return
<1>24. CASE FlushRequest
  BY <1>24
     DEF FlushRequest
<1>25. CASE FlushDone \/ FlushStopped \/ FlushTimeout
  BY <1>25, ReturnedType, Zenon
     DEF FlushDone, FlushStopped, FlushTimeout, Return
<1>26. CASE SetBulkOutToggle \/ DiagSample \/ DiagEnd
  BY <1>26, ReturnedType, Zenon
     DEF SetBulkOutToggle, DiagSample, DiagEnd, Return
<1>27. CASE \E op \in Requests, a \in Addresses : ControlCall(op, a)
  BY <1>27, ReturnedType, CalledType
     DEF ControlCall, Functions
<1>28. CASE \E len \in Nat : WriteCall(len)
  <2>1. PICK len \in Nat : WriteCall(len)
    BY <1>28
  <2>2. Called("write", 0, len) \in Calls
    BY <2>1, CalledType, ConstantAssumption DEF Functions, Addresses
  <2> QED
    BY <2>1, <2>2, Zenon DEF WriteCall
<1>29. CASE FlushCall \/ SetBulkOut \/ DiagStart
  <2>1. \A op \in {"flush", "set_bulk_out", "line_diag"} :
          Called(op, 0, 0) \in Calls
    BY CalledType DEF Functions, Addresses
  <2> QED
    BY <1>29, <2>1, ReturnedType, Zenon
       DEF FlushCall, SetBulkOut, DiagStart
<1>30. CASE RequestReenum \/ \E a \in Addresses : SetDevice(a)
  BY <1>30, ReturnedType, Zenon
     DEF RequestReenum, SetDevice
<1>31. CASE UNCHANGED vars
  BY <1>31
     DEF vars
<1> QED
  BY <1>1, <1>2, <1>3, <1>4, <1>5, <1>6, <1>7, <1>8, <1>9, <1>10, <1>11,
     <1>12, <1>13, <1>14, <1>15, <1>16, <1>17, <1>18, <1>19, <1>20,
     <1>21, <1>22, <1>23, <1>24, <1>25, <1>26, <1>27, <1>28, <1>29,
     <1>30, <1>31, Zenon
     DEF EngineStep, Core1, Core0, Request

\* Only a control call waits for the mailbox.
LEMMA CallStep ==
  ASSUME CallOK, [EngineStep]_vars
  PROVE  CallOK'
<1> USE DEF CallOK
<1>1. CASE Unplug \/ Plug \/ Core1
  <2>1. UNCHANGED core0Vars
    BY <1>1, Zenon
       DEF Unplug, Plug, Core1, SofLost, ClearTransfers, AdvanceDetect,
           AdvanceReset, WarmupLost, WarmupDone, RunLost, RunControl, RunPump,
           ControlTaken, ControlFailed, PumpPrepare, PumpResume, PumpIdle,
           PumpUnflush, TxnBlocked, TxnAck, TxnNak, TxnStall, TxnLost,
           TxnAckLost, ProbeSkipped, ProbeAnswered, ProbeMissed
  <2> QED
    BY <2>1
<1>2. CASE Core0
  BY <1>2
     DEF Core0, ControlPost, ControlReturn, ControlLate, ControlTimeout,
         WriteCopy, WritePublish, WriteReturn, WriteTimeout, FlushRequest,
         FlushDone, FlushStopped, FlushTimeout, SetBulkOutToggle, DiagSample,
         DiagEnd, Return
<1>3. CASE Request
  <2>1. ASSUME NEW op \in Requests, NEW a \in Addresses, ControlCall(op, a)
        PROVE  CallOK'
    <3>1. Called(op, a, 0).op = op
      BY DEF Called
    <3> QED
      BY <2>1, <3>1 DEF ControlCall
  <2>2. CASE \E len \in Nat : WriteCall(len)
    BY <2>2 DEF WriteCall
  <2>3. CASE FlushCall \/ SetBulkOut \/ DiagStart
    BY <2>3 DEF FlushCall, SetBulkOut, DiagStart
  <2>4. CASE RequestReenum \/ \E a \in Addresses : SetDevice(a)
    BY <2>4 DEF RequestReenum, SetDevice
  <2> QED
    BY <1>3, <2>1, <2>2, <2>3, <2>4, Zenon DEF Request
<1>4. CASE UNCHANGED vars
  BY <1>4 DEF vars
<1> QED
  BY <1>1, <1>2, <1>3, <1>4 DEF EngineStep

\* No step of the engine, whoever calls it, breaks a type.
LEMMA TypeStep ==
  ASSUME TypeOK, [EngineStep]_vars
  PROVE  TypeOK'
  BY StateStep, DataStep, CallStep DEF TypeOK

\* The types hold when the port starts.
LEMMA TypeInit == Init => TypeOK
<1> SUFFICES ASSUME Init PROVE TypeOK
  OBVIOUS
<1>1. StateOK
  BY DEF Init, StateOK
<1>2. DataOK
  <2>1. NoMail \in Mailboxes
    BY DEF NoMail, Mailboxes, Addresses, Requests
  <2>2. [s \in Slots |-> 0] \in [Slots -> Nat]
    OBVIOUS
  <2>3. 0 \in 0..ProbeLimit-1 /\ 0 \in 0..DeadStreak-1 /\ 0 \in Addresses
    BY ConstantAssumption DEF Addresses
  <2> QED
    BY <2>1, <2>2, <2>3, 0 \in 0..1, 0 \in Nat, FALSE \in BOOLEAN,
       NoPktType, FreshType, ReturnedType, Zenon
       DEF Init, DataOK
<1>3. CallOK
  BY DEF Init, CallOK
<1> QED
  BY <1>1, <1>2, <1>3 DEF TypeOK

\* The variables of the engine keep their types: no counter passes its limit,
\* whatever core 0 calls and the device does.
THEOREM TypeCorrect == Spec => []TypeOK
<1>1. Init => TypeOK
  BY TypeInit
<1>2. TypeOK /\ [Next]_vars => TypeOK'
  BY TypeStep, NextIsEngineStep
<1> QED
  BY <1>1, <1>2, PTL DEF Spec

-----------------------------------------------------------------------------
(* The control mailbox.                                                    *)

\* While core 1 serves a request the mailbox is taken.
MailboxTaken == pc1 = "ctl" => ctrl.req = 1

\* Core 1 keeps the request it has taken until it answers it.
LEMMA MailboxStep ==
  ASSUME MailboxTaken, [EngineStep]_vars
  PROVE  /\ MailboxTaken'
         /\ pc1 = "ctl" /\ pc1' = "ctl" => ctrl' = ctrl
<1> USE DEF MailboxTaken
<1>1. CASE RunControl
  BY <1>1 DEF RunControl
<1>2. CASE Unplug \/ Plug \/ SofLost
  BY <1>2 DEF Unplug, Plug, SofLost
<1>3. CASE pc1' # "ctl"
  BY <1>3
<1>4. CASE ControlPost
  BY <1>4 DEF ControlPost
<1>5. CASE UNCHANGED <<pc1, ctrl>>
  BY <1>5
<1>6. CASE Core1 /\ ~SofLost /\ ~RunControl
  <2>1. pc1' # "ctl" \/ UNCHANGED <<pc1, ctrl>>
    BY <1>6
       DEF Core1, ClearTransfers, AdvanceDetect, AdvanceReset, WarmupLost,
           WarmupDone, RunLost, RunPump, EnterDetect, ControlTaken,
           ControlFailed, PumpPrepare, PumpResume, PumpIdle, PumpUnflush,
           TxnBlocked, TxnAck, TxnNak, TxnStall, TxnLost, TxnAckLost,
           CountError, ProbeSkipped, ProbeAnswered, ProbeMissed
  <2> QED
    BY <2>1, <1>3, <1>5
<1>7. CASE Core0 /\ ~ControlPost
  <2>1. UNCHANGED <<pc1, ctrl>>
    BY <1>7, Zenon
       DEF Core0, ControlReturn, ControlLate, ControlTimeout, WriteCopy,
           WritePublish, WriteReturn, WriteTimeout, FlushRequest, FlushDone,
           FlushStopped, FlushTimeout, SetBulkOutToggle, DiagSample, DiagEnd
  <2> QED
    BY <2>1, <1>5
<1>8. CASE Request
  <2>1. UNCHANGED <<pc1, ctrl>>
    BY <1>8, Zenon
       DEF Request, ControlCall, WriteCall, FlushCall, SetDevice, SetBulkOut,
           RequestReenum, DiagStart
  <2> QED
    BY <2>1, <1>5
<1>9. CASE UNCHANGED vars
  BY <1>9 DEF vars
<1> QED
  BY <1>1, <1>2, <1>4, <1>6, <1>7, <1>8, <1>9 DEF EngineStep

\* A request that core 1 has taken stays in the mailbox as it is until core 1
\* answers it: no call of core 0, early, late or given up, touches it.
THEOREM MailboxIsHeld == Spec => MailboxHeld
<1>1. Init => MailboxTaken
  BY DEF Init, MailboxTaken
<1>2. MailboxTaken /\ [Next]_vars => MailboxTaken'
  BY MailboxStep, NextIsEngineStep
<1>3. MailboxTaken /\ [Next]_vars
        => [pc1 = "ctl" => ctrl.req = 1 /\ (pc1' = "ctl" => ctrl' = ctrl)]_vars
  BY MailboxStep, NextIsEngineStep DEF MailboxTaken
<1> QED
  BY <1>1, <1>2, <1>3, PTL DEF Spec, MailboxHeld

-----------------------------------------------------------------------------
(* The bulk ring.  RingIntact is not inductive alone: TxnAck moves the tail *)
(* by the length of a packet, which must lie in the ring, and sends only    *)
(* when there is one.                                                       *)

PacketReady == pc1 = "txn" => pkt.valid

RingInv == RingIntact /\ PacketIntact /\ PacketReady

\* A step that leaves the ring alone, and at most gives up the packet or the
\* chunk of bulk_write, keeps the invariant.
LEMMA RingFrame ==
  ASSUME TypeOK, RingInv,
         UNCHANGED <<ring, ring_head, ring_tail>>,
         pkt' \in {pkt, NoPkt},
         call'.chunk \in {0, call.chunk},
         pc1' = "txn" => pkt'.valid
  PROVE  RingInv'
<1> USE DEF TypeOK, DataOK, RingInv
<1>1. call.chunk \in Nat
  BY DEF Calls
<1>2. RingIntact'
  <2>1. ring_tail <= ring_head /\ ring_head - ring_tail + call'.chunk <= RingSize
    BY <1>1, ConstantAssumption DEF RingIntact, ring_count
  <2>2. ASSUME NEW p \in ring_tail..(ring_head + call'.chunk - 1)
        PROVE  ring[Slot(p)] = p
    BY <1>1 DEF RingIntact
  <2> QED
    BY <2>1, <2>2 DEF RingIntact, ring_count
<1>3. CASE pkt' = NoPkt
  BY <1>2, <1>3 DEF PacketIntact, PacketReady, NoPkt
<1>4. CASE pkt' = pkt
  <2>1. PacketIntact'
    BY <1>4 DEF PacketIntact, ring_count
  <2> QED
    BY <1>2, <2>1 DEF PacketReady
<1> QED
  BY <1>3, <1>4

\* Dropping what is in the ring keeps it when the packet is dropped as well.
LEMMA RingDropped ==
  ASSUME TypeOK, RingInv,
         ring_tail' = ring_head, pkt' = NoPkt, pc1' # "txn",
         UNCHANGED <<ring, ring_head, call>>
  PROVE  RingInv'
<1> USE DEF TypeOK, DataOK, RingInv
<1>1. call.chunk \in Nat /\ ring_head \in Nat /\ ring_tail \in Nat
  BY DEF Calls
<1>2. RingIntact'
  <2>1. ring_head - ring_head + call.chunk <= RingSize
    BY <1>1, ConstantAssumption DEF RingIntact, ring_count
  <2>2. ASSUME NEW p \in ring_head..(ring_head + call.chunk - 1)
        PROVE  ring[Slot(p)] = p
    BY <1>1 DEF RingIntact
  <2>3. ring_tail' <= ring_head' /\ ring_count' + call'.chunk <= RingSize
    BY <1>1, <2>1 DEF ring_count
  <2>4. ASSUME NEW p \in ring_tail'..(ring_head' + call'.chunk - 1)
        PROVE  ring'[Slot(p)] = p
    BY <2>2
  <2> QED
    BY <2>3, <2>4 DEF RingIntact
<1>3. ~pkt'.valid
  BY DEF NoPkt
<1> QED
  BY <1>2, <1>3 DEF PacketIntact, PacketReady

\* The packet that pump_bulk encodes carries the oldest bytes of the ring.
LEMMA RingPrepare ==
  ASSUME TypeOK, RingInv, PumpPrepare
  PROVE  RingInv'
<1> USE DEF TypeOK, DataOK, RingInv, PumpPrepare
<1> DEFINE n == pick_chunk
<1>1. n \in 1..Mps /\ n \in Nat /\ n <= ring_count
  BY PickChunk, ConstantAssumption
<1>2. call.chunk \in Nat /\ ring_head \in Nat /\ ring_tail \in Nat
  BY DEF Calls
<1>3. RingIntact'
  BY DEF RingIntact, ring_count
<1>4. pkt'.valid /\ pkt'.len = n /\ pkt'.data = ring_peek(n)
  OBVIOUS
<1> HIDE DEF n
<1>5. ring_peek(n) = [i \in 1..n |-> ring_tail + i - 1]
  <2>1. ASSUME NEW i \in 1..n
        PROVE  ring[Slot(ring_tail + i - 1)] = ring_tail + i - 1
    BY <1>1, <1>2, ring_tail + i - 1 \in ring_tail..(ring_head + call.chunk - 1)
       DEF RingIntact, ring_count
  <2> QED
    BY <2>1 DEF ring_peek
<1>6. PacketIntact'
  <2>1. pkt'.len > 0 /\ pkt'.len <= ring_count'
    BY <1>1, <1>2, <1>4 DEF ring_count
  <2>2. pkt'.data = [i \in 1..pkt'.len |-> ring_tail' + i - 1]
    BY <1>4, <1>5
  <2> QED
    BY <2>1, <2>2 DEF PacketIntact
<1> QED
  BY <1>3, <1>4, <1>6 DEF PacketReady

\* An ACK takes from the ring the bytes of the packet, which lie in it.
LEMMA RingAck ==
  ASSUME TypeOK, RingInv, TxnAck
  PROVE  RingInv'
<1> USE DEF TypeOK, DataOK, RingInv, TxnAck
<1>1. /\ call.chunk \in Nat /\ ring_head \in Nat /\ ring_tail \in Nat
      /\ pkt.len \in Nat
  BY ConstantAssumption DEF Calls, Packets
<1>2. pkt.len <= ring_head - ring_tail
  BY DEF PacketIntact, PacketReady, ring_count
<1>3. ring_tail' <= ring_head' /\ ring_count' + call'.chunk <= RingSize
  BY <1>1, <1>2, ConstantAssumption DEF RingIntact, ring_count
<1>4. ASSUME NEW p \in ring_tail'..(ring_head' + call'.chunk - 1)
      PROVE  ring'[Slot(p)] = p
  BY <1>1, <1>2, p \in ring_tail..(ring_head + call.chunk - 1) DEF RingIntact
<1>5. ~pkt'.valid /\ pc1' # "txn"
  BY DEF NoPkt
<1> QED
  BY <1>3, <1>4, <1>5 DEF RingIntact, PacketIntact, PacketReady

\* Two positions of one turn of the ring with the same slot are the same.
LEMMA SlotUnique ==
  ASSUME NEW w \in Nat, NEW p \in w..(w + RingSize - 1),
         NEW q \in w..(w + RingSize - 1), Slot(p) = Slot(q)
  PROVE  p = q
<1>1. p \in Nat /\ q \in Nat /\ RingSize \in Nat
  BY ConstantAssumption
<1>2. CASE p < q
  BY <1>1, <1>2, SlotInjective, q < p + RingSize
<1>3. CASE q < p
  BY <1>1, <1>3, SlotInjective, p < q + RingSize
<1> QED
  BY <1>1, <1>2, <1>3

\* The copy of bulk_write puts every byte into its slot and spares the bytes
\* that are still to be sent.
LEMMA RingCopy ==
  ASSUME TypeOK, RingInv, WriteCopy
  PROVE  RingInv'
<1> USE DEF TypeOK, DataOK, RingInv
<1>1. PICK n \in 1..call.left :
        /\ n = IF call.left > ring_space THEN ring_space ELSE call.left
        /\ ring' = [s \in Slots |->
                      IF \E p \in ring_head..(ring_head + n - 1) : Slot(p) = s
                        THEN CHOOSE p \in ring_head..(ring_head + n - 1) : Slot(p) = s
                        ELSE ring[s]]
        /\ call' = [call EXCEPT !.left = @ - n, !.chunk = n]
  BY Zenon DEF WriteCopy
<1> DEFINE copied == ring_head..(ring_head + n - 1)
<1>2. /\ call.chunk \in Nat /\ ring_head \in Nat /\ ring_tail \in Nat
      /\ call.left \in Nat /\ n \in Nat /\ RingSize \in Nat
  BY ConstantAssumption DEF Calls
<1>3. call'.chunk = n
  BY <1>1 DEF Calls
<1>4. UNCHANGED <<ring_head, ring_tail, pkt, pc1>>
  BY DEF WriteCopy
<1>5. ring_tail <= ring_head /\ ring_head - ring_tail + n <= RingSize
  BY <1>1, <1>2 DEF ring_space, ring_count, RingIntact
<1>6. ASSUME NEW p \in ring_tail..(ring_head + n - 1)
      PROVE  ring'[Slot(p)] = p
  <2>1. p \in Nat /\ Slot(p) \in Slots
    BY <1>2, SlotType
  <2>2. \A q \in ring_tail..(ring_head + n - 1) : Slot(q) = Slot(p) => q = p
    <3>1. ASSUME NEW q \in ring_tail..(ring_head + n - 1), Slot(q) = Slot(p)
          PROVE  q = p
      <4>1. /\ p \in ring_tail..(ring_tail + RingSize - 1)
            /\ q \in ring_tail..(ring_tail + RingSize - 1)
        BY <1>2, <1>5
      <4> QED
        BY <4>1, <3>1, <1>2, SlotUnique
    <3> QED
      BY <3>1
  <2>3. CASE p \in copied
    <3>1. \E q \in copied : Slot(q) = Slot(p)
      BY <2>3
    <3>2. ring'[Slot(p)] = CHOOSE q \in copied : Slot(q) = Slot(p)
      BY <1>1, <2>1, <3>1, Zenon
    <3>3. ring'[Slot(p)] \in copied /\ Slot(ring'[Slot(p)]) = Slot(p)
      BY <3>1, <3>2, Zenon
    <3>4. ring'[Slot(p)] \in ring_tail..(ring_head + n - 1)
      BY <1>2, <1>5, <3>3
    <3> QED
      BY <2>2, <3>3, <3>4, Zenon
  <2>4. CASE p \notin copied
    <3>1. p \in ring_tail..(ring_head + call.chunk - 1)
      BY <1>2, <2>4
    <3>2. ~\E q \in copied : Slot(q) = Slot(p)
      <4>1. \A q \in copied : q \in ring_tail..(ring_head + n - 1)
        BY <1>2, <1>5
      <4> QED
        BY <2>2, <2>4, <4>1
    <3>3. ring'[Slot(p)] = ring[Slot(p)]
      BY <1>1, <2>1, <3>2, Zenon
    <3> QED
      BY <3>1, <3>3 DEF RingIntact
  <2> QED
    BY <2>3, <2>4
<1>7. RingIntact'
  <2>1. ring_tail' <= ring_head' /\ ring_count' + call'.chunk <= RingSize
    BY <1>2, <1>3, <1>4, <1>5 DEF ring_count
  <2>2. ASSUME NEW p \in ring_tail'..(ring_head' + call'.chunk - 1)
        PROVE  ring'[Slot(p)] = p
    BY <1>3, <1>4, <1>6
  <2> QED
    BY <2>1, <2>2 DEF RingIntact
<1>8. PacketIntact' /\ PacketReady'
  BY <1>4 DEF PacketIntact, PacketReady, ring_count
<1> QED
  BY <1>7, <1>8

\* Publishing the chunk moves the head over what was copied.
LEMMA RingPublish ==
  ASSUME TypeOK, RingInv, WritePublish
  PROVE  RingInv'
<1> USE DEF TypeOK, DataOK, RingInv, WritePublish
<1>1. /\ call.chunk \in Nat /\ ring_head \in Nat /\ ring_tail \in Nat
      /\ call'.chunk = 0 /\ RingSize \in Nat /\ (pkt.valid => pkt.len \in Nat)
  BY ConstantAssumption DEF Calls, Packets
<1>2. RingIntact'
  <2>1. ring_tail' <= ring_head' /\ ring_count' + call'.chunk <= RingSize
    BY <1>1 DEF ring_count, RingIntact
  <2>2. ASSUME NEW p \in ring_tail'..(ring_head' + call'.chunk - 1)
        PROVE  ring'[Slot(p)] = p
    BY <1>1 DEF RingIntact
  <2> QED
    BY <2>1, <2>2 DEF RingIntact
<1>3. PacketIntact'
  <2>1. pkt.valid => pkt.len <= ring_count'
    BY <1>1 DEF PacketIntact, ring_count
  <2> QED
    BY <2>1 DEF PacketIntact
<1>4. PacketReady'
  BY DEF PacketReady
<1> QED
  BY <1>2, <1>3, <1>4

\* No step of the engine breaks the ring or the packet.
LEMMA RingStep ==
  ASSUME TypeOK, RingInv, [EngineStep]_vars
  PROVE  RingInv'
<1> DEFINE Quiet == /\ UNCHANGED <<ring, ring_head, ring_tail>>
                    /\ pkt' \in {pkt, NoPkt}
                    /\ call'.chunk \in {0, call.chunk}
                    /\ pc1' = "txn" => pkt'.valid
<1>0. pc1 = "txn" => pkt.valid
  BY DEF RingInv, PacketReady
<1>1. CASE Quiet
  BY <1>1, RingFrame
<1>2. CASE Unplug \/ Plug
  <2>1. Quiet
    BY <1>0, <1>2, Zenon DEF Unplug, Plug
  <2> QED
    BY <2>1, <1>1
<1>3. CASE Core1
  <2>1. CASE ClearTransfers
    BY <2>1, RingDropped, Zenon DEF ClearTransfers
  <2>2. CASE PumpPrepare
    BY <2>2, RingPrepare
  <2>3. CASE TxnAck
    BY <2>3, RingAck
  <2>4. CASE TxnStall
    BY <2>4, RingDropped, Zenon DEF TxnStall
  <2>5. CASE SofLost \/ TxnNak \/ TxnBlocked \/ PumpResume \/ PumpIdle
             \/ PumpUnflush
    <3>1. Quiet
      BY <1>0, <2>5
         DEF SofLost, TxnNak, TxnBlocked, PumpResume, PumpIdle, PumpUnflush
    <3> QED
      BY <3>1, <1>1
  <2>6. CASE TxnLost \/ TxnAckLost
    <3>1. Quiet
      BY <1>0, <2>6 DEF TxnLost, TxnAckLost, CountError
    <3> QED
      BY <3>1, <1>1
  <2>7. CASE \/ AdvanceDetect \/ AdvanceReset \/ WarmupLost \/ WarmupDone
             \/ RunLost \/ RunControl \/ RunPump
             \/ \E result \in {"OK", "FAIL"} : ControlTaken(result)
             \/ ControlFailed
             \/ ProbeSkipped \/ ProbeAnswered \/ ProbeMissed
    <3>1. Quiet
      BY <2>7, <1>0
         DEF AdvanceDetect, AdvanceReset, WarmupLost, WarmupDone, RunLost,
             RunControl, RunPump, EnterDetect, ControlTaken, ControlFailed,
             ProbeSkipped, ProbeAnswered, ProbeMissed
    <3> QED
      BY <3>1, <1>1
  <2> QED
    BY <1>3, <2>1, <2>2, <2>3, <2>4, <2>5, <2>6, <2>7 DEF Core1
<1>4. CASE Core0
  <2>1. CASE WriteCopy
    BY <2>1, RingCopy
  <2>2. CASE WritePublish
    BY <2>2, RingPublish
  <2>3. CASE Core0 /\ ~WriteCopy /\ ~WritePublish
    <3>1. call'.chunk \in {0, call.chunk}
      BY <2>3
         DEF Core0, ControlPost, ControlReturn, ControlLate, ControlTimeout,
             WriteReturn, WriteTimeout, FlushRequest, FlushDone, FlushStopped,
             FlushTimeout, SetBulkOutToggle, DiagSample, DiagEnd, Return,
             Returned, TypeOK, DataOK, Calls
    <3>2. UNCHANGED <<ring, ring_head, ring_tail, pkt, pc1>>
      BY <2>3, Zenon
         DEF Core0, ControlPost, ControlReturn, ControlLate, ControlTimeout,
             WriteReturn, WriteTimeout, FlushRequest, FlushDone, FlushStopped,
             FlushTimeout, SetBulkOutToggle, DiagSample, DiagEnd
    <3>3. Quiet
      BY <1>0, <3>1, <3>2
    <3> QED
      BY <3>3, <1>1
  <2> QED
    BY <1>4, <2>1, <2>2, <2>3
<1>5. CASE Request
  <2>1. call'.chunk \in {0, call.chunk}
    BY <1>5
       DEF Request, ControlCall, WriteCall, FlushCall, SetDevice, SetBulkOut,
           RequestReenum, DiagStart, Called, Returned
  <2>2. UNCHANGED <<ring, ring_head, ring_tail, pkt, pc1>>
    BY <1>5, Zenon
       DEF Request, ControlCall, WriteCall, FlushCall, SetDevice, SetBulkOut,
           RequestReenum, DiagStart
  <2>3. Quiet
    BY <1>0, <2>1, <2>2
  <2> QED
    BY <2>3, <1>1
<1>6. CASE UNCHANGED vars
  <2>1. Quiet
    BY <1>0, <1>6 DEF vars
  <2> QED
    BY <2>1, <1>1
<1> QED
  BY <1>2, <1>3, <1>4, <1>5, <1>6 DEF EngineStep

\* The ring is intact when the port starts.
LEMMA RingInit == Init => RingInv
<1> SUFFICES ASSUME Init PROVE RingInv
  OBVIOUS
<1>1. ring_tail = 0 /\ ring_head = 0 /\ call.chunk = 0
  BY DEF Init, Returned
<1>2. RingIntact
  BY <1>1, ConstantAssumption DEF RingIntact, ring_count
<1>3. ~pkt.valid
  BY Zenon DEF Init, NoPkt
<1>4. pc1 # "txn"
  BY DEF Init
<1> QED
  BY <1>2, <1>3, <1>4 DEF RingInv, PacketIntact, PacketReady

\* So it is in every state of the engine.
LEMMA RingInvariant == Spec => []RingInv
<1>1. Init => RingInv
  BY RingInit
<1>2. TypeOK /\ RingInv /\ [Next]_vars => RingInv'
  BY RingStep, NextIsEngineStep
<1> QED
  BY <1>1, <1>2, TypeCorrect, PTL DEF Spec

\* The ring holds what was accepted and not yet sent, and no more than it can,
\* for every ring and packet size and whatever both cores do.
THEOREM RingCorrect == Spec => []RingIntact
<1>1. RingInv => RingIntact
  BY DEF RingInv
<1> QED
  BY <1>1, RingInvariant, PTL

\* The packet pump_bulk keeps over retries and NAKs carries the oldest bytes of
\* the ring, whatever core 0 writes meanwhile.
THEOREM PacketCorrect == Spec => []PacketIntact
<1>1. RingInv => PacketIntact
  BY DEF RingInv
<1> QED
  BY <1>1, RingInvariant, PTL

-----------------------------------------------------------------------------
(* The ring implements the bounded queue of BulkQueue.  The abstract queue *)
(* is read out of the ring by ring_peek.  RingIntact says what it reads,   *)
(* the positions from ring_tail on, so the steps of the ring become        *)
(* statements about intervals of positions.                                *)

\* The n positions from p on.
Positions(p, n) == [i \in 1..n |-> p + i - 1]

-----------------------------------------------------------------------------
(* Lemmas about intervals of positions.                                    *)

\* An interval is a sequence of its length,
LEMMA PositionsSeq ==
  ASSUME NEW p \in Nat, NEW n \in Nat
  PROVE  /\ Positions(p, n) \in Seq(Nat)
         /\ Len(Positions(p, n)) = n
         /\ \A i \in 1..n : Positions(p, n)[i] = p + i - 1
<1>1. Positions(p, n) \in [1..n -> Nat]
  BY DEF Positions
<1>2. Positions(p, n) \in Seq(Nat)
  BY <1>1, SeqDef
<1> QED
  BY <1>1, <1>2, LenProperties DEF Positions

\* two adjacent intervals make one,
LEMMA PositionsConcat ==
  ASSUME NEW p \in Nat, NEW m \in Nat, NEW n \in Nat
  PROVE  Positions(p, m) \o Positions(p + m, n) = Positions(p, m + n)
<1> DEFINE s == Positions(p, m)
           t == Positions(p + m, n)
           u == Positions(p, m + n)
<1>1. /\ s \in Seq(Nat) /\ t \in Seq(Nat) /\ u \in Seq(Nat)
      /\ Len(s) = m /\ Len(t) = n /\ Len(u) = m + n
      /\ \A i \in 1..m : s[i] = p + i - 1
      /\ \A i \in 1..n : t[i] = p + m + i - 1
      /\ \A i \in 1..(m + n) : u[i] = p + i - 1
  BY PositionsSeq, p + m \in Nat, m + n \in Nat
<1> HIDE DEF s, t, u
<1>2. /\ s \o t \in Seq(Nat) /\ Len(s \o t) = m + n
      /\ \A i \in 1..(m + n) :
           (s \o t)[i] = IF i <= m THEN s[i] ELSE t[i - m]
  BY <1>1, ConcatProperties
<1>3. \A i \in 1..(m + n) : (s \o t)[i] = u[i]
  BY SMTT(60), <1>1, <1>2
<1>4. s \o t = u
  BY <1>1, <1>2, <1>3, SeqEqual
<1> QED
  BY <1>4 DEF s, t, u

\* and a part of an interval is one:
LEMMA PositionsSubSeq ==
  ASSUME NEW p \in Nat, NEW m \in Nat, NEW n \in Nat,
         NEW k \in Nat, m + n <= k
  PROVE  SubSeq(Positions(p, k), m + 1, m + n) = Positions(p + m, n)
<1> DEFINE s == Positions(p, k)
           t == Positions(p + m, n)
<1>1. /\ s \in Seq(Nat) /\ t \in Seq(Nat)
      /\ Len(s) = k /\ Len(t) = n
      /\ \A i \in 1..k : s[i] = p + i - 1
      /\ \A i \in 1..n : t[i] = p + m + i - 1
  BY PositionsSeq, p + m \in Nat
<1> HIDE DEF s, t
<1>2. /\ SubSeq(s, m + 1, m + n) \in Seq(Nat)
      /\ Len(SubSeq(s, m + 1, m + n)) = n
      /\ \A i \in 1..n : SubSeq(s, m + 1, m + n)[i] = s[m + i]
  BY <1>1, SubSeqProperties
<1>3. \A i \in 1..n : SubSeq(s, m + 1, m + n)[i] = t[i]
  BY <1>1, <1>2
<1>4. SubSeq(s, m + 1, m + n) = t
  BY <1>1, <1>2, <1>3, SeqEqual
<1> QED
  BY <1>4 DEF s, t

\* what is left when its first m are dropped.
LEMMA PositionsTail ==
  ASSUME NEW p \in Nat, NEW k \in Nat, NEW m \in Nat, m <= k
  PROVE  SubSeq(Positions(p, k), m + 1, k) = Positions(p + m, k - m)
<1>1. \A len \in Nat : m + len <= k =>
        SubSeq(Positions(p, k), m + 1, m + len) = Positions(p + m, len)
  BY PositionsSubSeq
<1>2. k - m \in Nat /\ m + (k - m) = k
  OBVIOUS
<1>3. SubSeq(Positions(p, k), m + 1, m + (k - m)) = Positions(p + m, k - m)
  BY <1>1, <1>2
<1> QED
  BY <1>2, <1>3

-----------------------------------------------------------------------------
(* The abstract state.                                                     *)

\* Without a packet, pkt is empty: BulkQueue knows no other sign of it.
PacketEmpty == ~pkt.valid => pkt = NoPkt

QueueInv == TypeOK /\ RingInv /\ PacketEmpty

\* What ring_peek reads: the positions from the tail on.
LEMMA QueueRead ==
  TypeOK /\ RingIntact
    => /\ ring_count \in Nat
       /\ ring_peek(ring_count) = Positions(ring_tail, ring_count)
<1> SUFFICES ASSUME TypeOK, RingIntact
             PROVE  /\ ring_count \in Nat
                    /\ ring_peek(ring_count) = Positions(ring_tail, ring_count)
  OBVIOUS
<1> USE DEF TypeOK, DataOK
<1>1. /\ ring_head \in Nat /\ ring_tail \in Nat /\ call.chunk \in Nat
      /\ ring_tail <= ring_head
  BY DEF Calls, RingIntact
<1>2. ring_count \in Nat
  BY <1>1 DEF ring_count
<1>3. ASSUME NEW i \in 1..ring_count
      PROVE  ring[Slot(ring_tail + i - 1)] = ring_tail + i - 1
  BY <1>1, ring_tail + i - 1 \in ring_tail..(ring_head + call.chunk - 1)
     DEF RingIntact, ring_count
<1> QED
  BY <1>2, <1>3 DEF ring_peek, Positions

\* The same of the state a step leads to.
LEMMA QueueReadNext ==
  (TypeOK /\ RingIntact)'
    => ring_peek(ring_count)' = Positions(ring_tail', ring_count')
<1>1. (TypeOK /\ RingIntact)'
        => (ring_peek(ring_count) = Positions(ring_tail, ring_count))'
  BY QueueRead, PTL
<1> QED
  BY <1>1 DEF Positions

\* The packet is an interval of positions as well.
LEMMA PacketRead ==
  ASSUME TypeOK, RingInv, pkt.valid
  PROVE  /\ pkt.len \in 1..ring_count
         /\ pkt.data = Positions(ring_tail, pkt.len)
         /\ Len(pkt.data) = pkt.len /\ pkt.data # <<>>
<1>1. /\ pkt.len \in Nat /\ ring_tail \in Nat
  BY ConstantAssumption DEF TypeOK, DataOK, Packets
<1>2. /\ pkt.len \in 1..ring_count
      /\ pkt.data = Positions(ring_tail, pkt.len)
  BY <1>1, QueueRead DEF RingInv, PacketIntact, Positions
<1>3. Len(pkt.data) = pkt.len
  <2>1. Len(Positions(ring_tail, pkt.len)) = pkt.len
    BY <1>1, PositionsSeq
  <2> QED
    BY <1>2, <2>1
<1>4. pkt.data # <<>>
  BY <1>1, <1>2, <1>3, Len(<<>>) = 0
<1> QED
  BY <1>2, <1>3, <1>4

\* A packet that is not valid has no bytes.
LEMMA PacketEmptyStep ==
  ASSUME PacketEmpty, [EngineStep]_vars
  PROVE  PacketEmpty'
<1> DEFINE Good == pkt' = pkt \/ pkt' = NoPkt \/ pkt'.valid
<1>1. CASE PumpPrepare
  BY <1>1 DEF PumpPrepare, PacketEmpty
<1>2. CASE RunPump
  BY <1>2 DEF RunPump, PacketEmpty
<1>3. CASE ClearTransfers \/ TxnAck \/ TxnStall
  BY <1>3 DEF ClearTransfers, TxnAck, TxnStall, PacketEmpty
<1>4. CASE UNCHANGED pkt
  BY <1>4 DEF PacketEmpty
<1>5. CASE Core1
  <2>1. PumpPrepare \/ RunPump \/ ClearTransfers \/ TxnAck \/ TxnStall
          \/ UNCHANGED pkt
    BY <1>5, Zenon
       DEF Core1, SofLost, AdvanceDetect, AdvanceReset, WarmupLost, WarmupDone,
           RunLost, RunControl, EnterDetect, ControlTaken, ControlFailed,
           PumpResume, PumpIdle, PumpUnflush, TxnBlocked, TxnNak, TxnLost,
           TxnAckLost, ProbeSkipped, ProbeAnswered, ProbeMissed
  <2> QED
    BY <2>1, <1>1, <1>2, <1>3, <1>4
<1>6. CASE Unplug \/ Plug \/ UNCHANGED vars
  <2>1. UNCHANGED pkt
    BY <1>6, Zenon DEF Unplug, Plug, vars
  <2> QED
    BY <2>1, <1>4
<1>7. CASE Core0 \/ Request
  <2>1. UNCHANGED pkt
    BY <1>7, Zenon
       DEF Core0, ControlPost, ControlReturn, ControlLate, ControlTimeout,
           WriteCopy, WritePublish, WriteReturn, WriteTimeout, FlushRequest,
           FlushDone, FlushStopped, FlushTimeout, SetBulkOutToggle,
           DiagSample, DiagEnd, Request, ControlCall, WriteCall, FlushCall,
           SetDevice, SetBulkOut, RequestReenum, DiagStart
  <2> QED
    BY <2>1, <1>4
<1> QED
  BY <1>5, <1>6, <1>7 DEF EngineStep

-----------------------------------------------------------------------------
(* The steps.                                                              *)

\* Publishing a chunk appends the next bytes to the queue.
LEMMA PublishAccepts ==
  ASSUME QueueInv, QueueInv', WritePublish
  PROVE  [Queue!Next]_(Queue!vars)
<1> USE DEF QueueInv, WritePublish
<1> DEFINE n == call.chunk
<1>1. /\ n \in Nat /\ ring_head \in Nat /\ ring_tail \in Nat
      /\ RingSize \in Nat /\ ring_count + n <= RingSize
  BY ConstantAssumption DEF TypeOK, DataOK, Calls, RingInv, RingIntact
<1>2. /\ ring_count \in Nat
      /\ ring_peek(ring_count) = Positions(ring_tail, ring_count)
  BY QueueRead DEF RingInv
<1>3. ring_peek(ring_count)' = Positions(ring_tail, ring_count + n)
  <2>1. ring_peek(ring_count)' = Positions(ring_tail', ring_count')
    BY QueueReadNext DEF RingInv
  <2>2. ring_tail' = ring_tail /\ ring_count' = ring_count + n
    BY <1>1 DEF ring_count
  <2> QED
    BY <2>1, <2>2
<1>4. CASE n = 0
  <2>1. UNCHANGED Queue!vars
    BY <1>1, <1>2, <1>3, <1>4 DEF Queue!vars
  <2> QED
    BY <2>1
<1>5. CASE n > 0
  <2>1. n \in 1..RingSize
    BY <1>1, <1>2, <1>5
  <2>2. Queue!Accept(n)
    <3>1. Len(ring_peek(ring_count)) + n <= RingSize
      BY <1>1, <1>2, PositionsSeq
    <3>2. ring_head = ring_tail + ring_count
      BY <1>1 DEF ring_count
    <3>3. Positions(ring_tail + ring_count, n) = [i \in 1..n |-> ring_head + i - 1]
      BY <3>2 DEF Positions
    <3>4. ring_peek(ring_count)'
            = ring_peek(ring_count) \o [i \in 1..n |-> ring_head + i - 1]
      <4>1. Positions(ring_tail, ring_count) \o Positions(ring_tail + ring_count, n)
              = Positions(ring_tail, ring_count + n)
        BY <1>1, <1>2, PositionsConcat
      <4> HIDE DEF n
      <4> QED
        BY <4>1, <1>2, <1>3, <3>3
    <3>5. ring_head' = ring_head + n /\ pkt.data' = pkt.data
      OBVIOUS
    <3> QED
      BY <3>1, <3>4, <3>5 DEF Queue!Accept
  <2> QED
    BY <2>1, <2>2 DEF Queue!Next
<1> QED
  BY <1>1, <1>4, <1>5

\* Encoding a packet loads the oldest bytes.
LEMMA PrepareLoads ==
  ASSUME QueueInv, QueueInv', PumpPrepare
  PROVE  Queue!Next
<1> USE DEF QueueInv, PumpPrepare
<1> DEFINE n == pick_chunk
<1>1. ring_head \in Nat /\ ring_tail \in Nat /\ Mps \in Nat
  BY ConstantAssumption DEF TypeOK, DataOK
<1>2. n \in 1..Mps /\ n <= ring_count
  BY <1>1, PickChunk
<1>3. n \in Nat
  BY <1>1, <1>2
<1>4. /\ ring_count \in Nat
      /\ ring_peek(ring_count) = Positions(ring_tail, ring_count)
  BY QueueRead DEF RingInv
<1>5. UNCHANGED <<ring_head, ring_peek(ring_count)>>
  BY DEF ring_peek, ring_count
<1>6. pkt.data = <<>>
  BY DEF PacketEmpty, NoPkt
<1>7. pkt'.valid /\ pkt'.len = n
  OBVIOUS
<1>8. pkt'.data = Positions(ring_tail, n)
  <2>1. pkt'.data = [i \in 1..pkt'.len |-> ring_tail' + i - 1]
    BY <1>7 DEF RingInv, PacketIntact
  <2>2. ring_tail' = ring_tail
    OBVIOUS
  <2> HIDE DEF n
  <2> QED
    BY <2>1, <2>2, <1>7 DEF Positions
<1> HIDE DEF n
<1>9. SubSeq(ring_peek(ring_count), 1, n) = Positions(ring_tail, n)
  <2>1. SubSeq(Positions(ring_tail, ring_count), 0 + 1, 0 + n)
          = Positions(ring_tail + 0, n)
    BY <1>1, <1>2, <1>3, <1>4, PositionsSubSeq
  <2>2. 0 + 1 = 1 /\ 0 + n = n /\ ring_tail + 0 = ring_tail
    BY <1>1, <1>3
  <2> QED
    BY <1>4, <2>1, <2>2
<1>10. Len(ring_peek(ring_count)) = ring_count
  BY <1>1, <1>4, PositionsSeq
<1>11. Queue!Load(n)
  BY <1>2, <1>5, <1>6, <1>8, <1>9, <1>10 DEF Queue!Load
<1> QED
  BY <1>2, <1>11 DEF Queue!Next

\* An ACK retires the packet.
LEMMA AckRetires ==
  ASSUME QueueInv, QueueInv', PacketReady, TxnAck
  PROVE  Queue!Next
<1> USE DEF QueueInv, TxnAck
<1> DEFINE n == pkt.len
<1>1. /\ pkt.valid /\ ring_head \in Nat /\ ring_tail \in Nat
  BY DEF TypeOK, DataOK, PacketReady
<1>2. /\ ring_count \in Nat
      /\ ring_peek(ring_count) = Positions(ring_tail, ring_count)
  BY QueueRead DEF RingInv
<1>3. n \in 1..ring_count /\ Len(pkt.data) = n /\ pkt.data # <<>>
  BY <1>1, PacketRead
<1>4. n \in Nat /\ ring_count - n \in Nat
  BY <1>2, <1>3
<1>5. ring_peek(ring_count)' = Positions(ring_tail + n, ring_count - n)
  <2>1. ring_peek(ring_count)' = Positions(ring_tail', ring_count')
    BY QueueReadNext DEF RingInv
  <2>2. ring_tail' = ring_tail + n /\ ring_count' = ring_count - n
    BY <1>1, <1>4 DEF ring_count
  <2> QED
    BY <2>1, <2>2
<1>6. pkt'.data = <<>> /\ ring_head' = ring_head
  BY DEF NoPkt
<1> HIDE DEF n
<1>7. SubSeq(ring_peek(ring_count), n + 1, ring_count)
        = Positions(ring_tail + n, ring_count - n)
  <2>1. n \in Nat /\ ring_tail \in Nat /\ ring_count \in Nat /\ n <= ring_count
    BY <1>1, <1>2, <1>3, <1>4
  <2> HIDE DEF QueueInv, TxnAck, ring_count
  <2> QED
    BY <1>2, <2>1, PositionsTail
<1>8. Len(ring_peek(ring_count)) = ring_count
  BY <1>1, <1>2, PositionsSeq
<1>9. Queue!Retire
  BY <1>3, <1>5, <1>6, <1>7, <1>8 DEF Queue!Retire
<1> QED
  BY <1>9 DEF Queue!Next

\* enter_detect and a STALL drop everything.
LEMMA DropDrops ==
  ASSUME QueueInv, ring_tail' = ring_head, ring_head' = ring_head, pkt' = NoPkt
  PROVE  Queue!Next
<1>1. ring_head \in Nat
  BY DEF QueueInv, TypeOK, DataOK
<1>2. ring_count' = 0
  BY <1>1 DEF ring_count
<1>3. ring_peek(ring_count)' = <<>>
  BY <1>2 DEF ring_peek
<1>4. pkt'.data = <<>>
  BY DEF NoPkt
<1> QED
  BY <1>3, <1>4 DEF Queue!Drop, Queue!Next

\* A step that changes neither what the ring holds nor the packet stutters; one
\* that gives up the packet unloads it.
LEMMA QueueKept ==
  ASSUME QueueInv, QueueInv', UNCHANGED <<ring_head, ring_tail>>,
         pkt' \in {pkt, NoPkt}
  PROVE  [Queue!Next]_(Queue!vars)
<1>1. ring_count' = ring_count
  BY DEF ring_count
<1>2. ring_peek(ring_count)' = ring_peek(ring_count)
  BY <1>1, QueueRead, QueueReadNext DEF QueueInv, RingInv
<1>3. CASE pkt' = pkt
  BY <1>2, <1>3 DEF Queue!vars
<1>4. CASE pkt' = NoPkt
  <2>1. pkt'.data = <<>>
    BY <1>4 DEF NoPkt
  <2> QED
    BY <1>2, <2>1 DEF Queue!Unload, Queue!Next
<1> QED
  BY <1>3, <1>4

\* Every step of the engine is one of the queue, or leaves the queue alone.
LEMMA QueueStep ==
  ASSUME QueueInv, QueueInv', [EngineStep]_vars
  PROVE  [Queue!Next]_(Queue!vars)
<1> DEFINE Kept == UNCHANGED <<ring_head, ring_tail>> /\ pkt' \in {pkt, NoPkt}
<1>1. CASE Kept
  BY <1>1, QueueKept
<1>2. CASE WritePublish
  BY <1>2, PublishAccepts
<1>3. CASE PumpPrepare
  BY <1>3, PrepareLoads
<1>4. CASE TxnAck
  BY <1>4, AckRetires DEF QueueInv, RingInv
<1>5. CASE ClearTransfers \/ TxnStall
  <2>1. ring_tail' = ring_head /\ ring_head' = ring_head /\ pkt' = NoPkt
    BY <1>5, Zenon DEF ClearTransfers, TxnStall
  <2> QED
    BY <2>1, DropDrops
<1>6. CASE RunPump
  <2>1. Kept
    BY <1>6 DEF RunPump
  <2> QED
    BY <2>1, <1>1
<1>7. CASE Core1
  <2>1. Kept \/ PumpPrepare \/ TxnAck \/ ClearTransfers \/ TxnStall \/ RunPump
    BY <1>7, Zenon
       DEF Core1, SofLost, AdvanceDetect, AdvanceReset, WarmupLost, WarmupDone,
           RunLost, RunControl, EnterDetect, ControlTaken, ControlFailed,
           PumpResume, PumpIdle, PumpUnflush, TxnBlocked, TxnNak, TxnLost,
           TxnAckLost, ProbeSkipped, ProbeAnswered, ProbeMissed
  <2> QED
    BY <2>1, <1>1, <1>3, <1>4, <1>5, <1>6
<1>8. CASE Core0 \/ Request
  <2>1. Kept \/ WritePublish
    BY <1>8, Zenon
       DEF Core0, ControlPost, ControlReturn, ControlLate, ControlTimeout,
           WriteCopy, WriteReturn, WriteTimeout, FlushRequest, FlushDone,
           FlushStopped, FlushTimeout, SetBulkOutToggle, DiagSample, DiagEnd,
           Request, ControlCall, WriteCall, FlushCall, SetDevice, SetBulkOut,
           RequestReenum, DiagStart
  <2> QED
    BY <2>1, <1>1, <1>2
<1>9. CASE Unplug \/ Plug \/ UNCHANGED vars
  <2>1. Kept
    BY <1>9, Zenon DEF Unplug, Plug, vars
  <2> QED
    BY <2>1, <1>1
<1> QED
  BY <1>7, <1>8, <1>9 DEF EngineStep

\* The port starts with an empty queue.
LEMMA QueueInit == Init => Queue!Init /\ PacketEmpty
<1> SUFFICES ASSUME Init PROVE Queue!Init /\ PacketEmpty
  OBVIOUS
<1>1. ring_head = 0 /\ ring_tail = 0
  BY DEF Init
<1>2. ring_peek(ring_count) = <<>>
  BY <1>1 DEF ring_peek, ring_count
<1>3. pkt.data = <<>>
  BY Zenon DEF Init, NoPkt
<1> QED
  BY <1>1, <1>2, <1>3, Zenon DEF Queue!Init, Init, PacketEmpty

\* The ring with its two cores implements the bounded queue: bytes leave it in
\* the order bulk_write accepted them, each once, and a packet is always a copy
\* of the oldest.
THEOREM QueueImplemented == Spec => QueueSpec
<1>1. Init => Queue!Init
  BY QueueInit
<1>2. Init => PacketEmpty
  BY QueueInit
<1>3. PacketEmpty /\ [Next]_vars => PacketEmpty'
  BY PacketEmptyStep, NextIsEngineStep
<1>4. Spec => [](TypeOK /\ RingInv)
  BY TypeCorrect, RingInvariant, PTL
<1>5. QueueInv /\ QueueInv' /\ [Next]_vars => [Queue!Next]_(Queue!vars)
  BY QueueStep, NextIsEngineStep
<1>6. TypeOK /\ RingInv /\ PacketEmpty => QueueInv
  BY DEF QueueInv
<1> QED
  BY <1>1, <1>2, <1>3, <1>4, <1>5, <1>6, PTL DEF Spec, QueueSpec, Queue!Spec

=============================================================================
