------------------------------ MODULE HalTeensy ------------------------------
(***************************************************************************)
(* The Teensy 4.x HAL (usb_disp_hal_teensy.cpp): the main program, which   *)
(* calls the functions of usb_disp_hal.h, and the interrupts of the        *)
(* USBHost_t36 stack, which claim and drop the device and complete the     *)
(* transfers.  An interrupt is one step; the main program takes one step   *)
(* between two accesses to what they share, except where it masks the      *)
(* interrupt or where a step of the interrupt in between makes no          *)
(* difference.                                                             *)
(*                                                                         *)
(* The stack, the port and the device are external.  Lengths count parts   *)
(* of a slot, descriptors are the outcomes of scanning them, and a wait    *)
(* may time out at any moment.                                             *)
(***************************************************************************)
EXTENDS Integers, Sequences, FiniteSets

CONSTANTS
  Slots,      \* USB_DISP_BULK_XFER_COUNT
  SlotSize,   \* USB_DISP_BULK_XFER_SIZE, in parts
  MaxWrite    \* bound: parts in one bulk_write

ASSUME TeensyAssumption ==
  Slots \in Nat \ {0} /\ SlotSize \in Nat \ {0} /\ MaxWrite \in Nat \ {0}

VARIABLES
  port,            \* the cable: "empty", "wait" (debounce, enumeration), "seen"
  dev,             \* s_drv.dev() is not NULL
  pipe,            \* bulk_pipe is not NULL
  attached, pending_probe,
  free_slots, next_slot, cur, cur_fill,
  flight,          \* the slots queued in the stack, oldest first
  ctrl,            \* s_ctrl: busy, done, failed, abandoned
  queued,          \* the stack holds the control transfer
  pc, op, left,    \* the main program: where it is, in which call, parts to write
  ok,              \* what the last call or the last step of it returned
  struck           \* history: the windows in which an interrupt came

devVars   == <<port, dev, pipe, attached, pending_probe>>
slotVars  == <<free_slots, next_slot, cur, cur_fill, flight>>
ctrlVars  == <<ctrl, queued>>
mainVars  == <<pc, op, left, ok>>
vars      == <<devVars, slotVars, ctrlVars, mainVars, struck>>

NoSlot == -1

Init ==
  /\ port = "empty" /\ dev = FALSE /\ pipe = FALSE
  /\ attached = FALSE /\ pending_probe = FALSE
  /\ free_slots = Slots /\ next_slot = 0 /\ cur = NoSlot /\ cur_fill = 0
  /\ flight = <<>>
  /\ ctrl = [busy |-> FALSE, done |-> FALSE, failed |-> FALSE, abandoned |-> FALSE]
  /\ queued = FALSE
  /\ pc = "idle" /\ op = "none" /\ left = 0 /\ ok = TRUE
  /\ struck = {}

-----------------------------------------------------------------------------
(* Interrupts.                                                             *)

\* The device is connected again long after the calls that its removal broke
\* off: the stack debounces for 100 ms at least, they return at once.
Plug ==
  /\ port = "empty" /\ pc = "idle"
  /\ port' = "wait"
  /\ UNCHANGED <<dev, pipe, attached, pending_probe, slotVars, ctrlVars, mainVars, struck>>

\* A bulk pipe is there: all the slots are free.
FreshSlots ==
  /\ free_slots' = Slots /\ next_slot' = 0 /\ cur' = NoSlot /\ cur_fill' = 0
  /\ attached' = TRUE
  /\ struck' = struck \ {"taken", "submitted"}

ClaimRefused ==
  /\ port = "wait" /\ port' = "seen"
  /\ UNCHANGED <<dev, pipe, attached, pending_probe, slotVars, ctrlVars, mainVars, struck>>

Claimable == port = "wait" /\ ~attached /\ ~pending_probe

\* The active configuration has a vendor interface with a bulk OUT endpoint.
ClaimVendor ==
  /\ Claimable
  /\ port' = "seen" /\ dev' = TRUE /\ pipe' = TRUE
  /\ FreshSlots
  /\ UNCHANGED <<pending_probe, flight, ctrlVars, mainVars>>

\* It has one, but the stack has no pipe for it.
ClaimNoPipe ==
  /\ Claimable
  /\ port' = "seen" /\ dev' = TRUE
  /\ UNCHANGED <<pipe, attached, pending_probe, slotVars, ctrlVars, mainVars, struck>>

\* It has none: usb_disp_hal_poll looks at the other configurations.
ClaimProbe ==
  /\ Claimable
  /\ port' = "seen" /\ dev' = TRUE /\ pending_probe' = TRUE
  /\ UNCHANGED <<pipe, attached, slotVars, ctrlVars, mainVars, struck>>

\* disconnect(), when the driver holds the device.  The stack throws away the
\* pipe and the transfers, without callbacks.
Unplug ==
  /\ port # "empty" /\ port' = "empty"
  /\ IF dev
     THEN /\ dev' = FALSE /\ pipe' = FALSE
          /\ attached' = FALSE /\ pending_probe' = FALSE
          /\ ctrl' = IF ctrl.busy THEN [ctrl EXCEPT !.failed = TRUE, !.done = TRUE] ELSE ctrl
          /\ queued' = FALSE
          /\ free_slots' = Slots /\ flight' = <<>>
          /\ struck' = struck \cup (IF pc \in {"make", "pipe"} THEN {"pipe"} ELSE {})
                              \cup (IF ctrl.busy /\ ctrl.abandoned THEN {"abandoned"} ELSE {})
     ELSE UNCHANGED <<dev, pipe, attached, pending_probe, free_slots, flight, ctrlVars, struck>>
  /\ UNCHANGED <<next_slot, cur, cur_fill, mainVars>>

\* Mutation: the callback of an abandoned transfer leaves s_ctrl busy.
CtrlCallbackKeepsBusy ==
  /\ queued /\ queued' = FALSE
  /\ \E failed \in BOOLEAN :
       ctrl' = IF ~ctrl.busy THEN ctrl
               ELSE IF ctrl.abandoned THEN [ctrl EXCEPT !.abandoned = FALSE]
               ELSE [ctrl EXCEPT !.failed = failed \/ @, !.done = TRUE]
  /\ UNCHANGED <<devVars, slotVars, mainVars, struck>>

\* control() and ctrl_err_cb: the transfer is answered or fails.  When the
\* caller has gone, the callback frees s_ctrl in its place.
CtrlCallback ==
  /\ queued /\ queued' = FALSE
  /\ \E failed \in BOOLEAN :
       ctrl' = IF ~ctrl.busy THEN ctrl
               ELSE IF ctrl.abandoned
               THEN [ctrl EXCEPT !.abandoned = FALSE, !.busy = FALSE]
               ELSE [ctrl EXCEPT !.failed = failed \/ @, !.done = TRUE]
  /\ UNCHANGED <<devVars, slotVars, mainVars, struck>>

\* bulk_cb: the oldest transfer is complete.
BulkDone ==
  /\ flight # <<>> /\ flight' = Tail(flight)
  /\ free_slots' = IF free_slots < Slots THEN free_slots + 1 ELSE free_slots
  /\ UNCHANGED <<devVars, next_slot, cur, cur_fill, ctrlVars, mainVars, struck>>

\* Mutation: the slot being filled counts as free.
BulkErrorFreesCur ==
  /\ flight # <<>> /\ flight' = <<>>
  /\ free_slots' = Slots
  /\ struck' = struck \cup ({"taken", "submitted"} \cap {pc})
  /\ UNCHANGED <<devVars, next_slot, cur, cur_fill, ctrlVars, mainVars>>

\* bulk_err_cb: the stack threw away everything queued.
BulkError ==
  /\ flight # <<>> /\ flight' = <<>>
  /\ free_slots' = Slots - (IF cur # NoSlot THEN 1 ELSE 0)
  /\ struck' = struck \cup ({"taken", "submitted"} \cap {pc})
  /\ UNCHANGED <<devVars, next_slot, cur, cur_fill, ctrlVars, mainVars>>

Interrupt ==
  \/ ClaimRefused \/ ClaimVendor \/ ClaimNoPipe \/ ClaimProbe
  \/ CtrlCallback \/ BulkDone \/ BulkError

-----------------------------------------------------------------------------
(* Control transfers: ctrl_common.                                         *)

Idle == pc = "idle"

\* The call of a control transfer, up to ctrl_submit's test of the device: it is
\* refused when there is none or an earlier transfer is not finished.
StartCtrl(why) ==
  /\ op' = why /\ ok' = FALSE
  /\ IF dev /\ ~ctrl.busy
       THEN /\ ctrl' = [busy |-> TRUE, done |-> FALSE, failed |-> FALSE, abandoned |-> FALSE]
            /\ pc' = "queue"
       ELSE pc' = "ret" /\ UNCHANGED ctrl
  /\ UNCHANGED <<queued, left>>

\* queue_Control_Transfer, which may refuse.  A device that was removed since
\* the test is a stale pointer: the transfer goes nowhere.
CtrlQueue ==
  /\ pc = "queue"
  /\ \/ pc' = "ctrl" /\ queued' = dev /\ UNCHANGED ctrl
     \/ pc' = "ret" /\ ctrl' = [ctrl EXCEPT !.busy = FALSE] /\ UNCHANGED queued
  /\ UNCHANGED <<devVars, slotVars, op, left, ok, struck>>

CtrlCall ==
  /\ Idle /\ attached
  /\ StartCtrl("app")
  /\ UNCHANGED <<devVars, slotVars, struck>>

CtrlAnswered ==
  /\ pc = "ctrl" /\ ctrl.done
  /\ ok' = ~ctrl.failed
  /\ ctrl' = [ctrl EXCEPT !.busy = FALSE]
  /\ pc' = "ret"
  /\ UNCHANGED <<devVars, slotVars, queued, op, left, struck>>

\* Mutation: the caller that gives up frees s_ctrl itself.
CtrlTimeoutFrees ==
  /\ pc = "ctrl" /\ ~ctrl.done
  /\ ctrl' = [ctrl EXCEPT !.busy = FALSE]
  /\ pc' = "ret" /\ ok' = FALSE
  /\ UNCHANGED <<devVars, slotVars, queued, op, left, struck>>

\* The interrupt is masked while done is read again and abandoned is set.
CtrlTimeout ==
  /\ pc = "ctrl" /\ ~ctrl.done
  /\ ctrl' = [ctrl EXCEPT !.abandoned = TRUE]
  /\ pc' = "ret" /\ ok' = FALSE
  /\ UNCHANGED <<devVars, slotVars, queued, op, left, struck>>

CtrlReturn ==
  /\ pc = "ret" /\ op = "app"
  /\ pc' = "idle" /\ op' = "none"
  /\ UNCHANGED <<devVars, slotVars, ctrlVars, left, ok, struck>>

-----------------------------------------------------------------------------
(* usb_disp_hal_poll and probe_and_finish.                                 *)

PollProbe ==
  /\ Idle /\ pending_probe /\ dev
  /\ pending_probe' = FALSE
  /\ StartCtrl("device")
  /\ UNCHANGED <<port, dev, pipe, attached, slotVars, struck>>

\* The next read after one returned: each of up to 4 configurations is read in
\* two steps, then configuration 0 once more as a fallback.
ProbeRead ==
  /\ pc = "ret"
  /\ \/ op = "device" /\ ok /\ StartCtrl("config")
     \/ /\ op \in {"config", "switch"}
        /\ op = "switch" => ~ok
        /\ StartCtrl("config") \/ StartCtrl("fallback")
     \/ op = "fallback" /\ ok /\ StartCtrl("fallback")
  /\ UNCHANGED <<devVars, slotVars, struck>>

\* A configuration with a vendor interface: SET_CONFIGURATION.
ProbeSwitch ==
  /\ pc = "ret" /\ op = "config" /\ ok
  /\ StartCtrl("switch")
  /\ UNCHANGED <<devVars, slotVars, struck>>

ProbeGivesUp ==
  /\ pc = "ret"
  /\ op \in {"device", "fallback"}
  /\ op = "device" => ~ok
  /\ pc' = "idle" /\ op' = "none"
  /\ UNCHANGED <<devVars, slotVars, ctrlVars, left, ok, struck>>

\* Mutation: the device is not looked at.
FinishPipeUnchecked ==
  /\ pc = "ret" /\ op \in {"switch", "fallback"} /\ ok
  /\ pc' = "make"
  /\ UNCHANGED <<devVars, slotVars, ctrlVars, op, left, ok, struck>>

\* finish_pipe up to make_bulk_pipe_irqsafe's test of the device.
FinishPipe ==
  /\ pc = "ret" /\ op \in {"switch", "fallback"} /\ ok
  /\ IF dev THEN pc' = "make" /\ op' = op ELSE pc' = "idle" /\ op' = "none"
  /\ UNCHANGED <<devVars, slotVars, ctrlVars, left, ok, struck>>

\* new_Pipe, with the interrupt masked, for the device that was there at the
\* test; it may fail.
MakePipe ==
  /\ pc = "make"
  /\ \/ pipe' = TRUE /\ pc' = "pipe" /\ UNCHANGED <<op, struck>>
     \/ /\ pc' = "idle" /\ op' = "none" /\ struck' = struck \ {"pipe"}
        /\ UNCHANGED pipe
  /\ UNCHANGED <<port, dev, attached, pending_probe, slotVars, ctrlVars, left, ok>>

\* The end of finish_pipe, with the interrupt masked again.
PipeAttach ==
  /\ pc = "pipe"
  /\ FreshSlots
  /\ pc' = "idle" /\ op' = "none"
  /\ UNCHANGED <<port, dev, pipe, pending_probe, flight, ctrlVars, left, ok>>

\* usb_disp_hal_request_reenum of a Teensy 4.1: the port has no power until
\* the device has gone.
Reenum ==
  /\ Idle
  /\ pc' = "power"
  /\ UNCHANGED <<devVars, slotVars, ctrlVars, op, left, ok, struck>>

PowerOn ==
  /\ pc = "power" /\ port = "empty"
  /\ pc' = "idle"
  /\ UNCHANGED <<devVars, slotVars, ctrlVars, op, left, ok, struck>>

Poll ==
  \/ PollProbe \/ ProbeRead \/ ProbeSwitch \/ ProbeGivesUp
  \/ FinishPipe \/ MakePipe \/ PipeAttach

-----------------------------------------------------------------------------
(* The bulk stream.                                                        *)

Return(result) == pc' = "idle" /\ op' = "none" /\ left' = 0 /\ ok' = result

WriteCall ==
  /\ Idle /\ attached
  /\ \E len \in 1..MaxWrite : left' = len
  /\ pc' = "write" /\ op' = "write"
  /\ UNCHANGED <<devVars, slotVars, ctrlVars, ok, struck>>

\* take_slot, with the interrupt masked.
TakeSlot ==
  /\ pc = "write" /\ left > 0 /\ cur = NoSlot
  /\ free_slots > 0
  /\ free_slots' = free_slots - 1
  /\ pc' = "taken"
  /\ UNCHANGED <<devVars, next_slot, cur, cur_fill, flight, ctrlVars, op, left, ok, struck>>

\* No slot came free in time, or the device is gone: a short write.
TakeNothing ==
  /\ pc = "write" /\ left > 0 /\ cur = NoSlot
  /\ free_slots = 0
  /\ Return(FALSE)
  /\ UNCHANGED <<devVars, slotVars, ctrlVars, struck>>

\* The device has gone meanwhile: the slot is not given back, disconnect made
\* them all free.
UseSlot ==
  /\ pc = "taken"
  /\ IF attached
     THEN /\ cur' = next_slot /\ cur_fill' = 0
          /\ next_slot' = (next_slot + 1) % Slots
          /\ pc' = "write" /\ UNCHANGED <<op, left, ok>>
     ELSE Return(FALSE) /\ UNCHANGED <<cur, cur_fill, next_slot>>
  /\ UNCHANGED <<devVars, free_slots, flight, ctrlVars, struck>>

Copied == IF left < SlotSize - cur_fill THEN left ELSE SlotSize - cur_fill

CopyIn ==
  /\ pc = "write" /\ left > 0 /\ cur # NoSlot
  /\ cur_fill' = cur_fill + Copied /\ left' = left - Copied
  /\ pc' = IF cur_fill' = SlotSize THEN "submit" ELSE "write"
  /\ UNCHANGED <<devVars, free_slots, next_slot, cur, flight, ctrlVars, op, ok, struck>>

WriteReturn ==
  /\ pc = "write" /\ left = 0
  /\ Return(TRUE)
  /\ UNCHANGED <<devVars, slotVars, ctrlVars, struck>>

\* submit_cur: the tests of the device and of the pipe.
SubmitTest ==
  /\ pc = "submit" /\ attached /\ pipe
  /\ pc' = "queueing"
  /\ UNCHANGED <<devVars, slotVars, ctrlVars, op, left, ok, struck>>

\* queue_Data_Transfer takes the slot.  When the device was removed since the
\* tests, its pipe is a stale pointer and the transfer goes nowhere.
SubmitQueued ==
  /\ pc = "queueing"
  /\ flight' = IF pipe THEN Append(flight, cur) ELSE flight
  /\ pc' = "submitted" /\ ok' = TRUE
  /\ UNCHANGED <<devVars, free_slots, next_slot, cur, cur_fill, ctrlVars, op, left, struck>>

\* Mutation: the slot goes back, but not the turn.
SubmitRefusedKeepsTurn ==
  /\ pc \in {"submit", "queueing"}
  /\ free_slots' = IF free_slots < Slots THEN free_slots + 1 ELSE free_slots
  /\ pc' = "submitted" /\ ok' = FALSE
  /\ UNCHANGED <<devVars, next_slot, cur, cur_fill, flight, ctrlVars, op, left, struck>>

\* Mutation: the count is not limited.
SubmitRefusedUncapped ==
  /\ pc \in {"submit", "queueing"}
  /\ free_slots' = free_slots + 1
  /\ next_slot' = (next_slot + Slots - 1) % Slots
  /\ pc' = "submitted" /\ ok' = FALSE
  /\ UNCHANGED <<devVars, cur, cur_fill, flight, ctrlVars, op, left, struck>>

\* A test or the stack refuses: the slot goes back, and the turn with it.
SubmitRefused ==
  /\ pc \in {"submit", "queueing"}
  /\ free_slots' = IF free_slots < Slots THEN free_slots + 1 ELSE free_slots
  /\ next_slot' = (next_slot + Slots - 1) % Slots
  /\ pc' = "submitted" /\ ok' = FALSE
  /\ UNCHANGED <<devVars, cur, cur_fill, flight, ctrlVars, op, left, struck>>

\* submit_cur forgets the slot and returns to its caller.
SubmitEnd ==
  /\ pc = "submitted"
  /\ cur' = NoSlot /\ cur_fill' = 0
  /\ CASE ok /\ op = "write" -> pc' = "write" /\ UNCHANGED <<op, left, ok>>
       [] ok /\ op = "flush" -> pc' = "drain" /\ UNCHANGED <<op, left, ok>>
       [] OTHER              -> Return(ok)
  /\ UNCHANGED <<devVars, free_slots, next_slot, flight, ctrlVars, struck>>

\* bulk_split, and bulk_zlp, which does the same here.
SplitCall ==
  /\ Idle /\ attached
  /\ cur # NoSlot /\ cur_fill > 0
  /\ pc' = "submit" /\ op' = "split"
  /\ UNCHANGED <<devVars, slotVars, ctrlVars, left, ok, struck>>

FlushCall ==
  /\ Idle /\ attached
  /\ pc' = IF cur # NoSlot /\ cur_fill > 0 THEN "submit" ELSE "drain"
  /\ op' = "flush"
  /\ UNCHANGED <<devVars, slotVars, ctrlVars, left, ok, struck>>

\* Mutation: the slot being filled is thought to be still out.
FlushTrueOneShort ==
  /\ pc = "drain" /\ free_slots >= Slots - 1
  /\ Return(TRUE)
  /\ UNCHANGED <<devVars, slotVars, ctrlVars, struck>>

FlushTrue ==
  /\ pc = "drain" /\ free_slots >= Slots
  /\ Return(TRUE)
  /\ UNCHANGED <<devVars, slotVars, ctrlVars, struck>>

\* The device has gone, or the time is over.
FlushFalse ==
  /\ pc = "drain" /\ free_slots < Slots
  /\ Return(FALSE)
  /\ UNCHANGED <<devVars, slotVars, ctrlVars, struck>>

Main ==
  \/ CtrlCall \/ CtrlQueue \/ CtrlAnswered \/ CtrlTimeout \/ CtrlReturn
  \/ Poll \/ Reenum \/ PowerOn
  \/ WriteCall \/ TakeSlot \/ TakeNothing \/ UseSlot \/ CopyIn \/ WriteReturn
  \/ SubmitTest \/ SubmitQueued \/ SubmitRefused \/ SubmitEnd
  \/ SplitCall \/ FlushCall \/ FlushTrue \/ FlushFalse

Next == Plug \/ Unplug \/ Interrupt \/ Main

Spec == Init /\ [][Next]_vars

-----------------------------------------------------------------------------
TypeOK ==
  /\ port \in {"empty", "wait", "seen"}
  /\ dev \in BOOLEAN /\ pipe \in BOOLEAN
  /\ attached \in BOOLEAN /\ pending_probe \in BOOLEAN
  /\ free_slots \in 0..Slots /\ next_slot \in 0..Slots-1
  /\ cur \in (0..Slots-1) \cup {NoSlot} /\ cur_fill \in 0..SlotSize
  /\ flight \in Seq(0..Slots-1)
  /\ ctrl \in [busy : BOOLEAN, done : BOOLEAN, failed : BOOLEAN, abandoned : BOOLEAN]
  /\ queued \in BOOLEAN
  /\ pc \in {"idle", "queue", "ctrl", "ret", "make", "pipe", "power", "write",
             "taken", "submit", "queueing", "submitted", "drain"}
  /\ op \in {"none", "app", "device", "config", "switch", "fallback", "write",
             "split", "flush"}
  /\ left \in 0..MaxWrite /\ ok \in BOOLEAN
  /\ struck \subseteq {"taken", "submitted", "pipe", "abandoned"}

\* No error of the pipe came while take_slot's slot was not yet in cur, or
\* while cur still named a slot that submit_cur had handed over.
Unstruck == struck \cap {"taken", "submitted"} = {}

\* The slot the main program holds, which counts neither as free nor as queued.
Held == IF pc = "taken" \/ (cur # NoSlot /\ pc # "submitted") THEN 1 ELSE 0

\* Every slot is free, queued or held: bulk_err_cb, bulk_cb, take_slot and
\* submit_cur keep one count in step, whatever the order in which they come.
SlotsAccounted ==
  attached /\ Unstruck => free_slots + Len(flight) + Held = Slots

\* The slots in flight are the last ones before the one that is filled next, in
\* the order of the ring: bulk_write fills no slot the stack still sends, which
\* hal_teensy.cpp:66 takes for granted when it counts the free slots only.
StreamInOrder ==
  LET upcoming == IF cur # NoSlot /\ pc # "submitted" THEN cur ELSE next_slot
  IN  attached /\ Unstruck =>
        /\ Len(flight) + Held <= Slots
        /\ \A i \in 1..Len(flight) :
             (flight[i] + Len(flight) + 1 - i) % Slots = upcoming

\* While the stack holds the control transfer, s_ctrl is busy: its setup packet
\* and data, which the stack reads and writes, are not used for another call,
\* and an answer is never taken for the answer to a later call.
BuffersHeld == queued => ctrl.busy

\* s_ctrl is busy only while someone will free it: the caller that uses it or the
\* callback of the transfer (hal_teensy.cpp:362).
ControlFreed == ctrl.busy => queued \/ pc \in {"queue", "ctrl"}

\* The same, but for a device that is removed while a transfer is abandoned.
ControlFreedElse == "abandoned" \in struck \/ ControlFreed

\* A device that usb_disp_hal_attached reports is there, with its pipe: or else
\* no later device can be claimed.  Unless the device is removed while finish_pipe
\* is between its test of the device (hal_teensy.cpp:131) and its last step.
AttachedHasDevice == attached => (dev /\ pipe) \/ "pipe" \in struck

\* A flush that returns true for a device still attached has waited for every
\* transfer (usb_disp_hal.h:62), and left nothing in the slot being filled.
FlushDelivers ==
  [][pc = "drain" /\ pc' = "idle" /\ ok' /\ attached /\ Unstruck =>
       flight = <<>> /\ cur = NoSlot]_vars

=============================================================================
