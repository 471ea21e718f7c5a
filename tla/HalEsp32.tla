------------------------------- MODULE HalEsp32 ------------------------------
(***************************************************************************)
(* The ESP32 HAL (usb_disp_hal_esp32.cpp): client_task, which takes the    *)
(* events and the callbacks of the usb_host stack, finds a device and sets *)
(* it up or tears it down, and the application's task, which calls the     *)
(* functions of usb_disp_hal.h and does the part of a set-up that needs    *)
(* control transfers.  They share the state of s_hal[0] and two            *)
(* semaphores, ctrl_done and bulk_free.                                    *)
(*                                                                         *)
(* The bus and the stack are external: the devices sit behind a hub, the   *)
(* stack completes a transfer some time after its submission, and the      *)
(* callback runs later, in client_task.  Which slot of the ring is used    *)
(* follows from the count as on the Teensy (HalTeensy) and is left out.    *)
(***************************************************************************)
EXTENDS Naturals, FiniteSets

CONSTANTS
  Devices,    \* displays that come and go
  NoDevice,   \* h->dev is NULL
  Slots       \* USB_DISP_BULK_XFER_COUNT

ASSUME Esp32Assumption ==
  NoDevice \notin Devices /\ Slots \in Nat \ {0}

VARIABLES
  port,                     \* each device: "none", "enum" (being enumerated), "ready"
  new_dev,                  \* a NEW_DEV event waits for client_task
  alive,                    \* the device held is still the one that was opened
  dev, gone, attached, pending_probe,
  scan_needed, scan_retry,  \* scan now; scan_retry_ms is set
  ctrl_xfer,                \* "none", "idle", "flight", "complete" (no callback yet)
  ctrl_done,                \* the binary semaphore
  xfers,                    \* the bulk transfers are allocated
  bulk_free,                \* the counting semaphore
  flight, complete, errors, \* transfers: in flight, complete, of these failed
  halted, ep_recover,
  cur,                      \* h->cur is not NULL
  cpc,                      \* where client_task is
  pc, op, got,              \* the application: where it is, in which call, the
                            \* slots a flush has taken
  fin,                      \* how far finish_setup is
  struck                    \* history: the windows in which the other task came:
                            \* "late", a callback before the next submission,
                            \* "probe", a teardown during probe_and_finish

busVars  == <<port, new_dev, alive>>
findVars == <<scan_needed, scan_retry>>
devVars  == <<dev, gone, attached, pending_probe>>
ctrlVars == <<ctrl_xfer, ctrl_done>>
bulkVars == <<xfers, bulk_free, flight, complete, errors, halted, ep_recover, cur>>
appVars  == <<pc, op, got>>
setVars  == <<cpc, fin, struck>>
vars     == <<busVars, findVars, devVars, ctrlVars, bulkVars, appVars, setVars>>

Init ==
  /\ port = [d \in Devices |-> "none"] /\ new_dev = FALSE /\ alive = FALSE
  /\ dev = NoDevice /\ gone = FALSE /\ attached = FALSE /\ pending_probe = FALSE
  /\ scan_needed = FALSE /\ scan_retry = FALSE
  /\ ctrl_xfer = "none" /\ ctrl_done = FALSE
  /\ xfers = FALSE /\ bulk_free = 0
  /\ flight = 0 /\ complete = 0 /\ errors = 0 /\ halted = FALSE /\ ep_recover = FALSE
  /\ cur = FALSE
  /\ cpc = "loop" /\ fin = "none" /\ struck = {}
  /\ pc = "idle" /\ op = "none" /\ got = 0

\* Mutant of Given: a semaphore without a limit.
GivenUncapped(n) == bulk_free + n

\* xSemaphoreGive n times: a full counting semaphore takes no more.
Given(n) == IF bulk_free + n > Slots THEN Slots ELSE bulk_free + n

-----------------------------------------------------------------------------
(* The bus and the stack.                                                  *)

Plug(d) ==
  /\ port[d] = "none"
  /\ port' = [port EXCEPT ![d] = "enum"]
  /\ UNCHANGED <<new_dev, alive, findVars, devVars, ctrlVars, bulkVars, appVars, setVars>>

Enumerated(d) ==
  /\ port[d] = "enum"
  /\ port' = [port EXCEPT ![d] = "ready"] /\ new_dev' = TRUE
  /\ UNCHANGED <<alive, findVars, devVars, ctrlVars, bulkVars, appVars, setVars>>

\* The stack completes the transfers of devices that leave, with an error.
Leave(ds) ==
  /\ port' = [d \in Devices |-> IF d \in ds THEN "none" ELSE port[d]]
  /\ IF alive /\ dev \in ds
     THEN /\ alive' = FALSE
          /\ complete' = complete + flight /\ errors' = errors + flight /\ flight' = 0
          /\ ctrl_xfer' = IF ctrl_xfer = "flight" THEN "complete" ELSE ctrl_xfer
     ELSE UNCHANGED <<alive, complete, errors, flight, ctrl_xfer>>

Unplug(d) ==
  /\ port[d] # "none"
  /\ Leave({d})
  /\ UNCHANGED <<new_dev, findVars, devVars, ctrl_done, xfers, bulk_free, halted, ep_recover,
                 cur, appVars, setVars>>

CtrlComplete ==
  /\ ctrl_xfer = "flight" /\ ctrl_xfer' = "complete"
  /\ UNCHANGED <<busVars, findVars, devVars, ctrl_done, bulkVars, appVars, setVars>>

BulkComplete ==
  /\ flight > 0 /\ ~halted
  /\ flight' = flight - 1 /\ complete' = complete + 1
  /\ UNCHANGED <<busVars, findVars, devVars, ctrlVars, xfers, bulk_free, errors, halted,
                 ep_recover, cur, appVars, setVars>>

\* The pipe halts: what is queued stays until the pipe is flushed.
BulkFails ==
  /\ flight > 0 /\ ~halted
  /\ flight' = flight - 1 /\ complete' = complete + 1 /\ errors' = errors + 1
  /\ halted' = TRUE
  /\ UNCHANGED <<busVars, findVars, devVars, ctrlVars, xfers, bulk_free, ep_recover, cur,
                 appVars, setVars>>

Bus ==
  \/ \E d \in Devices : Plug(d) \/ Enumerated(d) \/ Unplug(d)
  \/ CtrlComplete \/ BulkComplete \/ BulkFails

-----------------------------------------------------------------------------
(* client_task.  The turns of its loop come in any order.                  *)

Loop == cpc = "loop"

\* ctrl_xfer_cb
CtrlCallback ==
  /\ Loop /\ ctrl_xfer = "complete"
  /\ ctrl_xfer' = "idle" /\ ctrl_done' = TRUE
  /\ struck' = IF pc = "submit_ctrl" THEN struck \cup {"late"} ELSE struck
  /\ UNCHANGED <<busVars, findVars, devVars, bulkVars, appVars, cpc, fin>>

\* bulk_xfer_cb; a transfer that bulk_ep_recover cancelled is no error.
BulkCallback ==
  /\ Loop /\ complete > 0
  /\ complete' = complete - 1
  /\ \/ complete > errors /\ UNCHANGED <<errors, ep_recover>>
     \/ errors > 0 /\ errors' = errors - 1 /\ ep_recover' = TRUE
  /\ bulk_free' = Given(1)
  /\ UNCHANGED <<busVars, findVars, devVars, ctrlVars, xfers, flight, halted, cur, appVars,
                 setVars>>

\* client_event_cb
NewDev ==
  /\ Loop /\ new_dev /\ new_dev' = FALSE
  /\ scan_needed' = TRUE
  /\ UNCHANGED <<port, alive, scan_retry, devVars, ctrlVars, bulkVars, appVars,
                 setVars>>

\* DEV_GONE comes after the callbacks of the device's transfers.
DevGone ==
  /\ Loop /\ dev # NoDevice /\ ~alive /\ ~gone
  /\ ctrl_xfer # "complete" /\ complete = 0
  /\ gone' = TRUE
  /\ UNCHANGED <<busVars, findVars, dev, attached, pending_probe, ctrlVars, bulkVars, appVars,
                 setVars>>

\* Mutant of TeardownBegin: attached is left to the next set-up.
TeardownBeginAttached ==
  /\ Loop /\ gone
  /\ gone' = FALSE /\ pending_probe' = FALSE /\ scan_retry' = FALSE
  /\ cpc' = "teardown"
  /\ UNCHANGED <<busVars, scan_needed, dev, attached, ctrlVars, bulkVars, appVars, fin, struck>>

\* device_teardown up to its wait of 50 ms
TeardownBegin ==
  /\ Loop /\ gone
  /\ gone' = FALSE /\ attached' = FALSE /\ pending_probe' = FALSE /\ scan_retry' = FALSE
  /\ cpc' = "teardown"
  /\ UNCHANGED <<busVars, scan_needed, dev, ctrlVars, bulkVars, appVars,
                 fin, struck>>

\* The application is inside a transfer or finish_setup, which take less than
\* the 50 ms: the retries of submit_cur are 10 ms apart and look at attached.
InTransfer ==
  \/ pc \in {"taken", "fill", "submit", "submit_ctrl", "finish"}
  \/ pc = "ctrl" /\ ctrl_done
  \/ pc = "free" /\ bulk_free > 0

\* The application is between the control transfers of probe_and_finish, which
\* waits 100 ms and more.
Probing == op \in {"read", "switch", "reread"}

\* Mutant of TeardownEnd: the scan waits for the next NEW_DEV.
TeardownEndNoScan ==
  /\ cpc = "teardown" /\ ~InTransfer
  /\ xfers' = FALSE /\ ctrl_xfer' = "none" /\ ep_recover' = FALSE /\ halted' = FALSE
  /\ dev' = NoDevice
  /\ cpc' = "loop"
  /\ struck' = IF Probing THEN struck \cup {"probe"} ELSE struck
  /\ UNCHANGED <<busVars, scan_needed, scan_retry, gone, attached, pending_probe, ctrl_done,
                 bulk_free, flight, complete, errors, cur, appVars, fin>>

\* device_teardown after the wait; then the bus is scanned for another device.
TeardownEnd ==
  /\ cpc = "teardown" /\ ~InTransfer
  /\ xfers' = FALSE /\ ctrl_xfer' = "none" /\ ep_recover' = FALSE /\ halted' = FALSE
  /\ dev' = NoDevice
  /\ scan_needed' = TRUE
  /\ cpc' = "loop"
  /\ struck' = IF Probing THEN struck \cup {"probe"} ELSE struck
  /\ UNCHANGED <<busVars, scan_retry, gone, attached, pending_probe,
                 ctrl_done, bulk_free, flight, complete, errors, cur, appVars, fin>>

\* The 250 ms after a device could not be opened are over.
ScanRetry ==
  /\ Loop /\ scan_retry /\ dev = NoDevice
  /\ scan_retry' = FALSE /\ scan_needed' = TRUE
  /\ UNCHANGED <<busVars, devVars, ctrlVars, bulkVars, appVars, setVars>>

\* A device still being enumerated cannot be opened: look again in a while, if
\* scan_retry_cnt is not used up.
OpenTooEarly ==
  \/ (\E d \in Devices : port[d] = "enum") /\ scan_retry' = TRUE
  \/ UNCHANGED scan_retry

ScanNothing ==
  /\ Loop /\ scan_needed /\ dev = NoDevice
  /\ \A d \in Devices : port[d] # "ready"
  /\ scan_needed' = FALSE /\ OpenTooEarly
  /\ UNCHANGED <<busVars, devVars, ctrlVars, bulkVars, appVars, setVars>>

\* scan_devices, device_setup: the device is held, and set up here, or by the
\* application when no configuration in use has a vendor interface.  (Without
\* memory for a control transfer it is left as by FinishFails.)
ScanFound ==
  /\ Loop /\ scan_needed /\ dev = NoDevice
  /\ \E d \in Devices : port[d] = "ready" /\ dev' = d
  /\ alive' = TRUE
  /\ scan_needed' = FALSE /\ OpenTooEarly
  /\ ctrl_xfer' = "idle"
  /\ \/ pending_probe' = TRUE /\ UNCHANGED <<cpc, fin>>
     \/ cpc' = "finish" /\ fin' = "begin" /\ UNCHANGED pending_probe
  /\ UNCHANGED <<port, new_dev, gone, attached, ctrl_done, bulkVars, appVars,
                 struck>>

\* Mutant of EpRecover: the pipe is flushed and not cleared.
EpRecoverNoClear ==
  /\ Loop /\ ep_recover /\ attached
  /\ ep_recover' = FALSE
  /\ flight' = 0 /\ complete' = complete + flight
  /\ UNCHANGED <<busVars, findVars, devVars, ctrlVars, xfers, bulk_free, errors, halted, cur,
                 appVars, setVars>>

\* bulk_ep_recover: the pipe is flushed, which cancels its transfers, and cleared.
EpRecover ==
  /\ Loop /\ ep_recover /\ attached
  /\ ep_recover' = FALSE
  /\ IF dev # NoDevice /\ alive
     THEN /\ halted' = FALSE
          /\ flight' = 0 /\ complete' = complete + flight
     ELSE UNCHANGED <<halted, flight, complete>>
  /\ UNCHANGED <<busVars, findVars, devVars, ctrlVars, xfers, bulk_free, errors, cur, appVars,
                 setVars>>

-----------------------------------------------------------------------------
(* finish_setup, in either task.                                           *)

FinishBy == IF cpc = "finish" THEN "client" ELSE "app"

FinishLeave ==
  /\ fin' = "none"
  /\ IF FinishBy = "client"
     THEN cpc' = "loop" /\ UNCHANGED <<pc, op>>
     ELSE pc' = "idle" /\ op' = "none" /\ UNCHANGED cpc

\* No endpoint, or the interface or the transfers are refused: the device is
\* held and not attached.
FinishFails ==
  /\ fin = "begin"
  /\ FinishLeave
  /\ UNCHANGED <<busVars, findVars, devVars, ctrlVars, bulkVars, got, struck>>

FinishClaim ==
  /\ fin = "begin" /\ dev # NoDevice
  /\ xfers' = TRUE /\ fin' = "claimed"
  /\ UNCHANGED <<busVars, findVars, devVars, ctrlVars, bulk_free, flight, complete, errors,
                 halted, ep_recover, cur, appVars, cpc, struck>>

FinishReset ==
  /\ fin = "claimed"
  /\ cur' = FALSE /\ ep_recover' = FALSE /\ bulk_free' = Slots
  /\ fin' = "reset"
  /\ UNCHANGED <<busVars, findVars, devVars, ctrlVars, xfers, flight, complete, errors, halted,
                 appVars, cpc, struck>>

FinishAttach ==
  /\ fin = "reset"
  /\ attached' = TRUE
  /\ struck' = IF cpc = "teardown" THEN struck \cup {"probe"} ELSE struck
  /\ FinishLeave
  /\ UNCHANGED <<busVars, scan_needed, scan_retry, dev, gone, pending_probe,
                 ctrlVars, bulkVars, got>>

Client ==
  \/ CtrlCallback \/ BulkCallback \/ NewDev \/ DevGone \/ TeardownBegin \/ TeardownEnd
  \/ ScanRetry \/ ScanNothing \/ ScanFound \/ EpRecover

Finish == FinishFails \/ FinishClaim \/ FinishReset \/ FinishAttach

-----------------------------------------------------------------------------
(* The application: control transfers.                                     *)

\* Mutant of CtrlPrepare: ctrl_done is not cleared.
CtrlPrepareNoClear(o) ==
  /\ ctrl_xfer # "none"
  /\ pc' = "submit_ctrl" /\ op' = o
  /\ struck' = struck \ {"late"}
  /\ UNCHANGED <<busVars, findVars, devVars, ctrlVars, bulkVars, got, cpc, fin>>

\* ctrl_common up to the submission: the buffer is written, ctrl_done cleared.
CtrlPrepare(o) ==
  /\ ctrl_xfer # "none"
  /\ pc' = "submit_ctrl" /\ op' = o
  /\ ctrl_done' = FALSE /\ struck' = struck \ {"late"}
  /\ UNCHANGED <<busVars, findVars, devVars, ctrl_xfer, bulkVars, got, cpc, fin>>

\* usb_disp_hal_ctrl
CtrlCall == pc = "idle" /\ attached /\ CtrlPrepare("ctrl")

\* What comes after a control transfer with result r: usb_disp_hal_ctrl
\* returns it; probe_and_finish reads the configurations, switches to the one
\* with a vendor interface, sees whether it is the first one now, and sets up.
CtrlReturn(r) ==
  /\ pc' \in CASE op = "ctrl"   -> {"idle"}
               [] op = "read"   -> IF r THEN {"read", "switch", "finish"} ELSE {"read", "finish"}
               [] op = "switch" -> IF r THEN {"reread", "finish"} ELSE {"finish"}
               [] op = "reread" -> IF r THEN {"reenum", "finish"} ELSE {"finish"}
  /\ op' = IF op = "ctrl" THEN "none" ELSE op
  /\ fin' = IF pc' = "finish" THEN "begin" ELSE fin
  /\ UNCHANGED <<busVars, findVars, devVars, bulkVars, got, cpc>>

\* The stack takes a transfer that is not under way already.
CtrlSubmit ==
  /\ pc = "submit_ctrl" /\ ctrl_xfer = "idle" /\ alive
  /\ ctrl_xfer' = "flight" /\ pc' = "ctrl"
  /\ UNCHANGED <<busVars, findVars, devVars, ctrl_done, bulkVars, op, got, setVars>>

CtrlRefused ==
  /\ pc = "submit_ctrl" /\ (ctrl_xfer # "idle" \/ ~alive)
  /\ CtrlReturn(FALSE)
  /\ UNCHANGED <<ctrlVars, struck>>

CtrlAnswered ==
  /\ pc = "ctrl" /\ ctrl_done
  /\ ctrl_done' = FALSE
  /\ \E r \in BOOLEAN : CtrlReturn(r)
  /\ UNCHANGED <<ctrl_xfer, struck>>

\* After USB_DISP_CTRL_TIMEOUT_MS; the transfer is left to the stack.
CtrlTimeout ==
  /\ pc = "ctrl" /\ ~ctrl_done
  /\ CtrlReturn(FALSE)
  /\ UNCHANGED <<ctrlVars, struck>>

\* usb_disp_hal_poll
PollProbe ==
  /\ pc = "idle" /\ pending_probe /\ dev # NoDevice /\ ~gone
  /\ pending_probe' = FALSE
  /\ pc' = "read" /\ op' = "read"
  /\ UNCHANGED <<busVars, findVars, dev, gone, attached, ctrlVars, bulkVars, got, setVars>>

ProbeCtrl == pc \in {"read", "switch", "reread"} /\ CtrlPrepare(pc)

\* usb_disp_hal_request_reenum: the root port loses power.
RootPortOff ==
  /\ Leave(Devices)
  /\ UNCHANGED <<new_dev, scan_needed, scan_retry, devVars, ctrl_done, xfers,
                 bulk_free, halted, ep_recover, cur, got, setVars>>

ProbeReenum ==
  /\ pc = "reenum"
  /\ pc' = "idle" /\ op' = "none"
  /\ RootPortOff

RequestReenum ==
  /\ pc = "idle" /\ UNCHANGED <<pc, op>>
  /\ RootPortOff

-----------------------------------------------------------------------------
(* The application: bulk transfers.                                        *)

AppGoes(p, o) == pc' = p /\ op' = o

\* A call that uses the slot being filled, or takes one: bulk_write of a few
\* bytes (write) or more than a slot (write+), bulk_split, bulk_zlp, bulk_flush.
BulkCall(o) ==
  /\ pc = "idle" /\ attached
  /\ CASE o \in {"write", "write+"} -> AppGoes(IF cur THEN "fill" ELSE "free", o)
       [] o = "zlp"                 -> IF cur THEN AppGoes("submit", "last")
                                              ELSE AppGoes("free", "zlp")
       [] o = "split"               -> cur /\ AppGoes("submit", "last")
       [] o = "flush"               -> AppGoes(IF cur THEN "submit" ELSE "flush", o)
  /\ UNCHANGED <<busVars, findVars, devVars, ctrlVars, bulkVars, got, setVars>>

Take ==
  /\ pc = "free" /\ bulk_free > 0
  /\ bulk_free' = bulk_free - 1 /\ pc' = "taken"
  /\ UNCHANGED <<busVars, findVars, devVars, ctrlVars, xfers, flight, complete, errors, halted,
                 ep_recover, cur, op, got, setVars>>

Return == pc' = "idle" /\ op' = "none"

\* One second without a free slot.
TakeTimeout ==
  /\ pc = "free" /\ bulk_free = 0
  /\ Return
  /\ UNCHANGED <<busVars, findVars, devVars, ctrlVars, bulkVars, got, setVars>>

UseSlot ==
  /\ pc = "taken" /\ attached
  /\ cur' = TRUE /\ IF op = "zlp" THEN AppGoes("submit", "last") ELSE AppGoes("fill", op)
  /\ UNCHANGED <<busVars, findVars, devVars, ctrlVars, xfers, bulk_free, flight, complete,
                 errors, halted, ep_recover, got, setVars>>

\* The device went while the application waited: bulk_zlp gives the slot back,
\* bulk_write leaves that to the next finish_setup.
TakenTooLate ==
  /\ pc = "taken" /\ ~attached
  /\ bulk_free' = IF op = "zlp" THEN Given(1) ELSE bulk_free
  /\ Return
  /\ UNCHANGED <<busVars, findVars, devVars, ctrlVars, xfers, flight, complete, errors, halted,
                 ep_recover, cur, got, setVars>>

\* The bytes go into the slot; a full one is submitted.
Fill ==
  /\ pc = "fill"
  /\ \/ op = "write" /\ Return
     \/ AppGoes("submit", IF op = "write" THEN "last" ELSE op)
  /\ UNCHANGED <<busVars, findVars, devVars, ctrlVars, bulkVars, got, setVars>>

\* After submit_cur: bulk_write may have more, bulk_flush waits.
Submitted(r) ==
  /\ cur' = FALSE
  /\ IF r /\ op = "write+" THEN pc' = "free" /\ op' = "write"
     ELSE IF r /\ op = "flush" THEN pc' = "flush" /\ UNCHANGED op
     ELSE Return

SubmitOK ==
  /\ pc = "submit" /\ alive /\ ~halted
  /\ flight' = flight + 1 /\ Submitted(TRUE)
  /\ UNCHANGED <<busVars, findVars, devVars, ctrlVars, xfers, bulk_free, complete, errors, halted,
                 ep_recover, got, setVars>>

\* Mutant of SubmitFails: the slot is not given back.
SubmitFailsKeeps ==
  /\ pc = "submit" /\ (~alive \/ halted)
  /\ Submitted(FALSE)
  /\ UNCHANGED <<busVars, findVars, devVars, ctrlVars, xfers, bulk_free, flight, complete,
                 errors, halted, ep_recover, got, setVars>>

\* submit_cur gives up when the device has gone or after 50 tries; the slot
\* was not used.
SubmitFails ==
  /\ pc = "submit" /\ (~alive \/ halted)
  /\ bulk_free' = Given(1) /\ Submitted(FALSE)
  /\ UNCHANGED <<busVars, findVars, devVars, ctrlVars, xfers, flight, complete, errors, halted,
                 ep_recover, got, setVars>>

FlushTake ==
  /\ pc = "flush" /\ got < Slots /\ bulk_free > 0
  /\ got' = got + 1 /\ bulk_free' = bulk_free - 1
  /\ UNCHANGED <<busVars, findVars, devVars, ctrlVars, xfers, flight, complete, errors, halted,
                 ep_recover, cur, pc, op, setVars>>

\* All slots are free, or the time is over.
FlushEnd ==
  /\ pc = "flush" /\ (got = Slots \/ bulk_free = 0)
  /\ bulk_free' = Given(got) /\ got' = 0
  /\ Return
  /\ UNCHANGED <<busVars, findVars, devVars, ctrlVars, xfers, flight, complete, errors, halted,
                 ep_recover, cur, setVars>>

\* What the application does between the start and the end of a call.
InCall ==
  \/ CtrlSubmit \/ CtrlRefused \/ CtrlAnswered \/ CtrlTimeout
  \/ ProbeCtrl \/ ProbeReenum
  \/ Take \/ TakeTimeout \/ UseSlot \/ TakenTooLate \/ Fill
  \/ SubmitOK \/ SubmitFails \/ FlushTake \/ FlushEnd

Calls ==
  \/ CtrlCall \/ PollProbe \/ RequestReenum
  \/ \E o \in {"write", "write+", "zlp", "split", "flush"} : BulkCall(o)

Next == Bus \/ Client \/ Finish \/ InCall \/ Calls

\* The two tasks are scheduled again and again, the stack runs the callbacks of
\* what is complete, and the 50 ms of device_teardown end.
Fairness ==
  /\ WF_vars(Finish) /\ WF_vars(InCall)
  /\ WF_vars(BulkCallback) /\ WF_vars(NewDev) /\ WF_vars(DevGone) /\ WF_vars(TeardownBegin)
  /\ WF_vars(CtrlCallback) /\ WF_vars(EpRecover) /\ WF_vars(ScanFound)
  /\ SF_vars(TeardownEnd)

Spec == Init /\ [][Next]_vars /\ Fairness

\* What follows a set-up that goes on after its device was torn down is not
\* explored: its reads fail for want of ctrl_xfer, and attached with no
\* transfers the program uses a NULL pointer.
Explored == "probe" \notin struck

-----------------------------------------------------------------------------
(* Properties.                                                             *)

\* The values the program's variables and the stack's counters can have.
TypeOK ==
  /\ port \in [Devices -> {"none", "enum", "ready"}]
  /\ {new_dev, alive, gone, attached, pending_probe, scan_needed, scan_retry, ctrl_done,
      xfers, halted, ep_recover, cur} \subseteq BOOLEAN
  /\ dev \in Devices \cup {NoDevice}
  /\ ctrl_xfer \in {"none", "idle", "flight", "complete"}
  /\ {bulk_free, flight, complete, got} \subseteq 0..Slots /\ errors \in 0..complete
  /\ cpc \in {"loop", "teardown", "finish"}
  /\ pc \in {"idle", "submit_ctrl", "ctrl", "read", "switch", "reread", "reenum", "finish",
             "free", "taken", "fill", "submit", "flush"}
  /\ op \in {"none", "ctrl", "read", "switch", "reread", "write", "write+", "zlp", "last",
             "flush"}
  /\ fin \in {"none", "begin", "claimed", "reset"}
  /\ struck \subseteq {"late", "probe"}

\* Every slot of the ring is free, held by the application, in flight, or
\* complete and waiting for its callback: no error, timeout, broken-off write or
\* re-attachment loses or doubles one.  A flush holds the slots it has taken.
SlotsBalanced ==
  attached /\ pc # "flush" /\ "probe" \notin struck =>
    bulk_free + flight + complete +
      (IF pc \in {"taken", "submit"} \/ cur THEN 1 ELSE 0) = Slots

\* A control call that succeeds returns the answer to its own request: the
\* transfer is not under way any more.  Excepted is the call in which the
\* callback of a transfer given up before came between clearing ctrl_done and
\* the submission.
CtrlOwnAnswer ==
  [][pc = "ctrl" /\ ctrl_done /\ ~ctrl_done' /\ "late" \notin struck => ctrl_xfer = "idle"]_vars

\* A HAL that says attached has a device and its transfers, unless the
\* device went while the application's task was in finish_setup.
AttachedHasDevice ==
  attached /\ "probe" \notin struck => dev # NoDevice /\ (xfers \/ cpc = "teardown")

\* A bulk error halts the pipe; it works again, or the device goes.
Recovers == (halted /\ attached) ~> (~halted \/ ~attached)

\* A device that can be opened while none is held is found, whatever order
\* devices came, were enumerated and left in.
Found ==
  \A d \in Devices :
    (port[d] = "ready" /\ dev = NoDevice) ~> (dev # NoDevice \/ port[d] # "ready")

=============================================================================
