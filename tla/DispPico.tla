------------------------------ MODULE DispPico -------------------------------
(***************************************************************************)
(* One display on the Pico: usb_disp_poll (usb_disp.cpp) on top of the HAL *)
(* and the host engine, with the application that calls it.  Everything    *)
(* here runs on core 0: usb_disp_poll first calls usb_disp_hal_poll, which *)
(* may enumerate, then takes a step of its own state machine, which may    *)
(* attach the protocol, read the EDID and set a mode.  Core 1, the cable   *)
(* and the device go on meanwhile.                                         *)
(*                                                                         *)
(* A protocol is a control read to attach, another for the EDID, and a     *)
(* bulk write and a flush to set a mode.  When the first is not answered   *)
(* MS91xx fails to attach and DL-1xx goes on.                              *)
(***************************************************************************)
EXTENDS HalPico

CONSTANTS
  NoAutoMode,   \* cfg.no_auto_mode
  SlowPoll      \* the application may poll seldom, see ComesBack

ASSUME DispAssumption == NoAutoMode \in BOOLEAN /\ SlowPoll \in BOOLEAN

VARIABLES
  phase,          \* what core 0 is in: the application or usb_disp_poll
  stage, ready,   \* d->stage, d->ready
  moded,          \* d->width # 0
  edid_pending,
  inited,         \* history: a mode was set in this session of the port
  forced          \* history: force_reenum came, the display is as before

dispVars  == <<phase, stage, ready, moded, edid_pending>>
history   == <<inited, forced>>
stackVars == <<allVars, dispVars, history>>

DispInit ==
  /\ HalInit
  /\ phase = "app" /\ stage = "WAIT_DEVICE" /\ ready = FALSE
  /\ moded = FALSE /\ edid_pending = FALSE
  /\ inited = FALSE /\ forced = FALSE

-----------------------------------------------------------------------------
(* usb_disp_poll: the HAL's part.                                          *)

PollBegin ==
  /\ phase = "app" /\ Idle
  /\ phase' = "hal"
  /\ UNCHANGED <<allVars, stage, ready, moded, edid_pending, history>>

PollHal ==
  /\ phase = "hal" /\ HalPoll
  /\ phase' = IF todo' = 0 THEN "disp" ELSE "hal"
  /\ UNCHANGED <<stage, ready, moded, edid_pending, history>>

-----------------------------------------------------------------------------
(* usb_disp_poll: the switch over the stage.                               *)

\* usb_disp_poll returns.
PollEnd == phase' = "app"

AtSwitch == phase = "disp" /\ Idle

\* reset_device_state, whatever the stage was.
ResetDeviceState ==
  /\ stage' = "WAIT_DEVICE"
  /\ ready' = FALSE /\ moded' = FALSE /\ edid_pending' = FALSE
  /\ forced' = FALSE

SwitchGone ==
  /\ AtSwitch /\ ~Attached
  /\ IF stage = "WAIT_DEVICE"
       THEN UNCHANGED <<stage, ready, moded, edid_pending, forced>>
       ELSE ResetDeviceState
  /\ PollEnd
  /\ UNCHANGED <<allVars, inited>>

\* No timer is due.
SwitchQuiet ==
  /\ AtSwitch /\ Attached /\ stage # "WAIT_DEVICE"
  /\ PollEnd
  /\ UNCHANGED <<allVars, stage, ready, moded, edid_pending, history>>

SwitchAttach ==
  /\ AtSwitch /\ Attached /\ stage = "WAIT_DEVICE"
  /\ ControlCall("in", addr)
  /\ phase' = "attach"
  /\ UNCHANGED <<halVars, stage, ready, moded, edid_pending, history>>

\* No protocol matches the device, or its attach fails.
SwitchUnsupported ==
  /\ \/ OtherDevices /\ AtSwitch /\ Attached /\ stage = "WAIT_DEVICE"
     \/ phase = "attach" /\ Idle /\ ~call.ok
  /\ stage' = "FAILED" /\ PollEnd
  /\ UNCHANGED <<allVars, ready, moded, edid_pending, history>>

\* dl_attach goes on when the chip does not answer, the others when it does.
SwitchAttached ==
  /\ phase = "attach" /\ Idle
  /\ stage' = IF NoAutoMode THEN "READY" ELSE "MODE_SETUP"
  /\ ready' = NoAutoMode
  /\ PollEnd
  /\ UNCHANGED <<allVars, moded, edid_pending, history>>

\* The EDID is read: in MODE_SETUP every 300 ms, in READY to catch up with a
\* monitor that came late.
SwitchEdid ==
  /\ AtSwitch /\ Attached
  /\ stage = "MODE_SETUP" \/ (stage = "READY" /\ edid_pending)
  /\ ControlCall("in", addr)
  /\ phase' = "edid"
  /\ UNCHANGED <<halVars, stage, ready, moded, edid_pending, history>>

\* The 30 s of FAILED have passed.
SwitchPeriodic ==
  /\ AtSwitch /\ Attached /\ stage = "FAILED"
  /\ ResetDeviceState
  /\ HalRequestReenum
  /\ PollEnd
  /\ UNCHANGED inited

-----------------------------------------------------------------------------
(* Setting a mode: a bulk write and a flush.                               *)

\* Bound: once MaxBytes are written, a mode is set with no byte.
SetMode ==
  /\ WriteCall(IF ring_head < MaxBytes THEN 1 ELSE 0)
  /\ phase' = "write"

\* No EDID: wait for it until the 2.5 s expire, then fall back to the built-in
\* modes; in READY look again until the 30 s expire.
EdidMissing ==
  /\ phase = "edid" /\ Idle /\ ~call.ok
  /\ \/ stage = "MODE_SETUP" /\ PollEnd /\ UNCHANGED <<vars, edid_pending>>
     \/ stage = "MODE_SETUP" /\ SetMode /\ edid_pending' = TRUE
     \/ stage = "READY" /\ PollEnd /\ UNCHANGED <<vars, edid_pending>>
     \/ stage = "READY" /\ PollEnd /\ edid_pending' = FALSE /\ UNCHANGED vars
  /\ UNCHANGED <<halVars, stage, ready, moded, history>>

\* The EDID's mode is set; in READY only when it is another than the current.
EdidRead ==
  /\ phase = "edid" /\ Idle /\ call.ok
  /\ edid_pending' = (edid_pending /\ stage # "READY")
  /\ \/ SetMode
     \/ stage = "READY" /\ PollEnd /\ UNCHANGED vars
  /\ UNCHANGED <<halVars, stage, ready, moded, history>>

ModeWritten ==
  /\ phase = "write" /\ Idle /\ call.ok
  /\ FlushCall
  /\ phase' = "flush"
  /\ UNCHANGED <<halVars, stage, ready, moded, edid_pending, history>>

ModeSet ==
  /\ phase = "flush" /\ Idle /\ call.ok
  /\ moded' = TRUE /\ inited' = bulk_ep
  /\ stage' = "READY" /\ ready' = TRUE
  /\ PollEnd
  /\ UNCHANGED <<allVars, edid_pending, forced>>

\* The write was short or the flush failed.  MODE_SETUP tries again until the
\* 2.5 s expire, then the display is ready without a mode.
ModeFailed ==
  /\ phase \in {"write", "flush"} /\ Idle /\ ~call.ok
  /\ \/ UNCHANGED <<stage, ready>>
     \/ stage' = "READY" /\ ready' = TRUE
  /\ PollEnd
  /\ UNCHANGED <<allVars, moded, edid_pending, history>>

DispPoll ==
  \/ PollBegin \/ PollHal
  \/ SwitchGone \/ SwitchQuiet \/ SwitchAttach \/ SwitchUnsupported
  \/ SwitchAttached \/ SwitchEdid \/ SwitchPeriodic
  \/ EdidMissing \/ EdidRead \/ ModeWritten \/ ModeSet \/ ModeFailed

-----------------------------------------------------------------------------
(* The application between two polls.                                      *)

\* usb_disp_update_565 and its kin: a bulk write when the display is ready.
AppUpdate ==
  /\ phase = "app" /\ ready /\ moded
  /\ \E len \in 1..MaxWrite : WriteCall(len)
  /\ UNCHANGED <<halVars, dispVars, history>>

AppFlush ==
  /\ phase = "app" /\ FlushCall
  /\ UNCHANGED <<halVars, dispVars, history>>

\* usb_disp_set_mode, by an application that was told the display is ready.
AppSetMode ==
  /\ phase = "app" /\ stage = "READY"
  /\ SetMode
  /\ UNCHANGED <<halVars, stage, ready, moded, edid_pending, history>>

\* usb_disp_force_reenum.
AppReenum ==
  /\ "reenum" \in Faults
  /\ phase = "app" /\ HalRequestReenum
  /\ forced' = (stage # "WAIT_DEVICE")
  /\ UNCHANGED <<dispVars, inited>>

AppDiag ==
  /\ "diag" \in Faults
  /\ phase = "app" /\ DiagStart
  /\ UNCHANGED <<halVars, dispVars, history>>

App == AppUpdate \/ AppFlush \/ AppSetMode \/ AppReenum \/ AppDiag

-----------------------------------------------------------------------------
\* From the loss of the line back to RUN the port takes 165 ms (debounce,
\* reset, warm-up).  An application that polls more often than that has its
\* HAL notice that the port is down, unless core 0 is held up by a request that
\* core 1 has not answered: it waits for a second.
ComesBack ==
  \/ SlowPoll
  \/ hal = "WAIT_DEVICE" /\ todo = 0
  \/ pc0 \in {"ctlWait", "ctlPoll"} /\ ctrl.req = 1

\* A step of the cable, of core 1 or inside a function of core 0.
EnvStep(A) ==
  /\ A
  /\ (hs = "WARMUP" /\ hs' = "RUN") => ComesBack
  /\ inited' = (inited /\ hs' # "RESET")
  /\ UNCHANGED <<halVars, dispVars, forced>>

Environment == EnvStep(Unplug \/ Plug \/ Core1 \/ Core0)

DispNext == Environment \/ DispPoll \/ App

DispSpec == DispInit /\ [][DispNext]_stackVars

-----------------------------------------------------------------------------
(* Fairness.  Core 1 loops forever; the frames go on, so it sees SE0; core *)
(* 0 goes on inside a function until its deadline, the application calls   *)
(* usb_disp_poll again and again, and its timers expire.                   *)

Fairness ==
  /\ WF_stackVars(EnvStep(Core1))
  /\ SF_stackVars(EnvStep(SofLost))
  /\ WF_stackVars(EnvStep(Core0))
  /\ SF_stackVars(PollBegin)
  /\ WF_stackVars(DispPoll /\ ~PollBegin)
  /\ SF_stackVars(PollHal /\ (PollRetry \/ PollPeriodic))
  /\ SF_stackVars(SwitchEdid)
  /\ SF_stackVars(ModeFailed /\ stage' = "READY")
  /\ SF_stackVars(SwitchPeriodic)

LiveSpec == DispSpec /\ Fairness

-----------------------------------------------------------------------------
DispTypeOK ==
  /\ HalTypeOK
  /\ phase \in {"app", "hal", "disp", "attach", "edid", "write", "flush"}
  /\ stage \in {"WAIT_DEVICE", "MODE_SETUP", "READY", "FAILED"}
  /\ ready \in BOOLEAN /\ moded \in BOOLEAN /\ edid_pending \in BOOLEAN
  /\ inited \in BOOLEAN /\ forced \in BOOLEAN

\* An application that may draw, on a display whose bulk stream runs, draws on
\* a display whose mode was set in this session of the port: when the port went
\* down and up behind the HAL's back, the device that was reset gets nothing.
\* usb_disp_force_reenum alone leaves the display as it was.
DrawsOnSetDisplay ==
  phase = "app" /\ Idle /\ ready /\ moded /\ ~forced /\ Running /\ bulk_ep
    => inited

\* The port came back before a poll saw it down: the HAL takes the device that
\* was reset for the one it had set up.
Unnoticed == Attached /\ ~bulk_ep

\* A device without an endpoint or a protocol.
OtherFound == EnumNoEndpoint \/ (phase = "disp" /\ SwitchUnsupported)

\* A display that stays plugged in is enumerated, attached and ready in the
\* end, however often and at whatever moment it was unplugged, replaced, asked
\* to re-enumerate or diagnosed before, unless the HAL did not notice that the
\* port was down.  (It may be ready without a mode when set_mode's deadlines
\* passed for 2.5 s.)
ComesUp ==
  /\ <>[](line = "fs")
  /\ <>[][~(AppReenum \/ AppDiag \/ OtherFound \/ ControlLate)]_stackVars
  => []<>(Attached /\ bulk_ep /\ dev.cfg /\ ready) \/ <>[]Unnoticed

\* A control call returns: the wait for the mailbox, which has no deadline,
\* ends too, although the request in it may belong to nobody any more.
ControlReturns == pc0 \in {"ctlWait", "ctlPoll"} ~> pc0 = "idle"

=============================================================================
