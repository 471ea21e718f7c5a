------------------------------- MODULE DispPorts ------------------------------
(***************************************************************************)
(* Several displays on a PC: usb_disp_poll and the calls that read the     *)
(* EDID (usb_disp.cpp) on the HAL for PCs, with devices and monitors that  *)
(* come and go between the calls.  The EDID read last is kept in one cache *)
(* for all ports.                                                          *)
(*                                                                         *)
(* A device may refuse a mode it can do, once or throughout a call.  When  *)
(* the times of the mode set-up, of its retries and of the rechecks are    *)
(* over is left open.                                                      *)
(***************************************************************************)
EXTENDS HalLibusb, EdidModes

CONSTANTS
  Reports,    \* [Devices -> SUBSET EDIDs]: what the monitors behind a device report
  HotMonitors,  \* devices whose monitor may change
  Cfg,        \* [Ports -> [policy, mode]]: usb_disp_config_t, mode 0 for none
  IgnorePorts,  \* ports for which the application calls usb_disp_set_ignore_edid
  NoPort

VARIABLES
  monitor,    \* the EDID behind each device; NoEdid: not readable
  stage, ready, mode, pending,   \* of each port: d->stage, ready, width, edid_pending
  ignore,     \* d->cfg.ignore_edid
  cache,      \* s_edid_owner and s_edid
  unsure      \* history: the modes that the device may have refused in this step

coreVars == <<stage, ready, mode, pending>>
vars == <<busVars, monitor, coreVars, ignore, cache, unsure>>

NoCache == [owner |-> NoPort, edid |-> NoEdid]

ASSUME PortsAssumption ==
  /\ Devices = Chips /\ NoPort \notin Ports
  /\ HotMonitors \subseteq Devices /\ IgnorePorts \subseteq Ports
  /\ \A d \in Devices : \A e \in Reports[d] :
      /\ e # NoEdid /\ e.pref \in e.listed \cup {0} /\ 0 \notin e.listed
      /\ e.listed \subseteq Nat /\ IsFiniteSet(e.listed)

Init ==
  /\ BusInit
  /\ monitor \in [Devices -> {NoEdid} \cup UNION {Reports[d] : d \in Devices}]
  /\ \A d \in Devices : monitor[d] \in Reports[d] \cup (IF d \in HotMonitors THEN {NoEdid} ELSE {})
  /\ stage = [p \in Ports |-> "WAIT"] /\ ready = [p \in Ports |-> FALSE]
  /\ mode = [p \in Ports |-> 0] /\ pending = [p \in Ports |-> FALSE]
  /\ ignore = [p \in Ports |-> FALSE] /\ cache = NoCache
  /\ unsure = {}

To(f, p, v) == [f EXCEPT ![p] = v]

-----------------------------------------------------------------------------
(* The EDID.                                                               *)

\* Mutant: whose EDID is in the cache is not looked at.
ReadEdidOfAny(p, h, c) ==
  IF c # NoCache THEN {c.edid}
  ELSE IF ignore[p] \/ h \notin Devices THEN {NoEdid}
  ELSE {NoEdid, monitor[h]}

\* edid_read_all of handle h, with cache c before: what it may return.
ReadEdid(p, h, c) ==
  IF c.owner = p THEN {c.edid}
  ELSE IF ignore[p] \/ h \notin Devices THEN {NoEdid}
  ELSE {NoEdid, monitor[h]}

Caching(p, e) == IF e = NoEdid THEN NoCache ELSE [owner |-> p, edid |-> e]

\* A step that tries no mode, or one that the device takes.
NothingRefused == unsure' = {}

\* What the device may refuse of the modes that a call tries.
Doubts(p, h) ==
  IF h \in Devices THEN SUBSET (Works(h) \cup (Takes(h) \cap {Cfg[p].mode})) ELSE {{}}

\* usb_disp_set_auto_mode: what it may set; 0 if nothing is taken.
AutoResults(p, h, e, again) ==
  IF h \in Devices THEN AutoModes(h, Cfg[p].policy, e, again, unsure') ELSE {0}

\* The handle after a call: transfers that failed may have closed it.
HandleAfter(p, h, allWell) ==
  \E h2 \in (IF allWell THEN {h} ELSE AfterFailure(h)) : hal' = To(hal, p, h2)

-----------------------------------------------------------------------------
(* usb_disp_poll of port p; h is the handle after usb_disp_hal_poll.       *)

\* The cache is dropped first; what it is after the call.
PollCache(p, e) == cache' = Caching(p, e)

\* reset_device_state
Reset(p) ==
  /\ ready' = To(ready, p, FALSE) /\ mode' = To(mode, p, 0)
  /\ pending' = To(pending, p, FALSE)

PollIdle(p) ==
  /\ stage[p] = "WAIT" /\ NoDev \in Polled(p)
  /\ PollCache(p, NoEdid) /\ hal' = To(hal, p, NoDev)
  /\ NothingRefused
  /\ UNCHANGED <<bus, monitor, coreVars, ignore>>

\* A device: prot->attach succeeds,
PollAttach(p) ==
  /\ stage[p] = "WAIT"
  /\ \E h \in Polled(p) \cap Devices : hal' = To(hal, p, h)
  /\ stage' = To(stage, p, "SETUP") /\ PollCache(p, NoEdid)
  /\ NothingRefused
  /\ UNCHANGED <<bus, monitor, ready, mode, pending, ignore>>

\* or fails.
PollAttachFails(p) ==
  /\ stage[p] = "WAIT"
  /\ \E h \in Polled(p) \ {NoDev} : HandleAfter(p, h, FALSE)
  /\ stage' = To(stage, p, "FAILED")
  /\ PollCache(p, NoEdid)
  /\ NothingRefused
  /\ UNCHANGED <<bus, monitor, ready, mode, pending, ignore>>

\* There is no device any more.
PollLost(p) ==
  /\ stage[p] # "WAIT" /\ NoDev \in Polled(p)
  /\ hal' = To(hal, p, NoDev) /\ PollCache(p, NoEdid)
  /\ stage' = To(stage, p, "WAIT") /\ Reset(p)
  /\ NothingRefused
  /\ UNCHANGED <<bus, monitor, ignore>>

\* FAILED for 30 s: once more from the start.
PollRetry(p) ==
  /\ stage[p] = "FAILED" /\ Polled(p) # {NoDev}
  /\ hal' = To(hal, p, NoDev) /\ PollCache(p, NoEdid)
  /\ stage' = To(stage, p, "WAIT") /\ Reset(p)
  /\ NothingRefused
  /\ UNCHANGED <<bus, monitor, ignore>>

\* MODE_SETUP ends in READY with mode m, or with none when its time is over.
SetUp(p, h, m, e) ==
  /\ stage' = To(stage, p, "READY") /\ ready' = To(ready, p, TRUE)
  /\ mode' = To(mode, p, m)
  /\ HandleAfter(p, h, m # 0)
  /\ PollCache(p, e)
  /\ UNCHANGED <<bus, monitor, ignore>>

\* 1. The configured mode.
PollConfigured(p) ==
  /\ stage[p] = "SETUP"
  /\ \E h \in Polled(p) \cap Devices : Cfg[p].mode \in Takes(h) /\ SetUp(p, h, Cfg[p].mode, NoEdid)
  /\ NothingRefused /\ UNCHANGED pending

\* 2. and 3. From the EDID, then from the list.  Without an EDID the list waits
\* until the time is over, and the EDID is looked for again later.
PollChoose(p) ==
  /\ stage[p] = "SETUP"
  /\ \E h \in Polled(p) \ {NoDev} :
     /\ unsure' \in Doubts(p, h)
     /\ h \in Devices => Cfg[p].mode \notin Takes(h) \ unsure'
     /\ \E e \in ReadEdid(p, h, NoCache), expired \in BOOLEAN :
        \E again \in ReadEdid(p, h, Caching(p, e)) :
        \E m \in AutoResults(p, h, e, again) :
           /\ e # NoEdid \/ ignore[p] \/ expired
           /\ m # 0 \/ expired
           /\ SetUp(p, h, m, again)
           /\ pending' = To(pending, p, pending[p] \/ (e = NoEdid /\ ~ignore[p]))

\* No mode yet, or the next try is not due.
PollSetupOn(p) ==
  /\ stage[p] = "SETUP"
  /\ \E h \in Polled(p) \ {NoDev}, well \in BOOLEAN :
       /\ HandleAfter(p, h, well)
       /\ \E e \in ReadEdid(p, h, NoCache) : (well => e = NoEdid) /\ PollCache(p, e)
  /\ NothingRefused
  /\ UNCHANGED <<bus, monitor, coreVars, ignore>>

\* READY, and prot->poll, whose transfers may fail, or FAILED for less than 30 s.
PollOn(p) ==
  /\ stage[p] \in {"READY", "FAILED"}
  /\ \E h \in Polled(p) \ {NoDev}, well \in BOOLEAN :
       /\ HandleAfter(p, h, well) /\ (stage[p] = "FAILED" => well)
  /\ PollCache(p, NoEdid)
  /\ NothingRefused
  /\ UNCHANGED <<bus, monitor, coreVars, ignore>>

\* READY after a fall-back: the EDID is looked for again, for some time.  Once
\* it is read, its mode is tried when it is another.
PollRecheck(p) ==
  /\ stage[p] = "READY" /\ pending[p] /\ ~ignore[p]
  /\ \E h \in Polled(p) \ {NoDev} :
     /\ unsure' \in Doubts(p, h)
     /\ \E e \in ReadEdid(p, h, NoCache), over \in BOOLEAN :
          LET new == {m \in FromEdid(h, Cfg[p].policy, e) : m # mode[p]}
          IN  /\ PollCache(p, e)
              /\ pending' = To(pending, p, e = NoEdid /\ ~over)
              /\ \/ \E m \in new : mode' = To(mode, p, m) /\ hal' = To(hal, p, h)
                 \/ /\ new \subseteq unsure' /\ UNCHANGED mode
                    /\ HandleAfter(p, h, e # NoEdid /\ Target(h, Cfg[p].policy, e) \in {0, mode[p]})
  /\ UNCHANGED <<bus, monitor, stage, ready, ignore>>

Poll(p) ==
  \/ PollIdle(p) \/ PollAttach(p) \/ PollAttachFails(p) \/ PollLost(p) \/ PollRetry(p)
  \/ PollConfigured(p) \/ PollChoose(p) \/ PollSetupOn(p) \/ PollOn(p) \/ PollRecheck(p)

-----------------------------------------------------------------------------
(* The application, between the polls.                                     *)

HasProt(p) == stage[p] \in {"SETUP", "READY"}

\* usb_disp_set_auto_mode
SetAutoMode(p) ==
  /\ HasProt(p)
  /\ unsure' \in Doubts(p, hal[p])
  /\ \E e \in ReadEdid(p, hal[p], cache) : \E again \in ReadEdid(p, hal[p], Caching(p, e)) :
     \E m \in AutoResults(p, hal[p], e, again) :
       /\ cache' = Caching(p, again)
       /\ mode' = IF m # 0 THEN To(mode, p, m) ELSE mode
       /\ HandleAfter(p, hal[p], m # 0)
  /\ UNCHANGED <<bus, monitor, stage, ready, pending, ignore>>

\* usb_disp_edid_size, usb_disp_edid_supports, usb_disp_edid_max_mode
QueryEdid(p) ==
  /\ HasProt(p)
  /\ \E e \in ReadEdid(p, hal[p], cache) :
       cache' = Caching(p, e) /\ HandleAfter(p, hal[p], e # NoEdid \/ ignore[p])
  /\ NothingRefused
  /\ UNCHANGED <<bus, monitor, coreVars, ignore>>

\* Mutant: the EDID is still looked for later.
SetIgnoreEdidKeepsPending(p, on) ==
  /\ ignore' = To(ignore, p, on)
  /\ cache' = IF on /\ cache.owner = p THEN NoCache ELSE cache
  /\ NothingRefused
  /\ UNCHANGED <<busVars, monitor, stage, ready, mode, pending>>

\* usb_disp_set_ignore_edid
SetIgnoreEdid(p, on) ==
  /\ ignore' = To(ignore, p, on)
  /\ pending' = IF on THEN To(pending, p, FALSE) ELSE pending
  /\ cache' = IF on /\ cache.owner = p THEN NoCache ELSE cache
  /\ NothingRefused
  /\ UNCHANGED <<busVars, monitor, stage, ready, mode>>

\* usb_disp_force_reenum
ForceReenum(p) == Reenum(p) /\ NothingRefused /\ UNCHANGED <<monitor, coreVars, ignore, cache>>

\* Drawing and usb_disp_flush
Draw(p) == ready[p] /\ Bulk(p) /\ NothingRefused /\ UNCHANGED <<monitor, coreVars, ignore, cache>>

-----------------------------------------------------------------------------
(* The cables.                                                             *)

PlugDevice(d) == Plug(d) /\ NothingRefused /\ UNCHANGED <<monitor, coreVars, ignore, cache>>

UnplugDevice(d) == Unplug(d) /\ NothingRefused /\ UNCHANGED <<monitor, coreVars, ignore, cache>>

MonitorChanges(d) ==
  /\ \E e \in Reports[d] \cup {NoEdid} : e # monitor[d] /\ monitor' = To(monitor, d, e)
  /\ NothingRefused
  /\ UNCHANGED <<busVars, coreVars, ignore, cache>>

Next ==
  \/ \E p \in Ports :
       \/ Poll(p) \/ SetAutoMode(p) \/ QueryEdid(p) \/ ForceReenum(p) \/ Draw(p)
  \/ \E p \in IgnorePorts, on \in BOOLEAN : SetIgnoreEdid(p, on)
  \/ \E d \in Devices : PlugDevice(d) \/ UnplugDevice(d)
  \/ \E d \in HotMonitors : MonitorChanges(d)

\* Each port is polled, the times pass, and a device that stays is not for ever
\* one that cannot be opened or does not answer.  The application goes on drawing
\* on a display that has a mode: only a transfer tells that a device has gone.
Fairness ==
  \A p \in Ports :
    /\ SF_vars(PollAttach(p)) /\ SF_vars(PollConfigured(p) \/ PollChoose(p))
    /\ SF_vars((PollConfigured(p) \/ PollChoose(p)) /\ hal'[p] # NoDev)
    /\ WF_vars(PollLost(p) \/ PollRetry(p))
    /\ WF_vars(Draw(p) /\ hal[p] = Gone /\ mode[p] # 0)

Spec == Init /\ [][Next]_vars /\ Fairness

-----------------------------------------------------------------------------
(* Properties.                                                             *)

TypeOK ==
  /\ \A p \in Ports :
       /\ hal[p] \in Devices \cup {NoDev, Gone}
       /\ stage[p] \in {"WAIT", "SETUP", "READY", "FAILED"}
       /\ ready[p] <=> stage[p] = "READY"
       /\ mode[p] \in Nat /\ (stage[p] \in {"WAIT", "FAILED"} => mode[p] = 0)
       /\ pending[p] => ready[p] /\ ~ignore[p]
  /\ IsInjective(bus) /\ Range(bus) \subseteq Devices
  /\ cache = NoCache \/ (cache.owner \in Ports /\ cache.edid \in UNION {Reports[d] : d \in Devices})

\* However the numbers of the devices shift as they come and go, no device is
\* ever open for two ports.
OneHolder == \A p, q \in Ports : hal[p] = hal[q] /\ hal[p] \in Devices => p = q

\* An automatic mode suits the device the port has and the EDID that was read
\* for it, which is the one of the monitor behind that device, now or when the
\* application read it since the last poll, never that of another port; none is
\* used under ignore_edid.  The modes the device refused are passed over, and
\* no other.  Under PREFERRED usb_disp_poll sets the monitor's own mode where
\* that works, unless it could not read the EDID at first.
ModeOfMonitor ==
  [][\A p \in Ports :
       mode'[p] \notin {0, mode[p], Cfg[p].mode} =>
         LET h == hal'[p]
             e == IF cache'.owner = p THEN cache'.edid ELSE NoEdid
         IN  /\ h \in Devices
             /\ e = NoEdid
                  \/ (~ignore[p] /\ (e = monitor[h] \/ (stage'[p] = stage[p] /\ cache' = cache)))
             /\ Suits(mode'[p], h, Cfg[p].policy, e, unsure')
             /\ (/\ Cfg[p].policy = "PREFERRED" /\ e.pref \in Works(h) \ unsure'
                 /\ ~pending'[p] /\ <<stage, pending>>' # <<stage, pending>>)
                => mode'[p] = e.pref]_vars

\* d stands at the number of port p in the order of enumeration, and no port
\* keeps a device in its way: no other port has d, and p has no other device.
Stands(p, d) ==
  /\ p + 1 \in DOMAIN bus /\ bus[p + 1] = d
  /\ \A q \in Ports \ {p} : hal[q] # d
  /\ hal[p] \notin Devices \ {d}

\* Nothing can be drawn on a display that is ready without a mode: the port never
\* learns that its device has gone (libusb.cpp:302).
Unaware(p) == hal[p] = Gone /\ ready[p] /\ mode[p] = 0

\* A device that stays at the number of a port gets open on that port and the
\* port ready in the end, whatever the port had before and whatever failed on
\* the way: the handle of a device that has gone is given up, for which the
\* application has to draw.  (Ready for this device or, as LossSeen shows, still
\* for the one before.)
Found ==
  \A p \in Ports, d \in Devices :
    []<>((ready[p] /\ hal[p] = d) \/ ~Stands(p, d) \/ Unaware(p))

\* A display that is ready and whose device was lost is not ready any more before
\* the port has a device again: usb_disp_poll reports the loss, and the next
\* device is set up.
LossSeen ==
  [][\A p \in Ports : ready[p] /\ hal[p] = NoDev /\ hal'[p] # NoDev => ~ready'[p]]_vars

=============================================================================
