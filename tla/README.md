# A TLA+ model of Pico_USB_Disp

Pico_USB_Disp drives USB display adapters (DisplayLink DL-1xx, T6, MS912x/MS913x)
from microcontrollers and from a PC. This directory models the parts of it in
which actors interleave, sessions end at any moment and calls fail half-way.
All paths below are relative to the root of the repository.

## 1. The system

```
application            LovyanGFX / LVGL glue, or the usb_disp_* API directly
core                   src/usb_disp.cpp         life cycle, modes, EDID, shadow, drawing
protocols              src/usb_disp_prot_*.cpp  DL-1xx, T6, MS91xx
HAL                    src/usb_disp_hal_*.cpp   pico | esp32 | teensy | libusb
host engine (Pico)     src/usb_disp_udh_host.cpp   core 1's state machine, mailbox, ring
bus and encoding       src/usb_disp_udh_bus.cpp, usb_disp_udh_encode.cpp, pio/*.pio
device                 the adapter (external)
```

| component | state it keeps | operations | what makes it hard |
|---|---|---|---|
| host engine (`udh_host`) | per port: `hs`, `bus_ok`, `reenum_req`, `diag_hold`, `addr`, `bulk_ep`, `reset_toggle_req`, the control mailbox, the bulk ring, the encoded packet, toggle and error streak | core 1: `host_task_once` (detect, reset, warm-up, run: control, pump, probe); core 0: `control_addr`, `bulk_write`, `bulk_flush`, `set_device`, `set_bulk_out`, `request_reenum`, `line_diag` | two cores share it without a lock; the device loses, refuses or halts; a session ends at any point of anything |
| Pico HAL (`hal_pico`) | `state`, `attempts`, `retry_pending`, timers; hub tables | `usb_disp_hal_poll`, enumeration, `attached`, `request_reenum`; hub ports | sees only the level of the host's state; retries and timers race with unplugging |
| core, life cycle (`usb_disp.cpp`) | `stage`, `ready`, `prot`, `edid_pending`, deadlines | `usb_disp_poll`, `reset_device_state`, `force_reenum` | every step can fail; the device may be replaced between two polls |
| core, modes and shadow | `width`, `height`, `depth24`, `depth24_want`, `shadow`, `shadow_on`, `shadow_want` | `set_mode*`, `set_depth`, `set_shadow`, `update_565/888`, `fill`, `copy` | a copy of the screen that must agree with it through mode changes and failures |
| core, EDID | `s_edid_buf` and its owner, shared by all ports | reading, parsing, choice of a mode, fall-backs | a cache shared by ports; boundaries of blocks |
| DL-1xx protocol | `s_cmdbuf`, chip and limits | register setup, RLE spans, 24-bit planes, COPY segments | overlapping copies, runs of 255/256, end of the buffer |
| T6 protocol | frame buffer, dirty region, JPEG state | set_mode, update, flush | state changed before the device accepts |
| MS91xx protocol | frame buffer, dirty lines, mute timer | set_mode, update, flush, blank, poll | dirty state cleared before it is sent; poll against blank |
| ESP32 HAL | transfer slots, client task, control semaphore | probe, teardown, bulk slots, control with a timeout | a task and callbacks; late completions; slots |
| Teensy HAL | control mailbox filled from the interrupt, bulk slots | claim, disconnect, control, bulk | interrupt callbacks inside polling code |
| libusb HAL | device list, open handle | scan, open, poll, transfers | a scan that meets devices in use |
| hubs (in `hal_pico`) | port list, debounce, pending resets | hub enumeration and polling | device behind a device |
| bus, PIO, encoding | bit times, encoded packets | transmit, receive; CRC, stuffing, NRZI | cycle-exact I/O (out of scope); the encoder is a pure algorithm |
| glue (LovyanGFX, LVGL) | almost none | forward calls | - |

### How they interact

On the Pico, core 0 runs everything down to the HAL, and core 1 runs the host
engine. They meet in `usb_disp_udh_host_t` only, without a lock:

- *mailbox*: `control_addr` fills `ctrl` and sets `req`; core 1 takes it between
  two visits of the pump, answers and clears `req`;
- *ring*: `bulk_write` moves `ring_head`, `pump_bulk` moves `ring_tail`, and
  `enter_detect` drops the ring from core 1's side;
- *flags*: `flush_req`, `reset_toggle_req`, `reenum_req`, `diag_hold`, `bus_ok`,
  `addr` and `bulk_ep` are volatile and written from both sides;
- *the level of `state`* is all the HAL sees of a session: it polls it, and never
  learns of a session that ended and began again between two polls.

`usb_disp_poll` calls `usb_disp_hal_poll` first, and then takes one step of its own
state machine, which may make control and bulk transfers of its own.

The other HALs have the same functions and other actors. On the ESP32 the task
`client_task` takes the events and callbacks of the `usb_host` stack, and meets the
application in `s_hal[0]`, the semaphores `ctrl_done` and `bulk_free`, and the
transfers. On the Teensy the stack's interrupt does, at any instruction of the main
program where it is not masked. On a PC every transfer is synchronous; there the
ports meet, in the numbering of the devices on the bus and in the EDID cache.

### What makes each component correct

- **Host engine.** The ring is a bounded queue for both cores; a packet kept over
  NAKs and retries always carries its oldest bytes; the device gets the stream
  exactly once and in order; nothing of a session shows in the next; a request is
  answered once, and a caller never gets another's answer; a flush that returns
  true has delivered (the code keeps that only while the session goes on, see
  `FlushTrueMeansSent` in section 3); nobody waits forever.
- **HAL and life cycle.** A device that is reported as attached has its address and
  its bulk endpoint (not after a bounce that no poll saw, run `bounce`); a display
  that is drawn on had its mode set since its last reset; a display that stays
  plugged in comes up.
- **Modes and shadow.** The shadow agrees with the screen; what is drawn is shown
  although unchanged pixels are not sent; an overlapping copy is exact.
- **EDID.** The mode that is chosen fits the chip and the monitor behind that very
  port, although the cache is shared and devices and monitors are exchanged.
- **T6, MS91xx.** The frame buffer has the size and format the core clips to; what is
  converted and sent is what was drawn; a flush that returns true is on the screen; a
  frame that was lost is sent again.
- **ESP32, Teensy.** Every transfer slot is free, held or queued, whatever callback or
  removal comes in between; a late completion changes nothing for the call after it;
  the control transfer is free again in the end; a halted pipe works again.
- **libusb.** No device is open for two ports; a device that stays at a port's number
  gets open on that port, as soon as a transfer has shown that the one before is gone.
- **Encoders.** Decoding what was encoded gives the data back. *(planned)*

`PROJECT.json` lists the hazards behind these, each at its line, with the properties
that cover it or the module that is planned for it.

## 2. The modules

```
BulkQueue      abstract: a bounded queue of bytes with a packet at its head
   ^ implements (ring positions -> queue)
UdhHost        one port of the host engine: core 1, core 0's API, cable, device
   ^ extends
HalPico        usb_disp_hal_poll, enumeration, and what the device gets
   ^ extends
DispPico       usb_disp_poll and an application: the whole stack of one display

DlCopy         dl_copy on the planes of the frame buffer
   ^ extends
DispDraw       modes, depth, shadow buffer, drawing       MCDispDraw: its modes for TLC

FrameCore      the core's record of a display, the frame buffer in the host, the screen
   ^ extends
ProtT6, ProtMs91xx   the two full-frame protocols
   ^ extends
DispFrames     the core and the application on top of either

HalTeensy      the Teensy HAL: main program and interrupts
HalEsp32       the ESP32 HAL: application, client_task, the usb_host stack

HalLibusb      the HAL for PCs       EdidModes   the choice of a mode from an EDID
   ^ extends                            ^ extends
DispPorts      several ports: usb_disp_poll, EDID cache   MCDispPorts: its values for TLC

UdhHost_proofs -> DispPico_proofs, DlCopy_proofs -> DispDraw_proofs, DispFrames_proofs,
DispPorts_proofs, HalTeensy_proofs, HalEsp32_proofs
               the theorems (an arrow: extended by)
```

### UdhHost (`src/usb_disp_udh_host.cpp`)

Two program counters run side by side. `pc1` is core 1 inside `host_task_once`:
`top` (a visit begins), `clear` (inside `enter_detect`), `ctl` (a request is being
served), `pump`, `unflush` (`pump_bulk` has seen an empty ring with `flush_req` set
and will clear it), `txn` (a packet is on the wire), `probe`. `pc0` is core 0 inside
an API function; `call` holds the function's arguments, locals and result. Each step
touches at most one variable that the other core writes, or reads only, so that the
two cores interleave wherever the code lets them: `bulk_write` tests the port and
the space (`WriteCopy`), and moves `ring_head` later (`WritePublish`); `control_addr`
tests the port, waits for the mailbox, posts, and waits for the answer;
`set_bulk_out` stores the endpoint first and asks for the toggle after it.

| actions | code |
|---|---|
| `EnterDetect`, `ClearTransfers`, `AdvanceDetect`, `AdvanceReset`, `WarmupLost/Done`, `RunLost`, `SofLost` | `enter_detect`, `clear_transfers`, `advance_*`, `host_sof_tick` |
| `RunControl`, `ControlTaken`, `ControlFailed` | `advance_run`'s mailbox and `run_control`, one request at a time |
| `RunPump`, `PumpPrepare/Resume/Idle/Unflush`, `TxnBlocked/Ack/Nak/Stall/Lost/AckLost`, `CountError` | `pump_bulk`, `prep_pkt`, `txn_bulk` |
| `ProbeSkipped/Answered/Missed` | the idle probe of `advance_run` |
| `Control*`, `Write*`, `Flush*`, `SetDevice`, `SetBulkOut*`, `RequestReenum`, `Diag*` | the API functions, step by step |
| `Unplug`, `Plug`, `Performed`, `Received`, `Listening` | cable and device (external): a full-speed device with an address, a configuration, a data toggle and a halt bit |

A byte of the stream is its position, so that order, loss and duplication can be
told from the numbers alone. The history variables are read by properties only:
`base` is where the session's bytes begin; `dropped` says that bytes a flush waited for
were thrown away; `stray` that a chunk was published into a later session than the one
`bulk_write` tested. `stray` also marks a chunk published while core 1 is between its
test of `reset_toggle_req` (480) and its look into the ring (485): the request comes
before the chunk, but this packet goes out with the old toggle. It takes
`usb_disp_force_reenum`, after which the HAL enumerates in the session that is about
to end, on a display that stays ready.

The commented definitions marked *Mutation* are deliberate mistakes, one for each
property; no specification uses them. `PROJECT.json` pairs them with the property
that notices.

Left out: what happens between the transactions of one control transfer; interrupt
IN; low-speed devices; the round robin over several ports (`task` visits one port
here); the wrap of `ring_head` at 2^32, which is a multiple of the ring's size.

### HalPico (`src/usb_disp_hal_pico.cpp`)

`usb_disp_hal_poll` as a state machine over `hal`, `attempts`, `retry_pending`.
`EnumCalls` is the order of the calls of `enum_device`; each is made through the API
of `UdhHost` (`EnumCall`), so core 1 and the cable move between and inside them, and
any of them can fail (`EnumFailed`). Descriptor reads at the same address count as
one. `attempts` has no cap in the code (620), although line 84 declares a range: it is
counted modulo `Wrap`, the `uint8_t`'s 256, and after a wrap the retries begin anew. Timers
(500 ms, 30 s) may have expired at any poll. The module also states what
the *device* gets: `StreamExact`, `NoOldBytes`, `FlushDelivers`. `FlushDelivers` names each
way in which a flush returns true without delivery: the endpoint halted, a write
strayed, the session ended or the device was pulled while it waited. Hub ports are
left out.

### DispPico (`src/usb_disp.cpp`, `usb_disp_poll`)

`phase` is where core 0 is between the application and the steps of
`usb_disp_poll`: the HAL's poll, the switch, attach, EDID read, the write and flush
of a mode. The application draws, flushes, sets modes, asks for re-enumeration and
runs the line diagnosis between polls. `inited` (history) says that a mode was set
since the last bus reset, `forced` that the application asked for re-enumeration and has
not polled since. The application may poll as seldom as it likes (`SlowPoll`), so the
port may go down and come back between two polls, and inside any call. Without
`SlowPoll`, for liveness, `ComesBack` has the port come back from WARMUP only when the
HAL has noticed that it was down, or while core 0 is held up by a control request that
nobody has answered: the one case in which a call outlasts the 165 ms of a bounce.
Left out: the mode from `cfg.width/height`, `prot->poll`, what the EDID says.

### DlCopy and DispDraw (`dl_copy`, and the drawing half of `src/usb_disp.cpp`)

An address of the frame buffer is its cell; a command of `dl_copy` is one step, which
reads what the steps before it wrote; a command that overlaps itself leaves noise,
since what the chip makes of it is not known. A short write ends the copy between any
two commands.

In `DispDraw` core 0 is alone, so a call is one step, but each call may fail after any
number of rows (`sent`), in 24 bits also between the two planes of a row. A pixel is
a pair: what the plane base16 holds and what base8 adds; `Converted` is the loss and
the repetition of bits between the formats. `fb` is what the device shows once it has
executed what was sent so far, so the flush in `shadow_sync` is a point of failure
and nothing else. `drawn` (history) is what the application drew with calls that
returned true; `stale` that a drawing call failed; `unset` that `set_mode` failed.
Calls that are refused, or are off the screen, change nothing and are left out.
`stride_px` is 0 (one source row for all rows): rows are sent independently of each
other. Only DL-1xx has a shadow, so the other protocols are left out.

### HalTeensy (`src/usb_disp_hal_teensy.cpp`)

`pc` is where the main program is inside a call, `op` which call. Each interrupt
(claim, disconnect, completion or error of a transfer) is one step and may come
between any two steps of the main program; where the code masks the interrupt
(`take_slot`, the making of a pipe, the end of `finish_pipe`, the end of a control wait)
one action does all of it. The tests of the device before a submission are steps of
their own, since they are made with the interrupt on (`StartCtrl`/`CtrlQueue`,
`SubmitTest`/`SubmitQueued`, `FinishPipe`/`MakePipe`): a device that goes in between
leaves a stale pointer, and what is queued on it goes nowhere. `free_slots` is the program's count, `flight` what the stack holds.
Lengths are parts of a slot. `Plug` happens only between calls: the stack debounces for
100 ms at least, and calls return at once when the device is gone.

`struck` (history) marks the windows in which an interrupt does harm:

- *taken*, *submitted*: an error of the pipe comes between `take_slot` and the
  assignment to `cur`, or between queueing a transfer and `cur = -1`. `bulk_err_cb`
  computes the count from `cur`, so it is one too many, or one too few: a slot that is
  lost until the device is attached again, and every flush until then times out.
- *pipe*: the device is removed between the test of the device in
  `make_bulk_pipe_irqsafe` (131) and the end of `finish_pipe`; the HAL is attached
  without a device, and no device is claimed any more.
- *abandoned*: the device is removed while a control transfer that timed out is still
  queued; `busy` stays set (run `ctrl_stuck`).

Also seen in the model: a flush returns true when the device goes during the wait, or
after an error of the pipe threw away what was queued. Left out: the longer debounce
after a removal, the log message of a new device, the vendor descriptor, `fb_alloc`.

### HalEsp32 (`src/usb_disp_hal_esp32.cpp`)

`cpc` is where `client_task` is (`loop`, the 50 ms wait of `device_teardown`,
`finish_setup`), `pc` where the application is; `fin` is the position in
`finish_setup`, which either of them may run. The stack is external: a transfer is
submitted (`flight`), completed some time later (`complete`), and its callback runs in
`client_task`. `CtrlPrepare` clears `ctrl_done`, and `CtrlSubmit` submits later. Two
devices sit behind a hub, so one can be found while another leaves.

Marked by `struck`, and not followed further: *late*, the callback of a control transfer
that had timed out comes between the clearing of `ctrl_done` (149) and the next
submission, which the stack refuses or which then takes an old answer; *probe*, a teardown
during `probe_and_finish`, after which the HAL may be attached with its transfers freed.
A control call that timed out leaves its transfer in flight, and the next call writes
into the same buffer before it is refused (145). The wait of 50 ms in `device_teardown`
is spent in the very task that would run the callbacks. `TakenTooLate` leaves a slot
taken (789), which the next `finish_setup` repairs. Left out: `daemon_task`, start-up,
`fb_alloc`, the vendor descriptor, which slot of the ring is used (as on the Teensy).

### FrameCore, ProtT6, ProtMs91xx, DispFrames

A screen is one line of pixels. `fb` is the frame buffer in the host, `shown` what the
device shows, or `NoPic` where the code cannot know. `ProtMs91xx` has the second
buffer: `wire[x]` is what the wire format holds at pixel x, a pair of pixels on the
MS912X, where two pixels share their chroma. `ProtT6` has the ring of commands in the
device's memory, measured in MB. `DispFrames` has the calls of the core: modes, depth,
drawing, flush, blank, and the keep-alive of `ms_poll`; every transfer may fail, and a
flush of the HAL may return true although a frame was lost (`HalFlush`, `FrameOut`: on the
ESP32 `bulk_xfer_cb` gives the slot back on an error, too; the trigger of an MS913x
may fail unnoticed).

`struck` (history) says which failure was not made good yet: *mode*, a mode that could
not be set has replaced the buffers and the depth; *unsent*, `ms_flush` clears the
dirty rectangle before it sends, so a frame that failed is not sent by the next flush
(on the MS913X the keep-alive sends it, `Resent`), or was lost on the way unnoticed;
*dropped*, the HAL gave up a frame that `t6_flush` had handed over. Not followed: drawing into a buffer that does not fit,
and the dirty rectangle an MS912X keeps when a smaller mode was refused. Left out: the
JPEG encoder, colour conversion, register sequences other than by success or failure.

### HalLibusb, EdidModes, DispPorts

`bus` is the order in which the devices are enumerated. A port is served by the device
that has its number there, so numbers shift when an earlier device goes. `hal[p]` is the
handle of port p, or `Gone` when its device was unplugged and no transfer has failed
yet. In `EdidModes` a mode is its area; an EDID is the preferred mode and the set of
listed ones, which is what the parser makes of the bytes; the modes wider than
`USB_DISP_MAX_WIDTH` (`Wide`) fit nothing. A device may refuse any mode it can do, once or
throughout a call: the history variable `unsure` holds what it may have refused in the
step, and `Pass` and `Fallback` go on to the next mode of the list. `DispPorts` puts
`usb_disp_poll` of several ports on top, with the one EDID cache, the monitors behind
the adapters, and the application's calls. `edid_read_all` looks into the cache before
it looks at `ignore_edid`; the cache outlives a poll for calls of the application, until
the next poll of any port. A late EDID changes the mode also over one the application
set (as `docs/api.md` says). Left out: `no_auto_mode`, the bulk buffer of the HAL.

## 3. What is checked

Every run is in `PROJECT.json` with its configuration.

| run | question | properties |
|---|---|---|
| `stream` | the stack on a bad cable, with sessions that end between polls and inside calls: is the ring a queue, does the device get the stream, is the display it is drawn on the one that was set? | `TypeOK`, `RingIntact`, `PacketIntact`, `QueueSpec` (refinement of `BulkQueue`), `StreamExact`, `NoOldBytes`, `FlushDelivers`, `MailboxHeld`, `DrawsOnSetDisplay` |
| `recovery` | liveness of the stack after unplugs, forced re-enumerations, diagnoses, foreign devices, many failures; the automatic mode | `DrawsOnSetDisplay`, `ComesUp`, `ControlReturns` |
| `draw` | modes, shadow, drawing, copies | `DrawTypeOK`, `CopyExact`, `ShadowAgrees`, `DrawnShown` |
| `teensy` | interrupts at every point of the HAL's calls | `TypeOK`, `SlotsAccounted`, `StreamInOrder`, `BuffersHeld`, `ControlFreedElse`, `AttachedHasDevice`, `FlushDelivers` |
| `esp32` | two tasks, callbacks, removals | `TypeOK`, `SlotsBalanced`, `AttachedHasDevice`, `CtrlOwnAnswer`, `Recovers`, `Found` |
| `frames` | T6, MS912X, MS913X with failing transfers | `TypeOK`, `BufferFits`, `WireCurrent`, `FlushShows`, `CommandsApart`, `Resent` |
| `ports` | two ports, devices and monitors exchanged | `TypeOK`, `OneHolder`, `ModeOfMonitor` |
| `found` | does a device that stays get open and ready? | `Found` |
| `bounce`, `ctrl_stuck`, `fb_fits`, `replug` | statements of the docs and comments that the code does not keep | one each, violated |

The violated runs:

- `bounce` (`AttachedHasStream`): a control call tests that the port runs
  (`udh_host.cpp:802`), and posts its request later (812). If the port drops in between,
  nobody fails the request, and the call waits for up to 1 s while the port comes back
  in about 165 ms. The bounce is over before the next poll looks; the HAL stays
  `ATTACHED` with neither address nor endpoint, and core 1 does not probe a port
  without an endpoint, so it stays like that. `DrawsOnSetDisplay` (runs `stream` and `recovery`) shows
  that nothing is drawn on such a display, and `ComesUp` excepts this way of staying
  down, `Unnoticed`, and no other.
- `ctrl_stuck`: `disconnect()` drops a control transfer that had timed out and leaves
  `s_ctrl.busy` set. No later control transfer is accepted, not for another device
  either. `ControlFreedElse` is the same property without this case, and holds.
- `fb_fits`: a mode that a T6 or MS91xx does not accept has replaced the frame buffer,
  while the core keeps the width it clips to. `BufferFits` excepts the time until a
  mode is set.
- `replug`: on a PC a device whose handle was closed is opened again inside
  `usb_disp_poll` before it looks whether the device is attached; the display stays
  ready, and neither attach nor a mode follows.

More statements of docs and comments that the code does not keep. Their properties are
defined in the modules, and TLC finds each violated when it takes the place of the
properties of the configuration named:

- `FlushTrueMeansSent` (`HalPico`, `stream.cfg`): `bulk_flush` looks at the ring and
  `flush_req` (`udh_host.cpp:865`) before it looks whether the port runs (866); the end of
  the session, and a STALL, empty both, so the flush returns true for bytes that nobody
  got. `usb_disp_hal.h:62` calls it a wait for the completion of the transfer.
  `FlushDelivers` is the same with these cases named as exceptions, and holds.
- `DiagInDetect` (`UdhHost`, `recovery.cfg`): `line_diag` does not wait for the detect loop; it
  may sample during a reset or in the warm-up that follows it (`udh_host.cpp:751`).
- `RedrawnShown` (`DispDraw`, `draw.cfg` with `DrawStale = TRUE`): the shadow is written before the update is sent, so
  what failed cannot be drawn again (`docs/api.md:278`).
- `ShadowFits` (`DispDraw`, `draw.cfg`): a depth change that fails leaves the old shadow in use
  with the new pixel size.
- `BlankHolds` (`DispFrames`, `frames.cfg`): `ms_poll` turns on an output of an MS913X that
  `usb_disp_blank(true)` turned off (`docs/api.md:214`).

### Bounds, and why they are enough

- *Ring and packets.* `stream` has a ring of 2 bytes and packets of up to 2: full and empty
  rings, full and short packets, a packet that wraps around, a packet of one byte that is
  kept while another is appended, bytes that could change places. `recovery` and `bounce`
  have one byte, since the mailbox and the course of a session do not depend on it. The
  theorems of section 4 cover every size.
- *`MaxBytes`* bounds the bytes of a behaviour. It is 3 in `stream`, more than the ring
  holds, so slots are used again, also across sessions. It is 0 in `recovery`: with any
  bound a behaviour writes its last byte at some time and goes on for ever after it, and
  that end is what liveness is about; a pump that is held up by its device is not in
  that run.
- *`DeadStreak`* is 2 in `stream`, an error that is retried and one that ends the session,
  and 1 in `recovery` and `bounce`. `ProbeLimit` is 1 (3 in the code): a missed probe ends
  the session at once, which only makes sessions end more often.
- *`MaxAttempts`* 1 or 2 (5 in the code): a failure that is retried and one that gives up.
  *`Wrap`* 2 or 4 (256 in the code): enough failures to wrap the count around.
- *`SlowPoll`* is TRUE in `stream`: nothing is assumed of the application. In `recovery` it
  is FALSE. With it a port may for ever bounce between two polls, each time the
  enumeration is about to end, and no fairness of the code's excludes that. `bounce` has
  it FALSE as well, to show that polling in time does not help.
- *`Faults`*: `stream` has all of them; `recovery` leaves out what spoils a transfer.
- *`NoAutoMode`*: in `stream` the application sets the mode, in `recovery` `usb_disp_poll`
  does, from the EDID or without one.
- *One port, two addresses, one device.* The ring, the mailbox and the enumeration of a
  port touch nothing of another port, apart from core 1's time.
- *`draw`*: modes of 3x1 and 1x3 pixels. They have the same area, so the shadow's
  buffer is kept from one to the other; three pixels are enough for a span with an
  unchanged middle, and for a shift by one or two with segments of two, in either
  direction, both inside a row and across rows. A rectangle that reaches the edge
  sticks out by one pixel, so clipping is exercised. The theorems cover every size of the
  screen, every set of modes and every length of a segment.

- *`teensy`*: 4 slots of 2 parts, writes of up to 5 parts, so a write may fill, submit and
  start again, and the ring goes round. The theorems cover every number and size.
- *`esp32`*: 2 slots and 2 devices: the pool is empty, full or half full; one device
  leaves while another is found. `Explored` stops after a teardown inside
  `probe_and_finish` (see above).
- *`frames`*: lines of 2, 3 and 4 pixels, of which one at a time is not black
  (`Explored`): a pair, the middle of a pair, an odd end. 2 modes per display, of
  which one is the smaller buffer. 17 MB of device memory leave a ring of 5 MB, in which
  commands of 1 and 2 MB end before, at and after the end. The theorems cover every width
  and every size of memory.
- *`ports`*: two ports, two devices of different chips (a DL-1xx that does not know its limit, a
  T6 with a limit), one monitor that changes, five modes of which one is too wide: each
  clause of the choice decides in some state. One port asks for `MAX`, the other for
  `PREFERRED` with a configured mode.
- *`found`*: the same ports and devices with one mode and monitors that stay: devices come,
  go and shift numbers. One port has a configured mode, the other takes one from the EDID.

### Fairness

`DispPico!Fairness`, used by `recovery`:

- core 1 loops for ever (`WF` on its steps), and a frame is due every millisecond, so it
  keeps seeing a dead line (`SF` on `SofLost`);
- a function of core 0 goes on, since each wait either polls or has a deadline (`WF`),
  except the wait for the mailbox, whose end is what `ControlReturns` shows;
- the application keeps calling `usb_disp_poll` (`SF` on `PollBegin`: other calls of its
  may come between), and `usb_disp_poll` goes on (`WF`);
- timers that are due again and again are found expired once (`SF` on the retries and
  the deadlines).

`ComesUp` asks for a display that stays plugged in, and it asks that what spoils a session
from outside comes to an end: forced re-enumerations, diagnoses, control requests that miss
their deadline, reports of a device without an endpoint or a protocol. All of them may
have happened any number of times and at any moment before. Losses, NAKs and STALLs are
not in this run: a device that answers NAK for ever holds core 1 in `pump_bulk` (see the
hazards), and one that loses every packet never comes up.

`HalEsp32!Fairness`: both tasks are scheduled, the callbacks of what is complete run, and
`client_task` ends a teardown (`SF`, since the application may be inside transfers again
and again). Nothing is assumed of the bus: a transfer need not complete, and `Recovers` and
`Found` end with the device.

`DispFrames!Fairness`: the application keeps polling, and of the frames that `ms_poll`
sends and that succeed, not every one is lost unnoticed (`SF`); without that nothing could
be promised.

`DispPorts!Fairness`: each port is polled; a device that stays is not opened in vain, nor
unresponsive, for ever (`SF` on attaching, on setting a mode, and on setting one without
losing the handle); losses and the 30 s of `FAILED` are noticed (`WF`). And the application
goes on drawing on a display that has a mode (`WF` on `Draw` with a dead handle):
`usb_disp_hal_poll` returns at once while a handle is there (302), so only a transfer tells
that the device has gone. A display that is ready *without* a mode cannot be drawn on, and
stays on a dead handle for ever: `Found` excepts it (`Unaware`). `Found` says that the
device is open on the very port at whose number it stands, and the port ready; after a
replug inside one poll it may still be the readiness for the device before (`replug`).

## 4. What is proved

All with TLAPS. Every safety invariant and every action property of a passing run is a
theorem, for every value of the constants that these assumptions allow:

| assumption | what it asks |
|---|---|
| `ConstantAssumption`, `HalAssumption`, `DispAssumption` | `Mps` is between 1 and `RingSize`, limits are positive, `Wrap` is above `MaxAttempts` |
| `CopyAssumption`, `DrawAssumption` | a command moves at least one pixel; the modes fit the frame buffer (`dl_set_mode` refuses others); a plane holds the values drawn and the unknown one |
| `FrameAssumption`, `T6Assumption` | widths of the MS91xx are even and below 65536 (`uint16_t`; its two modes are 1920 and 1280 pixels wide); a command is at most 4 MB |
| `ModesAssumption`, `PortsAssumption` | the table of modes is sorted as in the code, an EDID that could be read lists its preferred mode |
| `TeensyAssumption`, `Esp32Assumption` | at least one slot, of at least one part |

No theorem assumes anything of how often the application polls.

### The host engine (`UdhHost_proofs`)

- **`TypeCorrect`**: `Spec => []TypeOK`. One lemma for the flags, one for the data, one for
  the pending call, each with a step per action. It includes that the streak of errors
  stays below its limit.
- **`MailboxIsHeld`**: `Spec => MailboxHeld`. Inductive invariant: core 1 is in `ctl`
  only while `req` is set.
- **`RingCorrect`**, **`PacketCorrect`**: `Spec => []RingIntact` and `Spec => []PacketIntact`.
  Neither is inductive alone: an ACK moves `ring_tail` by the packet's length, so it keeps
  `RingIntact` only if the packet is valid and the ring's oldest part. `RingInv` adds that a
  packet on the wire is valid. The lemmas: a slot belongs to one position of any window of
  `RingSize` (`SlotUnique`), copying a chunk overwrites none of them (`RingCopy`), and one
  lemma for each other way the ring moves (`RingPublish`, `RingAck`, `RingPrepare`,
  `RingDropped`).
- **`QueueImplemented`**: `Spec => QueueSpec`. The queue is the interval of positions between
  tail and head (`QueueRead`, from `RingIntact`), the packet its prefix. Each action
  maps to one of `Accept`, `Load`, `Retire`, `Drop`, or to a stutter. The concatenation
  and cutting of intervals are lemmas of their own.

### The stack of one display on the Pico (`DispPico_proofs`)

`StackIsEngine`: every step of HAL, core and application is a step of the engine, or leaves
it alone. So the lemmas of `UdhHost_proofs` carry over, which gives **`StackRingCorrect`** and
**`StackImplementsQueue`** for the whole stack, and **`NoOldBytesReach`**: no byte of an earlier
session reaches the device.

For what the device has at any moment, `StreamInv` is inductive. Its parts, from bottom to
top:

- `StackInv`: types, the engine's invariant, which `stage` goes with which `phase`;
- `Course`: a session either is *blank*, which means that nothing was written to it and
  nothing that is written now can belong to it (`MuteBlank`; this is also what a bounce that
  nobody noticed leaves behind, for the endpoint is gone), or the HAL has attached the
  device, or the session is about to end because a re-enumeration was asked for (`Ending`);
- `ConfigPending`: a SET_CONFIGURATION reaches the device in a blank session only, although
  the request of a call that timed out stays in the mailbox;
- `FreshToggle`: as long as core 1 has not taken `reset_toggle_req` nothing was sent.
  `set_bulk_out` stores the endpoint before it asks for the toggle, so the request may come
  while core 1 is in the pump already; then the ring is empty until core 1 leaves it, unless a
  chunk is `stray`;
- `StreamAgrees`: host and device differ in the toggle exactly when the device has the packet
  that the host still holds, and the device has the bytes up to the tail, or up to the
  end of that packet, once each and in order;
- `ModeInv`: with an endpoint in place the mode is one of this session (`ModeOfSession`); the
  HAL gives a device up together with the display's mode, or the display notices next
  (`GivenUp`); and the endpoint is in place while the port is down only for a display that
  has no mode yet, or was asked to re-enumerate (`EndpointDown`).

From it follow **`StreamIsExact`**, **`DrawsAfterSetMode`** (no pixel is sent before the mode of
this session) and, as an action property, **`FlushIsDelivery`**. `StreamExact` is far from
inductive alone: a retransmission is harmless only because the toggles disagree, and they do
only since no session starts with a toggle left from an earlier one. That the port may
bounce unseen, between two polls or inside a call, is part of the argument: `enter_detect`
clears the endpoint, and only an enumeration of the new session sets it again.

### Copies, shadow and drawing (`DlCopy_proofs`, `DispDraw_proofs`)

- **`CopyCorrect`**: `CopySpec => []CopyExact`. The inductive invariant `CopyInv` says which
  cells are `Done` at any command: rows behind the current one, in the current row the
  columns behind the current segment, and the plane that was finished first. Done cells
  hold what their source held before the copy, all others are unchanged. A command takes its
  cells from cells that are not done (`SourceKept`), because rows and segments are
  taken from the side the rectangle moves to, and never overlaps itself (`CommandApart`),
  because a segment inside a row is no longer than the shift.
- **`ShadowCorrect`**, **`DrawnCorrect`**, **`CopyExactInUse`**, **`DrawTypeCorrect`** for
  `DrawSpec`. The invariant `DrawInv` is `CopyInv` with `CallState` (a copy under way lies on the
  screen) and `Agreement`: shadow and `drawn` agree with what the screen *held when the copy
  began* (`Held`), since a copy moves the shadow only when it is over. An update sends what
  lies between the first and the last difference, so outside it the shadow has the new
  pixels already (`SpanIs`), and by the invariant the screen has too (`Redrawn`). A copy
  moves the shadow row by row in the order of the rows of `dl_copy`; `ShadowMoved` shows that
  this is the same as moving the whole rectangle at once, because a row reads what no row before
  it has written (`RowSource`).

### Full-frame displays (`DispFrames_proofs`)

**`FramesTypeCorrect`**, **`BuffersFit`**, **`WireBufferCurrent`**, **`FlushedIsShown`** and the
action property **`CommandsStayApart`**, from the inductive invariant `FramesInv`: `Types`,
`RingOK` (the T6's next command comes behind the last one, or the ring began anew
because a largest one did not fit), `WireOfFb`, and, once a mode is set (`SetInv`), that the
buffer fits, the dirty rectangle lies in it (`RectOK`), the wire buffer is current outside
it, and a display that is not dirty shows its buffer or has it queued (`T6Shows`, `MsShows`).
`FlushShows` needs the last two at every call, not only at the flush: a frame handed over
earlier must be the present one when nothing was drawn since. `RectOK` needs widths below
65536, or `ms_dirty_add` would wrap around.

### Several ports (`DispPorts_proofs`)

**`PortsTypeCorrect`**, **`OneHolderOnly`** and the action property **`ModeIsOfMonitor`**, from
`PortsInv`: types, `MonitorReports`, `GoodCache` (the cache holds an EDID of a port that does not
ignore it), `StageShape` and `OneHolder`. `ModeOfMonitor` has one lemma for each step that
chooses a mode (`PollChooseFits`, `PollRecheckFits`, `SetAutoModeFits`), on top of what the choice itself
gives (`ScanMaxIs`, `FallbackIs`, `AutoSuits`: a mode that may be refused is passed over, and
no other): what is read in a poll is
the EDID of the monitor behind that port, since the poll begins by dropping the cache, and only
`usb_disp_set_auto_mode` may use one that was read before. `OneHolder` carries over an
unplugging, which shifts every number behind the device, since a handle stays with its device.

### The HALs for Teensy and ESP32

- **Teensy** (`HalTeensy_proofs`): `Invariance` is `Spec => []IInv` with `IInv` = `TypeOK`,
  `Life` (pipe, device and `attached` go together outside the window of `finish_pipe`), `Ctrl`
(who holds `s_ctrl`), `Hand`, `SlotsAccounted` and `StreamInOrder`; from it follow `TypeCorrect`,
  `SlotsAreAccounted`, `StreamIsInOrder`, `BuffersAreHeld`, `ControlIsFreed`,
  `AttachedIsThere` and, as an action property, `FlushesDeliver`. No part is inductive
  alone. An interrupt that attaches a device sets the count of slots anew, which is right only
  because it finds the main program between two calls with nothing in flight (`Life`); and a
  refused `submit_cur` gives back the turn that `take_slot` took, which needs that the slot in
  hand is the one before `next_slot` (`Hand`). The arithmetic of the ring is in the lemmas
  `RingNext`, `RingBack` (one forward and one back is where it was) and `RingStep` (going on
  commutes with the reduction).
- **ESP32** (`HalEsp32_proofs`): `Invariance` is `Spec => []IInv` with `IInv` =
  `CtrlInv /\ (Explored => Core)`: what `ctrl_done` says holds in every state, the rest up to
  a teardown during a set-up, after which the program is not modelled. `Core` is `TypeOK`
  with `DevInv` (a device is held while anything is under way for it), `SetupInv`
  (`finish_setup` runs in one task, on a device not yet attached), `CallInv` and
  `BalanceInv`. From it follow `TypeCorrect`, `SlotsAreBalanced`, `AttachedIsThere` and
  `AnswersAreOwn`. `SlotsBalanced` alone says nothing while no device is attached, so
  `BalanceInv` adds the two cases that carry it there: a set-up that has filled the pool
  and not attached yet, and a bulk call that goes on while its device is torn down. A flush
  that outlives the exchange of its device holds slots of the old one; then the sum exceeds
  `Slots`, and since `xSemaphoreGive` stops at the limit, the flush's end restores it
  (without the limit the pool would have more slots than there are: the mutant of `Given`).

### How recursion is reasoned about

`shadow_rows` is a recursive function. An induction theorem with an operator as its parameter
cannot be instantiated by the provers at hand, so the proof takes the least number of rows for
which the function differs from its closed form (`LeastMember`, from the well-foundedness of
`<` on the naturals), and finds that the number before it differs too. `MinIs` and `MaxIs` come
from the same lemma.

### Only model-checked

Everything that is liveness: `ComesUp` and `ControlReturns` of the Pico, `Recovers` and `Found` of the ESP32 HAL, `Resent` of the full-frame displays, `Found` of
the ports; fairness and ENABLED are out of these provers' reach. The four violated properties, of
course, have no theorem.

## 5. What is not modelled

- The bus: PIO programs, bit timing, the transactions of a control transfer. A
  transaction succeeds, is lost, or loses its handshake.
- The content of descriptors and EDIDs, log texts, timings of modes.
- A short write that ends inside a DL command. The parser of the chip is not in this
  repository.
- Memory ordering between the cores: steps are interleaved in program order. The code puts
  `__dmb()` between the data and the index that publishes it.
- Everything that `PROJECT.json` lists as not modelled; most of it is planned below.

## 6. Plan

In the order of the behaviour that is hardest to test:

1. `HubPico`: hub ports on top of `HalPico`: debounce, pending resets, a device behind a
   hub that goes with it.
2. `UdhPorts`: two ports under one core 1, with the starvation by a device that answers NAK.
3. An abstract display (what was drawn is what is shown after a flush), implemented by
   `DispDraw` and by `DispFrames`.
4. `DlEncode`, `UdhEncode`: run-length encoding; bit stuffing and NRZI. Pure algorithms,
   checked against their decoders.

Theorems to come: the same for the modules above; that `DispDraw` and `DispFrames` implement the
abstract display of 3.
