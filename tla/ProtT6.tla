-------------------------------- MODULE ProtT6 -------------------------------
(***************************************************************************)
(* The protocol of the MCT Trigger 6 (usb_disp_prot_t6.cpp): a frame is    *)
(* encoded whole, put into a ring of commands in the device's memory and   *)
(* shown from one of three frame slots above the ring.  T6 is the build    *)
(* for the ESP32 with its hardware encoder, T6PC the one with the software *)
(* encoder, whose buffer always has 3 bytes a pixel.                       *)
(***************************************************************************)
EXTENDS FrameCore

CONSTANTS
  Vram,      \* sizes of the device's memory, in MB
  MaxStep    \* MB a command takes at most: 2, its JPEG being at most 1 MB

ASSUME T6Assumption == Vram \subseteq Nat /\ MaxStep \in 1..4

VARIABLES
  dirty,     \* p->dirty
  enc,       \* the hardware encoder was created
  queued,    \* the last frame the HAL has taken and not delivered
  limit,     \* p->cmd_limit in MB
  addr,      \* p->cmd_addr in MB
  cmd        \* history: the last command in the ring, [at, len]; len 0: none

t6Vars == <<dirty, enc, queued, limit, addr, cmd>>

NoCmd == [at |-> 0, len |-> 0]

T6Init ==
  /\ dirty = FALSE /\ enc = FALSE /\ queued = NoPic
  /\ limit = 0 /\ addr = 0 /\ cmd = NoCmd

\* t6_attach: the three slots of 4 MB lie above the ring.
T6Attach ==
  /\ T6
  /\ \E mb \in Vram : mb >= 16 /\ limit' = mb - 12
  /\ addr' = 0 /\ cmd' = NoCmd
  /\ UNCHANGED <<dirty, enc, queued>>

T6Detach == T6 /\ dirty' = FALSE /\ queued' = NoPic /\ UNCHANGED <<enc, limit, addr, cmd>>

\* t6_set_mode fails: the mode is not in the device's table.
T6ModeUnknown == T6 /\ UNCHANGED <<fbVars, devVars, t6Vars>>

T6Depth(d24) == m24' = (d24 \/ kind = "T6PC")

\* It fails: no memory, or the device does not take the mode.
T6ModeRefused(w, d24) ==
  /\ T6 /\ T6Depth(d24)
  /\ AllocFails(w, m24') \/ AllocOK(w, m24')
  /\ UNCHANGED <<pw, devVars, t6Vars>>

\* The device has the mode; only the hardware encoder may be missing.
T6ModeSet(w, d24, ok) ==
  /\ T6 /\ T6Depth(d24)
  /\ AllocOK(w, m24')
  /\ pw' = w /\ addr' = 0 /\ cmd' = NoCmd /\ dirty' = TRUE
  /\ OutMaybe(TRUE) /\ shown' = NoPic
  /\ IF ok THEN enc' = TRUE ELSE kind = "T6" /\ ~enc /\ UNCHANGED enc
  /\ UNCHANGED <<queued, limit>>

T6Draw == T6 /\ dirty' = TRUE /\ UNCHANGED <<enc, queued, limit, addr, cmd>>

\* usb_disp_hal_bulk_flush(h, timeout_ms): everything the HAL took is delivered,
\* or it is not (yet), or the HAL has thrown it away; what is on the screen then
\* is not known (NoPic).  A flush may return true after a transfer that failed: on
\* the ESP32 bulk_xfer_cb gives the slot back on an error, too.
HalFlush(q, r) ==
  \/ q = NoPic /\ UNCHANGED <<queued, shown, struck>>
  \/ q # NoPic /\ r /\ shown' = q /\ queued' = NoPic /\ struck' = struck \ {"dropped"}
  \/ q # NoPic /\ ~r /\ shown' = NoPic /\ queued' = q /\ UNCHANGED struck
  \/ q # NoPic /\ shown' = NoPic /\ queued' = NoPic /\ struck' = struck \cup {"dropped"}

\* Mutant: the size of the command is not counted.
RingUncounted(step) ==
  LET at == IF addr > limit THEN 0 ELSE addr
  IN  cmd' = [at |-> at, len |-> step] /\ addr' = at + step

\* t6_send_frame: a command of `step` MB that does not fit goes to the start.
Ring(step) ==
  LET at == IF addr + step > limit THEN 0 ELSE addr
  IN  cmd' = [at |-> at, len |-> step] /\ addr' = at + step

\* Mutant: the frame counts as sent before it is.
T6FlushFailsClean ==
  /\ T6 /\ dirty /\ fb # NoPic /\ pw > 0 /\ dirty' = FALSE
  /\ addr' \in {addr, 0} /\ (addr' # addr => addr + MaxStep > limit)
  /\ HalFlush(queued, FALSE)
  /\ UNCHANGED <<enc, limit, cmd, out>>

\* t6_flush fails in the encoder or in one of the writes: only the return to
\* the start of the ring may remain of it.  The HAL may have given up an
\* earlier frame, too.
T6FlushFails ==
  /\ T6 /\ dirty /\ fb # NoPic /\ pw > 0
  /\ addr' \in {addr, 0} /\ (addr' # addr => addr + MaxStep > limit)
  /\ HalFlush(queued, FALSE)
  /\ UNCHANGED <<dirty, enc, limit, cmd, out>>

\* t6_flush
T6Flush(r) ==
  /\ T6 /\ UNCHANGED <<enc, limit, out>>
  /\ IF dirty /\ fb # NoPic /\ pw > 0
     THEN /\ \E step \in 1..MaxStep : Ring(step)
          /\ dirty' = FALSE
          /\ HalFlush(fb, r)
     ELSE UNCHANGED <<dirty, addr, cmd>> /\ HalFlush(queued, r)

\* t6_blank when its control transfer succeeds
T6Blank(on) ==
  /\ T6 /\ out' = ~on
  /\ dirty' = (dirty \/ ~on)
  /\ UNCHANGED <<enc, queued, limit, addr, cmd, shown>>

=============================================================================
