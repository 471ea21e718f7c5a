------------------------------ MODULE DispFrames -----------------------------
(***************************************************************************)
(* A display with a full-frame protocol under the core (usb_disp.cpp):     *)
(* what the application calls, and usb_disp_poll, for each kind of display *)
(* and with failures at any transfer.                                      *)
(***************************************************************************)
EXTENDS ProtT6, ProtMs91xx

vars == <<kind, coreVars, fbVars, devVars, histVars, t6Vars, msVars>>

Init == FrameInit /\ T6Init /\ MsInit

Quiet == ret' = "none" /\ UNCHANGED kind

-----------------------------------------------------------------------------
(* Life cycle.                                                             *)

\* usb_disp_poll finds a device and its protocol takes it.
Attach ==
  /\ ~attached /\ attached' = TRUE
  /\ T6Attach \/ (MS /\ UNCHANGED t6Vars)
  /\ Quiet /\ UNCHANGED <<ready, width, depth24, want24, fbVars, devVars, msVars, dark, struck>>

\* The mode set-up is over, with a mode or without.
BecomeReady ==
  /\ attached /\ ~ready /\ ready' = TRUE
  /\ Quiet /\ UNCHANGED <<attached, width, depth24, want24, fbVars, devVars, t6Vars, msVars,
                          dark, struck>>

\* reset_device_state: the buffers of the protocol stay.
Detach ==
  /\ attached /\ attached' = FALSE /\ ready' = FALSE /\ width' = 0
  /\ \/ T6Detach /\ UNCHANGED msVars
     \/ MsDetach /\ UNCHANGED t6Vars
  /\ out' = FALSE /\ shown' = NoPic /\ dark' = FALSE /\ struck' = {}
  /\ Quiet /\ UNCHANGED <<depth24, want24, fbVars>>

-----------------------------------------------------------------------------
(* Modes: usb_disp_set_mode_ex and what ends in it.                        *)

ModeFails(w, d24) ==
  /\ depth24' = d24
  /\ \/ T6ModeUnknown /\ UNCHANGED msVars
     \/ T6ModeRefused(w, d24) /\ UNCHANGED msVars
     \/ T6ModeSet(w, d24, FALSE) /\ UNCHANGED msVars
     \/ MsModeUnknown /\ UNCHANGED t6Vars
     \/ Ms2Refused(w, d24) /\ UNCHANGED t6Vars
  /\ struck' = struck \cup {"mode"} /\ UNCHANGED width

NoMemory(w, d24) ==
  /\ MsNoMemory(w, d24) /\ UNCHANGED t6Vars
  /\ depth24' = FALSE /\ struck' = struck \cup {"mode"} /\ UNCHANGED width

\* Mutant: the core still counts on 24 bits after the fall-back to 16.
ModeSetKeepsDepth(w, d24) ==
  /\ \/ depth24' = d24 /\ T6ModeSet(w, d24, TRUE) /\ UNCHANGED msVars
     \/ depth24' = d24 /\ MsModeSet(w, d24) /\ UNCHANGED t6Vars
     \/ d24 /\ depth24' = d24 /\ MsModeSet565(w) /\ UNCHANGED t6Vars
  /\ width' = w /\ struck' = {}

ModeSet(w, d24) ==
  /\ \/ depth24' = d24 /\ T6ModeSet(w, d24, TRUE) /\ UNCHANGED msVars
     \/ depth24' = d24 /\ MsModeSet(w, d24) /\ UNCHANGED t6Vars
     \/ d24 /\ depth24' = FALSE /\ MsModeSet565(w) /\ UNCHANGED t6Vars
  /\ width' = w /\ struck' = {}

SetModeEx(w, d24) ==
  /\ ModeFails(w, d24) \/ NoMemory(w, d24) \/ ModeSet(w, d24)
  /\ dark' = FALSE
  /\ Quiet /\ UNCHANGED <<attached, ready>>

SetMode(w) == attached /\ SetModeEx(w, want24) /\ UNCHANGED want24

\* usb_disp_set_depth
SetDepth(b) ==
  /\ want24' = b
  /\ IF ready /\ width > 0
     THEN SetModeEx(width, b)
     ELSE Quiet /\ UNCHANGED <<attached, ready, width, depth24, fbVars, devVars, t6Vars, msVars,
                               dark, struck>>

-----------------------------------------------------------------------------
(* Drawing.  Into a buffer that does not fit, the program would write past *)
(* its end, which is not followed.                                         *)

DrawTo(x, n) ==
  /\ ready /\ width > 0 /\ x + n <= width /\ Fits
  /\ (T6Draw /\ UNCHANGED msVars) \/ (MsDraw(x, n) /\ UNCHANGED t6Vars)
  /\ Quiet /\ UNCHANGED <<coreVars, fb24, pw, m24, devVars, dark, struck>>

Update(x, n, c) == DrawTo(x, n) /\ fb' = Drawn(x, n, c)

Copy(sx, dx, n) == sx # dx /\ sx + n <= width /\ DrawTo(dx, n) /\ fb' = Moved(sx, dx, n)

Flush(r) ==
  /\ attached
  /\ (T6Flush(r) /\ UNCHANGED msVars) \/ (MsFlush(r) /\ UNCHANGED t6Vars)
  /\ ret' = IF r THEN "flush" ELSE "none"
  /\ UNCHANGED <<kind, coreVars, fbVars, dark>>

FlushFails ==
  /\ attached /\ T6FlushFails
  /\ Quiet /\ UNCHANGED <<coreVars, fbVars, msVars, dark>>

Blank(on) ==
  /\ ready
  /\ (T6Blank(on) /\ UNCHANGED msVars) \/ (MsBlank(on) /\ UNCHANGED t6Vars)
  /\ dark' = (on /\ ~out')
  /\ Quiet /\ UNCHANGED <<coreVars, fbVars, struck>>

\* ms_blank(false) on the MS912x: the protocol's own mode is set again.
Unblank912 ==
  /\ ready /\ kind = "MS912X" /\ pw > 0 /\ width > 0
  /\ \/ MsModeSet(pw, depth24) /\ UNCHANGED <<depth24, struck>>
     \/ depth24 /\ MsModeSet565(pw) /\ depth24' = FALSE /\ UNCHANGED struck
     \/ Ms2Refused(pw, depth24) /\ struck' = struck \cup {"mode"} /\ UNCHANGED depth24
     \/ MsNoMemory(pw, depth24) /\ depth24' = FALSE /\ struck' = struck \cup {"mode"}
  /\ dark' = FALSE
  /\ Quiet /\ UNCHANGED <<attached, ready, width, want24, t6Vars>>

-----------------------------------------------------------------------------
(* usb_disp_poll of a display that is ready, and the display itself.       *)

PollKeepAlive(r) ==
  /\ KeepAlive(r)
  /\ Quiet /\ UNCHANGED <<coreVars, fbVars, t6Vars, dark>>

PollUnmute(r) ==
  /\ Unmute(r)
  /\ Quiet /\ UNCHANGED <<coreVars, fbVars, t6Vars, dark>>

\* Something on the HDMI side mutes the output.
HdmiMutes ==
  /\ M3 /\ out /\ out' = FALSE
  /\ Quiet /\ UNCHANGED <<coreVars, fbVars, shown, dark, struck, t6Vars, msVars>>

Next ==
  \/ Attach \/ BecomeReady \/ Detach
  \/ \E w \in Widths : SetMode(w)
  \/ \E b \in BOOLEAN : SetDepth(b) \/ Flush(b) \/ Blank(b) \/ PollKeepAlive(b) \/ PollUnmute(b)
  \/ \E x \in 0..(width - 1), n \in 1..MaxDraw, c \in Colours : Update(x, n, c)
  \/ \E sx, dx \in 0..(width - 1), n \in 1..MaxDraw : Copy(sx, dx, n)
  \/ FlushFails \/ Unblank912 \/ HdmiMutes

\* The application polls, and not every frame that ms_poll sends is lost.
Fairness == SF_vars(PollKeepAlive(TRUE) /\ shown' = wire)

Spec == Init /\ [][Next]_vars /\ Fairness

\* Explored are the pictures with at most MaxLit pixels that are not black; on a
\* T6, which always sends the whole frame, it is the first one.
Lit == {x \in DOMAIN fb : fb[x] # 0}
Explored == Cardinality(Lit) <= MaxLit /\ (T6 => Lit \subseteq {0})

-----------------------------------------------------------------------------
(* Properties.                                                             *)

TypeOK ==
  /\ {attached, ready, depth24, want24, fb24, m24, out, dark, dirty, enc, first} \subseteq BOOLEAN
  /\ {width, pw} \subseteq Widths \cup {0}
  /\ {fb, queued} \subseteq Pics \cup {NoPic}
  /\ addr \in 0..limit
  /\ ret \in {"none", "flush"} /\ struck \subseteq {"mode", "dropped", "unsent"}
  /\ rect # NoRect /\ width > 0 /\ "mode" \notin struck => 0 <= rect[1] /\ rect[1] <= rect[2] /\ rect[2] < pw

\* The core draws into a buffer of the size and pixel format it clips to, after
\* any sequence of modes, depths, devices and lack of memory; excepted are the
\* calls after a mode that could not be set (FbFits).
BufferFits == ready /\ width > 0 /\ "mode" \notin struck => Fits

\* The same without the exception.
FbFits == ready /\ width > 0 /\ fb # NoPic => FbWidth = width

\* Outside the dirty rectangle, widened to pairs, the wire buffer has what the
\* frame buffer has: conversion of the rectangle alone is enough.
WireCurrent ==
  MS /\ width > 0 /\ "mode" \notin struck =>
    \A x \in DOMAIN fb :
      \/ rect # NoRect /\ PairOf(x) \cap rect[1]..rect[2] # {}
      \/ wire[x] = WireAt(fb, x)

\* After a flush that returned true the display shows everything drawn, unless
\* the HAL lost a frame it had taken, a frame was not sent or the mode not set.
FlushShows ==
  ret = "flush" /\ width > 0 /\ struck = {} =>
    shown = IF MS THEN Wired(fb) ELSE fb

\* No command runs into the frame slots above the ring, and the command of a
\* frame does not overlap the one of the frame before, which may still be read;
\* in the smallest memory (16 MB) that is not so.
CommandsApart ==
  [][cmd' # cmd /\ cmd'.len > 0 =>
       /\ cmd'.at + cmd'.len <= limit
       /\ \/ limit < 3 * MaxStep - 1
          \/ cmd.at + cmd.len <= cmd'.at
          \/ cmd'.at + cmd'.len <= cmd.at]_vars

\* An output that usb_disp_blank(true) turned off stays off until the
\* application turns it on or sets a mode.  ms_poll turns it on again.
BlankHolds == dark => ~out

\* The MS913x: a frame that could not be sent is not forgotten; it is shown in
\* the end without another flush.
Resent ==
  (PollReady /\ shown # wire) ~> (shown = wire \/ ~PollReady)

=============================================================================
