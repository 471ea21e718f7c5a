------------------------------ MODULE ProtMs91xx -----------------------------
(***************************************************************************)
(* The protocol of the MS912x and the MS913x (usb_disp_prot_ms91xx.cpp):   *)
(* next to the frame buffer a second one holds the frame in the wire       *)
(* format; a flush converts the rectangle drawn since the last one and     *)
(* sends the whole frame.  On the wire the MS912x has pairs of pixels that *)
(* share their chroma (UYVY), the MS913x single pixels.                    *)
(*                                                                         *)
(* The MS913x mutes its output unless frames keep coming, which ms_poll    *)
(* sees to every 2 s; when the 2 s are over is left open.                  *)
(***************************************************************************)
EXTENDS FrameCore

VARIABLES
  wire,     \* p->wire: what each pixel's place in the wire buffer was made from
  rect,     \* the dirty rectangle <<dx0, dx1>>, or NoRect: ~p->dirty
  first     \* p->first: the next complete frame turns the output on

msVars == <<wire, rect, first>>

NoRect == <<>>

MsInit == wire = NoPic /\ rect = NoRect /\ first = FALSE

M3 == kind = "MS913X"

\* The pixels that are stored together with pixel x.
PairOf(x) == IF M3 THEN {x} ELSE {x - (x % 2), x - (x % 2) + 1}

\* What stands at x in the wire format of picture p.
WireAt(p, x) == [i \in PairOf(x) \cap DOMAIN p |-> p[i]]
Wired(p) == [x \in DOMAIN p |-> WireAt(p, x)]

\* Mutant: the end is one past the last pixel.
DirtyAddPastEnd(x, n) ==
  LET x1 == (x + n) % 65536
  IN  rect' = IF rect = NoRect THEN <<x, x1>>
              ELSE <<IF x < rect[1] THEN x ELSE rect[1], IF x1 > rect[2] THEN x1 ELSE rect[2]>>

\* ms_dirty_add, in 16 bits
DirtyAdd(x, n) ==
  LET x1 == (x + n - 1) % 65536
  IN  rect' = IF rect = NoRect THEN <<x, x1>>
              ELSE <<IF x < rect[1] THEN x ELSE rect[1], IF x1 > rect[2] THEN x1 ELSE rect[2]>>

\* Mutant: it is not widened.
ConvertedNarrow ==
  IF rect = NoRect THEN wire
  ELSE [x \in DOMAIN wire |-> IF x \in rect[1]..rect[2] THEN WireAt(fb, x) ELSE wire[x]]

\* ms_convert_dirty: the rectangle is widened to whole pairs.
Converted ==
  IF rect = NoRect THEN wire
  ELSE LET done == UNION {PairOf(x) : x \in rect[1]..rect[2]}
       IN  [x \in DOMAIN wire |-> IF x \in done THEN WireAt(fb, x) ELSE wire[x]]

MsDetach ==
  /\ MS /\ rect' = NoRect /\ UNCHANGED <<wire, first>>

\* ms_alloc_bufs: the wire buffer lives and dies with the frame buffer.
MsAllocOK(w, d24) ==
  /\ AllocOK(w, d24)
  /\ wire' = IF Kept(w, d24) THEN wire ELSE Wired(Black(w))

\* ms_set_mode fails: the mode is not known,
MsModeUnknown == MS /\ UNCHANGED <<fbVars, devVars, msVars>>

\* there is no memory, not for 2 bytes a pixel either (the first attempt has freed
\* the buffers by then),
MsNoMemory(w, d24) ==
  /\ MS /\ m24' = FALSE
  /\ AllocFails(w, d24) /\ wire' = NoPic
  /\ UNCHANGED <<pw, devVars, rect, first>>

\* or the MS912x does not take it after it was switched off.
Ms2Refused(w, d24) ==
  /\ kind = "MS912X" /\ m24' = d24
  /\ MsAllocOK(w, d24)
  /\ pw' = w /\ OutMaybe(FALSE) /\ shown' = NoPic
  /\ UNCHANGED <<rect, first>>

\* The mode is set.  The results of the MS913x's commands are ignored.
MsModeOn(w) ==
  /\ pw' = w /\ shown' = NoPic /\ rect' = <<0, w - 1>>
  /\ IF M3 THEN OutMaybe(FALSE) /\ first' = TRUE ELSE out' = TRUE /\ UNCHANGED first

MsModeSet(w, d24) == MS /\ m24' = d24 /\ MsAllocOK(w, d24) /\ MsModeOn(w)

\* Memory for 2 bytes a pixel only; what there was is freed by then.
MsModeSet565(w) ==
  /\ MS /\ ~Kept(w, TRUE) /\ m24' = FALSE
  /\ fb' = Black(w) /\ fb24' = FALSE /\ wire' = Wired(Black(w))
  /\ MsModeOn(w)

MsDraw(x, n) == MS /\ DirtyAdd(x, n) /\ UNCHANGED <<wire, first>>

\* After a complete frame: the first one turns the output on.
Complete ==
  IF first /\ M3 THEN OutMaybe(TRUE) /\ first' = FALSE ELSE UNCHANGED <<out, first>>

\* What the display makes of wire buffer w.  The MS913x is triggered in any case,
\* with part of a frame, too; and with a complete one (r) the trigger or, on the
\* ESP32, a transfer may still have failed unnoticed.
FrameOut(w, r) ==
  \/ r /\ shown' = w /\ struck' = struck \ {"unsent"}
  \/ shown' \in {shown, NoPic} /\ struck' = struck \cup {"unsent"}

\* ms_send_frame
SendFrame(w, r) ==
  /\ FrameOut(w, r)
  /\ IF r THEN Complete ELSE UNCHANGED <<out, first>>

\* ms_flush: the rectangle is forgotten before the frame is sent.  One that
\* reaches past the end of a smaller buffer (FbFits) is not followed.  After a
\* frame that was sent (`sent`) the last bulk_flush may still fail.
MsFlush(r) ==
  /\ MS /\ (rect # NoRect /\ fb # NoPic => rect[2] \in DOMAIN fb)
  /\ IF rect # NoRect /\ fb # NoPic /\ pw > 0
     THEN /\ wire' = Converted /\ rect' = NoRect
          /\ \E sent \in {TRUE, r} : SendFrame(wire', sent)
     ELSE UNCHANGED <<msVars, devVars, struck>>

\* ms_blank; on the MS912x blank(false) sets the mode again (MsModeSet).
MsBlank(on) ==
  /\ MS /\ UNCHANGED <<wire, shown>>
  /\ \/ on /\ OutMaybe(FALSE) /\ UNCHANGED <<rect, first>>
     \/ ~on /\ M3 /\ first' = TRUE /\ DirtyAdd(0, pw) /\ UNCHANGED out

PollReady == M3 /\ ready /\ wire # NoPic /\ pw > 0

\* Mutant: only a frame with something new in it is sent again.
KeepAliveIfDirty(r) ==
  /\ PollReady /\ rect # NoRect
  /\ SendFrame(wire, r)
  /\ UNCHANGED <<wire, rect>>

\* ms_poll: the frame of the wire buffer is sent again.
KeepAlive(r) ==
  /\ PollReady
  /\ SendFrame(wire, r)
  /\ UNCHANGED <<wire, rect>>

\* ms_poll finds the output muted: it is to be turned on (the results are ignored),
\* and the frame is sent again.
Unmute(r) ==
  /\ PollReady /\ ~out
  /\ OutMaybe(TRUE)
  /\ FrameOut(wire, r)
  /\ first' = (first /\ ~r)
  /\ UNCHANGED <<wire, rect>>

=============================================================================
