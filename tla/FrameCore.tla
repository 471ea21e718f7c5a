------------------------------ MODULE FrameCore ------------------------------
(***************************************************************************)
(* What the full-frame protocols share (usb_disp_prot_t6.cpp and           *)
(* usb_disp_prot_ms91xx.cpp): the core's record of the display             *)
(* (usb_disp.cpp), the frame buffer in which the protocol keeps the        *)
(* picture, and the display on the other side of the HAL.  The application *)
(* makes one call at a time; in a call every transfer may fail.            *)
(*                                                                         *)
(* A screen is one line of w pixels; a frame sent is the picture the       *)
(* device shows when it gets all of it.                                    *)
(***************************************************************************)
EXTENDS Integers, FiniteSets

CONSTANTS
  Kinds,    \* of displays: a subset of AllKinds
  T6Modes,  \* the modes of a T6, by their width
  MsModes,  \* the modes of an MS91xx: k_ms_modes
  Colours,  \* colours, with 0 for black
  MaxDraw,  \* pixels one update changes at most
  MaxLit    \* pixels of the explored pictures that are not black

AllKinds == {"T6", "T6PC", "MS912X", "MS913X"}   \* T6PC: with the software encoder

ASSUME FrameAssumption ==
  /\ Kinds \subseteq AllKinds
  /\ T6Modes \subseteq Nat \ {0} /\ MsModes \subseteq {w \in Nat \ {0} : w % 2 = 0 /\ w < 65536}
  /\ 0 \in Colours /\ MaxDraw \in Nat \ {0}

VARIABLES
  kind,              \* the display on the port
  attached,          \* the core has a protocol for it (d->prot)
  ready, width,      \* d->ready, d->width (0: no mode set)
  depth24, want24,   \* d->depth24, d->depth24_want
  fb,                \* p->fb / p->fb565: the picture, or NoPic when not allocated
  fb24,              \* the buffer has 3 bytes a pixel
  pw, m24,           \* p->w, p->m24 of the protocol
  out, shown,        \* the device: output on, the picture it shows (NoPic: not known)
  ret,               \* the call that just returned true, as far as it matters
  dark,              \* history: blank(true) turned the output off
  struck             \* history: failures whose effect has not been made good

coreVars == <<attached, ready, width, depth24, want24>>
fbVars   == <<fb, fb24, pw, m24>>
devVars  == <<out, shown>>
histVars == <<ret, dark, struck>>

T6 == kind \in {"T6", "T6PC"}
MS == kind \in {"MS912X", "MS913X"}

Widths == IF T6 THEN T6Modes ELSE MsModes

NoPic == <<>>
Pics  == UNION {[0..(w - 1) -> Colours] : w \in Widths}
Black(w) == [x \in 0..(w - 1) |-> 0]
FbWidth == Cardinality(DOMAIN fb)

Bytes(w, d24) == w * (IF d24 THEN 3 ELSE 2)
FbBytes == Bytes(FbWidth, fb24)

FrameInit ==
  /\ kind \in Kinds
  /\ attached = FALSE /\ ready = FALSE /\ width = 0 /\ depth24 = FALSE /\ want24 \in BOOLEAN
  /\ fb = NoPic /\ fb24 = FALSE /\ pw = 0 /\ m24 = FALSE
  /\ out = FALSE /\ shown = NoPic
  /\ ret = "none" /\ dark = FALSE /\ struck = {}

\* What a control transfer does whose result the code ignores.
OutMaybe(on) == out' \in {out, on}

\* t6_alloc_bufs, ms_alloc_bufs: a buffer of the right number of bytes is kept
\* with what is in it, any other is freed first and the new one is black.  The
\* MS91xx's wire buffer must be of the right size as well.
Kept(w, d24) == fb # NoPic /\ FbBytes = Bytes(w, d24) /\ (MS => FbWidth = w)
AllocOK(w, d24) ==
  /\ fb24' = d24
  /\ IF ~Kept(w, d24) THEN fb' = Black(w)
     ELSE IF FbWidth = w THEN UNCHANGED fb ELSE fb' \in [0..(w - 1) -> Colours]
AllocFails(w, d24) == ~Kept(w, d24) /\ fb' = NoPic /\ fb24' = FALSE

\* The buffer of the protocol is the one the core's clipping relies on.
Fits == fb # NoPic /\ FbWidth = width /\ pw = width /\ fb24 = m24 /\ (depth24 => m24)

\* t6_update, t6_update888, ms_update, ms_update888
Drawn(x, n, c) == [i \in DOMAIN fb |-> IF i \in x..(x + n - 1) THEN c ELSE fb[i]]

\* t6_copy, ms_copy within a line: memmove
Moved(sx, dx, n) == [i \in DOMAIN fb |-> IF i \in dx..(dx + n - 1) THEN fb[sx + i - dx] ELSE fb[i]]

=============================================================================
