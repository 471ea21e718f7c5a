-------------------------------- MODULE DlCopy -------------------------------
(***************************************************************************)
(* The rectangle copy of DL-1xx, dl_copy (usb_disp_prot_dl-1xx.cpp), as    *)
(* usb_disp_copy calls it.  A copy is a sequence of COPY commands, each of *)
(* which moves a segment of a row inside one plane of the device's frame   *)
(* buffer; the rectangles may overlap.  bulk_write may be short, and ends  *)
(* the copy half-way.                                                      *)
(*                                                                         *)
(* A frame buffer address is its cell <<x, y>>.  The commands of s_cmdbuf  *)
(* reach the device in their order, so a command is executed where it is   *)
(* put together, and a short write is taken to end between two commands.   *)
(***************************************************************************)
EXTENDS Integers

CONSTANTS
  MaxWidth, MaxHeight,   \* of the frame buffer
  MaxSeg,                \* the pixels of one command (256 in the code)
  Values,                \* what one plane holds in a cell
  Noise,                 \* a value nobody can foresee
  WritesFail             \* bulk_write may be short

ASSUME CopyAssumption ==
  /\ MaxWidth \in Nat /\ MaxHeight \in Nat
  /\ MaxSeg \in Nat \ {0}
  /\ Noise \in Values
  /\ WritesFail \in BOOLEAN

VARIABLES
  width, height, depth24,   \* d->width, d->height, d->depth24
  fb,                       \* the device: what each plane holds in each cell
  copying,                  \* core 0 is in dl_copy
  args,                     \* its arguments
  plane, i, k,              \* the plane, row and segment of the next command
  before                    \* history: fb when the copy began, else Noisy

modeVars == <<width, height, depth24>>
copyVars == <<copying, args, plane, i, k, before>>
dlVars   == <<modeVars, fb, copyVars>>

Planes == {"base16", "base8"}   \* base8 is used with 24 bits only
Cells  == (0..MaxWidth-1) \X (0..MaxHeight-1)

Rectangles == [sx : Nat, sy : Nat, dx : Nat, dy : Nat, w : Nat, h : Nat]
NoArgs     == [sx |-> 0, sy |-> 0, dx |-> 0, dy |-> 0, w |-> 0, h |-> 0]

Noisy == [p \in Planes |-> [c \in Cells |-> Noise]]

\* The cell the w x h rectangle at <<dx, dy>> gets the content of cell c from.
Source(a, c) == <<c[1] - a.dx + a.sx, c[2] - a.dy + a.sy>>

InTarget(a, c) == c[1] \in a.dx..(a.dx + a.w - 1) /\ c[2] \in a.dy..(a.dy + a.h - 1)

-----------------------------------------------------------------------------
(* How dl_copy splits a copy.                                              *)

\* A shift inside the rows is split so that no command overlaps itself.
Distance(a) == IF a.dx > a.sx THEN a.dx - a.sx ELSE a.sx - a.dx

\* Mutation: the segments of a shift by d pixels are d + 1 long.
seg_one_too_long(a) ==
  IF a.sy = a.dy /\ Distance(a) < MaxSeg THEN Distance(a) + 1 ELSE MaxSeg

seg(a) == IF a.sy = a.dy /\ Distance(a) < MaxSeg THEN Distance(a) ELSE MaxSeg

rtl(a)       == a.sy = a.dy /\ a.dx > a.sx
bottom_up(a) == a.dy > a.sy
nseg(a)      == (a.w + seg(a) - 1) \div seg(a)

row == IF bottom_up(args) THEN args.h - 1 - i ELSE i
off == (IF rtl(args) THEN nseg(args) - 1 - k ELSE k) * seg(args)
n   == IF args.w - off > seg(args) THEN seg(args) ELSE args.w - off

\* The arguments of the next command.
Command ==
  [sx |-> args.sx + off, sy |-> args.sy + row,
   dx |-> args.dx + off, dy |-> args.dy + row, w |-> n, h |-> 1]

\* The device (external) executes a command.  dl_copy takes care that none
\* overlaps itself: what the chip makes of one that does is unknown.
Executed(p, c) ==
  LET overlaps == c.sy = c.dy /\ Distance(c) < c.w
  IN  [fb EXCEPT ![p] =
         [cell \in Cells |->
            IF ~InTarget(c, cell) THEN fb[p][cell]
            ELSE IF overlaps THEN Noise ELSE fb[p][Source(c, cell)]]]

-----------------------------------------------------------------------------
\* usb_disp_copy up to its call of prot->copy: what it refuses, or finds
\* nothing to do for, changes nothing.
CopyCall(a) ==
  /\ ~copying
  /\ a.w > 0 /\ a.h > 0
  /\ a.sx + a.w <= width /\ a.dx + a.w <= width
  /\ a.sy + a.h <= height /\ a.dy + a.h <= height
  /\ <<a.sx, a.sy>> # <<a.dx, a.dy>>
  /\ copying' = TRUE /\ args' = a
  /\ plane' = "base16" /\ i' = 0 /\ k' = 0
  /\ before' = fb
  /\ UNCHANGED <<modeVars, fb>>

\* Mutation: one segment too many.
CopyCommandOneMore ==
  /\ copying /\ i < args.h
  /\ fb' = Executed(plane, Command)
  /\ IF k + 1 <= nseg(args)
       THEN k' = k + 1 /\ UNCHANGED <<plane, i>>
       ELSE /\ k' = 0
            /\ IF plane = "base16" /\ depth24
                 THEN plane' = "base8" /\ UNCHANGED i
                 ELSE plane' = "base16" /\ i' = i + 1
  /\ UNCHANGED <<modeVars, copying, args, before>>

\* One command.  With 24 bits the row follows in the other plane.
CopyCommand ==
  /\ copying /\ i < args.h
  /\ fb' = Executed(plane, Command)
  /\ IF k + 1 < nseg(args)
       THEN k' = k + 1 /\ UNCHANGED <<plane, i>>
       ELSE /\ k' = 0
            /\ IF plane = "base16" /\ depth24
                 THEN plane' = "base8" /\ UNCHANGED i
                 ELSE plane' = "base16" /\ i' = i + 1
  /\ UNCHANGED <<modeVars, copying, args, before>>

CopyEnd ==
  /\ copying' = FALSE /\ args' = NoArgs
  /\ plane' = "base16" /\ i' = 0 /\ k' = 0
  /\ before' = Noisy
  /\ UNCHANGED <<modeVars, fb>>

\* bulk_write was short: dl_copy returns false.
CopyShort == WritesFail /\ copying /\ i < args.h /\ CopyEnd

CopyReturn == copying /\ i = args.h /\ CopyEnd

CopyInit ==
  /\ width \in 0..MaxWidth /\ height \in 0..MaxHeight /\ depth24 \in BOOLEAN
  /\ fb \in [Planes -> [Cells -> Values]]
  /\ copying = FALSE /\ args = NoArgs
  /\ plane = "base16" /\ i = 0 /\ k = 0
  /\ before = Noisy

CopyNext ==
  \/ \E a \in Rectangles : CopyCall(a)
  \/ CopyCommand \/ CopyShort \/ CopyReturn

CopySpec == CopyInit /\ [][CopyNext]_dlVars

-----------------------------------------------------------------------------
\* The reference: every cell of the target has what its source cell held
\* before the copy began, all others are as they were.
Moved(a, f) ==
  [cell \in Cells |-> IF InTarget(a, cell) THEN f[Source(a, cell)] ELSE f[cell]]

\* When dl_copy returns true the planes that the depth uses hold the moved
\* rectangle, although source and target may overlap and every command reads
\* what the ones before it wrote: docs/api.md:203 "Overlap is handled
\* automatically".
CopyExact ==
  copying /\ i = args.h =>
    /\ fb["base16"] = Moved(args, before["base16"])
    /\ fb["base8"] = IF depth24 THEN Moved(args, before["base8"])
                                ELSE before["base8"]

=============================================================================
