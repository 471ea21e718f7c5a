------------------------------ MODULE DispDraw -------------------------------
(***************************************************************************)
(* Modes, depth, the shadow buffer and drawing (usb_disp.cpp) on a DL-1xx  *)
(* display.  The shadow is a copy of the screen: an update is compared     *)
(* with it and only what changes is sent.  It must agree with the screen   *)
(* through updates of both pixel formats, copies, mode and depth changes,  *)
(* re-attached devices, and calls that fail half-way.                      *)
(*                                                                         *)
(* A pixel is a pair: what base16 holds of it (the upper bits) and what    *)
(* base8 holds (the lower bits, 0 when the pixel has 16 bits).  fb is what *)
(* the device shows once it has executed the stream sent so far.  Core 0   *)
(* does all of it, so a call other than a copy is one step.                *)
(***************************************************************************)
EXTENDS DlCopy, FiniteSetsExt

CONSTANTS
  Modes,        \* bound: <<width, height>> of the modes that fit the chip
  AllocFails,   \* usb_disp_hal_fb_alloc may return NULL
  DrawStale     \* bound: the application draws on when a drawing call failed

ASSUME DrawAssumption ==
  /\ Modes \subseteq (1..MaxWidth) \X (1..MaxHeight)
  /\ AllocFails \in BOOLEAN /\ DrawStale \in BOOLEAN
  /\ Values = {0, 1, Noise}

VARIABLES
  attached,                    \* d->prot # NULL
  ready, depth24_want,
  shadow_want, shadow_on,
  shadow,                      \* d->shadow_bytes and the pixels in d->shadow
  drawn,                       \* history: what the application has drawn
  unset,                       \* history: set_mode failed, nobody knows the mode
  stale                        \* history: a drawing call failed over the shadow

coreVars == <<attached, ready, depth24_want, shadow_want, shadow_on, shadow>>
drawVars == <<dlVars, coreVars, drawn, unset, stale>>

Black   == <<0, 0>>

\* Bound: the pixels the application draws.
Inputs(fmt) ==
  IF fmt = "565" THEN {<<0, 0>>, <<1, 0>>} ELSE {<<0, 0>>, <<1, 0>>, <<1, 1>>}
Unknown == <<Noise, Noise>>

Blank    == [c \in Cells |-> Unknown]
NoShadow == [bytes |-> 0, px |-> Blank]

Screen(w, h) == (0..w-1) \X (0..h-1)

\* What the device shows in a cell.
Shown(c) == <<fb["base16"][c], IF depth24 THEN fb["base8"][c] ELSE 0>>

\* row_565_to_888 repeats the upper bits below, row_888_to_565 drops the lower
\* ones: a pixel as the display's depth has it.
Converted(fmt, px) ==
  IF ~depth24 THEN <<px[1], 0>>
  ELSE IF fmt = "565" THEN <<px[1], px[1]>> ELSE px

\* dl_update and dl_update888: a set of cells is drawn in the planes of the
\* depth that `deep' stands for.
Painted(f, deep, cells, px) ==
  [p \in Planes |->
     IF p = "base8" /\ ~deep THEN f[p]
     ELSE [c \in Cells |-> IF c \notin cells THEN f[p][c]
                           ELSE IF p = "base16" THEN px[c][1] ELSE px[c][2]]]

DrawInit ==
  /\ width = 0 /\ height = 0 /\ depth24 = FALSE
  /\ fb = Noisy
  /\ copying = FALSE /\ args = NoArgs
  /\ plane = "base16" /\ i = 0 /\ k = 0 /\ before = Noisy
  /\ attached = FALSE /\ ready = FALSE
  /\ depth24_want \in BOOLEAN /\ shadow_want \in BOOLEAN
  /\ shadow_on = FALSE /\ shadow = NoShadow
  /\ drawn = Blank /\ unset = FALSE /\ stale = FALSE

-----------------------------------------------------------------------------
(* The shadow buffer.                                                      *)

need(w, h, deep) == w * h * (IF deep THEN 3 ELSE 2)

AllBlack(cells) == [c \in Cells |-> IF c \in cells THEN Black ELSE Unknown]

\* Mutation: a buffer that has the right size is used without painting.
shadow_setup_keeps_buffer(w, h, deep, want, f) ==
  LET bytes == need(w, h, deep)
  IN  IF want /\ bytes # 0 /\ shadow.bytes = bytes
        THEN /\ shadow' = shadow /\ shadow_on' = TRUE
             /\ fb' = f /\ drawn' = Blank
        ELSE /\ shadow' = IF want /\ bytes # 0
                            THEN [bytes |-> bytes, px |-> AllBlack(Screen(w, h))]
                            ELSE NoShadow
             /\ shadow_on' = (want /\ bytes # 0)
             /\ fb' = IF shadow_on' THEN Painted(f, deep, Screen(w, h), AllBlack(Screen(w, h)))
                                    ELSE f
             /\ drawn' = Blank

\* shadow_setup in a mode w x h whose frame buffer is f: free what is not
\* wanted or has another size, allocate, paint the screen black (shadow_sync).
\* The painting or its flush may fail after some rows.  While shadow_on is FALSE nobody
\* reads the buffer and its content is not told apart.
shadow_setup(w, h, deep, want, f) ==
  LET bytes == need(w, h, deep)
      black(rows) == Painted(f, deep, Screen(w, rows), AllBlack(Screen(w, h)))
  IN  \/ /\ ~want \/ bytes = 0
         /\ shadow' = NoShadow /\ shadow_on' = FALSE
         /\ fb' = f /\ drawn' = Blank
      \/ /\ want /\ bytes # 0
         /\ AllocFails /\ shadow.bytes # bytes
         /\ shadow' = NoShadow /\ shadow_on' = FALSE
         /\ fb' = f /\ drawn' = Blank
      \/ /\ want /\ bytes # 0
         /\ shadow' = [bytes |-> bytes, px |-> AllBlack(Screen(w, h))]
         /\ shadow_on' = TRUE
         /\ fb' = black(h) /\ drawn' = AllBlack(Screen(w, h))
      \/ /\ want /\ bytes # 0 /\ WritesFail
         /\ shadow' = [bytes |-> bytes, px |-> Blank] /\ shadow_on' = FALSE
         /\ \E rows \in 0..h : fb' = black(rows)
         /\ drawn' = Blank

\* usb_disp_set_shadow.
SetShadow(on) ==
  /\ ~copying
  /\ shadow_want' = on
  /\ IF ready /\ width # 0
       THEN /\ shadow_setup(width, height, depth24, on, fb)
            /\ stale' = FALSE
       ELSE UNCHANGED <<shadow, shadow_on, fb, drawn, stale>>
  /\ UNCHANGED <<modeVars, copyVars, attached, ready, depth24_want, unset>>

-----------------------------------------------------------------------------
(* Modes and depth.                                                        *)

\* usb_disp_set_mode_ex.  depth24 changes before the protocol has accepted the
\* mode.  What the frame buffer shows in a new mode is not known.  Called by
\* usb_disp_poll it also makes the display ready, when it fails only after the
\* attempts have taken too long.
set_mode_ex(w, h, deep) ==
  /\ depth24' = deep /\ ready' \in {ready, TRUE}
  /\ \/ /\ width' = w /\ height' = h
        /\ shadow_setup(w, h, deep, shadow_want, Noisy)
        /\ unset' = FALSE /\ stale' = FALSE
     \/ /\ WritesFail
        /\ unset' = TRUE
        /\ fb' = Noisy /\ drawn' = Blank
        /\ UNCHANGED <<width, height, shadow, shadow_on, stale>>

\* usb_disp_set_mode, by usb_disp_poll or by the application.
SetMode(w, h) ==
  /\ ~copying /\ attached
  /\ set_mode_ex(w, h, depth24_want)
  /\ UNCHANGED <<copyVars, attached, depth24_want, shadow_want>>

\* usb_disp_set_depth: the same mode again, in the other depth.
SetDepth(deep) ==
  /\ ~copying
  /\ depth24_want' = deep
  /\ IF ready /\ width # 0
       THEN set_mode_ex(width, height, deep)
       ELSE UNCHANGED <<modeVars, fb, ready, shadow, shadow_on, drawn, unset,
                        stale>>
  /\ UNCHANGED <<copyVars, attached, shadow_want>>

\* usb_disp_poll attaches the protocol of a new device, which is ready at once
\* when the application sets the mode itself (no_auto_mode).
Attach ==
  /\ ~attached
  /\ attached' = TRUE /\ ready' \in BOOLEAN
  /\ UNCHANGED <<dlVars, depth24_want, shadow_want, shadow_on, shadow,
                 drawn, unset, stale>>

\* reset_device_state: the device is gone.  The shadow's memory stays.
ResetDeviceState ==
  /\ ~copying /\ attached
  /\ attached' = FALSE /\ ready' = FALSE
  /\ width' = 0 /\ height' = 0
  /\ shadow_on' = FALSE /\ shadow' = [shadow EXCEPT !.px = Blank]
  /\ fb' = Noisy
  /\ drawn' = Blank /\ unset' = FALSE /\ stale' = FALSE
  /\ UNCHANGED <<depth24, copyVars, depth24_want, shadow_want>>

-----------------------------------------------------------------------------
(* Drawing.                                                                *)

\* In a mode that the device may not have, drawing is not followed.
CanDraw == ~copying /\ ready /\ width # 0 /\ ~unset /\ (stale => DrawStale)

\* Mutation: the span ends before its last changed pixel.
span_too_short(x, y, w, px) ==
  LET changed == {j \in 0..w-1 : shadow.px[<<x + j, y>>] # px[j]}
  IN  IF ~shadow_on THEN 0..w-1
      ELSE IF changed = {} THEN {} ELSE Min(changed)..(Max(changed) - 1)

\* The part of a row that core_update565_row and core_update888_row send: from
\* the first to the last pixel that differs from the shadow.
span(x, y, w, px) ==
  LET changed == {j \in 0..w-1 : shadow.px[<<x + j, y>>] # px[j]}
  IN  IF ~shadow_on THEN 0..w-1
      ELSE IF changed = {} THEN {} ELSE Min(changed)..Max(changed)

\* The loop over the rows of an update that lies on the screen: each of the h rows
\* gets the pixels line.  `sent' rows are sent before bulk_write is short; the
\* shadow has the row that failed already, the device at most its base16 plane.
update_rows(x, y, w, h, line) ==
  LET spans == [r \in 0..h-1 |-> span(x, y + r, w, line)]
      Rows(rows) == (x..x+w-1) \X {y + r : r \in rows}
      Cut(rows)  == {c \in Rows(rows) : c[1] - x \in spans[c[2] - y]}
      px == [c \in Rows(0..h-1) |-> line[c[1] - x]]
  IN  \E sent \in 0..h :
        /\ sent < h => WritesFail /\ spans[sent] # {}
        /\ LET f == Painted(fb, depth24, Cut(0..sent-1), px)
           IN  \/ fb' = f
               \/ /\ sent < h /\ depth24
                  /\ fb' = Painted(f, FALSE, Cut({sent}), px)
        /\ shadow' =
             IF ~shadow_on THEN shadow
             ELSE [shadow EXCEPT !.px =
                     [c \in Cells |->
                        IF c \in Cut((0..sent) \cap (0..h-1)) THEN px[c] ELSE @[c]]]
        /\ drawn' = [c \in Cells |->
                       IF c \notin Rows(0..h-1) THEN drawn[c]
                       ELSE IF sent = h THEN px[c] ELSE Unknown]
        /\ stale' = (stale \/ (shadow_on /\ sent < h))

\* usb_disp_update_565 and usb_disp_update_888 with stride_px = 0: each of the
\* h0 rows gets the pixels src (those off the screen are never read).
Update(fmt, x, y, w0, h0, src) ==
  /\ CanDraw
  /\ x < width /\ y < height
  /\ LET w == IF x + w0 > width THEN width - x ELSE w0
         h == IF y + h0 > height THEN height - y ELSE h0
     IN  update_rows(x, y, w, h, [j \in 0..w-1 |-> Converted(fmt, src[j])])
  /\ UNCHANGED <<modeVars, copyVars, attached, ready, depth24_want,
                 shadow_want, shadow_on, unset>>

\* usb_disp_copy up to the protocol's copy, and the copy's commands.
CopyBegin(a) ==
  /\ CanDraw
  /\ CopyCall(a)
  /\ UNCHANGED <<coreVars, drawn, unset, stale>>

CopySegment ==
  /\ CopyCommand
  /\ UNCHANGED <<coreVars, drawn, unset, stale>>

\* The protocol's copy returns false: the shadow is left as it is.
CopyFailed ==
  /\ CopyShort
  /\ drawn' = [c \in Cells |-> IF InTarget(args, c) THEN Unknown ELSE drawn[c]]
  /\ stale' = (stale \/ shadow_on)
  /\ UNCHANGED <<coreVars, unset>>

\* The shadow after the same copy: row by row, in the order of the protocol.
shadow_rows(a) ==
  LET moved[r \in 0..a.h] ==
        IF r = 0 THEN shadow.px
        ELSE LET y == IF a.dy > a.sy THEN a.h - r ELSE r - 1
             IN  Moved([a EXCEPT !.sy = @ + y, !.dy = @ + y, !.h = 1], moved[r - 1])
  IN  moved[a.h]

CopyDone ==
  /\ CopyReturn
  /\ shadow' = IF shadow_on THEN [shadow EXCEPT !.px = shadow_rows(args)] ELSE shadow
  /\ drawn' = Moved(args, drawn)
  /\ UNCHANGED <<attached, ready, depth24_want, shadow_want, shadow_on, unset,
                 stale>>

-----------------------------------------------------------------------------
\* Bound: a rectangle that reaches the edge of the screen sticks out by one
\* pixel.
DrawNext ==
  \/ Attach \/ ResetDeviceState
  \/ \E m \in Modes : SetMode(m[1], m[2])
  \/ \E b \in BOOLEAN : SetDepth(b) \/ SetShadow(b)
  \/ \E fmt \in {"565", "888"}, x \in 0..width-1, y \in 0..height-1 :
     \E w \in (1..width-x+1) \ {width-x}, h \in (1..height-y+1) \ {height-y} :
     \E src \in [0..Min({w, width - x})-1 -> Inputs(fmt)] : Update(fmt, x, y, w, h, src)
  \/ \E a \in [sx : 0..width-1, sy : 0..height-1, dx : 0..width-1,
                dy : 0..height-1, w : 1..width, h : 1..height] : CopyBegin(a)
  \/ CopySegment \/ CopyFailed \/ CopyDone

DrawSpec == DrawInit /\ [][DrawNext]_drawVars

-----------------------------------------------------------------------------
DrawTypeOK ==
  /\ width \in 0..MaxWidth /\ height \in 0..MaxHeight /\ depth24 \in BOOLEAN
  /\ fb \in [Planes -> [Cells -> Values]]
  /\ copying \in BOOLEAN /\ plane \in Planes
  /\ args \in Rectangles /\ i \in 0..args.h
  /\ copying => k \in 0..nseg(args)-1
  /\ attached \in BOOLEAN /\ ready \in BOOLEAN /\ depth24_want \in BOOLEAN
  /\ shadow_want \in BOOLEAN /\ shadow_on \in BOOLEAN
  /\ shadow.bytes \in Nat /\ shadow.px \in [Cells -> Values \X Values]
  /\ drawn \in [Cells -> Values \X Values]
  /\ unset \in BOOLEAN /\ stale \in BOOLEAN

\* While it is on, the shadow holds the screen, pixel by pixel in the current
\* depth, unless a call has failed: after every update of either format, every
\* copy (whose order of rows must be the protocol's), every mode and depth
\* change and every new device, also when the buffer is kept because it has
\* the same size.
ShadowAgrees ==
  shadow_on /\ ~unset /\ ~stale /\ ~copying =>
    \A c \in Screen(width, height) : shadow.px[c] = Shown(c)

\* The screen shows what the application has drawn with calls that returned
\* true, although most of it is never sent.
DrawnShown ==
  ready /\ width # 0 /\ ~unset /\ ~stale /\ ~copying =>
    \A c \in Screen(width, height) : drawn[c] \in {Unknown, Shown(c)}

\* The same when a call has failed before: docs/api.md:278 says that an update
\* is compared "against the previous screen contents", so that drawing again
\* what failed shows it.
RedrawnShown ==
  ready /\ width # 0 /\ ~unset /\ ~copying =>
    \A c \in Screen(width, height) : drawn[c] \in {Unknown, Shown(c)}

\* The shadow has the size of the screen: docs/api.md:268 "allocated at 3
\* B/px" in 24 bits.  set_depth and set_mode may fail with the depth changed.
ShadowFits == shadow_on => shadow.bytes = need(width, height, depth24)

=============================================================================
