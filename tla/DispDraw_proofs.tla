--------------------------- MODULE DispDraw_proofs ----------------------------
(***************************************************************************)
(* Theorems about modes, the shadow buffer and drawing of DispDraw: for    *)
(* every size of the screen and every set of modes.                        *)
(***************************************************************************)
EXTENDS DispDraw, DlCopy_proofs, WellFoundedInduction

-----------------------------------------------------------------------------
(* Least and largest members of sets of numbers.                           *)

\* A set of natural numbers that is not empty has a least member; what holds of
\* 0 and is handed on from a number to the next is proved with it.
LEMMA LeastMember ==
  ASSUME NEW S \in SUBSET Nat, S # {}
  PROVE  \E x \in S : \A y \in S : x <= y
<1> DEFINE R == {ss \in Nat \X Nat : ss[1] < ss[2]}
<1>1. IsWellFoundedOn(R, Nat)
  BY NatLessThanWellFounded, Zenon DEF OpToRel
<1>2. \A x, y \in Nat : <<y, x>> \notin R => x <= y
  OBVIOUS
<1> HIDE DEF R
<1>3. PICK x \in S : \A y \in S : ~(<<y, x>> \in R)
  BY <1>1, WFMin, Zenon
<1>4. \A y \in S : x <= y
  <2>1. x \in Nat /\ \A y \in S : y \in Nat
    OBVIOUS
  <2> QED
    BY <1>2, <1>3, <2>1, Zenon
<1> QED
  BY <1>4, Zenon

\* Min is the least member.
LEMMA MinIs ==
  ASSUME NEW S \in SUBSET Nat, S # {}
  PROVE  Min(S) \in S /\ \A y \in S : Min(S) <= y
  BY LeastMember, Zenon DEF Min

\* Max is the largest one, of a set with a bound.
LEMMA MaxIs ==
  ASSUME NEW m \in Nat, NEW S \in SUBSET (0..m), S # {}
  PROVE  Max(S) \in S /\ \A y \in S : y <= Max(S)
<1> DEFINE T == {m - y : y \in S}
<1>1. T \in SUBSET Nat /\ T # {}
  <2>1. \A y \in 0..m : m - y \in Nat
    OBVIOUS
  <2> QED
    BY <2>1, Zenon
<1>2. PICK t \in T : \A u \in T : t <= u
  <2> HIDE DEF T
  <2> QED
    BY <1>1, LeastMember, Zenon
<1>3. PICK x \in S : t = m - x
  OBVIOUS
<1>4. \A y \in S : x >= y
  <2> TAKE y \in S
  <2>1. m - x <= m - y
    BY <1>2, <1>3
  <2> QED
    BY <2>1
<1>5. Max(S) \in S /\ \A y \in S : Max(S) >= y
  BY <1>4, Zenon DEF Max
<1> QED
  BY <1>5

-----------------------------------------------------------------------------
(* What an update sends.                                                   *)

\* Outside the span a row already has the pixels it gets.
LEMMA SpanIs ==
  ASSUME NEW x, NEW y, NEW w \in Nat, NEW px
  PROVE  /\ span(x, y, w, px) \subseteq 0..(w - 1)
         /\ shadow_on => \A j \in 0..(w - 1) :
              j \notin span(x, y, w, px) => shadow.px[<<x + j, y>>] = px[j]
<1> DEFINE changed == {j \in 0..(w - 1) : shadow.px[<<x + j, y>>] # px[j]}
<1>1. span(x, y, w, px) = IF ~shadow_on THEN 0..(w - 1)
                          ELSE IF changed = {} THEN {} ELSE Min(changed)..Max(changed)
  BY Zenon DEF span
<1>2. CASE ~shadow_on
  BY <1>1, <1>2, Zenon
<1>3. CASE shadow_on /\ changed = {}
  <2>1. span(x, y, w, px) = {}
    BY <1>1, <1>3, Zenon
  <2>2. \A j \in 0..(w - 1) : shadow.px[<<x + j, y>>] = px[j]
    BY <1>3
  <2> QED
    BY <2>1, <2>2
<1>4. CASE shadow_on /\ changed # {}
  <2>0. span(x, y, w, px) = Min(changed)..Max(changed)
    BY <1>1, <1>4, Zenon
  <2>1. changed \subseteq 0..w /\ changed \subseteq 0..(w - 1) /\ changed \subseteq Nat
    OBVIOUS
  <2>2. \A j \in 0..(w - 1) : shadow.px[<<x + j, y>>] # px[j] => j \in changed
    OBVIOUS
  <2> HIDE DEF changed
  <2>3. /\ Min(changed) \in changed /\ Max(changed) \in changed
        /\ \A j \in changed : Min(changed) <= j /\ j <= Max(changed)
    <3>1. Min(changed) \in changed /\ \A j \in changed : Min(changed) <= j
      BY <1>4, <2>1, MinIs, Zenon
    <3>2. Max(changed) \in changed /\ \A j \in changed : j <= Max(changed)
      BY <1>4, <2>1, MaxIs, Zenon
    <3> QED
      BY <3>1, <3>2
  <2>4. Min(changed) \in 0..(w - 1) /\ Max(changed) \in 0..(w - 1)
    BY <2>1, <2>3
  <2>5. changed \subseteq Min(changed)..Max(changed)
    BY <2>1, <2>3, <2>4
  <2>6. Min(changed)..Max(changed) \subseteq 0..(w - 1)
    BY <2>4
  <2> QED
    BY <2>0, <2>2, <2>5, <2>6, Zenon
<1> QED
  BY <1>2, <1>3, <1>4

-----------------------------------------------------------------------------
(* The shadow's copy, row by row.                                          *)

\* The arguments of the move of step r, and the picture with r rows moved.
RowMove(a, r) ==
  LET y == IF a.dy > a.sy THEN a.h - r ELSE r - 1
  IN  [a EXCEPT !.sy = @ + y, !.dy = @ + y, !.h = 1]

RowsMoved(a, f, r) ==
  [c \in Cells |-> IF InTarget(a, c) /\ RowDone(a, r, c[2] - a.dy)
                   THEN f[Source(a, c)] ELSE f[c]]

\* A row of the copy reads what no row before it has written.
LEMMA RowSource ==
  ASSUME NEW a, Fits(a), NEW r \in 1..a.h, NEW c \in Cells, InTarget(RowMove(a, r), c)
  PROVE  /\ InTarget(a, c) /\ RowDone(a, r, c[2] - a.dy) /\ Source(a, c) \in Cells
         /\ Source(RowMove(a, r), c) = Source(a, c)
         /\ InTarget(a, Source(a, c)) => ~RowDone(a, r - 1, Source(a, c)[2] - a.dy)
<1>1. /\ a.sx \in Nat /\ a.sy \in Nat /\ a.dx \in Nat /\ a.dy \in Nat /\ a.w \in Nat
      /\ a.h \in Nat /\ a.sx + a.w <= MaxWidth /\ a.sy + a.h <= MaxHeight
  BY DEF Fits, Rectangles
<1>2. c[1] \in Int /\ c[2] \in Int
  BY CopyAssumption DEF Cells
<1> DEFINE y == IF a.dy > a.sy THEN a.h - r ELSE r - 1
<1>3. y \in 0..(a.h - 1)
  BY <1>1
<1>4. /\ RowMove(a, r).sx = a.sx /\ RowMove(a, r).sy = a.sy + y
      /\ RowMove(a, r).dx = a.dx /\ RowMove(a, r).dy = a.dy + y
      /\ RowMove(a, r).w = a.w /\ RowMove(a, r).h = 1
  <2>1. a = [sx |-> a.sx, sy |-> a.sy, dx |-> a.dx, dy |-> a.dy, w |-> a.w, h |-> a.h]
    BY DEF Fits, Rectangles
  <2> HIDE DEF y
  <2>2. RowMove(a, r) = [a EXCEPT !.sy = @ + y, !.dy = @ + y, !.h = 1]
    BY Zenon DEF RowMove, y
  <2> QED
    BY <2>1, <2>2
<1>5. /\ c[1] \in a.dx..(a.dx + a.w - 1) /\ c[2] - a.dy = y
  <2> HIDE DEF y
  <2> QED
    BY <1>1, <1>2, <1>3, <1>4 DEF InTarget
<1>6. InTarget(a, c)
  BY <1>1, <1>2, <1>3, <1>5 DEF InTarget
<1>7. RowDone(a, r, c[2] - a.dy)
  BY <1>1, <1>2, <1>5 DEF RowDone, bottom_up
<1>8. Source(a, c)[1] = c[1] - a.dx + a.sx /\ Source(a, c)[2] = c[2] - a.dy + a.sy
  BY DEF Source
<1>9. Source(a, c) \in Cells
  BY <1>1, <1>2, <1>3, <1>5, CopyAssumption DEF Source, Cells
<1>10. Source(RowMove(a, r), c) = Source(a, c)
  <2> HIDE DEF y
  <2> QED
    BY <1>1, <1>2, <1>3, <1>4 DEF Source
<1>11. ~RowDone(a, r - 1, Source(a, c)[2] - a.dy)
  <2>1. Source(a, c)[2] - a.dy = y + a.sy - a.dy
    <3> HIDE DEF y
    <3> QED
      BY <1>1, <1>2, <1>3, <1>5, <1>8
  <2> QED
    BY <1>1, <1>3, <2>1 DEF RowDone, bottom_up
<1> QED
  BY <1>6, <1>7, <1>9, <1>10, <1>11

\* A cell that step r does not move is done before it or not done after it.
LEMMA RowRest ==
  ASSUME NEW a, Fits(a), NEW r \in 1..a.h, NEW c \in Cells, ~InTarget(RowMove(a, r), c),
         InTarget(a, c)
  PROVE  RowDone(a, r, c[2] - a.dy) <=> RowDone(a, r - 1, c[2] - a.dy)
<1>1. /\ a.sx \in Nat /\ a.sy \in Nat /\ a.dx \in Nat /\ a.dy \in Nat /\ a.w \in Nat
      /\ a.h \in Nat
  BY DEF Fits, Rectangles
<1>2. c[1] \in Int /\ c[2] \in Int
  BY CopyAssumption DEF Cells
<1> DEFINE y == IF a.dy > a.sy THEN a.h - r ELSE r - 1
<1>4. /\ RowMove(a, r).dx = a.dx /\ RowMove(a, r).dy = a.dy + y
      /\ RowMove(a, r).w = a.w /\ RowMove(a, r).h = 1
  <2>1. a = [sx |-> a.sx, sy |-> a.sy, dx |-> a.dx, dy |-> a.dy, w |-> a.w, h |-> a.h]
    BY DEF Fits, Rectangles
  <2> HIDE DEF y
  <2>2. RowMove(a, r) = [a EXCEPT !.sy = @ + y, !.dy = @ + y, !.h = 1]
    BY Zenon DEF RowMove, y
  <2> QED
    BY <2>1, <2>2
<1>5. y \in 0..(a.h - 1)
  BY <1>1
<1>6. c[2] - a.dy # y
  <2> HIDE DEF y
  <2> QED
    BY <1>1, <1>2, <1>4, <1>5 DEF InTarget
<1> QED
  BY <1>1, <1>2, <1>6 DEF RowDone, bottom_up

\* One step of the copy.
LEMMA RowStep ==
  ASSUME NEW a, Fits(a), NEW f, NEW r \in 1..a.h
  PROVE  RowsMoved(a, f, r) = Moved(RowMove(a, r), RowsMoved(a, f, r - 1))
<1> DEFINE g == RowsMoved(a, f, r - 1)
<1>1. \A c \in Cells : g[c] = IF InTarget(a, c) /\ RowDone(a, r - 1, c[2] - a.dy)
                              THEN f[Source(a, c)] ELSE f[c]
  BY DEF RowsMoved
<1> HIDE DEF g
<1>2. ASSUME NEW c \in Cells, InTarget(RowMove(a, r), c)
      PROVE  /\ InTarget(a, c) /\ RowDone(a, r, c[2] - a.dy)
             /\ g[Source(RowMove(a, r), c)] = f[Source(a, c)]
  <2>1. /\ InTarget(a, c) /\ RowDone(a, r, c[2] - a.dy) /\ Source(a, c) \in Cells
        /\ Source(RowMove(a, r), c) = Source(a, c)
        /\ InTarget(a, Source(a, c)) => ~RowDone(a, r - 1, Source(a, c)[2] - a.dy)
    BY <1>2, RowSource, Zenon
  <2>2. g[Source(a, c)] = f[Source(a, c)]
    BY <1>1, <2>1, Zenon
  <2> QED
    BY <2>1, <2>2, Zenon
<1>3. ASSUME NEW c \in Cells, ~InTarget(RowMove(a, r), c)
      PROVE  g[c] = IF InTarget(a, c) /\ RowDone(a, r, c[2] - a.dy)
                    THEN f[Source(a, c)] ELSE f[c]
  <2>1. CASE InTarget(a, c)
    BY <1>1, <1>3, <2>1, RowRest, Zenon
  <2>2. CASE ~InTarget(a, c)
    BY <1>1, <2>2, Zenon
  <2> QED
    BY <2>1, <2>2, Zenon
<1>4. \A c \in Cells :
        (IF InTarget(a, c) /\ RowDone(a, r, c[2] - a.dy) THEN f[Source(a, c)] ELSE f[c])
        = IF InTarget(RowMove(a, r), c) THEN g[Source(RowMove(a, r), c)] ELSE g[c]
  BY <1>2, <1>3, Zenon
<1>5. RowsMoved(a, f, r) = Moved(RowMove(a, r), g)
  BY <1>4, Zenon DEF RowsMoved, Moved
<1> QED
  BY <1>5, Zenon DEF g

\* Before the first step nothing is moved, after the last one everything is.
LEMMA RowEnds ==
  ASSUME NEW a, Fits(a), NEW f, f = [c \in Cells |-> f[c]]
  PROVE  RowsMoved(a, f, 0) = f /\ RowsMoved(a, f, a.h) = Moved(a, f)
<1>1. a.dy \in Nat /\ a.h \in Nat
  BY DEF Fits, Rectangles
<1>2. ASSUME NEW c \in Cells, InTarget(a, c)
      PROVE  ~RowDone(a, 0, c[2] - a.dy) /\ RowDone(a, a.h, c[2] - a.dy)
  <2>1. c[2] \in Int
    BY CopyAssumption DEF Cells
  <2> QED
    BY <1>1, <1>2, <2>1 DEF RowDone, InTarget
<1>3. RowsMoved(a, f, 0) = f
  <2>1. \A c \in Cells : (IF InTarget(a, c) /\ RowDone(a, 0, c[2] - a.dy)
                          THEN f[Source(a, c)] ELSE f[c]) = f[c]
    BY <1>2, Zenon
  <2>2. RowsMoved(a, f, 0) = [c \in Cells |-> f[c]]
    BY <2>1, Zenon DEF RowsMoved
  <2> QED
    BY <2>2, Zenon
<1>4. RowsMoved(a, f, a.h) = Moved(a, f)
  <2>1. \A c \in Cells : (IF InTarget(a, c) /\ RowDone(a, a.h, c[2] - a.dy)
                          THEN f[Source(a, c)] ELSE f[c])
                         = IF InTarget(a, c) THEN f[Source(a, c)] ELSE f[c]
    BY <1>2, Zenon
  <2> QED
    BY <2>1, Zenon DEF RowsMoved, Moved
<1> QED
  BY <1>3, <1>4

\* usb_disp_copy moves the shadow as dl_copy moves the screen: whatever the rows'
\* overlap, every pixel gets what its source held before.
LEMMA ShadowMoved ==
  ASSUME NEW a, Fits(a), shadow.px = [c \in Cells |-> shadow.px[c]]
  PROVE  shadow_rows(a) = Moved(a, shadow.px)
<1> DEFINE S == 0..a.h
           F == [r \in S |-> RowsMoved(a, shadow.px, r)]
           moved == CHOOSE m : m = [r \in S |-> IF r = 0 THEN shadow.px
                                                ELSE Moved(RowMove(a, r), m[r - 1])]
<1>1. shadow_rows(a) = moved[a.h]
  BY Zenon DEF shadow_rows, RowMove
<1>2. a.h \in Nat
  BY DEF Fits, Rectangles
<1>3. F = [r \in S |-> IF r = 0 THEN shadow.px ELSE Moved(RowMove(a, r), F[r - 1])]
  <2>1. ASSUME NEW r \in S
        PROVE  RowsMoved(a, shadow.px, r)
               = IF r = 0 THEN shadow.px ELSE Moved(RowMove(a, r), F[r - 1])
    <3>1. CASE r = 0
      BY <3>1, RowEnds, Zenon
    <3>2. CASE r # 0
      <4>1. r \in 1..a.h /\ r - 1 \in S
        BY <1>2, <3>2
      <4>2. F[r - 1] = RowsMoved(a, shadow.px, r - 1)
        BY <4>1, Zenon
      <4> QED
        BY <3>2, <4>1, <4>2, RowStep, Zenon
    <3> QED
      BY <3>1, <3>2
  <2> QED
    BY <2>1, Zenon
<1> HIDE DEF F
<1>4. moved = [r \in S |-> IF r = 0 THEN shadow.px ELSE Moved(RowMove(a, r), moved[r - 1])]
  BY <1>3, Zenon
<1> HIDE DEF moved
<1>5. ASSUME NEW x \in S, moved[x] # F[x]
      PROVE  FALSE
  <2> DEFINE D == {r \in S : moved[r] # F[r]}
  <2>1. D \subseteq Nat /\ D # {}
    BY <1>2, <1>5
  <2>2. PICK r \in D : \A y \in D : r <= y
    <3> HIDE DEF D
    <3> QED
      BY <2>1, LeastMember, Zenon
  <2>3. r \in S /\ moved[r] # F[r]
    OBVIOUS
  <2>4. /\ moved[r] = IF r = 0 THEN shadow.px ELSE Moved(RowMove(a, r), moved[r - 1])
        /\ F[r] = IF r = 0 THEN shadow.px ELSE Moved(RowMove(a, r), F[r - 1])
    <3> HIDE DEF D
    <3>1. \A q \in S : moved[q] = IF q = 0 THEN shadow.px
                                  ELSE Moved(RowMove(a, q), moved[q - 1])
      BY <1>4, Zenon
    <3>2. \A q \in S : F[q] = IF q = 0 THEN shadow.px ELSE Moved(RowMove(a, q), F[q - 1])
      BY <1>3, Zenon
    <3> QED
      BY <2>3, <3>1, <3>2, Zenon
  <2>5. r # 0 /\ moved[r - 1] # F[r - 1]
    BY <2>3, <2>4, Zenon
  <2>6. r - 1 \in S /\ ~(r <= r - 1)
    BY <1>2, <2>3, <2>5
  <2> QED
    BY <2>2, <2>5, <2>6, Zenon
<1>6. a.h \in S
  BY <1>2
<1>7. F[a.h] = Moved(a, shadow.px)
  BY <1>6, RowEnds, Zenon DEF F
<1> QED
  BY <1>1, <1>5, <1>6, <1>7, Zenon

-----------------------------------------------------------------------------
(* The inductive invariant.                                                *)

\* What the screen showed when the copy in progress began, or shows: a copy moves
\* the shadow only when it is over.
Held(c) ==
  LET f == IF copying THEN before ELSE fb
  IN  <<f["base16"][c], IF depth24 THEN f["base8"][c] ELSE 0>>

Pixels  == [Cells -> Values \X Values]
Shadows == [bytes : Nat, px : Pixels]
Frames  == [Planes -> [Cells -> Values]]

CoreTypes ==
  /\ attached \in BOOLEAN /\ ready \in BOOLEAN /\ depth24_want \in BOOLEAN
  /\ shadow_want \in BOOLEAN /\ shadow_on \in BOOLEAN
  /\ unset \in BOOLEAN /\ stale \in BOOLEAN
  /\ shadow \in Shadows /\ drawn \in Pixels

\* No copy is under way, or one inside the screen.
CallState ==
  /\ ~copying => args = NoArgs /\ i = 0 /\ plane = "base16"
  /\ copying => /\ args.sx + args.w <= width /\ args.sy + args.h <= height
                /\ args.dx + args.w <= width /\ args.dy + args.h <= height

\* The shadow, what the application has drawn and the screen, while no call has
\* failed.
Agreement ==
  ~unset /\ ~stale =>
    \A c \in Screen(width, height) :
      /\ shadow_on => shadow.px[c] = Held(c)
      /\ drawn[c] \in {Unknown, Held(c)}

DrawInv == CopyInv /\ CoreTypes /\ CallState /\ Agreement

-----------------------------------------------------------------------------
(* Pictures.                                                               *)

\* The values a pixel may have.
LEMMA ValuesAre == 0 \in Values /\ 1 \in Values /\ Noise \in Values
  BY DrawAssumption

\* A screen lies in the frame buffer.
LEMMA ScreenCells ==
  ASSUME NEW w \in 0..MaxWidth, NEW h \in 0..MaxHeight
  PROVE  Screen(w, h) \subseteq Cells
<1>1. 0..(w - 1) \subseteq 0..(MaxWidth - 1) /\ 0..(h - 1) \subseteq 0..(MaxHeight - 1)
  BY CopyAssumption
<1> QED
  BY <1>1 DEF Screen, Cells

\* The pictures nothing is known of, and the black one.
LEMMA BlankAre ==
  /\ Blank \in Pixels /\ Noisy \in Frames /\ NoShadow \in Shadows
  /\ \A S : AllBlack(S) \in Pixels /\ \A c \in Cells \cap S : AllBlack(S)[c] = Black
<1>1. Unknown \in Values \X Values /\ Black \in Values \X Values
  BY ValuesAre DEF Unknown, Black
<1>2. Blank \in Pixels /\ Noisy \in Frames
  BY <1>1, ValuesAre DEF Blank, Pixels, Noisy, Frames
<1>3. NoShadow \in Shadows
  BY <1>2 DEF NoShadow, Shadows
<1>4. \A S : AllBlack(S) \in Pixels /\ \A c \in Cells \cap S : AllBlack(S)[c] = Black
  BY <1>1 DEF AllBlack, Pixels
<1> QED
  BY <1>2, <1>3, <1>4

\* dl_update and dl_update888 write the cells drawn in the planes of the depth.
LEMMA PaintedIs ==
  ASSUME NEW f \in Frames, NEW deep \in BOOLEAN, NEW S, NEW px,
         \A c \in Cells \cap S : px[c] \in Values \X Values
  PROVE  /\ Painted(f, deep, S, px) \in Frames
         /\ \A c \in Cells :
              /\ Painted(f, deep, S, px)["base16"][c]
                   = IF c \in S THEN px[c][1] ELSE f["base16"][c]
              /\ Painted(f, deep, S, px)["base8"][c]
                   = IF deep /\ c \in S THEN px[c][2] ELSE f["base8"][c]
<1> DEFINE row16 == [c \in Cells |-> IF c \notin S THEN f["base16"][c] ELSE px[c][1]]
           row8  == IF ~deep THEN f["base8"]
                    ELSE [c \in Cells |-> IF c \notin S THEN f["base8"][c] ELSE px[c][2]]
<1>0. f["base16"] \in [Cells -> Values] /\ f["base8"] \in [Cells -> Values]
  BY DEF Frames, Planes
<1>1. \A c \in Cells \cap S : px[c][1] \in Values /\ px[c][2] \in Values
  OBVIOUS
<1>2. row16 \in [Cells -> Values] /\ row8 \in [Cells -> Values]
  BY <1>0, <1>1
<1>3. /\ \A c \in Cells : row16[c] = IF c \in S THEN px[c][1] ELSE f["base16"][c]
      /\ \A c \in Cells : row8[c] = IF deep /\ c \in S THEN px[c][2] ELSE f["base8"][c]
  OBVIOUS
<1>4. Painted(f, deep, S, px) = [p \in Planes |-> IF p = "base16" THEN row16 ELSE row8]
  BY DEF Painted, Planes
<1> HIDE DEF row16, row8
<1>5. /\ Painted(f, deep, S, px)["base16"] = row16
      /\ Painted(f, deep, S, px)["base8"] = row8
      /\ Painted(f, deep, S, px) \in Frames
  BY <1>2, <1>4 DEF Planes, Frames
<1> QED
  BY <1>3, <1>5

\* shadow_setup leaves the shadow off, or black with a black screen.
LEMMA ShadowSetupIs ==
  ASSUME NEW w \in 0..MaxWidth, NEW h \in 0..MaxHeight, NEW deep \in BOOLEAN,
         NEW want \in BOOLEAN, NEW f \in Frames, shadow_setup(w, h, deep, want, f)
  PROVE  /\ fb' \in Frames /\ shadow' \in Shadows /\ shadow_on' \in BOOLEAN
         /\ drawn' \in Pixels
         /\ \A c \in Screen(w, h) :
              LET px == <<fb'["base16"][c], IF deep THEN fb'["base8"][c] ELSE 0>>
              IN  (shadow_on' => shadow'.px[c] = px) /\ drawn'[c] \in {Unknown, px}
<1> DEFINE full == Screen(w, h)
           black(rows) == Painted(f, deep, Screen(w, rows), AllBlack(full))
           bytes == need(w, h, deep)
<1>1. full \subseteq Cells
  BY ScreenCells
<1>2. bytes \in Nat
  <2>1. w \in Nat /\ h \in Nat
    BY CopyAssumption
  <2>2. w * h \in Nat
    BY <2>1
  <2> QED
    BY <2>2 DEF need
<1>3. \A c \in full : Blank[c] = Unknown
  BY <1>1 DEF Blank
<1>4. /\ \/ shadow' = NoShadow /\ shadow_on' = FALSE /\ fb' = f /\ drawn' = Blank
         \/ /\ shadow' = [bytes |-> bytes, px |-> AllBlack(full)] /\ shadow_on' = TRUE
            /\ fb' = black(h) /\ drawn' = AllBlack(full)
         \/ /\ shadow' = [bytes |-> bytes, px |-> Blank] /\ shadow_on' = FALSE
            /\ drawn' = Blank /\ \E rows \in 0..h : fb' = black(rows)
  BY Zenon DEF shadow_setup
<1>5. \A rows : /\ black(rows) \in Frames
                /\ \A c \in Cells \cap Screen(w, rows) :
                     <<black(rows)["base16"][c], IF deep THEN black(rows)["base8"][c] ELSE 0>>
                       = <<AllBlack(full)[c][1], IF deep THEN AllBlack(full)[c][2] ELSE 0>>
  <2> TAKE rows
  <2>1. \A c \in Cells \cap Screen(w, rows) : AllBlack(full)[c] \in Values \X Values
    BY BlankAre DEF Pixels
  <2>2. /\ black(rows) \in Frames
        /\ \A c \in Cells :
             /\ black(rows)["base16"][c] = IF c \in Screen(w, rows) THEN AllBlack(full)[c][1]
                                           ELSE f["base16"][c]
             /\ black(rows)["base8"][c] = IF deep /\ c \in Screen(w, rows)
                                          THEN AllBlack(full)[c][2] ELSE f["base8"][c]
    <3> HIDE DEF full
    <3> QED
      BY <2>1, PaintedIs
  <2> HIDE DEF black
  <2> QED
    BY <2>2
<1> HIDE DEF full, black, bytes
<1>6. CASE shadow' = NoShadow /\ shadow_on' = FALSE /\ fb' = f /\ drawn' = Blank
  BY <1>3, <1>6, BlankAre DEF full
<1>7. CASE /\ shadow' = [bytes |-> bytes, px |-> AllBlack(full)] /\ shadow_on' = TRUE
           /\ fb' = black(h) /\ drawn' = AllBlack(full)
  <2>1. \A c \in full : AllBlack(full)[c] = <<0, 0>>
    BY <1>1, BlankAre DEF Black
  <2>2. \A c \in full : <<fb'["base16"][c], IF deep THEN fb'["base8"][c] ELSE 0>>
                        = AllBlack(full)[c]
    <3> TAKE c \in full
    <3>1. c \in Cells \cap Screen(w, h)
      BY <1>1 DEF full
    <3>2. <<fb'["base16"][c], IF deep THEN fb'["base8"][c] ELSE 0>>
            = <<AllBlack(full)[c][1], IF deep THEN AllBlack(full)[c][2] ELSE 0>>
      BY <1>5, <1>7, <3>1, Zenon
    <3>3. AllBlack(full)[c] = <<0, 0>>
      BY <2>1
    <3> QED
      BY <3>2, <3>3
  <2>3. /\ fb' \in Frames /\ AllBlack(full) \in Pixels
    BY <1>5, <1>7, BlankAre, Zenon
  <2>4. shadow' \in Shadows /\ shadow'.px = AllBlack(full)
    BY <1>2, <1>7, <2>3 DEF Shadows
  <2> QED
    BY <1>7, <2>2, <2>3, <2>4 DEF full
<1>8. CASE /\ shadow' = [bytes |-> bytes, px |-> Blank] /\ shadow_on' = FALSE
           /\ drawn' = Blank /\ \E rows \in 0..h : fb' = black(rows)
  <2>1. fb' \in Frames
    BY <1>5, <1>8, Zenon
  <2>2. shadow' \in Shadows /\ drawn' \in Pixels
    BY <1>2, <1>8, BlankAre DEF Shadows
  <2> QED
    BY <1>3, <1>8, <2>1, <2>2 DEF full
<1> QED
  BY <1>4, <1>6, <1>7, <1>8, Zenon

-----------------------------------------------------------------------------
(* Steps with no copy under way.                                           *)

\* A mode and a frame buffer are all that dl_copy's invariant has to say then.
LEMMA IdleInv ==
  ASSUME ~copying, UNCHANGED copyVars, width' \in 0..MaxWidth, height' \in 0..MaxHeight,
         depth24' \in BOOLEAN, fb' \in Frames, CopyInv, CallState
  PROVE  CopyInv' /\ CallState'
<1>1. ~copying' /\ args' = args /\ i' = i /\ plane' = plane /\ copying' = copying
  BY DEF copyVars
<1>2. copying \in BOOLEAN
  BY DEF CopyInv, CopyTypeOK
<1>3. CopyTypeOK'
  BY <1>1, <1>2 DEF CopyTypeOK, Frames
<1>4. CopyInv'
  BY <1>1, <1>3, Zenon DEF CopyInv
<1>5. CallState'
  BY <1>1, Zenon DEF CallState
<1> QED
  BY <1>4, <1>5

\* The agreement in a mode w x h with a new shadow or none.
LEMMA SetupAgrees ==
  ASSUME ~copying', NEW w, NEW h, NEW deep,
         width' = w, height' = h, depth24' = deep,
         \A c \in Screen(w, h) :
           LET px == <<fb'["base16"][c], IF deep THEN fb'["base8"][c] ELSE 0>>
           IN  (shadow_on' => shadow'.px[c] = px) /\ drawn'[c] \in {Unknown, px}
  PROVE  Agreement'
<1>1. \A c : Held(c)' = <<fb'["base16"][c], IF deep THEN fb'["base8"][c] ELSE 0>>
  BY Zenon DEF Held
<1>2. Screen(width, height)' = Screen(w, h)
  BY Zenon DEF Screen
<1> QED
  BY <1>1, <1>2 DEF Agreement

\* usb_disp_set_shadow.
LEMMA SetShadowKeeps ==
  ASSUME DrawInv, NEW on \in BOOLEAN, SetShadow(on)
  PROVE  DrawInv'
<1>0. /\ CopyInv /\ CoreTypes /\ CallState /\ Agreement /\ CopyTypeOK /\ ~copying
      /\ shadow_want' = on /\ UNCHANGED <<width, height, depth24>> /\ UNCHANGED copyVars
      /\ UNCHANGED <<attached, ready, depth24_want, unset>>
      /\ ~copying' /\ before' = before /\ fb \in Frames
      /\ width \in 0..MaxWidth /\ height \in 0..MaxHeight /\ depth24 \in BOOLEAN
  BY Zenon DEF DrawInv, CopyInv, CopyTypeOK, SetShadow, modeVars, copyVars, Frames
<1>1. CASE ready /\ width # 0
  <2>1. shadow_setup(width, height, depth24, on, fb) /\ stale' = FALSE
    BY <1>1, Zenon DEF SetShadow
  <2>2. /\ fb' \in Frames /\ shadow' \in Shadows /\ shadow_on' \in BOOLEAN
        /\ drawn' \in Pixels
        /\ \A c \in Screen(width, height) :
             LET px == <<fb'["base16"][c], IF depth24 THEN fb'["base8"][c] ELSE 0>>
             IN  (shadow_on' => shadow'.px[c] = px) /\ drawn'[c] \in {Unknown, px}
    BY <1>0, <2>1, ShadowSetupIs
  <2>3. CoreTypes'
    <3>1. stale' \in BOOLEAN
      BY <2>1
    <3> QED
      BY <1>0, <2>2, <3>1, Zenon DEF CoreTypes
  <2>4. CopyInv' /\ CallState'
    BY <1>0, <2>2, IdleInv, Zenon
  <2>5. Agreement'
    BY <1>0, <2>2, SetupAgrees
  <2> QED
    BY <2>3, <2>4, <2>5, Zenon DEF DrawInv
<1>2. CASE ~(ready /\ width # 0)
  <2>1. UNCHANGED <<shadow, shadow_on, fb, drawn, stale>>
    BY <1>2, Zenon DEF SetShadow
  <2>2. CoreTypes'
    BY <1>0, <2>1, Zenon DEF CoreTypes
  <2>3. CopyInv' /\ CallState'
    BY <1>0, <2>1, IdleInv, Zenon
  <2>4. Agreement'
    <3>1. copying' = copying
      BY <1>0, Zenon DEF copyVars
    <3> QED
      BY <1>0, <2>1, <3>1, Zenon DEF Agreement, Held, Screen
  <2> QED
    BY <2>2, <2>3, <2>4, Zenon DEF DrawInv
<1> QED
  BY <1>1, <1>2

\* usb_disp_set_mode_ex: a new mode comes with a shadow in order, a mode that
\* failed with nothing to rely on.
LEMMA SetModeExKeeps ==
  ASSUME DrawInv, ~copying, NEW w \in 0..MaxWidth, NEW h \in 0..MaxHeight,
         NEW deep \in BOOLEAN, set_mode_ex(w, h, deep), UNCHANGED copyVars,
         attached' = attached, depth24_want' \in BOOLEAN, shadow_want' = shadow_want
  PROVE  DrawInv'
<1>0. /\ CopyInv /\ CoreTypes /\ CallState /\ CopyTypeOK
      /\ depth24' = deep /\ ready' \in {ready, TRUE}
      /\ width \in 0..MaxWidth /\ height \in 0..MaxHeight
      /\ ~copying' /\ shadow_want \in BOOLEAN
  BY Zenon DEF DrawInv, CopyInv, CopyTypeOK, CoreTypes, set_mode_ex, copyVars
<1>1. ready' \in BOOLEAN
  BY <1>0 DEF CoreTypes
<1>2. CASE /\ width' = w /\ height' = h
           /\ shadow_setup(w, h, deep, shadow_want, Noisy)
           /\ unset' = FALSE /\ stale' = FALSE
  <2>1. /\ fb' \in Frames /\ shadow' \in Shadows /\ shadow_on' \in BOOLEAN
        /\ drawn' \in Pixels
        /\ \A c \in Screen(w, h) :
             LET px == <<fb'["base16"][c], IF deep THEN fb'["base8"][c] ELSE 0>>
             IN  (shadow_on' => shadow'.px[c] = px) /\ drawn'[c] \in {Unknown, px}
    BY <1>0, <1>2, BlankAre, ShadowSetupIs
  <2>2. CoreTypes'
    <3>1. unset' \in BOOLEAN /\ stale' \in BOOLEAN
      BY <1>2
    <3> QED
      BY <1>0, <1>1, <2>1, <3>1, Zenon DEF CoreTypes
  <2>3. CopyInv' /\ CallState'
    BY <1>0, <1>2, <2>1, IdleInv, Zenon
  <2>4. Agreement'
    BY <1>0, <1>2, <2>1, SetupAgrees
  <2> QED
    BY <2>2, <2>3, <2>4, Zenon DEF DrawInv
<1>3. CASE /\ unset' = TRUE /\ fb' = Noisy /\ drawn' = Blank
           /\ UNCHANGED <<width, height, shadow, shadow_on, stale>>
  <2>1. unset' \in BOOLEAN /\ fb' \in Frames /\ drawn' \in Pixels
    BY <1>3, BlankAre
  <2>2. CoreTypes'
    BY <1>0, <1>1, <1>3, <2>1, Zenon DEF CoreTypes
  <2>3. CopyInv' /\ CallState'
    BY <1>0, <1>3, <2>1, IdleInv, Zenon
  <2>4. Agreement'
    BY <1>3, Zenon DEF Agreement
  <2> QED
    BY <2>2, <2>3, <2>4, Zenon DEF DrawInv
<1> QED
  BY <1>2, <1>3, Zenon DEF set_mode_ex

\* usb_disp_set_mode.
LEMMA SetModeKeeps ==
  ASSUME DrawInv, NEW m \in Modes, SetMode(m[1], m[2])
  PROVE  DrawInv'
<1>1. m[1] \in 0..MaxWidth /\ m[2] \in 0..MaxHeight
  BY DrawAssumption, CopyAssumption
<1>2. /\ ~copying /\ set_mode_ex(m[1], m[2], depth24_want) /\ UNCHANGED copyVars
      /\ attached' = attached /\ depth24_want' = depth24_want
      /\ shadow_want' = shadow_want /\ depth24_want \in BOOLEAN
  BY Zenon DEF SetMode, DrawInv, CoreTypes
<1> QED
  BY <1>1, <1>2, SetModeExKeeps, Zenon

\* usb_disp_set_depth.
LEMMA SetDepthKeeps ==
  ASSUME DrawInv, NEW deep \in BOOLEAN, SetDepth(deep)
  PROVE  DrawInv'
<1>0. /\ CopyInv /\ CoreTypes /\ CallState /\ Agreement /\ CopyTypeOK /\ ~copying
      /\ depth24_want' = deep /\ UNCHANGED copyVars
      /\ UNCHANGED <<attached, shadow_want>> /\ fb \in Frames
      /\ width \in 0..MaxWidth /\ height \in 0..MaxHeight /\ depth24 \in BOOLEAN
  BY Zenon DEF DrawInv, CopyInv, CopyTypeOK, SetDepth, Frames
<1>1. CASE ready /\ width # 0
  BY <1>0, <1>1, SetModeExKeeps, Zenon DEF SetDepth
<1>2. CASE ~(ready /\ width # 0)
  <2>1. /\ UNCHANGED <<width, height, depth24>>
        /\ UNCHANGED <<fb, ready, shadow, shadow_on, drawn, unset, stale>>
    BY <1>2, Zenon DEF SetDepth, modeVars
  <2>2. CoreTypes'
    BY <1>0, <2>1, Zenon DEF CoreTypes
  <2>3. CopyInv' /\ CallState'
    BY <1>0, <2>1, IdleInv, Zenon
  <2>4. Agreement'
    <3>1. copying' = copying /\ before' = before
      BY <1>0, Zenon DEF copyVars
    <3> QED
      BY <1>0, <2>1, <3>1, Zenon DEF Agreement, Held, Screen
  <2> QED
    BY <2>2, <2>3, <2>4, Zenon DEF DrawInv
<1> QED
  BY <1>1, <1>2

\* reset_device_state.
LEMMA ResetKeeps ==
  ASSUME DrawInv, ResetDeviceState
  PROVE  DrawInv'
<1>0. /\ CopyInv /\ CoreTypes /\ CallState /\ CopyTypeOK /\ ~copying
      /\ attached' = FALSE /\ ready' = FALSE /\ width' = 0 /\ height' = 0
      /\ shadow_on' = FALSE /\ shadow' = [shadow EXCEPT !.px = Blank]
      /\ fb' = Noisy /\ drawn' = Blank /\ unset' = FALSE /\ stale' = FALSE
      /\ UNCHANGED <<depth24, depth24_want, shadow_want>> /\ UNCHANGED copyVars
      /\ depth24 \in BOOLEAN
  BY Zenon DEF DrawInv, CopyInv, CopyTypeOK, ResetDeviceState
<1>1. /\ attached' \in BOOLEAN /\ ready' \in BOOLEAN /\ shadow_on' \in BOOLEAN
      /\ unset' \in BOOLEAN /\ stale' \in BOOLEAN
      /\ width' \in 0..MaxWidth /\ height' \in 0..MaxHeight
  <2>1. /\ attached' \in BOOLEAN /\ ready' \in BOOLEAN /\ shadow_on' \in BOOLEAN
        /\ unset' \in BOOLEAN /\ stale' \in BOOLEAN
    BY <1>0
  <2>2. width' \in 0..MaxWidth /\ height' \in 0..MaxHeight
    BY <1>0, CopyAssumption
  <2> QED
    BY <2>1, <2>2, Zenon
<1>2. shadow' \in Shadows /\ fb' \in Frames /\ drawn' \in Pixels
  BY <1>0, BlankAre DEF CoreTypes, Shadows
<1>3. CoreTypes'
  BY <1>0, <1>1, <1>2, Zenon DEF CoreTypes
<1>4. CopyInv' /\ CallState'
  BY <1>0, <1>1, <1>2, IdleInv, Zenon
<1>5. Agreement'
  <2>1. Screen(width, height)' = {}
    BY <1>0 DEF Screen
  <2> QED
    BY <2>1 DEF Agreement
<1> QED
  BY <1>3, <1>4, <1>5, Zenon DEF DrawInv

\* A device is attached, or nothing happens.
LEMMA AttachKeeps ==
  ASSUME DrawInv, Attach \/ UNCHANGED drawVars
  PROVE  DrawInv'
<1>0. /\ CopyInv /\ CoreTypes /\ CallState /\ Agreement
      /\ UNCHANGED dlVars
      /\ UNCHANGED <<width, height, depth24, fb, copying, args, plane, i, before>>
      /\ UNCHANGED <<depth24_want, shadow_want, shadow_on, shadow, drawn, unset, stale>>
      /\ attached' \in {attached, TRUE} /\ (ready' = ready \/ ready' \in BOOLEAN)
  BY Zenon DEF DrawInv, Attach, drawVars, coreVars, dlVars, modeVars, copyVars
<1>1. CopyInv'
  BY <1>0, CopyStep, Zenon
<1>2. attached' \in BOOLEAN /\ ready' \in BOOLEAN
  BY <1>0 DEF CoreTypes
<1>3. CoreTypes'
  BY <1>0, <1>2, Zenon DEF CoreTypes
<1>4. CallState'
  BY <1>0, Zenon DEF CallState
<1>5. Agreement'
  BY <1>0, Zenon DEF Agreement, Held, Screen
<1> QED
  BY <1>1, <1>3, <1>4, <1>5, Zenon DEF DrawInv

-----------------------------------------------------------------------------
(* Drawing.                                                                *)

\* A picture that is drawn over.
LEMMA DrawnOver ==
  ASSUME NEW q \in Pixels, NEW S, NEW px, \A c \in Cells \cap S : px[c] \in Values \X Values
  PROVE  [c \in Cells |-> IF c \in S THEN px[c] ELSE q[c]] \in Pixels
<1>1. \A c \in Cells : q[c] \in Values \X Values
  BY DEF Pixels
<1>2. \A c \in Cells : (IF c \in S THEN px[c] ELSE q[c]) \in Values \X Values
  BY <1>1, Zenon
<1> QED
  BY <1>2, Zenon DEF Pixels

\* An update of the cells R with the pixels px: C1 are sent, C2 perhaps in one
\* plane, C3 are noted in the shadow.  When it succeeds, what is not sent is there
\* already.
Redraws(R, C1, C2, C3, px, sent, h) ==
  /\ C1 \subseteq R /\ C2 \subseteq R /\ C3 \subseteq R
  /\ \A c \in R : px[c] \in Values \X Values /\ (~depth24 => px[c][2] = 0)
  /\ sent = h => C3 = C1
  /\ sent = h => \A c \in R : c \notin C1 => shadow_on /\ shadow.px[c] = px[c]
  /\ \/ fb' = Painted(fb, depth24, C1, px)
     \/ sent # h /\ fb' = Painted(Painted(fb, depth24, C1, px), FALSE, C2, px)
  /\ shadow' = IF ~shadow_on THEN shadow
               ELSE [shadow EXCEPT !.px =
                       [c \in Cells |-> IF c \in C3 THEN px[c] ELSE @[c]]]
  /\ drawn' = [c \in Cells |-> IF c \notin R THEN drawn[c]
                               ELSE IF sent = h THEN px[c] ELSE Unknown]
  /\ stale' = (stale \/ (shadow_on /\ sent # h))

\* Such an update leaves the invariant.
LEMMA Redrawn ==
  ASSUME DrawInv, ~copying, UNCHANGED modeVars, UNCHANGED copyVars,
         UNCHANGED <<attached, ready, depth24_want, shadow_want, shadow_on, unset>>,
         NEW R \in SUBSET Cells, NEW C1, NEW C2, NEW C3, NEW px, NEW sent, NEW h,
         Redraws(R, C1, C2, C3, px, sent, h)
  PROVE  DrawInv'
<1>r. /\ C1 \subseteq R /\ C2 \subseteq R /\ C3 \subseteq R
      /\ \A c \in R : px[c] \in Values \X Values /\ (~depth24 => px[c][2] = 0)
      /\ sent = h => C3 = C1
      /\ sent = h => \A c \in R : c \notin C1 => shadow_on /\ shadow.px[c] = px[c]
      /\ \/ fb' = Painted(fb, depth24, C1, px)
         \/ sent # h /\ fb' = Painted(Painted(fb, depth24, C1, px), FALSE, C2, px)
      /\ shadow' = IF ~shadow_on THEN shadow
                   ELSE [shadow EXCEPT !.px =
                           [c \in Cells |-> IF c \in C3 THEN px[c] ELSE @[c]]]
      /\ drawn' = [c \in Cells |-> IF c \notin R THEN drawn[c]
                                   ELSE IF sent = h THEN px[c] ELSE Unknown]
      /\ stale' = (stale \/ (shadow_on /\ sent # h))
  BY Zenon DEF Redraws
<1>0. /\ CopyInv /\ CoreTypes /\ CallState /\ Agreement /\ CopyTypeOK
      /\ fb \in Frames /\ shadow \in Shadows /\ drawn \in Pixels
      /\ depth24 \in BOOLEAN /\ width' = width /\ height' = height /\ depth24' = depth24
      /\ copying' = copying /\ before' = before
      /\ attached' = attached /\ ready' = ready /\ depth24_want' = depth24_want
      /\ shadow_want' = shadow_want /\ shadow_on' = shadow_on /\ unset' = unset
      /\ width \in 0..MaxWidth /\ height \in 0..MaxHeight
  BY Zenon DEF DrawInv, CopyInv, CopyTypeOK, CoreTypes, modeVars, copyVars, Frames
<1> DEFINE f == Painted(fb, depth24, C1, px)
           noted == [c \in Cells |-> IF c \in C3 THEN px[c] ELSE shadow.px[c]]
<1>1. \A c \in R : px[c] \in Values \X Values
  BY <1>r, Zenon
<1>2. /\ f \in Frames
      /\ \A c \in Cells :
           /\ f["base16"][c] = IF c \in C1 THEN px[c][1] ELSE fb["base16"][c]
           /\ f["base8"][c] = IF depth24 /\ c \in C1 THEN px[c][2] ELSE fb["base8"][c]
  <2>1. \A c \in Cells \cap C1 : px[c] \in Values \X Values
    BY <1>1, <1>r
  <2> QED
    BY <1>0, <2>1, PaintedIs
<1> HIDE DEF f
<1>3. /\ fb' \in Frames
      /\ sent = h => fb' = f
      /\ \A c \in Cells : c \notin R => /\ fb'["base16"][c] = fb["base16"][c]
                                        /\ fb'["base8"][c] = fb["base8"][c]
  <2>1. CASE fb' = f
    BY <1>2, <1>r, <2>1
  <2>2. CASE sent # h /\ fb' = Painted(f, FALSE, C2, px)
    <3>1. \A c \in Cells \cap C2 : px[c] \in Values \X Values
      BY <1>1, <1>r
    <3>2. /\ Painted(f, FALSE, C2, px) \in Frames
          /\ \A c \in Cells :
               /\ Painted(f, FALSE, C2, px)["base16"][c]
                    = IF c \in C2 THEN px[c][1] ELSE f["base16"][c]
               /\ Painted(f, FALSE, C2, px)["base8"][c] = f["base8"][c]
      <4>1. \A deep \in BOOLEAN :
              /\ Painted(f, deep, C2, px) \in Frames
              /\ \A c \in Cells :
                   /\ Painted(f, deep, C2, px)["base16"][c]
                        = IF c \in C2 THEN px[c][1] ELSE f["base16"][c]
                   /\ ~deep => Painted(f, deep, C2, px)["base8"][c] = f["base8"][c]
        BY <1>2, <3>1, PaintedIs
      <4>2. FALSE \in BOOLEAN
        OBVIOUS
      <4> QED
        BY <4>1, <4>2, Zenon
    <3> QED
      BY <1>2, <1>r, <2>2, <3>2
  <2> QED
    BY <1>r, <2>1, <2>2, Zenon DEF f
<1>4. CopyInv' /\ CallState'
  BY <1>0, <1>3, IdleInv, Zenon
<1>5. shadow.px \in Pixels /\ noted \in Pixels
  <2>1. shadow.px \in Pixels
    BY <1>0 DEF Shadows
  <2>2. \A c \in Cells \cap C3 : px[c] \in Values \X Values
    BY <1>1, <1>r
  <2> QED
    BY <2>1, <2>2, DrawnOver
<1>6. /\ shadow' \in Shadows
      /\ shadow'.px = IF ~shadow_on THEN shadow.px ELSE noted
  <2>1. CASE ~shadow_on
    BY <1>0, <1>r, <2>1
  <2>2. CASE shadow_on
    <3>1. shadow' = [shadow EXCEPT !.px = noted]
      BY <1>r, <2>2, Zenon
    <3> HIDE DEF noted
    <3> QED
      BY <1>0, <1>5, <2>2, <3>1 DEF Shadows
  <2> QED
    BY <2>1, <2>2
<1>7. \A c \in Cells : noted[c] = IF c \in C3 THEN px[c] ELSE shadow.px[c]
  OBVIOUS
<1>8. \A c \in Cells : drawn'[c] = IF c \notin R THEN drawn[c]
                                   ELSE IF sent = h THEN px[c] ELSE Unknown
  BY <1>r, Zenon
<1>9. drawn' \in Pixels
  <2>1. \A c \in Cells : drawn[c] \in Values \X Values
    BY <1>0 DEF Pixels
  <2>2. Unknown \in Values \X Values
    BY ValuesAre DEF Unknown
  <2>3. \A c \in Cells : (IF c \notin R THEN drawn[c]
                          ELSE IF sent = h THEN px[c] ELSE Unknown) \in Values \X Values
    BY <1>1, <2>1, <2>2, Zenon
  <2> QED
    BY <1>r, <2>3, Zenon DEF Pixels
<1>10. CoreTypes'
  <2>1. stale' \in BOOLEAN
    BY <1>r
  <2> QED
    BY <1>0, <1>6, <1>9, <2>1, Zenon DEF CoreTypes
<1> HIDE DEF noted
<1>11. ASSUME ~unset', ~stale', NEW c \in Screen(width, height)
       PROVE  (shadow_on => shadow'.px[c] = Held(c)') /\ drawn'[c] \in {Unknown, Held(c)'}
  <2>1. /\ c \in Cells
        /\ Held(c) = <<fb["base16"][c], IF depth24 THEN fb["base8"][c] ELSE 0>>
        /\ Held(c)' = <<fb'["base16"][c], IF depth24 THEN fb'["base8"][c] ELSE 0>>
    <3>1. c \in Cells
      BY <1>0, ScreenCells
    <3>2. Held(c) = <<fb["base16"][c], IF depth24 THEN fb["base8"][c] ELSE 0>>
      BY Zenon DEF Held
    <3>3. Held(c)' = <<fb'["base16"][c], IF depth24 THEN fb'["base8"][c] ELSE 0>>
      BY <1>0, Zenon DEF Held
    <3> QED
      BY <3>1, <3>2, <3>3, Zenon
  <2>2. /\ ~unset /\ ~stale /\ (shadow_on => sent = h)
        /\ shadow_on => shadow.px[c] = Held(c)
        /\ drawn[c] \in {Unknown, Held(c)}
    <3>1. ~unset /\ ~stale /\ (shadow_on => sent = h)
      BY <1>0, <1>r, <1>11 DEF CoreTypes
    <3> QED
      BY <1>0, <1>11, <3>1, Zenon DEF Agreement
  <2>3. CASE c \notin R
    <3>1. fb'["base16"][c] = fb["base16"][c] /\ fb'["base8"][c] = fb["base8"][c]
      BY <1>3, <2>1, <2>3
    <3>4. Held(c)' = Held(c)
      BY <2>1, <3>1
    <3>2. shadow'.px[c] = shadow.px[c]
      BY <1>6, <1>7, <1>r, <2>1, <2>3
    <3>3. drawn'[c] = drawn[c]
      BY <1>8, <2>1, <2>3, Zenon
    <3> QED
      BY <2>2, <3>2, <3>3, <3>4
  <2>4. CASE c \in C1 /\ sent = h
    <3>1. px[c] = <<px[c][1], IF depth24 THEN px[c][2] ELSE 0>>
      <4>1. px[c] \in Values \X Values /\ (~depth24 => px[c][2] = 0)
        BY <1>r, <2>4
      <4>2. px[c] = <<px[c][1], px[c][2]>>
        BY <4>1
      <4> QED
        BY <4>1, <4>2
    <3>2. Held(c)' = <<px[c][1], IF depth24 THEN px[c][2] ELSE 0>>
      BY <1>2, <1>3, <2>1, <2>4
    <3>3. shadow_on => shadow'.px[c] = px[c]
      BY <1>6, <1>7, <1>r, <2>1, <2>4
    <3>4. drawn'[c] = px[c]
      <4>1. c \in R
        BY <1>r, <2>4
      <4> QED
        BY <1>8, <2>1, <2>4, <4>1, Zenon
    <3> QED
      BY <3>1, <3>2, <3>3, <3>4
  <2>5. CASE c \in R /\ c \notin C1 /\ sent = h
    <3>1. shadow_on /\ shadow.px[c] = px[c] /\ C3 = C1
      BY <1>r, <2>5, Zenon
    <3>2. Held(c)' = Held(c)
      BY <1>2, <1>3, <2>1, <2>5
    <3>3. shadow'.px[c] = shadow.px[c]
      BY <1>6, <1>7, <2>1, <2>5, <3>1
    <3>4. drawn'[c] = px[c]
      BY <1>8, <2>1, <2>5, Zenon
    <3> QED
      BY <2>2, <3>1, <3>2, <3>3, <3>4
  <2>6. CASE c \in R /\ sent # h
    <3>1. drawn'[c] = Unknown
      BY <1>8, <2>1, <2>6, Zenon
    <3> QED
      BY <2>2, <2>6, <3>1
  <2> QED
    BY <2>3, <2>4, <2>5, <2>6, Zenon
<1>12. Agreement'
  <2>1. Screen(width, height)' = Screen(width, height)
    BY <1>0, Zenon DEF Screen
  <2> QED
    BY <1>0, <1>11, <2>1 DEF Agreement
<1> QED
  BY <1>4, <1>10, <1>12, Zenon DEF DrawInv

\* A pixel as the display's depth has it.
LEMMA ConvertedIs ==
  ASSUME NEW fmt \in {"565", "888"}, NEW px \in Inputs(fmt)
  PROVE  /\ Converted(fmt, px) \in Values \X Values
         /\ ~depth24 => Converted(fmt, px)[2] = 0
<1>1. px \in {<<0, 0>>, <<1, 0>>, <<1, 1>>}
  BY DEF Inputs
<1> QED
  BY <1>1, ValuesAre DEF Converted

\* The rows of an update on the screen.
LEMMA RowsKeep ==
  ASSUME DrawInv, ~copying, UNCHANGED modeVars, UNCHANGED copyVars,
         UNCHANGED <<attached, ready, depth24_want, shadow_want, shadow_on, unset>>,
         NEW x \in Nat, NEW y \in Nat, NEW w \in Nat, NEW h \in Nat,
         x + w <= width, y + h <= height, NEW line,
         \A j \in 0..(w - 1) : line[j] \in Values \X Values /\ (~depth24 => line[j][2] = 0),
         update_rows(x, y, w, h, line)
  PROVE  DrawInv'
<1> DEFINE spans == [r \in 0..(h - 1) |-> span(x, y + r, w, line)]
           Rows(rows) == (x..(x + w - 1)) \X {y + r : r \in rows}
           Cut(rows)  == {c \in Rows(rows) : c[1] - x \in spans[c[2] - y]}
           px == [c \in Rows(0..(h - 1)) |-> line[c[1] - x]]
<1>1. width \in 0..MaxWidth /\ height \in 0..MaxHeight
  BY Zenon DEF DrawInv, CopyInv, CopyTypeOK
<1>3. \A j \in 0..(w - 1) : line[j] \in Values \X Values /\ (~depth24 => line[j][2] = 0)
  OBVIOUS
<1>2. \E sent \in 0..h :
         /\ sent < h => WritesFail /\ spans[sent] # {}
         /\ \/ fb' = Painted(fb, depth24, Cut(0..(sent - 1)), px)
            \/ /\ sent < h /\ depth24
               /\ fb' = Painted(Painted(fb, depth24, Cut(0..(sent - 1)), px), FALSE,
                                Cut({sent}), px)
         /\ shadow' =
              IF ~shadow_on THEN shadow
              ELSE [shadow EXCEPT !.px =
                      [c \in Cells |->
                         IF c \in Cut((0..sent) \cap (0..(h - 1))) THEN px[c] ELSE @[c]]]
         /\ drawn' = [c \in Cells |->
                        IF c \notin Rows(0..(h - 1)) THEN drawn[c]
                        ELSE IF sent = h THEN px[c] ELSE Unknown]
         /\ stale' = (stale \/ (shadow_on /\ sent < h))
  BY Zenon DEF update_rows
<1>4. PICK sent \in 0..h :
        /\ \/ fb' = Painted(fb, depth24, Cut(0..(sent - 1)), px)
           \/ /\ sent < h
              /\ fb' = Painted(Painted(fb, depth24, Cut(0..(sent - 1)), px), FALSE,
                               Cut({sent}), px)
        /\ shadow' =
             IF ~shadow_on THEN shadow
             ELSE [shadow EXCEPT !.px =
                     [c \in Cells |->
                        IF c \in Cut((0..sent) \cap (0..(h - 1))) THEN px[c] ELSE @[c]]]
        /\ drawn' = [c \in Cells |->
                       IF c \notin Rows(0..(h - 1)) THEN drawn[c]
                       ELSE IF sent = h THEN px[c] ELSE Unknown]
        /\ stale' = (stale \/ (shadow_on /\ sent < h))
  <2> HIDE DEF px, Rows, Cut
  <2> QED
    BY <1>2, Zenon
<1>6. \A r \in 0..(h - 1) :
        /\ spans[r] \subseteq 0..(w - 1)
        /\ shadow_on => \A j \in 0..(w - 1) :
             j \notin spans[r] => shadow.px[<<x + j, y + r>>] = line[j]
        /\ ~shadow_on => spans[r] = 0..(w - 1)
  <2>1. \A r \in 0..(h - 1) : spans[r] = span(x, y + r, w, line)
    OBVIOUS
  <2>2. ~shadow_on => \A r : span(x, y + r, w, line) = 0..(w - 1)
    BY Zenon DEF span
  <2> HIDE DEF spans
  <2>3. \A z : /\ span(x, z, w, line) \subseteq 0..(w - 1)
               /\ shadow_on => \A j \in 0..(w - 1) :
                    j \notin span(x, z, w, line) => shadow.px[<<x + j, z>>] = line[j]
    <3> TAKE z
    <3> QED
      BY SpanIs
  <2> QED
    BY <2>1, <2>2, <2>3, Zenon
<1> HIDE DEF spans
<1>7. \A c \in Rows(0..(h - 1)) :
        /\ c \in Cells /\ c[1] - x \in 0..(w - 1) /\ c[2] - y \in 0..(h - 1)
        /\ c = <<x + (c[1] - x), y + (c[2] - y)>>
  <2> SUFFICES ASSUME NEW c \in Rows(0..(h - 1))
               PROVE  /\ c \in Cells /\ c[1] - x \in 0..(w - 1) /\ c[2] - y \in 0..(h - 1)
                      /\ c = <<x + (c[1] - x), y + (c[2] - y)>>
    BY Zenon
  <2>1. /\ c = <<c[1], c[2]>> /\ c[1] \in x..(x + w - 1)
        /\ c[2] \in {y + r : r \in 0..(h - 1)}
    OBVIOUS
  <2>2. PICK r \in 0..(h - 1) : c[2] = y + r
    BY <2>1
  <2> HIDE DEF Rows, Cut, px
  <2>3. c[1] \in 0..(MaxWidth - 1) /\ c[2] \in 0..(MaxHeight - 1)
    <3>1. x + w <= MaxWidth /\ y + h <= MaxHeight /\ MaxWidth \in Nat /\ MaxHeight \in Nat
      BY <1>1, CopyAssumption
    <3>2. c[1] \in 0..(MaxWidth - 1)
      BY <2>1, <3>1
    <3> QED
      BY <2>2, <3>1, <3>2
  <2>4. /\ c[1] - x \in 0..(w - 1) /\ c[2] - y \in 0..(h - 1)
        /\ x + (c[1] - x) = c[1] /\ y + (c[2] - y) = c[2]
    BY <2>1, <2>2
  <2> QED
    BY <2>1, <2>3, <2>4 DEF Cells
<1>8. \A c \in Rows(0..(h - 1)) : px[c] = line[c[1] - x]
  OBVIOUS
<1>9. \A rows : rows \subseteq 0..(h - 1) => Cut(rows) \subseteq Rows(0..(h - 1))
  OBVIOUS
<1>10. \A c \in Rows(0..(h - 1)) :
         c \notin Cut(0..(h - 1)) => shadow_on /\ shadow.px[c] = px[c]
  <2> SUFFICES ASSUME NEW c \in Rows(0..(h - 1)), c \notin Cut(0..(h - 1))
               PROVE  shadow_on /\ shadow.px[c] = px[c]
    BY Zenon
  <2>1. c[1] - x \notin spans[c[2] - y]
    OBVIOUS
  <2> HIDE DEF Cut
  <2>2. /\ c[1] - x \in 0..(w - 1) /\ c[2] - y \in 0..(h - 1)
        /\ c = <<x + (c[1] - x), y + (c[2] - y)>> /\ px[c] = line[c[1] - x]
    BY <1>7, <1>8
  <2> HIDE DEF Rows, px
  <2>3. shadow_on
    BY <1>6, <2>1, <2>2, Zenon
  <2>4. shadow.px[<<x + (c[1] - x), y + (c[2] - y)>>] = line[c[1] - x]
    BY <1>6, <2>1, <2>2, <2>3, Zenon
  <2> QED
    BY <2>2, <2>3, <2>4, Zenon
<1> DEFINE R  == Rows(0..(h - 1))
           C1 == Cut(0..(sent - 1))
           C2 == IF sent < h THEN Cut({sent}) ELSE {}
           C3 == Cut((0..sent) \cap (0..(h - 1)))
<1>11. R \in SUBSET Cells /\ C1 \in SUBSET R /\ C2 \in SUBSET R /\ C3 \in SUBSET R
  <2>1. 0..(sent - 1) \subseteq 0..(h - 1) /\ (0..sent) \cap (0..(h - 1)) \subseteq 0..(h - 1)
    BY <1>1
  <2>2. sent < h => {sent} \subseteq 0..(h - 1)
    BY <1>1
  <2>3. R \in SUBSET Cells
    BY <1>7, Zenon
  <2> HIDE DEF Rows, Cut
  <2> QED
    BY <1>9, <2>1, <2>2, <2>3, Zenon
<1>12. sent = h => C3 = C1 /\ C1 = Cut(0..(h - 1))
  <2> SUFFICES ASSUME sent = h
               PROVE  C3 = C1 /\ C1 = Cut(0..(h - 1))
    BY Zenon
  <2>1. (0..sent) \cap (0..(h - 1)) = 0..(sent - 1)
    BY <1>1
  <2> HIDE DEF Cut
  <2> QED
    BY <2>1
<1>13. \A c \in R : px[c] \in Values \X Values /\ (~depth24 => px[c][2] = 0)
  <2> HIDE DEF Rows, px
  <2> QED
    BY <1>3, <1>7, <1>8, Zenon
<1>14. /\ \/ fb' = Painted(fb, depth24, C1, px)
          \/ sent # h /\ fb' = Painted(Painted(fb, depth24, C1, px), FALSE, C2, px)
       /\ stale' = (stale \/ (shadow_on /\ sent # h))
  <2>1. sent < h <=> sent # h
    BY <1>1
  <2> HIDE DEF Rows, px, Cut
  <2> QED
    BY <1>4, <2>1, Zenon
<1>15. shadow' = IF ~shadow_on THEN shadow
                 ELSE [shadow EXCEPT !.px =
                         [c \in Cells |-> IF c \in C3 THEN px[c] ELSE @[c]]]
  <2> HIDE DEF Rows, px, Cut
  <2> QED
    BY <1>4, Zenon
<1>16. drawn' = [c \in Cells |-> IF c \notin R THEN drawn[c]
                                 ELSE IF sent = h THEN px[c] ELSE Unknown]
  <2> HIDE DEF Rows, px, Cut
  <2> QED
    BY <1>4, Zenon
<1>17. sent = h => \A c \in R : c \notin C1 => shadow_on /\ shadow.px[c] = px[c]
  <2> HIDE DEF Rows, px, Cut
  <2> QED
    BY <1>10, <1>12, Zenon
<1> HIDE DEF Rows, Cut, px, R, C1, C2, C3
<1>18. Redraws(R, C1, C2, C3, px, sent, h)
  BY <1>11, <1>12, <1>13, <1>14, <1>15, <1>16, <1>17, Zenon DEF Redraws
<1> QED
  BY <1>11, <1>18, Redrawn, Zenon

\* usb_disp_update_565 and usb_disp_update_888.
LEMMA UpdateKeeps ==
  ASSUME DrawInv, NEW fmt \in {"565", "888"},
         NEW x \in 0..(width - 1), NEW y \in 0..(height - 1),
         NEW w0 \in (1..(width - x + 1)) \ {width - x},
         NEW h0 \in (1..(height - y + 1)) \ {height - y},
         NEW src \in [0..(Min({w0, width - x}) - 1) -> Inputs(fmt)],
         Update(fmt, x, y, w0, h0, src)
  PROVE  DrawInv'
<1> DEFINE w == IF x + w0 > width THEN width - x ELSE w0
           h == IF y + h0 > height THEN height - y ELSE h0
           line == [j \in 0..(w - 1) |-> Converted(fmt, src[j])]
<1>0. width \in Nat /\ height \in Nat
  <2>1. CopyTypeOK
    BY Zenon DEF DrawInv, CopyInv
  <2> QED
    BY <2>1, CopyAssumption DEF CopyTypeOK
<1>1. /\ x \in Nat /\ y \in Nat /\ x < width /\ y < height
      /\ w \in Nat /\ h \in Nat /\ x + w <= width /\ y + h <= height
      /\ w \in {w0, width - x} /\ w <= w0 /\ w <= width - x
  BY <1>0
<1>2. /\ CanDraw /\ update_rows(x, y, w, h, line)
      /\ UNCHANGED modeVars /\ UNCHANGED copyVars
      /\ UNCHANGED <<attached, ready, depth24_want, shadow_want, shadow_on, unset>>
  BY DEF Update
<1>3. \A j \in 0..(w - 1) : src[j] \in Inputs(fmt)
  <2>1. {w0, width - x} \in SUBSET Nat /\ {w0, width - x} # {}
    BY <1>0
  <2>2. /\ Min({w0, width - x}) \in {w0, width - x}
        /\ \A m \in {w0, width - x} : Min({w0, width - x}) <= m
    BY <2>1, MinIs, Zenon
  <2> HIDE DEF w
  <2>3. Min({w0, width - x}) <= w0 /\ Min({w0, width - x}) <= width - x
    BY <2>2
  <2>4. Min({w0, width - x}) = w
    BY <1>0, <1>1, <2>2, <2>3
  <2>5. src \in [0..(w - 1) -> Inputs(fmt)]
    BY <2>4
  <2> QED
    BY <2>5
<1>4. \A j \in 0..(w - 1) : line[j] \in Values \X Values /\ (~depth24 => line[j][2] = 0)
  <2> TAKE j \in 0..(w - 1)
  <2>1. line[j] = Converted(fmt, src[j]) /\ src[j] \in Inputs(fmt)
    BY <1>3
  <2> HIDE DEF line, w
  <2> QED
    BY <2>1, ConvertedIs, Zenon
<1> HIDE DEF w, h, line
<1> QED
  BY <1>1, <1>2, <1>4, RowsKeep, Zenon DEF CanDraw

-----------------------------------------------------------------------------
(* Copies.                                                                 *)

\* What a copy inside the screen w x h moves comes from the screen.
LEMMA SourceInside ==
  ASSUME NEW a \in Rectangles, NEW w \in Nat, NEW h \in Nat,
         a.sx + a.w <= w, a.sy + a.h <= h, NEW c \in Int \X Int, InTarget(a, c)
  PROVE  Source(a, c) \in Screen(w, h)
<1>1. /\ a.sx \in Nat /\ a.sy \in Nat /\ a.dx \in Nat /\ a.dy \in Nat
      /\ a.w \in Nat /\ a.h \in Nat
  BY DEF Rectangles
<1>2. c[1] \in Int /\ c[2] \in Int
  OBVIOUS
<1> QED
  BY <1>1, <1>2 DEF InTarget, Source, Screen

\* A picture that a copy has moved.
LEMMA MovedIs ==
  ASSUME NEW a, Fits(a), NEW V, NEW f \in [Cells -> V]
  PROVE  /\ Moved(a, f) \in [Cells -> V]
         /\ \A c \in Cells :
              Moved(a, f)[c] = IF InTarget(a, c) THEN f[Source(a, c)] ELSE f[c]
<1>1. \A c \in Cells : c \in Int \X Int
  BY CopyAssumption DEF Cells
<1>2. /\ a \in Rectangles /\ a.sx + a.w <= MaxWidth /\ a.sy + a.h <= MaxHeight
      /\ MaxWidth \in Nat /\ MaxHeight \in Nat
  BY CopyAssumption, Zenon DEF Fits
<1>3. Cells = Screen(MaxWidth, MaxHeight)
  BY Zenon DEF Cells, Screen
<1>4. \A c \in Cells : InTarget(a, c) => Source(a, c) \in Cells
  BY <1>1, <1>2, <1>3, SourceInside, Zenon
<1>5. \A c \in Cells : (IF InTarget(a, c) THEN f[Source(a, c)] ELSE f[c]) \in V
  BY <1>4
<1>6. Moved(a, f) = [c \in Cells |-> IF InTarget(a, c) THEN f[Source(a, c)] ELSE f[c]]
  BY Zenon DEF Moved
<1> QED
  BY <1>5, <1>6, Zenon

\* usb_disp_copy up to the protocol's copy.
LEMMA CopyBeginKeeps ==
  ASSUME DrawInv, NEW a \in Rectangles, CopyBegin(a)
  PROVE  DrawInv'
<1>0. /\ CopyInv /\ CoreTypes /\ CallState /\ Agreement /\ ~copying /\ CopyCall(a)
      /\ UNCHANGED <<attached, ready, depth24_want, shadow_want, shadow_on, shadow>>
      /\ UNCHANGED <<drawn, unset, stale>> /\ UNCHANGED <<width, height, depth24>>
      /\ copying' = TRUE /\ args' = a /\ before' = fb
      /\ a.sx + a.w <= width /\ a.dx + a.w <= width
      /\ a.sy + a.h <= height /\ a.dy + a.h <= height
  BY Zenon DEF DrawInv, CopyBegin, CanDraw, CopyCall, coreVars, modeVars
<1>1. CopyInv'
  BY <1>0, CallInv, Zenon
<1>2. CoreTypes'
  BY <1>0, Zenon DEF CoreTypes
<1>3. CallState'
  BY <1>0, Zenon DEF CallState
<1>4. Agreement'
  <2>1. \A c : Held(c)' = Held(c)
    BY <1>0, Zenon DEF Held
  <2>2. Screen(width, height)' = Screen(width, height)
    BY <1>0, Zenon DEF Screen
  <2> QED
    BY <1>0, <2>1, <2>2, Zenon DEF Agreement
<1> QED
  BY <1>1, <1>2, <1>3, <1>4, Zenon DEF DrawInv

\* A command of the copy.
LEMMA CopySegmentKeeps ==
  ASSUME DrawInv, CopySegment
  PROVE  DrawInv'
<1>0. /\ CopyInv /\ CoreTypes /\ CallState /\ Agreement /\ copying /\ i < args.h
      /\ CopyCommand
      /\ UNCHANGED <<attached, ready, depth24_want, shadow_want, shadow_on, shadow>>
      /\ UNCHANGED <<drawn, unset, stale>> /\ UNCHANGED <<width, height, depth24>>
      /\ UNCHANGED <<copying, args, before>>
  BY Zenon DEF DrawInv, CopySegment, CopyCommand, coreVars, modeVars
<1>1. CopyInv'
  BY <1>0, CommandInv, Zenon DEF Commanded
<1>2. CoreTypes'
  BY <1>0, Zenon DEF CoreTypes
<1>3. CallState'
  BY <1>0, Zenon DEF CallState
<1>4. Agreement'
  <2>1. \A c : Held(c)' = Held(c)
    BY <1>0, Zenon DEF Held
  <2>2. Screen(width, height)' = Screen(width, height)
    BY <1>0, Zenon DEF Screen
  <2> QED
    BY <1>0, <2>1, <2>2, Zenon DEF Agreement
<1> QED
  BY <1>1, <1>2, <1>3, <1>4, Zenon DEF DrawInv

\* The end of a copy, complete or not.
LEMMA CopyEnds ==
  ASSUME DrawInv, copying, CopyEnd, CopyShort \/ CopyReturn
  PROVE  /\ CopyInv' /\ CallState' /\ Fits(args) /\ PartlyMoved
         /\ fb \in Frames /\ before \in Frames /\ shadow \in Shadows /\ drawn \in Pixels
         /\ width \in 0..MaxWidth /\ height \in 0..MaxHeight /\ depth24 \in BOOLEAN
         /\ args.sx + args.w <= width /\ args.sy + args.h <= height
         /\ \A c : Held(c) = <<before["base16"][c],
                               IF depth24 THEN before["base8"][c] ELSE 0>>
         /\ \A c : Held(c)' = <<fb["base16"][c], IF depth24 THEN fb["base8"][c] ELSE 0>>
         /\ Screen(width, height)' = Screen(width, height)
         /\ Screen(width, height) \subseteq Cells
<1>0. /\ CopyInv /\ CoreTypes /\ CallState /\ CopyTypeOK /\ Position /\ PartlyMoved
      /\ before \in Frames /\ ~copying' /\ args' = NoArgs /\ i' = 0 /\ plane' = "base16"
      /\ UNCHANGED <<width, height, depth24, fb>>
  BY Zenon DEF DrawInv, CopyInv, CopyEnd, modeVars, Frames
<1>1. CopyInv'
  <2>1. [CopyNext]_dlVars
    BY Zenon DEF CopyNext
  <2> QED
    BY <1>0, <2>1, CopyStep, Zenon
<1>2. CallState'
  BY <1>0, Zenon DEF CallState
<1>3. /\ fb \in Frames /\ shadow \in Shadows /\ drawn \in Pixels /\ depth24 \in BOOLEAN
      /\ width \in 0..MaxWidth /\ height \in 0..MaxHeight /\ Fits(args)
  BY <1>0, Zenon DEF CopyTypeOK, CoreTypes, Position, Frames
<1>4. args.sx + args.w <= width /\ args.sy + args.h <= height
  BY <1>0, Zenon DEF CallState
<1>5. \A c : Held(c) = <<before["base16"][c], IF depth24 THEN before["base8"][c] ELSE 0>>
  BY Zenon DEF Held
<1>6. \A c : Held(c)' = <<fb["base16"][c], IF depth24 THEN fb["base8"][c] ELSE 0>>
  BY <1>0, Zenon DEF Held
<1>7. Screen(width, height)' = Screen(width, height)
  BY <1>0, Zenon DEF Screen
<1>8. Screen(width, height) \subseteq Cells
  BY <1>3, ScreenCells, Zenon
<1> QED
  BY <1>0, <1>1, <1>2, <1>3, <1>4, <1>5, <1>6, <1>7, <1>8, Zenon

\* The copy was cut short: its target holds nobody knows what.
LEMMA CopyFailedKeeps ==
  ASSUME DrawInv, CopyFailed
  PROVE  DrawInv'
<1>0. /\ CoreTypes /\ Agreement /\ copying /\ CopyEnd /\ CopyShort
      /\ UNCHANGED <<attached, ready, depth24_want, shadow_want, shadow_on, shadow>>
      /\ unset' = unset
      /\ drawn' = [c \in Cells |-> IF InTarget(args, c) THEN Unknown ELSE drawn[c]]
      /\ stale' = (stale \/ shadow_on)
  BY Zenon DEF DrawInv, CopyFailed, CopyShort, coreVars
<1>1. /\ CopyInv' /\ CallState' /\ PartlyMoved /\ drawn \in Pixels
      /\ \A c : Held(c) = <<before["base16"][c], IF depth24 THEN before["base8"][c] ELSE 0>>
      /\ \A c : Held(c)' = <<fb["base16"][c], IF depth24 THEN fb["base8"][c] ELSE 0>>
      /\ Screen(width, height)' = Screen(width, height)
      /\ Screen(width, height) \subseteq Cells
  BY <1>0, CopyEnds, Zenon
<1>2. CoreTypes'
  <2>1. stale' \in BOOLEAN
    BY <1>0
  <2>2. drawn' \in Pixels
    <3>1. \A c \in Cells : drawn[c] \in Values \X Values
      BY <1>1 DEF Pixels
    <3>2. Unknown \in Values \X Values
      BY ValuesAre DEF Unknown
    <3>3. \A c \in Cells : (IF InTarget(args, c) THEN Unknown ELSE drawn[c])
                           \in Values \X Values
      BY <3>1, <3>2, Zenon
    <3> QED
      BY <1>0, <3>3, Zenon DEF Pixels
  <2> QED
    BY <1>0, <2>1, <2>2, Zenon DEF CoreTypes
<1>3. ASSUME ~unset', ~stale', NEW c \in Screen(width, height)
      PROVE  ~shadow_on' /\ drawn'[c] \in {Unknown, Held(c)'}
  <2>1. ~unset /\ ~stale /\ ~shadow_on /\ ~shadow_on'
    BY <1>0, <1>3 DEF CoreTypes
  <2>2. c \in Cells /\ drawn[c] \in {Unknown, Held(c)}
    BY <1>0, <1>1, <1>3, <2>1, Zenon DEF Agreement
  <2>3. CASE InTarget(args, c)
    BY <1>0, <2>1, <2>2, <2>3
  <2>4. CASE ~InTarget(args, c)
    <3>1. \A p \in Planes : fb[p][c] = before[p][c]
      BY <1>1, <2>2, <2>4, Zenon DEF PartlyMoved, Done
    <3>2. fb["base16"][c] = before["base16"][c] /\ fb["base8"][c] = before["base8"][c]
      BY <3>1 DEF Planes
    <3>3. Held(c)' = Held(c)
      BY <1>1, <3>2
    <3>4. drawn'[c] = drawn[c]
      BY <1>0, <2>2, <2>4
    <3> QED
      BY <2>1, <2>2, <3>3, <3>4, Zenon
  <2> QED
    BY <2>3, <2>4
<1>4. Agreement'
  BY <1>1, <1>3, Zenon DEF Agreement
<1> QED
  BY <1>1, <1>2, <1>4, Zenon DEF DrawInv

\* The copy is over, and the shadow moves like the screen.
LEMMA CopyDoneKeeps ==
  ASSUME DrawInv, CopyDone
  PROVE  DrawInv'
<1>0. /\ CopyInv /\ CoreTypes /\ Agreement /\ copying /\ i = args.h /\ CopyEnd
      /\ CopyReturn
      /\ UNCHANGED <<attached, ready, depth24_want, shadow_want, shadow_on>>
      /\ UNCHANGED <<unset, stale>> /\ drawn' = Moved(args, drawn)
      /\ shadow' = IF shadow_on THEN [shadow EXCEPT !.px = shadow_rows(args)] ELSE shadow
  BY Zenon DEF DrawInv, CopyDone, CopyReturn
<1>1. /\ CopyInv' /\ CallState' /\ Fits(args) /\ fb \in Frames /\ before \in Frames
      /\ shadow \in Shadows /\ drawn \in Pixels
      /\ width \in 0..MaxWidth /\ height \in 0..MaxHeight /\ depth24 \in BOOLEAN
      /\ args.sx + args.w <= width /\ args.sy + args.h <= height
      /\ \A c : Held(c) = <<before["base16"][c], IF depth24 THEN before["base8"][c] ELSE 0>>
      /\ \A c : Held(c)' = <<fb["base16"][c], IF depth24 THEN fb["base8"][c] ELSE 0>>
      /\ Screen(width, height)' = Screen(width, height)
      /\ Screen(width, height) \subseteq Cells
  BY <1>0, CopyEnds, Zenon
<1>2. shadow.px \in Pixels /\ shadow_rows(args) = Moved(args, shadow.px)
  <2>1. shadow.px \in Pixels /\ shadow.px = [c \in Cells |-> shadow.px[c]]
    BY <1>1 DEF Shadows, Pixels
  <2> QED
    BY <1>1, <2>1, ShadowMoved, Zenon
<1>3. /\ Moved(args, shadow.px) \in Pixels /\ Moved(args, drawn) \in Pixels
      /\ \A c \in Cells :
           /\ Moved(args, shadow.px)[c]
                = IF InTarget(args, c) THEN shadow.px[Source(args, c)] ELSE shadow.px[c]
           /\ Moved(args, drawn)[c]
                = IF InTarget(args, c) THEN drawn[Source(args, c)] ELSE drawn[c]
  <2>1. \A q \in Pixels :
          /\ Moved(args, q) \in Pixels
          /\ \A c \in Cells :
               Moved(args, q)[c] = IF InTarget(args, c) THEN q[Source(args, c)] ELSE q[c]
    <3> TAKE q \in Pixels
    <3> QED
      BY <1>1, MovedIs DEF Pixels
  <2> QED
    BY <1>1, <1>2, <2>1, Zenon
<1>4. /\ shadow' \in Shadows
      /\ shadow'.px = IF shadow_on THEN Moved(args, shadow.px) ELSE shadow.px
  BY <1>0, <1>1, <1>2, <1>3 DEF Shadows
<1>5. CoreTypes'
  BY <1>0, <1>3, <1>4, Zenon DEF CoreTypes
<1>6. \A c \in Cells :
        Held(c)' = IF InTarget(args, c) THEN Held(Source(args, c)) ELSE Held(c)
  <2>1. /\ fb["base16"] = Moved(args, before["base16"])
        /\ fb["base8"] = IF depth24 THEN Moved(args, before["base8"]) ELSE before["base8"]
    BY <1>0, CopyInvExact, Zenon DEF CopyExact
  <2>2. before["base16"] \in [Cells -> Values] /\ before["base8"] \in [Cells -> Values]
    BY <1>1 DEF Frames, Planes
  <2>3. \A c \in Cells :
          /\ Moved(args, before["base16"])[c]
               = IF InTarget(args, c) THEN before["base16"][Source(args, c)]
                 ELSE before["base16"][c]
          /\ Moved(args, before["base8"])[c]
               = IF InTarget(args, c) THEN before["base8"][Source(args, c)]
                 ELSE before["base8"][c]
    <3>1. \A q \in [Cells -> Values] : \A c \in Cells :
            Moved(args, q)[c] = IF InTarget(args, c) THEN q[Source(args, c)] ELSE q[c]
      <4> TAKE q \in [Cells -> Values]
      <4> QED
        BY <1>1, MovedIs
    <3> QED
      BY <2>2, <3>1, Zenon
  <2> TAKE c \in Cells
  <2>4. fb["base16"][c] = IF InTarget(args, c) THEN before["base16"][Source(args, c)]
                          ELSE before["base16"][c]
    BY <2>1, <2>3, Zenon
  <2>5. depth24 => fb["base8"][c] = IF InTarget(args, c)
                                    THEN before["base8"][Source(args, c)]
                                    ELSE before["base8"][c]
    BY <2>1, <2>3, Zenon
  <2> QED
    BY <1>1, <2>4, <2>5, Zenon
<1>7. \A c \in Screen(width, height) :
        InTarget(args, c) => Source(args, c) \in Screen(width, height)
  <2>1. \A c \in Cells : c \in Int \X Int
    BY CopyAssumption DEF Cells
  <2>2. width \in Nat /\ height \in Nat /\ args \in Rectangles
    BY <1>1, CopyAssumption DEF Fits
  <2> QED
    BY <1>1, <2>1, <2>2, SourceInside, Zenon
<1>8. Agreement'
  <2>1. ASSUME ~unset', ~stale', NEW c \in Screen(width, height)
        PROVE  (shadow_on' => shadow'.px[c] = Held(c)') /\ drawn'[c] \in {Unknown, Held(c)'}
    <3> DEFINE o == IF InTarget(args, c) THEN Source(args, c) ELSE c
    <3>1. o \in Screen(width, height) /\ c \in Cells
      BY <1>1, <1>7, Zenon
    <3>2. Held(c)' = Held(o)
      BY <1>6, <3>1, Zenon
    <3>3. shadow_on => shadow'.px[c] = shadow.px[o]
      BY <1>3, <1>4, <3>1, Zenon
    <3>4. drawn'[c] = drawn[o]
      BY <1>0, <1>3, <3>1, Zenon
    <3> HIDE DEF o
    <3>5. (shadow_on => shadow.px[o] = Held(o)) /\ drawn[o] \in {Unknown, Held(o)}
      BY <1>0, <2>1, <3>1, Zenon DEF Agreement
    <3> QED
      BY <1>0, <3>2, <3>3, <3>4, <3>5, Zenon
  <2> QED
    BY <1>1, <2>1, Zenon DEF Agreement
<1> QED
  BY <1>1, <1>5, <1>8, Zenon DEF DrawInv

-----------------------------------------------------------------------------
(* The theorems.                                                           *)

\* The display starts without a mode, and with nothing on the screen.
LEMMA DrawStart == DrawInit => DrawInv
<1> SUFFICES ASSUME DrawInit PROVE DrawInv
  OBVIOUS
<1>0. /\ width = 0 /\ height = 0 /\ depth24 = FALSE /\ fb = Noisy
      /\ copying = FALSE /\ args = NoArgs /\ plane = "base16" /\ i = 0
      /\ attached = FALSE /\ ready = FALSE
      /\ depth24_want \in BOOLEAN /\ shadow_want \in BOOLEAN
      /\ shadow_on = FALSE /\ shadow = NoShadow
      /\ drawn = Blank /\ unset = FALSE /\ stale = FALSE
  BY Zenon DEF DrawInit
<1>1. CopyInv
  <2>1. width \in 0..MaxWidth /\ height \in 0..MaxHeight
    BY <1>0, CopyAssumption
  <2>2. fb \in Frames /\ copying \in BOOLEAN /\ depth24 \in BOOLEAN
    BY <1>0, BlankAre
  <2> QED
    BY <1>0, <2>1, <2>2, Zenon DEF CopyInv, CopyTypeOK, Frames
<1>2. CoreTypes
  <2>1. /\ attached \in BOOLEAN /\ ready \in BOOLEAN /\ shadow_on \in BOOLEAN
        /\ unset \in BOOLEAN /\ stale \in BOOLEAN
    BY <1>0
  <2> QED
    BY <1>0, <2>1, BlankAre, Zenon DEF CoreTypes
<1>3. CallState
  BY <1>0, Zenon DEF CallState
<1>4. Agreement
  <2>1. Screen(width, height) = {}
    BY <1>0 DEF Screen
  <2> QED
    BY <2>1 DEF Agreement
<1> QED
  BY <1>1, <1>2, <1>3, <1>4, Zenon DEF DrawInv

\* The invariant is inductive.
LEMMA DrawKept == DrawInv /\ [DrawNext]_drawVars => DrawInv'
<1> SUFFICES ASSUME DrawInv, [DrawNext]_drawVars PROVE DrawInv'
  OBVIOUS
<1>1. CASE Attach \/ UNCHANGED drawVars
  BY <1>1, AttachKeeps, Zenon
<1>2. CASE ResetDeviceState
  BY <1>2, ResetKeeps, Zenon
<1>3. ASSUME NEW m \in Modes, SetMode(m[1], m[2])
      PROVE  DrawInv'
  BY <1>3, SetModeKeeps, Zenon
<1>4. ASSUME NEW b \in BOOLEAN, SetDepth(b) \/ SetShadow(b)
      PROVE  DrawInv'
  BY <1>4, SetDepthKeeps, SetShadowKeeps, Zenon
<1>5. ASSUME NEW fmt \in {"565", "888"}, NEW x \in 0..(width - 1), NEW y \in 0..(height - 1),
             NEW w0 \in (1..(width - x + 1)) \ {width - x},
             NEW h0 \in (1..(height - y + 1)) \ {height - y},
             NEW src \in [0..(Min({w0, width - x}) - 1) -> Inputs(fmt)],
             Update(fmt, x, y, w0, h0, src)
      PROVE  DrawInv'
  BY <1>5, UpdateKeeps, Zenon
<1>6. ASSUME NEW a \in [sx : 0..(width - 1), sy : 0..(height - 1), dx : 0..(width - 1),
                        dy : 0..(height - 1), w : 1..width, h : 1..height],
             CopyBegin(a)
      PROVE  DrawInv'
  <2>1. a \in Rectangles
    BY DEF Rectangles
  <2> QED
    BY <1>6, <2>1, CopyBeginKeeps, Zenon
<1>7. CASE CopySegment \/ CopyFailed \/ CopyDone
  BY <1>7, CopySegmentKeeps, CopyFailedKeeps, CopyDoneKeeps, Zenon
<1> QED
  BY <1>1, <1>2, <1>3, <1>4, <1>5, <1>6, <1>7, Zenon DEF DrawNext

\* It holds throughout.
LEMMA DrawInvAlways == DrawSpec => []DrawInv
  BY DrawStart, DrawKept, PTL DEF DrawSpec

\* Every variable keeps its type, and a copy under way has a command to send.
THEOREM DrawTypeCorrect == DrawSpec => []DrawTypeOK
<1>1. ASSUME DrawInv
      PROVE  DrawTypeOK
  <2>0. CopyInv /\ CoreTypes /\ CallState /\ CopyTypeOK /\ (copying => Position)
    BY <1>1, Zenon DEF DrawInv, CopyInv
  <2>1. /\ plane \in Planes /\ args \in Rectangles /\ i \in 0..args.h
        /\ copying => k \in 0..(nseg(args) - 1)
    <3>1. CASE copying
      <4>1. nseg(args) \in Nat \ {0}
        BY <2>0, <3>1, SegmentLength DEF Position
      <4> QED
        BY <2>0, <3>1, <4>1 DEF Position, Fits, Rectangles
    <3>2. CASE ~copying
      BY <2>0, <3>2 DEF CallState, NoArgs, Rectangles, Planes
    <3> QED
      BY <3>1, <3>2
  <2>2. shadow.bytes \in Nat /\ shadow.px \in [Cells -> Values \X Values]
    BY <2>0 DEF CoreTypes, Shadows, Pixels
  <2> QED
    BY <2>0, <2>1, <2>2, Zenon DEF DrawTypeOK, CopyTypeOK, CoreTypes, Pixels
<1> QED
  BY <1>1, DrawInvAlways, PTL

\* dl_copy moves its rectangle exactly also as usb_disp_copy calls it, between any
\* updates, mode and depth changes, failed calls and new devices.
THEOREM CopyExactInUse == DrawSpec => []CopyExact
<1>1. DrawInv => CopyExact
  BY CopyInvExact, Zenon DEF DrawInv
<1> QED
  BY <1>1, DrawInvAlways, PTL

\* While it is on and no call has failed, the shadow buffer holds the screen pixel by
\* pixel: what an update compares with, and does not send, is what is shown.
THEOREM ShadowCorrect == DrawSpec => []ShadowAgrees
<1>1. ASSUME DrawInv
      PROVE  ShadowAgrees
  <2>1. ~copying => \A c : Held(c) = Shown(c)
    BY Zenon DEF Held, Shown
  <2> QED
    BY <1>1, <2>1, Zenon DEF DrawInv, Agreement, ShadowAgrees
<1> QED
  BY <1>1, DrawInvAlways, PTL

\* The screen shows what the application has drawn with calls that returned true,
\* although the shadow keeps most of it from being sent.
THEOREM DrawnCorrect == DrawSpec => []DrawnShown
<1>1. ASSUME DrawInv
      PROVE  DrawnShown
  <2>1. ~copying => \A c : Held(c) = Shown(c)
    BY Zenon DEF Held, Shown
  <2> QED
    BY <1>1, <2>1, Zenon DEF DrawInv, Agreement, DrawnShown
<1> QED
  BY <1>1, DrawInvAlways, PTL
=============================================================================
