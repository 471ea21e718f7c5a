---------------------------- MODULE DlCopy_proofs ----------------------------
(***************************************************************************)
(* dl_copy moves every rectangle exactly, for every size of the screen and *)
(* of a command.                                                           *)
(***************************************************************************)
EXTENDS DlCopy, TLAPS

-----------------------------------------------------------------------------
(* The segments of a row.                                                  *)

LEMMA Division ==
  \A m \in Nat, s \in Nat \ {0} :
    /\ m \div s \in Nat
    /\ (m \div s) * s <= m
    /\ m < (m \div s) * s + s
  OBVIOUS

LEMMA Segments ==
  ASSUME NEW w \in Nat \ {0}, NEW s \in Nat \ {0}, NEW m \in Nat,
         m = (w + s - 1) \div s
  PROVE  m > 0 /\ w <= m * s /\ (m - 1) * s < w
  BY Division

LEMMA Product ==
  \A a, b \in Nat, s \in Nat : a < b => (a + 1) * s <= b * s /\ (a + 1) * s = a * s + s
  OBVIOUS

LEMMA Complement ==
  \A m, b \in Nat, s \in Nat : b < m =>
    (m - 1 - b) * s + s = (m - b) * s /\ (m - (b + 1)) * s = (m - 1 - b) * s
  OBVIOUS

-----------------------------------------------------------------------------
(* The inductive invariant: the cells that are done hold what their source *)
(* held when the copy began, all others are as they were.                  *)

\* The arguments usb_disp_copy lets through.
Fits(a) ==
  /\ a \in Rectangles
  /\ a.w > 0 /\ a.h > 0
  /\ a.sx + a.w <= MaxWidth /\ a.dx + a.w <= MaxWidth
  /\ a.sy + a.h <= MaxHeight /\ a.dy + a.h <= MaxHeight
  /\ a.sx # a.dx \/ a.sy # a.dy

\* Column j of the current row and row r of the rectangle are done.
ColDone(a, kk, j) == IF rtl(a) THEN j >= (nseg(a) - kk) * seg(a) ELSE j < kk * seg(a)
RowDone(a, ii, r) == IF bottom_up(a) THEN r > a.h - 1 - ii ELSE r < ii
RowAt(a, ii)      == IF bottom_up(a) THEN a.h - 1 - ii ELSE ii

Done(p, c) ==
  /\ p = "base16" \/ depth24
  /\ InTarget(args, c)
  /\ \/ RowDone(args, i, c[2] - args.dy)
     \/ /\ i < args.h /\ c[2] - args.dy = RowAt(args, i)
        /\ \/ p = "base16" /\ plane = "base8"
           \/ p = plane /\ ColDone(args, k, c[1] - args.dx)

CopyTypeOK ==
  /\ width \in 0..MaxWidth /\ height \in 0..MaxHeight /\ depth24 \in BOOLEAN
  /\ fb \in [Planes -> [Cells -> Values]]
  /\ copying \in BOOLEAN

Position ==
  /\ Fits(args)
  /\ i \in 0..args.h /\ k \in Nat /\ plane \in Planes
  /\ i < args.h => k < nseg(args)
  /\ i = args.h => k = 0 /\ plane = "base16"
  /\ plane = "base8" => depth24

PartlyMoved ==
  \A p \in Planes, c \in Cells :
    fb[p][c] = IF Done(p, c) THEN before[p][Source(args, c)] ELSE before[p][c]

CopyInv ==
  /\ CopyTypeOK
  /\ copying => /\ Position
                /\ before \in [Planes -> [Cells -> Values]]
                /\ PartlyMoved

-----------------------------------------------------------------------------
(* What one command covers.                                                *)

\* A command is never empty and never longer than the shift inside a row.
LEMMA SegmentLength ==
  ASSUME NEW a, Fits(a)
  PROVE  /\ seg(a) \in Nat \ {0}
         /\ nseg(a) \in Nat \ {0}
         /\ a.w <= nseg(a) * seg(a) /\ (nseg(a) - 1) * seg(a) < a.w
         /\ a.sy = a.dy => seg(a) <= Distance(a)
  <1>1. /\ a.w \in Nat \ {0} /\ a.sx \in Nat /\ a.dx \in Nat
        /\ a.sy \in Nat /\ a.dy \in Nat
    BY DEF Fits, Rectangles
  <1>2. Distance(a) \in Nat /\ (a.sy = a.dy => Distance(a) # 0)
    BY <1>1 DEF Distance, Fits
  <1>3. seg(a) \in Nat \ {0} /\ (a.sy = a.dy => seg(a) <= Distance(a))
    BY <1>2, CopyAssumption DEF seg
  <1>4. nseg(a) \in Nat
    BY <1>1, <1>3, Division DEF nseg
  <1> QED
    BY <1>1, <1>3, <1>4, Segments DEF nseg

\* The segment of command kk: no pixel of it is done, all are done after it,
\* and nothing else is.
LEMMA OneSegment ==
  ASSUME NEW a, Fits(a), NEW kk \in Nat, kk < nseg(a),
         NEW o, o = (IF rtl(a) THEN nseg(a) - 1 - kk ELSE kk) * seg(a),
         NEW len, len = (IF a.w - o > seg(a) THEN seg(a) ELSE a.w - o)
  PROVE  /\ o \in Nat /\ len \in Nat \ {0} /\ o + len <= a.w /\ len <= seg(a)
         /\ \A j \in 0..a.w-1 :
              /\ j \in o..(o + len - 1) => ~ColDone(a, kk, j)
              /\ ColDone(a, kk + 1, j) <=> ColDone(a, kk, j) \/ j \in o..(o + len - 1)
  <1> DEFINE s == seg(a)
             m == nseg(a)
  <1>1. /\ s \in Nat \ {0} /\ m \in Nat \ {0} /\ a.w \in Nat \ {0}
        /\ a.w <= m * s /\ (m - 1) * s < a.w
    BY SegmentLength DEF Fits, Rectangles
  <1>2. CASE rtl(a)
    <2>1. o = (m - 1 - kk) * s
      BY <1>2
    <2>2. o \in Nat /\ o + s = (m - kk) * s /\ o = (m - (kk + 1)) * s
      BY <2>1, <1>1, Complement
    <2>3. o <= (m - 1) * s
      BY <2>1, <1>1
    <2>4. \A j : /\ ColDone(a, kk, j) <=> j >= o + s
                 /\ ColDone(a, kk + 1, j) <=> j >= o
      BY <1>2, <2>2 DEF ColDone
    <2> HIDE DEF s, m
    <2>5. len = IF a.w - o > s THEN s ELSE a.w - o
      BY DEF s
    <2>6. o \in Nat /\ len \in Nat \ {0} /\ o + len <= a.w /\ len <= s
      BY <2>2, <2>3, <2>5, <1>1
    <2>7. \A j \in 0..a.w-1 :
            /\ j \in o..(o + len - 1) => ~(j >= o + s)
            /\ j >= o <=> (j >= o + s \/ j \in o..(o + len - 1))
      BY <2>2, <2>5, <1>1
    <2> QED
      BY <2>4, <2>6, <2>7 DEF s
  <1>3. CASE ~rtl(a)
    <2>1. o = kk * s
      BY <1>3
    <2>2. o \in Nat /\ o + s = (kk + 1) * s
      BY <2>1, <1>1
    <2>3. o <= (m - 1) * s
      BY <2>1, <1>1
    <2>4. \A j : /\ ColDone(a, kk, j) <=> j < o
                 /\ ColDone(a, kk + 1, j) <=> j < o + s
      BY <1>3, <2>1, <2>2 DEF ColDone
    <2> HIDE DEF s, m
    <2>5. len = IF a.w - o > s THEN s ELSE a.w - o
      BY DEF s
    <2>6. o \in Nat /\ len \in Nat \ {0} /\ o + len <= a.w /\ len <= s
      BY <2>2, <2>3, <2>5, <1>1
    <2>7. \A j \in 0..a.w-1 :
            /\ j \in o..(o + len - 1) => ~(j < o)
            /\ j < o + s <=> (j < o \/ j \in o..(o + len - 1))
      BY <2>2, <2>5, <1>1
    <2> QED
      BY <2>4, <2>6, <2>7 DEF s
  <1> QED
    BY <1>2, <1>3

\* No pixel of a row is done before its first command, all are after its last.
LEMMA WholeRow ==
  ASSUME NEW a, Fits(a), NEW j \in 0..a.w-1
  PROVE  ~ColDone(a, 0, j) /\ ColDone(a, nseg(a), j)
  <1>1. /\ seg(a) \in Nat \ {0} /\ nseg(a) \in Nat \ {0} /\ a.w \in Nat
        /\ a.w <= nseg(a) * seg(a)
    BY SegmentLength DEF Fits, Rectangles
  <1> QED
    BY <1>1 DEF ColDone

LEMMA OneRow ==
  ASSUME NEW a, Fits(a), NEW ii \in 0..a.h-1
  PROVE  \A r \in 0..a.h-1 :
           /\ RowDone(a, ii + 1, r) <=> RowDone(a, ii, r) \/ r = RowAt(a, ii)
           /\ RowAt(a, ii) \in 0..a.h-1
           /\ ~RowDone(a, ii, RowAt(a, ii))
           /\ r = RowAt(a, ii + 1) => ~(r = RowAt(a, ii))
  BY DEF RowDone, RowAt, Fits, Rectangles

-----------------------------------------------------------------------------
(* The steps.                                                              *)

LEMMA CopyStarts == CopyInit => CopyInv
  BY DEF CopyInit, CopyInv, CopyTypeOK

\* dl_copy starts with no cell done.
LEMMA CallInv ==
  ASSUME CopyInv, NEW a \in Rectangles, CopyCall(a)
  PROVE  CopyInv'
  <1>1. Fits(a)
    <2>1. /\ a.w > 0 /\ a.h > 0
          /\ a.sx + a.w <= width /\ a.dx + a.w <= width
          /\ a.sy + a.h <= height /\ a.dy + a.h <= height
          /\ a.sx # a.dx \/ a.sy # a.dy
      BY DEF CopyCall
    <2>2. width \in 0..MaxWidth /\ height \in 0..MaxHeight
      BY DEF CopyInv, CopyTypeOK
    <2> QED
      BY <2>1, <2>2, CopyAssumption DEF Fits, Rectangles
  <1>2. CopyTypeOK'
    BY DEF CopyCall, CopyInv, CopyTypeOK, modeVars
  <1>3. /\ args' = a /\ i' = 0 /\ k' = 0 /\ plane' = "base16"
        /\ before' = fb /\ fb' = fb /\ depth24' = depth24
    BY DEF CopyCall, modeVars
  <1>4. Position'
    BY <1>1, <1>3, SegmentLength DEF Position, Fits, Rectangles, Planes
  <1>5. ASSUME NEW p \in Planes, NEW c \in Cells
        PROVE  ~Done(p, c)'
    <2> SUFFICES ASSUME InTarget(a, c)
                 PROVE  /\ ~RowDone(a, 0, c[2] - a.dy)
                        /\ ~ColDone(a, 0, c[1] - a.dx)
      BY <1>3 DEF Done
    <2>1. /\ c[1] - a.dx \in 0..a.w-1 /\ c[2] - a.dy \in 0..a.h-1
      BY <1>1 DEF InTarget, Cells, Fits, Rectangles
    <2> QED
      BY <2>1, <1>1, WholeRow DEF RowDone, Fits, Rectangles
  <1>6. PartlyMoved'
    BY <1>3, <1>5 DEF PartlyMoved
  <1>7. before' \in [Planes -> [Cells -> Values]]
    BY <1>3 DEF CopyInv, CopyTypeOK
  <1> QED
    BY <1>2, <1>4, <1>6, <1>7 DEF CopyInv

-----------------------------------------------------------------------------
(* A command.                                                              *)

Commanded == CopyInv /\ copying /\ i < args.h

\* The geometry of the next command.
LEMMA CommandShape ==
  ASSUME Commanded
  PROVE  /\ off \in Nat /\ n \in Nat \ {0}
         /\ off + n <= args.w /\ n <= seg(args)
         /\ row \in 0..args.h-1 /\ row = RowAt(args, i)
         /\ \A j \in 0..args.w-1 :
              /\ j \in off..(off + n - 1) => ~ColDone(args, k, j)
              /\ ColDone(args, k + 1, j) <=>
                   ColDone(args, k, j) \/ j \in off..(off + n - 1)
  <1>1. Fits(args) /\ k \in Nat /\ k < nseg(args) /\ i \in 0..args.h-1
    BY DEF Commanded, CopyInv, Position, Fits, Rectangles
  <1>2. row \in 0..args.h-1 /\ row = RowAt(args, i)
    BY <1>1 DEF row, RowAt, Fits, Rectangles
  <1> QED
    BY <1>1, <1>2, OneSegment DEF off, n

\* A command takes the cells of its segment from where the rectangle does.
LEMMA CommandTarget ==
  ASSUME Commanded, NEW c \in Cells
  PROVE  /\ InTarget(Command, c) <=>
              /\ InTarget(args, c)
              /\ c[2] - args.dy = row
              /\ c[1] - args.dx \in off..(off + n - 1)
         /\ Source(Command, c) = Source(args, c)
  <1>1. /\ args.sx \in Nat /\ args.sy \in Nat /\ args.dx \in Nat /\ args.dy \in Nat
        /\ args.w \in Nat /\ args.h \in Nat
    BY DEF Commanded, CopyInv, Position, Fits, Rectangles
  <1>2. /\ off \in Nat /\ n \in Nat \ {0} /\ off + n <= args.w
        /\ row \in 0..args.h-1
    BY CommandShape
  <1>3. c[1] \in Int /\ c[2] \in Int
    BY CopyAssumption DEF Cells
  <1>4. /\ Command.sx = args.sx + off /\ Command.sy = args.sy + row
        /\ Command.dx = args.dx + off /\ Command.dy = args.dy + row
        /\ Command.w = n /\ Command.h = 1
    BY DEF Command
  <1> QED
    BY <1>1, <1>2, <1>3, <1>4 DEF InTarget, Source

LEMMA CommandApart ==
  ASSUME Commanded
  PROVE  ~(Command.sy = Command.dy /\ Distance(Command) < Command.w)
  <1>1. /\ args.sx \in Nat /\ args.sy \in Nat /\ args.dx \in Nat /\ args.dy \in Nat
        /\ Fits(args)
    BY DEF Commanded, CopyInv, Position, Fits, Rectangles
  <1>2. off \in Nat /\ n \in Nat /\ n <= seg(args) /\ row \in Nat
    BY CommandShape DEF Commanded, CopyInv, Position, Fits, Rectangles
  <1>3. seg(args) \in Nat /\ (args.sy = args.dy => seg(args) <= Distance(args))
    BY <1>1, SegmentLength
  <1>4. /\ Command.sx = args.sx + off /\ Command.sy = args.sy + row
        /\ Command.dx = args.dx + off /\ Command.dy = args.dy + row
        /\ Command.w = n
    BY DEF Command
  <1>5. Distance(Command) = Distance(args)
    BY <1>1, <1>2, <1>4 DEF Distance
  <1>6. Distance(args) \in Nat
    BY <1>1 DEF Distance
  <1> QED
    BY <1>1, <1>2, <1>3, <1>4, <1>5, <1>6

\* What a command reads, no command has written before.
LEMMA SourceKept ==
  ASSUME Commanded, NEW c \in Cells, InTarget(Command, c)
  PROVE  Source(args, c) \in Cells /\ ~Done(plane, Source(args, c))
  <1>1. /\ Fits(args)
        /\ args.sx \in Nat /\ args.sy \in Nat /\ args.dx \in Nat /\ args.dy \in Nat
        /\ args.w \in Nat /\ args.h \in Nat /\ i \in Nat /\ i < args.h /\ k \in Nat
        /\ args.sx + args.w <= MaxWidth /\ args.sy + args.h <= MaxHeight
        /\ args.sx # args.dx \/ args.sy # args.dy
    BY DEF Commanded, CopyInv, Position, Fits, Rectangles
  <1>2. c[1] \in Int /\ c[2] \in Int
    BY CopyAssumption DEF Cells
  <1>3. /\ InTarget(args, c)
        /\ c[2] - args.dy = RowAt(args, i)
        /\ c[1] - args.dx \in off..(off + n - 1)
    BY CommandTarget, CommandShape
  <1> DEFINE x == Source(args, c)[1]
             y == Source(args, c)[2]
  <1>4. x = c[1] - args.dx + args.sx /\ y = c[2] - args.dy + args.sy
    BY DEF Source
  <1>5. Source(args, c) \in Cells
    BY <1>1, <1>2, <1>3, <1>4, CopyAssumption DEF Source, Cells, InTarget
  <1>6. ASSUME Done(plane, Source(args, c)) PROVE FALSE
    <2>1. /\ InTarget(args, Source(args, c))
          /\ \/ RowDone(args, i, y - args.dy)
             \/ /\ y - args.dy = RowAt(args, i)
                /\ ColDone(args, k, x - args.dx)
      BY <1>6 DEF Done
    <2>2. y - args.dy = RowAt(args, i) + args.sy - args.dy
      BY <1>1, <1>2, <1>3, <1>4
    <2> HIDE DEF x, y
    <2>3. CASE args.sy # args.dy
      BY <2>1, <2>2, <2>3, <1>1 DEF RowAt, RowDone, bottom_up
    <2>4. CASE args.sy = args.dy
      <3>1. y - args.dy = i /\ RowAt(args, i) = i /\ ~RowDone(args, i, i)
        BY <2>2, <2>4, <1>1 DEF RowAt, RowDone, bottom_up
      <3>2. ColDone(args, k, x - args.dx)
        BY <2>1, <3>1
      <3>3. x - args.dx \in 0..args.w-1 /\ c[1] - args.dx \in 0..args.w-1
        BY <2>1, <1>1, <1>2, <1>3, <1>4 DEF InTarget, x
      <3>4. ~ColDone(args, k, c[1] - args.dx)
        BY <1>3, <3>3, CommandShape
      <3>5. seg(args) \in Nat /\ nseg(args) \in Nat
        BY <1>1, SegmentLength
      <3>6. (nseg(args) - k) * seg(args) \in Int /\ k * seg(args) \in Int
        BY <3>5, <1>1
      <3>7. x - args.dx = (c[1] - args.dx) + args.sx - args.dx
        BY <1>1, <1>2, <1>4
      <3> QED
        BY <3>2, <3>3, <3>4, <3>6, <3>7, <2>4, <1>1, <1>2 DEF ColDone, rtl
    <2> QED
      BY <2>3, <2>4
  <1> QED
    BY <1>5, <1>6

\* The device after a command.
LEMMA CommandEffect ==
  ASSUME Commanded, fb' = Executed(plane, Command), plane \in Planes
  PROVE  /\ fb' \in [Planes -> [Cells -> Values]]
         /\ \A p \in Planes, c \in Cells :
              fb'[p][c] = IF p = plane /\ InTarget(Command, c)
                          THEN before[p][Source(args, c)] ELSE fb[p][c]
  <1>1. /\ fb \in [Planes -> [Cells -> Values]]
        /\ before \in [Planes -> [Cells -> Values]] /\ PartlyMoved
    BY DEF Commanded, CopyInv, CopyTypeOK
  <1> DEFINE new == [c \in Cells |-> IF ~InTarget(Command, c) THEN fb[plane][c]
                                     ELSE fb[plane][Source(Command, c)]]
  <1>2. fb' = [fb EXCEPT ![plane] = new]
    BY CommandApart DEF Executed
  <1>3. ASSUME NEW c \in Cells, InTarget(Command, c)
        PROVE  /\ Source(args, c) \in Cells
               /\ new[c] = before[plane][Source(args, c)]
    <2>1. Source(args, c) \in Cells /\ ~Done(plane, Source(args, c))
      BY <1>3, SourceKept
    <2>2. new[c] = fb[plane][Source(args, c)]
      BY <1>3, CommandTarget
    <2> QED
      BY <2>1, <2>2, <1>1 DEF PartlyMoved
  <1>4. ASSUME NEW c \in Cells, ~InTarget(Command, c)
        PROVE  new[c] = fb[plane][c]
    BY <1>4
  <1>5. new \in [Cells -> Values]
    <2> SUFFICES ASSUME NEW c \in Cells PROVE new[c] \in Values
      OBVIOUS
    <2>1. CASE InTarget(Command, c)
      BY <2>1, <1>3, <1>1
    <2>2. CASE ~InTarget(Command, c)
      BY <2>2, <1>4, <1>1
    <2> QED
      BY <2>1, <2>2
  <1> HIDE DEF new
  <1>6. fb' \in [Planes -> [Cells -> Values]]
    BY <1>1, <1>2, <1>5
  <1>7. ASSUME NEW p \in Planes, NEW c \in Cells
        PROVE  fb'[p][c] = IF p = plane /\ InTarget(Command, c)
                           THEN before[p][Source(args, c)] ELSE fb[p][c]
    <2>1. fb'[p] = IF p = plane THEN new ELSE fb[p]
      BY <1>1, <1>2
    <2> QED
      BY <2>1, <1>3, <1>4
  <1> QED
    BY <1>6, <1>7

\* A command makes its segment done, and nothing else.
LEMMA CommandDone ==
  ASSUME Commanded, CopyCommand, NEW p \in Planes, NEW c \in Cells
  PROVE  Done(p, c)' <=> Done(p, c) \/ (p = plane /\ InTarget(Command, c))
  <1>1. /\ Fits(args) /\ args' = args /\ depth24' = depth24
        /\ i \in 0..args.h-1 /\ k \in Nat /\ k < nseg(args) /\ plane \in Planes
        /\ plane = "base8" => depth24
        /\ args.w \in Nat /\ args.h \in Nat /\ args.dx \in Nat /\ args.dy \in Nat
    BY DEF Commanded, CopyInv, Position, Fits, Rectangles, CopyCommand, modeVars
  <1> DEFINE r == c[2] - args.dy
             j == c[1] - args.dx
             cut == j \in off..(off + n - 1)
  <1>2. CASE ~InTarget(args, c)
    BY <1>1, <1>2, CommandTarget DEF Done
  <1>3. CASE InTarget(args, c)
    <2>1. r \in 0..args.h-1 /\ j \in 0..args.w-1
      BY <1>1, <1>3, CopyAssumption DEF InTarget, Cells
    <2>2. InTarget(Command, c) <=> r = RowAt(args, i) /\ cut
      BY <1>3, CommandTarget, CommandShape
    <2>3. ColDone(args, k + 1, j) <=> ColDone(args, k, j) \/ cut
      BY <2>1, CommandShape
    <2>4. /\ RowDone(args, i + 1, r) <=> RowDone(args, i, r) \/ r = RowAt(args, i)
          /\ ~(RowDone(args, i, r) /\ r = RowAt(args, i))
          /\ ~(r = RowAt(args, i + 1) /\ r = RowAt(args, i))
      BY <1>1, <2>1, OneRow
    <2>5. ~ColDone(args, 0, j) /\ ColDone(args, nseg(args), j)
      BY <1>1, <2>1, WholeRow
    <2>6. /\ Done(p, c) <=>
               /\ p = "base16" \/ depth24
               /\ \/ RowDone(args, i, r)
                  \/ /\ r = RowAt(args, i)
                     /\ (p = "base16" /\ plane = "base8") \/ (p = plane /\ ColDone(args, k, j))
          /\ Done(p, c)' <=>
               /\ p = "base16" \/ depth24
               /\ \/ RowDone(args, i', r)
                  \/ /\ i' < args.h /\ r = RowAt(args, i')
                     /\ (p = "base16" /\ plane' = "base8") \/ (p = plane' /\ ColDone(args, k', j))
      BY <1>1, <1>3 DEF Done
    <2> HIDE DEF r, j, cut
    <2>7. CASE k + 1 < nseg(args)
      <3>1. k' = k + 1 /\ plane' = plane /\ i' = i
        BY <2>7 DEF CopyCommand
      <3> QED
        BY <1>1, <2>2, <2>3, <2>6, <3>1 DEF Planes
    <2>8. CASE ~(k + 1 < nseg(args)) /\ plane = "base16" /\ depth24
      <3>1. k' = 0 /\ plane' = "base8" /\ i' = i
        BY <2>8 DEF CopyCommand
      <3>2. ColDone(args, k, j) \/ cut
        <4>1. nseg(args) \in Nat
          BY <1>1, SegmentLength
        <4>2. k + 1 = nseg(args)
          BY <4>1, <1>1, <2>8
        <4> QED
          BY <4>2, <2>3, <2>5
      <3> QED
        BY <1>1, <2>2, <2>5, <2>6, <2>8, <3>1, <3>2 DEF Planes
    <2>9. CASE ~(k + 1 < nseg(args)) /\ ~(plane = "base16" /\ depth24)
      <3>1. k' = 0 /\ plane' = "base16" /\ i' = i + 1
        BY <2>9 DEF CopyCommand
      <3>2. ColDone(args, k, j) \/ cut
        <4>1. nseg(args) \in Nat
          BY <1>1, SegmentLength
        <4>2. k + 1 = nseg(args)
          BY <4>1, <1>1, <2>9
        <4> QED
          BY <4>2, <2>3, <2>5
      <3>3. ColDone(args, k', j) <=> FALSE
        BY <3>1, <2>5
      <3>4. Done(p, c)' <=> (p = "base16" \/ depth24) /\ (RowDone(args, i, r) \/ r = RowAt(args, i))
        BY <2>4, <2>6, <3>1, <3>3
      <3> QED
        BY <1>1, <2>2, <2>6, <2>9, <3>2, <3>4 DEF Planes
    <2> QED
      BY <2>7, <2>8, <2>9
  <1> QED
    BY <1>2, <1>3

LEMMA CommandInv ==
  ASSUME Commanded, CopyCommand
  PROVE  CopyInv'
  <1>1. /\ args' = args /\ before' = before /\ copying' = copying
        /\ width' = width /\ height' = height /\ depth24' = depth24
        /\ fb' = Executed(plane, Command)
    BY DEF CopyCommand, modeVars
  <1>2. /\ Position /\ CopyTypeOK /\ PartlyMoved
        /\ before \in [Planes -> [Cells -> Values]]
    BY DEF Commanded, CopyInv
  <1>3. CopyTypeOK'
    BY <1>1, <1>2, CommandEffect DEF CopyTypeOK, Position
  <1>4. Position'
    <2>1. /\ Fits(args) /\ i \in 0..args.h-1 /\ k \in Nat
          /\ args.h \in Nat /\ nseg(args) \in Nat \ {0}
      BY <1>2, SegmentLength DEF Commanded, Position, Fits, Rectangles
    <2>6. plane \in Planes /\ (plane = "base8" => depth24)
      BY <1>2 DEF Position
    <2>5. Fits(args)' /\ nseg(args)' = nseg(args)
      BY <1>1, <2>1 DEF Fits, nseg, seg, Distance
    <2>2. CASE k + 1 < nseg(args)
      <3>1. k' = k + 1 /\ plane' = plane /\ i' = i
        BY <2>2 DEF CopyCommand
      <3>2. i' \in 0..args.h /\ k' \in Nat /\ (i' < args.h => k' < nseg(args))
        BY <2>1, <2>2, <3>1
      <3>3. i' = args.h => k' = 0 /\ plane' = "base16"
        BY <2>1, <3>1
      <3>4. plane' \in Planes /\ (plane' = "base8" => depth24)
        BY <2>6, <2>2, <3>1 DEF Planes
      <3> QED
        BY <1>1, <2>5, <3>2, <3>3, <3>4 DEF Position
    <2>3. CASE ~(k + 1 < nseg(args)) /\ plane = "base16" /\ depth24
      <3>1. k' = 0 /\ plane' = "base8" /\ i' = i
        BY <2>3 DEF CopyCommand
      <3>2. i' \in 0..args.h /\ k' \in Nat /\ (i' < args.h => k' < nseg(args))
        BY <2>1, <2>3, <3>1
      <3>3. i' = args.h => k' = 0 /\ plane' = "base16"
        BY <2>1, <3>1
      <3>4. plane' \in Planes /\ (plane' = "base8" => depth24)
        BY <2>6, <2>3, <3>1 DEF Planes
      <3> QED
        BY <1>1, <2>5, <3>2, <3>3, <3>4 DEF Position
    <2>4. CASE ~(k + 1 < nseg(args)) /\ ~(plane = "base16" /\ depth24)
      <3>1. k' = 0 /\ plane' = "base16" /\ i' = i + 1
        BY <2>4 DEF CopyCommand
      <3>2. i' \in 0..args.h /\ k' \in Nat /\ (i' < args.h => k' < nseg(args))
        BY <2>1, <2>4, <3>1
      <3>3. i' = args.h => k' = 0 /\ plane' = "base16"
        BY <2>1, <3>1
      <3>4. plane' \in Planes /\ (plane' = "base8" => depth24)
        BY <2>6, <2>4, <3>1 DEF Planes
      <3> QED
        BY <1>1, <2>5, <3>2, <3>3, <3>4 DEF Position
    <2> QED
      BY <2>2, <2>3, <2>4
  <1>5. PartlyMoved'
    <2> SUFFICES ASSUME NEW p \in Planes, NEW c \in Cells
                 PROVE  fb'[p][c] = IF Done(p, c)' THEN before[p][Source(args, c)]
                                                   ELSE before[p][c]
      BY <1>1 DEF PartlyMoved
    <2>1. fb'[p][c] = IF p = plane /\ InTarget(Command, c)
                      THEN before[p][Source(args, c)] ELSE fb[p][c]
      BY <1>1, <1>2, CommandEffect DEF Position
    <2>2. fb[p][c] = IF Done(p, c) THEN before[p][Source(args, c)] ELSE before[p][c]
      BY <1>2 DEF PartlyMoved
    <2>3. Done(p, c)' <=> Done(p, c) \/ (p = plane /\ InTarget(Command, c))
      BY CommandDone
    <2> QED
      BY <2>1, <2>2, <2>3
  <1> QED
    BY <1>1, <1>2, <1>3, <1>4, <1>5 DEF CopyInv

-----------------------------------------------------------------------------
(* The theorem.                                                            *)

LEMMA CopyStep == CopyInv /\ [CopyNext]_dlVars => CopyInv'
  <1> SUFFICES ASSUME CopyInv, [CopyNext]_dlVars PROVE CopyInv'
    OBVIOUS
  <1>1. ASSUME NEW a \in Rectangles, CopyCall(a) PROVE CopyInv'
    BY <1>1, CallInv
  <1>2. CASE CopyCommand
    BY <1>2, CommandInv DEF Commanded, CopyCommand
  <1>3. CASE CopyEnd
    BY <1>3 DEF CopyEnd, CopyInv, CopyTypeOK, modeVars
  <1>4. CASE UNCHANGED dlVars
    BY <1>4 DEF dlVars, modeVars, copyVars, CopyInv, CopyTypeOK, Position,
                PartlyMoved, Done
  <1> QED
    BY <1>1, <1>2, <1>3, <1>4 DEF CopyNext, CopyShort, CopyReturn

LEMMA CopyInvExact == CopyInv => CopyExact
  <1> SUFFICES ASSUME CopyInv, copying, i = args.h
               PROVE  /\ fb["base16"] = Moved(args, before["base16"])
                      /\ fb["base8"] = IF depth24 THEN Moved(args, before["base8"])
                                                  ELSE before["base8"]
    BY DEF CopyExact
  <1>1. /\ Fits(args) /\ PartlyMoved /\ depth24 \in BOOLEAN
        /\ fb \in [Planes -> [Cells -> Values]]
        /\ before \in [Planes -> [Cells -> Values]]
        /\ args.h \in Nat /\ args.dy \in Nat
    BY DEF CopyInv, CopyTypeOK, Position, Fits, Rectangles
  <1>2. ASSUME NEW p \in Planes, NEW c \in Cells
        PROVE  Done(p, c) <=> (p = "base16" \/ depth24) /\ InTarget(args, c)
    <2> SUFFICES ASSUME InTarget(args, c) PROVE RowDone(args, i, c[2] - args.dy)
      BY DEF Done
    <2> QED
      BY <1>1, CopyAssumption DEF InTarget, RowDone, Cells
  <1>3. ASSUME NEW p \in Planes, p = "base16" \/ depth24
        PROVE  fb[p] = Moved(args, before[p])
    BY <1>1, <1>2, <1>3 DEF PartlyMoved, Moved
  <1>4. ASSUME ~depth24 PROVE fb["base8"] = before["base8"]
    BY <1>1, <1>2, <1>4 DEF PartlyMoved, Planes
  <1> QED
    BY <1>1, <1>3, <1>4 DEF Planes

\* Whatever the size of the screen and of a command, and however the two
\* rectangles overlap, a dl_copy that returns true has moved the rectangle
\* exactly, in both planes.
THEOREM CopyCorrect == CopySpec => []CopyExact
  BY CopyStarts, CopyStep, CopyInvExact, PTL DEF CopySpec
=============================================================================
