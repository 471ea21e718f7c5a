--------------------------- MODULE DispFrames_proofs --------------------------
(***************************************************************************)
(* Theorems about the full-frame protocols of DispFrames: for every set of *)
(* kinds and modes, every size of memory and of update.                    *)
(***************************************************************************)
EXTENDS DispFrames, FiniteSetTheorems, TLAPS

-----------------------------------------------------------------------------
(* The inductive invariant.                                                *)

\* A mode is set, and none has failed since.
IsSet == width > 0 /\ "mode" \notin struck

CoreTypes ==
  /\ kind \in AllKinds
  /\ attached \in BOOLEAN /\ ready \in BOOLEAN /\ depth24 \in BOOLEAN /\ want24 \in BOOLEAN
  /\ dark \in BOOLEAN /\ width \in Widths \cup {0}
  /\ ret \in {"none", "flush"} /\ struck \subseteq {"mode", "dropped", "unsent"}

BufTypes ==
  /\ fb24 \in BOOLEAN /\ m24 \in BOOLEAN /\ out \in BOOLEAN
  /\ dirty \in BOOLEAN /\ enc \in BOOLEAN /\ first \in BOOLEAN
  /\ pw \in Widths \cup {0}
  /\ fb \in Pics \cup {NoPic} /\ queued \in Pics \cup {NoPic}

Types == CoreTypes /\ BufTypes

\* The T6's ring: the next command comes behind the last one, or the ring began
\* anew because a largest one did not fit there.
RingOK ==
  /\ limit \in Nat /\ addr \in 0..limit
  /\ cmd.at \in Nat /\ cmd.len \in 0..MaxStep
  /\ attached /\ T6 => limit >= MaxStep
  /\ \/ addr = cmd.at + cmd.len
     \/ addr = 0 /\ cmd.at + cmd.len + MaxStep > limit

\* Only the MS91xx has a wire buffer, one for its frame buffer.
MsOnly == T6 => wire = NoPic /\ rect = NoRect

WireOfFb ==
  MS => \/ fb = NoPic /\ wire = NoPic
        \/ fb # NoPic /\ DOMAIN wire = DOMAIN fb /\ wire = [x \in DOMAIN wire |-> wire[x]]

\* After a mode was set the buffer fits, and the dirty rectangle lies in it.
SetFits == IsSet => Fits

RectOK ==
  IsSet /\ rect # NoRect =>
    /\ rect[1] \in Int /\ rect[2] \in Int
    /\ 0 <= rect[1] /\ rect[1] <= rect[2] /\ rect[2] < pw

\* What is not drawn since the last flush is on its way or shown.
T6Shows ==
  T6 /\ IsSet /\ ~dirty =>
    /\ queued # NoPic => queued = fb
    /\ queued = NoPic /\ "dropped" \notin struck => shown = fb

MsShows == MS /\ IsSet /\ rect = NoRect /\ "unsent" \notin struck => shown = wire

\* The part that says something of a set mode only.
SetInv == SetFits /\ RectOK /\ WireCurrent /\ T6Shows /\ MsShows

FramesInv == Types /\ RingOK /\ MsOnly /\ WireOfFb /\ SetInv /\ FlushShows

-----------------------------------------------------------------------------
(* Kinds and pictures.                                                     *)

\* What a step that does not change the display keeps of it.
LEMMA SameKind ==
  ASSUME UNCHANGED kind
  PROVE  /\ (T6' <=> T6) /\ (MS' <=> MS) /\ (M3' <=> M3)
         /\ Widths' = Widths /\ Pics' = Pics
<1>1. (T6' <=> T6) /\ (MS' <=> MS) /\ (M3' <=> M3)
  BY DEF T6, MS, M3
<1>2. Widths' = Widths
  BY DEF Widths, T6
<1> QED
  BY <1>1, <1>2, Zenon DEF Pics

\* What 16 bits hold.
Bits16 == 65536

\* Modes are numbers, those of an MS91xx of 16 bits.
LEMMA WidthsAre == Widths \subseteq Nat \ {0} /\ (MS => \A w \in Widths : w < Bits16)
<1>0. T6Modes \subseteq Nat \ {0} /\ \A w \in MsModes : w \in Nat \ {0} /\ w < Bits16
  BY FrameAssumption DEF Bits16
<1>1. T6 => ~MS
  BY DEF T6, MS
<1>2. Widths \subseteq Nat \ {0}
  <2>1. Widths = T6Modes \/ Widths = MsModes
    BY Zenon DEF Widths
  <2>2. T6Modes \subseteq Nat \ {0} /\ MsModes \subseteq Nat \ {0}
    BY <1>0
  <2> QED
    BY <2>1, <2>2, Zenon
<1>3. MS => \A w \in Widths : w < Bits16
  <2> SUFFICES ASSUME MS PROVE \A w \in Widths : w < Bits16
    OBVIOUS
  <2>1. Widths = MsModes
    BY <1>1, Zenon DEF Widths
  <2> QED
    BY <1>0, <2>1
<1> QED
  BY <1>2, <1>3

\* A kind is of one protocol.
LEMMA OneKind == ~(T6 /\ MS) /\ (kind \in AllKinds => T6 \/ MS)
<1>1. T6 => ~MS
  BY DEF T6, MS
<1>2. kind \in AllKinds => T6 \/ MS
  BY Zenon DEF AllKinds, T6, MS
<1> QED
  BY <1>1, <1>2

\* A picture of w pixels has w pixels.
LEMMA PicWidth ==
  ASSUME NEW w \in Nat \ {0}, NEW p \in [0..(w - 1) -> Colours]
  PROVE  DOMAIN p = 0..(w - 1) /\ Cardinality(DOMAIN p) = w /\ p # NoPic
<1>1. DOMAIN p = 0..(w - 1)
  OBVIOUS
<1>2. Cardinality(0..(w - 1)) = w
  <2>1. 0 \in Int /\ w - 1 \in Int /\ ~(0 > w - 1) /\ (w - 1) - 0 + 1 = w
    OBVIOUS
  <2> QED
    BY <2>1, FS_Interval
<1>3. p # NoPic
  <2>1. 0 \in DOMAIN p
    BY <1>1
  <2>2. 0 \notin DOMAIN NoPic
    BY DEF NoPic
  <2> QED
    BY <2>1, <2>2
<1> QED
  BY <1>1, <1>2, <1>3

\* The frame buffer has the pixels of a mode.
LEMMA FbIs ==
  ASSUME Types, fb # NoPic
  PROVE  /\ FbWidth \in Widths /\ DOMAIN fb = 0..(FbWidth - 1)
         /\ fb \in [0..(FbWidth - 1) -> Colours]
<1>1. PICK w \in Widths : fb \in [0..(w - 1) -> Colours]
  BY DEF Types, BufTypes, Pics
<1>2. FbWidth = w /\ DOMAIN fb = 0..(w - 1)
  BY <1>1, WidthsAre, PicWidth DEF FbWidth
<1> QED
  BY <1>1, <1>2

\* A black picture is one.
LEMMA BlackIs ==
  ASSUME NEW w \in Widths
  PROVE  Black(w) \in [0..(w - 1) -> Colours] /\ Black(w) \in Pics
  BY FrameAssumption DEF Black, Pics

\* t6_alloc_bufs and ms_alloc_bufs leave a picture of the width asked for.
LEMMA AllocIs ==
  ASSUME Types, UNCHANGED kind, NEW w \in Widths, NEW d24, AllocOK(w, d24)
  PROVE  /\ fb' \in [0..(w - 1) -> Colours] /\ fb' \in Pics /\ fb' # NoPic
         /\ DOMAIN fb' = 0..(w - 1) /\ FbWidth' = w
         /\ fb24' = d24
<1>0. w \in Nat \ {0}
  BY WidthsAre
<1>1. fb' \in [0..(w - 1) -> Colours] /\ fb24' = d24
  <2>1. CASE ~Kept(w, d24)
    BY <2>1, BlackIs DEF AllocOK
  <2>2. CASE Kept(w, d24) /\ FbWidth = w
    BY <2>2, FbIs DEF AllocOK, Kept
  <2>3. CASE Kept(w, d24) /\ FbWidth # w
    BY <2>3 DEF AllocOK
  <2> QED
    BY <2>1, <2>2, <2>3
<1>2. DOMAIN fb' = 0..(w - 1) /\ Cardinality(DOMAIN fb') = w /\ fb' # NoPic
  BY <1>0, <1>1, PicWidth
<1>3. fb' \in Pics
  BY <1>1 DEF Pics
<1> QED
  BY <1>1, <1>2, <1>3 DEF FbWidth

\* Pixels stored together.
LEMMA PairIs ==
  ASSUME NEW x \in Int, NEW y \in Int
  PROVE  /\ x \in PairOf(x) /\ PairOf(x) \subseteq Int
         /\ x \in PairOf(y) <=> y \in PairOf(x)
<1>1. CASE M3
  BY <1>1 DEF PairOf
<1>2. CASE ~M3
  <2>1. /\ x % 2 \in 0..1 /\ y % 2 \in 0..1
        /\ PairOf(x) = {x - (x % 2), x - (x % 2) + 1}
        /\ PairOf(y) = {y - (y % 2), y - (y % 2) + 1}
    BY <1>2 DEF PairOf
  <2> QED
    BY <2>1
<1> QED
  BY <1>1, <1>2

-----------------------------------------------------------------------------
(* What a step keeps whose variables it does not change.                   *)

\* The types of the core's record.
LEMMA CoreTypesKept ==
  ASSUME CoreTypes, UNCHANGED <<kind, coreVars, histVars>>
  PROVE  CoreTypes'
<1>1. Widths' = Widths /\ UNCHANGED <<kind, attached, ready, width, depth24, want24>>
      /\ UNCHANGED <<ret, dark, struck>>
  BY SameKind, Zenon DEF coreVars, histVars
<1> QED
  BY <1>1, Zenon DEF CoreTypes

\* Those of the buffers.
LEMMA BufTypesKept ==
  ASSUME BufTypes, UNCHANGED <<kind, fb, fb24, pw, m24, out, dirty, enc, queued, first>>
  PROVE  BufTypes'
<1>1. Widths' = Widths /\ Pics' = Pics
  BY SameKind, Zenon
<1> QED
  BY <1>1, Zenon DEF BufTypes

\* The ring.
LEMMA RingKept ==
  ASSUME RingOK, UNCHANGED <<kind, limit, addr, cmd>>, attached' => attached
  PROVE  RingOK'
<1>1. T6' <=> T6
  BY SameKind, Zenon
<1> QED
  BY <1>1, Zenon DEF RingOK

\* The wire buffer.
LEMMA WireKept ==
  ASSUME MsOnly, WireOfFb, UNCHANGED <<kind, fb, wire, rect>>
  PROVE  MsOnly' /\ WireOfFb'
<1>1. (T6' <=> T6) /\ (MS' <=> MS)
  BY SameKind, Zenon
<1> QED
  BY <1>1, Zenon DEF MsOnly, WireOfFb

\* On a T6 there is none.
LEMMA T6WireKept ==
  ASSUME T6, MsOnly, UNCHANGED <<kind, wire, rect>>
  PROVE  MsOnly' /\ WireOfFb'
<1>1. T6' /\ ~MS'
  BY SameKind, OneKind, Zenon
<1> QED
  BY <1>1, Zenon DEF MsOnly, WireOfFb

\* What is current stays so.
LEMMA CurrentKept ==
  ASSUME WireCurrent, UNCHANGED <<kind, fb, wire, rect>>, IsSet' => IsSet
  PROVE  WireCurrent'
<1>1. (MS' <=> MS) /\ \A x : PairOf(x)' = PairOf(x)
  BY SameKind, Zenon DEF PairOf
<1>2. \A x : WireAt(fb, x)' = WireAt(fb, x)
  BY <1>1, Zenon DEF WireAt
<1>3. ASSUME MS', IsSet', NEW x \in DOMAIN fb,
             ~(rect # NoRect /\ PairOf(x) \cap rect[1]..rect[2] # {})
      PROVE  wire[x] = WireAt(fb, x)
  BY <1>1, <1>3, Zenon DEF WireCurrent, IsSet
<1>4. ASSUME MS', IsSet', NEW x \in DOMAIN fb'
      PROVE  \/ rect' # NoRect /\ PairOf(x)' \cap rect'[1]..rect'[2] # {}
             \/ wire'[x] = WireAt(fb, x)'
  <2>1. x \in DOMAIN fb
    BY <1>4, Zenon
  <2>2. CASE rect # NoRect /\ PairOf(x) \cap rect[1]..rect[2] # {}
    BY <1>1, <2>2, Zenon
  <2>3. CASE ~(rect # NoRect /\ PairOf(x) \cap rect[1]..rect[2] # {})
    BY <1>2, <1>3, <1>4, <2>1, <2>3, Zenon
  <2> QED
    BY <2>2, <2>3
<1> QED
  BY <1>4, Zenon DEF WireCurrent, IsSet

\* What holds of a set mode.
LEMMA SetKept ==
  ASSUME SetInv,
         UNCHANGED <<kind, width, struck, depth24, fb, fb24, pw, m24, wire, rect, dirty,
                     queued, shown>>
  PROVE  SetInv'
<1>1. (T6' <=> T6) /\ (MS' <=> MS) /\ (M3' <=> M3)
  BY SameKind, Zenon
<1>2. SetFits'
  BY Zenon DEF SetInv, SetFits, IsSet, Fits, FbWidth
<1>3. RectOK'
  BY Zenon DEF SetInv, RectOK, IsSet
<1>4. WireCurrent'
  BY CurrentKept, Zenon DEF SetInv, IsSet
<1>5. T6Shows'
  BY <1>1, Zenon DEF SetInv, T6Shows, IsSet
<1>6. MsShows'
  BY <1>1, Zenon DEF SetInv, MsShows, IsSet
<1> QED
  BY <1>2, <1>3, <1>4, <1>5, <1>6, Zenon DEF SetInv

\* Of a T6 it says only that the buffer fits and what is shown,
LEMMA T6SetInv ==
  ASSUME T6, UNCHANGED kind, MsOnly', SetFits', T6Shows'
  PROVE  SetInv'
<1>1. T6' /\ ~MS'
  BY SameKind, OneKind, Zenon
<1> QED
  BY <1>1, Zenon DEF SetInv, MsOnly, RectOK, WireCurrent, MsShows

\* of an MS91xx nothing about commands.
LEMMA MsSetInv ==
  ASSUME MS, UNCHANGED kind, SetFits', RectOK', WireCurrent', MsShows'
  PROVE  SetInv'
<1>1. MS' /\ ~T6'
  BY SameKind, OneKind, Zenon
<1> QED
  BY <1>1, Zenon DEF SetInv, T6Shows

-----------------------------------------------------------------------------
(* The modes.                                                              *)

\* ms_alloc_bufs: the wire buffer has the size of the frame buffer.
LEMMA MsAllocIs ==
  ASSUME Types, MS, WireOfFb, UNCHANGED kind, NEW w \in Widths, NEW d24 \in BOOLEAN,
         MsAllocOK(w, d24)
  PROVE  /\ fb' \in Pics /\ fb' # NoPic /\ DOMAIN fb' = 0..(w - 1) /\ FbWidth' = w
         /\ fb24' = d24 /\ WireOfFb' /\ MsOnly'
<1>1. /\ fb' \in Pics /\ fb' # NoPic /\ DOMAIN fb' = 0..(w - 1) /\ FbWidth' = w
      /\ fb24' = d24
  BY AllocIs, Zenon DEF MsAllocOK
<1>2. MS' /\ ~T6'
  BY SameKind, OneKind, Zenon
<1>3. DOMAIN wire' = DOMAIN fb' /\ wire' = [x \in DOMAIN wire' |-> wire'[x]]
  <2>1. CASE Kept(w, d24)
    <3>1. fb' = fb /\ wire' = wire /\ fb # NoPic
      BY <2>1, Zenon DEF MsAllocOK, AllocOK, Kept
    <3> QED
      BY <3>1, Zenon DEF WireOfFb
  <2>2. CASE ~Kept(w, d24)
    <3>1. fb' = Black(w) /\ wire' = Wired(Black(w))
      BY <2>2, Zenon DEF MsAllocOK, AllocOK
    <3>2. \A p : DOMAIN Wired(p) = DOMAIN p /\ Wired(p) = [x \in DOMAIN Wired(p) |-> Wired(p)[x]]
      BY DEF Wired
    <3> QED
      BY <3>1, <3>2, Zenon
  <2> QED
    BY <2>1, <2>2
<1> QED
  BY <1>1, <1>2, <1>3, Zenon DEF WireOfFb, MsOnly

\* The T6 has taken a mode, whether the hardware encoder was created or not.
LEMMA T6SetIs ==
  ASSUME Types, RingOK, MsOnly, UNCHANGED <<kind, attached>>,
         NEW w \in Widths, NEW d24 \in BOOLEAN, NEW ok \in BOOLEAN,
         T6ModeSet(w, d24, ok), UNCHANGED msVars
  PROVE  /\ BufTypes' /\ RingOK' /\ MsOnly' /\ WireOfFb'
         /\ dirty' /\ fb' # NoPic /\ FbWidth' = w /\ pw' = w
         /\ fb24' = m24' /\ (d24 => m24')
<1>0. Widths' = Widths /\ Pics' = Pics /\ (T6' <=> T6)
  BY SameKind, Zenon
<1>1. /\ T6 /\ UNCHANGED <<queued, limit, wire, rect, first>>
      /\ m24' = (d24 \/ kind = "T6PC") /\ AllocOK(w, m24')
      /\ pw' = w /\ addr' = 0 /\ cmd' = NoCmd /\ dirty' = TRUE
      /\ out' \in {out, TRUE}
  BY Zenon DEF T6ModeSet, T6Depth, OutMaybe, msVars
<1>2. enc' \in BOOLEAN
  <2>1. enc' = TRUE \/ enc' = enc
    BY Zenon DEF T6ModeSet
  <2> QED
    BY <2>1, Zenon DEF Types, BufTypes
<1>3. m24' \in BOOLEAN /\ (d24 => m24')
  BY <1>1
<1>4. fb' \in Pics /\ fb' # NoPic /\ FbWidth' = w /\ fb24' = m24'
  BY <1>1, AllocIs
<1>5. BufTypes'
  BY <1>0, <1>1, <1>2, <1>3, <1>4, Zenon DEF Types, BufTypes
<1>6. RingOK'
  <2>1. /\ limit' \in Nat /\ addr' = 0 /\ cmd'.at = 0 /\ cmd'.len = 0 /\ MaxStep \in Nat
    BY <1>1, T6Assumption DEF RingOK, NoCmd
  <2>2. attached' /\ T6' => limit' >= MaxStep
    BY <1>0, <1>1, Zenon DEF RingOK
  <2> QED
    BY <2>1, <2>2 DEF RingOK
<1> QED
  BY <1>1, <1>3, <1>4, <1>5, <1>6, T6WireKept, Zenon

\* A mode set-up that fails leaves buffers of either kind in order.
LEMMA RefusedIs ==
  ASSUME Types, RingOK, MsOnly, WireOfFb, UNCHANGED <<kind, attached>>,
         NEW w \in Widths, NEW d24 \in BOOLEAN,
         \/ T6ModeUnknown /\ UNCHANGED msVars
         \/ T6ModeRefused(w, d24) /\ UNCHANGED msVars
         \/ T6ModeSet(w, d24, FALSE) /\ UNCHANGED msVars
         \/ MsModeUnknown /\ UNCHANGED t6Vars
         \/ Ms2Refused(w, d24) /\ UNCHANGED t6Vars
         \/ MsNoMemory(w, d24) /\ UNCHANGED t6Vars
  PROVE  BufTypes' /\ RingOK' /\ MsOnly' /\ WireOfFb'
<1>0. Widths' = Widths /\ Pics' = Pics /\ (MS' <=> MS) /\ (T6' <=> T6) /\ ~(T6 /\ MS)
  BY SameKind, OneKind, Zenon
<1>1. CASE T6ModeUnknown /\ UNCHANGED msVars
  <2>1. UNCHANGED <<fb, fb24, pw, m24, out, dirty, enc, queued, first, limit, addr, cmd,
                    wire, rect>>
    BY <1>1, Zenon DEF T6ModeUnknown, fbVars, devVars, t6Vars, msVars
  <2> QED
    BY <2>1, BufTypesKept, RingKept, WireKept, Zenon DEF Types
<1>2. CASE T6ModeRefused(w, d24) /\ UNCHANGED msVars
  <2>1. /\ T6 /\ UNCHANGED <<pw, out, dirty, enc, queued, limit, addr, cmd, wire, rect, first>>
        /\ m24' = (d24 \/ kind = "T6PC")
        /\ AllocFails(w, m24') \/ AllocOK(w, m24')
    BY <1>2, Zenon DEF T6ModeRefused, T6Depth, devVars, t6Vars, msVars
  <2>2. m24' \in BOOLEAN
    BY <2>1
  <2>3. fb' \in Pics \cup {NoPic} /\ fb24' \in BOOLEAN
    BY <2>1, <2>2, AllocIs DEF AllocFails
  <2>4. BufTypes'
    BY <1>0, <2>1, <2>2, <2>3, Zenon DEF Types, BufTypes
  <2> QED
    BY <2>1, <2>4, RingKept, T6WireKept, Zenon
<1>3. CASE T6ModeSet(w, d24, FALSE) /\ UNCHANGED msVars
  BY <1>3, T6SetIs, Zenon
<1>4. CASE MsModeUnknown /\ UNCHANGED t6Vars
  <2>1. UNCHANGED <<fb, fb24, pw, m24, out, dirty, enc, queued, first, limit, addr, cmd,
                    wire, rect>>
    BY <1>4, Zenon DEF MsModeUnknown, fbVars, devVars, t6Vars, msVars
  <2> QED
    BY <2>1, BufTypesKept, RingKept, WireKept, Zenon DEF Types
<1>5. CASE Ms2Refused(w, d24) /\ UNCHANGED t6Vars
  <2>1. /\ UNCHANGED <<dirty, enc, queued, limit, addr, cmd, rect, first>>
        /\ MS /\ m24' = d24 /\ MsAllocOK(w, d24) /\ pw' = w /\ out' \in {out, FALSE}
    BY <1>5, Zenon DEF Ms2Refused, OutMaybe, t6Vars, MS
  <2>2. /\ fb' \in Pics /\ fb24' \in BOOLEAN /\ WireOfFb' /\ MsOnly'
    BY <2>1, MsAllocIs
  <2>3. BufTypes'
    BY <1>0, <2>1, <2>2, Zenon DEF Types, BufTypes
  <2> QED
    BY <2>1, <2>2, <2>3, RingKept, Zenon
<1>6. CASE MsNoMemory(w, d24) /\ UNCHANGED t6Vars
  <2>1. /\ UNCHANGED <<pw, out, dirty, enc, queued, limit, addr, cmd, rect, first>>
        /\ MS /\ m24' = FALSE /\ fb' = NoPic /\ fb24' = FALSE /\ wire' = NoPic
    BY <1>6, Zenon DEF MsNoMemory, AllocFails, devVars, t6Vars
  <2>2. BufTypes'
    BY <1>0, <2>1, Zenon DEF Types, BufTypes
  <2>3. MsOnly' /\ WireOfFb'
    BY <1>0, <2>1, Zenon DEF MsOnly, WireOfFb
  <2> QED
    BY <2>1, <2>2, <2>3, RingKept, Zenon
<1> QED
  BY <1>1, <1>2, <1>3, <1>4, <1>5, <1>6, Zenon

\* An MS91xx has taken a mode, with d24 or with 2 bytes a pixel for lack of memory.
LEMMA MsSetIs ==
  ASSUME Types, RingOK, WireOfFb, UNCHANGED <<kind, attached>>,
         NEW w \in Widths, NEW d24 \in BOOLEAN,
         MsModeSet(w, d24) \/ (MsModeSet565(w) /\ ~d24), UNCHANGED t6Vars
  PROVE  /\ MS /\ BufTypes' /\ RingOK' /\ MsOnly' /\ WireOfFb'
         /\ rect' = <<0, w - 1>> /\ fb' # NoPic /\ DOMAIN fb' = 0..(w - 1) /\ FbWidth' = w
         /\ pw' = w /\ fb24' = m24' /\ m24' = d24
<1>0. Widths' = Widths /\ Pics' = Pics /\ (MS' <=> MS) /\ (T6' <=> T6) /\ ~(T6 /\ MS)
  BY SameKind, OneKind, Zenon
<1>1. MS /\ MsModeOn(w) /\ UNCHANGED <<dirty, enc, queued, limit, addr, cmd>> /\ m24' = d24
  BY Zenon DEF MsModeSet, MsModeSet565, t6Vars
<1>2. /\ fb' \in Pics /\ fb' # NoPic /\ DOMAIN fb' = 0..(w - 1) /\ FbWidth' = w
      /\ fb24' = d24 /\ WireOfFb' /\ MsOnly'
  <2>1. CASE MsModeSet(w, d24)
    BY <2>1, MsAllocIs, Zenon DEF MsModeSet
  <2>2. CASE MsModeSet565(w) /\ ~d24
    <3>1. fb' = Black(w) /\ fb24' = FALSE /\ wire' = Wired(Black(w))
      BY <2>2, Zenon DEF MsModeSet565
    <3>2. w \in Nat \ {0} /\ fb' \in [0..(w - 1) -> Colours] /\ fb' \in Pics
      BY <3>1, BlackIs, WidthsAre
    <3>3. DOMAIN fb' = 0..(w - 1) /\ Cardinality(DOMAIN fb') = w /\ fb' # NoPic
      BY <3>2, PicWidth
    <3>4. \A p : DOMAIN Wired(p) = DOMAIN p /\ Wired(p) = [x \in DOMAIN Wired(p) |-> Wired(p)[x]]
      BY DEF Wired
    <3>5. MS' /\ ~T6'
      BY <1>0, <1>1, Zenon
    <3>6. WireOfFb' /\ MsOnly'
      BY <3>1, <3>3, <3>4, <3>5, Zenon DEF WireOfFb, MsOnly
    <3> QED
      BY <2>2, <3>1, <3>2, <3>3, <3>6 DEF FbWidth
  <2> QED
    BY <2>1, <2>2
<1>3. pw' = w /\ rect' = <<0, w - 1>> /\ out' \in BOOLEAN /\ first' \in BOOLEAN
  <2>1. pw' = w /\ rect' = <<0, w - 1>>
    BY <1>1, Zenon DEF MsModeOn
  <2>2. out' \in {out, TRUE, FALSE} /\ first' \in {first, TRUE}
    BY <1>1, Zenon DEF MsModeOn, OutMaybe
  <2> QED
    BY <2>1, <2>2, Zenon DEF Types, BufTypes
<1>4. BufTypes'
  BY <1>0, <1>1, <1>2, <1>3, Zenon DEF Types, BufTypes
<1>5. RingOK'
  BY <1>1, RingKept, Zenon
<1> QED
  BY <1>1, <1>2, <1>3, <1>4, <1>5, Zenon

\* With the mode set, everything of it is right: the picture is not known to be
\* shown, the whole of it is dirty.
LEMMA SetOfMode ==
  ASSUME UNCHANGED kind, NEW w \in Widths, IsSet' => width' = w,
         fb' # NoPic, FbWidth' = w, pw' = w, fb24' = m24', depth24' => m24', MsOnly',
         \/ T6 /\ dirty'
         \/ MS /\ rect' = <<0, w - 1>> /\ DOMAIN fb' = 0..(w - 1)
  PROVE  SetInv'
<1>1. SetFits'
  BY Zenon DEF SetFits, Fits
<1>2. CASE T6 /\ dirty'
  <2>1. T6Shows'
    BY <1>2, Zenon DEF T6Shows
  <2> QED
    BY <1>1, <1>2, <2>1, T6SetInv, Zenon
<1>3. CASE MS /\ rect' = <<0, w - 1>> /\ DOMAIN fb' = 0..(w - 1)
  <2>0. w \in Nat \ {0}
    BY WidthsAre
  <2>1. RectOK'
    <3>1. rect'[1] = 0 /\ rect'[2] = w - 1
      BY <1>3
    <3> QED
      BY <2>0, <3>1 DEF RectOK
  <2>2. rect' # NoRect
    <3>1. DOMAIN <<0, w - 1>> = {1, 2} /\ DOMAIN NoRect = {}
      BY DEF NoRect
    <3> QED
      BY <1>3, <3>1
  <2>3. WireCurrent'
    <3>1. ASSUME NEW x \in 0..(w - 1)
          PROVE  PairOf(x)' \cap 0..(w - 1) # {}
      <4>1. PairOf(x)' = PairOf(x) /\ x \in Int
        BY SameKind DEF PairOf
      <4>2. x \in PairOf(x)
        BY <4>1, PairIs
      <4> QED
        BY <4>1, <4>2, Zenon
    <3>2. rect'[1] = 0 /\ rect'[2] = w - 1
      BY <1>3
    <3> QED
      BY <1>3, <2>2, <3>1, <3>2, Zenon DEF WireCurrent
  <2>4. MsShows'
    BY <2>2, Zenon DEF MsShows
  <2> QED
    BY <1>1, <1>3, <2>1, <2>3, <2>4, MsSetInv, Zenon
<1> QED
  BY <1>2, <1>3

\* usb_disp_set_mode_ex, whatever comes of it.
LEMMA SetModeExKeeps ==
  ASSUME FramesInv, NEW w \in Widths, NEW d24 \in BOOLEAN, SetModeEx(w, d24),
         want24' \in BOOLEAN
  PROVE  FramesInv'
<1>0. /\ Types /\ RingOK /\ MsOnly /\ WireOfFb
      /\ UNCHANGED <<kind, attached, ready>> /\ dark' = FALSE /\ ret' = "none"
      /\ Widths' = Widths
  BY SameKind, Zenon DEF FramesInv, SetModeEx, Quiet
<1>1. ASSUME depth24' \in BOOLEAN, width' \in {width, w},
             struck' \in {struck \cup {"mode"}, {}},
             BufTypes', RingOK', MsOnly', WireOfFb', SetInv'
      PROVE  FramesInv'
  <2>1. struck' \subseteq {"mode", "dropped", "unsent"}
    BY <1>0, <1>1 DEF Types, CoreTypes
  <2>2. CoreTypes'
    BY <1>0, <1>1, <2>1, Zenon DEF Types, CoreTypes
  <2>3. FlushShows'
    BY <1>0, Zenon DEF FlushShows
  <2> QED
    BY <1>1, <2>2, <2>3, Zenon DEF FramesInv, Types
<1>2. ASSUME struck' = struck \cup {"mode"}, UNCHANGED width, depth24' \in BOOLEAN,
             \/ T6ModeUnknown /\ UNCHANGED msVars
             \/ T6ModeRefused(w, d24) /\ UNCHANGED msVars
             \/ T6ModeSet(w, d24, FALSE) /\ UNCHANGED msVars
             \/ MsModeUnknown /\ UNCHANGED t6Vars
             \/ Ms2Refused(w, d24) /\ UNCHANGED t6Vars
             \/ MsNoMemory(w, d24) /\ UNCHANGED t6Vars
      PROVE  FramesInv'
  <2>1. BufTypes' /\ RingOK' /\ MsOnly' /\ WireOfFb'
    BY <1>0, <1>2, RefusedIs, Zenon
  <2>2. SetInv'
    <3>1. ~IsSet'
      BY <1>2 DEF IsSet
    <3> QED
      BY <3>1, Zenon DEF SetInv, SetFits, RectOK, WireCurrent, T6Shows, MsShows, IsSet
  <2> QED
    BY <1>1, <1>2, <2>1, <2>2, Zenon
<1>3. CASE ModeFails(w, d24)
  BY <1>2, <1>3, Zenon DEF ModeFails
<1>4. CASE NoMemory(w, d24)
  <2>1. depth24' \in BOOLEAN
    BY <1>4 DEF NoMemory
  <2> QED
    BY <1>2, <1>4, <2>1, Zenon DEF NoMemory
<1>5. CASE ModeSet(w, d24)
  <2>0. width' = w /\ struck' = {}
    BY <1>5, Zenon DEF ModeSet
  <2>1. CASE depth24' = d24 /\ T6ModeSet(w, d24, TRUE) /\ UNCHANGED msVars
    <3>0. TRUE \in BOOLEAN
      OBVIOUS
    <3>1. /\ BufTypes' /\ RingOK' /\ MsOnly' /\ WireOfFb'
          /\ dirty' /\ fb' # NoPic /\ FbWidth' = w /\ pw' = w
          /\ fb24' = m24' /\ (d24 => m24')
      BY <1>0, <2>1, <3>0, T6SetIs, Zenon
    <3>2. T6
      BY <2>1, Zenon DEF T6ModeSet
    <3>3. SetInv'
      BY <1>0, <2>0, <2>1, <3>1, <3>2, SetOfMode, Zenon
    <3> QED
      BY <1>1, <2>0, <2>1, <3>1, <3>3, Zenon
  <2>2. ASSUME NEW e \in BOOLEAN, depth24' = e,
               MsModeSet(w, e) \/ (MsModeSet565(w) /\ ~e), UNCHANGED t6Vars
        PROVE  FramesInv'
    <3>1. /\ MS /\ BufTypes' /\ RingOK' /\ MsOnly' /\ WireOfFb'
          /\ rect' = <<0, w - 1>> /\ fb' # NoPic /\ DOMAIN fb' = 0..(w - 1) /\ FbWidth' = w
          /\ pw' = w /\ fb24' = m24' /\ m24' = e
      BY <1>0, <2>2, MsSetIs, Zenon
    <3>2. SetInv'
      BY <1>0, <2>0, <2>2, <3>1, SetOfMode, Zenon
    <3> QED
      BY <1>1, <2>0, <2>2, <3>1, <3>2, Zenon
  <2> QED
    BY <1>5, <2>1, <2>2, Zenon DEF ModeSet
<1> QED
  BY <1>3, <1>4, <1>5, Zenon DEF SetModeEx

\* usb_disp_set_mode_hz.
LEMMA SetModeKeeps ==
  ASSUME FramesInv, NEW w \in Widths, SetMode(w)
  PROVE  FramesInv'
<1>1. want24 \in BOOLEAN
  BY Zenon DEF FramesInv, Types, CoreTypes
<1> QED
  BY <1>1, SetModeExKeeps, Zenon DEF SetMode

\* usb_disp_set_depth: the mode is set again, if there is one.
LEMMA SetDepthKeeps ==
  ASSUME FramesInv, NEW b \in BOOLEAN, SetDepth(b)
  PROVE  FramesInv'
<1>0. CoreTypes /\ BufTypes /\ RingOK /\ MsOnly /\ WireOfFb /\ SetInv /\ want24' = b
  BY Zenon DEF FramesInv, Types, SetDepth
<1>1. CASE ready /\ width > 0
  <2>1. width \in Widths
    BY <1>0, <1>1 DEF CoreTypes
  <2> QED
    BY <1>0, <1>1, <2>1, SetModeExKeeps, Zenon DEF SetDepth
<1>2. CASE ~(ready /\ width > 0)
  <2>1. /\ UNCHANGED <<kind, attached, ready, width, depth24, fb, fb24, pw, m24, out, shown>>
        /\ UNCHANGED <<dirty, enc, queued, limit, addr, cmd, wire, rect, first, dark, struck>>
        /\ ret' = "none"
    BY <1>2, Zenon DEF SetDepth, Quiet, fbVars, devVars, t6Vars, msVars
  <2>2. CoreTypes'
    BY <1>0, <2>1, SameKind, Zenon DEF CoreTypes
  <2>3. BufTypes' /\ RingOK' /\ MsOnly' /\ WireOfFb' /\ SetInv'
    BY <1>0, <2>1, BufTypesKept, RingKept, WireKept, SetKept, Zenon
  <2>4. FlushShows'
    BY <2>1, Zenon DEF FlushShows
  <2> QED
    BY <2>2, <2>3, <2>4, Zenon DEF FramesInv, Types
<1> QED
  BY <1>1, <1>2

\* ms_blank(false) of the MS912x.
LEMMA Unblank912Keeps ==
  ASSUME FramesInv, Unblank912
  PROVE  FramesInv'
<1>0. /\ Types /\ RingOK /\ MsOnly /\ WireOfFb /\ SetInv
      /\ UNCHANGED <<kind, attached, ready, width, want24>> /\ UNCHANGED t6Vars
      /\ dark' = FALSE /\ ret' = "none" /\ Widths' = Widths
      /\ depth24 \in BOOLEAN
  BY SameKind, Zenon DEF FramesInv, Unblank912, Quiet, Types, CoreTypes
<1>1. ASSUME depth24' \in BOOLEAN, struck' \in {struck \cup {"mode"}, struck},
             BufTypes', RingOK', MsOnly', WireOfFb', SetInv'
      PROVE  FramesInv'
  <2>1. struck' \subseteq {"mode", "dropped", "unsent"}
    BY <1>0, <1>1 DEF Types, CoreTypes
  <2>2. CoreTypes'
    BY <1>0, <1>1, <2>1, Zenon DEF Types, CoreTypes
  <2>3. FlushShows'
    BY <1>0, Zenon DEF FlushShows
  <2> QED
    BY <1>1, <2>2, <2>3, Zenon DEF FramesInv, Types
<1>2. pw \in Widths
  BY <1>0 DEF Types, BufTypes, Unblank912
<1>3. ASSUME struck' = struck \cup {"mode"}, depth24' \in BOOLEAN,
             Ms2Refused(pw, depth24) \/ MsNoMemory(pw, depth24)
      PROVE  FramesInv'
  <2>1. BufTypes' /\ RingOK' /\ MsOnly' /\ WireOfFb'
    BY <1>0, <1>2, <1>3, RefusedIs, Zenon
  <2>2. SetInv'
    <3>1. ~IsSet'
      BY <1>3 DEF IsSet
    <3> QED
      BY <3>1, Zenon DEF SetInv, SetFits, RectOK, WireCurrent, T6Shows, MsShows, IsSet
  <2> QED
    BY <1>1, <1>3, <2>1, <2>2, Zenon
<1>4. ASSUME NEW e \in BOOLEAN, depth24' = e, struck' = struck,
             MsModeSet(pw, e) \/ (MsModeSet565(pw) /\ ~e)
      PROVE  FramesInv'
  <2>1. /\ MS /\ BufTypes' /\ RingOK' /\ MsOnly' /\ WireOfFb'
        /\ rect' = <<0, pw - 1>> /\ fb' # NoPic /\ DOMAIN fb' = 0..(pw - 1)
        /\ FbWidth' = pw /\ pw' = pw /\ fb24' = m24' /\ m24' = e
    BY <1>0, <1>2, <1>4, MsSetIs, Zenon
  <2>2. IsSet' => width' = pw
    BY <1>0, <1>4, Zenon DEF IsSet, SetInv, SetFits, Fits
  <2>3. SetInv'
    BY <1>0, <1>2, <1>4, <2>1, <2>2, SetOfMode, Zenon
  <2> QED
    BY <1>1, <1>4, <2>1, <2>3, Zenon
<1> QED
  BY <1>0, <1>3, <1>4, Zenon DEF Unblank912

-----------------------------------------------------------------------------
(* The life cycle.                                                         *)

\* A device comes.
LEMMA AttachKeeps ==
  ASSUME FramesInv, Attach
  PROVE  FramesInv'
<1>0. /\ CoreTypes /\ BufTypes /\ RingOK /\ MsOnly /\ WireOfFb /\ SetInv
      /\ UNCHANGED <<kind, ready, width, depth24, want24, fb, fb24, pw, m24, out, shown>>
      /\ UNCHANGED <<wire, rect, first, dark, struck>>
      /\ attached' = TRUE /\ ret' = "none" /\ (T6' <=> T6)
  BY SameKind, Zenon DEF FramesInv, Types, Attach, Quiet, fbVars, devVars, msVars
<1>1. UNCHANGED <<dirty, enc, queued>>
  BY Zenon DEF Attach, T6Attach, t6Vars
<1>2. RingOK'
  <2>1. CASE T6Attach
    <3>1. PICK mb \in Vram : mb >= 16 /\ limit' = mb - 12
      BY <2>1, Zenon DEF T6Attach
    <3>2. addr' = 0 /\ cmd'.at = 0 /\ cmd'.len = 0
      BY <2>1 DEF T6Attach, NoCmd
    <3>3. limit' \in Nat /\ limit' >= 4 /\ MaxStep \in 1..4
      BY <3>1, T6Assumption
    <3> QED
      BY <3>2, <3>3 DEF RingOK
  <2>2. CASE MS /\ UNCHANGED t6Vars
    <3>1. ~T6' /\ UNCHANGED <<limit, addr, cmd>>
      BY <1>0, <2>2, OneKind, Zenon DEF t6Vars
    <3> QED
      BY <1>0, <3>1, Zenon DEF RingOK
  <2> QED
    BY <2>1, <2>2, Zenon DEF Attach
<1>3. CoreTypes'
  <2>1. attached' \in BOOLEAN
    BY <1>0
  <2> QED
    BY <1>0, <2>1, SameKind, Zenon DEF CoreTypes
<1>4. BufTypes' /\ MsOnly' /\ WireOfFb' /\ SetInv'
  BY <1>0, <1>1, BufTypesKept, WireKept, SetKept, Zenon
<1>5. FlushShows'
  BY <1>0, Zenon DEF FlushShows
<1> QED
  BY <1>2, <1>3, <1>4, <1>5, Zenon DEF FramesInv, Types

\* The set-up of the mode is over.
LEMMA BecomeReadyKeeps ==
  ASSUME FramesInv, BecomeReady
  PROVE  FramesInv'
<1>0. /\ CoreTypes /\ BufTypes /\ RingOK /\ MsOnly /\ WireOfFb /\ SetInv
      /\ UNCHANGED <<kind, attached, width, depth24, want24, fb, fb24, pw, m24, out, shown>>
      /\ UNCHANGED <<dirty, enc, queued, limit, addr, cmd, wire, rect, first, dark, struck>>
      /\ ready' = TRUE /\ ret' = "none"
  BY Zenon DEF FramesInv, Types, BecomeReady, Quiet, fbVars, devVars, t6Vars, msVars
<1>1. CoreTypes'
  <2>1. ready' \in BOOLEAN
    BY <1>0
  <2> QED
    BY <1>0, <2>1, SameKind, Zenon DEF CoreTypes
<1>2. BufTypes' /\ RingOK' /\ MsOnly' /\ WireOfFb' /\ SetInv'
  BY <1>0, BufTypesKept, RingKept, WireKept, SetKept, Zenon
<1>3. FlushShows'
  BY <1>0, Zenon DEF FlushShows
<1> QED
  BY <1>1, <1>2, <1>3, Zenon DEF FramesInv, Types

\* A device goes: nothing is set any more.
LEMMA DetachKeeps ==
  ASSUME FramesInv, Detach
  PROVE  FramesInv'
<1>0. /\ CoreTypes /\ BufTypes /\ RingOK /\ MsOnly /\ WireOfFb
      /\ UNCHANGED <<kind, depth24, want24, fb, fb24, pw, m24, enc, limit, addr, cmd, first>>
      /\ attached' = FALSE /\ ready' = FALSE /\ width' = 0 /\ out' = FALSE /\ dark' = FALSE
      /\ struck' = {} /\ ret' = "none" /\ (T6' <=> T6) /\ (MS' <=> MS)
      /\ Widths' = Widths /\ Pics' = Pics
  BY SameKind, Zenon
     DEF FramesInv, Types, Detach, Quiet, fbVars, T6Detach, MsDetach, t6Vars, msVars
<1>1. /\ UNCHANGED wire /\ rect' \in {rect, NoRect}
      /\ dirty' \in {dirty, FALSE} /\ queued' \in {queued, NoPic}
  BY Zenon DEF Detach, T6Detach, MsDetach, t6Vars, msVars
<1>2. CoreTypes' /\ BufTypes'
  <2>1. FALSE \in BOOLEAN /\ {} \subseteq {"mode", "dropped", "unsent"}
    OBVIOUS
  <2>2. dirty' \in BOOLEAN /\ queued' \in Pics \cup {NoPic}
    BY <1>0, <1>1, <2>1, Zenon DEF BufTypes
  <2>3. BufTypes'
    BY <1>0, <1>1, <2>1, <2>2, Zenon DEF BufTypes
  <2>4. CoreTypes'
    BY <1>0, <2>1, Zenon DEF CoreTypes
  <2> QED
    BY <2>3, <2>4
<1>3. RingOK'
  BY <1>0, RingKept, Zenon
<1>4. MsOnly' /\ WireOfFb'
  BY <1>0, <1>1, Zenon DEF MsOnly, WireOfFb
<1>5. SetInv'
  <2>1. ~(width' > 0)
    BY <1>0
  <2> QED
    BY <2>1, Zenon DEF SetInv, SetFits, RectOK, WireCurrent, T6Shows, MsShows, IsSet
<1>6. FlushShows'
  BY <1>0, Zenon DEF FlushShows
<1> QED
  BY <1>2, <1>3, <1>4, <1>5, <1>6, Zenon DEF FramesInv, Types

-----------------------------------------------------------------------------
(* Drawing.                                                                *)

\* A buffer that fits has the width of the mode.
LEMMA FitsIs ==
  ASSUME Types, Fits
  PROVE  /\ width \in Nat /\ width > 0 /\ width \in Widths
         /\ pw = width /\ DOMAIN fb = 0..(width - 1)
<1>1. fb # NoPic /\ FbWidth = width /\ pw = width
  BY Zenon DEF Fits
<1>2. FbWidth \in Widths /\ DOMAIN fb = 0..(FbWidth - 1)
  BY <1>1, FbIs, Zenon
<1>3. width \in Widths /\ DOMAIN fb = 0..(width - 1)
  BY <1>1, <1>2, Zenon
<1>4. width \in Nat /\ width > 0
  BY <1>3, WidthsAre
<1> QED
  BY <1>1, <1>3, <1>4

\* t6_update, ms_update: only the pixels drawn change.
LEMMA DrawnIs ==
  ASSUME Types, Fits, NEW x, NEW n, NEW c \in Colours
  PROVE  /\ Drawn(x, n, c) \in [DOMAIN fb -> Colours]
         /\ \A i \in DOMAIN fb : i \notin x..(x + n - 1) => Drawn(x, n, c)[i] = fb[i]
<1>1. fb \in [DOMAIN fb -> Colours]
  BY FbIs DEF Fits
<1> QED
  BY <1>1 DEF Drawn

\* t6_copy, ms_copy: the pixels they read lie in the buffer.
LEMMA MovedIs ==
  ASSUME Types, Fits, NEW sx \in Nat, NEW dx \in Nat, NEW n \in Nat,
         sx + n <= width, dx + n <= width
  PROVE  /\ Moved(sx, dx, n) \in [DOMAIN fb -> Colours]
         /\ \A i \in DOMAIN fb : i \notin dx..(dx + n - 1) => Moved(sx, dx, n)[i] = fb[i]
<1>1. /\ fb \in [DOMAIN fb -> Colours] /\ DOMAIN fb = 0..(width - 1)
      /\ width \in Nat
  BY FbIs, WidthsAre DEF Fits
<1>2. ASSUME NEW i \in dx..(dx + n - 1)
      PROVE  sx + i - dx \in DOMAIN fb
  BY <1>1
<1> QED
  BY <1>1, <1>2 DEF Moved

\* ms_dirty_add of pixels that lie in the buffer.
LEMMA DirtyIs ==
  ASSUME NEW x \in Nat, NEW n \in Nat \ {0}, NEW w \in Nat, w < Bits16, x + n <= w,
         rect # NoRect => /\ rect[1] \in Int /\ rect[2] \in Int
                          /\ 0 <= rect[1] /\ rect[1] <= rect[2] /\ rect[2] < w,
         DirtyAdd(x, n)
  PROVE  /\ rect' # NoRect /\ rect'[1] \in Int /\ rect'[2] \in Int
         /\ 0 <= rect'[1] /\ rect'[1] <= rect'[2] /\ rect'[2] < w
         /\ rect'[1] <= x /\ x + n - 1 <= rect'[2]
         /\ rect # NoRect => rect'[1] <= rect[1] /\ rect[2] <= rect'[2]
<1>1. x + n - 1 \in Nat /\ (x + n - 1) % 65536 = x + n - 1 /\ x <= x + n - 1 /\ x + n - 1 < w
  BY DEF Bits16
<1> DEFINE x1 == x + n - 1
<1>2. rect' = IF rect = NoRect THEN <<x, x1>>
              ELSE <<IF x < rect[1] THEN x ELSE rect[1], IF x1 > rect[2] THEN x1 ELSE rect[2]>>
  BY <1>1 DEF DirtyAdd
<1>3. x1 \in Nat /\ x <= x1 /\ x1 < w
  BY <1>1
<1> HIDE DEF x1
<1>4. \A a, b : <<a, b>> # NoRect /\ <<a, b>>[1] = a /\ <<a, b>>[2] = b
  <2>1. \A a, b : 1 \in DOMAIN <<a, b>> /\ <<a, b>>[1] = a /\ <<a, b>>[2] = b
    OBVIOUS
  <2>2. 1 \notin DOMAIN NoRect
    BY DEF NoRect
  <2> QED
    BY <2>1, <2>2
<1>5. CASE rect = NoRect
  <2>1. rect' = <<x, x1>>
    BY <1>2, <1>5, Zenon
  <2>2. rect' # NoRect /\ rect'[1] = x /\ rect'[2] = x1
    BY <1>4, <2>1, Zenon
  <2> QED
    BY <1>3, <1>5, <2>2 DEF x1
<1>6. CASE rect # NoRect
  <2> DEFINE a == IF x < rect[1] THEN x ELSE rect[1]
             b == IF x1 > rect[2] THEN x1 ELSE rect[2]
  <2>1. rect' = <<a, b>>
    BY <1>2, <1>6, Zenon
  <2>2. rect' # NoRect /\ rect'[1] = a /\ rect'[2] = b
    <3> HIDE DEF a, b
    <3> QED
      BY <1>4, <2>1, Zenon
  <2>3. /\ a \in Int /\ b \in Int /\ 0 <= a /\ a <= b /\ b < w /\ a <= x /\ x1 <= b
        /\ a <= rect[1] /\ rect[2] <= b
    BY <1>3, <1>6
  <2> HIDE DEF a, b
  <2> QED
    BY <2>2, <2>3 DEF x1
<1> QED
  BY <1>5, <1>6

\* A wire buffer is current while what changes in the frame buffer is dirty.
LEMMA StaysCurrent ==
  ASSUME MS, Types, UNCHANGED <<kind, wire>>, WireCurrent, IsSet, Fits, DOMAIN fb' = DOMAIN fb,
         rect # NoRect => rect[1] \in Int /\ rect[2] \in Int,
         rect' # NoRect, rect'[1] \in Int, rect'[2] \in Int,
         rect # NoRect => rect'[1] <= rect[1] /\ rect[2] <= rect'[2],
         \A i \in DOMAIN fb : i \notin rect'[1]..rect'[2] => fb'[i] = fb[i]
  PROVE  WireCurrent'
<1>1. /\ MS' /\ (M3' <=> M3) /\ DOMAIN fb \subseteq Int
  <2>1. DOMAIN fb = 0..(FbWidth - 1)
    BY FbIs DEF Fits
  <2> QED
    BY <2>1, SameKind
<1>2. \A x : PairOf(x)' = PairOf(x)
  BY <1>1, Zenon DEF PairOf
<1>3. ASSUME NEW x \in DOMAIN fb, PairOf(x) \cap rect'[1]..rect'[2] = {}
      PROVE  wire[x] = [i \in PairOf(x) \cap DOMAIN fb |-> fb'[i]]
  <2>1. \A i \in PairOf(x) \cap DOMAIN fb : fb'[i] = fb[i]
    BY <1>3
  <2>2. rect = NoRect \/ PairOf(x) \cap rect[1]..rect[2] = {}
    <3> SUFFICES ASSUME rect # NoRect, NEW i \in PairOf(x), i \in rect[1]..rect[2]
                 PROVE  FALSE
      OBVIOUS
    <3>1. i \in rect'[1]..rect'[2]
      OBVIOUS
    <3> QED
      BY <1>3, <3>1
  <2>3. wire[x] = WireAt(fb, x)
    BY <2>2, Zenon DEF WireCurrent, IsSet
  <2> QED
    BY <2>1, <2>3 DEF WireAt
<1> QED
  BY <1>1, <1>2, <1>3, Zenon DEF WireCurrent, WireAt

\* Drawing into a buffer that fits, on either kind of display.
LEMMA DrawKeeps ==
  ASSUME FramesInv, NEW x \in Nat, NEW n \in Nat \ {0}, DrawTo(x, n),
         fb' \in [DOMAIN fb -> Colours],
         \A i \in DOMAIN fb : i \notin x..(x + n - 1) => fb'[i] = fb[i]
  PROVE  FramesInv'
<1>0. /\ Types /\ CoreTypes /\ BufTypes /\ RingOK /\ MsOnly /\ WireOfFb /\ SetInv
      /\ Fits /\ x + n <= width /\ ret' = "none"
      /\ UNCHANGED <<kind, attached, ready, width, depth24, want24, fb24, pw, m24, out, shown>>
      /\ UNCHANGED <<dark, struck>>
  BY Zenon DEF FramesInv, Types, DrawTo, Quiet, coreVars, devVars
<1>1. /\ DOMAIN fb' = DOMAIN fb /\ fb # NoPic /\ DOMAIN fb = 0..(FbWidth - 1)
      /\ FbWidth = width /\ FbWidth \in Widths /\ FbWidth \in Nat \ {0} /\ pw = width
  BY <1>0, FbIs, WidthsAre DEF Fits
<1>2. fb' \in Pics /\ fb' # NoPic /\ FbWidth' = FbWidth
  <2>1. fb' \in [0..(FbWidth - 1) -> Colours]
    BY <1>1
  <2>2. fb' \in Pics
    BY <1>1, <2>1 DEF Pics
  <2>3. fb' # NoPic
    BY <1>1, <2>1, PicWidth
  <2> QED
    BY <1>1, <2>2, <2>3 DEF FbWidth
<1>3. CoreTypes'
  <2>1. UNCHANGED Widths
    BY <1>0, SameKind, Zenon
  <2>2. ret' \in {"none", "flush"}
    BY <1>0
  <2> QED
    BY <1>0, <2>1, <2>2, Zenon DEF CoreTypes
<1>4. SetFits'
  BY <1>0, <1>1, <1>2, Zenon DEF SetFits, Fits
<1>5. FlushShows'
  BY <1>0, Zenon DEF FlushShows
<1>6. CASE T6Draw /\ UNCHANGED msVars
  <2>1. T6 /\ dirty' = TRUE /\ UNCHANGED <<enc, queued, limit, addr, cmd, wire, rect, first>>
    BY <1>6, Zenon DEF T6Draw, msVars
  <2>2. BufTypes'
    <3>1. dirty' \in BOOLEAN
      BY <2>1
    <3> QED
      BY <1>0, <1>2, <2>1, <3>1, SameKind, Zenon DEF BufTypes
  <2>3. MsOnly' /\ WireOfFb'
    BY <1>0, <2>1, T6WireKept, Zenon
  <2>4. T6Shows'
    BY <2>1, Zenon DEF T6Shows
  <2>5. SetInv' /\ RingOK'
    BY <1>0, <1>4, <2>1, <2>3, <2>4, T6SetInv, RingKept, Zenon
  <2> QED
    BY <1>3, <1>5, <2>2, <2>3, <2>5, Zenon DEF FramesInv, Types
<1>7. CASE MsDraw(x, n) /\ UNCHANGED t6Vars
  <2>1. /\ MS /\ DirtyAdd(x, n) /\ UNCHANGED <<wire, first>>
        /\ UNCHANGED <<dirty, enc, queued, limit, addr, cmd>>
    BY <1>7, Zenon DEF MsDraw, t6Vars
  <2>2. BufTypes'
    BY <1>0, <1>2, <2>1, SameKind, Zenon DEF BufTypes
  <2>3. MsOnly' /\ WireOfFb'
    <3>1. MS' /\ ~T6'
      BY <1>0, <2>1, SameKind, OneKind, Zenon
    <3> QED
      BY <1>0, <1>1, <1>2, <2>1, <3>1, Zenon DEF MsOnly, WireOfFb
  <2>4. SetInv'
    <3>1. CASE ~IsSet
      <4>1. ~IsSet'
        BY <1>0, <3>1, Zenon DEF IsSet
      <4> QED
        BY <4>1, Zenon DEF SetInv, SetFits, RectOK, WireCurrent, T6Shows, MsShows, IsSet
    <3>2. CASE IsSet
      <4>1. rect # NoRect => /\ rect[1] \in Int /\ rect[2] \in Int
                             /\ 0 <= rect[1] /\ rect[1] <= rect[2] /\ rect[2] < width
        BY <1>0, <1>1, <3>2, Zenon DEF SetInv, RectOK
      <4>2. width \in Nat /\ width < Bits16
        BY <1>1, <2>1, WidthsAre
      <4>3. /\ rect' # NoRect /\ rect'[1] \in Int /\ rect'[2] \in Int
            /\ 0 <= rect'[1] /\ rect'[1] <= rect'[2] /\ rect'[2] < width
            /\ rect'[1] <= x /\ x + n - 1 <= rect'[2]
            /\ rect # NoRect => rect'[1] <= rect[1] /\ rect[2] <= rect'[2]
        BY <1>0, <2>1, <4>1, <4>2, DirtyIs
      <4>4. RectOK'
        BY <1>0, <1>1, <4>3, Zenon DEF RectOK
      <4>5. \A i \in DOMAIN fb : i \notin rect'[1]..rect'[2] => fb'[i] = fb[i]
        <5>1. \A i \in x..(x + n - 1) : i \in rect'[1]..rect'[2]
          BY <4>3
        <5> QED
          BY <5>1, Zenon
      <4>6. WireCurrent'
        <5>1. WireCurrent
          BY <1>0, Zenon DEF SetInv
        <5> QED
          BY <1>0, <1>1, <2>1, <3>2, <4>1, <4>3, <4>5, <5>1, StaysCurrent, Zenon
      <4>7. MsShows'
        BY <4>3, Zenon DEF MsShows
      <4> QED
        BY <1>0, <1>4, <2>1, <4>4, <4>6, <4>7, MsSetInv, Zenon
    <3> QED
      BY <3>1, <3>2
  <2>5. RingOK'
    BY <1>0, <2>1, RingKept, Zenon
  <2> QED
    BY <1>3, <1>5, <2>2, <2>3, <2>4, <2>5, Zenon DEF FramesInv, Types
<1> QED
  BY <1>6, <1>7, Zenon DEF DrawTo

\* usb_disp_update.
LEMMA UpdateKeeps ==
  ASSUME FramesInv, NEW x \in 0..(width - 1), NEW n \in 1..MaxDraw, NEW c \in Colours,
         Update(x, n, c)
  PROVE  FramesInv'
<1>1. Types /\ Fits /\ DrawTo(x, n) /\ fb' = Drawn(x, n, c)
  BY Zenon DEF FramesInv, Update, DrawTo
<1>2. /\ fb' \in [DOMAIN fb -> Colours]
      /\ \A i \in DOMAIN fb : i \notin x..(x + n - 1) => fb'[i] = fb[i]
  BY <1>1, DrawnIs, Zenon
<1>3. x \in Nat /\ n \in Nat \ {0}
  <2>1. width \in Nat
    BY <1>1, FitsIs, Zenon
  <2> QED
    BY <2>1, FrameAssumption
<1> QED
  BY <1>1, <1>2, <1>3, DrawKeeps, Zenon

\* usb_disp_copy.
LEMMA CopyKeeps ==
  ASSUME FramesInv, NEW sx \in 0..(width - 1), NEW dx \in 0..(width - 1), NEW n \in 1..MaxDraw,
         Copy(sx, dx, n)
  PROVE  FramesInv'
<1>1. /\ Types /\ Fits /\ DrawTo(dx, n) /\ fb' = Moved(sx, dx, n)
      /\ sx + n <= width /\ dx + n <= width
  BY Zenon DEF FramesInv, Copy, DrawTo
<1>2. sx \in Nat /\ dx \in Nat /\ n \in Nat \ {0} /\ n \in Nat
  <2>1. width \in Nat
    BY <1>1, FitsIs, Zenon
  <2> QED
    BY <2>1, FrameAssumption
<1>3. /\ fb' \in [DOMAIN fb -> Colours]
      /\ \A i \in DOMAIN fb : i \notin dx..(dx + n - 1) => fb'[i] = fb[i]
  <2>1. Moved(sx, dx, n) \in [DOMAIN fb -> Colours]
    BY <1>1, <1>2, MovedIs, Zenon
  <2>2. \A i \in DOMAIN fb : i \notin dx..(dx + n - 1) => Moved(sx, dx, n)[i] = fb[i]
    BY <1>1, <1>2, MovedIs, Zenon
  <2> QED
    BY <1>1, <2>1, <2>2, Zenon
<1> QED
  BY <1>1, <1>2, <1>3, DrawKeeps, Zenon

-----------------------------------------------------------------------------
(* Transfers.                                                              *)

\* A step of the application's own on a display that stays.
LEMMA CoreStays ==
  ASSUME CoreTypes, UNCHANGED kind, UNCHANGED coreVars, dark' \in BOOLEAN,
         ret' \in {"none", "flush"}, struck' \subseteq {"mode", "dropped", "unsent"}
  PROVE  CoreTypes'
<1>1. Widths' = Widths /\ UNCHANGED <<attached, ready, width, depth24, want24>>
  BY SameKind, Zenon DEF coreVars
<1> QED
  BY <1>1, Zenon DEF CoreTypes

\* The buffers and the mode stay.
LEMMA FitsStays ==
  ASSUME SetFits, UNCHANGED <<width, depth24, fb, fb24, pw, m24>>, IsSet' => IsSet
  PROVE  SetFits'
  BY Zenon DEF SetFits, Fits, FbWidth

\* usb_disp_hal_bulk_flush keeps a frame, delivers it or loses it.
LEMMA HalFlushIs ==
  ASSUME Types, NEW q \in Pics \cup {NoPic}, NEW r, HalFlush(q, r)
  PROVE  /\ queued' \in Pics \cup {NoPic}
         /\ struck' \subseteq {"mode", "dropped", "unsent"}
         /\ ("mode" \in struck' <=> "mode" \in struck)
<1>1. queued \in Pics \cup {NoPic} /\ struck \subseteq {"mode", "dropped", "unsent"}
  BY Zenon DEF Types, CoreTypes, BufTypes
<1>2. queued' \in {queued, NoPic, q}
  BY Zenon DEF HalFlush
<1>3. struck' \in {struck, struck \ {"dropped"}, struck \cup {"dropped"}}
  BY Zenon DEF HalFlush
<1>4. queued' \in Pics \cup {NoPic}
  BY <1>1, <1>2
<1> QED
  BY <1>1, <1>3, <1>4

\* A frame is shown or it is known not to be.
LEMMA FrameOutIs ==
  ASSUME Types, NEW w, NEW r, FrameOut(w, r)
  PROVE  /\ struck' \subseteq {"mode", "dropped", "unsent"}
         /\ ("mode" \in struck' <=> "mode" \in struck)
         /\ "unsent" \notin struck' => shown' = w
<1>1. struck \subseteq {"mode", "dropped", "unsent"}
  BY Zenon DEF Types, CoreTypes
<1>2. \/ struck' = struck \ {"unsent"} /\ shown' = w
      \/ struck' = struck \cup {"unsent"}
  BY Zenon DEF FrameOut
<1> QED
  BY <1>1, <1>2

\* ms_send_frame: the same, and what becomes of the output.
LEMMA SendFrameIs ==
  ASSUME Types, NEW w, NEW r, SendFrame(w, r)
  PROVE  /\ out' \in BOOLEAN /\ first' \in BOOLEAN
         /\ struck' \subseteq {"mode", "dropped", "unsent"}
         /\ ("mode" \in struck' <=> "mode" \in struck)
         /\ "unsent" \notin struck' => shown' = w
<1>1. out \in BOOLEAN /\ first \in BOOLEAN
  BY Zenon DEF Types, BufTypes
<1>2. out' \in {out, TRUE} /\ first' \in {first, FALSE}
  BY Zenon DEF SendFrame, Complete, OutMaybe
<1>3. out' \in BOOLEAN /\ first' \in BOOLEAN
  BY <1>1, <1>2
<1>4. FrameOut(w, r)
  BY Zenon DEF SendFrame
<1> QED
  BY <1>3, <1>4, FrameOutIs, Zenon

\* What the MS91xx shows when everything was sent.
LEMMA SentShows ==
  WireOfFb /\ WireCurrent /\ MsShows /\ MS /\ width > 0 /\ struck = {} /\ rect = NoRect
    /\ fb # NoPic => shown = Wired(fb)
<1> SUFFICES ASSUME WireOfFb, WireCurrent, MsShows, MS, width > 0, struck = {}, rect = NoRect,
                    fb # NoPic
             PROVE  shown = Wired(fb)
  OBVIOUS
<1>1. "mode" \notin struck /\ "unsent" \notin struck
  OBVIOUS
<1>2. shown = wire
  BY <1>1, Zenon DEF MsShows, IsSet
<1>3. DOMAIN wire = DOMAIN fb /\ wire = [x \in DOMAIN wire |-> wire[x]]
  BY Zenon DEF WireOfFb
<1>4. \A x \in DOMAIN fb : wire[x] = WireAt(fb, x)
  BY <1>1, Zenon DEF WireCurrent
<1> QED
  BY <1>2, <1>3, <1>4 DEF Wired

\* The same after a step, as FlushShows has it.
LEMMA SentFlushShows ==
  ASSUME MS, UNCHANGED kind, WireOfFb', WireCurrent', MsShows',
         width' > 0 /\ struck' = {} => rect' = NoRect /\ fb' # NoPic
  PROVE  FlushShows'
<1>1. MS'
  BY SameKind, Zenon
<1>2. (WireOfFb /\ WireCurrent /\ MsShows /\ MS /\ width > 0 /\ struck = {} /\ rect = NoRect
         /\ fb # NoPic)' => (shown = Wired(fb))'
  BY SentShows, PTL
<1> QED
  BY <1>1, <1>2, Zenon DEF FlushShows

\* ms_convert_dirty: what was dirty is converted, the rest was current.
LEMMA ConvertedIs ==
  ASSUME Types, MS, WireOfFb, WireCurrent, IsSet, fb # NoPic, rect # NoRect
  PROVE  \A x \in DOMAIN fb : Converted[x] = WireAt(fb, x)
<1> DEFINE done == UNION {PairOf(x) : x \in rect[1]..rect[2]}
<1>1. Converted = [x \in DOMAIN wire |-> IF x \in done THEN WireAt(fb, x) ELSE wire[x]]
  BY Zenon DEF Converted
<1>2. DOMAIN wire = DOMAIN fb /\ DOMAIN fb \subseteq Int
  <2>1. DOMAIN wire = DOMAIN fb
    BY Zenon DEF WireOfFb
  <2>2. DOMAIN fb = 0..(FbWidth - 1)
    BY FbIs
  <2> QED
    BY <2>1, <2>2
<1>3. ASSUME NEW x \in DOMAIN fb, x \notin done
      PROVE  wire[x] = WireAt(fb, x)
  <2>1. PairOf(x) \cap rect[1]..rect[2] = {}
    <3> SUFFICES ASSUME NEW y \in PairOf(x), y \in rect[1]..rect[2]
                 PROVE  x \in done
      BY <1>3
    <3>1. x \in Int /\ y \in Int
      BY <1>2
    <3>2. x \in PairOf(y)
      BY <3>1, PairIs, Zenon
    <3> QED
      BY <3>2
  <2> QED
    BY <1>3, <2>1, Zenon DEF WireCurrent, IsSet
<1> HIDE DEF done
<1> QED
  BY <1>1, <1>2, <1>3

\* t6_send_frame: where the command goes, and that it leaves the one before alone.
LEMMA RingIs ==
  ASSUME RingOK, attached, T6, NEW step \in 1..MaxStep, Ring(step)
  PROVE  /\ addr' \in 0..limit /\ cmd'.at \in Nat /\ cmd'.len \in 1..MaxStep
         /\ addr' = cmd'.at + cmd'.len /\ cmd'.at + cmd'.len <= limit
         /\ \/ limit < 3 * MaxStep - 1
            \/ cmd.at + cmd.len <= cmd'.at
            \/ cmd'.at + cmd'.len <= cmd.at
<1>0. /\ limit \in Nat /\ addr \in 0..limit /\ cmd.at \in Nat /\ cmd.len \in 0..MaxStep
      /\ limit >= MaxStep /\ MaxStep \in 1..4
      /\ \/ addr = cmd.at + cmd.len
         \/ addr = 0 /\ cmd.at + cmd.len + MaxStep > limit
  BY T6Assumption DEF RingOK
<1> DEFINE at == IF addr + step > limit THEN 0 ELSE addr
<1>1. addr' = at + step /\ cmd'.at = at /\ cmd'.len = step
  BY DEF Ring
<1> QED
  BY <1>0, <1>1

-----------------------------------------------------------------------------
(* Flushes.                                                                *)

\* What a T6 shows after the HAL was told to deliver the frames up to q, the
\* picture as it is drawn.
LEMMA T6FlushShows ==
  ASSUME T6, UNCHANGED <<kind, width, fb>>, NEW q, NEW r, HalFlush(q, r),
         IsSet' => /\ IsSet
                   /\ q # NoPic => q = fb
                   /\ q = NoPic => UNCHANGED queued /\ queued = NoPic
                   /\ q = NoPic /\ "dropped" \notin struck => shown = fb,
         ret' = (IF r THEN "flush" ELSE "none")
  PROVE  T6Shows' /\ FlushShows'
<1>0. T6' /\ ~MS'
  BY SameKind, OneKind, Zenon
<1>1. ASSUME IsSet'
      PROVE  /\ queued' # NoPic => queued' = fb
             /\ queued' = NoPic /\ "dropped" \notin struck' => shown' = fb
             /\ r /\ struck' = {} => shown' = fb
  <2>1. "dropped" \in struck \cup {"dropped"} /\ "dropped" \notin {}
    OBVIOUS
  <2>2. CASE q = NoPic
    BY <1>1, <2>1, <2>2, Zenon DEF HalFlush
  <2>3. CASE q # NoPic
    BY <1>1, <2>1, <2>3, Zenon DEF HalFlush
  <2> QED
    BY <2>2, <2>3, Zenon
<1>2. T6Shows'
  BY <1>1, Zenon DEF T6Shows
<1>3. FlushShows'
  <2> SUFFICES ASSUME ret' = "flush", width' > 0, struck' = {}
               PROVE  shown' = fb'
    BY <1>0, Zenon DEF FlushShows
  <2>1. r
    <3>1. "flush" # "none"
      OBVIOUS
    <3> QED
      BY <3>1, Zenon
  <2>2. IsSet'
    <3>1. "mode" \notin {}
      OBVIOUS
    <3> QED
      BY <3>1, Zenon DEF IsSet
  <2> QED
    BY <1>1, <2>1, <2>2, Zenon
<1> QED
  BY <1>2, <1>3

\* t6_flush.
LEMMA T6FlushKeeps ==
  ASSUME FramesInv, NEW r \in BOOLEAN, Flush(r), T6Flush(r), UNCHANGED msVars
  PROVE  FramesInv'
<1>0. /\ Types /\ CoreTypes /\ BufTypes /\ RingOK /\ MsOnly /\ WireOfFb /\ SetInv
      /\ SetFits /\ T6Shows
      /\ T6 /\ attached /\ UNCHANGED <<kind, coreVars, fbVars, dark>>
      /\ UNCHANGED <<attached, width, depth24, fb, fb24, pw, m24, enc, limit, out>>
      /\ UNCHANGED <<wire, rect, first>>
      /\ ret' = (IF r THEN "flush" ELSE "none")
  BY Zenon DEF FramesInv, SetInv, Types, Flush, T6Flush, coreVars, fbVars, msVars
<1>1. PICK q \in Pics \cup {NoPic} :
        /\ HalFlush(q, r)
        /\ \/ /\ dirty /\ fb # NoPic /\ pw > 0 /\ q = fb /\ dirty' = FALSE
              /\ \E step \in 1..MaxStep : Ring(step)
           \/ /\ ~(dirty /\ fb # NoPic /\ pw > 0) /\ q = queued
              /\ UNCHANGED <<dirty, addr, cmd>>
  BY <1>0, Zenon DEF T6Flush, BufTypes
<1>2. /\ queued' \in Pics \cup {NoPic} /\ struck' \subseteq {"mode", "dropped", "unsent"}
      /\ ("mode" \in struck' <=> "mode" \in struck)
  BY <1>0, <1>1, HalFlushIs, Zenon
<1>3. IsSet' => IsSet
  BY <1>0, <1>2, Zenon DEF IsSet
<1>4. CoreTypes'
  <2>1. ret' \in {"none", "flush"} /\ dark' \in BOOLEAN
    BY <1>0 DEF CoreTypes
  <2> QED
    BY <1>0, <1>2, <2>1, CoreStays, Zenon
<1>5. BufTypes'
  <2>1. dirty' \in BOOLEAN
    BY <1>0, <1>1 DEF BufTypes
  <2> QED
    BY <1>0, <1>2, <2>1, SameKind, Zenon DEF BufTypes
<1>6. RingOK'
  <2>1. CASE UNCHANGED <<addr, cmd>>
    BY <1>0, <2>1, RingKept, Zenon
  <2>2. CASE \E step \in 1..MaxStep : Ring(step)
    <3>1. /\ addr' \in 0..limit /\ cmd'.at \in Nat /\ cmd'.len \in 1..MaxStep
          /\ addr' = cmd'.at + cmd'.len
      BY <1>0, <2>2, RingIs, Zenon
    <3>2. cmd'.len \in 0..MaxStep
      BY <3>1, T6Assumption
    <3>3. (T6' <=> T6)
      BY <1>0, SameKind, Zenon
    <3> QED
      BY <1>0, <3>1, <3>2, <3>3, Zenon DEF RingOK
  <2> QED
    BY <1>1, <2>1, <2>2, Zenon
<1>7. MsOnly' /\ WireOfFb'
  BY <1>0, T6WireKept, Zenon
<1>8. SetFits'
  BY <1>0, <1>3, FitsStays, Zenon
<1>9. T6Shows' /\ FlushShows'
  <2>1. ASSUME IsSet'
        PROVE  /\ IsSet
               /\ q # NoPic => q = fb
               /\ q = NoPic => UNCHANGED queued /\ queued = NoPic
               /\ q = NoPic /\ "dropped" \notin struck => shown = fb
    <3>1. fb # NoPic /\ pw > 0 /\ IsSet
      <4>1. IsSet /\ fb # NoPic /\ pw = width
        BY <1>0, <1>3, <2>1, Zenon DEF SetFits, Fits
      <4> QED
        BY <4>1 DEF IsSet
    <3>2. CASE q = fb
      BY <3>1, <3>2, Zenon
    <3>3. CASE ~dirty /\ q = queued
      <4>1. /\ queued # NoPic => queued = fb
            /\ queued = NoPic /\ "dropped" \notin struck => shown = fb
        BY <1>0, <3>1, <3>3, Zenon DEF T6Shows
      <4>2. q = NoPic => UNCHANGED queued
        BY <1>1, Zenon DEF HalFlush
      <4> QED
        BY <3>1, <3>3, <4>1, <4>2, Zenon
    <3> QED
      BY <1>1, <3>1, <3>2, <3>3, Zenon
  <2> QED
    BY <1>0, <1>1, <2>1, T6FlushShows, Zenon
<1>10. SetInv'
  BY <1>0, <1>7, <1>8, <1>9, T6SetInv, Zenon
<1> QED
  BY <1>4, <1>5, <1>6, <1>7, <1>9, <1>10, Zenon DEF FramesInv, Types

\* t6_flush that fails on the way: the frame stays dirty.
LEMMA FlushFailsKeeps ==
  ASSUME FramesInv, FlushFails
  PROVE  FramesInv'
<1>0. /\ Types /\ CoreTypes /\ BufTypes /\ RingOK /\ MsOnly /\ WireOfFb /\ SetFits
      /\ T6 /\ attached /\ UNCHANGED <<kind, coreVars, fbVars, dark>> /\ ret' = "none"
      /\ UNCHANGED <<attached, width, depth24, fb, fb24, pw, m24, enc, limit, out>>
      /\ UNCHANGED <<wire, rect, first, dirty, cmd>>
      /\ dirty /\ addr' \in {addr, 0} /\ (addr' # addr => addr + MaxStep > limit)
      /\ HalFlush(queued, FALSE)
  BY Zenon DEF FramesInv, SetInv, Types, FlushFails, T6FlushFails, Quiet, coreVars, fbVars,
               msVars
<1>1. queued \in Pics \cup {NoPic}
  BY <1>0, Zenon DEF BufTypes
<1>2. /\ queued' \in Pics \cup {NoPic} /\ struck' \subseteq {"mode", "dropped", "unsent"}
      /\ ("mode" \in struck' <=> "mode" \in struck)
  BY <1>0, <1>1, HalFlushIs, Zenon
<1>3. CoreTypes'
  <2>1. ret' \in {"none", "flush"} /\ dark' \in BOOLEAN
    BY <1>0 DEF CoreTypes
  <2> QED
    BY <1>0, <1>2, <2>1, CoreStays, Zenon
<1>4. BufTypes'
  BY <1>0, <1>2, SameKind, Zenon DEF BufTypes
<1>5. RingOK'
  <2>1. CASE addr' = addr
    BY <1>0, <2>1, RingKept, Zenon
  <2>2. CASE addr' # addr
    <3>0. addr' = 0 /\ addr + MaxStep > limit
      BY <1>0, <2>2
    <3>1. /\ limit \in Nat /\ addr \in 0..limit /\ cmd.at \in Nat /\ cmd.len \in 0..MaxStep
          /\ limit >= MaxStep /\ MaxStep \in 1..4
          /\ \/ addr = cmd.at + cmd.len
             \/ addr = 0 /\ cmd.at + cmd.len + MaxStep > limit
      BY <1>0, T6Assumption DEF RingOK
    <3>2. addr' \in 0..limit /\ cmd.at + cmd.len + MaxStep > limit
      BY <3>0, <3>1
    <3> QED
      BY <1>0, <3>0, <3>1, <3>2, Zenon DEF RingOK
  <2> QED
    BY <2>1, <2>2
<1>6. MsOnly' /\ WireOfFb'
  BY <1>0, T6WireKept, Zenon
<1>7. SetInv'
  <2>1. IsSet' => IsSet
    BY <1>0, <1>2, Zenon DEF IsSet
  <2>2. SetFits'
    BY <1>0, <2>1, FitsStays, Zenon
  <2>3. T6Shows'
    BY <1>0, Zenon DEF T6Shows
  <2> QED
    BY <1>0, <1>6, <2>2, <2>3, T6SetInv, Zenon
<1>8. FlushShows'
  BY <1>0, Zenon DEF FlushShows
<1> QED
  BY <1>3, <1>4, <1>5, <1>6, <1>7, <1>8, Zenon DEF FramesInv, Types

\* ms_flush.
LEMMA MsFlushKeeps ==
  ASSUME FramesInv, NEW r \in BOOLEAN, Flush(r), MsFlush(r), UNCHANGED t6Vars
  PROVE  FramesInv'
<1>0. /\ Types /\ CoreTypes /\ BufTypes /\ RingOK /\ MsOnly /\ WireOfFb /\ SetInv
      /\ SetFits /\ WireCurrent /\ MsShows
      /\ MS /\ attached /\ UNCHANGED <<kind, coreVars, fbVars, dark>>
      /\ UNCHANGED <<attached, width, depth24, fb, fb24, pw, m24>>
      /\ UNCHANGED <<dirty, enc, queued, limit, addr, cmd>>
      /\ ret' = (IF r THEN "flush" ELSE "none")
  BY Zenon DEF FramesInv, SetInv, Types, Flush, MsFlush, coreVars, fbVars, t6Vars
<1>1. RingOK' /\ MS' /\ ~T6'
  BY <1>0, RingKept, SameKind, OneKind, Zenon
<1>2. ret' \in {"none", "flush"} /\ dark' \in BOOLEAN
  BY <1>0 DEF CoreTypes
<1>3. CASE rect # NoRect /\ fb # NoPic /\ pw > 0
  <2>1. /\ wire' = Converted /\ rect' = NoRect
        /\ \E sent \in {TRUE, r} : SendFrame(wire', sent)
    BY <1>3, Zenon DEF MsFlush
  <2>2. /\ out' \in BOOLEAN /\ first' \in BOOLEAN
        /\ struck' \subseteq {"mode", "dropped", "unsent"}
        /\ ("mode" \in struck' <=> "mode" \in struck)
        /\ "unsent" \notin struck' => shown' = wire'
    BY <1>0, <2>1, SendFrameIs, Zenon
  <2>3. CoreTypes' /\ BufTypes'
    BY <1>0, <1>2, <2>2, CoreStays, SameKind, Zenon DEF BufTypes
  <2>4. IsSet' => IsSet
    BY <1>0, <2>2, Zenon DEF IsSet
  <2>5. MsOnly' /\ WireOfFb'
    <3>1. DOMAIN wire = DOMAIN fb
      BY <1>0, <1>3, Zenon DEF WireOfFb
    <3>2. /\ DOMAIN Converted = DOMAIN wire
          /\ Converted = [x \in DOMAIN Converted |-> Converted[x]]
      BY <1>3 DEF Converted
    <3> QED
      BY <1>0, <1>1, <1>3, <2>1, <3>1, <3>2, Zenon DEF MsOnly, WireOfFb
  <2>6. SetFits' /\ RectOK' /\ MsShows'
    BY <1>0, <2>1, <2>2, <2>4, FitsStays, Zenon DEF RectOK, MsShows
  <2>7. WireCurrent'
    <3>1. \A x : WireAt(fb, x)' = WireAt(fb, x)
      <4>1. M3' <=> M3
        BY <1>0, SameKind, Zenon
      <4> QED
        BY <1>0, <4>1, Zenon DEF WireAt, PairOf
    <3>2. IsSet => \A x \in DOMAIN fb : Converted[x] = WireAt(fb, x)
      BY <1>0, <1>3, ConvertedIs, Zenon
    <3> QED
      BY <1>0, <2>1, <2>4, <3>1, <3>2, Zenon DEF WireCurrent, IsSet
  <2>8. SetInv'
    BY <1>0, <2>6, <2>7, MsSetInv, Zenon
  <2>9. FlushShows'
    BY <1>0, <1>3, <2>1, <2>5, <2>6, <2>7, SentFlushShows, Zenon
  <2> QED
    BY <1>1, <2>3, <2>5, <2>8, <2>9, Zenon DEF FramesInv, Types
<1>4. CASE ~(rect # NoRect /\ fb # NoPic /\ pw > 0)
  <2>1. UNCHANGED <<wire, rect, first, out, shown, struck>>
    BY <1>4, Zenon DEF MsFlush, msVars, devVars
  <2>2. struck' \subseteq {"mode", "dropped", "unsent"}
    BY <1>0, <2>1, Zenon DEF CoreTypes
  <2>3. CoreTypes' /\ BufTypes'
    BY <1>0, <1>2, <2>1, <2>2, CoreStays, BufTypesKept, Zenon
  <2>4. MsOnly' /\ WireOfFb' /\ SetInv'
    BY <1>0, <2>1, WireKept, SetKept, Zenon
  <2>5. ASSUME width' > 0, struck' = {}
        PROVE  rect' = NoRect /\ fb' # NoPic
    <3>1. IsSet
      <4>1. "mode" \notin {}
        OBVIOUS
      <4> QED
        BY <1>0, <2>1, <2>5, <4>1, Zenon DEF IsSet
    <3>2. fb # NoPic /\ pw = width
      BY <1>0, <3>1, Zenon DEF SetFits, Fits
    <3>3. pw > 0
      BY <1>0, <2>5, <3>2, Zenon
    <3> QED
      BY <1>0, <1>4, <2>1, <3>2, <3>3, Zenon
  <2>6. FlushShows'
    <3>1. WireCurrent' /\ MsShows'
      BY <2>4, Zenon DEF SetInv
    <3> QED
      BY <1>0, <2>4, <2>5, <3>1, SentFlushShows, Zenon
  <2> QED
    BY <1>1, <2>3, <2>4, <2>6, Zenon DEF FramesInv, Types
<1> QED
  BY <1>3, <1>4

\* usb_disp_flush.
LEMMA FlushKeeps ==
  ASSUME FramesInv, NEW r \in BOOLEAN, Flush(r)
  PROVE  FramesInv'
  BY T6FlushKeeps, MsFlushKeeps, Zenon DEF Flush

-----------------------------------------------------------------------------
(* Blanking, and the display of its own accord.                            *)

\* usb_disp_blank: what it turns on it will send anew.
LEMMA BlankKeeps ==
  ASSUME FramesInv, NEW on \in BOOLEAN, Blank(on)
  PROVE  FramesInv'
<1>0. /\ Types /\ CoreTypes /\ BufTypes /\ RingOK /\ MsOnly /\ WireOfFb /\ SetInv
      /\ SetFits /\ RectOK /\ WireCurrent /\ T6Shows
      /\ UNCHANGED <<kind, coreVars, fbVars>> /\ ret' = "none"
      /\ UNCHANGED <<attached, width, depth24, fb, fb24, pw, m24, struck>>
      /\ dark' = (on /\ ~out')
  BY Zenon DEF FramesInv, SetInv, Types, Blank, Quiet, coreVars, fbVars
<1>1. CoreTypes'
  <2>1. dark' \in BOOLEAN /\ ret' \in {"none", "flush"}
    BY <1>0
  <2>2. struck' \subseteq {"mode", "dropped", "unsent"}
    BY <1>0, Zenon DEF CoreTypes
  <2> QED
    BY <1>0, <2>1, <2>2, CoreStays, Zenon
<1>2. FlushShows'
  BY <1>0, Zenon DEF FlushShows
<1>3. IsSet' <=> IsSet
  BY <1>0, Zenon DEF IsSet
<1>4. CASE T6Blank(on) /\ UNCHANGED msVars
  <2>1. /\ T6 /\ out' = ~on /\ dirty' = (dirty \/ ~on)
        /\ UNCHANGED <<enc, queued, limit, addr, cmd, shown, wire, rect, first>>
    BY <1>4, Zenon DEF T6Blank, msVars
  <2>2. out' \in BOOLEAN /\ dirty' \in BOOLEAN
    BY <2>1
  <2>3. BufTypes'
    BY <1>0, <2>1, <2>2, SameKind, Zenon DEF BufTypes
  <2>4. RingOK' /\ MsOnly' /\ WireOfFb' /\ SetFits'
    BY <1>0, <1>3, <2>1, RingKept, T6WireKept, FitsStays, Zenon
  <2>5. T6Shows'
    BY <1>0, <1>3, <2>1, Zenon DEF T6Shows
  <2>6. SetInv'
    BY <1>0, <2>1, <2>4, <2>5, T6SetInv, Zenon
  <2> QED
    BY <1>1, <1>2, <2>3, <2>4, <2>6, Zenon DEF FramesInv, Types
<1>5. CASE MsBlank(on) /\ UNCHANGED t6Vars
  <2>1. /\ MS /\ UNCHANGED <<wire, shown, dirty, enc, queued, limit, addr, cmd>>
        /\ \/ out' \in {out, FALSE} /\ UNCHANGED <<rect, first>>
           \/ first' = TRUE /\ DirtyAdd(0, pw) /\ UNCHANGED out
    BY <1>5, Zenon DEF MsBlank, OutMaybe, t6Vars
  <2>2. BufTypes'
    <3>1. out' \in BOOLEAN /\ first' \in BOOLEAN
      BY <1>0, <2>1 DEF BufTypes
    <3> QED
      BY <1>0, <2>1, <3>1, SameKind, Zenon DEF BufTypes
  <2>3. MsOnly' /\ WireOfFb'
    <3>1. MS' /\ ~T6'
      BY <1>0, <2>1, SameKind, OneKind, Zenon
    <3> QED
      BY <1>0, <2>1, <3>1, Zenon DEF MsOnly, WireOfFb
  <2>4. SetInv'
    <3>1. CASE ~IsSet
      BY <1>3, <3>1, Zenon
         DEF SetInv, SetFits, RectOK, WireCurrent, T6Shows, MsShows, IsSet
    <3>2. CASE UNCHANGED rect
      BY <1>0, <2>1, <3>2, SetKept, Zenon
    <3>3. CASE IsSet /\ DirtyAdd(0, pw)
      <4>1. Fits /\ width \in Nat /\ width > 0 /\ width \in Widths /\ pw = width
        BY <1>0, <3>3, FitsIs, Zenon DEF SetFits
      <4>2. rect # NoRect => /\ rect[1] \in Int /\ rect[2] \in Int
                             /\ 0 <= rect[1] /\ rect[1] <= rect[2] /\ rect[2] < pw
        BY <1>0, <3>3, Zenon DEF RectOK
      <4>3. 0 \in Nat /\ pw \in Nat \ {0} /\ pw < Bits16 /\ 0 + pw <= pw /\ pw \in Nat
        BY <2>1, <4>1, WidthsAre
      <4>4. /\ rect' # NoRect /\ rect'[1] \in Int /\ rect'[2] \in Int
            /\ 0 <= rect'[1] /\ rect'[1] <= rect'[2] /\ rect'[2] < pw
            /\ rect # NoRect => rect'[1] <= rect[1] /\ rect[2] <= rect'[2]
        BY <3>3, <4>2, <4>3, DirtyIs
      <4>5. SetFits' /\ RectOK' /\ MsShows'
        BY <1>0, <1>3, <4>4, FitsStays, Zenon DEF RectOK, MsShows
      <4>6. WireCurrent'
        BY <1>0, <2>1, <3>3, <4>1, <4>2, <4>4, StaysCurrent, Zenon
      <4> QED
        BY <1>0, <2>1, <4>5, <4>6, MsSetInv, Zenon
    <3> QED
      BY <2>1, <3>1, <3>2, <3>3, Zenon
  <2>5. RingOK'
    BY <1>0, <2>1, RingKept, Zenon
  <2> QED
    BY <1>1, <1>2, <2>2, <2>3, <2>4, <2>5, Zenon DEF FramesInv, Types
<1> QED
  BY <1>4, <1>5, Zenon DEF Blank

\* ms_poll sends the wire buffer again, or turns the output on and does so.
LEMMA PollKeeps ==
  ASSUME FramesInv, NEW r \in BOOLEAN, PollKeepAlive(r) \/ PollUnmute(r)
  PROVE  FramesInv'
<1>0. /\ Types /\ CoreTypes /\ BufTypes /\ RingOK /\ MsOnly /\ WireOfFb /\ SetInv
      /\ SetFits /\ RectOK /\ WireCurrent
      /\ UNCHANGED <<kind, coreVars, fbVars, dark>> /\ ret' = "none"
      /\ UNCHANGED <<attached, width, depth24, fb, fb24, pw, m24, wire, rect>>
      /\ UNCHANGED <<dirty, enc, queued, limit, addr, cmd>>
      /\ M3
  BY Zenon DEF FramesInv, SetInv, Types, PollKeepAlive, PollUnmute, KeepAlive, Unmute, PollReady,
               Quiet, coreVars, fbVars, t6Vars
<1>1. /\ out' \in BOOLEAN /\ first' \in BOOLEAN
      /\ struck' \subseteq {"mode", "dropped", "unsent"}
      /\ ("mode" \in struck' <=> "mode" \in struck)
      /\ "unsent" \notin struck' => shown' = wire
  <2>1. CASE PollKeepAlive(r)
    BY <1>0, <2>1, SendFrameIs, Zenon DEF PollKeepAlive, KeepAlive
  <2>2. CASE PollUnmute(r)
    <3>1. out \in BOOLEAN /\ first \in BOOLEAN
      BY <1>0, Zenon DEF BufTypes
    <3>2. out' \in {out, TRUE} /\ first' = (first /\ ~r) /\ FrameOut(wire, r)
      BY <2>2, Zenon DEF PollUnmute, Unmute, OutMaybe
    <3>3. out' \in BOOLEAN /\ first' \in BOOLEAN
      BY <3>1, <3>2
    <3> QED
      BY <1>0, <3>2, <3>3, FrameOutIs, Zenon
  <2> QED
    BY <2>1, <2>2
<1>2. CoreTypes' /\ BufTypes'
  <2>1. dark' \in BOOLEAN /\ ret' \in {"none", "flush"}
    BY <1>0 DEF CoreTypes
  <2> QED
    BY <1>0, <1>1, <2>1, CoreStays, SameKind, Zenon DEF BufTypes
<1>3. RingOK' /\ MsOnly' /\ WireOfFb' /\ (MS' <=> MS) /\ (M3' <=> M3)
  BY <1>0, RingKept, WireKept, SameKind, Zenon
<1>4. MS
  BY <1>0 DEF MS, M3
<1>5. IsSet' <=> IsSet
  BY <1>0, <1>1, Zenon DEF IsSet
<1>6. SetFits' /\ RectOK' /\ MsShows'
  BY <1>0, <1>1, <1>5, FitsStays, Zenon DEF RectOK, MsShows
<1>7. WireCurrent'
  BY <1>0, <1>5, CurrentKept, Zenon
<1>8. SetInv'
  BY <1>0, <1>4, <1>6, <1>7, MsSetInv, Zenon
<1>9. FlushShows'
  BY <1>0, Zenon DEF FlushShows
<1> QED
  BY <1>2, <1>3, <1>8, <1>9, Zenon DEF FramesInv, Types

\* The HDMI side mutes the output.
LEMMA HdmiMutesKeeps ==
  ASSUME FramesInv, HdmiMutes
  PROVE  FramesInv'
<1>0. /\ CoreTypes /\ BufTypes /\ RingOK /\ MsOnly /\ WireOfFb /\ SetInv
      /\ UNCHANGED <<kind, coreVars, dark, struck>> /\ ret' = "none" /\ out' = FALSE
      /\ UNCHANGED <<attached, width, depth24, fb, fb24, pw, m24, shown, wire, rect, first>>
      /\ UNCHANGED <<dirty, enc, queued, limit, addr, cmd>>
  BY Zenon DEF FramesInv, Types, HdmiMutes, Quiet, coreVars, fbVars, t6Vars, msVars
<1>1. dark' \in BOOLEAN /\ ret' \in {"none", "flush"} /\ out' \in BOOLEAN
      /\ struck' \subseteq {"mode", "dropped", "unsent"}
  BY <1>0 DEF CoreTypes
<1>2. CoreTypes' /\ BufTypes'
  BY <1>0, <1>1, CoreStays, SameKind, Zenon DEF BufTypes
<1>3. RingOK' /\ MsOnly' /\ WireOfFb' /\ SetInv'
  BY <1>0, RingKept, WireKept, SetKept, Zenon
<1>4. FlushShows'
  BY <1>0, Zenon DEF FlushShows
<1> QED
  BY <1>2, <1>3, <1>4, Zenon DEF FramesInv, Types

-----------------------------------------------------------------------------
(* The invariant.                                                          *)

\* Power on.
LEMMA FramesStart == Init => FramesInv
<1> SUFFICES ASSUME Init PROVE FramesInv
  OBVIOUS
<1>0. /\ kind \in Kinds /\ attached = FALSE /\ ready = FALSE /\ width = 0 /\ depth24 = FALSE
      /\ want24 \in BOOLEAN /\ fb = NoPic /\ fb24 = FALSE /\ pw = 0 /\ m24 = FALSE
      /\ out = FALSE /\ shown = NoPic /\ ret = "none" /\ dark = FALSE /\ struck = {}
      /\ dirty = FALSE /\ enc = FALSE /\ queued = NoPic /\ limit = 0 /\ addr = 0
      /\ cmd = NoCmd /\ wire = NoPic /\ rect = NoRect /\ first = FALSE
  BY Zenon DEF Init, FrameInit, T6Init, MsInit
<1>1. CoreTypes
  <2>1. kind \in AllKinds
    BY <1>0, FrameAssumption
  <2>2. struck \subseteq {"mode", "dropped", "unsent"} /\ width \in Widths \cup {0}
    BY <1>0
  <2>3. /\ attached \in BOOLEAN /\ ready \in BOOLEAN /\ depth24 \in BOOLEAN
        /\ dark \in BOOLEAN /\ ret \in {"none", "flush"}
    BY <1>0
  <2> QED
    BY <1>0, <2>1, <2>2, <2>3, Zenon DEF CoreTypes
<1>2. BufTypes
  BY <1>0 DEF BufTypes
<1>3. RingOK
  BY <1>0, T6Assumption DEF RingOK, NoCmd
<1>4. MsOnly /\ WireOfFb
  BY <1>0, Zenon DEF MsOnly, WireOfFb
<1>5. SetInv
  <2>1. ~(width > 0)
    BY <1>0
  <2> QED
    BY <2>1, Zenon DEF SetInv, SetFits, RectOK, WireCurrent, T6Shows, MsShows, IsSet
<1>6. FlushShows
  BY <1>0, Zenon DEF FlushShows
<1> QED
  BY <1>1, <1>2, <1>3, <1>4, <1>5, <1>6, Zenon DEF FramesInv, Types

\* Every call, poll and failure keeps it.
LEMMA FramesKept == FramesInv /\ [Next]_vars => FramesInv'
<1> SUFFICES ASSUME FramesInv, [Next]_vars PROVE FramesInv'
  OBVIOUS
<1>1. CASE Attach \/ BecomeReady \/ Detach
  BY <1>1, AttachKeeps, BecomeReadyKeeps, DetachKeeps, Zenon
<1>2. CASE \E w \in Widths : SetMode(w)
  BY <1>2, SetModeKeeps, Zenon
<1>3. CASE \E b \in BOOLEAN :
             SetDepth(b) \/ Flush(b) \/ Blank(b) \/ PollKeepAlive(b) \/ PollUnmute(b)
  <2>1. PICK b \in BOOLEAN :
          SetDepth(b) \/ Flush(b) \/ Blank(b) \/ PollKeepAlive(b) \/ PollUnmute(b)
    BY <1>3, Zenon
  <2> QED
    BY <2>1, SetDepthKeeps, FlushKeeps, BlankKeeps, PollKeeps, Zenon
<1>4. CASE \E x \in 0..(width - 1), n \in 1..MaxDraw, c \in Colours : Update(x, n, c)
  BY <1>4, UpdateKeeps, Zenon
<1>5. CASE \E sx, dx \in 0..(width - 1), n \in 1..MaxDraw : Copy(sx, dx, n)
  BY <1>5, CopyKeeps, Zenon
<1>6. CASE FlushFails \/ Unblank912 \/ HdmiMutes
  BY <1>6, FlushFailsKeeps, Unblank912Keeps, HdmiMutesKeeps, Zenon
<1>7. CASE UNCHANGED vars
  <2>1. /\ UNCHANGED <<kind, coreVars, histVars>>
        /\ UNCHANGED <<attached, width, depth24, fb, fb24, pw, m24, out, shown, ret, struck>>
        /\ UNCHANGED <<dirty, enc, queued, limit, addr, cmd, wire, rect, first>>
    BY <1>7, Zenon DEF vars, coreVars, fbVars, devVars, histVars, t6Vars, msVars
  <2>2. CoreTypes' /\ BufTypes' /\ RingOK' /\ MsOnly' /\ WireOfFb' /\ SetInv'
    BY <2>1, CoreTypesKept, BufTypesKept, RingKept, WireKept, SetKept, Zenon
       DEF FramesInv, Types
  <2>3. (MS' <=> MS) /\ (M3' <=> M3)
    BY <2>1, SameKind, Zenon
  <2>4. FlushShows'
    BY <2>1, <2>3, Zenon DEF FramesInv, FlushShows, Wired, WireAt, PairOf
  <2> QED
    BY <2>2, <2>4, Zenon DEF FramesInv, Types
<1> QED
  BY <1>1, <1>2, <1>3, <1>4, <1>5, <1>6, <1>7, Zenon DEF Next

\* The inductive invariant holds in every state the display can be in.
LEMMA FramesInvariant == Spec => []FramesInv
  BY FramesStart, FramesKept, PTL DEF Spec

-----------------------------------------------------------------------------
(* Theorems.                                                               *)

\* Every variable of the core's record, of the protocols' and of the display has
\* its type; the ring's address lies in the ring and the dirty rectangle in the
\* buffer.
THEOREM FramesTypeCorrect == Spec => []TypeOK
<1>1. FramesInv => TypeOK
  <2> SUFFICES ASSUME FramesInv PROVE TypeOK
    OBVIOUS
  <2>1. CoreTypes /\ BufTypes /\ RingOK /\ RectOK
    BY Zenon DEF FramesInv, Types, SetInv
  <2>2. {attached, ready, depth24, want24, fb24, m24, out, dark, dirty, enc, first}
          \subseteq BOOLEAN
    BY <2>1, Zenon DEF CoreTypes, BufTypes
  <2>3. {width, pw} \subseteq Widths \cup {0} /\ {fb, queued} \subseteq Pics \cup {NoPic}
    BY <2>1, Zenon DEF CoreTypes, BufTypes
  <2>4. /\ addr \in 0..limit /\ ret \in {"none", "flush"}
        /\ struck \subseteq {"mode", "dropped", "unsent"}
    BY <2>1, Zenon DEF CoreTypes, RingOK
  <2> QED
    BY <2>1, <2>2, <2>3, <2>4, Zenon DEF TypeOK, RectOK, IsSet
<1> QED
  BY <1>1, FramesInvariant, PTL

\* The core draws into a buffer of the size and format it clips to, whatever
\* modes, depths, devices and lack of memory came before: no pixel of a legal
\* call lies outside.
THEOREM BuffersFit == Spec => []BufferFits
<1>1. FramesInv => BufferFits
  BY Zenon DEF FramesInv, SetInv, SetFits, IsSet, BufferFits
<1> QED
  BY <1>1, FramesInvariant, PTL

\* Converting the dirty rectangle alone, widened to pairs, leaves the whole wire
\* buffer current: a flush sends no stale pixel.
THEOREM WireBufferCurrent == Spec => []WireCurrent
<1>1. FramesInv => WireCurrent
  BY Zenon DEF FramesInv, SetInv
<1> QED
  BY <1>1, FramesInvariant, PTL

\* After a flush that returned true everything drawn is on the screen, if the
\* mode could be set and no frame was lost in between.
THEOREM FlushedIsShown == Spec => []FlushShows
<1>1. FramesInv => FlushShows
  BY Zenon DEF FramesInv
<1> QED
  BY <1>1, FramesInvariant, PTL

\* What CommandsApart says of a step.
CmdApart ==
  cmd' # cmd /\ cmd'.len > 0 =>
    /\ cmd'.at + cmd'.len <= limit
    /\ \/ limit < 3 * MaxStep - 1
       \/ cmd.at + cmd.len <= cmd'.at
       \/ cmd'.at + cmd'.len <= cmd.at

\* Only t6_flush writes a command, a mode or a device begins the ring anew.
LEMMA CmdCourse ==
  ASSUME [Next]_vars
  PROVE  \/ cmd' = cmd \/ cmd' = NoCmd
         \/ T6 /\ attached /\ \E step \in 1..MaxStep : Ring(step)
<1>1. ASSUME NEW w, NEW d24, SetModeEx(w, d24)
      PROVE  cmd' = cmd \/ cmd' = NoCmd
  <2>1. CASE ModeFails(w, d24)
    BY <2>1, Zenon DEF ModeFails, T6ModeUnknown, T6ModeRefused, T6ModeSet, t6Vars
  <2>2. CASE NoMemory(w, d24)
    BY <2>2, Zenon DEF NoMemory, t6Vars
  <2>3. CASE ModeSet(w, d24)
    BY <2>3, Zenon DEF ModeSet, T6ModeSet, t6Vars
  <2> QED
    BY <1>1, <2>1, <2>2, <2>3, Zenon DEF SetModeEx
<1>2. CASE Attach \/ BecomeReady \/ Detach
  BY <1>2, Zenon DEF Attach, BecomeReady, Detach, T6Attach, T6Detach, t6Vars
<1>3. CASE \E w \in Widths : SetMode(w)
  BY <1>1, <1>3, Zenon DEF SetMode
<1>4. CASE \E b \in BOOLEAN :
             SetDepth(b) \/ Flush(b) \/ Blank(b) \/ PollKeepAlive(b) \/ PollUnmute(b)
  <2>1. PICK b \in BOOLEAN :
          SetDepth(b) \/ Flush(b) \/ Blank(b) \/ PollKeepAlive(b) \/ PollUnmute(b)
    BY <1>4, Zenon
  <2>2. CASE SetDepth(b)
    BY <1>1, <2>2, Zenon DEF SetDepth, t6Vars
  <2>3. CASE Flush(b)
    BY <2>3, Zenon DEF Flush, T6Flush, t6Vars
  <2>4. CASE Blank(b)
    BY <2>4, Zenon DEF Blank, T6Blank, t6Vars
  <2>5. CASE PollKeepAlive(b) \/ PollUnmute(b)
    BY <2>5, Zenon DEF PollKeepAlive, PollUnmute, t6Vars
  <2> QED
    BY <2>1, <2>2, <2>3, <2>4, <2>5, Zenon
<1>5. ASSUME NEW x, NEW n, DrawTo(x, n)
      PROVE  cmd' = cmd
  BY <1>5, Zenon DEF DrawTo, T6Draw, t6Vars
<1>6. CASE \E x \in 0..(width - 1), n \in 1..MaxDraw, c \in Colours : Update(x, n, c)
  BY <1>5, <1>6, Zenon DEF Update
<1>7. CASE \E sx, dx \in 0..(width - 1), n \in 1..MaxDraw : Copy(sx, dx, n)
  BY <1>5, <1>7, Zenon DEF Copy
<1>8. CASE FlushFails \/ Unblank912 \/ HdmiMutes
  BY <1>8, Zenon DEF FlushFails, T6FlushFails, Unblank912, HdmiMutes, t6Vars
<1>9. CASE UNCHANGED vars
  BY <1>9, Zenon DEF vars, t6Vars
<1> QED
  BY <1>2, <1>3, <1>4, <1>6, <1>7, <1>8, <1>9, Zenon DEF Next

\* A command of the T6 lies in the ring and leaves the one before it alone,
\* which the device may still read, if the memory is not the smallest.
THEOREM CommandsStayApart == Spec => CommandsApart
<1>1. FramesInv /\ [Next]_vars => CmdApart
  <2> SUFFICES ASSUME FramesInv, [Next]_vars PROVE CmdApart
    OBVIOUS
  <2>1. CASE cmd' = cmd
    BY <2>1, Zenon DEF CmdApart
  <2>2. CASE cmd' = NoCmd
    BY <2>2 DEF CmdApart, NoCmd
  <2>3. CASE T6 /\ attached /\ \E step \in 1..MaxStep : Ring(step)
    <3>1. RingOK
      BY Zenon DEF FramesInv
    <3> QED
      BY <2>3, <3>1, RingIs, Zenon DEF CmdApart
  <2> QED
    BY <2>1, <2>2, <2>3, CmdCourse, Zenon
<1>2. FramesInv /\ [Next]_vars => [CmdApart]_vars
  BY <1>1
<1> QED
  BY <1>2, FramesInvariant, PTL DEF Spec, CommandsApart, CmdApart

=============================================================================
