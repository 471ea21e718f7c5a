------------------------------ MODULE EdidModes ------------------------------
(***************************************************************************)
(* How usb_disp.cpp chooses a mode: from the monitor's EDID or from the    *)
(* built-in list.  A mode is named by its area.  Of an EDID there is what  *)
(* its parser finds in it: the preferred timing, and all the modes listed  *)
(* (detailed, standard and established timings, the video blocks of the    *)
(* extensions).                                                            *)
(***************************************************************************)
EXTENDS Naturals, Sequences, FiniteSets, FiniteSetsExt

CONSTANTS
  Builtin,     \* s_modes, in falling order of area
  Wide,        \* the modes wider than USB_DISP_MAX_WIDTH
  Chips,       \* the chips of the displays
  MaxArea,     \* [Chips -> Nat]: d->max_area after attach, 0 if not known
  SmallSku,    \* [Chips -> Nat]: what auto_max_area assumes then, 0: no limit
  Accepts      \* [Chips -> SUBSET Nat]: the modes prot->set_mode takes

BuiltinSet == {Builtin[i] : i \in DOMAIN Builtin}

ASSUME ModesAssumption ==
  /\ Builtin \in Seq(Nat)
  /\ \A i, j \in DOMAIN Builtin : i < j => Builtin[i] > Builtin[j]
  /\ Wide \subseteq Nat
  /\ \A c \in Chips : Accepts[c] \subseteq Nat \ {0}

NoEdid == [pref |-> 0, listed |-> {}]   \* could not be read

\* mode_fits, auto_max_area and mode_fits_auto
Fits(c, m) == m \notin {0} \cup Wide /\ (MaxArea[c] # 0 => m <= MaxArea[c])
AutoMax(c) == IF MaxArea[c] # 0 THEN MaxArea[c] ELSE SmallSku[c]
FitsAuto(c, m) == Fits(c, m) /\ (AutoMax(c) # 0 => m <= AutoMax(c))

\* usb_disp_set_mode_hz and usb_disp_set_mode_ex of a device that does what it can
Takes(c) == {m \in Accepts[c] : Fits(c, m)}

\* Of these, the ones that are chosen automatically.
Works(c) == {m \in Takes(c) : FitsAuto(c, m)}

\* edid_scan_max: the largest mode of e that fits, 0 if none does
ScanMax(c, e) == Max({0} \cup {m \in e.listed : FitsAuto(c, m)})

\* edid_target_mode: 0 if there is none
Target(c, policy, e) ==
  IF policy = "MAX" THEN ScanMax(c, e)
  ELSE IF FitsAuto(c, e.pref) THEN e.pref ELSE 0

\* What follows depends on what the device does in the call: a mode in unsure,
\* which it can do, may be refused whenever it is tried.

\* auto_mode_from_edid: the mode is tried.  (A detailed timing that fails is
\* tried again with a standard timing of the same size.)
FromEdid(c, policy, e) ==
  {m \in {Target(c, policy, e)} : e # NoEdid /\ m \in Takes(c)}

\* A pass of auto_fallback_mode through modes: the first that is taken.
Pass(modes, unsure) == {m \in modes : \A k \in modes \ unsure : k <= m}

\* Mutant: the list is gone through only once.
FallbackOnePass(c, e, unsure) ==
  LET all == BuiltinSet \cap Works(c)
  IN  Pass(all, unsure) \cup (IF all \subseteq unsure THEN {0} ELSE {})

\* auto_fallback_mode: the modes of the list that EDID e lists, then all of
\* them; 0 if none is taken.
Fallback(c, e, unsure) ==
  LET all    == BuiltinSet \cap Works(c)
      listed == all \cap e.listed
  IN  Pass(listed, unsure) \cup
        (IF ~(listed \subseteq unsure) THEN {}
         ELSE Pass(all, unsure) \cup (IF all \subseteq unsure THEN {0} ELSE {}))

\* usb_disp_set_auto_mode with the EDID read before and in the fall-back.
AutoModes(c, policy, e, again, unsure) ==
  LET first == FromEdid(c, policy, e)
  IN  first \cup (IF first \subseteq unsure THEN Fallback(c, again, unsure) ELSE {})

-----------------------------------------------------------------------------
(* What is promised of the mode m chosen for chip c and EDID e: a mode of  *)
(* the monitor where there is one in the list that works and was not       *)
(* refused, under MAX none larger left out; without an EDID the largest.   *)

Suits(m, c, policy, e, unsure) ==
  LET sure   == (BuiltinSet \cap Works(c)) \ unsure
      common == sure \cap e.listed
  IN  /\ m \in Works(c)
      /\ common # {} => m \in e.listed \cup {e.pref}
      /\ policy = "MAX" => \A k \in common : k <= m
      /\ e = NoEdid => \A k \in sure : k <= m

=============================================================================
