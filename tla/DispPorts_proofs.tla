--------------------------- MODULE DispPorts_proofs ---------------------------
(***************************************************************************)
(* Theorems about the displays on a PC of DispPorts: for every number of   *)
(* ports and devices, every table of modes and whatever the monitors       *)
(* report.                                                                 *)
(***************************************************************************)
EXTENDS DispPorts, FiniteSetTheorems, TLAPS

-----------------------------------------------------------------------------
(* The largest member of a finite set.                                     *)

\* A finite set of numbers that is not empty has a largest member, and Max is
\* it: the part of the set from a member on gets smaller with the member.
LEMMA MaxOf ==
  ASSUME NEW S \in SUBSET Int, IsFiniteSet(S), S # {}
  PROVE  Max(S) \in S /\ \A y \in S : Max(S) >= y
<1> DEFINE from(x) == {y \in S : y >= x}
           froms == {from(x) : x \in S}
<1>1. froms \subseteq FiniteSubsetsOf(S) /\ froms # {}
  <2>1. FiniteSubsetsOf(S) = SUBSET S
    BY FS_FiniteSubsetsOfFinite
  <2>2. \A x \in S : from(x) \in SUBSET S
    OBVIOUS
  <2>3. froms \subseteq SUBSET S
    <3> HIDE DEF from
    <3> QED
      BY <2>2
  <2>4. froms # {}
    <3> HIDE DEF from
    <3> QED
      OBVIOUS
  <2> QED
    BY <2>1, <2>3, <2>4
<1>2. IsWellFoundedOn(StrictSubsetOrdering(S), FiniteSubsetsOf(S))
  BY FS_StrictSubsetOrderingWellFounded
<1>3. PICK u \in froms : \A v \in froms : <<v, u>> \notin StrictSubsetOrdering(S)
  <2> HIDE DEF froms
  <2> QED
    BY <1>1, <1>2, WFMin
<1>4. PICK x \in S : u = from(x)
  OBVIOUS
<1>5. ASSUME NEW y \in S
      PROVE  x >= y
  <2> SUFFICES ASSUME y > x PROVE FALSE
    OBVIOUS
  <2>1. from(y) \in froms /\ from(y) \subseteq u /\ x \in u /\ x \notin from(y)
    <3>1. x \in Int /\ y \in Int /\ \A z \in S : z \in Int
      OBVIOUS
    <3>2. \A z \in S : z >= y => z >= x
      BY <3>1
    <3>3. x >= x /\ ~(x >= y)
      BY <3>1
    <3> QED
      BY <1>4, <3>2, <3>3, Zenon
  <2>2. <<from(y), u>> \in StrictSubsetOrdering(S)
    BY <1>4, <2>1 DEF StrictSubsetOrdering
  <2> QED
    BY <1>3, <2>1, <2>2
<1> QED
  BY <1>5 DEF Max

-----------------------------------------------------------------------------
(* The choice of a mode.                                                   *)

\* What the choice needs to know of an EDID.
Known == UNION {Reports[d] : d \in Devices}
Sound(e) == e.listed \subseteq Nat /\ IsFiniteSet(e.listed) /\ e.pref \in e.listed \cup {0}

\* What a monitor reports is sound, and so is the EDID that was not read.
LEMMA KnownSound ==
  /\ \A e \in Known : e # NoEdid /\ Sound(e)
  /\ Sound(NoEdid)
<1>1. \A e \in Known : e # NoEdid /\ Sound(e)
  BY PortsAssumption DEF Known, Sound
<1>2. Sound(NoEdid)
  BY FS_EmptySet DEF Sound, NoEdid
<1> QED
  BY <1>1, <1>2

\* edid_scan_max finds the largest mode of the EDID that fits.
LEMMA ScanMaxIs ==
  ASSUME NEW c, NEW e, Sound(e)
  PROVE  /\ ScanMax(c, e) = 0 \/ (ScanMax(c, e) \in e.listed /\ FitsAuto(c, ScanMax(c, e)))
         /\ \A m \in e.listed : FitsAuto(c, m) => m <= ScanMax(c, e)
<1> DEFINE S == {0} \cup {m \in e.listed : FitsAuto(c, m)}
<1>1. S \in SUBSET Int /\ S # {}
  BY DEF Sound
<1>2. IsFiniteSet(S)
  <2>1. IsFiniteSet({m \in e.listed : FitsAuto(c, m)})
    BY FS_Subset DEF Sound
  <2> QED
    BY <2>1, FS_AddElement, FS_Union, FS_Singleton
<1>3. Max(S) \in S /\ \A y \in S : Max(S) >= y
  BY <1>1, <1>2, MaxOf
<1>4. ScanMax(c, e) = Max(S)
  BY DEF ScanMax
<1> HIDE DEF S
<1>5. ScanMax(c, e) \in S /\ \A y \in S : ScanMax(c, e) >= y
  BY <1>3, <1>4
<1> QED
  <2>1. ScanMax(c, e) \in Nat
    BY <1>5 DEF S, Sound
  <2>2. ScanMax(c, e) = 0 \/ (ScanMax(c, e) \in e.listed /\ FitsAuto(c, ScanMax(c, e)))
    BY <1>5 DEF S
  <2>3. ASSUME NEW m \in e.listed, FitsAuto(c, m)
        PROVE  m <= ScanMax(c, e)
    BY <1>5, <2>1, <2>3 DEF S, Sound
  <2> QED
    BY <2>2, <2>3

\* The mode the EDID asks for is one that fits.
LEMMA TargetIs ==
  ASSUME NEW c, NEW policy, NEW e, Sound(e)
  PROVE  LET m == Target(c, policy, e)
         IN  m # 0 => FitsAuto(c, m) /\ m \in e.listed /\ m \in Nat
  BY ScanMaxIs DEF Target, Sound

\* What is set automatically is a mode that works.
LEMMA WorksIs ==
  ASSUME NEW c \in Chips
  PROVE  Works(c) = {m \in Takes(c) : FitsAuto(c, m)} /\ Takes(c) \subseteq Nat \ {0}
  BY ModesAssumption DEF Works, Takes

\* auto_fallback_mode finds a mode of the list and of the EDID if one of them is
\* not refused, else one of the list, and none that is refused for a smaller one.
LEMMA FallbackIs ==
  ASSUME NEW c \in Chips, NEW e, NEW doubt, NEW m \in Fallback(c, e, doubt)
  PROVE  LET all    == BuiltinSet \cap Works(c)
             common == (all \ doubt) \cap e.listed
         IN  m = 0 \/ (/\ m \in all
                       /\ common # {} => m \in e.listed /\ \A k \in common : k <= m
                       /\ e.listed = {} => \A k \in all \ doubt : k <= m)
<1> DEFINE all    == BuiltinSet \cap Works(c)
           listed == all \cap e.listed
           common == (all \ doubt) \cap e.listed
           goal   == m = 0 \/ (/\ m \in all
                               /\ common # {} => m \in e.listed /\ \A k \in common : k <= m
                               /\ e.listed = {} => \A k \in all \ doubt : k <= m)
<1>1. common = listed \ doubt
  OBVIOUS
<1>2. m \in Pass(listed, doubt) \/ (listed \subseteq doubt /\ m \in Pass(all, doubt)) \/ m = 0
  BY DEF Fallback
<1> HIDE DEF all
<1>3. ASSUME m \in Pass(listed, doubt) PROVE goal
  <2>1. m \in listed /\ \A k \in listed \ doubt : k <= m
    BY <1>3 DEF Pass
  <2>2. m \in all /\ m \in e.listed
    BY <2>1
  <2> QED
    BY <1>1, <2>1, <2>2, Zenon
<1>4. ASSUME listed \subseteq doubt, m \in Pass(all, doubt) PROVE goal
  <2>1. m \in all /\ \A k \in all \ doubt : k <= m
    BY <1>4 DEF Pass
  <2>2. common = {}
    BY <1>1, <1>4
  <2> QED
    BY <2>1, <2>2
<1>5. goal
  BY <1>2, <1>3, <1>4
<1> QED
  BY <1>5 DEF all

\* A mode that usb_disp_set_auto_mode may set suits the EDID that was read last
\* in the call.  When it is read only once it is the one the policy PREFERRED asks
\* for, unless the device refuses that.
LEMMA AutoSuits ==
  ASSUME NEW c \in Chips, NEW policy, NEW e, Sound(e), NEW again, Sound(again),
         e # NoEdid => again = e,
         NEW doubt, NEW m \in AutoModes(c, policy, e, again, doubt), m # 0
  PROVE  /\ m \in Works(c)
         /\ Suits(m, c, policy, again, doubt)
         /\ policy = "PREFERRED" /\ e = again /\ again.pref \in Works(c) \ doubt
              => m = again.pref
<1> DEFINE sure   == (BuiltinSet \cap Works(c)) \ doubt
           common == sure \cap again.listed
           first  == FromEdid(c, policy, e)
<1>0. /\ m \in first \/ (first \subseteq doubt /\ m \in Fallback(c, again, doubt))
      /\ Works(c) = {k \in Takes(c) : FitsAuto(c, k)} /\ Takes(c) \subseteq Nat \ {0}
  BY WorksIs DEF AutoModes
<1>1. first = {k \in {Target(c, policy, e)} : e # NoEdid /\ k \in Takes(c)}
  BY DEF FromEdid
<1>2. CASE m \in first
  <2>1. m = Target(c, policy, e) /\ e # NoEdid /\ m \in Takes(c) /\ again = e
    BY <1>1, <1>2
  <2>2. FitsAuto(c, m) /\ m \in e.listed
    BY <2>1, TargetIs
  <2>3. m \in Works(c)
    BY <1>0, <2>1, <2>2
  <2>4. policy = "MAX" => \A k \in again.listed : FitsAuto(c, k) => k <= m
    BY <2>1, ScanMaxIs DEF Target
  <2>5. Suits(m, c, policy, again, doubt)
    BY <1>0, <2>1, <2>2, <2>3, <2>4, Zenon DEF Suits
  <2>6. policy = "PREFERRED" => m = again.pref
    BY <2>1 DEF Target
  <2> QED
    BY <2>3, <2>5, <2>6
<1>3. CASE first \subseteq doubt /\ m \in Fallback(c, again, doubt)
  <2>1. /\ m \in BuiltinSet \cap Works(c)
        /\ common # {} => m \in again.listed /\ \A k \in common : k <= m
        /\ again.listed = {} => \A k \in sure : k <= m
    BY <1>3, FallbackIs
  <2>2. again = NoEdid => again.listed = {}
    BY DEF NoEdid
  <2>3. common = {} => \A k \in common : k <= m
    OBVIOUS
  <2>4. Suits(m, c, policy, again, doubt)
    BY <2>1, <2>2, <2>3, Zenon DEF Suits
  <2>5. ASSUME policy = "PREFERRED", e = again, again.pref \in Works(c) \ doubt
        PROVE  FALSE
    <3>1. FitsAuto(c, e.pref) /\ e.pref \in Takes(c) /\ e.pref # 0
      BY <1>0, <2>5
    <3>2. e # NoEdid
      BY <3>1 DEF NoEdid
    <3>3. e.pref \in first
      BY <1>1, <2>5, <3>1, <3>2 DEF Target
    <3> QED
      BY <1>3, <2>5, <3>3
  <2> QED
    BY <2>1, <2>4, <2>5
<1> QED
  BY <1>0, <1>2, <1>3

-----------------------------------------------------------------------------
(* Types and holders.                                                      *)

Handles == Devices \cup {NoDev, Gone}
Stages  == {"WAIT", "SETUP", "READY", "FAILED"}

\* The variables of the ports and of the cables.
PortTypes ==
  /\ hal \in [Ports -> Handles]
  /\ stage \in [Ports -> Stages] /\ ready \in [Ports -> BOOLEAN]
  /\ mode \in [Ports -> Nat] /\ pending \in [Ports -> BOOLEAN]
  /\ ignore \in [Ports -> BOOLEAN]
  /\ monitor \in [Devices -> Known \cup {NoEdid}]

\* The enumerated devices are different ones.
BusTypes == bus \in Seq(Devices) /\ IsInjective(bus)

\* A monitor reports what monitors behind its device report, or nothing.
MonitorReports == \A d \in Devices : monitor[d] \in Reports[d] \cup {NoEdid}

\* The cache holds the EDID of a port that does not ignore it.
CacheOf(p, e) == [owner |-> p, edid |-> e]

GoodCache(c) == c = NoCache \/ \E p \in Ports, e \in Known : c = CacheOf(p, e) /\ ~ignore[p]

\* A display has a mode, and rechecks its EDID, only when it is ready.
StageShape ==
  \A p \in Ports :
    /\ ready[p] <=> stage[p] = "READY"
    /\ stage[p] \in {"WAIT", "FAILED"} => mode[p] = 0
    /\ pending[p] => ready[p] /\ ~ignore[p]

PortsInv ==
  PortTypes /\ BusTypes /\ MonitorReports /\ GoodCache(cache) /\ StageShape /\ OneHolder

\* One value of a function is replaced.
LEMMA ToIs ==
  ASSUME NEW S, NEW f \in [Ports -> S], NEW p \in Ports, NEW v \in S
  PROVE  /\ To(f, p, v) \in [Ports -> S]
         /\ To(f, p, v)[p] = v
         /\ \A q \in Ports : q # p => To(f, p, v)[q] = f[q]
  BY DEF To

\* What edid_read_all returns, and leaves in the cache.
LEMMA ReadEdidIs ==
  ASSUME PortTypes, NEW p \in Ports, NEW h \in Handles, NEW c, GoodCache(c),
         NEW e \in ReadEdid(p, h, c)
  PROVE  /\ e \in Known \cup {NoEdid} /\ Sound(e)
         /\ e # NoEdid => /\ Caching(p, e) = CacheOf(p, e) /\ ~ignore[p]
                          /\ c = CacheOf(p, e) \/ (h \in Devices /\ e = monitor[h])
         /\ e = NoEdid => Caching(p, e) = NoCache
         /\ GoodCache(Caching(p, e))
         /\ \A x \in ReadEdid(p, h, Caching(p, e)) : e # NoEdid => x = e
<1>1. CASE c.owner = p
  <2>1. PICK q \in Ports, x \in Known : c = CacheOf(q, x) /\ ~ignore[q]
    BY <1>1, PortsAssumption DEF GoodCache, NoCache
  <2>2. q = p /\ x = e
    BY <1>1, <2>1 DEF CacheOf, ReadEdid
  <2>3. e # NoEdid /\ Caching(p, e) = CacheOf(p, e)
    BY <2>2, KnownSound DEF Caching, CacheOf
  <2>4. ReadEdid(p, h, Caching(p, e)) = {e}
    BY <2>3 DEF ReadEdid, CacheOf
  <2> QED
    BY <2>1, <2>2, <2>3, <2>4, KnownSound DEF GoodCache
<1>2. CASE c.owner # p
  <2>1. e = NoEdid \/ (h \in Devices /\ e = monitor[h] /\ ~ignore[p])
    BY <1>2 DEF ReadEdid
  <2>2. e \in Known \cup {NoEdid}
    BY <2>1 DEF PortTypes
  <2>3. CASE e = NoEdid
    BY <2>3, KnownSound DEF Caching, GoodCache
  <2>4. CASE e # NoEdid
    <3>1. Caching(p, e) = CacheOf(p, e)
      BY <2>4 DEF Caching, CacheOf
    <3>2. ReadEdid(p, h, Caching(p, e)) = {e}
      BY <3>1 DEF ReadEdid, CacheOf
    <3> QED
      BY <2>1, <2>2, <2>4, <3>1, <3>2, KnownSound DEF GoodCache
  <2> QED
    BY <2>3, <2>4
<1> QED
  BY <1>1, <1>2

\* What usb_disp_hal_poll leaves a port with: the handle it had, or a device
\* that no port has.
LEMMA PolledIs ==
  ASSUME PortTypes, BusTypes, NEW p \in Ports, NEW h \in Polled(p)
  PROVE  /\ h \in Handles
         /\ h = hal[p] \/ h = NoDev \/ (h \in Devices /\ ~InUse(h))
<1>1. CASE Attached(p)
  BY <1>1 DEF Polled, PortTypes
<1>2. CASE ~Attached(p)
  <2>1. h = NoDev \/ \E i \in DOMAIN bus : h = bus[i] /\ ~InUse(bus[i])
    BY <1>2 DEF Polled, Scanned
  <2>2. \A i \in DOMAIN bus : bus[i] \in Devices
    BY DEF BusTypes
  <2> QED
    BY <2>1, <2>2 DEF Handles
<1> QED
  BY <1>1, <1>2

\* How a call moves the handle of its port: it keeps the one it found or
\* closes it.
Moved(p) ==
  \E h \in {hal[p], NoDev} \cup Polled(p) : hal' = To(hal, p, h)

\* So no second port gets hold of a device.
LEMMA MovedKeeps ==
  ASSUME PortTypes, BusTypes, OneHolder, NEW p \in Ports, Moved(p)
  PROVE  hal' \in [Ports -> Handles] /\ OneHolder'
<1>1. PICK h \in {hal[p], NoDev} \cup Polled(p) : hal' = To(hal, p, h)
  BY DEF Moved
<1>2. h \in Handles /\ (h = hal[p] \/ h = NoDev \/ (h \in Devices /\ ~InUse(h)))
  BY PolledIs DEF PortTypes, Handles
<1>3. /\ hal' \in [Ports -> Handles] /\ hal'[p] = h
      /\ \A q \in Ports : q # p => hal'[q] = hal[q]
  <2>1. hal \in [Ports -> Handles]
    BY DEF PortTypes
  <2> QED
    BY <1>1, <1>2, <2>1, ToIs
<1>4. NoDev \notin Devices
  BY LibusbAssumption
<1> QED
  BY <1>2, <1>3, <1>4 DEF OneHolder, InUse

\* What a call may set from the EDIDs it reads with cache c before: nothing, or a
\* mode that suits the second one.
LEMMA ReadAuto ==
  ASSUME PortTypes, NEW p \in Ports, NEW h \in Handles, NEW c, GoodCache(c),
         NEW e \in ReadEdid(p, h, c), NEW x \in ReadEdid(p, h, Caching(p, e)),
         NEW m \in AutoResults(p, h, e, x)
  PROVE  /\ m \in Nat
         /\ m # 0 =>
              /\ h \in Devices
              /\ Suits(m, h, Cfg[p].policy, x, unsure')
              /\ Cfg[p].policy = "PREFERRED" /\ e = x /\ x.pref \in Works(h) \ unsure'
                   => m = x.pref
<1>1. Sound(e) /\ GoodCache(Caching(p, e)) /\ (e # NoEdid => x = e)
  BY ReadEdidIs
<1>2. Sound(x)
  BY <1>1, ReadEdidIs
<1>3. m = 0 \/ (h \in Chips /\ h \in Devices
                /\ m \in AutoModes(h, Cfg[p].policy, e, x, unsure'))
  BY PortsAssumption DEF AutoResults
<1>4. CASE m = 0
  BY <1>4
<1>5. CASE m # 0
  <2>1. /\ h \in Chips /\ h \in Devices
        /\ m \in AutoModes(h, Cfg[p].policy, e, x, unsure')
    BY <1>3, <1>5
  <2>2. /\ m \in Works(h)
        /\ Suits(m, h, Cfg[p].policy, x, unsure')
        /\ Cfg[p].policy = "PREFERRED" /\ e = x /\ x.pref \in Works(h) \ unsure'
             => m = x.pref
    BY <1>1, <1>2, <1>5, <2>1, AutoSuits
  <2>3. m \in Nat
    BY <2>1, <2>2, WorksIs
  <2> QED
    BY <2>1, <2>2, <2>3
<1> QED
  BY <1>4, <1>5

-----------------------------------------------------------------------------
(* The steps of a port.                                                    *)

\* After a call a port has the handle it had, or none.
LEMMA AfterMoves ==
  ASSUME NEW p \in Ports, NEW h \in {hal[p]} \cup Polled(p), NEW w,
         HandleAfter(p, h, w)
  PROVE  Moved(p) /\ (w => hal' = To(hal, p, h))
  BY Zenon DEF HandleAfter, AfterFailure, Moved

\* What usb_disp_poll does when it takes mode m from the EDID or from the list.
ChooseOf(p, h, e, x, m) ==
  /\ stage[p] = "SETUP"
  /\ stage' = To(stage, p, "READY") /\ ready' = To(ready, p, TRUE)
  /\ mode' = To(mode, p, m)
  /\ cache' = Caching(p, x)
  /\ HandleAfter(p, h, m # 0)
  /\ pending' = To(pending, p, pending[p] \/ (e = NoEdid /\ ~ignore[p]))
  /\ UNCHANGED <<bus, monitor, ignore>>

\* It does that with EDIDs it reads after it has dropped the cache.
Choosing(p, h, e) ==
  \E x \in ReadEdid(p, h, Caching(p, e)) : \E m \in AutoResults(p, h, e, x) :
    ChooseOf(p, h, e, x, m)

LEMMA ChooseIs ==
  ASSUME NEW p \in Ports, PollChoose(p)
  PROVE  \E h \in Polled(p) : \E e \in ReadEdid(p, h, NoCache) : Choosing(p, h, e)
<1> DEFINE Step(h, e, x, m) ==
             /\ SetUp(p, h, m, x)
             /\ pending' = To(pending, p, pending[p] \/ (e = NoEdid /\ ~ignore[p]))
<1>0. stage[p] = "SETUP"
  BY Zenon DEF PollChoose
<1>1. PICK h \in Polled(p) \ {NoDev} :
        \E e \in ReadEdid(p, h, NoCache), expired \in BOOLEAN :
        \E x \in ReadEdid(p, h, Caching(p, e)) :
        \E m \in AutoResults(p, h, e, x) : Step(h, e, x, m)
  BY Zenon DEF PollChoose
<1> HIDE DEF Step
<1>2. PICK e \in ReadEdid(p, h, NoCache), expired \in BOOLEAN :
        \E x \in ReadEdid(p, h, Caching(p, e)) :
        \E m \in AutoResults(p, h, e, x) : Step(h, e, x, m)
  BY <1>1, Zenon
<1>3. PICK x \in ReadEdid(p, h, Caching(p, e)) :
        \E m \in AutoResults(p, h, e, x) : Step(h, e, x, m)
  BY <1>2, Zenon
<1>4. PICK m \in AutoResults(p, h, e, x) : Step(h, e, x, m)
  BY <1>3, Zenon
<1>5. ChooseOf(p, h, e, x, m)
  BY <1>0, <1>4, Zenon DEF Step, SetUp, PollCache, ChooseOf
<1>6. h \in Polled(p)
  OBVIOUS
<1> QED
  BY <1>2, <1>3, <1>4, <1>5, <1>6, Zenon DEF Choosing

\* What usb_disp_poll leaves alone.
LEMMA PollMoves ==
  ASSUME NEW p \in Ports, Poll(p)
  PROVE  Moved(p) /\ UNCHANGED <<bus, monitor, ignore>>
<1>1. CASE PollIdle(p) \/ PollAttach(p) \/ PollLost(p) \/ PollRetry(p)
  BY <1>1, Zenon DEF PollIdle, PollAttach, PollLost, PollRetry, Moved
<1>2. CASE PollAttachFails(p)
  BY <1>2, AfterMoves, Zenon DEF PollAttachFails
<1>7. CASE PollSetupOn(p)
  BY <1>7, AfterMoves, Zenon DEF PollSetupOn
<1>8. CASE PollOn(p)
  BY <1>8, AfterMoves, Zenon DEF PollOn
<1>3. CASE PollConfigured(p)
  <2>1. PICK h \in Polled(p) \cap Devices : SetUp(p, h, Cfg[p].mode, NoEdid)
    BY <1>3, Zenon DEF PollConfigured
  <2>2. HandleAfter(p, h, Cfg[p].mode # 0) /\ UNCHANGED <<bus, monitor, ignore>>
    BY <2>1, Zenon DEF SetUp
  <2> QED
    BY <2>2, AfterMoves, Zenon
<1>9. CASE PollChoose(p)
  <2>1. PICK h \in Polled(p) : \E e \in ReadEdid(p, h, NoCache) : Choosing(p, h, e)
    BY <1>9, ChooseIs, Zenon
  <2>2. \E w : HandleAfter(p, h, w) /\ UNCHANGED <<bus, monitor, ignore>>
    BY <2>1, Zenon DEF Choosing, ChooseOf
  <2> QED
    BY <2>2, AfterMoves, Zenon
<1>4. CASE PollRecheck(p)
  <2>1. PICK h \in Polled(p) \ {NoDev} :
          hal' = To(hal, p, h) \/ \E w \in BOOLEAN : HandleAfter(p, h, w)
    BY <1>4, Zenon DEF PollRecheck
  <2>2. Moved(p)
    BY <2>1, AfterMoves, Zenon DEF Moved
  <2> QED
    BY <1>4, <2>2, Zenon DEF PollRecheck
<1> QED
  BY <1>1, <1>2, <1>3, <1>4, <1>7, <1>8, <1>9, Zenon DEF Poll

\* What usb_disp_poll leaves in the cache.
LEMMA PollCaches ==
  ASSUME PortTypes, BusTypes, NEW p \in Ports, Poll(p)
  PROVE  GoodCache(cache')
<1>0. /\ GoodCache(NoCache) /\ Caching(p, NoEdid) = NoCache
      /\ \A h \in Polled(p) : h \in Handles
  BY PolledIs DEF GoodCache, Caching
<1>1. CASE cache' = Caching(p, NoEdid)
  BY <1>0, <1>1
<1>2. CASE \E h \in Handles : \E e \in ReadEdid(p, h, NoCache) : cache' = Caching(p, e)
  BY <1>0, <1>2, ReadEdidIs
<1>3. CASE PollChoose(p)
  <2>0. PICK h \in Polled(p) : \E e \in ReadEdid(p, h, NoCache) : Choosing(p, h, e)
    BY <1>3, ChooseIs, Zenon
  <2>1. PICK e \in ReadEdid(p, h, NoCache) :
          \E x \in ReadEdid(p, h, Caching(p, e)) : cache' = Caching(p, x)
    BY <2>0, Zenon DEF Choosing, ChooseOf
  <2>2. h \in Handles /\ GoodCache(Caching(p, e))
    BY <1>0, ReadEdidIs
  <2>3. PICK x \in ReadEdid(p, h, Caching(p, e)) : cache' = Caching(p, x)
    BY <2>1, Zenon
  <2>4. GoodCache(Caching(p, x))
    BY <2>2, ReadEdidIs
  <2> QED
    BY <2>3, <2>4
<1>4. CASE PollSetupOn(p)
  BY <1>0, <1>2, <1>4 DEF PollSetupOn, PollCache
<1>5. CASE PollRecheck(p)
  BY <1>0, <1>2, <1>5 DEF PollRecheck, PollCache
<1>6. CASE \/ PollIdle(p) \/ PollAttach(p) \/ PollAttachFails(p) \/ PollLost(p)
           \/ PollRetry(p) \/ PollConfigured(p) \/ PollOn(p)
  BY <1>1, <1>6, Zenon
     DEF PollIdle, PollAttach, PollAttachFails, PollLost, PollRetry, PollConfigured,
         SetUp, PollOn, PollCache
<1> QED
  BY <1>3, <1>4, <1>5, <1>6, Zenon DEF Poll

\* What a port has of the display.
PortOK(p, s, r, m, n, i) ==
  /\ s \in Stages /\ r \in BOOLEAN /\ m \in Nat /\ n \in BOOLEAN
  /\ r <=> s = "READY"
  /\ s \in {"WAIT", "FAILED"} => m = 0
  /\ n => r /\ ~i

\* A step that gives one port what it may have.
LEMMA PortStep ==
  ASSUME PortTypes, StageShape, NEW p \in Ports, UNCHANGED ignore,
         NEW s, NEW r, NEW m, NEW n, PortOK(p, s, r, m, n, ignore[p]),
         stage' = To(stage, p, s), ready' = To(ready, p, r),
         mode' = To(mode, p, m), pending' = To(pending, p, n)
  PROVE  /\ stage' \in [Ports -> Stages] /\ ready' \in [Ports -> BOOLEAN]
         /\ mode' \in [Ports -> Nat] /\ pending' \in [Ports -> BOOLEAN]
         /\ StageShape'
<1>1. /\ stage \in [Ports -> Stages] /\ ready \in [Ports -> BOOLEAN]
      /\ mode \in [Ports -> Nat] /\ pending \in [Ports -> BOOLEAN]
      /\ s \in Stages /\ r \in BOOLEAN /\ m \in Nat /\ n \in BOOLEAN
  BY Zenon DEF PortTypes, PortOK
<1>2. /\ stage' \in [Ports -> Stages] /\ stage'[p] = s
      /\ \A q \in Ports : q # p => stage'[q] = stage[q]
  <2>1. stage \in [Ports -> Stages] /\ s \in Stages
    BY <1>1
  <2>2. /\ To(stage, p, s) \in [Ports -> Stages] /\ To(stage, p, s)[p] = s
        /\ \A q \in Ports : q # p => To(stage, p, s)[q] = stage[q]
    BY <2>1 DEF To
  <2> QED
    BY <2>2
<1>3. /\ ready' \in [Ports -> BOOLEAN] /\ ready'[p] = r
      /\ \A q \in Ports : q # p => ready'[q] = ready[q]
  BY <1>1, ToIs
<1>4. /\ mode' \in [Ports -> Nat] /\ mode'[p] = m
      /\ \A q \in Ports : q # p => mode'[q] = mode[q]
  BY <1>1, ToIs
<1>5. /\ pending' \in [Ports -> BOOLEAN] /\ pending'[p] = n
      /\ \A q \in Ports : q # p => pending'[q] = pending[q]
  BY <1>1 DEF To
<1>6. StageShape'
  <2> SUFFICES ASSUME NEW q \in Ports
               PROVE  /\ ready'[q] <=> stage'[q] = "READY"
                      /\ stage'[q] \in {"WAIT", "FAILED"} => mode'[q] = 0
                      /\ pending'[q] => ready'[q] /\ ~ignore'[q]
    BY Zenon DEF StageShape
  <2>1. CASE q = p
    BY <1>2, <1>3, <1>4, <1>5, <2>1, Zenon DEF PortOK
  <2>2. CASE q # p
    BY <1>2, <1>3, <1>4, <1>5, <2>2, Zenon DEF StageShape
  <2> QED
    BY <2>1, <2>2
<1> QED
  BY <1>2, <1>3, <1>4, <1>5, <1>6


\* A value that stays is replaced by itself.
LEMMA Kept ==
  ASSUME PortTypes, NEW p \in Ports
  PROVE  /\ stage = To(stage, p, stage[p]) /\ ready = To(ready, p, ready[p])
         /\ mode = To(mode, p, mode[p]) /\ pending = To(pending, p, pending[p])
  BY DEF PortTypes, To

\* A mode that the EDID asks for is a number, and the device can do it.
LEMMA FromEdidIs ==
  ASSUME PortTypes, NEW p \in Ports, NEW h \in Handles, NEW e \in ReadEdid(p, h, NoCache),
         NEW policy, NEW m \in FromEdid(h, policy, e)
  PROVE  h \in Devices /\ e # NoEdid /\ m \in Nat \ {0}
<1>1. e # NoEdid /\ m \in Takes(h)
  BY DEF FromEdid
<1>2. h \in Devices
  <2>1. GoodCache(NoCache) /\ NoCache.owner # p /\ \A y : CacheOf(p, y).owner = p
    BY PortsAssumption DEF GoodCache, NoCache, CacheOf
  <2> QED
    BY <1>1, <2>1, ReadEdidIs
<1>3. m \in Nat \ {0}
  BY <1>1, <1>2, WorksIs, PortsAssumption
<1> QED
  BY <1>1, <1>2, <1>3

\* Every step of usb_disp_poll gives the port what it may have.
LEMMA PollStages ==
  ASSUME PortsInv, NEW p \in Ports, Poll(p)
  PROVE  /\ stage' \in [Ports -> Stages] /\ ready' \in [Ports -> BOOLEAN]
         /\ mode' \in [Ports -> Nat] /\ pending' \in [Ports -> BOOLEAN]
         /\ StageShape'
<1>0. /\ PortTypes /\ BusTypes /\ StageShape /\ UNCHANGED ignore
      /\ stage[p] \in Stages /\ ready[p] \in BOOLEAN /\ mode[p] \in Nat
      /\ pending[p] \in BOOLEAN
  BY PollMoves DEF PortsInv, PortTypes
<1>s. PortOK(p, stage[p], ready[p], mode[p], pending[p], ignore[p])
  BY <1>0, Zenon DEF PortOK, StageShape
<1>1. CASE UNCHANGED coreVars
  <2>1. /\ stage' = To(stage, p, stage[p]) /\ ready' = To(ready, p, ready[p])
        /\ mode' = To(mode, p, mode[p]) /\ pending' = To(pending, p, pending[p])
    BY <1>0, <1>1, Kept DEF coreVars
  <2> QED
    BY <1>0, <1>s, <2>1, PortStep
<1>2. CASE PollAttach(p) \/ PollAttachFails(p)
  <2>1. PICK s \in {"SETUP", "FAILED"} :
          /\ stage[p] = "WAIT" /\ stage' = To(stage, p, s)
          /\ UNCHANGED <<ready, mode, pending>>
    BY <1>2 DEF PollAttach, PollAttachFails
  <2>2. /\ ready' = To(ready, p, ready[p]) /\ mode' = To(mode, p, mode[p])
        /\ pending' = To(pending, p, pending[p])
    BY <1>0, <2>1, Kept
  <2>3. PortOK(p, s, ready[p], mode[p], pending[p], ignore[p])
    BY <1>s, <2>1 DEF PortOK, Stages
  <2> QED
    BY <1>0, <2>1, <2>2, <2>3, PortStep
<1>3. CASE PollLost(p) \/ PollRetry(p)
  <2>1. /\ stage' = To(stage, p, "WAIT") /\ ready' = To(ready, p, FALSE)
        /\ mode' = To(mode, p, 0) /\ pending' = To(pending, p, FALSE)
    BY <1>3, Zenon DEF PollLost, PollRetry, Reset
  <2>2. PortOK(p, "WAIT", FALSE, 0, FALSE, ignore[p])
    BY DEF PortOK, Stages
  <2> QED
    BY <1>0, <2>1, <2>2, PortStep
<1>4. CASE PollConfigured(p)
  <2>1. PICK m : \E h \in Devices : m \in Takes(h)
             /\ stage' = To(stage, p, "READY") /\ ready' = To(ready, p, TRUE)
             /\ mode' = To(mode, p, m) /\ UNCHANGED pending
    BY <1>4, Zenon DEF PollConfigured, SetUp
  <2>2. m \in Nat
    BY <2>1, PortsAssumption, ModesAssumption DEF Takes
  <2>3. pending' = To(pending, p, pending[p])
    BY <1>0, <2>1, Kept
  <2>4. ~pending[p]
    BY <1>0, <1>4 DEF PollConfigured, StageShape
  <2>5. PortOK(p, "READY", TRUE, m, pending[p], ignore[p])
    BY <1>0, <2>2, <2>4 DEF PortOK, Stages
  <2> QED
    BY <1>0, <2>1, <2>3, <2>5, PortStep
<1>5. CASE PollChoose(p)
  <2>0. ~pending[p]
    BY <1>0, <1>5 DEF PollChoose, StageShape
  <2>1. PICK h \in Polled(p) : \E e \in ReadEdid(p, h, NoCache) : Choosing(p, h, e)
    BY <1>5, ChooseIs, Zenon
  <2>2. PICK e \in ReadEdid(p, h, NoCache) : Choosing(p, h, e)
    BY <2>1, Zenon
  <2>6. PICK x \in ReadEdid(p, h, Caching(p, e)) :
          \E m \in AutoResults(p, h, e, x) : ChooseOf(p, h, e, x, m)
    BY <2>2, Zenon DEF Choosing
  <2>3. PICK m \in AutoResults(p, h, e, x) : ChooseOf(p, h, e, x, m)
    BY <2>6, Zenon
  <2>4. m \in Nat
    <3>1. h \in Handles /\ GoodCache(NoCache)
      BY <1>0, PolledIs DEF GoodCache
    <3> QED
      BY <1>0, <3>1, ReadAuto
  <2>5. PortOK(p, "READY", TRUE, m, pending[p] \/ (e = NoEdid /\ ~ignore[p]), ignore[p])
    BY <2>0, <2>4 DEF PortOK, Stages
  <2>7. /\ stage' = To(stage, p, "READY") /\ ready' = To(ready, p, TRUE)
        /\ mode' = To(mode, p, m)
        /\ pending' = To(pending, p, pending[p] \/ (e = NoEdid /\ ~ignore[p]))
    BY <2>3, Zenon DEF ChooseOf
  <2> QED
    BY <1>0, <2>5, <2>7, PortStep
<1>6. CASE PollRecheck(p)
  <2>0. stage[p] = "READY" /\ ~ignore[p] /\ UNCHANGED <<stage, ready>>
    BY <1>6, Zenon DEF PollRecheck
  <2>1. PICK n \in BOOLEAN : pending' = To(pending, p, n)
    BY <1>6, Zenon DEF PollRecheck
  <2>2. mode' = mode
          \/ \E h \in Polled(p) : \E e \in ReadEdid(p, h, NoCache) :
             \E m \in FromEdid(h, Cfg[p].policy, e) : mode' = To(mode, p, m)
    BY <1>6 DEF PollRecheck
  <2>6. \A h \in Polled(p) : h \in Handles
    BY <1>0, PolledIs
  <2>3. PICK m \in Nat : mode' = To(mode, p, m)
    BY <1>0, <2>2, <2>6, Kept, FromEdidIs
  <2>4. stage' = To(stage, p, stage[p]) /\ ready' = To(ready, p, ready[p])
    BY <1>0, <2>0, Kept
  <2>5. PortOK(p, stage[p], ready[p], m, n, ignore[p])
    BY <1>s, <2>0 DEF PortOK
  <2> QED
    BY <1>0, <2>1, <2>3, <2>4, <2>5, PortStep
<1>7. CASE PollIdle(p) \/ PollSetupOn(p) \/ PollOn(p)
  BY <1>1, <1>7, Zenon DEF PollIdle, PollSetupOn, PollOn
<1> QED
  BY <1>2, <1>3, <1>4, <1>5, <1>6, <1>7, Zenon DEF Poll

-----------------------------------------------------------------------------
(* Each step keeps the invariant.                                          *)

\* usb_disp_poll.
LEMMA PollKeeps ==
  ASSUME PortsInv, NEW p \in Ports, Poll(p)
  PROVE  PortsInv'
<1>1. /\ PortTypes /\ BusTypes /\ OneHolder /\ MonitorReports
      /\ Moved(p) /\ UNCHANGED <<bus, monitor, ignore>>
  BY PollMoves, Zenon DEF PortsInv
<1>2. hal' \in [Ports -> Handles] /\ OneHolder'
  BY <1>1, MovedKeeps
<1>3. GoodCache(cache)'
  <2>1. GoodCache(cache')
    BY <1>1, PollCaches
  <2> QED
    BY <1>1, <2>1 DEF GoodCache
<1>4. /\ stage' \in [Ports -> Stages] /\ ready' \in [Ports -> BOOLEAN]
      /\ mode' \in [Ports -> Nat] /\ pending' \in [Ports -> BOOLEAN]
      /\ StageShape'
  BY PollStages
<1>5. PortTypes' /\ BusTypes' /\ MonitorReports'
  BY <1>1, <1>2, <1>4, Zenon DEF PortTypes, BusTypes, MonitorReports
<1> QED
  BY <1>2, <1>3, <1>4, <1>5, Zenon DEF PortsInv

\* The calls that read the EDID between the polls.
LEMMA EdidCallKeeps ==
  ASSUME PortsInv, NEW p \in Ports, SetAutoMode(p) \/ QueryEdid(p)
  PROVE  PortsInv'
<1>1. /\ PortTypes /\ BusTypes /\ OneHolder /\ MonitorReports /\ StageShape /\ GoodCache(cache)
      /\ hal[p] \in Handles /\ HasProt(p)
      /\ UNCHANGED <<bus, monitor, stage, ready, pending, ignore>>
  BY Zenon DEF PortsInv, PortTypes, SetAutoMode, QueryEdid, coreVars
<1>2. PICK w \in BOOLEAN : HandleAfter(p, hal[p], w)
  <2>1. CASE SetAutoMode(p)
    BY <2>1, Zenon DEF SetAutoMode
  <2>2. CASE QueryEdid(p)
    <3>1. PICK e : HandleAfter(p, hal[p], e # NoEdid \/ ignore[p])
      BY <2>2, Zenon DEF QueryEdid
    <3>2. (e # NoEdid \/ ignore[p]) \in BOOLEAN
      OBVIOUS
    <3> QED
      BY <3>1, <3>2, Zenon
  <2> QED
    BY <2>1, <2>2
<1>3. hal' \in [Ports -> Handles] /\ OneHolder'
  <2>1. Moved(p)
    BY <1>2, AfterMoves
  <2> QED
    BY <1>1, <2>1, MovedKeeps
<1>4. GoodCache(cache)' /\ mode' \in [Ports -> Nat]
      /\ \A q \in Ports : mode'[q] = mode[q] \/ stage[q] \in {"SETUP", "READY"}
  <2>1. CASE SetAutoMode(p)
    <3>1. PICK e \in ReadEdid(p, hal[p], cache) :
            \E x \in ReadEdid(p, hal[p], Caching(p, e)) :
            \E m \in AutoResults(p, hal[p], e, x) :
              cache' = Caching(p, x) /\ mode' = IF m # 0 THEN To(mode, p, m) ELSE mode
      BY <2>1, Zenon DEF SetAutoMode
    <3>2. PICK x \in ReadEdid(p, hal[p], Caching(p, e)) :
            \E m \in AutoResults(p, hal[p], e, x) :
              cache' = Caching(p, x) /\ mode' = IF m # 0 THEN To(mode, p, m) ELSE mode
      BY <3>1
    <3>8. PICK m \in AutoResults(p, hal[p], e, x) :
              cache' = Caching(p, x) /\ mode' = IF m # 0 THEN To(mode, p, m) ELSE mode
      BY <3>2
    <3>3. GoodCache(Caching(p, e))
      BY <1>1, ReadEdidIs
    <3>4. GoodCache(Caching(p, x))
      BY <1>1, <3>3, ReadEdidIs
    <3>5. m \in Nat
      BY <1>1, ReadAuto
    <3>6. GoodCache(cache)'
      BY <1>1, <3>8, <3>4 DEF GoodCache
    <3>7. mode \in [Ports -> Nat]
      BY <1>1 DEF PortTypes
    <3> QED
      BY <1>1, <3>8, <3>5, <3>6, <3>7 DEF To, HasProt
  <2>2. CASE QueryEdid(p)
    <3>1. PICK e \in ReadEdid(p, hal[p], cache) : cache' = Caching(p, e) /\ UNCHANGED mode
      BY <2>2, Zenon DEF QueryEdid, coreVars
    <3>2. GoodCache(Caching(p, e))
      BY <1>1, ReadEdidIs
    <3>3. GoodCache(cache)'
      BY <1>1, <3>1, <3>2 DEF GoodCache
    <3> QED
      BY <1>1, <3>1, <3>3 DEF PortTypes
  <2> QED
    BY <2>1, <2>2
<1>5. StageShape'
  BY <1>1, <1>4 DEF StageShape
<1>6. PortTypes' /\ BusTypes' /\ MonitorReports'
  BY <1>1, <1>3, <1>4, Zenon DEF PortTypes, BusTypes, MonitorReports
<1> QED
  BY <1>3, <1>4, <1>5, <1>6, Zenon DEF PortsInv

\* usb_disp_set_ignore_edid.
LEMMA IgnoreKeeps ==
  ASSUME PortsInv, NEW p \in Ports, NEW on \in BOOLEAN, SetIgnoreEdid(p, on)
  PROVE  PortsInv'
<1>1. /\ PortTypes /\ BusTypes /\ OneHolder /\ MonitorReports /\ StageShape /\ GoodCache(cache)
      /\ ignore' = To(ignore, p, on)
      /\ pending' = IF on THEN To(pending, p, FALSE) ELSE pending
      /\ cache' = IF on /\ cache.owner = p THEN NoCache ELSE cache
      /\ UNCHANGED <<bus, hal, monitor, stage, ready, mode>>
  BY Zenon DEF PortsInv, SetIgnoreEdid, busVars
<1>2. ignore \in [Ports -> BOOLEAN] /\ pending \in [Ports -> BOOLEAN]
  BY <1>1 DEF PortTypes
<1>3. ignore' \in [Ports -> BOOLEAN] /\ pending' \in [Ports -> BOOLEAN]
  BY <1>1, <1>2 DEF To
<1>4. PortTypes' /\ BusTypes' /\ MonitorReports' /\ OneHolder'
  BY <1>1, <1>3, Zenon DEF PortTypes, BusTypes, MonitorReports, OneHolder
<1>5. StageShape'
  BY <1>1, <1>2 DEF StageShape, To
<1>6. GoodCache(cache)'
  <2>1. CASE cache = NoCache
    BY <1>1, <2>1 DEF GoodCache
  <2>2. CASE cache # NoCache
    <3>1. PICK q \in Ports, e \in Known : cache = CacheOf(q, e) /\ ~ignore[q]
      BY <1>1, <2>2 DEF GoodCache
    <3>2. cache.owner = q
      BY <3>1 DEF CacheOf
    <3>3. CASE on /\ q = p
      BY <1>1, <3>2, <3>3 DEF GoodCache
    <3>4. CASE ~(on /\ q = p)
      <4>1. cache' = CacheOf(q, e) /\ ~ignore'[q]
        BY <1>1, <1>2, <3>1, <3>2, <3>4 DEF To
      <4> QED
        BY <4>1 DEF GoodCache
    <3> QED
      BY <3>3, <3>4
  <2> QED
    BY <2>1, <2>2
<1> QED
  BY <1>4, <1>5, <1>6, Zenon DEF PortsInv

\* usb_disp_force_reenum, and the transfers of the drawing calls.
LEMMA HandleCallKeeps ==
  ASSUME PortsInv, NEW p \in Ports, ForceReenum(p) \/ Draw(p)
  PROVE  PortsInv'
<1>1. Moved(p) /\ UNCHANGED <<bus, monitor, coreVars, ignore, cache>>
  <2>1. CASE ForceReenum(p)
    BY <2>1, Zenon DEF ForceReenum, Reenum, Moved, To
  <2>2. CASE Draw(p)
    <3>1. HandleAfter(p, hal[p], FALSE) /\ UNCHANGED <<bus, monitor, coreVars, ignore, cache>>
      BY <2>2, Zenon DEF Draw, Bulk, HandleAfter, To
    <3> QED
      BY <3>1, AfterMoves, Zenon
  <2> QED
    BY <2>1, <2>2
<1>2. hal' \in [Ports -> Handles] /\ OneHolder'
  <2>1. PortTypes /\ BusTypes /\ OneHolder
    BY Zenon DEF PortsInv
  <2> QED
    BY <1>1, <2>1, MovedKeeps
<1>3. UNCHANGED <<bus, monitor, stage, ready, mode, pending, ignore, cache>>
  BY <1>1, Zenon DEF coreVars
<1> QED
  BY <1>2, <1>3, Zenon
     DEF PortsInv, PortTypes, BusTypes, MonitorReports, GoodCache, StageShape

\* One sequence after another.
LEMMA ConcatIs ==
  ASSUME NEW a \in Seq(Devices), NEW b \in Seq(Devices)
  PROVE  /\ a \o b \in Seq(Devices) /\ Len(a \o b) = Len(a) + Len(b)
         /\ \A k \in 1..(Len(a) + Len(b)) :
              (a \o b)[k] = IF k <= Len(a) THEN a[k] ELSE b[k - Len(a)]
  OBVIOUS

\* A device that comes to a place in the order pushes the later ones back.
LEMMA Inserted ==
  ASSUME NEW s \in Seq(Devices), NEW i \in 1..(Len(s) + 1), NEW d \in Devices
  PROVE  LET t == InsertAt(s, i, d)
         IN  /\ t \in Seq(Devices) /\ Len(t) = Len(s) + 1
             /\ \A k \in 1..Len(t) :
                  t[k] = IF k < i THEN s[k] ELSE IF k = i THEN d ELSE s[k - 1]
<1> DEFINE a == SubSeq(s, 1, i - 1)
           b == SubSeq(s, i, Len(s))
<1>0. Len(s) \in Nat /\ DOMAIN s = 1..Len(s) /\ i \in Nat
  OBVIOUS
<1>1. /\ a \in Seq(Devices) /\ Len(a) = i - 1
      /\ \A k \in 1..(i - 1) : a[k] = s[k]
  BY <1>0
<1>2. /\ b \in Seq(Devices) /\ Len(b) = Len(s) - i + 1
      /\ \A k \in 1..(Len(s) - i + 1) : b[k] = s[i + k - 1]
  BY <1>0
<1> HIDE DEF a, b
<1> DEFINE ad == a \o <<d>>
<1>3. /\ ad \in Seq(Devices) /\ Len(ad) = i
      /\ \A k \in 1..i : ad[k] = IF k < i THEN s[k] ELSE d
  BY <1>0, <1>1
<1>4. InsertAt(s, i, d) = ad \o b
  BY DEF InsertAt, a, b
<1> HIDE DEF ad
<1>5. /\ InsertAt(s, i, d) \in Seq(Devices)
      /\ Len(InsertAt(s, i, d)) = i + Len(b)
      /\ \A k \in 1..(i + Len(b)) :
           InsertAt(s, i, d)[k] = IF k <= i THEN ad[k] ELSE b[k - i]
  <2>1. ad \in Seq(Devices) /\ b \in Seq(Devices) /\ Len(ad) = i
    BY <1>2, <1>3
  <2>2. /\ ad \o b \in Seq(Devices) /\ Len(ad \o b) = Len(ad) + Len(b)
        /\ \A k \in 1..(Len(ad) + Len(b)) :
             (ad \o b)[k] = IF k <= Len(ad) THEN ad[k] ELSE b[k - Len(ad)]
    BY <2>1, ConcatIs
  <2> QED
    BY <1>4, <2>1, <2>2, Zenon
<1>6. i + Len(b) = Len(s) + 1
  BY <1>0, <1>2
<1>7. ASSUME NEW k \in 1..(Len(s) + 1)
      PROVE  InsertAt(s, i, d)[k] = IF k < i THEN s[k] ELSE IF k = i THEN d ELSE s[k - 1]
  <2>1. CASE k <= i
    <3>1. k \in 1..i /\ k \in 1..(i + Len(b))
      BY <1>0, <1>6, <2>1
    <3>2. InsertAt(s, i, d)[k] = ad[k]
      BY <1>5, <2>1, <3>1
    <3> QED
      BY <1>0, <1>3, <2>1, <3>1, <3>2
  <2>2. CASE k > i
    <3>1. k - i \in 1..(Len(s) - i + 1) /\ i + (k - i) - 1 = k - 1
      BY <1>0, <2>2
    <3>2. b[k - i] = s[k - 1]
      BY <1>2, <3>1
    <3> QED
      BY <1>0, <1>5, <1>6, <2>2, <3>2
  <2> QED
    BY <1>0, <2>1, <2>2
<1> QED
  BY <1>5, <1>6, <1>7

\* One that goes lets the later ones move up.
LEMMA Removed ==
  ASSUME NEW s \in Seq(Devices), NEW i \in 1..Len(s)
  PROVE  LET t == RemoveAt(s, i)
         IN  /\ t \in Seq(Devices) /\ Len(t) = Len(s) - 1
             /\ \A k \in 1..Len(t) : t[k] = IF k < i THEN s[k] ELSE s[k + 1]
<1>0. Len(s) \in Nat /\ DOMAIN s = 1..Len(s) /\ i \in Nat /\ 1 <= i /\ i <= Len(s)
  OBVIOUS
<1>7. i < Len(s) \/ i = Len(s)
  <2>1. \A m, n \in Nat : m <= n => m < n \/ m = n
    OBVIOUS
  <2> QED
    BY <1>0, <2>1, Zenon
<1> DEFINE a == SubSeq(s, 1, i - 1)
           b == SubSeq(s, i + 1, Len(s))
<1>1. /\ a \in Seq(Devices) /\ Len(a) = i - 1
      /\ \A k \in 1..(i - 1) : a[k] = s[k]
  BY <1>0
<1>2. /\ b \in Seq(Devices) /\ Len(b) = Len(s) - i
      /\ \A k \in 1..(Len(s) - i) : b[k] = s[i + k]
  <2>1. i + 1 \in Nat /\ i + 1 <= Len(s) + 1 /\ Len(s) - (i + 1) + 1 = Len(s) - i
    BY <1>0
  <2>2. /\ b \in Seq(Devices)
        /\ Len(b) = IF i + 1 <= Len(s) THEN Len(s) - (i + 1) + 1 ELSE 0
        /\ \A k \in 1..(Len(s) - (i + 1) + 1) : b[k] = s[(i + 1) + k - 1]
    BY <1>0, <2>1
  <2>3. Len(b) = Len(s) - i
    <3>1. CASE i < Len(s)
      <4>1. i + 1 <= Len(s)
        BY <1>0, <3>1
      <4> QED
        BY <2>1, <2>2, <4>1
    <3>2. CASE i = Len(s)
      <4>1. ~(i + 1 <= i) /\ i - i = 0
        BY <1>0
      <4> QED
        BY <2>2, <3>2, <4>1
    <3> QED
      BY <1>7, <3>1, <3>2, Zenon
  <2>4. ASSUME NEW k \in 1..(Len(s) - i)
        PROVE  b[k] = s[i + k]
    <3>1. (i + 1) + k - 1 = i + k /\ k \in 1..(Len(s) - (i + 1) + 1)
      BY <1>0, <2>1
    <3> QED
      BY <2>2, <3>1
  <2> QED
    BY <2>2, <2>3, <2>4
<1> HIDE DEF a, b
<1>3. RemoveAt(s, i) = a \o b
  BY DEF RemoveAt, a, b
<1>4. /\ RemoveAt(s, i) \in Seq(Devices)
      /\ Len(RemoveAt(s, i)) = (i - 1) + Len(b)
      /\ \A k \in 1..((i - 1) + Len(b)) :
           RemoveAt(s, i)[k] = IF k <= i - 1 THEN a[k] ELSE b[k - (i - 1)]
  <2>1. a \in Seq(Devices) /\ b \in Seq(Devices) /\ Len(a) = i - 1
    BY <1>1, <1>2
  <2>2. /\ a \o b \in Seq(Devices) /\ Len(a \o b) = Len(a) + Len(b)
        /\ \A k \in 1..(Len(a) + Len(b)) :
             (a \o b)[k] = IF k <= Len(a) THEN a[k] ELSE b[k - Len(a)]
    BY <2>1, ConcatIs
  <2> QED
    BY <1>3, <2>1, <2>2, Zenon
<1>5. (i - 1) + Len(b) = Len(s) - 1
  BY <1>0, <1>2
<1>6. ASSUME NEW k \in 1..(Len(s) - 1)
      PROVE  RemoveAt(s, i)[k] = IF k < i THEN s[k] ELSE s[k + 1]
  <2>1. CASE k < i
    BY <1>0, <1>1, <1>4, <1>5, <2>1
  <2>2. CASE k >= i
    <3>1. k - (i - 1) \in 1..(Len(s) - i) /\ i + (k - (i - 1)) = k + 1
      BY <1>0, <2>2
    <3>2. b[k - (i - 1)] = s[k + 1]
      BY <1>2, <3>1
    <3> QED
      BY <1>0, <1>4, <1>5, <2>2, <3>2
  <2> QED
    BY <1>0, <2>1, <2>2
<1> QED
  BY <1>4, <1>5, <1>6

\* A device that is not in the order comes to a place in it.
LEMMA PlugKeeps ==
  ASSUME PortsInv, NEW d \in Devices, PlugDevice(d)
  PROVE  PortsInv'
<1>1. /\ d \notin Range(bus) /\ bus \in Seq(Devices) /\ IsInjective(bus)
      /\ UNCHANGED <<hal, monitor, coreVars, ignore, cache>>
  BY Zenon DEF PortsInv, BusTypes, PlugDevice, Plug
<1>2. PICK i \in 1..(Len(bus) + 1) : bus' = InsertAt(bus, i, d)
  BY Zenon DEF PlugDevice, Plug
<1>3. /\ bus' \in Seq(Devices) /\ Len(bus') = Len(bus) + 1
      /\ \A k \in 1..Len(bus') :
           bus'[k] = IF k < i THEN bus[k] ELSE IF k = i THEN d ELSE bus[k - 1]
  <2> DEFINE t == InsertAt(bus, i, d)
  <2>1. /\ t \in Seq(Devices) /\ Len(t) = Len(bus) + 1
        /\ \A k \in 1..Len(t) :
             t[k] = IF k < i THEN bus[k] ELSE IF k = i THEN d ELSE bus[k - 1]
    <3> i \in 1..(Len(bus) + 1) /\ bus \in Seq(Devices)
      BY <1>1, <1>2
    <3> HIDE DEF t
    <3> QED
      BY Inserted DEF t
  <2> QED
    BY <1>2, <2>1, Zenon
<1>4. /\ \A k \in 1..Len(bus) : bus[k] # d
      /\ \A j, k \in 1..Len(bus) : bus[j] = bus[k] => j = k
      /\ Len(bus) \in Nat /\ DOMAIN bus' = 1..Len(bus')
  BY <1>1, <1>3 DEF Range, IsInjective
<1>5. IsInjective(bus')
  <2> DEFINE old(k) == IF k < i THEN k ELSE k - 1
  <2>0. \A k \in 1..Len(bus') : k # i => old(k) \in 1..Len(bus) /\ bus'[k] = bus[old(k)]
    BY <1>2, <1>3, <1>4
  <2>1. \A j, k \in 1..Len(bus') : bus'[j] = bus'[k] => j = k
    <3>1. \A j, k \in 1..Len(bus') :
            bus'[j] = bus'[k] => (j = i /\ k = i) \/ (j # i /\ k # i /\ old(j) = old(k))
      <4>1. \A k \in 1..Len(bus') : k = i => bus'[k] = d
        BY <1>3
      <4> HIDE DEF old
      <4> QED
        BY <1>4, <2>0, <4>1
    <3>2. \A j, k \in 1..Len(bus') : j # i /\ k # i /\ old(j) = old(k) => j = k
      BY <1>2, <1>4
    <3> QED
      BY <3>1, <3>2
  <2> QED
    BY <1>4, <2>1 DEF IsInjective
<1>6. BusTypes'
  BY <1>3, <1>5 DEF BusTypes
<1>7. UNCHANGED <<hal, monitor, stage, ready, mode, pending, ignore, cache>>
  BY <1>1, Zenon DEF coreVars
<1> QED
  BY <1>6, <1>7, Zenon
     DEF PortsInv, PortTypes, MonitorReports, GoodCache, StageShape, OneHolder

\* A device is taken out of the order: every port that had it has to notice.
LEMMA UnplugKeeps ==
  ASSUME PortsInv, NEW d \in Devices, UnplugDevice(d)
  PROVE  PortsInv'
<1>1. /\ bus \in Seq(Devices) /\ IsInjective(bus) /\ PortTypes /\ OneHolder
      /\ hal' = [p \in Ports |-> IF hal[p] = d THEN Gone ELSE hal[p]]
      /\ UNCHANGED <<monitor, coreVars, ignore, cache>>
  BY Zenon DEF PortsInv, BusTypes, UnplugDevice, Unplug
<1>2. PICK i \in 1..Len(bus) : bus' = RemoveAt(bus, i)
  BY <1>1 DEF UnplugDevice, Unplug
<1>3. /\ bus' \in Seq(Devices) /\ Len(bus') = Len(bus) - 1
      /\ \A k \in 1..Len(bus') : bus'[k] = IF k < i THEN bus[k] ELSE bus[k + 1]
  <2> DEFINE t == RemoveAt(bus, i)
  <2>1. /\ t \in Seq(Devices) /\ Len(t) = Len(bus) - 1
        /\ \A k \in 1..Len(t) : t[k] = IF k < i THEN bus[k] ELSE bus[k + 1]
    BY <1>1, <1>2, Removed
  <2> QED
    BY <1>2, <2>1, Zenon
<1>4. /\ \A j, k \in 1..Len(bus) : bus[j] = bus[k] => j = k
      /\ Len(bus) \in Nat /\ DOMAIN bus' = 1..Len(bus')
  BY <1>1, <1>3 DEF IsInjective
<1>5. IsInjective(bus')
  <2> DEFINE old(k) == IF k < i THEN k ELSE k + 1
  <2>0. \A k \in 1..Len(bus') : old(k) \in 1..Len(bus) /\ bus'[k] = bus[old(k)]
    BY <1>2, <1>3, <1>4
  <2>1. \A j, k \in 1..Len(bus') : bus'[j] = bus'[k] => j = k
    <3>1. \A j, k \in 1..Len(bus') : bus'[j] = bus'[k] => old(j) = old(k)
      <4> HIDE DEF old
      <4> QED
        BY <1>4, <2>0
    <3>2. \A j, k \in 1..Len(bus') : old(j) = old(k) => j = k
      BY <1>4
    <3> QED
      BY <3>1, <3>2
  <2> QED
    BY <1>4, <2>1 DEF IsInjective
<1>6. BusTypes'
  BY <1>3, <1>5 DEF BusTypes
<1>7. UNCHANGED <<monitor, stage, ready, mode, pending, ignore, cache>>
  BY <1>1, Zenon DEF coreVars
<1>8. hal' \in [Ports -> Handles]
  BY <1>1 DEF PortTypes, Handles
<1>9. OneHolder'
  BY <1>1, LibusbAssumption DEF OneHolder
<1> QED
  BY <1>6, <1>7, <1>8, <1>9, Zenon
     DEF PortsInv, PortTypes, MonitorReports, GoodCache, StageShape

\* A monitor is exchanged or its EDID gets readable or unreadable.
LEMMA MonitorKeeps ==
  ASSUME PortsInv, NEW d \in Devices, MonitorChanges(d)
  PROVE  PortsInv'
<1>1. PICK e \in Reports[d] \cup {NoEdid} : monitor' = To(monitor, d, e)
  BY Zenon DEF MonitorChanges
<1>2. UNCHANGED <<bus, hal, stage, ready, mode, pending, ignore, cache>>
  BY Zenon DEF MonitorChanges, busVars, coreVars
<1>3. monitor \in [Devices -> Known \cup {NoEdid}] /\ MonitorReports
  BY DEF PortsInv, PortTypes
<1>4. e \in Known \cup {NoEdid}
  BY <1>1 DEF Known
<1>5. monitor' \in [Devices -> Known \cup {NoEdid}] /\ MonitorReports'
  BY <1>1, <1>3, <1>4 DEF To, MonitorReports
<1> QED
  BY <1>2, <1>5, Zenon
     DEF PortsInv, PortTypes, BusTypes, GoodCache, StageShape, OneHolder
-----------------------------------------------------------------------------
(* The invariants.                                                         *)

\* It holds at first.
LEMMA PortsInitial == Init => PortsInv
<1> SUFFICES ASSUME Init PROVE PortsInv
  OBVIOUS
<1>1. /\ hal = [p \in Ports |-> NoDev] /\ bus = <<>> /\ cache = NoCache
      /\ stage = [p \in Ports |-> "WAIT"] /\ ready = [p \in Ports |-> FALSE]
      /\ mode = [p \in Ports |-> 0] /\ pending = [p \in Ports |-> FALSE]
      /\ ignore = [p \in Ports |-> FALSE]
  BY Zenon DEF Init, BusInit
<1>2. /\ monitor \in [Devices -> Known \cup {NoEdid}]
      /\ \A d \in Devices : monitor[d] \in Reports[d] \cup {NoEdid}
  BY DEF Init, Known
<1>3. PortTypes
  BY <1>1, <1>2 DEF PortTypes, Handles, Stages
<1>4. BusTypes
  BY <1>1 DEF BusTypes, IsInjective
<1>5. MonitorReports /\ GoodCache(cache)
  BY <1>1, <1>2 DEF MonitorReports, GoodCache
<1>6. StageShape
  BY <1>1 DEF StageShape
<1>7. OneHolder
  BY <1>1, LibusbAssumption DEF OneHolder
<1> QED
  BY <1>3, <1>4, <1>5, <1>6, <1>7 DEF PortsInv

\* Every step keeps it.
LEMMA PortsKept == PortsInv /\ [Next]_vars => PortsInv'
<1> SUFFICES ASSUME PortsInv, [Next]_vars PROVE PortsInv'
  OBVIOUS
<1>1. CASE UNCHANGED vars
  <2>1. UNCHANGED <<bus, hal, monitor, stage, ready, mode, pending, ignore, cache>>
    BY <1>1, Zenon DEF vars, busVars, coreVars
  <2> QED
    BY <2>1, Zenon
       DEF PortsInv, PortTypes, BusTypes, MonitorReports, GoodCache, StageShape, OneHolder
<1>2. ASSUME NEW p \in Ports, Poll(p) PROVE PortsInv'
  BY <1>2, PollKeeps
<1>3. ASSUME NEW p \in Ports, SetAutoMode(p) \/ QueryEdid(p) PROVE PortsInv'
  BY <1>3, EdidCallKeeps
<1>4. ASSUME NEW p \in Ports, ForceReenum(p) \/ Draw(p) PROVE PortsInv'
  BY <1>4, HandleCallKeeps
<1>5. ASSUME NEW p \in IgnorePorts, NEW on \in BOOLEAN, SetIgnoreEdid(p, on)
      PROVE  PortsInv'
  BY <1>5, IgnoreKeeps, PortsAssumption
<1>6. ASSUME NEW d \in Devices, PlugDevice(d) \/ UnplugDevice(d) PROVE PortsInv'
  BY <1>6, PlugKeeps, UnplugKeeps
<1>7. ASSUME NEW d \in HotMonitors, MonitorChanges(d) PROVE PortsInv'
  BY <1>7, MonitorKeeps, PortsAssumption
<1> QED
  BY <1>1, <1>2, <1>3, <1>4, <1>5, <1>6, <1>7, Zenon DEF Next

\* In every state of the program the variables have their types, a display has a
\* mode and looks for its EDID only when it is ready, the devices enumerated are
\* different ones, and the EDID that is kept was reported by a monitor.
THEOREM PortsTypeCorrect == Spec => []TypeOK
<1>1. PortsInv => TypeOK
  <2> SUFFICES ASSUME PortsInv PROVE TypeOK
    OBVIOUS
  <2>1. /\ PortTypes /\ StageShape /\ BusTypes /\ GoodCache(cache)
    BY Zenon DEF PortsInv
  <2>2. ASSUME NEW p \in Ports
        PROVE  /\ hal[p] \in Devices \cup {NoDev, Gone}
               /\ stage[p] \in {"WAIT", "SETUP", "READY", "FAILED"}
               /\ ready[p] <=> stage[p] = "READY"
               /\ mode[p] \in Nat /\ (stage[p] \in {"WAIT", "FAILED"} => mode[p] = 0)
               /\ pending[p] => ready[p] /\ ~ignore[p]
    <3>1. hal[p] \in Handles /\ stage[p] \in Stages /\ mode[p] \in Nat
      BY <2>1 DEF PortTypes
    <3> QED
      BY <2>1, <3>1, Zenon DEF StageShape, Handles, Stages
  <2>3. IsInjective(bus) /\ Range(bus) \subseteq Devices
    BY <2>1 DEF BusTypes, Range
  <2>4. cache = NoCache
          \/ (cache.owner \in Ports /\ cache.edid \in UNION {Reports[d] : d \in Devices})
    BY <2>1 DEF GoodCache, CacheOf, Known
  <2> QED
    BY <2>2, <2>3, <2>4 DEF TypeOK
<1> QED
  BY <1>1, PortsInitial, PortsKept, PTL DEF Spec

\* However the devices come and go, no device is ever open for two ports
\* (device_in_use, device_scan).
THEOREM OneHolderOnly == Spec => []OneHolder
<1>1. PortsInv => OneHolder
  BY Zenon DEF PortsInv
<1> QED
  BY <1>1, PortsInitial, PortsKept, PTL DEF Spec
-----------------------------------------------------------------------------
(* The automatic modes.                                                    *)

\* What ModeOfMonitor promises of a port that gets an automatic mode.
EdidUsed(p) == IF cache'.owner = p THEN cache'.edid ELSE NoEdid

ModeFits(p) ==
  LET h == hal'[p]
      e == EdidUsed(p)
  IN  /\ h \in Devices
      /\ e = NoEdid
           \/ (~ignore[p] /\ (e = monitor[h] \/ (stage'[p] = stage[p] /\ cache' = cache)))
      /\ Suits(mode'[p], h, Cfg[p].policy, e, unsure')
      /\ (/\ Cfg[p].policy = "PREFERRED" /\ e.pref \in Works(h) \ unsure'
          /\ ~pending'[p] /\ <<stage, pending>>' # <<stage, pending>>)
         => mode'[p] = e.pref

\* A call that chooses from the EDIDs it reads, with the cache dropped before or
\* between the polls.
LEMMA ChosenFits ==
  ASSUME PortsInv, NEW p \in Ports, NEW h \in Handles, NEW c, GoodCache(c),
         NEW e \in ReadEdid(p, h, c), NEW x \in ReadEdid(p, h, Caching(p, e)),
         NEW m \in AutoResults(p, h, e, x), m # 0, mode'[p] = m,
         hal'[p] = h, cache' = Caching(p, x),
         \/ c = NoCache /\ (~pending'[p] => e # NoEdid \/ ignore[p])
         \/ c = cache /\ UNCHANGED <<stage, pending>>
  PROVE  ModeFits(p)
<1>1. PortTypes
  BY Zenon DEF PortsInv
<1>2. /\ GoodCache(Caching(p, e)) /\ (e # NoEdid => x = e)
      /\ e # NoEdid => /\ Caching(p, e) = CacheOf(p, e)
                       /\ c = CacheOf(p, e) \/ (h \in Devices /\ e = monitor[h])
      /\ e = NoEdid => Caching(p, e) = NoCache
  BY <1>1, ReadEdidIs
<1>3. /\ x # NoEdid => /\ Caching(p, x) = CacheOf(p, x) /\ ~ignore[p]
                       /\ Caching(p, e) = CacheOf(p, x) \/ (h \in Devices /\ x = monitor[h])
      /\ x = NoEdid => Caching(p, x) = NoCache
  BY <1>1, <1>2, ReadEdidIs
<1>4. NoCache.owner # p /\ \A y : CacheOf(p, y).owner = p /\ CacheOf(p, y).edid = y
  BY PortsAssumption DEF NoCache, CacheOf
<1>5. EdidUsed(p) = x
  BY <1>3, <1>4 DEF EdidUsed
<1>6. /\ h \in Devices
      /\ Suits(mode'[p], h, Cfg[p].policy, x, unsure')
      /\ Cfg[p].policy = "PREFERRED" /\ e = x /\ x.pref \in Works(h) \ unsure' => mode'[p] = x.pref
  BY <1>1, ReadAuto
<1>7. x = NoEdid
        \/ (~ignore[p] /\ (x = monitor[h] \/ (stage'[p] = stage[p] /\ cache' = cache)))
  <2>1. CASE x = NoEdid
    BY <2>1
  <2>2. CASE x # NoEdid
    <3>1. ~ignore[p] /\ (Caching(p, e) = CacheOf(p, x) \/ x = monitor[h])
      BY <1>3, <2>2
    <3>2. ASSUME x # monitor[h]
          PROVE  stage'[p] = stage[p] /\ cache' = cache
      <4>1. Caching(p, e) = CacheOf(p, x)
        BY <3>1, <3>2
      <4>2. e # NoEdid /\ x = e
        BY <1>2, <1>4, <4>1
      <4>3. c = CacheOf(p, x)
        BY <1>2, <3>2, <4>2
      <4>4. c # NoCache
        BY <1>4, <4>3
      <4> QED
        BY <1>3, <2>2, <4>3, <4>4
    <3> QED
      BY <3>1, <3>2, Zenon
  <2> QED
    BY <2>1, <2>2
<1>8. ~pending'[p] /\ <<stage, pending>>' # <<stage, pending>> => e = x
  <2> SUFFICES ASSUME ~pending'[p], ~UNCHANGED <<stage, pending>> PROVE e = x
    BY Zenon
  <2>1. CASE e # NoEdid
    BY <1>2, <2>1
  <2>2. CASE e = NoEdid
    <3>1. ignore[p]
      BY <2>2, Zenon
    <3>2. Caching(p, e) = NoCache
      BY <1>2, <2>2
    <3> QED
      BY <1>4, <2>2, <3>1, <3>2 DEF ReadEdid
  <2> QED
    BY <2>1, <2>2
<1> QED
  BY <1>5, <1>6, <1>7, <1>8 DEF ModeFits

\* One handle is replaced.
LEMMA HandleSet ==
  ASSUME PortTypes, NEW p \in Ports, NEW h, hal' = To(hal, p, h)
  PROVE  hal'[p] = h
  BY DEF PortTypes, To

\* usb_disp_poll sets up a display from the EDID or from the list.
LEMMA PollChooseFits ==
  ASSUME PortsInv, NEW p \in Ports, PollChoose(p), mode'[p] # 0
  PROVE  ModeFits(p)
<1>1. /\ PortTypes /\ BusTypes /\ GoodCache(NoCache)
      /\ mode \in [Ports -> Nat] /\ pending \in [Ports -> BOOLEAN]
  BY DEF PortsInv, PortTypes, GoodCache
<1>2. PICK h \in Polled(p) : \E e \in ReadEdid(p, h, NoCache) : Choosing(p, h, e)
  BY ChooseIs, Zenon
<1>3. PICK e \in ReadEdid(p, h, NoCache) : Choosing(p, h, e)
  BY <1>2, Zenon
<1>9. PICK x \in ReadEdid(p, h, Caching(p, e)) :
           \E m \in AutoResults(p, h, e, x) : ChooseOf(p, h, e, x, m)
  BY <1>3, Zenon DEF Choosing
<1>10. PICK m \in AutoResults(p, h, e, x) : ChooseOf(p, h, e, x, m)
  BY <1>9, Zenon
<1>4. /\ mode' = To(mode, p, m)
      /\ cache' = Caching(p, x)
      /\ HandleAfter(p, h, m # 0)
      /\ pending' = To(pending, p, pending[p] \/ (e = NoEdid /\ ~ignore[p]))
  BY <1>10, Zenon DEF ChooseOf
<1>5. mode'[p] = m /\ pending'[p] = (pending[p] \/ (e = NoEdid /\ ~ignore[p]))
  BY <1>1, <1>4 DEF To
<1>6. h \in Handles /\ m # 0
  BY <1>1, <1>5, PolledIs
<1>7. hal'[p] = h
  <2>1. hal' = To(hal, p, h)
    BY <1>4, <1>6, AfterMoves
  <2> QED
    BY <1>1, <2>1, HandleSet
<1>8. ~pending'[p] => e # NoEdid \/ ignore[p]
  BY <1>5
<1> QED
  BY <1>1, <1>4, <1>5, <1>6, <1>7, <1>8, ChosenFits

\* usb_disp_poll finds the EDID of a display that is ready.
LEMMA PollRecheckFits ==
  ASSUME PortsInv, NEW p \in Ports, PollRecheck(p), mode'[p] # mode[p]
  PROVE  ModeFits(p)
<1>1. PortTypes /\ BusTypes /\ GoodCache(NoCache) /\ mode \in [Ports -> Nat]
  BY DEF PortsInv, PortTypes, GoodCache
<1>2. PICK h \in Polled(p) : \E e \in ReadEdid(p, h, NoCache) :
        /\ cache' = Caching(p, e)
        /\ mode' = mode
             \/ \E m \in FromEdid(h, Cfg[p].policy, e) :
                  mode' = To(mode, p, m) /\ hal' = To(hal, p, h)
  BY DEF PollRecheck, PollCache
<1>3. PICK e \in ReadEdid(p, h, NoCache) :
        /\ cache' = Caching(p, e)
        /\ mode' = mode
             \/ \E m \in FromEdid(h, Cfg[p].policy, e) :
                  mode' = To(mode, p, m) /\ hal' = To(hal, p, h)
  BY <1>2
<1>6. PICK m \in FromEdid(h, Cfg[p].policy, e) : mode' = To(mode, p, m) /\ hal' = To(hal, p, h)
  BY <1>3
<1>4. h \in Handles
  BY <1>1, PolledIs
<1>5. e \in ReadEdid(p, h, Caching(p, e))
  BY <1>3 DEF Caching, ReadEdid
<1>7. h \in Devices /\ e # NoEdid /\ m \in Nat \ {0}
  BY <1>1, <1>3, <1>4, <1>6, FromEdidIs
<1>8. m \in AutoResults(p, h, e, e)
  BY <1>6, <1>7 DEF AutoResults, AutoModes
<1>9. mode'[p] = m /\ hal'[p] = h
  BY <1>1, <1>4, <1>6, HandleSet DEF To
<1> QED
  BY <1>1, <1>3, <1>4, <1>5, <1>7, <1>8, <1>9, ChosenFits

\* The application calls usb_disp_set_auto_mode.
LEMMA SetAutoModeFits ==
  ASSUME PortsInv, NEW p \in Ports, SetAutoMode(p), mode'[p] # mode[p]
  PROVE  ModeFits(p)
<1>1. PortTypes /\ GoodCache(cache) /\ hal[p] \in Handles /\ mode \in [Ports -> Nat]
      /\ UNCHANGED <<stage, pending>>
  BY Zenon DEF PortsInv, PortTypes, SetAutoMode
<1>2. PICK e \in ReadEdid(p, hal[p], cache) :
        \E x \in ReadEdid(p, hal[p], Caching(p, e)) :
        \E m \in AutoResults(p, hal[p], e, x) :
          /\ cache' = Caching(p, x)
          /\ mode' = IF m # 0 THEN To(mode, p, m) ELSE mode
          /\ HandleAfter(p, hal[p], m # 0)
  BY Zenon DEF SetAutoMode
<1>3. PICK x \in ReadEdid(p, hal[p], Caching(p, e)) :
        \E m \in AutoResults(p, hal[p], e, x) :
          /\ cache' = Caching(p, x)
          /\ mode' = IF m # 0 THEN To(mode, p, m) ELSE mode
          /\ HandleAfter(p, hal[p], m # 0)
  BY <1>2, Zenon
<1>6. PICK m \in AutoResults(p, hal[p], e, x) :
          /\ cache' = Caching(p, x)
          /\ mode' = IF m # 0 THEN To(mode, p, m) ELSE mode
          /\ HandleAfter(p, hal[p], m # 0)
  BY <1>3, Zenon
<1>4. m # 0 /\ mode'[p] = m
  BY <1>1, <1>6 DEF To
<1>5. hal'[p] = hal[p]
  <2>1. hal' = To(hal, p, hal[p])
    BY <1>6, <1>4, AfterMoves
  <2> QED
    BY <1>1, <2>1, HandleSet
<1> QED
  BY <1>1, <1>2, <1>3, <1>4, <1>5, <1>6, ChosenFits

\* Only the port a call is for gets another mode.
LEMMA OthersKeepMode ==
  ASSUME PortsInv, NEW p \in Ports, Poll(p) \/ SetAutoMode(p), NEW q \in Ports, q # p
  PROVE  mode'[q] = mode[q]
<1>1. UNCHANGED mode \/ \E m : mode' = To(mode, p, m)
  <2>1. CASE \/ PollIdle(p) \/ PollAttach(p) \/ PollAttachFails(p) \/ PollSetupOn(p)
             \/ PollOn(p)
    BY <2>1, Zenon
       DEF PollIdle, PollAttach, PollAttachFails, PollSetupOn, PollOn, coreVars
  <2>2. CASE PollLost(p) \/ PollRetry(p)
    BY <2>2, Zenon DEF PollLost, PollRetry, Reset
  <2>4. CASE PollConfigured(p)
    BY <2>4, Zenon DEF PollConfigured, SetUp
  <2>5. CASE PollChoose(p)
    BY <2>5, ChooseIs, Zenon DEF Choosing, ChooseOf
  <2>6. CASE PollRecheck(p)
    BY <2>6 DEF PollRecheck
  <2>3. CASE SetAutoMode(p)
    BY <2>3 DEF SetAutoMode
  <2> QED
    BY <2>1, <2>2, <2>3, <2>4, <2>5, <2>6, Zenon DEF Poll
<1> QED
  BY <1>1 DEF PortsInv, PortTypes, To

\* Only usb_disp_poll and usb_disp_set_auto_mode set modes.
LEMMA ModeOfStep ==
  ASSUME PortsInv, Next, NEW q \in Ports, mode'[q] \notin {0, mode[q], Cfg[q].mode}
  PROVE  ModeFits(q)
<1>1. PICK p \in Ports : Poll(p) \/ SetAutoMode(p)
  <2>1. CASE UNCHANGED mode
    BY <2>1
  <2>2. ASSUME NEW p \in Ports, QueryEdid(p) \/ ForceReenum(p) \/ Draw(p)
        PROVE  UNCHANGED mode
    BY <2>2, Zenon DEF QueryEdid, ForceReenum, Draw, coreVars
  <2>3. ASSUME NEW p \in IgnorePorts, NEW on \in BOOLEAN, SetIgnoreEdid(p, on)
        PROVE  UNCHANGED mode
    BY <2>3, Zenon DEF SetIgnoreEdid
  <2>4. ASSUME NEW d \in Devices, PlugDevice(d) \/ UnplugDevice(d) PROVE UNCHANGED mode
    BY <2>4, Zenon DEF PlugDevice, UnplugDevice, coreVars
  <2>5. ASSUME NEW d \in HotMonitors, MonitorChanges(d) PROVE UNCHANGED mode
    BY <2>5, Zenon DEF MonitorChanges, coreVars
  <2> QED
    BY <2>1, <2>2, <2>3, <2>4, <2>5, Zenon DEF Next
<1>2. q = p
  BY <1>1, OthersKeepMode
<1>3. mode \in [Ports -> Nat]
  BY DEF PortsInv, PortTypes
<1>4. CASE \/ PollIdle(q) \/ PollAttach(q) \/ PollAttachFails(q) \/ PollSetupOn(q)
           \/ PollOn(q)
  BY <1>4, Zenon
     DEF PollIdle, PollAttach, PollAttachFails, PollSetupOn, PollOn, coreVars
<1>5. CASE PollLost(q) \/ PollRetry(q)
  <2>1. mode' = To(mode, q, 0)
    BY <1>5, Zenon DEF PollLost, PollRetry, Reset
  <2> QED
    BY <1>3, <2>1 DEF To
<1>6. CASE PollConfigured(q)
  <2>1. mode' = To(mode, q, Cfg[q].mode)
    BY <1>6, Zenon DEF PollConfigured, SetUp
  <2> QED
    BY <1>3, <2>1 DEF To
<1>7. CASE PollChoose(q)
  BY <1>7, PollChooseFits
<1>8. CASE PollRecheck(q)
  BY <1>8, PollRecheckFits
<1>9. CASE SetAutoMode(q)
  BY <1>9, SetAutoModeFits
<1> QED
  BY <1>1, <1>2, <1>4, <1>5, <1>6, <1>7, <1>8, <1>9, Zenon DEF Poll

\* An automatic mode suits the device the port has and the EDID that was read for
\* it, which is that of the monitor behind this device, now or when the application
\* read it since the last poll; under PREFERRED usb_disp_poll sets the monitor's own
\* mode where that works (edid_read_all, usb_disp_set_auto_mode, the rechecks of
\* usb_disp_poll).
THEOREM ModeIsOfMonitor == Spec => ModeOfMonitor
<1>1. PortsInv /\ [Next]_vars =>
        [\A p \in Ports : mode'[p] \notin {0, mode[p], Cfg[p].mode} =>
           LET h == hal'[p]
               e == IF cache'.owner = p THEN cache'.edid ELSE NoEdid
           IN  /\ h \in Devices
               /\ e = NoEdid
                    \/ (~ignore[p] /\ (e = monitor[h] \/ (stage'[p] = stage[p] /\ cache' = cache)))
               /\ Suits(mode'[p], h, Cfg[p].policy, e, unsure')
               /\ (/\ Cfg[p].policy = "PREFERRED" /\ e.pref \in Works(h) \ unsure'
                   /\ ~pending'[p] /\ <<stage, pending>>' # <<stage, pending>>)
                  => mode'[p] = e.pref]_vars
  BY ModeOfStep, Zenon DEF ModeFits, EdidUsed
<1> QED
  BY <1>1, PortsInitial, PortsKept, PTL DEF Spec, ModeOfMonitor
=============================================================================
