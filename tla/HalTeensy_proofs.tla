-------------------------- MODULE HalTeensy_proofs --------------------------
(***************************************************************************)
(* Theorems about the Teensy HAL: for every number and size of slots and   *)
(* every write.                                                            *)
(***************************************************************************)
EXTENDS HalTeensy, SequenceTheorems, TLAPS

USE DEF devVars, slotVars, ctrlVars, mainVars

Probing == {"device", "config", "switch", "fallback"}

\* Who may hold the device: the driver has it or nobody, a call that probes runs
\* while nothing is attached, and an interrupt that attaches a device finds the
\* main program between two calls.
Life ==
  /\ dev => port = "seen"
  /\ pipe => (dev \/ "pipe" \in struck) /\ (attached \/ pc = "pipe")
  /\ pending_probe => dev /\ ~attached
  /\ flight # <<>> => attached /\ pipe
  /\ op \in Probing => ~attached /\ ~pending_probe /\ port # "wait"
  /\ pc \in {"idle", "power"} => op = "none"
  /\ pc \in {"make", "pipe"} => op \in Probing
  /\ pc = "make" => dev \/ "pipe" \in struck
  /\ pc = "pipe" => (dev /\ pipe) \/ "pipe" \in struck
  /\ pc = "queueing" /\ attached => pipe
  /\ port = "wait" /\ ~attached => pc \in {"idle", "power"}
  /\ AttachedHasDevice

\* The control transfer and the flags of s_ctrl.  A transfer that is not queued
\* yet is done at once when its device is removed.
Ctrl ==
  /\ queued => ctrl.busy /\ ~ctrl.done
  /\ pc \in {"queue", "ctrl"} => ctrl.busy /\ ~ctrl.abandoned
  /\ ctrl.busy /\ ~ctrl.abandoned => pc \in {"queue", "ctrl"}
  /\ pc = "queue" => ~queued /\ (dev <=> ~ctrl.done)
  /\ pc = "ctrl" /\ ~ctrl.done => queued
  /\ ctrl.busy /\ ctrl.abandoned => queued \/ "abandoned" \in struck

\* What the steps of the bulk stream know of the slot in hand.
Hand ==
  /\ pc = "taken" => cur = NoSlot
  /\ pc \in {"submit", "queueing", "submitted"} => cur # NoSlot
  /\ cur # NoSlot /\ pc # "submitted" => next_slot = (cur + 1) % Slots

IInv == TypeOK /\ Life /\ Ctrl /\ Hand /\ SlotsAccounted /\ StreamInOrder

-----------------------------------------------------------------------------
(* The ring of slots.                                                      *)

\* A number has a place in the ring.
LEMMA RingPos ==
  ASSUME NEW n \in Int
  PROVE  n % Slots \in 0..Slots-1
  BY TeensyAssumption

\* The place after a place: the next one, and the first after the last.
LEMMA RingNext ==
  ASSUME NEW n \in 0..Slots-1
  PROVE  (n + 1) % Slots = IF n = Slots - 1 THEN 0 ELSE n + 1
  BY TeensyAssumption

\* The turn that submit_cur gives back is the one take_slot took.
LEMMA RingBack ==
  ASSUME NEW n \in 0..Slots-1
  PROVE  (((n + 1) % Slots) + Slots - 1) % Slots = n
<1>1. CASE n = Slots - 1
  BY <1>1, RingNext, TeensyAssumption
<1>2. CASE n # Slots - 1
  <2>1. ((n + 1) % Slots) + Slots - 1 = n + Slots
    BY <1>2, RingNext, TeensyAssumption
  <2>2. (n + Slots) % Slots = n
    BY TeensyAssumption
  <2> QED
    BY <2>1, <2>2
<1> QED
  BY <1>1, <1>2

\* To go on by one commutes with the reduction.
LEMMA RingStep ==
  ASSUME NEW n \in Int
  PROVE  (n + 1) % Slots = ((n % Slots) + 1) % Slots
<1> DEFINE q == n \div Slots
           r == n % Slots
<1>1. Slots \in Nat /\ Slots > 0
  BY TeensyAssumption
<1>2. q \in Int /\ r \in 0..Slots-1 /\ n = Slots * q + r
  BY <1>1
<1> HIDE DEF q, r
<1>3. CASE r = Slots - 1
  <2>1. n + 1 = Slots * (q + 1)
    BY <1>1, <1>2, <1>3
  <2>2. (n + 1) % Slots = 0
    BY <1>1, <1>2, <2>1
  <2> QED
    BY <1>2, <1>3, <2>2, RingNext DEF r
<1>4. CASE r # Slots - 1
  <2>1. n + 1 = Slots * q + (r + 1) /\ r + 1 \in 0..Slots-1
    BY <1>1, <1>2, <1>4
  <2>2. (n + 1) % Slots = r + 1
    BY <1>1, <1>2, <2>1
  <2> QED
    BY <1>2, <1>4, <2>2, RingNext DEF r
<1> QED
  BY <1>3, <1>4
-----------------------------------------------------------------------------
(* Types.                                                                  *)

Flags == [busy : BOOLEAN, done : BOOLEAN, failed : BOOLEAN, abandoned : BOOLEAN]
Places == {"idle", "queue", "ctrl", "ret", "make", "pipe", "power", "write", "taken",
           "submit", "queueing", "submitted", "drain"}
Calls == {"none", "app", "write", "split", "flush"} \cup Probing

CtrlType == ctrl \in Flags /\ queued \in BOOLEAN
MainType == pc \in Places /\ op \in Calls /\ left \in 0..MaxWrite /\ ok \in BOOLEAN
SlotType == /\ free_slots \in 0..Slots /\ next_slot \in 0..Slots-1
            /\ cur \in (0..Slots-1) \cup {NoSlot} /\ cur_fill \in 0..SlotSize
            /\ flight \in Seq(0..Slots-1)
DevType  == /\ port \in {"empty", "wait", "seen"}
            /\ dev \in BOOLEAN /\ pipe \in BOOLEAN
            /\ attached \in BOOLEAN /\ pending_probe \in BOOLEAN
            /\ struck \subseteq {"taken", "submitted", "pipe", "abandoned"}

\* TypeOK, part by part.
LEMMA TypeParts == TypeOK <=> DevType /\ SlotType /\ CtrlType /\ MainType
  BY DEF TypeOK, DevType, SlotType, CtrlType, MainType, Flags, Places, Calls, Probing

\* What ctrl_common leaves of the main program's state.
LEMMA StartCtrlType ==
  ASSUME MainType, NEW why \in Calls, StartCtrl(why)
  PROVE  MainType'
<1>1. op' \in Calls /\ left' \in 0..MaxWrite
  BY DEF StartCtrl, MainType
<1>2. pc' \in Places
  BY DEF StartCtrl, Places
<1>3. ok' \in BOOLEAN
  BY Zenon DEF StartCtrl
<1> QED
  BY <1>1, <1>2, <1>3 DEF MainType

\* A call that returns.
LEMMA ReturnType ==
  ASSUME NEW result \in BOOLEAN, Return(result)
  PROVE  MainType'
<1>1. pc' \in Places /\ op' \in Calls /\ left' \in 0..MaxWrite
  BY TeensyAssumption DEF Return, Places, Calls
<1>2. ok' \in BOOLEAN
  BY Zenon DEF Return
<1> QED
  BY <1>1, <1>2 DEF MainType

\* bulk_write copies no more than it has, and no more than the slot takes.
LEMMA CopiedType ==
  ASSUME TypeOK
  PROVE  /\ Copied \in Nat
         /\ left - Copied \in 0..MaxWrite
         /\ cur_fill + Copied \in 0..SlotSize
  BY TeensyAssumption DEF TypeOK, Copied

\* What ctrl_common leaves in s_ctrl.
LEMMA StartCtrlFlags ==
  ASSUME CtrlType, NEW why, StartCtrl(why)
  PROVE  CtrlType'
<1>1. ctrl \in Flags /\ (ctrl' = ctrl \/ ctrl' = [busy |-> TRUE, done |-> FALSE,
    failed |-> FALSE, abandoned |-> FALSE])
  BY Zenon DEF StartCtrl, CtrlType
<1>3. [busy |-> TRUE, done |-> FALSE, failed |-> FALSE, abandoned |-> FALSE] \in Flags
  BY DEF Flags
<1>4. ctrl' \in Flags
  BY <1>1, <1>3, Zenon
<1>2. queued' \in BOOLEAN
  BY Zenon DEF StartCtrl, CtrlType
<1> QED
  BY <1>2, <1>4 DEF CtrlType

\* Every step keeps the types of the device's state.
LEMMA DevTypeStep ==
  ASSUME TypeOK, Hand, [Next]_vars
  PROVE  DevType'
<1> USE TypeParts, TeensyAssumption DEF DevType
<1>1. CASE Plug            BY <1>1 DEF Plug
<1>2. CASE Unplug
  <2>1. /\ port' \in {"empty", "wait", "seen"}
        /\ dev' \in BOOLEAN /\ pipe' \in BOOLEAN
        /\ attached' \in BOOLEAN /\ pending_probe' \in BOOLEAN
    BY <1>2, Zenon DEF Unplug
  <2>2. struck' \subseteq {"taken", "submitted", "pipe", "abandoned"}
    BY <1>2 DEF Unplug
  <2> QED
    BY <2>1, <2>2
<1>3. CASE ClaimRefused    BY <1>3 DEF ClaimRefused
<1>4. CASE ClaimVendor     BY <1>4 DEF ClaimVendor, Claimable, FreshSlots
<1>5. CASE ClaimNoPipe     BY <1>5 DEF ClaimNoPipe, Claimable
<1>6. CASE ClaimProbe      BY <1>6 DEF ClaimProbe, Claimable
<1>7. CASE CtrlCallback    BY <1>7 DEF CtrlCallback
<1>8. CASE BulkDone        BY <1>8 DEF BulkDone
<1>9. CASE BulkError       BY <1>9 DEF BulkError
<1>10. CASE CtrlCall       BY <1>10 DEF CtrlCall, StartCtrl, Idle
<1>11. CASE CtrlAnswered   BY <1>11 DEF CtrlAnswered
<1>12. CASE CtrlTimeout    BY <1>12 DEF CtrlTimeout
<1>13. CASE CtrlReturn     BY <1>13 DEF CtrlReturn
<1>14. CASE PollProbe      BY <1>14 DEF PollProbe, StartCtrl, Idle
<1>15. CASE ProbeRead      BY <1>15 DEF ProbeRead, StartCtrl
<1>16. CASE ProbeSwitch    BY <1>16 DEF ProbeSwitch, StartCtrl
<1>17. CASE ProbeGivesUp   BY <1>17 DEF ProbeGivesUp
<1>18. CASE FinishPipe     BY <1>18 DEF FinishPipe
<1>19. CASE PipeAttach     BY <1>19 DEF PipeAttach, FreshSlots
<1>20. CASE Reenum         BY <1>20 DEF Reenum, Idle
<1>21. CASE PowerOn        BY <1>21 DEF PowerOn
<1>22. CASE WriteCall      BY <1>22 DEF WriteCall, Idle
<1>23. CASE TakeSlot       BY <1>23 DEF TakeSlot
<1>24. CASE TakeNothing    BY <1>24 DEF TakeNothing, Return
<1>25. CASE UseSlot        BY <1>25 DEF UseSlot, Return
<1>26. CASE CopyIn         BY <1>26 DEF CopyIn, Copied
<1>27. CASE WriteReturn    BY <1>27 DEF WriteReturn, Return
<1>28. CASE SubmitQueued   BY <1>28 DEF SubmitQueued
<1>29. CASE SubmitRefused  BY <1>29 DEF SubmitRefused
<1>30. CASE SubmitEnd      BY <1>30 DEF SubmitEnd, Return
<1>31. CASE SplitCall      BY <1>31 DEF SplitCall, Idle
<1>32. CASE FlushCall      BY <1>32 DEF FlushCall, Idle
<1>33. CASE FlushTrue      BY <1>33 DEF FlushTrue, Return
<1>34. CASE FlushFalse     BY <1>34 DEF FlushFalse, Return
<1>36. CASE CtrlQueue      BY <1>36 DEF CtrlQueue
<1>37. CASE MakePipe       BY <1>37 DEF MakePipe
<1>38. CASE SubmitTest     BY <1>38 DEF SubmitTest
<1>35. CASE UNCHANGED vars BY <1>35 DEF vars
<1> QED
  BY <1>1, <1>2, <1>3, <1>4, <1>5, <1>6, <1>7, <1>8, <1>9, <1>10, <1>11, <1>12,
      <1>13, <1>14, <1>15, <1>16, <1>17, <1>18, <1>19, <1>20, <1>21, <1>22, <1>23,
      <1>24, <1>25, <1>26, <1>27, <1>28, <1>29, <1>30, <1>31, <1>32, <1>33, <1>34,
      <1>35, <1>36, <1>37, <1>38 DEF Next, Interrupt, Main, Poll

\* Every step keeps the types of the slots.
LEMMA SlotTypeStep ==
  ASSUME TypeOK, Hand, [Next]_vars
  PROVE  SlotType'
<1> USE TypeParts, TeensyAssumption DEF SlotType, NoSlot
<1>1. CASE Plug            BY <1>1 DEF Plug
<1>2. CASE Unplug
  <2>1. CASE dev
    BY <1>2, <2>1 DEF Unplug
  <2>2. CASE ~dev
    BY <1>2, <2>2 DEF Unplug
  <2> QED
    BY <2>1, <2>2
<1>3. CASE ClaimRefused    BY <1>3 DEF ClaimRefused
<1>4. CASE ClaimVendor     BY <1>4 DEF ClaimVendor, Claimable, FreshSlots
<1>5. CASE ClaimNoPipe     BY <1>5 DEF ClaimNoPipe, Claimable
<1>6. CASE ClaimProbe      BY <1>6 DEF ClaimProbe, Claimable
<1>7. CASE CtrlCallback    BY <1>7 DEF CtrlCallback
<1>8. CASE BulkDone        BY <1>8 DEF BulkDone
<1>9. CASE BulkError       BY <1>9 DEF BulkError
<1>10. CASE CtrlCall       BY <1>10 DEF CtrlCall, StartCtrl, Idle
<1>11. CASE CtrlAnswered   BY <1>11 DEF CtrlAnswered
<1>12. CASE CtrlTimeout    BY <1>12 DEF CtrlTimeout
<1>13. CASE CtrlReturn     BY <1>13 DEF CtrlReturn
<1>14. CASE PollProbe      BY <1>14 DEF PollProbe, StartCtrl, Idle
<1>15. CASE ProbeRead      BY <1>15 DEF ProbeRead, StartCtrl
<1>16. CASE ProbeSwitch    BY <1>16 DEF ProbeSwitch, StartCtrl
<1>17. CASE ProbeGivesUp   BY <1>17 DEF ProbeGivesUp
<1>18. CASE FinishPipe     BY <1>18 DEF FinishPipe
<1>19. CASE PipeAttach     BY <1>19 DEF PipeAttach, FreshSlots
<1>20. CASE Reenum         BY <1>20 DEF Reenum, Idle
<1>21. CASE PowerOn        BY <1>21 DEF PowerOn
<1>22. CASE WriteCall      BY <1>22 DEF WriteCall, Idle
<1>23. CASE TakeSlot       BY <1>23 DEF TakeSlot
<1>24. CASE TakeNothing    BY <1>24 DEF TakeNothing, Return
<1>25. CASE UseSlot        BY <1>25 DEF UseSlot, Return
<1>26. CASE CopyIn
  <2>1. cur_fill' \in 0..SlotSize
    BY <1>26, CopiedType DEF CopyIn
  <2> QED
    BY <1>26, <2>1 DEF CopyIn
<1>27. CASE WriteReturn    BY <1>27 DEF WriteReturn, Return
<1>28. CASE SubmitQueued
  <2>1. cur \in 0..Slots-1
    BY <1>28 DEF SubmitQueued, Hand
  <2>2. flight' = Append(flight, cur) \/ flight' = flight
    BY <1>28, Zenon DEF SubmitQueued
  <2>3. flight' \in Seq(0..Slots-1)
    BY <2>1, <2>2
  <2> QED
    BY <1>28, <2>3 DEF SubmitQueued
<1>29. CASE SubmitRefused
  <2>1. next_slot + Slots - 1 \in Int
    OBVIOUS
  <2>2. next_slot' \in 0..Slots-1
    BY <1>29, <2>1, RingPos DEF SubmitRefused
  <2> QED
    BY <1>29, <2>2 DEF SubmitRefused
<1>30. CASE SubmitEnd      BY <1>30 DEF SubmitEnd, Return
<1>31. CASE SplitCall      BY <1>31 DEF SplitCall, Idle
<1>32. CASE FlushCall      BY <1>32 DEF FlushCall, Idle
<1>33. CASE FlushTrue      BY <1>33 DEF FlushTrue, Return
<1>34. CASE FlushFalse     BY <1>34 DEF FlushFalse, Return
<1>36. CASE CtrlQueue      BY <1>36 DEF CtrlQueue
<1>37. CASE MakePipe       BY <1>37 DEF MakePipe
<1>38. CASE SubmitTest     BY <1>38 DEF SubmitTest
<1>35. CASE UNCHANGED vars BY <1>35 DEF vars
<1> QED
  BY <1>1, <1>2, <1>3, <1>4, <1>5, <1>6, <1>7, <1>8, <1>9, <1>10, <1>11, <1>12,
      <1>13, <1>14, <1>15, <1>16, <1>17, <1>18, <1>19, <1>20, <1>21, <1>22, <1>23,
      <1>24, <1>25, <1>26, <1>27, <1>28, <1>29, <1>30, <1>31, <1>32, <1>33, <1>34,
      <1>35, <1>36, <1>37, <1>38 DEF Next, Interrupt, Main, Poll

\* Every step keeps the types of s_ctrl.
LEMMA CtrlTypeStep ==
  ASSUME TypeOK, Hand, [Next]_vars
  PROVE  CtrlType'
<1> USE TypeParts, TeensyAssumption DEF CtrlType, Flags
<1>1. CASE Plug            BY <1>1 DEF Plug
<1>2. CASE Unplug
  <2>1. ctrl' \in Flags
    <3>1. CASE dev /\ ctrl.busy
      BY <1>2, <3>1 DEF Unplug
    <3>2. CASE ~(dev /\ ctrl.busy)
      BY <1>2, <3>2 DEF Unplug
    <3> QED
      BY <3>1, <3>2
  <2>2. queued' \in BOOLEAN
    BY <1>2, Zenon DEF Unplug
  <2> QED
    BY <2>1, <2>2
<1>3. CASE ClaimRefused    BY <1>3 DEF ClaimRefused
<1>4. CASE ClaimVendor     BY <1>4 DEF ClaimVendor, Claimable, FreshSlots
<1>5. CASE ClaimNoPipe     BY <1>5 DEF ClaimNoPipe, Claimable
<1>6. CASE ClaimProbe      BY <1>6 DEF ClaimProbe, Claimable
<1>7. CASE CtrlCallback    BY <1>7 DEF CtrlCallback
<1>8. CASE BulkDone        BY <1>8 DEF BulkDone
<1>9. CASE BulkError       BY <1>9 DEF BulkError
<1>10. CASE CtrlCall       BY <1>10, StartCtrlFlags DEF CtrlCall
<1>11. CASE CtrlAnswered   BY <1>11 DEF CtrlAnswered
<1>12. CASE CtrlTimeout    BY <1>12 DEF CtrlTimeout
<1>13. CASE CtrlReturn     BY <1>13 DEF CtrlReturn
<1>14. CASE PollProbe      BY <1>14, StartCtrlFlags DEF PollProbe
<1>15. CASE ProbeRead      BY <1>15, StartCtrlFlags DEF ProbeRead
<1>16. CASE ProbeSwitch    BY <1>16, StartCtrlFlags DEF ProbeSwitch
<1>17. CASE ProbeGivesUp   BY <1>17 DEF ProbeGivesUp
<1>18. CASE FinishPipe     BY <1>18 DEF FinishPipe
<1>19. CASE PipeAttach     BY <1>19 DEF PipeAttach, FreshSlots
<1>20. CASE Reenum         BY <1>20 DEF Reenum, Idle
<1>21. CASE PowerOn        BY <1>21 DEF PowerOn
<1>22. CASE WriteCall      BY <1>22 DEF WriteCall, Idle
<1>23. CASE TakeSlot       BY <1>23 DEF TakeSlot
<1>24. CASE TakeNothing    BY <1>24 DEF TakeNothing, Return
<1>25. CASE UseSlot        BY <1>25 DEF UseSlot, Return
<1>26. CASE CopyIn         BY <1>26 DEF CopyIn, Copied
<1>27. CASE WriteReturn    BY <1>27 DEF WriteReturn, Return
<1>28. CASE SubmitQueued   BY <1>28 DEF SubmitQueued
<1>29. CASE SubmitRefused  BY <1>29 DEF SubmitRefused
<1>30. CASE SubmitEnd      BY <1>30 DEF SubmitEnd, Return
<1>31. CASE SplitCall      BY <1>31 DEF SplitCall, Idle
<1>32. CASE FlushCall      BY <1>32 DEF FlushCall, Idle
<1>33. CASE FlushTrue      BY <1>33 DEF FlushTrue, Return
<1>34. CASE FlushFalse     BY <1>34 DEF FlushFalse, Return
<1>36. CASE CtrlQueue
  <2>1. queued' \in BOOLEAN
    BY <1>36, Zenon DEF CtrlQueue, DevType
  <2>2. ctrl' \in Flags
    BY <1>36 DEF CtrlQueue
  <2> QED
    BY <2>1, <2>2
<1>37. CASE MakePipe       BY <1>37 DEF MakePipe
<1>38. CASE SubmitTest     BY <1>38 DEF SubmitTest
<1>35. CASE UNCHANGED vars BY <1>35 DEF vars
<1> QED
  BY <1>1, <1>2, <1>3, <1>4, <1>5, <1>6, <1>7, <1>8, <1>9, <1>10, <1>11, <1>12,
      <1>13, <1>14, <1>15, <1>16, <1>17, <1>18, <1>19, <1>20, <1>21, <1>22, <1>23,
      <1>24, <1>25, <1>26, <1>27, <1>28, <1>29, <1>30, <1>31, <1>32, <1>33, <1>34,
      <1>35, <1>36, <1>37, <1>38 DEF Next, Interrupt, Main, Poll

\* Every step keeps the types of the main program's state.
LEMMA MainTypeStep ==
  ASSUME TypeOK, Hand, [Next]_vars
  PROVE  MainType'
<1> USE TypeParts, TeensyAssumption DEF MainType, Places, Calls, Probing
<1>1. CASE Plug            BY <1>1 DEF Plug
<1>2. CASE Unplug          BY <1>2 DEF Unplug
<1>3. CASE ClaimRefused    BY <1>3 DEF ClaimRefused
<1>4. CASE ClaimVendor     BY <1>4 DEF ClaimVendor, Claimable, FreshSlots
<1>5. CASE ClaimNoPipe     BY <1>5 DEF ClaimNoPipe, Claimable
<1>6. CASE ClaimProbe      BY <1>6 DEF ClaimProbe, Claimable
<1>7. CASE CtrlCallback    BY <1>7 DEF CtrlCallback
<1>8. CASE BulkDone        BY <1>8 DEF BulkDone
<1>9. CASE BulkError       BY <1>9 DEF BulkError
<1>10. CASE CtrlCall       BY <1>10, StartCtrlType DEF CtrlCall
<1>11. CASE CtrlAnswered   BY <1>11 DEF CtrlAnswered
<1>12. CASE CtrlTimeout    BY <1>12 DEF CtrlTimeout
<1>13. CASE CtrlReturn     BY <1>13 DEF CtrlReturn
<1>14. CASE PollProbe      BY <1>14, StartCtrlType DEF PollProbe
<1>15. CASE ProbeRead      BY <1>15, StartCtrlType DEF ProbeRead
<1>16. CASE ProbeSwitch    BY <1>16, StartCtrlType DEF ProbeSwitch
<1>17. CASE ProbeGivesUp   BY <1>17 DEF ProbeGivesUp
<1>18. CASE FinishPipe     BY <1>18 DEF FinishPipe
<1>19. CASE PipeAttach     BY <1>19 DEF PipeAttach, FreshSlots
<1>20. CASE Reenum         BY <1>20 DEF Reenum, Idle
<1>21. CASE PowerOn        BY <1>21 DEF PowerOn
<1>22. CASE WriteCall      BY <1>22 DEF WriteCall, Idle
<1>23. CASE TakeSlot       BY <1>23 DEF TakeSlot
<1>24. CASE TakeNothing    BY <1>24, ReturnType DEF TakeNothing
<1>25. CASE UseSlot
  <2>1. CASE attached
    BY <1>25, <2>1 DEF UseSlot
  <2>2. CASE ~attached
    BY <1>25, <2>2, ReturnType DEF UseSlot
  <2> QED
    BY <2>1, <2>2
<1>26. CASE CopyIn
  <2>1. left' \in 0..MaxWrite
    BY <1>26, CopiedType DEF CopyIn
  <2> QED
    BY <1>26, <2>1 DEF CopyIn
<1>27. CASE WriteReturn    BY <1>27, ReturnType DEF WriteReturn
<1>28. CASE SubmitQueued   BY <1>28 DEF SubmitQueued
<1>29. CASE SubmitRefused  BY <1>29 DEF SubmitRefused
<1>30. CASE SubmitEnd      BY <1>30 DEF SubmitEnd, Return
<1>31. CASE SplitCall      BY <1>31 DEF SplitCall, Idle
<1>32. CASE FlushCall      BY <1>32 DEF FlushCall, Idle
<1>33. CASE FlushTrue      BY <1>33, ReturnType DEF FlushTrue
<1>34. CASE FlushFalse     BY <1>34, ReturnType DEF FlushFalse
<1>36. CASE CtrlQueue      BY <1>36 DEF CtrlQueue
<1>37. CASE MakePipe       BY <1>37 DEF MakePipe
<1>38. CASE SubmitTest     BY <1>38 DEF SubmitTest
<1>35. CASE UNCHANGED vars BY <1>35 DEF vars
<1> QED
  BY <1>1, <1>2, <1>3, <1>4, <1>5, <1>6, <1>7, <1>8, <1>9, <1>10, <1>11, <1>12,
      <1>13, <1>14, <1>15, <1>16, <1>17, <1>18, <1>19, <1>20, <1>21, <1>22, <1>23,
      <1>24, <1>25, <1>26, <1>27, <1>28, <1>29, <1>30, <1>31, <1>32, <1>33, <1>34,
      <1>35, <1>36, <1>37, <1>38 DEF Next, Interrupt, Main, Poll

-----------------------------------------------------------------------------
(* The steps.                                                              *)

\* Every step keeps the life cycle of the device.
LEMMA LifeStep ==
  ASSUME TypeOK, Life, [Next]_vars
  PROVE  Life'
<1>1. CASE Plug            BY <1>1 DEF Plug, Life, TypeOK, AttachedHasDevice, Probing
<1>2. CASE Unplug
  BY <1>2 DEF Unplug, Life, TypeOK, AttachedHasDevice, Probing
<1>3. CASE ClaimRefused
  BY <1>3 DEF ClaimRefused, Life, TypeOK, AttachedHasDevice, Probing
<1>4. CASE ClaimVendor
  BY <1>4 DEF ClaimVendor, Claimable, FreshSlots, Life, TypeOK, AttachedHasDevice, Probing
<1>5. CASE ClaimNoPipe
  BY <1>5 DEF ClaimNoPipe, Claimable, Life, TypeOK, AttachedHasDevice, Probing
<1>6. CASE ClaimProbe
  BY <1>6 DEF ClaimProbe, Claimable, Life, TypeOK, AttachedHasDevice, Probing
<1>7. CASE CtrlCallback
  BY <1>7 DEF CtrlCallback, Life, TypeOK, AttachedHasDevice, Probing
<1>8. CASE BulkDone
  BY <1>8 DEF BulkDone, Life, TypeOK, AttachedHasDevice, Probing
<1>9. CASE BulkError
  BY <1>9 DEF BulkError, Life, TypeOK, AttachedHasDevice, Probing
<1>10. CASE CtrlCall
  BY <1>10 DEF CtrlCall, StartCtrl, Idle, Life, TypeOK, AttachedHasDevice, Probing
<1>11. CASE CtrlAnswered
  BY <1>11 DEF CtrlAnswered, Life, TypeOK, AttachedHasDevice, Probing
<1>12. CASE CtrlTimeout
  BY <1>12 DEF CtrlTimeout, Life, TypeOK, AttachedHasDevice, Probing
<1>13. CASE CtrlReturn
  BY <1>13 DEF CtrlReturn, Life, TypeOK, AttachedHasDevice, Probing
<1>14. CASE PollProbe
  BY <1>14 DEF PollProbe, StartCtrl, Idle, Life, TypeOK, AttachedHasDevice, Probing
<1>15. CASE ProbeRead
  BY <1>15 DEF ProbeRead, StartCtrl, Life, TypeOK, AttachedHasDevice, Probing
<1>16. CASE ProbeSwitch
  BY <1>16 DEF ProbeSwitch, StartCtrl, Life, TypeOK, AttachedHasDevice, Probing
<1>17. CASE ProbeGivesUp
  BY <1>17 DEF ProbeGivesUp, Life, TypeOK, AttachedHasDevice, Probing
<1>18. CASE FinishPipe
  BY <1>18 DEF FinishPipe, Life, TypeOK, AttachedHasDevice, Probing
<1>19. CASE PipeAttach
  BY <1>19 DEF PipeAttach, FreshSlots, Life, TypeOK, AttachedHasDevice, Probing
<1>20. CASE Reenum
  BY <1>20 DEF Reenum, Idle, Life, TypeOK, AttachedHasDevice, Probing
<1>21. CASE PowerOn
  BY <1>21 DEF PowerOn, Life, TypeOK, AttachedHasDevice, Probing
<1>22. CASE WriteCall
  BY <1>22 DEF WriteCall, Idle, Life, TypeOK, AttachedHasDevice, Probing
<1>23. CASE TakeSlot
  BY <1>23 DEF TakeSlot, Life, TypeOK, AttachedHasDevice, Probing
<1>24. CASE TakeNothing
  BY <1>24 DEF TakeNothing, Return, Life, TypeOK, AttachedHasDevice, Probing
<1>25. CASE UseSlot
  BY <1>25 DEF UseSlot, Return, Life, TypeOK, AttachedHasDevice, Probing
<1>26. CASE CopyIn
  BY <1>26 DEF CopyIn, Copied, Life, TypeOK, AttachedHasDevice, Probing
<1>27. CASE WriteReturn
  BY <1>27 DEF WriteReturn, Return, Life, TypeOK, AttachedHasDevice, Probing
<1>28. CASE SubmitQueued
  BY <1>28 DEF SubmitQueued, Life, TypeOK, AttachedHasDevice, Probing
<1>29. CASE SubmitRefused
  BY <1>29 DEF SubmitRefused, Life, TypeOK, AttachedHasDevice, Probing
<1>30. CASE SubmitEnd
  BY <1>30 DEF SubmitEnd, Return, Life, TypeOK, AttachedHasDevice, Probing
<1>31. CASE SplitCall
  BY <1>31 DEF SplitCall, Idle, Life, TypeOK, AttachedHasDevice, Probing
<1>32. CASE FlushCall
  BY <1>32 DEF FlushCall, Idle, Life, TypeOK, AttachedHasDevice, Probing
<1>33. CASE FlushTrue
  BY <1>33 DEF FlushTrue, Return, Life, TypeOK, AttachedHasDevice, Probing
<1>34. CASE FlushFalse
  BY <1>34 DEF FlushFalse, Return, Life, TypeOK, AttachedHasDevice, Probing
<1>36. CASE CtrlQueue
  BY <1>36 DEF CtrlQueue, Life, TypeOK, AttachedHasDevice, Probing
<1>37. CASE MakePipe
  BY <1>37 DEF MakePipe, Life, TypeOK, AttachedHasDevice, Probing
<1>38. CASE SubmitTest
  BY <1>38 DEF SubmitTest, Life, TypeOK, AttachedHasDevice, Probing
<1>35. CASE UNCHANGED vars
  BY <1>35 DEF vars, Life, TypeOK, AttachedHasDevice, Probing
<1> QED
  BY <1>1, <1>2, <1>3, <1>4, <1>5, <1>6, <1>7, <1>8, <1>9, <1>10, <1>11, <1>12,
      <1>13, <1>14, <1>15, <1>16, <1>17, <1>18, <1>19, <1>20, <1>21, <1>22, <1>23,
      <1>24, <1>25, <1>26, <1>27, <1>28, <1>29, <1>30, <1>31, <1>32, <1>33, <1>34,
      <1>35, <1>36, <1>37, <1>38 DEF Next, Interrupt, Main, Poll

\* Every step keeps the life cycle of the control transfer.
LEMMA CtrlStep ==
  ASSUME TypeOK, Life, Ctrl, [Next]_vars
  PROVE  Ctrl'
<1>1. CASE Plug            BY <1>1 DEF Plug, Ctrl, Life, TypeOK
<1>2. CASE Unplug          BY <1>2 DEF Unplug, Ctrl, TypeOK
<1>3. CASE ClaimRefused    BY <1>3 DEF ClaimRefused, Ctrl, TypeOK
<1>4. CASE ClaimVendor
  BY <1>4 DEF ClaimVendor, Claimable, FreshSlots, Ctrl, Life, TypeOK
<1>5. CASE ClaimNoPipe     BY <1>5 DEF ClaimNoPipe, Claimable, Ctrl, Life, TypeOK
<1>6. CASE ClaimProbe      BY <1>6 DEF ClaimProbe, Claimable, Ctrl, Life, TypeOK
<1>7. CASE CtrlCallback    BY <1>7 DEF CtrlCallback, Ctrl, TypeOK
<1>8. CASE BulkDone        BY <1>8 DEF BulkDone, Ctrl, TypeOK
<1>9. CASE BulkError       BY <1>9 DEF BulkError, Ctrl, TypeOK
<1>10. CASE CtrlCall       BY <1>10 DEF CtrlCall, StartCtrl, Idle, Ctrl, TypeOK
<1>11. CASE CtrlAnswered   BY <1>11 DEF CtrlAnswered, Ctrl, TypeOK
<1>12. CASE CtrlTimeout    BY <1>12 DEF CtrlTimeout, Ctrl, TypeOK
<1>13. CASE CtrlReturn     BY <1>13 DEF CtrlReturn, Ctrl, TypeOK
<1>14. CASE PollProbe      BY <1>14 DEF PollProbe, StartCtrl, Idle, Ctrl, TypeOK
<1>15. CASE ProbeRead      BY <1>15 DEF ProbeRead, StartCtrl, Ctrl, TypeOK
<1>16. CASE ProbeSwitch    BY <1>16 DEF ProbeSwitch, StartCtrl, Ctrl, TypeOK
<1>17. CASE ProbeGivesUp   BY <1>17 DEF ProbeGivesUp, Ctrl, TypeOK
<1>18. CASE FinishPipe     BY <1>18 DEF FinishPipe, Ctrl, TypeOK
<1>19. CASE PipeAttach     BY <1>19 DEF PipeAttach, FreshSlots, Ctrl, TypeOK
<1>20. CASE Reenum         BY <1>20 DEF Reenum, Idle, Ctrl, TypeOK
<1>21. CASE PowerOn        BY <1>21 DEF PowerOn, Ctrl, TypeOK
<1>22. CASE WriteCall      BY <1>22 DEF WriteCall, Idle, Ctrl, TypeOK
<1>23. CASE TakeSlot       BY <1>23 DEF TakeSlot, Ctrl, TypeOK
<1>24. CASE TakeNothing    BY <1>24 DEF TakeNothing, Return, Ctrl, TypeOK
<1>25. CASE UseSlot        BY <1>25 DEF UseSlot, Return, Ctrl, TypeOK
<1>26. CASE CopyIn         BY <1>26 DEF CopyIn, Copied, Ctrl, TypeOK
<1>27. CASE WriteReturn    BY <1>27 DEF WriteReturn, Return, Ctrl, TypeOK
<1>28. CASE SubmitQueued   BY <1>28 DEF SubmitQueued, Ctrl, TypeOK
<1>29. CASE SubmitRefused  BY <1>29 DEF SubmitRefused, Ctrl, TypeOK
<1>30. CASE SubmitEnd      BY <1>30 DEF SubmitEnd, Return, Ctrl, TypeOK
<1>31. CASE SplitCall      BY <1>31 DEF SplitCall, Idle, Ctrl, TypeOK
<1>32. CASE FlushCall      BY <1>32 DEF FlushCall, Idle, Ctrl, TypeOK
<1>33. CASE FlushTrue      BY <1>33 DEF FlushTrue, Return, Ctrl, TypeOK
<1>34. CASE FlushFalse     BY <1>34 DEF FlushFalse, Return, Ctrl, TypeOK
<1>36. CASE CtrlQueue      BY <1>36 DEF CtrlQueue, Ctrl, Life, TypeOK
<1>37. CASE MakePipe       BY <1>37 DEF MakePipe, Ctrl, Life, TypeOK
<1>38. CASE SubmitTest     BY <1>38 DEF SubmitTest, Ctrl, Life, TypeOK
<1>35. CASE UNCHANGED vars BY <1>35 DEF vars, Ctrl, TypeOK
<1> QED
  BY <1>1, <1>2, <1>3, <1>4, <1>5, <1>6, <1>7, <1>8, <1>9, <1>10, <1>11, <1>12,
      <1>13, <1>14, <1>15, <1>16, <1>17, <1>18, <1>19, <1>20, <1>21, <1>22, <1>23,
      <1>24, <1>25, <1>26, <1>27, <1>28, <1>29, <1>30, <1>31, <1>32, <1>33, <1>34,
      <1>35, <1>36, <1>37, <1>38 DEF Next, Interrupt, Main, Poll

\* The transfers in flight are counted by a number.
LEMMA LenType ==
  ASSUME TypeOK
  PROVE  /\ Len(flight) \in Nat
         /\ flight # <<>> => Len(flight) > 0 /\ Len(Tail(flight)) = Len(flight) - 1
  BY DEF TypeOK

\* No step loses or doubles a slot: interrupts that attach a device find the
\* main program between two calls, and an error of the pipe that finds it with a
\* slot in neither place is one of the windows in struck.
LEMMA AccountStep ==
  ASSUME TypeOK, Life, Hand, SlotsAccounted, [Next]_vars
  PROVE  SlotsAccounted'
<1> USE TeensyAssumption, LenType DEF TypeOK, Life, Hand, SlotsAccounted, Held,
    Unstruck, NoSlot, Probing
<1>1. CASE Plug            BY <1>1 DEF Plug
<1>2. CASE Unplug          BY <1>2 DEF Unplug
<1>3. CASE ClaimRefused    BY <1>3 DEF ClaimRefused
<1>4. CASE ClaimVendor     BY <1>4 DEF ClaimVendor, Claimable, FreshSlots
<1>5. CASE ClaimNoPipe     BY <1>5 DEF ClaimNoPipe, Claimable
<1>6. CASE ClaimProbe      BY <1>6 DEF ClaimProbe, Claimable
<1>7. CASE CtrlCallback    BY <1>7 DEF CtrlCallback
<1>8. CASE BulkDone
  <2>1. attached /\ Len(flight') = Len(flight) - 1 /\ Len(flight) > 0
    BY <1>8 DEF BulkDone
  <2>2. Held' = Held /\ Unstruck' = Unstruck /\ Held \in {0, 1}
    BY <1>8, Zenon DEF BulkDone, slotVars, devVars, mainVars
  <2>3. free_slots' = IF free_slots < Slots THEN free_slots + 1 ELSE free_slots
    BY <1>8 DEF BulkDone
  <2> HIDE DEF Held, Unstruck
  <2> QED
    BY <2>1, <2>2, <2>3
<1>9. CASE BulkError
  <2>1. Len(flight') = 0 /\ pc' = pc /\ cur' = cur
    BY <1>9 DEF BulkError
  <2>2. Unstruck' => pc \notin {"taken", "submitted"}
    BY <1>9 DEF BulkError
  <2>3. free_slots' = Slots - (IF cur # NoSlot THEN 1 ELSE 0)
    BY <1>9 DEF BulkError
  <2>4. CASE pc \notin {"taken", "submitted"}
    <3>1. Held' = IF cur # NoSlot THEN 1 ELSE 0
      BY <2>1, <2>4
    <3> HIDE DEF Held, Unstruck
    <3> QED
      BY <2>1, <2>3, <3>1
  <2> QED
    BY <2>2, <2>4
<1>10. CASE CtrlCall       BY <1>10 DEF CtrlCall, StartCtrl, Idle
<1>11. CASE CtrlAnswered   BY <1>11 DEF CtrlAnswered
<1>12. CASE CtrlTimeout    BY <1>12 DEF CtrlTimeout
<1>13. CASE CtrlReturn     BY <1>13 DEF CtrlReturn
<1>14. CASE PollProbe      BY <1>14 DEF PollProbe, StartCtrl, Idle
<1>15. CASE ProbeRead      BY <1>15 DEF ProbeRead, StartCtrl
<1>16. CASE ProbeSwitch    BY <1>16 DEF ProbeSwitch, StartCtrl
<1>17. CASE ProbeGivesUp   BY <1>17 DEF ProbeGivesUp
<1>18. CASE FinishPipe     BY <1>18 DEF FinishPipe
<1>19. CASE PipeAttach     BY <1>19 DEF PipeAttach, FreshSlots
<1>20. CASE Reenum         BY <1>20 DEF Reenum, Idle
<1>21. CASE PowerOn        BY <1>21 DEF PowerOn
<1>22. CASE WriteCall      BY <1>22 DEF WriteCall, Idle
<1>23. CASE TakeSlot       BY <1>23 DEF TakeSlot
<1>24. CASE TakeNothing    BY <1>24 DEF TakeNothing, Return
<1>25. CASE UseSlot        BY <1>25 DEF UseSlot, Return
<1>26. CASE CopyIn         BY <1>26 DEF CopyIn, Copied
<1>27. CASE WriteReturn    BY <1>27 DEF WriteReturn, Return
<1>28. CASE SubmitQueued
  <2>1. CASE pipe
    BY <1>28, <2>1 DEF SubmitQueued
  <2>2. CASE ~pipe
    BY <1>28, <2>2 DEF SubmitQueued
  <2> QED
    BY <2>1, <2>2
<1>29. CASE SubmitRefused  BY <1>29 DEF SubmitRefused
<1>30. CASE SubmitEnd      BY <1>30 DEF SubmitEnd, Return
<1>31. CASE SplitCall      BY <1>31 DEF SplitCall, Idle
<1>32. CASE FlushCall      BY <1>32 DEF FlushCall, Idle
<1>33. CASE FlushTrue      BY <1>33 DEF FlushTrue, Return
<1>34. CASE FlushFalse     BY <1>34 DEF FlushFalse, Return
<1>36. CASE CtrlQueue      BY <1>36 DEF CtrlQueue
<1>37. CASE MakePipe       BY <1>37 DEF MakePipe
<1>38. CASE SubmitTest     BY <1>38 DEF SubmitTest
<1>35. CASE UNCHANGED vars BY <1>35 DEF vars
<1> QED
  BY <1>1, <1>2, <1>3, <1>4, <1>5, <1>6, <1>7, <1>8, <1>9, <1>10, <1>11, <1>12,
      <1>13, <1>14, <1>15, <1>16, <1>17, <1>18, <1>19, <1>20, <1>21, <1>22, <1>23,
      <1>24, <1>25, <1>26, <1>27, <1>28, <1>29, <1>30, <1>31, <1>32, <1>33, <1>34,
      <1>35, <1>36, <1>37, <1>38 DEF Next, Interrupt, Main, Poll

\* Every step keeps the ring's order.
LEMMA OrderStep ==
  ASSUME TypeOK, Life, Hand, SlotsAccounted, StreamInOrder, [Next]_vars
  PROVE  StreamInOrder'
<1> USE TeensyAssumption, LenType DEF TypeOK, Life, Hand, SlotsAccounted,
    StreamInOrder, Held, Unstruck, NoSlot, Probing
<1>1. CASE Plug            BY <1>1 DEF Plug
<1>2. CASE Unplug          BY <1>2 DEF Unplug
<1>3. CASE ClaimRefused    BY <1>3 DEF ClaimRefused
<1>4. CASE ClaimVendor     BY <1>4 DEF ClaimVendor, Claimable, FreshSlots
<1>5. CASE ClaimNoPipe     BY <1>5 DEF ClaimNoPipe, Claimable
<1>6. CASE ClaimProbe      BY <1>6 DEF ClaimProbe, Claimable
<1>7. CASE CtrlCallback    BY <1>7 DEF CtrlCallback
<1>8. CASE BulkDone
  <2> DEFINE upcoming == IF cur # NoSlot /\ pc # "submitted" THEN cur ELSE next_slot
  <2>1. attached /\ Len(flight') = Len(flight) - 1 /\ Len(flight) > 0
    BY <1>8 DEF BulkDone
  <2>2. Held' = Held /\ Unstruck' = Unstruck /\ Held \in {0, 1} /\ upcoming' = upcoming
    BY <1>8, Zenon DEF BulkDone, slotVars, devVars, mainVars
  <2>3. \A i \in 1..Len(flight') : i + 1 \in 1..Len(flight) /\ flight'[i] = flight[i + 1]
    BY <1>8, <2>1 DEF BulkDone
  <2>4. ASSUME Unstruck, NEW i \in 1..Len(flight')
        PROVE  (flight'[i] + Len(flight') + 1 - i) % Slots = upcoming
    <3>1. (flight[i + 1] + Len(flight) + 1 - (i + 1)) % Slots = upcoming
      BY <2>1, <2>3, <2>4
    <3>2. flight[i + 1] \in Int
      BY <2>3
    <3> QED
      BY <2>1, <2>3, <3>1, <3>2
  <2> HIDE DEF Held, Unstruck, upcoming
  <2> QED
    BY <2>1, <2>2, <2>4 DEF upcoming
<1>9. CASE BulkError       BY <1>9 DEF BulkError
<1>10. CASE CtrlCall       BY <1>10 DEF CtrlCall, StartCtrl, Idle
<1>11. CASE CtrlAnswered   BY <1>11 DEF CtrlAnswered
<1>12. CASE CtrlTimeout    BY <1>12 DEF CtrlTimeout
<1>13. CASE CtrlReturn     BY <1>13 DEF CtrlReturn
<1>14. CASE PollProbe      BY <1>14 DEF PollProbe, StartCtrl, Idle
<1>15. CASE ProbeRead      BY <1>15 DEF ProbeRead, StartCtrl
<1>16. CASE ProbeSwitch    BY <1>16 DEF ProbeSwitch, StartCtrl
<1>17. CASE ProbeGivesUp   BY <1>17 DEF ProbeGivesUp
<1>18. CASE FinishPipe     BY <1>18 DEF FinishPipe
<1>19. CASE PipeAttach     BY <1>19 DEF PipeAttach, FreshSlots
<1>20. CASE Reenum         BY <1>20 DEF Reenum, Idle
<1>21. CASE PowerOn        BY <1>21 DEF PowerOn
<1>22. CASE WriteCall      BY <1>22 DEF WriteCall, Idle
<1>23. CASE TakeSlot       BY <1>23 DEF TakeSlot
<1>24. CASE TakeNothing    BY <1>24 DEF TakeNothing, Return
<1>25. CASE UseSlot        BY <1>25 DEF UseSlot, Return
<1>26. CASE CopyIn         BY <1>26 DEF CopyIn, Copied
<1>27. CASE WriteReturn    BY <1>27 DEF WriteReturn, Return
<1>28. CASE SubmitQueued
  <2>1. cur \in 0..Slots-1 /\ next_slot = (cur + 1) % Slots
    BY <1>28 DEF SubmitQueued
  <2> SUFFICES ASSUME attached' PROVE StreamInOrder'
    BY Zenon
  <2>2. /\ flight' = Append(flight, cur) /\ attached' = attached /\ struck' = struck
        /\ pc = "queueing" /\ pc' = "submitted" /\ next_slot' = next_slot
    BY <1>28 DEF SubmitQueued
  <2>3. Len(flight') = Len(flight) + 1 /\ Len(flight) \in Nat
    BY <2>1, <2>2
  <2>4. ASSUME attached, Unstruck
        PROVE  \A i \in 1..Len(flight') : (flight'[i] + Len(flight') + 1 - i) %
            Slots = next_slot
    <3>1. ASSUME NEW i \in 1..Len(flight)
          PROVE  (flight'[i] + Len(flight') + 1 - i) % Slots = next_slot
      <4>1. flight'[i] = flight[i] /\ flight[i] \in Int
        BY <2>1, <2>2
      <4> DEFINE n == flight[i] + Len(flight) + 1 - i
      <4>2. n \in Int /\ n % Slots = cur
        BY <2>2, <2>3, <2>4, <4>1
      <4>3. flight'[i] + Len(flight') + 1 - i = n + 1
        BY <2>3, <4>1
      <4> HIDE DEF n
      <4> QED
        BY <2>1, <4>2, <4>3, RingStep
    <3>2. flight'[Len(flight')] = cur
      BY <2>1, <2>2, <2>3
    <3>3. (flight'[Len(flight')] + Len(flight') + 1 - Len(flight')) % Slots = next_slot
      BY <2>1, <2>3, <3>2
    <3>4. \A i \in 1..Len(flight') : i \in 1..Len(flight) \/ i = Len(flight')
      BY <2>3
    <3> QED
      BY <3>1, <3>3, <3>4, Zenon
  <2>5. Held = 1 /\ Held' = 0
    BY <2>1, <2>2
  <2>6. attached /\ Unstruck => Len(flight') + Held' <= Slots
    <3> HIDE DEF Held, Unstruck
    <3> QED
      BY <2>3, <2>5
  <2> QED
    BY <2>2, <2>4, <2>6
<1>29. CASE SubmitRefused
  <2>1. cur \in 0..Slots-1 /\ next_slot = (cur + 1) % Slots
    BY <1>29 DEF SubmitRefused
  <2>2. next_slot' = cur
    BY <1>29, <2>1, RingBack DEF SubmitRefused
  <2>3. /\ flight' = flight /\ attached' = attached /\ struck' = struck
        /\ pc \in {"submit", "queueing"} /\ pc' = "submitted"
    BY <1>29 DEF SubmitRefused
  <2> QED
    BY <2>1, <2>2, <2>3
<1>30. CASE SubmitEnd      BY <1>30 DEF SubmitEnd, Return
<1>31. CASE SplitCall      BY <1>31 DEF SplitCall, Idle
<1>32. CASE FlushCall      BY <1>32 DEF FlushCall, Idle
<1>33. CASE FlushTrue      BY <1>33 DEF FlushTrue, Return
<1>34. CASE FlushFalse     BY <1>34 DEF FlushFalse, Return
<1>36. CASE CtrlQueue      BY <1>36 DEF CtrlQueue
<1>37. CASE MakePipe       BY <1>37 DEF MakePipe
<1>38. CASE SubmitTest     BY <1>38 DEF SubmitTest
<1>35. CASE UNCHANGED vars BY <1>35 DEF vars
<1> QED
  BY <1>1, <1>2, <1>3, <1>4, <1>5, <1>6, <1>7, <1>8, <1>9, <1>10, <1>11, <1>12,
      <1>13, <1>14, <1>15, <1>16, <1>17, <1>18, <1>19, <1>20, <1>21, <1>22, <1>23,
      <1>24, <1>25, <1>26, <1>27, <1>28, <1>29, <1>30, <1>31, <1>32, <1>33, <1>34,
      <1>35, <1>36, <1>37, <1>38 DEF Next, Interrupt, Main, Poll

\* Every step keeps what is known of the slot in hand.
LEMMA HandStep ==
  ASSUME TypeOK, Life, Hand, [Next]_vars
  PROVE  Hand'
<1> USE TeensyAssumption DEF TypeOK, Hand, Life, NoSlot
<1>1. CASE Plug            BY <1>1 DEF Plug
<1>2. CASE Unplug          BY <1>2 DEF Unplug
<1>3. CASE ClaimRefused    BY <1>3 DEF ClaimRefused
<1>4. CASE ClaimVendor     BY <1>4 DEF ClaimVendor, Claimable, FreshSlots
<1>5. CASE ClaimNoPipe     BY <1>5 DEF ClaimNoPipe, Claimable
<1>6. CASE ClaimProbe      BY <1>6 DEF ClaimProbe, Claimable
<1>7. CASE CtrlCallback    BY <1>7 DEF CtrlCallback
<1>8. CASE BulkDone        BY <1>8 DEF BulkDone
<1>9. CASE BulkError       BY <1>9 DEF BulkError
<1>10. CASE CtrlCall       BY <1>10 DEF CtrlCall, StartCtrl, Idle
<1>11. CASE CtrlAnswered   BY <1>11 DEF CtrlAnswered
<1>12. CASE CtrlTimeout    BY <1>12 DEF CtrlTimeout
<1>13. CASE CtrlReturn     BY <1>13 DEF CtrlReturn
<1>14. CASE PollProbe      BY <1>14 DEF PollProbe, StartCtrl, Idle
<1>15. CASE ProbeRead      BY <1>15 DEF ProbeRead, StartCtrl
<1>16. CASE ProbeSwitch    BY <1>16 DEF ProbeSwitch, StartCtrl
<1>17. CASE ProbeGivesUp   BY <1>17 DEF ProbeGivesUp
<1>18. CASE FinishPipe     BY <1>18 DEF FinishPipe
<1>19. CASE PipeAttach     BY <1>19 DEF PipeAttach, FreshSlots
<1>20. CASE Reenum         BY <1>20 DEF Reenum, Idle
<1>21. CASE PowerOn        BY <1>21 DEF PowerOn
<1>22. CASE WriteCall      BY <1>22 DEF WriteCall, Idle
<1>23. CASE TakeSlot       BY <1>23 DEF TakeSlot
<1>24. CASE TakeNothing    BY <1>24 DEF TakeNothing, Return
<1>25. CASE UseSlot        BY <1>25 DEF UseSlot, Return
<1>26. CASE CopyIn         BY <1>26 DEF CopyIn, Copied
<1>27. CASE WriteReturn    BY <1>27 DEF WriteReturn, Return
<1>28. CASE SubmitQueued   BY <1>28 DEF SubmitQueued
<1>29. CASE SubmitRefused  BY <1>29 DEF SubmitRefused
<1>30. CASE SubmitEnd      BY <1>30 DEF SubmitEnd, Return
<1>31. CASE SplitCall      BY <1>31 DEF SplitCall, Idle
<1>32. CASE FlushCall      BY <1>32 DEF FlushCall, Idle
<1>33. CASE FlushTrue      BY <1>33 DEF FlushTrue, Return
<1>34. CASE FlushFalse     BY <1>34 DEF FlushFalse, Return
<1>36. CASE CtrlQueue      BY <1>36 DEF CtrlQueue
<1>37. CASE MakePipe       BY <1>37 DEF MakePipe
<1>38. CASE SubmitTest     BY <1>38 DEF SubmitTest
<1>35. CASE UNCHANGED vars BY <1>35 DEF vars
<1> QED
  BY <1>1, <1>2, <1>3, <1>4, <1>5, <1>6, <1>7, <1>8, <1>9, <1>10, <1>11, <1>12,
      <1>13, <1>14, <1>15, <1>16, <1>17, <1>18, <1>19, <1>20, <1>21, <1>22, <1>23,
      <1>24, <1>25, <1>26, <1>27, <1>28, <1>29, <1>30, <1>31, <1>32, <1>33, <1>34,
      <1>35, <1>36, <1>37, <1>38 DEF Next, Interrupt, Main, Poll

-----------------------------------------------------------------------------
(* The theorems.                                                           *)

LEMMA InitIInv == Init => IInv
<1> SUFFICES ASSUME Init PROVE IInv
  OBVIOUS
<1>1. TypeOK
  <2>1. DevType
    BY Zenon DEF Init, DevType
  <2>2. MainType
    <3>1. ok \in BOOLEAN
      BY Zenon DEF Init
    <3>2. pc \in Places /\ op \in Calls /\ left \in 0..MaxWrite
      BY TeensyAssumption DEF Init, Places, Calls
    <3> QED
      BY <3>1, <3>2 DEF MainType
  <2>3. SlotType
    BY TeensyAssumption, EmptySeq DEF Init, SlotType, NoSlot
  <2>4. ctrl \in Flags /\ queued \in BOOLEAN
    BY DEF Init, Flags
  <2> QED
    BY <2>1, <2>2, <2>3, <2>4, TypeParts DEF CtrlType
<1>2. Life /\ Ctrl /\ Hand
  BY DEF Init, Life, Ctrl, Hand, AttachedHasDevice, Probing, NoSlot
<1>3. SlotsAccounted /\ StreamInOrder
  BY TeensyAssumption DEF Init, SlotsAccounted, StreamInOrder
<1> QED
  BY <1>1, <1>2, <1>3 DEF IInv

\* The strengthening of the invariants of the runs holds in every state.
THEOREM Invariance == Spec => []IInv
<1>1. IInv /\ [Next]_vars => IInv'
  <2> SUFFICES ASSUME IInv, [Next]_vars PROVE IInv'
    OBVIOUS
  <2>1. TypeOK'
    <3>1. (TypeOK <=> DevType /\ SlotType /\ CtrlType /\ MainType)'
      BY TypeParts, PTL
    <3>2. DevType' /\ SlotType' /\ CtrlType' /\ MainType'
      BY DevTypeStep, SlotTypeStep, CtrlTypeStep, MainTypeStep DEF IInv
    <3> QED
      BY <3>1, <3>2
  <2>2. Life' /\ Ctrl' /\ Hand'
    BY LifeStep, CtrlStep, HandStep DEF IInv
  <2>3. SlotsAccounted' /\ StreamInOrder'
    BY AccountStep, OrderStep DEF IInv
  <2> QED
    BY <2>1, <2>2, <2>3 DEF IInv
<1> QED
  BY InitIInv, <1>1, PTL DEF Spec

\* The HAL keeps its types, whatever the interrupts and the main program do.
THEOREM TypeCorrect == Spec => []TypeOK
<1>1. IInv => TypeOK
  BY DEF IInv
<1> QED
  BY Invariance, <1>1, PTL

\* While a device is attached and no error of the pipe fell into a window of
\* bulk_write, every slot is free, queued or held.
THEOREM SlotsAreAccounted == Spec => []SlotsAccounted
<1>1. IInv => SlotsAccounted
  BY DEF IInv
<1> QED
  BY Invariance, <1>1, PTL

\* And the slots in flight are the last of the ring before the one that is
\* filled next.
THEOREM StreamIsInOrder == Spec => []StreamInOrder
<1>1. IInv => StreamInOrder
  BY DEF IInv
<1> QED
  BY Invariance, <1>1, PTL

\* The buffers of a control transfer are not used again while the stack has it.
THEOREM BuffersAreHeld == Spec => []BuffersHeld
<1>1. IInv => BuffersHeld
  BY DEF IInv, Ctrl, BuffersHeld
<1> QED
  BY Invariance, <1>1, PTL

\* Somebody will free s_ctrl, unless a device is removed while a transfer of it
\* is abandoned.
THEOREM ControlIsFreed == Spec => []ControlFreedElse
<1>1. IInv => ControlFreedElse
  BY Zenon DEF IInv, Ctrl, ControlFreedElse, ControlFreed
<1> QED
  BY Invariance, <1>1, PTL

\* A device reported as attached is there, unless it is removed between the
\* halves of finish_pipe.
THEOREM AttachedIsThere == Spec => []AttachedHasDevice
<1>1. IInv => AttachedHasDevice
  BY DEF IInv, Life
<1> QED
  BY Invariance, <1>1, PTL

\* A flush that returns true has waited for every transfer.
THEOREM FlushesDeliver == Spec => FlushDelivers
<1> DEFINE Delivers == pc = "drain" /\ pc' = "idle" /\ ok' /\ attached /\ Unstruck =>
                         flight = <<>> /\ cur = NoSlot
<1>1. IInv /\ [Next]_vars => [Delivers]_vars
  <2> SUFFICES ASSUME IInv, Next, pc = "drain", pc' = "idle", ok', attached, Unstruck
               PROVE  flight = <<>> /\ cur = NoSlot
    BY Zenon
  <2>1. FlushTrue
    <3>1. CASE Plug \/ Unplug \/ Interrupt
      BY <3>1 DEF Plug, Unplug, Interrupt, ClaimRefused, ClaimVendor, ClaimNoPipe,
           ClaimProbe, CtrlCallback, BulkDone, BulkError
    <3>2. CASE Main
      <4>1. ~FlushFalse
        BY Zenon DEF FlushFalse, Return
      <4> QED
        BY <3>2, <4>1 DEF Main, CtrlCall, CtrlQueue, CtrlAnswered, CtrlTimeout, CtrlReturn,
             Poll, PollProbe, ProbeRead, ProbeSwitch, ProbeGivesUp, FinishPipe,
             MakePipe, PipeAttach, Reenum, PowerOn, WriteCall, TakeSlot, TakeNothing, UseSlot,
             CopyIn, WriteReturn, SubmitTest, SubmitQueued, SubmitRefused, SubmitEnd, SplitCall,
             FlushCall, Idle
    <3> QED
      BY <3>1, <3>2 DEF Next
  <2>2. free_slots >= Slots /\ free_slots + Len(flight) + Held = Slots
    BY <2>1 DEF FlushTrue, IInv, SlotsAccounted
  <2>3. Held \in {0, 1} /\ Len(flight) \in Nat /\ free_slots \in 0..Slots
    BY LenType DEF Held, IInv, TypeOK
  <2>4. Held = 0 /\ Len(flight) = 0
    BY <2>2, <2>3, TeensyAssumption
  <2> QED
    BY <2>4, LenType DEF Held, IInv
<1> QED
  BY Invariance, <1>1, PTL DEF Spec, FlushDelivers

=============================================================================
