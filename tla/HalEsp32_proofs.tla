--------------------------- MODULE HalEsp32_proofs ---------------------------
(***************************************************************************)
(* Theorems about the ESP32 HAL: for every set of devices and every number *)
(* of slots.                                                               *)
(***************************************************************************)
EXTENDS HalEsp32, Integers, TLAPS

USE DEF busVars, findVars, devVars, ctrlVars, bulkVars, appVars, setVars

ProbeOps == {"read", "switch", "reread"}

\* A device is held as long as anything is under way for it.
DevInv ==
  /\ dev = NoDevice => ~alive /\ ~attached /\ ~pending_probe /\ ~gone /\ fin = "none"
                         /\ cpc = "loop" /\ op \notin ProbeOps
  /\ gone => ~alive /\ complete = 0
  /\ cpc = "teardown" => ~alive /\ ~attached /\ ~pending_probe /\ ~gone
  /\ ~alive => flight = 0
  /\ ~attached => flight = 0 /\ complete = 0
  /\ attached => xfers /\ cpc = "loop" /\ fin = "none"
  /\ fin \in {"claimed", "reset"} => xfers

\* finish_setup is run by one task, and not on a device that is attached.
SetupInv ==
  /\ fin # "none" <=> cpc = "finish" \/ pc = "finish"
  /\ cpc = "finish" => pc # "finish" /\ ~pending_probe
  /\ pending_probe => ~attached
  /\ op \in ProbeOps => ~attached /\ ~pending_probe /\ cpc # "finish"
  /\ pc \in ProbeOps \cup {"reenum", "finish"} => op \in ProbeOps

\* Where the application is in a bulk call.
InBulk == pc \in {"free", "taken", "fill", "submit"}

CallInv ==
  /\ InBulk => attached \/ cpc = "teardown"
  /\ InBulk \/ pc = "flush" => op \notin ProbeOps
  /\ pc \in {"free", "taken", "flush"} => ~cur
  /\ pc \in {"fill", "submit"} => cur
  /\ pc # "flush" => got = 0

Taken == IF pc \in {"taken", "submit"} \/ cur THEN 1 ELSE 0
Total == bulk_free + got + flight + complete + Taken

\* The balance of the slots. A flush that was under way when its device was
\* exchanged for another holds slots of the old one.
BalanceInv ==
  /\ pc # "flush" /\ (attached \/ fin = "reset" \/ InBulk) => Total = Slots
  /\ pc = "flush" /\ (attached \/ fin = "reset") =>
       Total >= Slots /\ (Total > Slots => flight = 0 /\ complete = 0)

\* What ctrl_done says, whatever became of the device.
CtrlInv ==
  /\ pc \in {"submit_ctrl", "ctrl"} => op \in ProbeOps \cup {"ctrl"}
  /\ pc = "submit_ctrl" /\ "late" \notin struck => ~ctrl_done
  /\ pc = "ctrl" /\ "late" \notin struck /\ ctrl_done => ctrl_xfer = "idle"

\* The three parts of TypeOK.
Flags ==
  {new_dev, alive, gone, attached, pending_probe, scan_needed, scan_retry, ctrl_done,
   xfers, halted, ep_recover, cur} \subseteq BOOLEAN

Counts == {bulk_free, flight, complete, got} \subseteq 0..Slots /\ errors \in 0..complete

Places ==
  /\ port \in [Devices -> {"none", "enum", "ready"}]
  /\ dev \in Devices \cup {NoDevice}
  /\ ctrl_xfer \in {"none", "idle", "flight", "complete"}
  /\ cpc \in {"loop", "teardown", "finish"}
  /\ pc \in {"idle", "submit_ctrl", "ctrl", "read", "switch", "reread", "reenum", "finish",
             "free", "taken", "fill", "submit", "flush"}
  /\ op \in {"none", "ctrl", "read", "switch", "reread", "write", "write+", "zlp", "last",
             "flush"}
  /\ fin \in {"none", "begin", "claimed", "reset"}
  /\ struck \subseteq {"late", "probe"}

Core == TypeOK /\ DevInv /\ SetupInv /\ CallInv /\ BalanceInv

IInv == CtrlInv /\ (Explored => Core)

-----------------------------------------------------------------------------
(* Helpers.                                                                *)

\* Where the application goes after a control transfer.
LEMMA CtrlReturnGoes ==
  ASSUME NEW r, CtrlReturn(r), op \in ProbeOps \cup {"ctrl"}
  PROVE  /\ UNCHANGED <<busVars, findVars, devVars, bulkVars, got, cpc>>
         /\ op = "ctrl" => op' = "none" /\ pc' = "idle"
         /\ op # "ctrl" => op' = op /\ pc' \in ProbeOps \cup {"reenum", "finish"}
         /\ fin' = IF pc' = "finish" THEN "begin" ELSE fin
<1>1. CASE op = "ctrl"   BY <1>1 DEF CtrlReturn
<1>2. CASE op = "read"   BY <1>2 DEF CtrlReturn, ProbeOps
<1>3. CASE op = "switch" BY <1>3 DEF CtrlReturn, ProbeOps
<1>4. CASE op = "reread" BY <1>4 DEF CtrlReturn, ProbeOps
<1> QED BY <1>1, <1>2, <1>3, <1>4 DEF ProbeOps

\* No more transfers are under way than there are slots, and one less while the
\* application has a slot to submit.
LEMMA CoreBounds ==
  ASSUME Core, CtrlInv
  PROVE  /\ flight + complete \in 0..Slots
         /\ pc = "submit" /\ alive /\ dev # NoDevice => flight < Slots
<1> USE Esp32Assumption DEF Core, TypeOK, DevInv, CallInv, BalanceInv, Total, Taken, InBulk
<1>1. CASE attached BY <1>1
<1>2. CASE ~attached BY <1>2
<1> QED BY <1>1, <1>2

\* TypeOK, part by part.
LEMMA TypeParts == TypeOK <=> Flags /\ Counts /\ Places
  BY DEF TypeOK, Flags, Counts, Places

-----------------------------------------------------------------------------
(* The steps.                                                              *)

\* Once a teardown has come during probe_and_finish it stays known.
LEMMA ExploredStep ==
  ASSUME [Next]_vars, Explored'
  PROVE  Explored
<1> USE DEF Explored
<1>1. CASE \E d \in Devices : Plug(d) BY <1>1 DEF Plug
<1>2. CASE \E d \in Devices : Enumerated(d) BY <1>2 DEF Enumerated
<1>3. CASE \E d \in Devices : Unplug(d) BY <1>3 DEF Unplug, Leave
<1>4. CASE CtrlComplete    BY <1>4 DEF CtrlComplete
<1>5. CASE BulkComplete    BY <1>5 DEF BulkComplete
<1>6. CASE BulkFails       BY <1>6 DEF BulkFails
<1>7. CASE CtrlCallback    BY <1>7 DEF CtrlCallback, Loop
<1>8. CASE BulkCallback    BY <1>8 DEF BulkCallback, Loop, Given
<1>9. CASE NewDev          BY <1>9 DEF NewDev, Loop
<1>10. CASE DevGone        BY <1>10 DEF DevGone, Loop
<1>11. CASE TeardownBegin  BY <1>11 DEF TeardownBegin, Loop
<1>12. CASE TeardownEnd    BY <1>12 DEF TeardownEnd, InTransfer, Probing
<1>13. CASE ScanRetry      BY <1>13 DEF ScanRetry, Loop
<1>14. CASE ScanNothing    BY <1>14 DEF ScanNothing, Loop, OpenTooEarly
<1>15. CASE ScanFound      BY <1>15 DEF ScanFound, Loop, OpenTooEarly
<1>16. CASE EpRecover      BY <1>16 DEF EpRecover, Loop
<1>17. CASE FinishFails    BY <1>17 DEF FinishFails, FinishLeave, FinishBy
<1>18. CASE FinishClaim    BY <1>18 DEF FinishClaim
<1>19. CASE FinishReset    BY <1>19 DEF FinishReset
<1>20. CASE FinishAttach   BY <1>20 DEF FinishAttach, FinishLeave, FinishBy
<1>21. CASE CtrlSubmit     BY <1>21 DEF CtrlSubmit
<1>22. CASE CtrlRefused    BY <1>22 DEF CtrlRefused, CtrlReturn
<1>23. CASE CtrlAnswered   BY <1>23 DEF CtrlAnswered, CtrlReturn
<1>24. CASE CtrlTimeout    BY <1>24 DEF CtrlTimeout, CtrlReturn
<1>25. CASE ProbeCtrl      BY <1>25 DEF ProbeCtrl, CtrlPrepare
<1>26. CASE ProbeReenum    BY <1>26 DEF ProbeReenum, RootPortOff, Leave
<1>27. CASE Take           BY <1>27 DEF Take
<1>28. CASE TakeTimeout    BY <1>28 DEF TakeTimeout, Return
<1>29. CASE UseSlot        BY <1>29 DEF UseSlot, AppGoes
<1>30. CASE TakenTooLate   BY <1>30 DEF TakenTooLate, Return, Given
<1>31. CASE Fill           BY <1>31 DEF Fill, Return, AppGoes
<1>32. CASE SubmitOK       BY <1>32 DEF SubmitOK, Submitted, Return
<1>33. CASE SubmitFails    BY <1>33 DEF SubmitFails, Submitted, Return, Given
<1>34. CASE FlushTake      BY <1>34 DEF FlushTake
<1>35. CASE FlushEnd       BY <1>35 DEF FlushEnd, Return, Given
<1>36. CASE CtrlCall       BY <1>36 DEF CtrlCall, CtrlPrepare
<1>37. CASE PollProbe      BY <1>37 DEF PollProbe
<1>38. CASE RequestReenum  BY <1>38 DEF RequestReenum, RootPortOff, Leave
<1>39. CASE \E o \in {"write", "write+", "zlp", "split", "flush"} : BulkCall(o)
  BY <1>39 DEF BulkCall, AppGoes
<1>40. CASE UNCHANGED vars BY <1>40 DEF vars
<1> QED
  BY <1>1, <1>2, <1>3, <1>4, <1>5, <1>6, <1>7, <1>8, <1>9, <1>10, <1>11, <1>12,
      <1>13, <1>14, <1>15, <1>16, <1>17, <1>18, <1>19, <1>20, <1>21, <1>22, <1>23,
      <1>24, <1>25, <1>26, <1>27, <1>28, <1>29, <1>30, <1>31, <1>32, <1>33, <1>34,
      <1>35, <1>36, <1>37, <1>38, <1>39, <1>40 DEF Next, Bus, Client, Finish, InCall,
      Calls

\* Every step keeps what ctrl_done says.
LEMMA CtrlStep ==
  ASSUME CtrlInv, [Next]_vars
  PROVE  CtrlInv'
<1> USE DEF CtrlInv, ProbeOps
<1>1. CASE \E d \in Devices : Plug(d) BY <1>1 DEF Plug
<1>2. CASE \E d \in Devices : Enumerated(d) BY <1>2 DEF Enumerated
<1>3. CASE \E d \in Devices : Unplug(d) BY <1>3 DEF Unplug, Leave
<1>4. CASE CtrlComplete    BY <1>4 DEF CtrlComplete
<1>5. CASE BulkComplete    BY <1>5 DEF BulkComplete
<1>6. CASE BulkFails       BY <1>6 DEF BulkFails
<1>7. CASE CtrlCallback    BY <1>7 DEF CtrlCallback, Loop
<1>8. CASE BulkCallback    BY <1>8 DEF BulkCallback, Loop, Given
<1>9. CASE NewDev          BY <1>9 DEF NewDev, Loop
<1>10. CASE DevGone        BY <1>10 DEF DevGone, Loop
<1>11. CASE TeardownBegin  BY <1>11 DEF TeardownBegin, Loop
<1>12. CASE TeardownEnd    BY <1>12 DEF TeardownEnd, InTransfer, Probing
<1>13. CASE ScanRetry      BY <1>13 DEF ScanRetry, Loop
<1>14. CASE ScanNothing    BY <1>14 DEF ScanNothing, Loop, OpenTooEarly
<1>15. CASE ScanFound      BY <1>15 DEF ScanFound, Loop, OpenTooEarly
<1>16. CASE EpRecover      BY <1>16 DEF EpRecover, Loop
<1>17. CASE FinishFails    BY <1>17 DEF FinishFails, FinishLeave, FinishBy
<1>18. CASE FinishClaim    BY <1>18 DEF FinishClaim
<1>19. CASE FinishReset    BY <1>19 DEF FinishReset
<1>20. CASE FinishAttach   BY <1>20 DEF FinishAttach, FinishLeave, FinishBy
<1>21. CASE CtrlSubmit     BY <1>21 DEF CtrlSubmit
<1>22. CASE CtrlRefused
  BY <1>22, CtrlReturnGoes DEF CtrlRefused
<1>23. CASE CtrlAnswered
  BY <1>23, CtrlReturnGoes DEF CtrlAnswered
<1>24. CASE CtrlTimeout
  BY <1>24, CtrlReturnGoes DEF CtrlTimeout
<1>25. CASE ProbeCtrl      BY <1>25 DEF ProbeCtrl, CtrlPrepare
<1>26. CASE ProbeReenum    BY <1>26 DEF ProbeReenum, RootPortOff, Leave
<1>27. CASE Take           BY <1>27 DEF Take
<1>28. CASE TakeTimeout    BY <1>28 DEF TakeTimeout, Return
<1>29. CASE UseSlot        BY <1>29 DEF UseSlot, AppGoes
<1>30. CASE TakenTooLate   BY <1>30 DEF TakenTooLate, Return, Given
<1>31. CASE Fill           BY <1>31 DEF Fill, Return, AppGoes
<1>32. CASE SubmitOK       BY <1>32 DEF SubmitOK, Submitted, Return
<1>33. CASE SubmitFails    BY <1>33 DEF SubmitFails, Submitted, Return, Given
<1>34. CASE FlushTake      BY <1>34 DEF FlushTake
<1>35. CASE FlushEnd       BY <1>35 DEF FlushEnd, Return, Given
<1>36. CASE CtrlCall       BY <1>36 DEF CtrlCall, CtrlPrepare
<1>37. CASE PollProbe      BY <1>37 DEF PollProbe
<1>38. CASE RequestReenum  BY <1>38 DEF RequestReenum, RootPortOff, Leave
<1>39. CASE \E o \in {"write", "write+", "zlp", "split", "flush"} : BulkCall(o)
  BY <1>39 DEF BulkCall, AppGoes
<1>40. CASE UNCHANGED vars BY <1>40 DEF vars
<1> QED
  BY <1>1, <1>2, <1>3, <1>4, <1>5, <1>6, <1>7, <1>8, <1>9, <1>10, <1>11, <1>12,
      <1>13, <1>14, <1>15, <1>16, <1>17, <1>18, <1>19, <1>20, <1>21, <1>22, <1>23,
      <1>24, <1>25, <1>26, <1>27, <1>28, <1>29, <1>30, <1>31, <1>32, <1>33, <1>34,
      <1>35, <1>36, <1>37, <1>38, <1>39, <1>40 DEF Next, Bus, Client, Finish, InCall,
      Calls

\* Every step keeps the flags.
LEMMA FlagsStep ==
  ASSUME Flags, [Next]_vars
  PROVE  Flags'
<1> USE DEF Flags
<1>1. CASE \E d \in Devices : Plug(d) BY <1>1 DEF Plug
<1>2. CASE \E d \in Devices : Enumerated(d) BY <1>2 DEF Enumerated
<1>3. CASE \E d \in Devices : Unplug(d)
  <2>1. alive' \in {alive, FALSE}
    BY <1>3 DEF Unplug, RootPortOff, Leave
  <2>2. UNCHANGED <<new_dev, gone, attached, pending_probe, scan_needed, scan_retry,
                    ctrl_done, xfers, halted, ep_recover, cur>>
    BY <1>3 DEF Unplug, RootPortOff
  <2>3. alive' \in BOOLEAN
    BY <2>1
  <2> QED
    BY <2>2, <2>3
<1>4. CASE CtrlComplete    BY <1>4 DEF CtrlComplete
<1>5. CASE BulkComplete    BY <1>5 DEF BulkComplete
<1>6. CASE BulkFails       BY <1>6 DEF BulkFails
<1>7. CASE CtrlCallback    BY <1>7 DEF CtrlCallback, Loop
<1>8. CASE BulkCallback    BY <1>8 DEF BulkCallback, Loop, Given
<1>9. CASE NewDev          BY <1>9 DEF NewDev, Loop
<1>10. CASE DevGone        BY <1>10 DEF DevGone, Loop
<1>11. CASE TeardownBegin  BY <1>11 DEF TeardownBegin, Loop
<1>12. CASE TeardownEnd    BY <1>12 DEF TeardownEnd, InTransfer, Probing
<1>13. CASE ScanRetry      BY <1>13 DEF ScanRetry, Loop
<1>14. CASE ScanNothing    BY <1>14 DEF ScanNothing, Loop, OpenTooEarly
<1>15. CASE ScanFound      BY <1>15 DEF ScanFound, Loop, OpenTooEarly
<1>16. CASE EpRecover      BY <1>16 DEF EpRecover, Loop
<1>17. CASE FinishFails    BY <1>17 DEF FinishFails, FinishLeave, FinishBy
<1>18. CASE FinishClaim    BY <1>18 DEF FinishClaim
<1>19. CASE FinishReset    BY <1>19 DEF FinishReset
<1>20. CASE FinishAttach   BY <1>20 DEF FinishAttach, FinishLeave, FinishBy
<1>21. CASE CtrlSubmit     BY <1>21 DEF CtrlSubmit
<1>22. CASE CtrlRefused    BY <1>22 DEF CtrlRefused, CtrlReturn
<1>23. CASE CtrlAnswered   BY <1>23 DEF CtrlAnswered, CtrlReturn
<1>24. CASE CtrlTimeout    BY <1>24 DEF CtrlTimeout, CtrlReturn
<1>25. CASE ProbeCtrl      BY <1>25 DEF ProbeCtrl, CtrlPrepare
<1>26. CASE ProbeReenum
  <2>1. alive' \in {alive, FALSE}
    BY <1>26 DEF ProbeReenum, RootPortOff, Leave
  <2>2. UNCHANGED <<new_dev, gone, attached, pending_probe, scan_needed, scan_retry,
                    ctrl_done, xfers, halted, ep_recover, cur>>
    BY <1>26 DEF ProbeReenum, RootPortOff
  <2>3. alive' \in BOOLEAN
    BY <2>1
  <2> QED
    BY <2>2, <2>3
<1>27. CASE Take           BY <1>27 DEF Take
<1>28. CASE TakeTimeout    BY <1>28 DEF TakeTimeout, Return
<1>29. CASE UseSlot        BY <1>29 DEF UseSlot, AppGoes
<1>30. CASE TakenTooLate   BY <1>30 DEF TakenTooLate, Return, Given
<1>31. CASE Fill           BY <1>31 DEF Fill, Return, AppGoes
<1>32. CASE SubmitOK       BY <1>32 DEF SubmitOK, Submitted, Return
<1>33. CASE SubmitFails    BY <1>33 DEF SubmitFails, Submitted, Return, Given
<1>34. CASE FlushTake      BY <1>34 DEF FlushTake
<1>35. CASE FlushEnd       BY <1>35 DEF FlushEnd, Return, Given
<1>36. CASE CtrlCall       BY <1>36 DEF CtrlCall, CtrlPrepare
<1>37. CASE PollProbe      BY <1>37 DEF PollProbe
<1>38. CASE RequestReenum
  <2>1. alive' \in {alive, FALSE}
    BY <1>38 DEF RequestReenum, RootPortOff, Leave
  <2>2. UNCHANGED <<new_dev, gone, attached, pending_probe, scan_needed, scan_retry,
                    ctrl_done, xfers, halted, ep_recover, cur>>
    BY <1>38 DEF RequestReenum, RootPortOff
  <2>3. alive' \in BOOLEAN
    BY <2>1
  <2> QED
    BY <2>2, <2>3
<1>39. CASE \E o \in {"write", "write+", "zlp", "split", "flush"} : BulkCall(o)
  BY <1>39 DEF BulkCall, AppGoes
<1>40. CASE UNCHANGED vars BY <1>40 DEF vars
<1> QED
  BY <1>1, <1>2, <1>3, <1>4, <1>5, <1>6, <1>7, <1>8, <1>9, <1>10, <1>11, <1>12,
      <1>13, <1>14, <1>15, <1>16, <1>17, <1>18, <1>19, <1>20, <1>21, <1>22, <1>23,
      <1>24, <1>25, <1>26, <1>27, <1>28, <1>29, <1>30, <1>31, <1>32, <1>33, <1>34,
      <1>35, <1>36, <1>37, <1>38, <1>39, <1>40 DEF Next, Bus, Client, Finish, InCall,
      Calls

\* Every step keeps the counts of slots and transfers: none is exceeded, since
\* together they are no more than the slots.
LEMMA CountsStep ==
  ASSUME Core, CtrlInv, [Next]_vars, Explored'
  PROVE  Counts'
<1> USE Esp32Assumption DEF Core, TypeOK, DevInv, CallInv, BalanceInv, CtrlInv,
      Counts, Total, Taken, InBulk, ProbeOps
<1>1. CASE \E d \in Devices : Plug(d) BY <1>1 DEF Plug
<1>2. CASE \E d \in Devices : Enumerated(d) BY <1>2 DEF Enumerated
<1>3. CASE \E d \in Devices : Unplug(d) BY <1>3 DEF Unplug, Leave
<1>4. CASE CtrlComplete    BY <1>4 DEF CtrlComplete
<1>5. CASE BulkComplete    BY <1>5 DEF BulkComplete
<1>6. CASE BulkFails       BY <1>6 DEF BulkFails
<1>7. CASE CtrlCallback    BY <1>7 DEF CtrlCallback, Loop
<1>8. CASE BulkCallback    BY <1>8 DEF BulkCallback, Loop, Given
<1>9. CASE NewDev          BY <1>9 DEF NewDev, Loop
<1>10. CASE DevGone        BY <1>10 DEF DevGone, Loop
<1>11. CASE TeardownBegin  BY <1>11 DEF TeardownBegin, Loop
<1>12. CASE TeardownEnd    BY <1>12 DEF TeardownEnd, InTransfer, Probing
<1>13. CASE ScanRetry      BY <1>13 DEF ScanRetry, Loop
<1>14. CASE ScanNothing    BY <1>14 DEF ScanNothing, Loop, OpenTooEarly
<1>15. CASE ScanFound      BY <1>15 DEF ScanFound, Loop, OpenTooEarly
<1>16. CASE EpRecover      BY <1>16 DEF EpRecover, Loop
<1>17. CASE FinishFails    BY <1>17 DEF FinishFails, FinishLeave, FinishBy
<1>18. CASE FinishClaim    BY <1>18 DEF FinishClaim
<1>19. CASE FinishReset    BY <1>19 DEF FinishReset
<1>20. CASE FinishAttach   BY <1>20 DEF FinishAttach, FinishLeave, FinishBy
<1>21. CASE CtrlSubmit     BY <1>21 DEF CtrlSubmit
<1>22. CASE CtrlRefused
  BY <1>22, CtrlReturnGoes DEF CtrlRefused
<1>23. CASE CtrlAnswered
  BY <1>23, CtrlReturnGoes DEF CtrlAnswered
<1>24. CASE CtrlTimeout
  BY <1>24, CtrlReturnGoes DEF CtrlTimeout
<1>25. CASE ProbeCtrl      BY <1>25 DEF ProbeCtrl, CtrlPrepare
<1>26. CASE ProbeReenum    BY <1>26 DEF ProbeReenum, RootPortOff, Leave
<1>27. CASE Take           BY <1>27 DEF Take
<1>28. CASE TakeTimeout    BY <1>28 DEF TakeTimeout, Return
<1>29. CASE UseSlot        BY <1>29 DEF UseSlot, AppGoes
<1>30. CASE TakenTooLate   BY <1>30 DEF TakenTooLate, Return, Given
<1>31. CASE Fill           BY <1>31 DEF Fill, Return, AppGoes
<1>32. CASE SubmitOK       BY <1>32 DEF SubmitOK, Submitted, Return
<1>33. CASE SubmitFails    BY <1>33 DEF SubmitFails, Submitted, Return, Given
<1>34. CASE FlushTake      BY <1>34 DEF FlushTake
<1>35. CASE FlushEnd       BY <1>35 DEF FlushEnd, Return, Given
<1>36. CASE CtrlCall       BY <1>36 DEF CtrlCall, CtrlPrepare
<1>37. CASE PollProbe      BY <1>37 DEF PollProbe
<1>38. CASE RequestReenum  BY <1>38 DEF RequestReenum, RootPortOff, Leave
<1>39. CASE \E o \in {"write", "write+", "zlp", "split", "flush"} : BulkCall(o)
  BY <1>39 DEF BulkCall, AppGoes
<1>40. CASE UNCHANGED vars BY <1>40 DEF vars
<1> QED
  BY <1>1, <1>2, <1>3, <1>4, <1>5, <1>6, <1>7, <1>8, <1>9, <1>10, <1>11, <1>12,
      <1>13, <1>14, <1>15, <1>16, <1>17, <1>18, <1>19, <1>20, <1>21, <1>22, <1>23,
      <1>24, <1>25, <1>26, <1>27, <1>28, <1>29, <1>30, <1>31, <1>32, <1>33, <1>34,
      <1>35, <1>36, <1>37, <1>38, <1>39, <1>40 DEF Next, Bus, Client, Finish, InCall,
      Calls

\* Every step keeps the types of the other variables.
LEMMA PlacesStep ==
  ASSUME Places, CtrlInv, [Next]_vars
  PROVE  Places'
<1> USE DEF Places, CtrlInv, ProbeOps
<1>1. CASE \E d \in Devices : Plug(d) BY <1>1 DEF Plug
<1>2. CASE \E d \in Devices : Enumerated(d) BY <1>2 DEF Enumerated
<1>3. CASE \E d \in Devices : Unplug(d) BY <1>3 DEF Unplug, Leave
<1>4. CASE CtrlComplete    BY <1>4 DEF CtrlComplete
<1>5. CASE BulkComplete    BY <1>5 DEF BulkComplete
<1>6. CASE BulkFails       BY <1>6 DEF BulkFails
<1>7. CASE CtrlCallback    BY <1>7 DEF CtrlCallback, Loop
<1>8. CASE BulkCallback    BY <1>8 DEF BulkCallback, Loop, Given
<1>9. CASE NewDev          BY <1>9 DEF NewDev, Loop
<1>10. CASE DevGone        BY <1>10 DEF DevGone, Loop
<1>11. CASE TeardownBegin  BY <1>11 DEF TeardownBegin, Loop
<1>12. CASE TeardownEnd    BY <1>12 DEF TeardownEnd, InTransfer, Probing
<1>13. CASE ScanRetry      BY <1>13 DEF ScanRetry, Loop
<1>14. CASE ScanNothing    BY <1>14 DEF ScanNothing, Loop, OpenTooEarly
<1>15. CASE ScanFound      BY <1>15 DEF ScanFound, Loop, OpenTooEarly
<1>16. CASE EpRecover      BY <1>16 DEF EpRecover, Loop
<1>17. CASE FinishFails    BY <1>17 DEF FinishFails, FinishLeave, FinishBy
<1>18. CASE FinishClaim    BY <1>18 DEF FinishClaim
<1>19. CASE FinishReset    BY <1>19 DEF FinishReset
<1>20. CASE FinishAttach   BY <1>20 DEF FinishAttach, FinishLeave, FinishBy
<1>21. CASE CtrlSubmit     BY <1>21 DEF CtrlSubmit
<1>22. CASE CtrlRefused
  BY <1>22, CtrlReturnGoes DEF CtrlRefused
<1>23. CASE CtrlAnswered
  BY <1>23, CtrlReturnGoes DEF CtrlAnswered
<1>24. CASE CtrlTimeout
  BY <1>24, CtrlReturnGoes DEF CtrlTimeout
<1>25. CASE ProbeCtrl      BY <1>25 DEF ProbeCtrl, CtrlPrepare
<1>26. CASE ProbeReenum    BY <1>26 DEF ProbeReenum, RootPortOff, Leave
<1>27. CASE Take           BY <1>27 DEF Take
<1>28. CASE TakeTimeout    BY <1>28 DEF TakeTimeout, Return
<1>29. CASE UseSlot        BY <1>29 DEF UseSlot, AppGoes
<1>30. CASE TakenTooLate   BY <1>30 DEF TakenTooLate, Return, Given
<1>31. CASE Fill           BY <1>31 DEF Fill, Return, AppGoes
<1>32. CASE SubmitOK       BY <1>32 DEF SubmitOK, Submitted, Return
<1>33. CASE SubmitFails    BY <1>33 DEF SubmitFails, Submitted, Return, Given
<1>34. CASE FlushTake      BY <1>34 DEF FlushTake
<1>35. CASE FlushEnd       BY <1>35 DEF FlushEnd, Return, Given
<1>36. CASE CtrlCall       BY <1>36 DEF CtrlCall, CtrlPrepare
<1>37. CASE PollProbe      BY <1>37 DEF PollProbe
<1>38. CASE RequestReenum  BY <1>38 DEF RequestReenum, RootPortOff, Leave
<1>39. CASE \E o \in {"write", "write+", "zlp", "split", "flush"} : BulkCall(o)
  <2> SUFFICES ASSUME NEW o \in {"write", "write+", "zlp", "split", "flush"}, BulkCall(o)
               PROVE  Places'
    BY <1>39
  <2>1. CASE o \in {"write", "write+"} BY <2>1 DEF BulkCall, AppGoes
  <2>2. CASE o = "zlp"   BY <2>2 DEF BulkCall, AppGoes
  <2>3. CASE o = "split" BY <2>3 DEF BulkCall, AppGoes
  <2>4. CASE o = "flush" BY <2>4 DEF BulkCall, AppGoes
  <2> QED BY <2>1, <2>2, <2>3, <2>4
<1>40. CASE UNCHANGED vars BY <1>40 DEF vars
<1> QED
  BY <1>1, <1>2, <1>3, <1>4, <1>5, <1>6, <1>7, <1>8, <1>9, <1>10, <1>11, <1>12,
      <1>13, <1>14, <1>15, <1>16, <1>17, <1>18, <1>19, <1>20, <1>21, <1>22, <1>23,
      <1>24, <1>25, <1>26, <1>27, <1>28, <1>29, <1>30, <1>31, <1>32, <1>33, <1>34,
      <1>35, <1>36, <1>37, <1>38, <1>39, <1>40 DEF Next, Bus, Client, Finish, InCall,
      Calls

\* Every step keeps the life cycle of the device.
LEMMA DevStep ==
  ASSUME Core, CtrlInv, [Next]_vars, Explored'
  PROVE  DevInv'
<1> USE Esp32Assumption DEF Core, TypeOK, DevInv, SetupInv, CallInv, CtrlInv,
      ProbeOps, InBulk, Explored
<1>1. CASE \E d \in Devices : Plug(d) BY <1>1 DEF Plug
<1>2. CASE \E d \in Devices : Enumerated(d) BY <1>2 DEF Enumerated
<1>3. CASE \E d \in Devices : Unplug(d) BY <1>3 DEF Unplug, Leave
<1>4. CASE CtrlComplete    BY <1>4 DEF CtrlComplete
<1>5. CASE BulkComplete    BY <1>5 DEF BulkComplete
<1>6. CASE BulkFails       BY <1>6 DEF BulkFails
<1>7. CASE CtrlCallback    BY <1>7 DEF CtrlCallback, Loop
<1>8. CASE BulkCallback    BY <1>8 DEF BulkCallback, Loop, Given
<1>9. CASE NewDev          BY <1>9 DEF NewDev, Loop
<1>10. CASE DevGone        BY <1>10 DEF DevGone, Loop
<1>11. CASE TeardownBegin  BY <1>11 DEF TeardownBegin, Loop
<1>12. CASE TeardownEnd
  <2>1. op \notin ProbeOps
    BY <1>12 DEF TeardownEnd, Probing
  <2>2. fin = "none"
    BY <1>12 DEF TeardownEnd, InTransfer
  <2> QED BY <1>12, <2>1, <2>2 DEF TeardownEnd
<1>13. CASE ScanRetry      BY <1>13 DEF ScanRetry, Loop
<1>14. CASE ScanNothing    BY <1>14 DEF ScanNothing, Loop, OpenTooEarly
<1>15. CASE ScanFound      BY <1>15 DEF ScanFound, Loop, OpenTooEarly
<1>16. CASE EpRecover      BY <1>16 DEF EpRecover, Loop
<1>17. CASE FinishFails    BY <1>17 DEF FinishFails, FinishLeave, FinishBy
<1>18. CASE FinishClaim    BY <1>18 DEF FinishClaim
<1>19. CASE FinishReset    BY <1>19 DEF FinishReset
<1>20. CASE FinishAttach   BY <1>20 DEF FinishAttach, FinishLeave, FinishBy
<1>21. CASE CtrlSubmit     BY <1>21 DEF CtrlSubmit
<1>22. CASE CtrlRefused
  BY <1>22, CtrlReturnGoes DEF CtrlRefused
<1>23. CASE CtrlAnswered
  BY <1>23, CtrlReturnGoes DEF CtrlAnswered
<1>24. CASE CtrlTimeout
  BY <1>24, CtrlReturnGoes DEF CtrlTimeout
<1>25. CASE ProbeCtrl      BY <1>25 DEF ProbeCtrl, CtrlPrepare
<1>26. CASE ProbeReenum    BY <1>26 DEF ProbeReenum, RootPortOff, Leave
<1>27. CASE Take           BY <1>27 DEF Take
<1>28. CASE TakeTimeout    BY <1>28 DEF TakeTimeout, Return
<1>29. CASE UseSlot        BY <1>29 DEF UseSlot, AppGoes
<1>30. CASE TakenTooLate   BY <1>30 DEF TakenTooLate, Return, Given
<1>31. CASE Fill           BY <1>31 DEF Fill, Return, AppGoes
<1>32. CASE SubmitOK       BY <1>32 DEF SubmitOK, Submitted, Return
<1>33. CASE SubmitFails    BY <1>33 DEF SubmitFails, Submitted, Return, Given
<1>34. CASE FlushTake      BY <1>34 DEF FlushTake
<1>35. CASE FlushEnd       BY <1>35 DEF FlushEnd, Return, Given
<1>36. CASE CtrlCall       BY <1>36 DEF CtrlCall, CtrlPrepare
<1>37. CASE PollProbe      BY <1>37 DEF PollProbe
<1>38. CASE RequestReenum  BY <1>38 DEF RequestReenum, RootPortOff, Leave
<1>39. CASE \E o \in {"write", "write+", "zlp", "split", "flush"} : BulkCall(o)
  BY <1>39 DEF BulkCall, AppGoes
<1>40. CASE UNCHANGED vars BY <1>40 DEF vars
<1> QED
  BY <1>1, <1>2, <1>3, <1>4, <1>5, <1>6, <1>7, <1>8, <1>9, <1>10, <1>11, <1>12,
      <1>13, <1>14, <1>15, <1>16, <1>17, <1>18, <1>19, <1>20, <1>21, <1>22, <1>23,
      <1>24, <1>25, <1>26, <1>27, <1>28, <1>29, <1>30, <1>31, <1>32, <1>33, <1>34,
      <1>35, <1>36, <1>37, <1>38, <1>39, <1>40 DEF Next, Bus, Client, Finish, InCall,
      Calls

\* Every step leaves finish_setup to one task.
LEMMA SetupStep ==
  ASSUME Core, CtrlInv, [Next]_vars, Explored'
  PROVE  SetupInv'
<1> USE DEF Core, TypeOK, DevInv, SetupInv, CtrlInv, ProbeOps, Explored
<1>1. CASE \E d \in Devices : Plug(d) BY <1>1 DEF Plug
<1>2. CASE \E d \in Devices : Enumerated(d) BY <1>2 DEF Enumerated
<1>3. CASE \E d \in Devices : Unplug(d) BY <1>3 DEF Unplug, Leave
<1>4. CASE CtrlComplete    BY <1>4 DEF CtrlComplete
<1>5. CASE BulkComplete    BY <1>5 DEF BulkComplete
<1>6. CASE BulkFails       BY <1>6 DEF BulkFails
<1>7. CASE CtrlCallback    BY <1>7 DEF CtrlCallback, Loop
<1>8. CASE BulkCallback    BY <1>8 DEF BulkCallback, Loop, Given
<1>9. CASE NewDev          BY <1>9 DEF NewDev, Loop
<1>10. CASE DevGone        BY <1>10 DEF DevGone, Loop
<1>11. CASE TeardownBegin  BY <1>11 DEF TeardownBegin, Loop
<1>12. CASE TeardownEnd    BY <1>12 DEF TeardownEnd, InTransfer, Probing
<1>13. CASE ScanRetry      BY <1>13 DEF ScanRetry, Loop
<1>14. CASE ScanNothing    BY <1>14 DEF ScanNothing, Loop, OpenTooEarly
<1>15. CASE ScanFound      BY <1>15 DEF ScanFound, Loop, OpenTooEarly
<1>16. CASE EpRecover      BY <1>16 DEF EpRecover, Loop
<1>17. CASE FinishFails    BY <1>17 DEF FinishFails, FinishLeave, FinishBy
<1>18. CASE FinishClaim    BY <1>18 DEF FinishClaim
<1>19. CASE FinishReset    BY <1>19 DEF FinishReset
<1>20. CASE FinishAttach   BY <1>20 DEF FinishAttach, FinishLeave, FinishBy
<1>21. CASE CtrlSubmit     BY <1>21 DEF CtrlSubmit
<1>22. CASE CtrlRefused
  BY <1>22, CtrlReturnGoes DEF CtrlRefused
<1>23. CASE CtrlAnswered
  BY <1>23, CtrlReturnGoes DEF CtrlAnswered
<1>24. CASE CtrlTimeout
  BY <1>24, CtrlReturnGoes DEF CtrlTimeout
<1>25. CASE ProbeCtrl      BY <1>25 DEF ProbeCtrl, CtrlPrepare
<1>26. CASE ProbeReenum    BY <1>26 DEF ProbeReenum, RootPortOff, Leave
<1>27. CASE Take           BY <1>27 DEF Take
<1>28. CASE TakeTimeout    BY <1>28 DEF TakeTimeout, Return
<1>29. CASE UseSlot        BY <1>29 DEF UseSlot, AppGoes
<1>30. CASE TakenTooLate   BY <1>30 DEF TakenTooLate, Return, Given
<1>31. CASE Fill           BY <1>31 DEF Fill, Return, AppGoes
<1>32. CASE SubmitOK       BY <1>32 DEF SubmitOK, Submitted, Return
<1>33. CASE SubmitFails    BY <1>33 DEF SubmitFails, Submitted, Return, Given
<1>34. CASE FlushTake      BY <1>34 DEF FlushTake
<1>35. CASE FlushEnd       BY <1>35 DEF FlushEnd, Return, Given
<1>36. CASE CtrlCall       BY <1>36 DEF CtrlCall, CtrlPrepare
<1>37. CASE PollProbe      BY <1>37 DEF PollProbe
<1>38. CASE RequestReenum  BY <1>38 DEF RequestReenum, RootPortOff, Leave
<1>39. CASE \E o \in {"write", "write+", "zlp", "split", "flush"} : BulkCall(o)
  <2> SUFFICES ASSUME NEW o \in {"write", "write+", "zlp", "split", "flush"}, BulkCall(o)
               PROVE  SetupInv'
    BY <1>39
  <2>1. CASE o \in {"write", "write+"} BY <2>1 DEF BulkCall, AppGoes
  <2>2. CASE o = "zlp"   BY <2>2 DEF BulkCall, AppGoes
  <2>3. CASE o = "split" BY <2>3 DEF BulkCall, AppGoes
  <2>4. CASE o = "flush" BY <2>4 DEF BulkCall, AppGoes
  <2> QED BY <2>1, <2>2, <2>3, <2>4
<1>40. CASE UNCHANGED vars BY <1>40 DEF vars
<1> QED
  BY <1>1, <1>2, <1>3, <1>4, <1>5, <1>6, <1>7, <1>8, <1>9, <1>10, <1>11, <1>12,
      <1>13, <1>14, <1>15, <1>16, <1>17, <1>18, <1>19, <1>20, <1>21, <1>22, <1>23,
      <1>24, <1>25, <1>26, <1>27, <1>28, <1>29, <1>30, <1>31, <1>32, <1>33, <1>34,
      <1>35, <1>36, <1>37, <1>38, <1>39, <1>40 DEF Next, Bus, Client, Finish, InCall,
      Calls

\* Every step keeps where the application is in a bulk call.
LEMMA CallStep ==
  ASSUME Core, CtrlInv, [Next]_vars, Explored'
  PROVE  CallInv'
<1> USE DEF Core, TypeOK, DevInv, SetupInv, CallInv, BalanceInv, CtrlInv, Total,
      Taken, InBulk, ProbeOps, Explored
<1>1. CASE \E d \in Devices : Plug(d) BY <1>1 DEF Plug
<1>2. CASE \E d \in Devices : Enumerated(d) BY <1>2 DEF Enumerated
<1>3. CASE \E d \in Devices : Unplug(d) BY <1>3 DEF Unplug, Leave
<1>4. CASE CtrlComplete    BY <1>4 DEF CtrlComplete
<1>5. CASE BulkComplete    BY <1>5 DEF BulkComplete
<1>6. CASE BulkFails       BY <1>6 DEF BulkFails
<1>7. CASE CtrlCallback    BY <1>7 DEF CtrlCallback, Loop
<1>8. CASE BulkCallback    BY <1>8 DEF BulkCallback, Loop, Given
<1>9. CASE NewDev          BY <1>9 DEF NewDev, Loop
<1>10. CASE DevGone        BY <1>10 DEF DevGone, Loop
<1>11. CASE TeardownBegin  BY <1>11 DEF TeardownBegin, Loop
<1>12. CASE TeardownEnd
  <2>1. flight = 0 /\ complete = 0 /\ ~attached
    BY <1>12 DEF TeardownEnd
  <2>2. pc = "free" => bulk_free = Slots
    BY <2>1
  <2>3. ~InBulk
    BY <1>12, <2>2, Esp32Assumption DEF TeardownEnd, InTransfer
  <2> QED BY <1>12, <2>3 DEF TeardownEnd
<1>13. CASE ScanRetry      BY <1>13 DEF ScanRetry, Loop
<1>14. CASE ScanNothing    BY <1>14 DEF ScanNothing, Loop, OpenTooEarly
<1>15. CASE ScanFound      BY <1>15 DEF ScanFound, Loop, OpenTooEarly
<1>16. CASE EpRecover      BY <1>16 DEF EpRecover, Loop
<1>17. CASE FinishFails    BY <1>17 DEF FinishFails, FinishLeave, FinishBy
<1>18. CASE FinishClaim    BY <1>18 DEF FinishClaim
<1>19. CASE FinishReset    BY <1>19 DEF FinishReset
<1>20. CASE FinishAttach   BY <1>20 DEF FinishAttach, FinishLeave, FinishBy
<1>21. CASE CtrlSubmit     BY <1>21 DEF CtrlSubmit
<1>22. CASE CtrlRefused
  BY <1>22, CtrlReturnGoes DEF CtrlRefused
<1>23. CASE CtrlAnswered
  BY <1>23, CtrlReturnGoes DEF CtrlAnswered
<1>24. CASE CtrlTimeout
  BY <1>24, CtrlReturnGoes DEF CtrlTimeout
<1>25. CASE ProbeCtrl      BY <1>25 DEF ProbeCtrl, CtrlPrepare
<1>26. CASE ProbeReenum    BY <1>26 DEF ProbeReenum, RootPortOff, Leave
<1>27. CASE Take           BY <1>27 DEF Take
<1>28. CASE TakeTimeout    BY <1>28 DEF TakeTimeout, Return
<1>29. CASE UseSlot        BY <1>29 DEF UseSlot, AppGoes
<1>30. CASE TakenTooLate   BY <1>30 DEF TakenTooLate, Return, Given
<1>31. CASE Fill           BY <1>31 DEF Fill, Return, AppGoes
<1>32. CASE SubmitOK       BY <1>32 DEF SubmitOK, Submitted, Return
<1>33. CASE SubmitFails    BY <1>33 DEF SubmitFails, Submitted, Return, Given
<1>34. CASE FlushTake      BY <1>34 DEF FlushTake
<1>35. CASE FlushEnd       BY <1>35 DEF FlushEnd, Return, Given
<1>36. CASE CtrlCall       BY <1>36 DEF CtrlCall, CtrlPrepare
<1>37. CASE PollProbe      BY <1>37 DEF PollProbe
<1>38. CASE RequestReenum  BY <1>38 DEF RequestReenum, RootPortOff, Leave
<1>39. CASE \E o \in {"write", "write+", "zlp", "split", "flush"} : BulkCall(o)
  <2> SUFFICES ASSUME NEW o \in {"write", "write+", "zlp", "split", "flush"}, BulkCall(o)
               PROVE  CallInv'
    BY <1>39
  <2>1. CASE o \in {"write", "write+"} BY <2>1 DEF BulkCall, AppGoes
  <2>2. CASE o = "zlp"   BY <2>2 DEF BulkCall, AppGoes
  <2>3. CASE o = "split" BY <2>3 DEF BulkCall, AppGoes
  <2>4. CASE o = "flush" BY <2>4 DEF BulkCall, AppGoes
  <2> QED BY <2>1, <2>2, <2>3, <2>4
<1>40. CASE UNCHANGED vars BY <1>40 DEF vars
<1> QED
  BY <1>1, <1>2, <1>3, <1>4, <1>5, <1>6, <1>7, <1>8, <1>9, <1>10, <1>11, <1>12,
      <1>13, <1>14, <1>15, <1>16, <1>17, <1>18, <1>19, <1>20, <1>21, <1>22, <1>23,
      <1>24, <1>25, <1>26, <1>27, <1>28, <1>29, <1>30, <1>31, <1>32, <1>33, <1>34,
      <1>35, <1>36, <1>37, <1>38, <1>39, <1>40 DEF Next, Bus, Client, Finish, InCall,
      Calls

\* No step loses or doubles a slot: teardown, set-up, callbacks, the recovery of
\* the endpoint, and the calls that are broken off.
LEMMA BalanceStep ==
  ASSUME Core, CtrlInv, [Next]_vars, Explored'
  PROVE  BalanceInv'
<1> USE Esp32Assumption DEF Core, TypeOK, DevInv, SetupInv, CallInv, BalanceInv,
      CtrlInv, Total, Taken, InBulk, ProbeOps, Explored
<1>1. CASE \E d \in Devices : Plug(d) BY <1>1 DEF Plug
<1>2. CASE \E d \in Devices : Enumerated(d) BY <1>2 DEF Enumerated
<1>3. CASE \E d \in Devices : Unplug(d) BY <1>3 DEF Unplug, Leave
<1>4. CASE CtrlComplete    BY <1>4 DEF CtrlComplete
<1>5. CASE BulkComplete
  <2>1. Total' = Total
    BY <1>5 DEF BulkComplete
  <2> QED BY <1>5, <2>1 DEF BulkComplete
<1>6. CASE BulkFails       BY <1>6 DEF BulkFails
<1>7. CASE CtrlCallback    BY <1>7 DEF CtrlCallback, Loop
<1>8. CASE BulkCallback    BY <1>8 DEF BulkCallback, Loop, Given
<1>9. CASE NewDev          BY <1>9 DEF NewDev, Loop
<1>10. CASE DevGone        BY <1>10 DEF DevGone, Loop
<1>11. CASE TeardownBegin  BY <1>11 DEF TeardownBegin, Loop
<1>12. CASE TeardownEnd    BY <1>12 DEF TeardownEnd, InTransfer, Probing
<1>13. CASE ScanRetry      BY <1>13 DEF ScanRetry, Loop
<1>14. CASE ScanNothing    BY <1>14 DEF ScanNothing, Loop, OpenTooEarly
<1>15. CASE ScanFound      BY <1>15 DEF ScanFound, Loop, OpenTooEarly
<1>16. CASE EpRecover      BY <1>16 DEF EpRecover, Loop
<1>17. CASE FinishFails    BY <1>17 DEF FinishFails, FinishLeave, FinishBy
<1>18. CASE FinishClaim    BY <1>18 DEF FinishClaim
<1>19. CASE FinishReset    BY <1>19 DEF FinishReset
<1>20. CASE FinishAttach   BY <1>20 DEF FinishAttach, FinishLeave, FinishBy
<1>21. CASE CtrlSubmit     BY <1>21 DEF CtrlSubmit
<1>22. CASE CtrlRefused
  <2>1. pc' \in ProbeOps \cup {"idle", "reenum", "finish"} /\ fin' \in {fin, "begin"}
    BY <1>22, CtrlReturnGoes DEF CtrlRefused
  <2>2. UNCHANGED <<attached, bulk_free, got, flight, complete, cur>>
    BY <1>22, CtrlReturnGoes DEF CtrlRefused
  <2>3. pc \notin {"free", "taken", "fill", "submit", "flush"}
    BY <1>22 DEF CtrlRefused
  <2>4. Total' = Total
    BY <2>1, <2>2, <2>3
  <2> QED
    BY <2>1, <2>2, <2>3, <2>4
<1>23. CASE CtrlAnswered
  <2>1. pc' \in ProbeOps \cup {"idle", "reenum", "finish"} /\ fin' \in {fin, "begin"}
    BY <1>23, CtrlReturnGoes DEF CtrlAnswered
  <2>2. UNCHANGED <<attached, bulk_free, got, flight, complete, cur>>
    BY <1>23, CtrlReturnGoes DEF CtrlAnswered
  <2>3. pc \notin {"free", "taken", "fill", "submit", "flush"}
    BY <1>23 DEF CtrlAnswered
  <2>4. Total' = Total
    BY <2>1, <2>2, <2>3
  <2> QED
    BY <2>1, <2>2, <2>3, <2>4
<1>24. CASE CtrlTimeout
  <2>1. pc' \in ProbeOps \cup {"idle", "reenum", "finish"} /\ fin' \in {fin, "begin"}
    BY <1>24, CtrlReturnGoes DEF CtrlTimeout
  <2>2. UNCHANGED <<attached, bulk_free, got, flight, complete, cur>>
    BY <1>24, CtrlReturnGoes DEF CtrlTimeout
  <2>3. pc \notin {"free", "taken", "fill", "submit", "flush"}
    BY <1>24 DEF CtrlTimeout
  <2>4. Total' = Total
    BY <2>1, <2>2, <2>3
  <2> QED
    BY <2>1, <2>2, <2>3, <2>4
<1>25. CASE ProbeCtrl      BY <1>25 DEF ProbeCtrl, CtrlPrepare
<1>26. CASE ProbeReenum    BY <1>26 DEF ProbeReenum, RootPortOff, Leave
<1>27. CASE Take           BY <1>27 DEF Take
<1>28. CASE TakeTimeout    BY <1>28 DEF TakeTimeout, Return
<1>29. CASE UseSlot        BY <1>29 DEF UseSlot, AppGoes
<1>30. CASE TakenTooLate   BY <1>30 DEF TakenTooLate, Return, Given
<1>31. CASE Fill           BY <1>31 DEF Fill, Return, AppGoes
<1>32. CASE SubmitOK       BY <1>32 DEF SubmitOK, Submitted, Return
<1>33. CASE SubmitFails    BY <1>33 DEF SubmitFails, Submitted, Return, Given
<1>34. CASE FlushTake      BY <1>34 DEF FlushTake
<1>35. CASE FlushEnd       BY <1>35 DEF FlushEnd, Return, Given
<1>36. CASE CtrlCall       BY <1>36 DEF CtrlCall, CtrlPrepare
<1>37. CASE PollProbe      BY <1>37 DEF PollProbe
<1>38. CASE RequestReenum  BY <1>38 DEF RequestReenum, RootPortOff, Leave
<1>39. CASE \E o \in {"write", "write+", "zlp", "split", "flush"} : BulkCall(o)
  <2> SUFFICES ASSUME NEW o \in {"write", "write+", "zlp", "split", "flush"}, BulkCall(o)
               PROVE  BalanceInv'
    BY <1>39
  <2>1. CASE o \in {"write", "write+"} BY <2>1 DEF BulkCall, AppGoes
  <2>2. CASE o = "zlp"   BY <2>2 DEF BulkCall, AppGoes
  <2>3. CASE o = "split" BY <2>3 DEF BulkCall, AppGoes
  <2>4. CASE o = "flush" BY <2>4 DEF BulkCall, AppGoes
  <2> QED BY <2>1, <2>2, <2>3, <2>4
<1>40. CASE UNCHANGED vars BY <1>40 DEF vars
<1> QED
  BY <1>1, <1>2, <1>3, <1>4, <1>5, <1>6, <1>7, <1>8, <1>9, <1>10, <1>11, <1>12,
      <1>13, <1>14, <1>15, <1>16, <1>17, <1>18, <1>19, <1>20, <1>21, <1>22, <1>23,
      <1>24, <1>25, <1>26, <1>27, <1>28, <1>29, <1>30, <1>31, <1>32, <1>33, <1>34,
      <1>35, <1>36, <1>37, <1>38, <1>39, <1>40 DEF Next, Bus, Client, Finish, InCall,
      Calls

-----------------------------------------------------------------------------
(* The theorems.                                                           *)

\* Initially nothing is under way and no device is held.
LEMMA InitIInv == Init => IInv
<1> SUFFICES ASSUME Init PROVE IInv
  OBVIOUS
<1>1. TypeOK
  <2>1. Flags
    BY Zenon DEF Init, Flags
  <2>2. Counts
    BY Esp32Assumption DEF Init, Counts
  <2>3. Places
    BY DEF Init, Places
  <2> QED
    BY <2>1, <2>2, <2>3, TypeParts
<1>2. DevInv /\ SetupInv /\ CallInv /\ BalanceInv /\ CtrlInv
  BY DEF Init, DevInv, SetupInv, CallInv, BalanceInv, CtrlInv, ProbeOps, InBulk
<1> QED
  BY <1>1, <1>2 DEF IInv, Core

\* The strengthening of the invariants of the runs holds in every state; of the
\* states after a teardown during probe_and_finish it says only CtrlInv.
THEOREM Invariance == Spec => []IInv
<1>1. IInv /\ [Next]_vars => IInv'
  <2> SUFFICES ASSUME IInv, [Next]_vars PROVE IInv'
    OBVIOUS
  <2>1. CtrlInv'
    BY CtrlStep DEF IInv
  <2>2. ASSUME Explored' PROVE Core'
    <3>1. Core /\ CtrlInv
      BY <2>2, ExploredStep DEF IInv
    <3>2. Flags' /\ Counts' /\ Places'
      BY <2>2, <3>1, TypeParts, FlagsStep, CountsStep, PlacesStep DEF Core
    <3>3. (TypeOK <=> Flags /\ Counts /\ Places)'
      BY TypeParts, PTL
    <3>4. DevInv' /\ SetupInv' /\ CallInv' /\ BalanceInv'
      BY <2>2, <3>1, DevStep, SetupStep, CallStep, BalanceStep
    <3> QED
      BY <3>2, <3>3, <3>4 DEF Core
  <2> QED
    BY <2>1, <2>2 DEF IInv
<1> QED
  BY InitIInv, <1>1, PTL DEF Spec

\* The HAL and the stack keep their types, whatever the two tasks do, up to a
\* teardown during probe_and_finish.
THEOREM TypeCorrect == Spec => [](Explored => TypeOK)
<1>1. IInv => (Explored => TypeOK)
  BY DEF IInv, Core
<1> QED
  BY Invariance, <1>1, PTL

\* Every slot of an attached device is free, held by the application, in flight
\* or waiting for its callback, whatever was torn down or broken off before.
THEOREM SlotsAreBalanced == Spec => []SlotsBalanced
<1>1. IInv => SlotsBalanced
  <2> SUFFICES ASSUME IInv, attached, pc # "flush", Explored
               PROVE  bulk_free + flight + complete + Taken = Slots
    BY DEF SlotsBalanced, Taken, Explored
  <2>1. Total = Slots /\ got = 0
    BY DEF IInv, Core, BalanceInv, CallInv
  <2>2. {bulk_free, flight, complete, Taken} \subseteq Nat
    BY Esp32Assumption DEF IInv, Core, TypeOK, Taken
  <2> QED
    BY <2>1, <2>2 DEF Total
<1> QED
  BY Invariance, <1>1, PTL

\* A HAL that says attached has a device and its transfers.
THEOREM AttachedIsThere == Spec => []AttachedHasDevice
<1>1. IInv => AttachedHasDevice
  BY DEF IInv, Core, DevInv, AttachedHasDevice, Explored
<1> QED
  BY Invariance, <1>1, PTL

\* A control call that ends with an answer ends with its own, also on a device
\* that was torn down under it.
THEOREM AnswersAreOwn == Spec => CtrlOwnAnswer
<1> DEFINE Own == pc = "ctrl" /\ ctrl_done /\ ~ctrl_done' /\ "late" \notin struck =>
                    ctrl_xfer = "idle"
<1>1. IInv /\ [Next]_vars => [Own]_vars
  BY DEF IInv, CtrlInv
<1> QED
  BY Invariance, <1>1, PTL DEF Spec, CtrlOwnAnswer

=============================================================================
