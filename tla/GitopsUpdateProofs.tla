------------------------- MODULE GitopsUpdateProofs -------------------------
(* Proofs about GitopsUpdate, for every value of its constants. *)
EXTENDS GitopsUpdate, TLAPS

-----------------------------------------------------------------------------
(* Inductive invariants *)

\* The script before it has a result, on the way to the update.
Fresh == {"idle", "flags", "pull", "decide", "validate", "maintenance"}

\* The page is up from ShowMaintenance to ClearPage.
Guarded ==
  {"before", "update", "updating", "tag", "tag_failed", "after", "finish", "clear"}

\* Where the update of this run is complete and tagged.
Done == {"after", "finish", "clear"}

\* What $result and need_service_restart are known to be.
ResultInv ==
  /\ pc \in Fresh => result = "ok" /\ ~restart
  /\ pc \in (Guarded \ {"tag_failed"}) \cup {"ready"} => result = "ok"
  /\ pc \in {"error", "report", "tag_failed"} => result # "ok"

\* The machine behind the page.
PageInv ==
  /\ page = "none" => applied # Partial /\ ~stopped
  /\ pc \in Guarded => page # "none"
  /\ pc = "updating" => applied = Partial
  /\ pc \in Done \cup {"tag"} => applied = head
  /\ pc \in Done => currentRev = head
  /\ pc \in {"reboot", "slot"} /\ restart /\ result = "ok" =>
       page # "none" /\ applied = head /\ currentRev = head
  /\ pc = "clear" => ~stopped

IInv == TypeOK /\ ResultInv /\ PageInv

\* The error page, from ShowError to the next run.
ShownInv ==
  /\ pc \in {"report", "reboot", "slot", "exit"} /\ result # "ok" => page = "error"
  /\ FailureIsShown

\* The flag file that forbids reboots, where the applied revision wants it.
FlagInv == applied \in AttendedRevs => "attended" \in flags

\* Tags, without force-pushes.
Pending == {"validate", "maintenance", "before", "update", "updating"}

TagInv ==
  /\ HistoryOrder
  /\ applied # head /\ currentRev = head => redo
  /\ pc \in Pending /\ currentRev = head => redo

-----------------------------------------------------------------------------
(* Type correctness *)

\* A part of the state that a step leaves alone keeps its type.
LEMMA Frames ==
  ASSUME TypeOK
  PROVE  /\ UNCHANGED outside => OutsideOK'
         /\ UNCHANGED disk => DiskOK'
         /\ UNCHANGED volatile => VolatileOK'
         /\ UNCHANGED run => RunOK'
         /\ UNCHANGED <<redo, faults>> => HistoryOK'
<1>1. UNCHANGED outside => OutsideOK'
  BY DEF TypeOK, outside, OutsideOK
<1>2. UNCHANGED disk => DiskOK'
  BY DEF TypeOK, disk, DiskOK
<1>3. UNCHANGED volatile => VolatileOK'
  BY DEF TypeOK, volatile, VolatileOK
<1>4. UNCHANGED run => RunOK'
  BY DEF TypeOK, run, RunOK
<1>5. UNCHANGED <<redo, faults>> => HistoryOK'
  BY DEF TypeOK, HistoryOK
<1> QED
  BY <1>1, <1>2, <1>3, <1>4, <1>5

\* The end of the script leaves well-typed shell variables.
LEMMA ExitType ==
  \A code \in ExitCodes : Exit(code) => RunOK'
BY DEF Exit, RunOK, Labels

\* A jump of the script keeps the types of the shell variables.
LEMMA GotoType ==
  ASSUME TypeOK
  PROVE  \A label \in Labels : Goto(label) => RunOK'
BY DEF TypeOK, Goto, RunOK

\* So does a configured command, whether it succeeds or fails.
LEMMA CmdType ==
  ASSUME TypeOK
  PROVE  \A label \in Labels :
           /\ CmdSucceeds(label) => RunOK'
           /\ \A step \in Steps : CmdFails(step, label) => RunOK'
BY GotoType DEF TypeOK, CmdSucceeds, CmdFails, RunOK

\* The fault budget is never overdrawn.
LEMMA FaultType ==
  ASSUME TypeOK
  PROVE  Fault \/ UNCHANGED faults => faults' \in 0 .. MaxFaults
BY ConstantsAssumption DEF TypeOK, HistoryOK, Fault

\* Every variable keeps its type in every step, for every length of the history
\* and every number of faults.
LEMMA TypeStep == TypeOK /\ [Next]_vars => TypeOK'
<1> SUFFICES ASSUME TypeOK, [Next]_vars PROVE TypeOK'
  OBVIOUS
<1>1. CASE Push
  <2>1. OutsideOK' BY <1>1, ConstantsAssumption DEF Push, TypeOK, OutsideOK
  <2> QED BY <1>1, <2>1, Frames DEF Push, TypeOK
<1>2. CASE WebhookStarts
  <2>1. OutsideOK' BY <1>2 DEF WebhookStarts, TypeOK, OutsideOK
  <2>2. RunOK' BY <1>2, GotoType, Frames DEF WebhookStarts, StartJob,
          TypeOK, RunOK, Labels, Steps, ExitCodes
  <2> QED BY <1>2, <2>1, <2>2, Frames DEF WebhookStarts, TypeOK
<1>3. CASE TimerFires
  <2>1. RunOK' BY <1>3, GotoType, Frames DEF TimerFires, StartJob, TypeOK,
          RunOK, Labels, Steps, ExitCodes
  <2> QED BY <1>3, <2>1, Frames DEF TimerFires, TypeOK
<1>4. CASE AdminStarts
  <2>1. RunOK' BY <1>4, GotoType, Frames DEF AdminStarts, StartJob, TypeOK,
          RunOK, Labels, Steps, ExitCodes
  <2> QED BY <1>4, <2>1, Frames DEF AdminStarts, TypeOK
<1>5. CASE AdminSetsFlag
  <2>1. DiskOK' BY <1>5, ConstantsAssumption DEF AdminSetsFlag, TypeOK,
          DiskOK, Flags
  <2> QED BY <1>5, <2>1, Frames DEF AdminSetsFlag, TypeOK
<1>6. CASE AdminClearsFlag
  <2>1. DiskOK' BY <1>6 DEF AdminClearsFlag, TypeOK, DiskOK, Flags
  <2> QED BY <1>6, <2>1, Frames DEF AdminClearsFlag, TypeOK
<1>7. CASE PackageNeedsReboot
  <2>1. VolatileOK' BY <1>7 DEF PackageNeedsReboot, TypeOK, VolatileOK
  <2> QED BY <1>7, <2>1, Frames DEF PackageNeedsReboot, TypeOK
<1>8. CASE RefuseFailed
  <2>1. RunOK' BY <1>8, ExitType DEF RefuseFailed, TypeOK, RunOK, Labels,
          Steps, ExitCodes
  <2> QED BY <1>8, <2>1, Frames DEF RefuseFailed, TypeOK
<1>9. CASE CheckFlags
  <2>1. DiskOK' BY <1>9 DEF CheckFlags, TypeOK, DiskOK, Flags
  <2>2. RunOK' BY <1>9, ExitType, GotoType DEF CheckFlags, TypeOK, RunOK,
          Labels, Steps, ExitCodes
  <2> QED BY <1>9, <2>1, <2>2, Frames DEF CheckFlags, TypeOK
<1>10. CASE Pull
  <2>1. DiskOK' BY <1>10 DEF Pull, TypeOK, DiskOK, Flags, OutsideOK
  <2>2. RunOK' BY <1>10 DEF Pull, TypeOK, RunOK, Labels, Steps, ExitCodes,
          DiskOK
  <2> QED BY <1>10, <2>1, <2>2, Frames DEF Pull, TypeOK
<1>11. CASE PullFails
  <2>1. DiskOK' BY <1>11 DEF PullFails, TypeOK, DiskOK, Flags, OutsideOK
  <2>2. RunOK' BY <1>11, ExitType DEF PullFails, TypeOK, RunOK, Labels,
          Steps, ExitCodes
  <2>3. HistoryOK' BY <1>11, FaultType DEF PullFails, GitFails, TypeOK, HistoryOK
  <2> QED BY <1>11, <2>1, <2>2, <2>3, Frames DEF PullFails, TypeOK
<1>12. CASE NothingToDo
  <2>1. RunOK' BY <1>12, GotoType DEF NothingToDo, TypeOK, RunOK, Labels,
          Steps, ExitCodes
  <2> QED BY <1>12, <2>1, Frames DEF NothingToDo, TypeOK
<1>13. CASE BeginUpdate
  <2>1. DiskOK' BY <1>13 DEF BeginUpdate, TypeOK, DiskOK, Flags
  <2>2. RunOK' BY <1>13, GotoType DEF BeginUpdate, TypeOK, RunOK, Labels,
          Steps, ExitCodes
  <2>3. HistoryOK' BY <1>13 DEF BeginUpdate, TypeOK, HistoryOK
  <2> QED BY <1>13, <2>1, <2>2, <2>3, Frames DEF BeginUpdate, TypeOK
<1>14. CASE Validate
  <2>1. RunOK' BY <1>14, CmdType, GotoType DEF Validate, TypeOK, RunOK,
          Labels, Steps, ExitCodes
  <2>2. HistoryOK' BY <1>14, FaultType DEF Validate, CmdSucceeds, CmdFails,
          TypeOK, HistoryOK
  <2> QED BY <1>14, <2>1, <2>2, Frames DEF Validate, TypeOK
<1>15. CASE ShowMaintenance
  <2>1. DiskOK' BY <1>15 DEF ShowMaintenance, TypeOK, DiskOK, Flags
  <2>2. RunOK' BY <1>15 DEF ShowMaintenance, TypeOK, RunOK, Labels, Steps,
          ExitCodes
  <2> QED BY <1>15, <2>1, <2>2, Frames DEF ShowMaintenance, TypeOK
<1>16. CASE RenderFails
  <2>1. DiskOK' BY <1>16 DEF RenderFails, TypeOK, DiskOK, Flags
  <2>2. RunOK' BY <1>16, ExitType DEF RenderFails, TypeOK, RunOK, Labels,
          Steps, ExitCodes
  <2>3. HistoryOK' BY <1>16, FaultType DEF RenderFails, TypeOK, HistoryOK
  <2> QED BY <1>16, <2>1, <2>2, <2>3, Frames DEF RenderFails, TypeOK
<1>17. CASE RunBefore
  <2>1. VolatileOK' BY <1>17 DEF RunBefore, TypeOK, VolatileOK
  <2>2. RunOK' BY <1>17, CmdType, GotoType DEF RunBefore, TypeOK, RunOK,
          Labels, Steps, ExitCodes
  <2>3. HistoryOK' BY <1>17, FaultType DEF RunBefore, CmdSucceeds, CmdFails,
          TypeOK, HistoryOK
  <2> QED BY <1>17, <2>1, <2>2, <2>3, Frames DEF RunBefore, TypeOK
<1>18. CASE UpdateBegins
  <2>1. DiskOK' BY <1>18 DEF UpdateBegins, TypeOK, DiskOK, Flags
  <2>2. RunOK' BY <1>18, GotoType DEF UpdateBegins, TypeOK, RunOK, Labels,
          Steps, ExitCodes
  <2> QED BY <1>18, <2>1, <2>2, Frames DEF UpdateBegins, TypeOK
<1>19. CASE UpdateSucceeds
  <2>1. DiskOK' BY <1>19 DEF UpdateSucceeds, FlagsOf, TypeOK, DiskOK, Flags,
          OutsideOK
  <2>2. RunOK' BY <1>19, CmdType, GotoType DEF UpdateSucceeds, TypeOK,
          RunOK, Labels, Steps, ExitCodes
  <2>3. HistoryOK' BY <1>19 DEF UpdateSucceeds, CmdSucceeds, TypeOK,
          HistoryOK
  <2> QED BY <1>19, <2>1, <2>2, <2>3, Frames DEF UpdateSucceeds, TypeOK
<1>20. CASE UpdateFails
  <2>1. DiskOK' BY <1>20 DEF UpdateFails, FlagsOf, TypeOK, DiskOK, Flags
  <2>2. RunOK' BY <1>20, CmdType DEF UpdateFails, TypeOK, RunOK, Labels,
          Steps, ExitCodes
  <2>3. HistoryOK' BY <1>20, FaultType DEF UpdateFails, CmdFails, TypeOK,
          HistoryOK
  <2> QED BY <1>20, <2>1, <2>2, <2>3, Frames DEF UpdateFails, TypeOK
<1>21. CASE TagFailed
  <2>1. DiskOK' BY <1>21 DEF TagFailed, TypeOK, DiskOK, Flags, OutsideOK
  <2>2. RunOK' BY <1>21, GotoType DEF TagFailed, TypeOK, RunOK, Labels,
          Steps, ExitCodes
  <2> QED BY <1>21, <2>1, <2>2, Frames DEF TagFailed, TypeOK
<1>22. CASE TagCurrent
  <2>1. DiskOK' BY <1>22 DEF TagCurrent, TypeOK, DiskOK, Flags, OutsideOK
  <2>2. RunOK' BY <1>22, GotoType DEF TagCurrent, TypeOK, RunOK, Labels,
          Steps, ExitCodes
  <2>3. HistoryOK' BY <1>22 DEF TagCurrent, TypeOK, HistoryOK
  <2> QED BY <1>22, <2>1, <2>2, <2>3, Frames DEF TagCurrent, TypeOK
<1>23. CASE RunAfter
  <2>1. RunOK' BY <1>23, CmdType, GotoType DEF RunAfter, TypeOK, RunOK,
          Labels, Steps, ExitCodes
  <2>2. HistoryOK' BY <1>23, FaultType DEF RunAfter, CmdSucceeds, CmdFails,
          TypeOK, HistoryOK
  <2> QED BY <1>23, <2>1, <2>2, Frames DEF RunAfter, TypeOK
<1>24. CASE ShowError
  <2>1. DiskOK' BY <1>24 DEF ShowError, TypeOK, DiskOK, Flags
  <2>2. RunOK' BY <1>24, GotoType DEF ShowError, TypeOK, RunOK, Labels,
          Steps, ExitCodes
  <2> QED BY <1>24, <2>1, <2>2, Frames DEF ShowError, TypeOK
<1>25. CASE ReportError
  <2>1. RunOK' BY <1>25, GotoType, ExitType DEF ReportError, TypeOK, RunOK,
          Labels, Steps, ExitCodes
  <2>2. HistoryOK' BY <1>25, FaultType DEF ReportError, SentryDelivers,
          SentryFails, TypeOK, HistoryOK
  <2> QED BY <1>25, <2>1, <2>2, Frames DEF ReportError, TypeOK
<1>26. CASE NoRebootNeeded
  <2>1. RunOK' BY <1>26, GotoType DEF NoRebootNeeded, AfterReboot, TypeOK,
          RunOK, Labels, Steps, ExitCodes
  <2> QED BY <1>26, <2>1, Frames DEF NoRebootNeeded, TypeOK
<1>27. CASE RebootUnattended
  <2>1. VolatileOK' BY <1>27 DEF RebootUnattended, Reboot, TypeOK,
          VolatileOK
  <2>2. RunOK' BY <1>27, ExitType DEF RebootUnattended, Reboot, TypeOK,
          RunOK, Labels, Steps, ExitCodes
  <2> QED BY <1>27, <2>1, <2>2, Frames DEF RebootUnattended, Reboot, TypeOK
<1>28. CASE SetClevisSlot
  <2>1. RunOK' BY <1>28, GotoType, ExitType DEF SetClevisSlot, TypeOK,
          RunOK, Labels, Steps, ExitCodes
  <2>2. HistoryOK' BY <1>28, FaultType DEF SetClevisSlot, SentryDelivers,
          SentryFails, TypeOK, HistoryOK
  <2> QED BY <1>28, <2>1, <2>2, Frames DEF SetClevisSlot, TypeOK
<1>29. CASE RebootByClevis
  <2>1. VolatileOK' BY <1>29 DEF RebootByClevis, Reboot, TypeOK, VolatileOK
  <2>2. RunOK' BY <1>29, ExitType DEF RebootByClevis, Reboot, TypeOK, RunOK,
          Labels, Steps, ExitCodes
  <2> QED BY <1>29, <2>1, <2>2, Frames DEF RebootByClevis, Reboot, TypeOK
<1>30. CASE AskAdmin
  <2>1. RunOK' BY <1>30, GotoType, ExitType DEF AskAdmin, AfterReboot,
          TypeOK, RunOK, Labels, Steps, ExitCodes
  <2>2. HistoryOK' BY <1>30, FaultType DEF AskAdmin, SentryDelivers,
          SentryFails, TypeOK, HistoryOK
  <2> QED BY <1>30, <2>1, <2>2, Frames DEF AskAdmin, TypeOK
<1>31. CASE RunFinish
  <2>1. VolatileOK' BY <1>31 DEF RunFinish, TypeOK, VolatileOK
  <2>2. RunOK' BY <1>31, CmdType, GotoType DEF RunFinish, TypeOK, RunOK,
          Labels, Steps, ExitCodes
  <2>3. HistoryOK' BY <1>31, FaultType DEF RunFinish, CmdSucceeds, CmdFails,
          TypeOK, HistoryOK
  <2> QED BY <1>31, <2>1, <2>2, <2>3, Frames DEF RunFinish, TypeOK
<1>32. CASE ClearPage
  <2>1. DiskOK' BY <1>32 DEF ClearPage, TypeOK, DiskOK, Flags
  <2>2. RunOK' BY <1>32, GotoType DEF ClearPage, TypeOK, RunOK, Labels,
          Steps, ExitCodes
  <2> QED BY <1>32, <2>1, <2>2, Frames DEF ClearPage, TypeOK
<1>33. CASE ReportReady
  <2>1. RunOK' BY <1>33, GotoType, ExitType DEF ReportReady, TypeOK, RunOK,
          Labels, Steps, ExitCodes
  <2>2. HistoryOK' BY <1>33, FaultType DEF ReportReady, SentryDelivers,
          SentryFails, TypeOK, HistoryOK
  <2> QED BY <1>33, <2>1, <2>2, Frames DEF ReportReady, TypeOK
<1>34. CASE ExitResult
  <2>1. RunOK' BY <1>34, ExitType DEF ExitResult, TypeOK, RunOK, Labels,
          Steps, ExitCodes
  <2> QED BY <1>34, <2>1, Frames DEF ExitResult, TypeOK
<1>35. CASE Kill
  <2>1. DiskOK' BY <1>35 DEF Kill, TornWrites, FlagsOf, TypeOK, DiskOK, Flags
  <2>2. VolatileOK' BY <1>35 DEF Kill, TypeOK, VolatileOK
  <2>3. RunOK' BY <1>35, ExitType DEF Kill, TypeOK, RunOK, Labels, Steps,
          ExitCodes
  <2>4. HistoryOK' BY <1>35, FaultType DEF Kill, TypeOK, HistoryOK
  <2> QED BY <1>35, <2>1, <2>2, <2>3, <2>4, Frames DEF Kill, TypeOK
<1>36. CASE Boot
  <2>1. VolatileOK' BY <1>36 DEF Boot, BootState, TypeOK, VolatileOK
  <2> QED BY <1>36, <2>1, Frames DEF Boot, TypeOK
<1>37. CASE Crash
  <2>1. DiskOK' BY <1>37 DEF Crash, TornWrites, FlagsOf, TypeOK, DiskOK, Flags
  <2>2. VolatileOK' BY <1>37 DEF Crash, BootState, TypeOK, VolatileOK
  <2>3. RunOK' BY <1>37, ExitType DEF Crash, TypeOK, RunOK, Labels, Steps,
          ExitCodes
  <2>4. HistoryOK' BY <1>37, FaultType DEF Crash, TypeOK, HistoryOK
  <2> QED BY <1>37, <2>1, <2>2, <2>3, <2>4, Frames DEF Crash, TypeOK
<1>38. CASE UNCHANGED vars
  BY <1>38, Frames DEF vars, TypeOK
<1> QED
  BY <1>1, <1>2, <1>3, <1>4, <1>5, <1>6, <1>7, <1>8, <1>9, <1>10, <1>11,
     <1>12, <1>13, <1>14, <1>15, <1>16, <1>17, <1>18, <1>19, <1>20, <1>21,
     <1>22, <1>23, <1>24, <1>25, <1>26, <1>27, <1>28, <1>29, <1>30, <1>31,
     <1>32, <1>33, <1>34, <1>35, <1>36, <1>37, <1>38
  DEF Next, Environment, Script, Decision, Update, Completion

\* The bootstrapped machine is well typed.
LEMMA TypeInit == Init => TypeOK
<1> SUFFICES ASSUME Init PROVE TypeOK
  OBVIOUS
<1>1. remote \in Revisions /\ head \in Revisions /\ applied \in Revisions
  BY ConstantsAssumption DEF Init, Revisions
<1>2. OutsideOK
  BY <1>1 DEF Init, OutsideOK
<1>3. DiskOK
  BY <1>1 DEF Init, DiskOK, Flags
<1>4. VolatileOK
  BY DEF Init, VolatileOK
<1>5. RunOK
  <2>1. pc \in Labels /\ origin = NoTag /\ result = "ok" /\ exitCode \in ExitCodes
    BY DEF Init, Labels, ExitCodes
  <2>2. restart \in BOOLEAN
    BY DEF Init
  <2> QED
    BY <2>1, <2>2 DEF RunOK
<1>6. HistoryOK
  <2>1. redo \in BOOLEAN
    BY DEF Init
  <2>2. faults \in 0 .. MaxFaults
    BY ConstantsAssumption DEF Init
  <2> QED
    BY <2>1, <2>2 DEF HistoryOK
<1> QED
  BY <1>2, <1>3, <1>4, <1>5, <1>6 DEF TypeOK

\* TypeOK holds in every behavior of the update system.
THEOREM TypeCorrect == Spec => []TypeOK
<1> QED
  BY TypeInit, TypeStep, PTL DEF Spec

-----------------------------------------------------------------------------
(* The machine behind the maintenance page *)

\* What is known of $result and need_service_restart at each line.
LEMMA ResultStep == ResultInv /\ [Next]_vars => ResultInv'
<1> SUFFICES ASSUME ResultInv, [Next]_vars PROVE ResultInv'
  OBVIOUS
<1> USE DEF ResultInv, Fresh, Guarded
<1>1. CASE Push
  BY <1>1 DEF Push, outside, disk, volatile, run
<1>2. CASE WebhookStarts
  BY <1>2 DEF WebhookStarts, StartJob, Goto, outside, disk, volatile, run
<1>3. CASE TimerFires
  BY <1>3 DEF TimerFires, StartJob, Goto, outside, disk, volatile, run
<1>4. CASE AdminStarts
  BY <1>4 DEF AdminStarts, StartJob, Goto, outside, disk, volatile, run
<1>5. CASE AdminSetsFlag
  BY <1>5 DEF AdminSetsFlag, outside, disk, volatile, run
<1>6. CASE AdminClearsFlag
  BY <1>6 DEF AdminClearsFlag, outside, disk, volatile, run
<1>7. CASE PackageNeedsReboot
  BY <1>7 DEF PackageNeedsReboot, outside, disk, volatile, run
<1>8. CASE RefuseFailed
  BY <1>8 DEF RefuseFailed, Exit, outside, disk, volatile, run
<1>9. CASE CheckFlags
  BY <1>9 DEF CheckFlags, Exit, Goto, outside, disk, volatile, run
<1>10. CASE Pull
  BY <1>10 DEF Pull, outside, disk, volatile, run
<1>11. CASE PullFails
  BY <1>11 DEF PullFails, GitFails, Exit, Fault, outside, disk, volatile, run
<1>12. CASE NothingToDo
  BY <1>12 DEF NothingToDo, Goto, outside, disk, volatile, run
<1>13. CASE BeginUpdate
  BY <1>13 DEF BeginUpdate, Goto, outside, disk, volatile, run
<1>14. CASE Validate
  BY <1>14 DEF Validate, CmdSucceeds, CmdFails, Goto, Fault, outside, disk,
     volatile, run
<1>15. CASE ShowMaintenance
  BY <1>15 DEF ShowMaintenance, outside, disk, volatile, run
<1>16. CASE RenderFails
  BY <1>16 DEF RenderFails, Exit, Fault, outside, disk, volatile, run
<1>17. CASE RunBefore
  BY <1>17 DEF RunBefore, CmdSucceeds, CmdFails, Goto, Fault, outside, disk,
     volatile, run
<1>18. CASE UpdateBegins
  BY <1>18 DEF UpdateBegins, Goto, outside, disk, volatile, run
<1>19. CASE UpdateSucceeds
  BY <1>19 DEF UpdateSucceeds, CmdSucceeds, Goto, FlagsOf, outside, disk,
     volatile, run
<1>20. CASE UpdateFails
  BY <1>20 DEF UpdateFails, CmdFails, Fault, FlagsOf, outside, disk, volatile,
     run
<1>21. CASE TagFailed
  BY <1>21 DEF TagFailed, Goto, outside, disk, volatile, run
<1>22. CASE TagCurrent
  BY <1>22 DEF TagCurrent, Goto, outside, disk, volatile, run
<1>23. CASE RunAfter
  BY <1>23 DEF RunAfter, CmdSucceeds, CmdFails, Goto, Fault, outside, disk,
     volatile, run
<1>24. CASE ShowError
  BY <1>24 DEF ShowError, Goto, outside, disk, volatile, run
<1>25. CASE ReportError
  BY <1>25 DEF ReportError, SentryDelivers, SentryFails, Goto, Exit, Fault,
     outside, disk, volatile, run
<1>26. CASE NoRebootNeeded
  BY <1>26 DEF NoRebootNeeded, AfterReboot, Goto, outside, disk, volatile, run
<1>27. CASE RebootUnattended
  BY <1>27 DEF RebootUnattended, Reboot, Exit, outside, disk, volatile, run
<1>28. CASE SetClevisSlot
  BY <1>28 DEF SetClevisSlot, SentryDelivers, SentryFails, Goto, Exit, Fault,
     outside, disk, volatile, run
<1>29. CASE RebootByClevis
  BY <1>29 DEF RebootByClevis, Reboot, Exit, outside, disk, volatile, run
<1>30. CASE AskAdmin
  BY <1>30 DEF AskAdmin, AfterReboot, SentryDelivers, SentryFails, Goto, Exit,
     Fault, outside, disk, volatile, run
<1>31. CASE RunFinish
  BY <1>31 DEF RunFinish, CmdSucceeds, CmdFails, Goto, Fault, outside, disk,
     volatile, run
<1>32. CASE ClearPage
  BY <1>32 DEF ClearPage, Goto, outside, disk, volatile, run
<1>33. CASE ReportReady
  BY <1>33 DEF ReportReady, SentryDelivers, SentryFails, Goto, Exit, Fault,
     outside, disk, volatile, run
<1>34. CASE ExitResult
  BY <1>34 DEF ExitResult, Exit, outside, disk, volatile, run
<1>35. CASE Kill
  BY <1>35 DEF Kill, Exit, Fault, TornWrites, FlagsOf, outside, disk, volatile,
     run
<1>36. CASE Boot
  BY <1>36 DEF Boot, BootState, outside, disk, volatile, run
<1>37. CASE Crash
  BY <1>37 DEF Crash, Exit, Fault, TornWrites, FlagsOf, BootState, outside,
     disk, volatile, run
<1>38. CASE UNCHANGED vars
  BY <1>38 DEF vars, outside, disk, volatile, run
<1> QED
  BY <1>1, <1>2, <1>3, <1>4, <1>5, <1>6, <1>7, <1>8, <1>9, <1>10, <1>11,
     <1>12, <1>13, <1>14, <1>15, <1>16, <1>17, <1>18, <1>19, <1>20, <1>21,
     <1>22, <1>23, <1>24, <1>25, <1>26, <1>27, <1>28, <1>29, <1>30, <1>31,
     <1>32, <1>33, <1>34, <1>35, <1>36, <1>37, <1>38
  DEF Next, Environment, Script, Decision, Update, Completion

\* What is known of the machine while the page is up, and when it is not.
LEMMA PageStep == TypeOK /\ ResultInv /\ PageInv /\ [Next]_vars => PageInv'
<1> SUFFICES ASSUME TypeOK, ResultInv, PageInv, [Next]_vars PROVE PageInv'
  OBVIOUS
<1> USE DEF PageInv, ResultInv, Fresh, Guarded, Done
<1>1. CASE Push
  BY <1>1 DEF Push, outside, disk, volatile, run
<1>2. CASE WebhookStarts
  BY <1>2 DEF WebhookStarts, StartJob, Goto, outside, disk, volatile, run
<1>3. CASE TimerFires
  BY <1>3 DEF TimerFires, StartJob, Goto, outside, disk, volatile, run
<1>4. CASE AdminStarts
  BY <1>4 DEF AdminStarts, StartJob, Goto, outside, disk, volatile, run
<1>5. CASE AdminSetsFlag
  BY <1>5 DEF AdminSetsFlag, outside, disk, volatile, run
<1>6. CASE AdminClearsFlag
  BY <1>6 DEF AdminClearsFlag, outside, disk, volatile, run
<1>7. CASE PackageNeedsReboot
  BY <1>7 DEF PackageNeedsReboot, outside, disk, volatile, run
<1>8. CASE RefuseFailed
  BY <1>8 DEF RefuseFailed, Exit, outside, disk, volatile, run
<1>9. CASE CheckFlags
  BY <1>9 DEF CheckFlags, Exit, Goto, outside, disk, volatile, run
<1>10. CASE Pull
  BY <1>10 DEF Pull, outside, disk, volatile, run
<1>11. CASE PullFails
  BY <1>11 DEF PullFails, GitFails, Exit, Fault, outside, disk, volatile, run
<1>12. CASE NothingToDo
  BY <1>12 DEF NothingToDo, Goto, outside, disk, volatile, run
<1>13. CASE BeginUpdate
  BY <1>13 DEF BeginUpdate, Goto, outside, disk, volatile, run
<1>14. CASE Validate
  BY <1>14 DEF Validate, CmdSucceeds, CmdFails, Goto, Fault, outside, disk,
     volatile, run
<1>15. CASE ShowMaintenance
  BY <1>15 DEF ShowMaintenance, outside, disk, volatile, run
<1>16. CASE RenderFails
  BY <1>16 DEF RenderFails, Exit, Fault, outside, disk, volatile, run
<1>17. CASE RunBefore
  BY <1>17 DEF RunBefore, CmdSucceeds, CmdFails, Goto, Fault, outside, disk,
     volatile, run
<1>18. CASE UpdateBegins
  BY <1>18 DEF UpdateBegins, Goto, outside, disk, volatile, run
<1>19. CASE UpdateSucceeds
  BY <1>19 DEF UpdateSucceeds, CmdSucceeds, Goto, FlagsOf, outside, disk,
     volatile, run
<1>20. CASE UpdateFails
  BY <1>20 DEF UpdateFails, CmdFails, Fault, FlagsOf, outside, disk, volatile,
     run
<1>21. CASE TagFailed
  BY <1>21 DEF TagFailed, Goto, outside, disk, volatile, run
<1>22. CASE TagCurrent
  BY <1>22 DEF TagCurrent, Goto, outside, disk, volatile, run
<1>23. CASE RunAfter
  BY <1>23 DEF RunAfter, CmdSucceeds, CmdFails, Goto, Fault, outside, disk,
     volatile, run
<1>24. CASE ShowError
  BY <1>24 DEF ShowError, Goto, outside, disk, volatile, run
<1>25. CASE ReportError
  BY <1>25 DEF ReportError, SentryDelivers, SentryFails, Goto, Exit, Fault,
     outside, disk, volatile, run
<1>26. CASE NoRebootNeeded
  BY <1>26 DEF NoRebootNeeded, AfterReboot, Goto, outside, disk, volatile, run
<1>27. CASE RebootUnattended
  BY <1>27 DEF RebootUnattended, Reboot, Exit, outside, disk, volatile, run
<1>28. CASE SetClevisSlot
  BY <1>28 DEF SetClevisSlot, SentryDelivers, SentryFails, Goto, Exit, Fault,
     outside, disk, volatile, run
<1>29. CASE RebootByClevis
  BY <1>29 DEF RebootByClevis, Reboot, Exit, outside, disk, volatile, run
<1>30. CASE AskAdmin
  BY <1>30 DEF AskAdmin, AfterReboot, SentryDelivers, SentryFails, Goto, Exit,
     Fault, outside, disk, volatile, run
<1>31. CASE RunFinish
  BY <1>31 DEF RunFinish, CmdSucceeds, CmdFails, Goto, Fault, outside, disk,
     volatile, run
<1>32. CASE ClearPage
  <2>1. applied # Partial
    BY <1>32, ConstantsAssumption
    DEF ClearPage, TypeOK, DiskOK, Revisions, Partial
  <2> QED
    BY <1>32, <2>1 DEF ClearPage, Goto, volatile
<1>33. CASE ReportReady
  BY <1>33 DEF ReportReady, SentryDelivers, SentryFails, Goto, Exit, Fault,
     outside, disk, volatile, run
<1>34. CASE ExitResult
  BY <1>34 DEF ExitResult, Exit, outside, disk, volatile, run
<1>35. CASE Kill
  BY <1>35 DEF Kill, Exit, Fault, TornWrites, FlagsOf, outside, disk, volatile,
     run
<1>36. CASE Boot
  BY <1>36 DEF Boot, BootState, outside, disk, volatile, run
<1>37. CASE Crash
  BY <1>37 DEF Crash, Exit, Fault, TornWrites, FlagsOf, BootState, outside,
     disk, volatile, run
<1>38. CASE UNCHANGED vars
  BY <1>38 DEF vars, outside, disk, volatile, run
<1> QED
  BY <1>1, <1>2, <1>3, <1>4, <1>5, <1>6, <1>7, <1>8, <1>9, <1>10, <1>11,
     <1>12, <1>13, <1>14, <1>15, <1>16, <1>17, <1>18, <1>19, <1>20, <1>21,
     <1>22, <1>23, <1>24, <1>25, <1>26, <1>27, <1>28, <1>29, <1>30, <1>31,
     <1>32, <1>33, <1>34, <1>35, <1>36, <1>37, <1>38
  DEF Next, Environment, Script, Decision, Update, Completion

\* The three invariants together are inductive.
LEMMA IInvHolds == Spec => []IInv
<1>1. Init => IInv
  <2> SUFFICES ASSUME Init PROVE IInv
    OBVIOUS
  <2>1. TypeOK
    BY TypeInit
  <2>2. ResultInv
    BY DEF Init, ResultInv, Fresh, Guarded
  <2>3. PageInv
    BY DEF Init, PageInv, Guarded, Done, Partial
  <2> QED
    BY <2>1, <2>2, <2>3 DEF IInv
<1>2. IInv /\ [Next]_vars => IInv'
  BY TypeStep, ResultStep, PageStep DEF IInv
<1> QED
  BY <1>1, <1>2, PTL DEF Spec

\* The application is only served by a machine that is completely configured by
\* one revision and runs its services, after any number of failures and crashes.
THEOREM ServedIsComplete == Spec => []ServedSystemIsComplete
<1>1. IInv => ServedSystemIsComplete
  BY DEF IInv, PageInv, ServedSystemIsComplete
<1> QED
  BY <1>1, IInvHolds, PTL

\* A failed step stops the later steps of its run.
THEOREM FailureStops == Spec => []FailureStopsLaterSteps
<1>1. IInv => FailureStopsLaterSteps
  BY DEF IInv, ResultInv, Fresh, Guarded, FailureStopsLaterSteps
<1> QED
  BY <1>1, IInvHolds, PTL

-----------------------------------------------------------------------------
(* Failures are shown, reboots are permitted *)

\* From the error page on, nothing replaces it before the run is over.
LEMMA ShownStep == ResultInv /\ ShownInv /\ [Next]_vars => ShownInv'
<1> SUFFICES ASSUME ResultInv, ShownInv, [Next]_vars PROVE ShownInv'
  OBVIOUS
<1> USE DEF ShownInv, ResultInv, FailureIsShown, Fresh, Guarded
<1>1. CASE Push
  BY <1>1 DEF Push, outside, disk, volatile, run
<1>2. CASE WebhookStarts
  BY <1>2 DEF WebhookStarts, StartJob, Goto, outside, disk, volatile, run
<1>3. CASE TimerFires
  BY <1>3 DEF TimerFires, StartJob, Goto, outside, disk, volatile, run
<1>4. CASE AdminStarts
  BY <1>4 DEF AdminStarts, StartJob, Goto, outside, disk, volatile, run
<1>5. CASE AdminSetsFlag
  BY <1>5 DEF AdminSetsFlag, outside, disk, volatile, run
<1>6. CASE AdminClearsFlag
  BY <1>6 DEF AdminClearsFlag, outside, disk, volatile, run
<1>7. CASE PackageNeedsReboot
  BY <1>7 DEF PackageNeedsReboot, outside, disk, volatile, run
<1>8. CASE RefuseFailed
  BY <1>8 DEF RefuseFailed, Exit, outside, disk, volatile, run
<1>9. CASE CheckFlags
  BY <1>9 DEF CheckFlags, Exit, Goto, outside, disk, volatile, run
<1>10. CASE Pull
  BY <1>10 DEF Pull, outside, disk, volatile, run
<1>11. CASE PullFails
  BY <1>11 DEF PullFails, GitFails, Exit, Fault, outside, disk, volatile, run
<1>12. CASE NothingToDo
  BY <1>12 DEF NothingToDo, Goto, outside, disk, volatile, run
<1>13. CASE BeginUpdate
  BY <1>13 DEF BeginUpdate, Goto, outside, disk, volatile, run
<1>14. CASE Validate
  BY <1>14 DEF Validate, CmdSucceeds, CmdFails, Goto, Fault, outside, disk,
     volatile, run
<1>15. CASE ShowMaintenance
  BY <1>15 DEF ShowMaintenance, outside, disk, volatile, run
<1>16. CASE RenderFails
  BY <1>16 DEF RenderFails, Exit, Fault, outside, disk, volatile, run
<1>17. CASE RunBefore
  BY <1>17 DEF RunBefore, CmdSucceeds, CmdFails, Goto, Fault, outside, disk,
     volatile, run
<1>18. CASE UpdateBegins
  BY <1>18 DEF UpdateBegins, Goto, outside, disk, volatile, run
<1>19. CASE UpdateSucceeds
  BY <1>19 DEF UpdateSucceeds, CmdSucceeds, Goto, FlagsOf, outside, disk,
     volatile, run
<1>20. CASE UpdateFails
  BY <1>20 DEF UpdateFails, CmdFails, Fault, FlagsOf, outside, disk, volatile,
     run
<1>21. CASE TagFailed
  BY <1>21 DEF TagFailed, Goto, outside, disk, volatile, run
<1>22. CASE TagCurrent
  BY <1>22 DEF TagCurrent, Goto, outside, disk, volatile, run
<1>23. CASE RunAfter
  BY <1>23 DEF RunAfter, CmdSucceeds, CmdFails, Goto, Fault, outside, disk,
     volatile, run
<1>24. CASE ShowError
  BY <1>24 DEF ShowError, Goto, outside, disk, volatile, run
<1>25. CASE ReportError
  BY <1>25 DEF ReportError, SentryDelivers, SentryFails, Goto, Exit, Fault,
     outside, disk, volatile, run
<1>26. CASE NoRebootNeeded
  BY <1>26 DEF NoRebootNeeded, AfterReboot, Goto, outside, disk, volatile, run
<1>27. CASE RebootUnattended
  BY <1>27 DEF RebootUnattended, Reboot, Exit, outside, disk, volatile, run
<1>28. CASE SetClevisSlot
  BY <1>28 DEF SetClevisSlot, SentryDelivers, SentryFails, Goto, Exit, Fault,
     outside, disk, volatile, run
<1>29. CASE RebootByClevis
  BY <1>29 DEF RebootByClevis, Reboot, Exit, outside, disk, volatile, run
<1>30. CASE AskAdmin
  BY <1>30 DEF AskAdmin, AfterReboot, SentryDelivers, SentryFails, Goto, Exit,
     Fault, outside, disk, volatile, run
<1>31. CASE RunFinish
  BY <1>31 DEF RunFinish, CmdSucceeds, CmdFails, Goto, Fault, outside, disk,
     volatile, run
<1>32. CASE ClearPage
  BY <1>32 DEF ClearPage, Goto, outside, disk, volatile, run
<1>33. CASE ReportReady
  BY <1>33 DEF ReportReady, SentryDelivers, SentryFails, Goto, Exit, Fault,
     outside, disk, volatile, run
<1>34. CASE ExitResult
  BY <1>34 DEF ExitResult, Exit, outside, disk, volatile, run
<1>35. CASE Kill
  BY <1>35 DEF Kill, Exit, Fault, TornWrites, FlagsOf, outside, disk, volatile,
     run
<1>36. CASE Boot
  BY <1>36 DEF Boot, BootState, outside, disk, volatile, run
<1>37. CASE Crash
  BY <1>37 DEF Crash, Exit, Fault, TornWrites, FlagsOf, BootState, outside,
     disk, volatile, run
<1>38. CASE UNCHANGED vars
  BY <1>38 DEF vars, outside, disk, volatile, run
<1> QED
  BY <1>1, <1>2, <1>3, <1>4, <1>5, <1>6, <1>7, <1>8, <1>9, <1>10, <1>11,
     <1>12, <1>13, <1>14, <1>15, <1>16, <1>17, <1>18, <1>19, <1>20, <1>21,
     <1>22, <1>23, <1>24, <1>25, <1>26, <1>27, <1>28, <1>29, <1>30, <1>31,
     <1>32, <1>33, <1>34, <1>35, <1>36, <1>37, <1>38
  DEF Next, Environment, Script, Decision, Update, Completion

\* A run that ended with a failed step leaves the error page behind.
THEOREM FailureShown == Spec => []FailureIsShown
<1>1. Init => ShownInv
  BY DEF Init, ShownInv, FailureIsShown
<1>2. IInv /\ ShownInv /\ [Next]_vars => ShownInv'
  BY ShownStep DEF IInv
<1>3. ShownInv => FailureIsShown
  BY DEF ShownInv
<1> QED
  BY <1>1, <1>2, <1>3, IInvHolds, PTL DEF Spec

\* The flag follows the applied revision through every step.
LEMMA FlagStep == PageInv /\ FlagInv /\ [Next]_vars => FlagInv'
<1> SUFFICES ASSUME PageInv, FlagInv, [Next]_vars PROVE FlagInv'
  OBVIOUS
<1> USE DEF FlagInv
<1>1. CASE Push
  BY <1>1 DEF Push, outside, disk, volatile, run
<1>2. CASE WebhookStarts
  BY <1>2 DEF WebhookStarts, StartJob, Goto, outside, disk, volatile, run
<1>3. CASE TimerFires
  BY <1>3 DEF TimerFires, StartJob, Goto, outside, disk, volatile, run
<1>4. CASE AdminStarts
  BY <1>4 DEF AdminStarts, StartJob, Goto, outside, disk, volatile, run
<1>5. CASE AdminSetsFlag
  BY <1>5 DEF AdminSetsFlag, outside, disk, volatile, run
<1>6. CASE AdminClearsFlag
  BY <1>6, ConstantsAssumption DEF AdminClearsFlag, outside, disk, volatile, run
<1>7. CASE PackageNeedsReboot
  BY <1>7 DEF PackageNeedsReboot, outside, disk, volatile, run
<1>8. CASE RefuseFailed
  BY <1>8 DEF RefuseFailed, Exit, outside, disk, volatile, run
<1>9. CASE CheckFlags
  BY <1>9 DEF CheckFlags, Exit, Goto, outside, disk, volatile, run
<1>10. CASE Pull
  BY <1>10 DEF Pull, outside, disk, volatile, run
<1>11. CASE PullFails
  BY <1>11 DEF PullFails, GitFails, Exit, Fault, outside, disk, volatile, run
<1>12. CASE NothingToDo
  BY <1>12 DEF NothingToDo, Goto, outside, disk, volatile, run
<1>13. CASE BeginUpdate
  BY <1>13 DEF BeginUpdate, Goto, outside, disk, volatile, run
<1>14. CASE Validate
  BY <1>14 DEF Validate, CmdSucceeds, CmdFails, Goto, Fault, outside, disk,
     volatile, run
<1>15. CASE ShowMaintenance
  BY <1>15 DEF ShowMaintenance, outside, disk, volatile, run
<1>16. CASE RenderFails
  BY <1>16 DEF RenderFails, Exit, Fault, outside, disk, volatile, run
<1>17. CASE RunBefore
  BY <1>17 DEF RunBefore, CmdSucceeds, CmdFails, Goto, Fault, outside, disk,
     volatile, run
<1>18. CASE UpdateBegins
  BY <1>18, ConstantsAssumption
  DEF UpdateBegins, Goto, Partial, outside, disk, volatile, run
<1>19. CASE UpdateSucceeds
  BY <1>19 DEF UpdateSucceeds, CmdSucceeds, Goto, FlagsOf, outside, disk,
     volatile, run
<1>20. CASE UpdateFails
  BY <1>20, ConstantsAssumption
  DEF UpdateFails, PageInv, CmdFails, Fault, FlagsOf, Partial, outside, disk,
      volatile, run
<1>21. CASE TagFailed
  BY <1>21 DEF TagFailed, Goto, outside, disk, volatile, run
<1>22. CASE TagCurrent
  BY <1>22 DEF TagCurrent, Goto, outside, disk, volatile, run
<1>23. CASE RunAfter
  BY <1>23 DEF RunAfter, CmdSucceeds, CmdFails, Goto, Fault, outside, disk,
     volatile, run
<1>24. CASE ShowError
  BY <1>24 DEF ShowError, Goto, outside, disk, volatile, run
<1>25. CASE ReportError
  BY <1>25 DEF ReportError, SentryDelivers, SentryFails, Goto, Exit, Fault,
     outside, disk, volatile, run
<1>26. CASE NoRebootNeeded
  BY <1>26 DEF NoRebootNeeded, AfterReboot, Goto, outside, disk, volatile, run
<1>27. CASE RebootUnattended
  BY <1>27 DEF RebootUnattended, Reboot, Exit, outside, disk, volatile, run
<1>28. CASE SetClevisSlot
  BY <1>28 DEF SetClevisSlot, SentryDelivers, SentryFails, Goto, Exit, Fault,
     outside, disk, volatile, run
<1>29. CASE RebootByClevis
  BY <1>29 DEF RebootByClevis, Reboot, Exit, outside, disk, volatile, run
<1>30. CASE AskAdmin
  BY <1>30 DEF AskAdmin, AfterReboot, SentryDelivers, SentryFails, Goto, Exit,
     Fault, outside, disk, volatile, run
<1>31. CASE RunFinish
  BY <1>31 DEF RunFinish, CmdSucceeds, CmdFails, Goto, Fault, outside, disk,
     volatile, run
<1>32. CASE ClearPage
  BY <1>32 DEF ClearPage, Goto, outside, disk, volatile, run
<1>33. CASE ReportReady
  BY <1>33 DEF ReportReady, SentryDelivers, SentryFails, Goto, Exit, Fault,
     outside, disk, volatile, run
<1>34. CASE ExitResult
  BY <1>34 DEF ExitResult, Exit, outside, disk, volatile, run
<1>35. CASE Kill
  BY <1>35, ConstantsAssumption
  DEF Kill, PageInv, Partial, Exit, Fault, TornWrites, FlagsOf, outside, disk, volatile,
     run
<1>36. CASE Boot
  BY <1>36 DEF Boot, BootState, outside, disk, volatile, run
<1>37. CASE Crash
  BY <1>37, ConstantsAssumption
  DEF Crash, PageInv, Partial, Exit, Fault, TornWrites, FlagsOf, BootState, outside,
     disk, volatile, run
<1>38. CASE UNCHANGED vars
  BY <1>38 DEF vars, outside, disk, volatile, run
<1> QED
  BY <1>1, <1>2, <1>3, <1>4, <1>5, <1>6, <1>7, <1>8, <1>9, <1>10, <1>11,
     <1>12, <1>13, <1>14, <1>15, <1>16, <1>17, <1>18, <1>19, <1>20, <1>21,
     <1>22, <1>23, <1>24, <1>25, <1>26, <1>27, <1>28, <1>29, <1>30, <1>31,
     <1>32, <1>33, <1>34, <1>35, <1>36, <1>37, <1>38
  DEF Next, Environment, Script, Decision, Update, Completion

\* The machine reboots on its own only as the applied revision allows it.
THEOREM RebootAllowed == Spec => UnattendedRebootIsAllowed
<1>1. Init => FlagInv
  BY ConstantsAssumption DEF Init, FlagInv
<1>2. IInv /\ FlagInv /\ [Next]_vars => FlagInv'
  BY FlagStep DEF IInv
<1>3. FlagInv /\ [Next]_vars =>
        [~rebooting /\ rebooting' =>
           \/ applied \notin AttendedRevs
           \/ pc = "slot"]_vars
  <2> SUFFICES ASSUME FlagInv, Next, ~rebooting, rebooting'
               PROVE  applied \notin AttendedRevs \/ pc = "slot"
    OBVIOUS
  <2>1. RebootUnattended \/ RebootByClevis
    BY DEF Next, Environment, Script, Decision, Update, Completion,
           volatile, AdminClearsFlag, AdminSetsFlag, AdminStarts,
           AfterReboot, AskAdmin, BeginUpdate, Boot, BootState, CheckFlags,
           ClearPage, CmdFails, CmdSucceeds, Crash, Exit, ExitResult, Fault,
           FlagsOf, Goto, Kill, NoRebootNeeded, NothingToDo,
           PackageNeedsReboot, Pull, PullFails, Push, RefuseFailed,
           RenderFails, ReportError, ReportReady, RunAfter, RunBefore,
           RunFinish, SentryDelivers, SentryFails, SetClevisSlot, ShowError,
           ShowMaintenance, StartJob, TagCurrent, TagFailed, TimerFires,
           TornWrites, UpdateBegins, UpdateFails, UpdateSucceeds, Validate,
           WebhookStarts
  <2> QED
    BY <2>1 DEF FlagInv, RebootUnattended, RebootByClevis
<1> QED
  BY <1>1, <1>2, <1>3, IInvHolds, PTL DEF Spec, UnattendedRebootIsAllowed

-----------------------------------------------------------------------------
(* Tags and pending work, when the branch only moves forward *)

\* The tags stay behind the checkout, and work that is not done stays visible.
LEMMA TagStep ==
  ASSUME Rewinds = FALSE, TypeOK, PageInv, TagInv, [Next]_vars
  PROVE  TagInv'
<1> USE DEF TagInv, HistoryOrder, Pending
<1>1. CASE Push
  BY <1>1, ConstantsAssumption DEF Push, TypeOK, OutsideOK, DiskOK, Revisions,
     NoTag, BlankTag, Partial, PageInv, outside, disk, volatile, run
<1>2. CASE WebhookStarts
  BY <1>2 DEF WebhookStarts, StartJob, Goto, outside, disk, volatile, run
<1>3. CASE TimerFires
  BY <1>3 DEF TimerFires, StartJob, Goto, outside, disk, volatile, run
<1>4. CASE AdminStarts
  BY <1>4 DEF AdminStarts, StartJob, Goto, outside, disk, volatile, run
<1>5. CASE AdminSetsFlag
  BY <1>5 DEF AdminSetsFlag, outside, disk, volatile, run
<1>6. CASE AdminClearsFlag
  BY <1>6 DEF AdminClearsFlag, outside, disk, volatile, run
<1>7. CASE PackageNeedsReboot
  BY <1>7 DEF PackageNeedsReboot, outside, disk, volatile, run
<1>8. CASE RefuseFailed
  BY <1>8 DEF RefuseFailed, Exit, outside, disk, volatile, run
<1>9. CASE CheckFlags
  BY <1>9 DEF CheckFlags, Exit, Goto, outside, disk, volatile, run
<1>10. CASE Pull
  BY <1>10, ConstantsAssumption DEF Pull, TypeOK, OutsideOK, DiskOK,
     Revisions, NoTag, BlankTag, Partial, PageInv, outside, disk, volatile,
     run
<1>11. CASE PullFails
  BY <1>11, ConstantsAssumption DEF PullFails, GitFails, Exit, Fault, TypeOK,
     OutsideOK, DiskOK, Revisions, NoTag, BlankTag, Partial, PageInv, outside, disk,
     volatile, run
<1>12. CASE NothingToDo
  BY <1>12 DEF NothingToDo, Goto, outside, disk, volatile, run
<1>13. CASE BeginUpdate
  BY <1>13 DEF BeginUpdate, Goto, outside, disk, volatile, run
<1>14. CASE Validate
  BY <1>14 DEF Validate, CmdSucceeds, CmdFails, Goto, Fault, outside, disk,
     volatile, run
<1>15. CASE ShowMaintenance
  BY <1>15 DEF ShowMaintenance, outside, disk, volatile, run
<1>16. CASE RenderFails
  BY <1>16 DEF RenderFails, Exit, Fault, outside, disk, volatile, run
<1>17. CASE RunBefore
  BY <1>17 DEF RunBefore, CmdSucceeds, CmdFails, Goto, Fault, outside, disk,
     volatile, run
<1>18. CASE UpdateBegins
  BY <1>18, ConstantsAssumption DEF UpdateBegins, Goto, TypeOK, OutsideOK,
     DiskOK, Revisions, NoTag, BlankTag, Partial, PageInv, outside, disk,
     volatile, run
<1>19. CASE UpdateSucceeds
  BY <1>19, ConstantsAssumption DEF UpdateSucceeds, CmdSucceeds, Goto,
     FlagsOf, TypeOK, OutsideOK, DiskOK, Revisions, NoTag, BlankTag, Partial,
     PageInv, outside, disk, volatile, run
<1>20. CASE UpdateFails
  BY <1>20, ConstantsAssumption DEF UpdateFails, CmdFails, Fault, FlagsOf,
     TypeOK, OutsideOK, DiskOK, Revisions, NoTag, BlankTag, Partial, PageInv,
     outside, disk, volatile, run
<1>21. CASE TagFailed
  BY <1>21, ConstantsAssumption DEF TagFailed, Goto, TypeOK, OutsideOK,
     DiskOK, Revisions, NoTag, BlankTag, Partial, PageInv, outside, disk,
     volatile, run
<1>22. CASE TagCurrent
  BY <1>22, ConstantsAssumption DEF TagCurrent, Goto, TypeOK, OutsideOK,
     DiskOK, Revisions, NoTag, BlankTag, Partial, PageInv, outside, disk,
     volatile, run
<1>23. CASE RunAfter
  BY <1>23 DEF RunAfter, CmdSucceeds, CmdFails, Goto, Fault, outside, disk,
     volatile, run
<1>24. CASE ShowError
  BY <1>24 DEF ShowError, Goto, outside, disk, volatile, run
<1>25. CASE ReportError
  BY <1>25 DEF ReportError, SentryDelivers, SentryFails, Goto, Exit, Fault,
     outside, disk, volatile, run
<1>26. CASE NoRebootNeeded
  BY <1>26 DEF NoRebootNeeded, AfterReboot, Goto, outside, disk, volatile, run
<1>27. CASE RebootUnattended
  BY <1>27 DEF RebootUnattended, Reboot, Exit, outside, disk, volatile, run
<1>28. CASE SetClevisSlot
  BY <1>28 DEF SetClevisSlot, SentryDelivers, SentryFails, Goto, Exit, Fault,
     outside, disk, volatile, run
<1>29. CASE RebootByClevis
  BY <1>29 DEF RebootByClevis, Reboot, Exit, outside, disk, volatile, run
<1>30. CASE AskAdmin
  BY <1>30 DEF AskAdmin, AfterReboot, SentryDelivers, SentryFails, Goto, Exit,
     Fault, outside, disk, volatile, run
<1>31. CASE RunFinish
  BY <1>31 DEF RunFinish, CmdSucceeds, CmdFails, Goto, Fault, outside, disk,
     volatile, run
<1>32. CASE ClearPage
  BY <1>32 DEF ClearPage, Goto, outside, disk, volatile, run
<1>33. CASE ReportReady
  BY <1>33 DEF ReportReady, SentryDelivers, SentryFails, Goto, Exit, Fault,
     outside, disk, volatile, run
<1>34. CASE ExitResult
  BY <1>34 DEF ExitResult, Exit, outside, disk, volatile, run
<1>35. CASE Kill
  BY <1>35, ConstantsAssumption DEF Kill, Exit, Fault, TornWrites, TypeOK,
     OutsideOK, DiskOK, Revisions, NoTag, BlankTag, Partial, PageInv, outside,
     disk, volatile, run
<1>36. CASE Boot
  BY <1>36 DEF Boot, BootState, outside, disk, volatile, run
<1>37. CASE Crash
  BY <1>37, ConstantsAssumption DEF Crash, Exit, Fault, TornWrites, BootState,
     TypeOK, OutsideOK, DiskOK, Revisions, NoTag, BlankTag, Partial, PageInv,
     outside, disk, volatile, run
<1>38. CASE UNCHANGED vars
  BY <1>38 DEF vars, outside, disk, volatile, run
<1> QED
  BY <1>1, <1>2, <1>3, <1>4, <1>5, <1>6, <1>7, <1>8, <1>9, <1>10, <1>11,
     <1>12, <1>13, <1>14, <1>15, <1>16, <1>17, <1>18, <1>19, <1>20, <1>21,
     <1>22, <1>23, <1>24, <1>25, <1>26, <1>27, <1>28, <1>29, <1>30, <1>31,
     <1>32, <1>33, <1>34, <1>35, <1>36, <1>37, <1>38
  DEF Next, Environment, Script, Decision, Update, Completion

\* The tag invariant holds while the branch only moves forward.
LEMMA TagHolds ==
  ASSUME Rewinds = FALSE
  PROVE  Spec => []TagInv
<1>1. Init => TagInv
  BY DEF Init, TagInv, HistoryOrder, Pending, NoTag
<1>2. IInv /\ TagInv /\ [Next]_vars => TagInv'
  BY TagStep DEF IInv
<1> QED
  BY <1>1, <1>2, IInvHolds, PTL DEF Spec

\* Without force-pushes no tag names a revision that was not pulled before.
THEOREM HistoryIsOrdered ==
  ASSUME Rewinds = FALSE
  PROVE  Spec => []HistoryOrder
<1>1. TagInv => HistoryOrder
  BY DEF TagInv
<1> QED
  BY <1>1, TagHolds, PTL

\* Without force-pushes a revision that is pulled and not applied is found again by
\* the next run, but for a forced run over a tagged revision.
THEOREM PendingWorkIsRemembered ==
  ASSUME Rewinds = FALSE
  PROVE  Spec => []PendingWorkRemembered
<1>1. TagInv => PendingWorkRemembered
  BY DEF TagInv, PendingWorkRemembered
<1> QED
  BY <1>1, TagHolds, PTL

-----------------------------------------------------------------------------
(* Refinement *)

\* The variables that the refinement mapping reads.
mapped == <<remote, head, applied, currentRev, page>>

\* The actions that Deployment does not see.
Hidden ==
  \/ WebhookStarts \/ TimerFires \/ AdminStarts
  \/ AdminSetsFlag \/ AdminClearsFlag \/ PackageNeedsReboot
  \/ RefuseFailed \/ CheckFlags \/ NothingToDo \/ BeginUpdate
  \/ Validate \/ RunBefore \/ UpdateFails \/ TagFailed \/ RunAfter \/ ReportError
  \/ NoRebootNeeded \/ RebootUnattended \/ SetClevisSlot \/ RebootByClevis
  \/ AskAdmin \/ RunFinish \/ ReportReady \/ ExitResult \/ Boot

LEMMA HiddenStep == Hidden => UNCHANGED mapped
BY DEF Hidden, mapped, outside, disk, volatile, run,
     AdminClearsFlag, AdminSetsFlag, AdminStarts, AfterReboot, AskAdmin,
     BeginUpdate, Boot, BootState, CheckFlags, CmdFails, CmdSucceeds, Exit,
     ExitResult, Fault, FlagsOf, Goto, NoRebootNeeded, NothingToDo,
     PackageNeedsReboot, Reboot, RebootByClevis, RebootUnattended,
     RefuseFailed, ReportError, ReportReady, RunAfter, RunBefore, RunFinish,
     SentryDelivers, SentryFails, SetClevisSlot, StartJob, TagFailed,
     TimerFires, UpdateFails, Validate, WebhookStarts

\* Every step of the update system is a step of the deployment, or a stutter.
LEMMA RefinementStep ==
  IInv /\ [Next]_vars => [Abstract!Next]_Abstract!vars
<1> SUFFICES ASSUME IInv, [Next]_vars
             PROVE  Abstract!Next \/ UNCHANGED Abstract!vars
  OBVIOUS
<1> USE DEF Abstract!vars
<1>1. CASE Push
  <2>1. Abstract!Publish
    BY <1>1 DEF Push, Abstract!Publish, Abstract!Revisions, Revisions, disk
  <2> QED BY <2>1 DEF Abstract!Next
<1>2. CASE Pull
  <2>1. Abstract!Fetch
    BY <1>2 DEF Pull, Abstract!Fetch, outside
  <2> QED BY <2>1 DEF Abstract!Next
<1>3. CASE PullFails
  <2>1. Abstract!Fetch \/ UNCHANGED Abstract!vars
    BY <1>3 DEF PullFails, Abstract!Fetch, outside
  <2> QED BY <2>1 DEF Abstract!Next
<1>4. CASE ShowMaintenance \/ RenderFails \/ ShowError
  <2>1. Abstract!Close
    BY <1>4 DEF ShowMaintenance, RenderFails, ShowError, Abstract!Close, outside
  <2> QED BY <2>1 DEF Abstract!Next
<1>5. CASE UpdateBegins
  <2>1. page # "none"
    BY <1>5 DEF UpdateBegins, IInv, PageInv, Guarded
  <2>2. Abstract!Spoil
    BY <1>5, <2>1 DEF UpdateBegins, Abstract!Spoil, Abstract!Partial, Partial,
       outside
  <2> QED BY <2>2 DEF Abstract!Next
<1>6. CASE UpdateSucceeds
  <2>1. page # "none" /\ applied = Partial
    BY <1>6 DEF UpdateSucceeds, IInv, PageInv, Guarded
  <2>2. Abstract!Complete
    BY <1>6, <2>1 DEF UpdateSucceeds, Abstract!Complete, Abstract!Partial,
       Partial, outside
  <2> QED BY <2>2 DEF Abstract!Next
<1>7. CASE TagCurrent
  <2>1. applied = head
    BY <1>7 DEF TagCurrent, IInv, PageInv, Done
  <2>2. Abstract!Report
    BY <1>7, <2>1 DEF TagCurrent, Abstract!Report, outside
  <2> QED BY <2>2 DEF Abstract!Next
<1>8. CASE ClearPage
  <2>1. applied = head /\ currentRev = head
    BY <1>8 DEF ClearPage, IInv, PageInv, Done
  <2>2. Abstract!Open
    BY <1>8, <2>1 DEF ClearPage, Abstract!Open, outside
  <2> QED BY <2>2 DEF Abstract!Next
<1>9. CASE Kill \/ Crash
  <2>1. \/ Abstract!LoseReport
        \/ Abstract!Close
        \/ UNCHANGED Abstract!vars
    BY <1>9 DEF Kill, Crash, TornWrites, Abstract!LoseReport, Abstract!Close,
       Abstract!BlankTag, BlankTag, outside
  <2> QED BY <2>1 DEF Abstract!Next
<1>10. CASE Hidden
  BY <1>10, HiddenStep DEF mapped
<1>11. CASE UNCHANGED vars
  BY <1>11 DEF vars, outside, disk
<1> QED
  BY <1>1, <1>2, <1>3, <1>4, <1>5, <1>6, <1>7, <1>8, <1>9, <1>10, <1>11
  DEF Next, Environment, Script, Decision, Update, Completion, Hidden

\* The update system implements Deployment: the application is served only on a
\* revision that was completely applied behind the closed frontend and reported,
\* and nothing else is ever reported.
THEOREM Implementation == Spec => ImplementsDeployment
<1>1. Init => Abstract!Init
  <2> SUFFICES ASSUME Init PROVE Abstract!Init
    OBVIOUS
  <2>1. remote \in Abstract!Revisions
    BY ConstantsAssumption DEF Init, Abstract!Revisions
  <2>2. head = remote /\ applied = remote
    BY DEF Init
  <2>3. currentRev = Abstract!NoTag
    BY DEF Init, NoTag, Abstract!NoTag
  <2>4. page = "none"
    BY DEF Init
  <2> QED
    BY <2>1, <2>2, <2>3, <2>4 DEF Abstract!Init
<1> QED
  BY <1>1, IInvHolds, RefinementStep, PTL DEF Spec, ImplementsDeployment, Abstract!Spec

=============================================================================
