---------------------------- MODULE BtRunner_proofs ----------------------------
(***************************************************************************)
(* Safety of the runner's process, for a run of any number of motions: the *)
(* stop request against the destructor that waits for it, and the exit     *)
(* code.                                                                   *)
(***************************************************************************)
EXTENDS BtRunner, TLAPS

NotArmed   == StartUp \cup {"arm"}
Registered == {"loop", "tick", "motion", "unwind"}

\* Where main is says what has happened: nothing before the tree runs, and the one
\* motion that may execute is the one it is blocked in.
MainInv ==
  /\ exit = "none" <=> pc # "exited"
  /\ pc \in NotArmed => ~latched /\ motions = 0
  /\ refused # "none" => pc = "exited" /\ ~latched /\ motions = 0
  /\ latched => canonical
  /\ pc = "caught" => status = "threw"
  /\ pc = "motion" => motions > 0
  /\ executing => pc = "motion"

\* The callback is registered while the tree runs and is armed until it has looked, and
\* the signal's thread holds the mutex from there until it has stopped the motion.
StopInv ==
  /\ registered <=> pc \in Registered
  /\ armed => pc \in TreeRuns
  /\ mutex = "signal" <=> sig \in {"locked", "stopping", "unlock"}
  /\ sig = "stopping" => pc \in TreeRuns
  /\ pc \in Registered /\ sig \in {"idle", "called", "locked"} => armed
  /\ sig \in {"called", "locked", "stopping", "unlock"} => pc \notin NotArmed
  /\ ctx = "valid" => sig = "idle"
  /\ ctx = "down" => sig = "done" \/ pc = "exited"

\* The motion that executed at the request, while it lasts: it has been stopped once the
\* callback is past its stop.
InFlightInv ==
  /\ atRequest <= motions
  /\ atRequest > 0 => sig # "idle"
  /\ atRequest > 0 /\ atRequest = motions /\ pc = "motion" =>
       /\ executing
       /\ sig \in {"unlock", "shutdown", "done"} => stopped = motions

Inv == TypeOK /\ MainInv /\ StopInv /\ InFlightInv /\ ExitTellsOutcome

-----------------------------------------------------------------------------
(* The invariant.                                                          *)

\* A start-up step is followed by one that is not the tree's.
LEMMA FollowsTypes ==
  /\ StartUp = {"parameters", "contract", "paths", "remaps", "moveit", "runtime", "profiles",
                "tree", "check_tree", "writers"}
  /\ \A step \in StartUp : Follows[step] \in NotArmed
BY DEF StartUp, Follows, NotArmed

LEMMA InitInv == Init => Inv
<1> SUFFICES ASSUME Init PROVE Inv
  OBVIOUS
<1>1. TypeOK
  <2>1. 0 \in 0..MaxMotions /\ "parameters" \in StartUp  BY RunnerAssumption, FollowsTypes
  <2>. QED  BY <2>1, Zenon DEF Init, TypeOK
<1>2. MainInv  BY DEF Init, MainInv
<1>3. StopInv  BY FollowsTypes DEF Init, StopInv, NotArmed, Registered, TreeRuns
<1>4. InFlightInv  BY DEF Init, InFlightInv
<1>5. ExitTellsOutcome  BY DEF Init, ExitTellsOutcome
<1>. QED  BY <1>1, <1>2, <1>3, <1>4, <1>5 DEF Inv

\* One step per action.
LEMMA NextInv == Inv /\ [Next]_vars => Inv'
<1> SUFFICES ASSUME Inv, [Next]_vars PROVE Inv'
  OBVIOUS
<1> USE RunnerAssumption, FollowsTypes
    DEF Inv, TypeOK, MainInv, StopInv, InFlightInv, ExitTellsOutcome, NotArmed, Registered,
        TreeRuns, mainVars, motionVars, stopVars, sigVars, Return, JoinAndReturn, SigAt
<1>1. CASE StepPasses  BY <1>1 DEF StepPasses
<1>2. CASE StepRefuses  BY <1>2 DEF StepRefuses
<1>3. CASE WaitInterrupted  BY <1>3 DEF WaitInterrupted
<1>4. CASE RuntimeThrows  BY <1>4 DEF RuntimeThrows
<1>5. CASE Arm  BY <1>5 DEF Arm
<1>6. CASE Loop  BY <1>6 DEF Loop
<1>7. CASE TickReturns  BY <1>7 DEF TickReturns
<1>8. CASE TickThrows  BY <1>8 DEF TickThrows
<1>9. CASE LatchFault  BY <1>9 DEF LatchFault
<1>10. CASE BeginMotion  BY <1>10 DEF BeginMotion
<1>11. CASE Unwind
  <2>1. TypeOK'  BY <1>11 DEF Unwind
  <2>2. MainInv'  BY <1>11 DEF Unwind
  <2>3. StopInv'  BY <1>11 DEF Unwind
  <2>4. InFlightInv'  BY <1>11 DEF Unwind
  <2>5. ExitTellsOutcome'  BY <1>11 DEF Unwind
  <2>. QED  BY <2>1, <2>2, <2>3, <2>4, <2>5
<1>12. CASE Disarm  BY <1>12 DEF Disarm
<1>13. CASE Caught  BY <1>13 DEF Caught
<1>14. CASE Finish  BY <1>14 DEF Finish
<1>15. CASE RequestShutdown  BY <1>15 DEF RequestShutdown
<1>16. CASE CallbackLocks  BY <1>16 DEF CallbackLocks
<1>17. CASE CallbackChecks
  <2>1. TypeOK'  BY <1>17 DEF CallbackChecks
  <2>2. MainInv'  BY <1>17 DEF CallbackChecks
  <2>3. StopInv'  BY <1>17 DEF CallbackChecks
  <2>4. InFlightInv'  BY <1>17 DEF CallbackChecks
  <2>5. ExitTellsOutcome'  BY <1>17 DEF CallbackChecks
  <2>. QED  BY <2>1, <2>2, <2>3, <2>4, <2>5
<1>18. CASE CallbackStops  BY <1>18 DEF CallbackStops
<1>19. CASE CallbackUnlocks  BY <1>19 DEF CallbackUnlocks
<1>20. CASE ContextDown  BY <1>20 DEF ContextDown
<1>21. CASE MotionExecutes  BY <1>21 DEF MotionExecutes
<1>22. CASE MotionEnds
  <2>1. TypeOK'  BY <1>22 DEF MotionEnds
  <2>2. MainInv'  BY <1>22 DEF MotionEnds
  <2>3. StopInv'  BY <1>22 DEF MotionEnds
  <2>4. InFlightInv'  BY <1>22 DEF MotionEnds
  <2>5. ExitTellsOutcome'  BY <1>22 DEF MotionEnds
  <2>. QED  BY <2>1, <2>2, <2>3, <2>4, <2>5
<1>23. CASE UNCHANGED vars  BY <1>23 DEF vars
<1>. QED
  BY <1>1, <1>2, <1>3, <1>4, <1>5, <1>6, <1>7, <1>8, <1>9, <1>10, <1>11, <1>12, <1>13, <1>14, <1>15, <1>16, <1>17, <1>18, <1>19, <1>20, <1>21, <1>22, <1>23
     DEF Next, MainStep, SignalStep

-----------------------------------------------------------------------------
(* The theorems.                                                           *)

\* The inductive invariant, from which every theorem below follows.
THEOREM Invariance == Spec => []Inv
BY InitInv, NextInv, PTL DEF Spec

\* The state of main and of the signal handler's thread is always of the code's types.
THEOREM TypeCorrect == Spec => []TypeOK
<1>1. Inv => TypeOK  BY DEF Inv
<1>. QED  BY <1>1, Invariance, PTL

\* Once the context is down, the motion that executed when the shutdown was requested
\* has been sent the stop event, if it still executes.
THEOREM InFlightIsStopped == Spec => []MotionInFlightIsStopped
<1>1. Inv => MotionInFlightIsStopped
  BY DEF Inv, TypeOK, MainInv, StopInv, InFlightInv, MotionInFlightIsStopped
<1>. QED  BY <1>1, Invariance, PTL

\* The stop request never runs on a runtime that main has begun to tear down.
THEOREM StopBeforeTearDown == Spec => []StopOnlyWhileTreeRuns
<1>1. Inv => StopOnlyWhileTreeRuns  BY DEF Inv, StopInv, StopOnlyWhileTreeRuns
<1>. QED  BY <1>1, Invariance, PTL

\* The exit code tells how the run ended, for a run of any number of motions.
THEOREM ExitIsTrue == Spec => []ExitTellsOutcome
<1>1. Inv => ExitTellsOutcome  BY DEF Inv
<1>. QED  BY <1>1, Invariance, PTL

=============================================================================
