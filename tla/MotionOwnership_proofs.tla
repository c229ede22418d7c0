----------------------- MODULE MotionOwnership_proofs -----------------------
(***************************************************************************)
(* Who drives the controller, for every number of motions: the routes hand *)
(* it back, and implement the abstract arbitration of ControllerOwnership. *)
(***************************************************************************)
EXTENDS MotionOwnership, TLAPS

\* Motions not begun have no goal; a motion in progress is one of the run's, and
\* has a result from its release on.
Begun ==
  /\ pc # "idle" => cur \in Motions
  /\ pc \notin {"idle", "pause"} => result[cur] = "none"
  /\ \A m \in Motions : m > cur => goal[m] = "unsent" /\ result[m] = "none"

\* Where the tick waits for a goal at move_group.
GoalSteps == {"execute", "response", "result", "cancel", "await"}

\* A goal that may still move the arm is the one waited for, or given up.
GoalsWatched ==
  \A m \in Motions : goal[m] \in Pending => m \in givenUp \/ (m = cur /\ pc \in GoalSteps)

\* What the client knows of the goal it waits for is true.
Learned ==
  /\ pc \in {"plan", "server"} => ~known
  /\ pc \in GoalSteps => goal[cur] # "unsent"
  /\ pc \in {"result", "cancel", "await"} => goal[cur] \notin {"flight", "rejected"}
  /\ known /\ pc = "response" => goal[cur] # "flight"
  /\ known /\ pc = "execute" => goal[cur] \in {"rejected", "ended"}
  /\ known /\ pc \in {"result", "cancel", "await"} => goal[cur] = "ended"

\* Starts and unpauses still to be handled: the running motion's is the one it
\* waits for; an older one belongs to a motion that did not succeed.
CallsPending ==
  \A r \in asked :
    /\ r[1] <= cur
    /\ r[2] # "pause" => result[r[1]] # "SUCCESS"
    /\ r[2] # "pause" /\ r[1] = cur /\ pc # "idle" =>
         pc \in {"start", "unpause"} /\ r[2] = pc /\ reply = "waiting"

\* A servo node that was not given up is live only inside a ServoTrack that has
\* taken it and not yet handed it back, and nothing else is on its way to it.
ServoOwned ==
  Servo \notin givenUp =>
    /\ \A r \in asked : r[2] # "pause" => r[1] = cur /\ pc # "idle"
    /\ Live => /\ pc \in {"start", "started", "unpause", "match", "stream", "pause"}
               /\ ~(pc = "start" /\ reply = "none")
               /\ ~(pc = "pause" /\ reply = "OK")

Inv == TypeOK /\ Begun /\ GoalsWatched /\ Learned /\ CallsPending /\ ServoOwned

-----------------------------------------------------------------------------
LEMMA InitInv == Init => Inv
<1> SUFFICES ASSUME Init PROVE Inv
    OBVIOUS
<1> USE MotionAssumption DEF Init, Motions
<1>1. TypeOK
  <2>1. givenUp \subseteq Motions \cup {Servo}
    OBVIOUS
  <2>2. known \in BOOLEAN /\ marked \in BOOLEAN /\ foreign \in BOOLEAN /\ ctx \in BOOLEAN
    OBVIOUS
  <2>3. /\ route \in [Motions -> Routes \cup {"none"}]
        /\ result \in [Motions -> {"none", "SUCCESS", "FAILURE"}]
        /\ goal \in [Motions -> {"unsent", "rejected", "ended"} \cup Pending]
    OBVIOUS
  <2> QED
    BY <2>1, <2>2, <2>3 DEF TypeOK
<1>2. Begun /\ Learned /\ CallsPending
  BY DEF Begun, Learned, CallsPending, GoalSteps
<1>3. GoalsWatched
  BY DEF GoalsWatched, Pending
<1>4. ServoOwned
  BY DEF ServoOwned
<1> QED
  BY <1>1, <1>2, <1>3, <1>4 DEF Inv

\* Every action keeps the types.
LEMMA TypeStep == Inv /\ [Next]_vars => TypeOK'
<1> SUFFICES ASSUME Inv, [Next]_vars PROVE TypeOK'
    OBVIOUS
<1> USE MotionAssumption DEF Inv, TypeOK, Begun, Motions, Calls, Routes, Servo, Pending, GoalSteps,
        Live, ServoSteps, SequenceSteps, PlannedSteps, vars, tickVars, groupVars,
        servoVars, envVars
<1>1. CASE PlannedStep
  <2>1. CASE PlanEnds
    BY <2>1 DEF PlanEnds, Return
  <2>2. CASE Execute
    BY <2>2 DEF Execute, SendGoal, Goto
  <2>3. CASE ExecuteReturns
    BY <2>3 DEF ExecuteReturns, Return
  <2> QED
    BY <1>1, <2>1, <2>2, <2>3 DEF PlannedStep
<1>2. CASE SequenceStep
  <2>1. CASE SequenceRefused
    BY <2>1 DEF SequenceRefused, Return
  <2>2. CASE SequenceSend
    BY <2>2 DEF SequenceSend, SendGoal, Goto
  <2>3. CASE SequenceSendTimeout
    BY <2>3 DEF SequenceSendTimeout, GiveUp, Return
  <2>4. CASE SequenceAnswered
    BY <2>4 DEF SequenceAnswered, Return, Goto
  <2>5. CASE SequenceResult
    BY <2>5 DEF SequenceResult, Return
  <2>6. CASE SequenceResultTimeout
    BY <2>6 DEF SequenceResultTimeout, Goto
  <2>7. CASE SequenceCancel
    BY <2>7 DEF SequenceCancel, Goto
  <2>8. CASE SequenceAwaited
    <3>1. result' \in [Motions -> {"none", "SUCCESS", "FAILURE"}] /\ pc' = "idle"
      BY <2>8 DEF SequenceAwaited, Return, GiveUp
    <3>2. givenUp' \subseteq Motions \cup {Servo}
      BY <2>8 DEF SequenceAwaited, GiveUp
    <3> QED
      BY <2>8, <3>1, <3>2 DEF SequenceAwaited
  <2> QED
    BY <1>2, <2>1, <2>2, <2>3, <2>4, <2>5, <2>6, <2>7, <2>8 DEF SequenceStep
<1>3. CASE ServoStep
  <2>1. CASE ServoRefused
    BY <2>1 DEF ServoRefused, Return
  <2>2. CASE Subscribe
    BY <2>2 DEF Subscribe
  <2>3. CASE ArbitrationRefuses
    BY <2>3 DEF ArbitrationRefuses, Return
  <2>4. CASE ArbitrationPasses
    BY <2>4 DEF ArbitrationPasses, Goto
  <2>5. CASE StartNotAsked
    BY <2>5 DEF StartNotAsked, Goto
  <2>6. CASE AskStart
    BY <2>6 DEF AskStart, Ask, Goto
  <2>7. CASE StartAbsent
    BY <2>7 DEF StartAbsent, Return
  <2>8. CASE StartFails
    BY <2>8 DEF StartFails, GiveUp, Return
  <2>9. CASE StartOK
    BY <2>9 DEF StartOK, Goto
  <2>10. CASE AskUnpause
    BY <2>10 DEF AskUnpause, Ask, Goto
  <2>11. CASE UnpauseAbsent
    BY <2>11 DEF UnpauseAbsent, Goto
  <2>12. CASE UnpauseFails
    BY <2>12 DEF UnpauseFails, GiveUp, Return
  <2>13. CASE UnpauseOK
    BY <2>13 DEF UnpauseOK, Goto
  <2>14. CASE Match
    BY <2>14 DEF Match, Goto
  <2>15. CASE MatchFails
    BY <2>15 DEF MatchFails, Release
  <2>16. CASE StreamConverged
    BY <2>16 DEF StreamConverged, Release
  <2>17. CASE StreamFails
    BY <2>17 DEF StreamFails, Release
  <2>18. CASE AskPause
    BY <2>18 DEF AskPause, Ask, Goto
  <2>19. CASE PauseOK
    BY <2>19 DEF PauseOK
  <2>20. CASE PauseUnconfirmed
    BY <2>20 DEF PauseUnconfirmed
  <2> QED
    BY <1>3, <2>1, <2>2, <2>3, <2>4, <2>5, <2>6, <2>7, <2>8, <2>9, <2>10, <2>11, <2>12, <2>13, <2>14, <2>15, <2>16, <2>17, <2>18, <2>19, <2>20 DEF ServoStep
<1>4. ASSUME NEW r \in Routes, Begin(r) PROVE TypeOK'
  <2>1. cur' \in 0..MaxMotions /\ cur' \in Motions
    BY <1>4 DEF Begin
  <2>2. route' \in [Motions -> Routes \cup {"none"}]
    BY <1>4, <2>1 DEF Begin
  <2>3. pc' \in {"plan", "server", "check"}
    BY <1>4 DEF Begin
  <2> QED
    BY <1>4, <2>1, <2>2, <2>3 DEF Begin
<1>5. ASSUME NEW m \in Motions, GroupDecides(m) PROVE TypeOK'
  BY <1>5 DEF GroupDecides
<1>6. ASSUME NEW m \in Motions, GroupExecutes(m) PROVE TypeOK'
  BY <1>6 DEF GroupExecutes
<1>7. ASSUME NEW m \in Motions, GroupEnds(m) PROVE TypeOK'
  BY <1>7 DEF GroupEnds
<1>8. CASE ClientLearns
  BY <1>8 DEF ClientLearns
<1>9. ASSUME NEW r \in asked, ServoHandles(r) PROVE TypeOK'
  <2>1. started' \in BOOLEAN /\ paused' \in BOOLEAN
    BY <1>9 DEF ServoHandles, Handled
  <2>2. reply' \in {"none", "waiting", "OK", "REFUSED"}
    BY <1>9 DEF ServoHandles
  <2> QED
    BY <1>9, <2>1, <2>2 DEF ServoHandles
<1>10. ASSUME NEW r \in asked, ServoRefuses(r) PROVE TypeOK'
  BY <1>10 DEF ServoRefuses
<1>11. CASE ForeignStep
  BY <1>11 DEF ForeignStep
<1>12. CASE StatusArrives
  BY <1>12 DEF StatusArrives
<1>13. CASE Shutdown
  <2>1. ctx' \in BOOLEAN
    BY <1>13, Zenon DEF Shutdown
  <2> QED
    BY <1>13, <2>1 DEF Shutdown
<1>14. CASE UNCHANGED vars
  BY <1>14
<1> QED
  BY <1>1, <1>2, <1>3, <1>4, <1>5, <1>6, <1>7, <1>8, <1>9, <1>10, <1>11, <1>12, <1>13, <1>14
     DEF Next, TickStep, EnvStep

\* Only begun motions have goals.
LEMMA BegunStep == Inv /\ [Next]_vars => Begun'
<1> SUFFICES ASSUME Inv, [Next]_vars PROVE Begun'
    OBVIOUS
<1> USE MotionAssumption DEF Inv, TypeOK, Begun, Motions, Calls, Routes, Servo, Pending, GoalSteps,
        Live, ServoSteps, SequenceSteps, PlannedSteps, vars, tickVars, groupVars,
        servoVars, envVars
<1>1. CASE PlannedStep
  BY <1>1 DEF PlannedStep, PlanEnds, Execute, ExecuteReturns, Return, Goto, SendGoal
<1>2. CASE SequenceStep
  BY <1>2 DEF SequenceStep, SequenceRefused, SequenceSend, SequenceSendTimeout,
       SequenceAnswered, SequenceResult, SequenceResultTimeout, SequenceCancel,
       SequenceAwaited, Return, GiveUp, Goto, SendGoal
<1>3. CASE ServoStep
  BY <1>3 DEF ServoStep, ServoRefused, Subscribe, ArbitrationRefuses, ArbitrationPasses,
       StartNotAsked, AskStart, StartAbsent, StartFails, StartOK, AskUnpause,
       UnpauseAbsent, UnpauseFails, UnpauseOK, Match, MatchFails,
       StreamConverged, StreamFails, AskPause, PauseOK, PauseUnconfirmed, Return,
       GiveUp, Goto, Ask, Release
<1>4. ASSUME NEW r \in Routes, Begin(r) PROVE Begun'
  BY <1>4 DEF Begin
<1>5. ASSUME NEW m \in Motions, GroupDecides(m) PROVE Begun'
  BY <1>5 DEF GroupDecides
<1>6. ASSUME NEW m \in Motions, GroupExecutes(m) PROVE Begun'
  BY <1>6 DEF GroupExecutes
<1>7. ASSUME NEW m \in Motions, GroupEnds(m) PROVE Begun'
  BY <1>7 DEF GroupEnds
<1>8. CASE ClientLearns
  BY <1>8 DEF ClientLearns
<1>9. ASSUME NEW r \in asked, ServoHandles(r) PROVE Begun'
  BY <1>9 DEF ServoHandles, Handled
<1>10. ASSUME NEW r \in asked, ServoRefuses(r) PROVE Begun'
  BY <1>10 DEF ServoRefuses
<1>11. CASE ForeignStep
  BY <1>11 DEF ForeignStep
<1>12. CASE StatusArrives
  BY <1>12 DEF StatusArrives
<1>13. CASE Shutdown
  BY <1>13 DEF Shutdown
<1>14. CASE UNCHANGED vars
  BY <1>14
<1> QED
  BY <1>1, <1>2, <1>3, <1>4, <1>5, <1>6, <1>7, <1>8, <1>9, <1>10, <1>11, <1>12, <1>13, <1>14
     DEF Next, TickStep, EnvStep

\* A goal leaves the tick's sight only when it is over, or given up.
LEMMA GoalsStep == Inv /\ [Next]_vars => GoalsWatched'
<1> SUFFICES ASSUME Inv, [Next]_vars PROVE GoalsWatched'
    OBVIOUS
<1> USE MotionAssumption DEF Inv, TypeOK, Begun, GoalsWatched, Learned, Motions, Calls, Routes, Servo,
        Pending, GoalSteps, Live, ServoSteps, SequenceSteps, PlannedSteps, vars,
        tickVars, groupVars, servoVars, envVars
<1>1. CASE PlannedStep
  BY <1>1 DEF PlannedStep, PlanEnds, Execute, ExecuteReturns, Return, Goto, SendGoal
<1>2. CASE SequenceStep
  BY <1>2 DEF SequenceStep, SequenceRefused, SequenceSend, SequenceSendTimeout,
       SequenceAnswered, SequenceResult, SequenceResultTimeout, SequenceCancel,
       SequenceAwaited, Return, GiveUp, Goto, SendGoal
<1>3. CASE ServoStep
  BY <1>3 DEF ServoStep, ServoRefused, Subscribe, ArbitrationRefuses, ArbitrationPasses,
       StartNotAsked, AskStart, StartAbsent, StartFails, StartOK, AskUnpause,
       UnpauseAbsent, UnpauseFails, UnpauseOK, Match, MatchFails,
       StreamConverged, StreamFails, AskPause, PauseOK, PauseUnconfirmed, Return,
       GiveUp, Goto, Ask, Release
<1>4. ASSUME NEW r \in Routes, Begin(r) PROVE GoalsWatched'
  BY <1>4 DEF Begin
<1>5. ASSUME NEW m \in Motions, GroupDecides(m) PROVE GoalsWatched'
  BY <1>5 DEF GroupDecides
<1>6. ASSUME NEW m \in Motions, GroupExecutes(m) PROVE GoalsWatched'
  BY <1>6 DEF GroupExecutes
<1>7. ASSUME NEW m \in Motions, GroupEnds(m) PROVE GoalsWatched'
  BY <1>7 DEF GroupEnds
<1>8. CASE ClientLearns
  BY <1>8 DEF ClientLearns
<1>9. ASSUME NEW r \in asked, ServoHandles(r) PROVE GoalsWatched'
  BY <1>9 DEF ServoHandles, Handled
<1>10. ASSUME NEW r \in asked, ServoRefuses(r) PROVE GoalsWatched'
  BY <1>10 DEF ServoRefuses
<1>11. CASE ForeignStep
  BY <1>11 DEF ForeignStep
<1>12. CASE StatusArrives
  BY <1>12 DEF StatusArrives
<1>13. CASE Shutdown
  BY <1>13 DEF Shutdown
<1>14. CASE UNCHANGED vars
  BY <1>14
<1> QED
  BY <1>1, <1>2, <1>3, <1>4, <1>5, <1>6, <1>7, <1>8, <1>9, <1>10, <1>11, <1>12, <1>13, <1>14
     DEF Next, TickStep, EnvStep

\* What the client learns stays true.
LEMMA LearnedStep == Inv /\ [Next]_vars => Learned'
<1> SUFFICES ASSUME Inv, [Next]_vars PROVE Learned'
    OBVIOUS
<1> USE MotionAssumption DEF Inv, TypeOK, Begun, Learned, Motions, Calls, Routes, Servo, Pending,
        GoalSteps, Live, ServoSteps, SequenceSteps, PlannedSteps, vars, tickVars,
        groupVars, servoVars, envVars
<1>1. CASE PlannedStep
  BY <1>1 DEF PlannedStep, PlanEnds, Execute, ExecuteReturns, Return, Goto, SendGoal
<1>2. CASE SequenceStep
  BY <1>2 DEF SequenceStep, SequenceRefused, SequenceSend, SequenceSendTimeout,
       SequenceAnswered, SequenceResult, SequenceResultTimeout, SequenceCancel,
       SequenceAwaited, Return, GiveUp, Goto, SendGoal
<1>3. CASE ServoStep
  BY <1>3 DEF ServoStep, ServoRefused, Subscribe, ArbitrationRefuses, ArbitrationPasses,
       StartNotAsked, AskStart, StartAbsent, StartFails, StartOK, AskUnpause,
       UnpauseAbsent, UnpauseFails, UnpauseOK, Match, MatchFails,
       StreamConverged, StreamFails, AskPause, PauseOK, PauseUnconfirmed, Return,
       GiveUp, Goto, Ask, Release
<1>4. ASSUME NEW r \in Routes, Begin(r) PROVE Learned'
  BY <1>4 DEF Begin
<1>5. ASSUME NEW m \in Motions, GroupDecides(m) PROVE Learned'
  BY <1>5 DEF GroupDecides
<1>6. ASSUME NEW m \in Motions, GroupExecutes(m) PROVE Learned'
  BY <1>6 DEF GroupExecutes
<1>7. ASSUME NEW m \in Motions, GroupEnds(m) PROVE Learned'
  BY <1>7 DEF GroupEnds
<1>8. CASE ClientLearns
  BY <1>8 DEF ClientLearns
<1>9. ASSUME NEW r \in asked, ServoHandles(r) PROVE Learned'
  BY <1>9 DEF ServoHandles, Handled
<1>10. ASSUME NEW r \in asked, ServoRefuses(r) PROVE Learned'
  BY <1>10 DEF ServoRefuses
<1>11. CASE ForeignStep
  BY <1>11 DEF ForeignStep
<1>12. CASE StatusArrives
  BY <1>12 DEF StatusArrives
<1>13. CASE Shutdown
  BY <1>13 DEF Shutdown
<1>14. CASE UNCHANGED vars
  BY <1>14
<1> QED
  BY <1>1, <1>2, <1>3, <1>4, <1>5, <1>6, <1>7, <1>8, <1>9, <1>10, <1>11, <1>12, <1>13, <1>14
     DEF Next, TickStep, EnvStep

\* A tick that succeeds has had each of its calls answered.
LEMMA CallsStep == Inv /\ [Next]_vars => CallsPending'
<1> SUFFICES ASSUME Inv, [Next]_vars PROVE CallsPending'
    OBVIOUS
<1> USE MotionAssumption DEF Inv, TypeOK, Begun, CallsPending, Motions, Calls, Routes, Servo, Pending,
        GoalSteps, Live, ServoSteps, SequenceSteps, PlannedSteps, vars, tickVars,
        groupVars, servoVars, envVars
<1>1. CASE PlannedStep
  BY <1>1 DEF PlannedStep, PlanEnds, Execute, ExecuteReturns, Return, Goto, SendGoal
<1>2. CASE SequenceStep
  BY <1>2 DEF SequenceStep, SequenceRefused, SequenceSend, SequenceSendTimeout,
       SequenceAnswered, SequenceResult, SequenceResultTimeout, SequenceCancel,
       SequenceAwaited, Return, GiveUp, Goto, SendGoal
<1>3. CASE ServoStep
  BY <1>3 DEF ServoStep, ServoRefused, Subscribe, ArbitrationRefuses, ArbitrationPasses,
       StartNotAsked, AskStart, StartAbsent, StartFails, StartOK, AskUnpause,
       UnpauseAbsent, UnpauseFails, UnpauseOK, Match, MatchFails,
       StreamConverged, StreamFails, AskPause, PauseOK, PauseUnconfirmed, Return,
       GiveUp, Goto, Ask, Release
<1>4. ASSUME NEW r \in Routes, Begin(r) PROVE CallsPending'
  BY <1>4 DEF Begin
<1>5. ASSUME NEW m \in Motions, GroupDecides(m) PROVE CallsPending'
  BY <1>5 DEF GroupDecides
<1>6. ASSUME NEW m \in Motions, GroupExecutes(m) PROVE CallsPending'
  BY <1>6 DEF GroupExecutes
<1>7. ASSUME NEW m \in Motions, GroupEnds(m) PROVE CallsPending'
  BY <1>7 DEF GroupEnds
<1>8. CASE ClientLearns
  BY <1>8 DEF ClientLearns
<1>9. ASSUME NEW r \in asked, ServoHandles(r) PROVE CallsPending'
  <2>1. asked' \subseteq asked /\ r \notin asked'
    BY <1>9 DEF ServoHandles
  <2>2. \A q \in asked' : q = <<q[1], q[2]>>
    BY <2>1
  <2>3. reply' # reply => r = <<cur, pc>>
    BY <1>9 DEF ServoHandles
  <2> QED
    BY <1>9, <2>1, <2>2, <2>3 DEF ServoHandles
<1>10. ASSUME NEW r \in asked, ServoRefuses(r) PROVE CallsPending'
  BY <1>10 DEF ServoRefuses
<1>11. CASE ForeignStep
  BY <1>11 DEF ForeignStep
<1>12. CASE StatusArrives
  BY <1>12 DEF StatusArrives
<1>13. CASE Shutdown
  BY <1>13 DEF Shutdown
<1>14. CASE UNCHANGED vars
  BY <1>14
<1> QED
  BY <1>1, <1>2, <1>3, <1>4, <1>5, <1>6, <1>7, <1>8, <1>9, <1>10, <1>11, <1>12, <1>13, <1>14
     DEF Next, TickStep, EnvStep

\* A ServoTrack ends with the servo node handed back, or given up.
LEMMA ServoStepOwned == Inv /\ [Next]_vars => ServoOwned'
<1> SUFFICES ASSUME Inv, [Next]_vars PROVE ServoOwned'
    OBVIOUS
<1> USE MotionAssumption DEF Inv, TypeOK, Begun, CallsPending, ServoOwned, Motions, Calls, Routes,
        Servo, Pending, GoalSteps, Live, ServoSteps, SequenceSteps, PlannedSteps,
        vars, tickVars, groupVars, servoVars, envVars
<1>1. CASE PlannedStep
  BY <1>1 DEF PlannedStep, PlanEnds, Execute, ExecuteReturns, Return, Goto, SendGoal
<1>2. CASE SequenceStep
  BY <1>2 DEF SequenceStep, SequenceRefused, SequenceSend, SequenceSendTimeout,
       SequenceAnswered, SequenceResult, SequenceResultTimeout, SequenceCancel,
       SequenceAwaited, Return, GiveUp, Goto, SendGoal
<1>3. CASE ServoStep
  BY <1>3 DEF ServoStep, ServoRefused, Subscribe, ArbitrationRefuses, ArbitrationPasses,
       StartNotAsked, AskStart, StartAbsent, StartFails, StartOK, AskUnpause,
       UnpauseAbsent, UnpauseFails, UnpauseOK, Match, MatchFails,
       StreamConverged, StreamFails, AskPause, PauseOK, PauseUnconfirmed, Return,
       GiveUp, Goto, Ask, Release
<1>4. ASSUME NEW r \in Routes, Begin(r) PROVE ServoOwned'
  BY <1>4 DEF Begin
<1>5. ASSUME NEW m \in Motions, GroupDecides(m) PROVE ServoOwned'
  BY <1>5 DEF GroupDecides
<1>6. ASSUME NEW m \in Motions, GroupExecutes(m) PROVE ServoOwned'
  BY <1>6 DEF GroupExecutes
<1>7. ASSUME NEW m \in Motions, GroupEnds(m) PROVE ServoOwned'
  BY <1>7 DEF GroupEnds
<1>8. CASE ClientLearns
  BY <1>8 DEF ClientLearns
<1>9. ASSUME NEW r \in asked, ServoHandles(r) PROVE ServoOwned'
  BY <1>9 DEF ServoHandles, Handled
<1>10. ASSUME NEW r \in asked, ServoRefuses(r) PROVE ServoOwned'
  BY <1>10 DEF ServoRefuses
<1>11. CASE ForeignStep
  BY <1>11 DEF ForeignStep
<1>12. CASE StatusArrives
  BY <1>12 DEF StatusArrives
<1>13. CASE Shutdown
  BY <1>13 DEF Shutdown
<1>14. CASE UNCHANGED vars
  BY <1>14
<1> QED
  BY <1>1, <1>2, <1>3, <1>4, <1>5, <1>6, <1>7, <1>8, <1>9, <1>10, <1>11, <1>12, <1>13, <1>14
     DEF Next, TickStep, EnvStep

-----------------------------------------------------------------------------
\* The invariant holds in every reachable state.
THEOREM Invariance == Spec => []Inv
<1>1. Inv /\ [Next]_vars => Inv'
  BY TypeStep, BegunStep, GoalsStep, LearnedStep, CallsStep, ServoStepOwned DEF Inv
<1> QED
  BY InitInv, <1>1, PTL DEF Spec

\* Type correctness (every variable of the tick thread, move_group and servo node).
THEOREM TypeCorrect == Spec => []TypeOK
BY Invariance, PTL DEF Inv

\* Between two motions only movers the run has given up drive the controller.
THEOREM ControllerHandedBack == Spec => []HandedBack
<1>1. Inv => HandedBack
  BY DEF Inv, GoalsWatched, ServoOwned, HandedBack, Holders, Pending, GoalSteps
<1> QED
  BY Invariance, <1>1, PTL

\* A start or an unpause still to be applied belongs to a motion running or failed.
THEOREM NothingPendingAfterSuccess == Spec => []SuccessLeavesNothingPending
<1>1. Inv => SuccessLeavesNothingPending
  BY DEF Inv, CallsPending, SuccessLeavesNothingPending
<1> QED
  BY Invariance, <1>1, PTL

\* One owner per controller, among the movers the run has not given up.
THEOREM OneOwnerHolds == Spec => []OneOwner
<1>1. Inv => OneOwner
  BY DEF Inv, GoalsWatched, ServoOwned, OneOwner, Ownership!OneOwner, Holders, Pending, GoalSteps
<1> QED
  BY Invariance, <1>1, PTL

\* Every step of the routes is a step of the abstract arbitration, or none.
LEMMA StepRefines == Inv /\ [Next]_vars => [Ownership!Next]_<<Holders, givenUp>>
<1> SUFFICES ASSUME Inv, [Next]_vars PROVE [Ownership!Next]_<<Holders, givenUp>>
    OBVIOUS
<1> DEFINE Movers == Motions \cup {Servo}
<1> USE MotionAssumption DEF Motions, Servo
<1>0. cur \in 0..MaxMotions /\ (pc # "idle" => cur \in Motions) /\ goal \in [Motions -> {"unsent", "rejected", "ended"} \cup Pending]
  BY DEF Inv, TypeOK, Begun
<1>1. ASSUME UNCHANGED <<goal, started, paused>>, UNCHANGED givenUp \/ \E m \in Movers : givenUp' = givenUp \cup {m}
      PROVE  [Ownership!Next]_<<Holders, givenUp>>
  <2>1. Holders' = Holders
    BY <1>1 DEF Holders, Live
  <2> QED
    BY <1>1, <2>1 DEF Ownership!Next, Ownership!GiveUp
<1>2. ASSUME NEW m \in Motions, NEW s \in {"flight", "accepted", "rejected", "ended"},
             goal' = [goal EXCEPT ![m] = s], UNCHANGED <<started, paused, givenUp>>
      PROVE  [Ownership!Next]_<<Holders, givenUp>>
  <2>1. Holders' = Holders \ {m}
    BY <1>0, <1>2 DEF Holders, Live
  <2> QED
    BY <1>2, <2>1 DEF Ownership!Next, Ownership!Free
<1>3. CASE PlannedStep
  <2>1. CASE Execute
    BY <2>1, <1>0, <1>2 DEF Execute, SendGoal, Goto, servoVars
  <2>2. CASE PlanEnds \/ ExecuteReturns
    BY <2>2, <1>1 DEF PlanEnds, ExecuteReturns, Return, groupVars, servoVars
  <2> QED
    BY <1>3, <2>1, <2>2 DEF PlannedStep
<1>4. CASE SequenceStep
  <2>1. CASE SequenceSend
    BY <2>1, <1>0, <1>2 DEF SequenceSend, SendGoal, Goto, servoVars
  <2>2. CASE SequenceSendTimeout \/ SequenceAwaited
    <3>1. UNCHANGED <<goal, started, paused>>
      BY <2>2 DEF SequenceSendTimeout, SequenceAwaited, groupVars, servoVars
    <3>2. cur \in Movers
      BY <2>2, <1>0 DEF SequenceSendTimeout, SequenceAwaited
    <3>3. UNCHANGED givenUp \/ givenUp' = givenUp \cup {cur}
      BY <2>2 DEF SequenceSendTimeout, SequenceAwaited, GiveUp
    <3> QED
      BY <3>1, <3>2, <3>3, <1>1
  <2>3. CASE \/ SequenceRefused \/ SequenceAnswered \/ SequenceResult
             \/ SequenceResultTimeout \/ SequenceCancel
    BY <2>3, <1>1 DEF SequenceRefused, SequenceAnswered, SequenceResult, SequenceResultTimeout,
         SequenceCancel, Return, Goto, groupVars, servoVars
  <2> QED
    BY <1>4, <2>1, <2>2, <2>3 DEF SequenceStep
<1>5. CASE ServoStep
  <2>1. UNCHANGED <<goal, started, paused>>
    BY <1>5 DEF ServoStep, ServoRefused, Subscribe, ArbitrationRefuses, ArbitrationPasses, StartNotAsked,
         AskStart, StartAbsent, StartFails, StartOK, AskUnpause,
         UnpauseAbsent, UnpauseFails, UnpauseOK, Match, MatchFails,
         StreamConverged, StreamFails, AskPause, PauseOK, PauseUnconfirmed, Ask, Release, groupVars, servoVars
  <2>2. UNCHANGED givenUp \/ givenUp' = givenUp \cup {Servo}
    BY <1>5 DEF ServoStep, ServoRefused, Subscribe, ArbitrationRefuses, ArbitrationPasses, StartNotAsked,
         AskStart, StartAbsent, StartFails, StartOK, AskUnpause,
         UnpauseAbsent, UnpauseFails, UnpauseOK, Match, MatchFails,
         StreamConverged, StreamFails, AskPause, PauseOK, PauseUnconfirmed, Ask, Release, Return, Goto, GiveUp, tickVars
  <2> QED
    BY <2>1, <2>2, <1>1
<1>6. ASSUME NEW r \in Routes, Begin(r) PROVE [Ownership!Next]_<<Holders, givenUp>>
  BY <1>6, <1>1 DEF Begin
<1>7. ASSUME NEW m \in Motions, GroupDecides(m) \/ GroupEnds(m)
      PROVE  [Ownership!Next]_<<Holders, givenUp>>
  BY <1>7, <1>2 DEF GroupDecides, GroupEnds, tickVars, servoVars
<1>8. ASSUME NEW m \in Motions, GroupExecutes(m) PROVE [Ownership!Next]_<<Holders, givenUp>>
  <2>1. Holders' = Holders \cup {m} /\ UNCHANGED givenUp
    BY <1>0, <1>8 DEF GroupExecutes, Holders, Live, tickVars, servoVars
  <2>2. goal[m] = "accepted"
    BY <1>8 DEF GroupExecutes
  <2>3. m \notin givenUp => Holders \subseteq givenUp
    <3> SUFFICES ASSUME m \notin givenUp, NEW h \in Holders PROVE h \in givenUp
        OBVIOUS
    <3>1. m = cur /\ pc \in GoalSteps
      BY <2>2 DEF Inv, GoalsWatched, Pending
    <3>2. CASE h = Servo
      BY <3>1, <3>2 DEF Holders, Inv, ServoOwned, GoalSteps
    <3>3. CASE h \in Motions /\ goal[h] = "executing"
      BY <2>2, <3>1, <3>3 DEF Inv, GoalsWatched, Pending
    <3> QED
      BY <3>2, <3>3 DEF Holders
  <2> QED
    BY <2>1, <2>3 DEF Ownership!Next, Ownership!Take
<1>9. ASSUME NEW r \in asked, ServoHandles(r) PROVE [Ownership!Next]_<<Holders, givenUp>>
  <2>1. UNCHANGED <<goal, givenUp>>
    BY <1>9 DEF ServoHandles, tickVars, groupVars
  <2>2. CASE Live' <=> Live
    BY <2>1, <2>2 DEF Holders
  <2>3. CASE ~Live'
    <3>1. Holders' = Holders \ {Servo}
      BY <2>1, <2>3 DEF Holders
    <3> QED
      BY <2>1, <3>1 DEF Ownership!Next, Ownership!Free
  <2>4. CASE Live' /\ ~Live
    <3>1. Holders' = Holders \cup {Servo}
      BY <2>1, <2>4 DEF Holders
    <3>2. r[2] # "pause"
      BY <1>9, <2>4 DEF ServoHandles, Handled, Live
    <3>3. Servo \notin givenUp => Holders \subseteq givenUp
      <4> SUFFICES ASSUME Servo \notin givenUp, NEW h \in Holders PROVE h \in givenUp
          OBVIOUS
      <4>1. pc \in {"start", "unpause"}
        BY <3>2 DEF Inv, ServoOwned, CallsPending
      <4>2. h \in Motions /\ goal[h] = "executing"
        BY <2>4 DEF Holders
      <4> QED
        BY <4>1, <4>2 DEF Inv, GoalsWatched, Pending, GoalSteps
    <3> QED
      BY <2>1, <3>1, <3>3 DEF Ownership!Next, Ownership!Take
  <2> QED
    BY <2>2, <2>3, <2>4
<1>10. ASSUME NEW r \in asked, ServoRefuses(r) PROVE [Ownership!Next]_<<Holders, givenUp>>
  BY <1>10, <1>1 DEF ServoRefuses, tickVars, groupVars
<1>11. CASE ClientLearns \/ ForeignStep \/ StatusArrives \/ Shutdown
  BY <1>11, <1>1 DEF ClientLearns, ForeignStep, StatusArrives, Shutdown, tickVars, groupVars, servoVars
<1>12. CASE UNCHANGED vars
  BY <1>12, <1>1 DEF vars, tickVars, groupVars, servoVars
<1> QED
  BY <1>3, <1>4, <1>5, <1>6, <1>7, <1>8, <1>9, <1>10, <1>11, <1>12 DEF Next, TickStep, EnvStep

\* The routes implement the abstract arbitration.
THEOREM Refinement == Spec => ImplementsOwnership
<1>1. Init => Ownership!Init
  BY MotionAssumption DEF Init, Ownership!Init, Holders, Motions, Servo
<1> QED
  BY <1>1, Invariance, StepRefines, PTL DEF Spec, ImplementsOwnership, Ownership!Spec
=============================================================================
