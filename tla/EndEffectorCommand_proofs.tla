----------------------- MODULE EndEffectorCommand_proofs -----------------------
(***************************************************************************)
(* Safety of the end-effector command protocol, for every set of actuators,*)
(* every set of answers and every number of commands.                      *)
(***************************************************************************)
EXTENDS EndEffectorCommand, TLAPS

\* The command in progress: it has an operation and no end yet, and it is at the
\* server exactly when the tick thread has sent it.
Current ==
  pc # "idle" =>
    /\ cur \in Goals /\ op[cur] \in Ops /\ out[cur] = "none"
    /\ pc = "server" <=> srv[cur] = "unsent"
    /\ pc \in {"abandon", "recheck", "accepted", "deadline"} => ~SetBool

\* A command not started yet, or never sent, has touched nothing.
Fresh ==
  \A g \in Goals :
    /\ g > cur => out[g] = "none" /\ srv[g] = "unsent"
    /\ srv[g] = "unsent" => fut[g] = "none" /\ ~abandoned[g] /\ cancels[g] = 0
    /\ cb[g] => fut[g] # "none"

\* A goal is abandoned exactly between the send deadline and the end of its
\* command, and after it; cancel_sent is set on abandoned goals only; any other
\* cancel is the one of the result deadline.
Watch ==
  \A g \in Goals :
    /\ abandoned[g] <=> (out[g] = "SEND_TIMEOUT" \/ (g = cur /\ pc = "recheck"))
    /\ cancelSent[g] => abandoned[g]
    /\ abandoned[g] /\ ~cancelSent[g] => cancels[g] = 0
    /\ ~abandoned[g] /\ cancels[g] # 0 => out[g] = "COMMAND_TIMEOUT"
    /\ cancels[g] <= 1
    /\ cancels[g] # 0 => Cancellable(g)

\* Whichever thread saw the late acceptance has taken cancel_sent, and with it
\* has sent the one request, unless it could not be sent any more.
LateCancel ==
  \A g \in Goals :
    /\ cancelSent[g] /\ ~CancelMayFail(g) => cancels[g] = 1
    /\ (/\ abandoned[g] /\ fut[g] = "handle" /\ cb[g] /\ Cancellable(g)
        /\ ~(g = cur /\ pc = "recheck")) => cancelSent[g]

\* Without an adapter no state publisher is ever visible: every goal sent was
\* read as a third-party one.
ThirdPartySeen ==
  ~adapter => \A g \in Goals : srv[g] # "unsent" => SetBool \/ ros2[g]

Inv == TypeOK /\ Current /\ Fresh /\ Watch /\ LateCancel /\ ThirdPartySeen

-----------------------------------------------------------------------------
(* The outcome table.                                                      *)

\* A command that is not done failed for a reason of the actuator vocabulary,
\* and only a goal without a response fails with SEND_TIMEOUT.
LEMMA ResultReasons ==
  ASSUME NEW c, NEW a
  PROVE  \/ MapOutcome(c, "RESULT", a) = Done
         \/ \E r \in ActuatorFailures \ {"SEND_TIMEOUT"} :
              MapOutcome(c, "RESULT", a) = Fail(r)
<1>1. CASE c.interface = "set_bool"
  BY <1>1 DEF MapOutcome, SetBoolResult, ActuatorFailures
<1>2. CASE c.interface = "gripper_command"
  <2>1. MapOutcome(c, "RESULT", a) = GripperResult(c, a)  BY <1>2 DEF MapOutcome
  <2>2. GripperResult(c, a) \in {Done, Fail("COMMAND_CANCELED"),
                                 Fail("ACTUATOR_BLOCKED"), Fail("COMMAND_ABORTED")}
    BY DEF GripperResult
  <2>. QED  BY <2>1, <2>2 DEF ActuatorFailures
<1>3. CASE c.interface = "follow_joint_trajectory"
  <2>1. MapOutcome(c, "RESULT", a) = TrajectoryResult(c, a)  BY <1>3 DEF MapOutcome
  <2>2. TrajectoryResult(c, a) \in
          {Done, Fail("COMMAND_CANCELED"), Fail("PATH_TOLERANCE_VIOLATED"),
           Fail("GOAL_TOLERANCE_VIOLATED"), Fail("ACTUATOR_UNAVAILABLE"),
           Fail("COMMAND_ABORTED")}
    BY DEF TrajectoryResult
  <2>. QED  BY <2>1, <2>2 DEF ActuatorFailures
<1>4. CASE c.interface \notin Interfaces
  BY <1>4 DEF MapOutcome, Interfaces, ActuatorFailures
<1>. QED  BY <1>1, <1>2, <1>3, <1>4 DEF Interfaces

\* The outcomes of the phases that have no answer to map.
LEMMA PhaseReasons ==
  ASSUME NEW c, NEW a
  PROVE  /\ MapOutcome(c, "NO_SERVER", a) = Fail("SERVER_MISSING")
         /\ MapOutcome(c, "REJECTED", a) = Fail("COMMAND_REJECTED")
         /\ ~MapOutcome(c, "NO_RESULT", a).done
         /\ MapOutcome(c, "NO_RESULT", a).reason = "COMMAND_TIMEOUT"
         /\ ~MapOutcome(c, "NO_RESPONSE", a).done
         /\ MapOutcome(c, "NO_RESPONSE", a).reason =
              IF c.interface = "set_bool" THEN "COMMAND_TIMEOUT" ELSE "SEND_TIMEOUT"
<1>1. MapOutcome(c, "NO_SERVER", a) = Fail("SERVER_MISSING")  BY DEF MapOutcome
<1>2. MapOutcome(c, "REJECTED", a) = Fail("COMMAND_REJECTED")  BY DEF MapOutcome
<1>3. /\ ~MapOutcome(c, "NO_RESULT", a).done
      /\ MapOutcome(c, "NO_RESULT", a).reason = "COMMAND_TIMEOUT"
  BY DEF MapOutcome, Fail
<1>4. CASE c.interface = "set_bool"
  BY <1>1, <1>2, <1>3, <1>4 DEF MapOutcome, Fail
<1>5. CASE c.interface # "set_bool"
  BY <1>1, <1>2, <1>3, <1>5 DEF MapOutcome, Fail
<1>. QED  BY <1>4, <1>5

-----------------------------------------------------------------------------
(* The invariant.                                                          *)

\* Before the first command nothing has been sent.
LEMMA InitInv == Init => Inv
BY CommandAssumption DEF Init, Inv, TypeOK, Current, Fresh, Watch, LateCancel,
   ThirdPartySeen, Goals

\* What every end does to the tick thread's own state.
LEMMA EndTypes ==
  ASSUME TypeOK, Current, pc # "idle", NEW o \in Ends, End(o)
  PROVE  /\ pc' = "idle"
         /\ out' \in [Goals -> Ends \cup {"none"}]
         /\ out'[cur] = o
         /\ \A g \in Goals \ {cur} : out'[g] = out[g]
         /\ latched' \subseteq Goals
         /\ scene' \in {"none", "grip_engage", "grip_release"}
BY CommandAssumption DEF TypeOK, Current, End, Ops, Goals

\* A command may end for anything but a send timeout with its watch untouched,
\* wherever the tick thread is but between the send deadline and the recheck.
LEMMA EndKeepsInv ==
  ASSUME Inv, pc \notin {"idle", "recheck"}, NEW o \in Ends \ {"SEND_TIMEOUT"}, End(o),
         sent' \in 0..MaxGoals, UNCHANGED <<cur, op, ros2, watchVars, serverVars, envVars>>
  PROVE  Inv'
<1>1. /\ pc' = "idle" /\ out' \in [Goals -> Ends \cup {"none"}] /\ out'[cur] = o
      /\ \A g \in Goals \ {cur} : out'[g] = out[g]
      /\ latched' \subseteq Goals /\ scene' \in {"none", "grip_engage", "grip_release"}
  BY EndTypes DEF Inv
<1>2. UNCHANGED <<cur, op, ros2, abandoned, cancelSent, cancels, srv, fut, cb, res, adapter, act, ctx>>
  BY DEF watchVars, serverVars, envVars
<1>3. cur \in Goals  BY DEF Inv, Current
<1>4. TypeOK'  BY <1>1, <1>2 DEF Inv, TypeOK
<1>5. Current'  BY <1>1 DEF Current
<1>6. Fresh'  BY <1>1, <1>2, <1>3, CommandAssumption DEF Inv, TypeOK, Fresh, Goals
<1>7. Watch'  BY <1>1, <1>2, <1>3 DEF Inv, Current, Watch, Cancellable, SetBool
<1>8. LateCancel'
  BY <1>1, <1>2 DEF Inv, LateCancel, Cancellable, CancelMayFail, SetBool
<1>9. ThirdPartySeen'  BY <1>2 DEF Inv, ThirdPartySeen, SetBool
<1>. QED  BY <1>4, <1>5, <1>6, <1>7, <1>8, <1>9 DEF Inv

\* The ends the outcome table leads to.
LEMMA EndAsCases ==
  ASSUME NEW a
  PROVE  /\ EndAs("NO_SERVER", a) => End("SERVER_MISSING")
         /\ EndAs("REJECTED", a) => End("COMMAND_REJECTED")
         /\ EndAs("NO_RESULT", a) => End("COMMAND_TIMEOUT")
         /\ EndAs("NO_RESPONSE", a) =>
              End(IF SetBool THEN "COMMAND_TIMEOUT" ELSE "SEND_TIMEOUT")
<1>1. Cmd(cur).interface = act.interface  BY DEF Cmd
<1>2. Fail("SERVER_MISSING") = [done |-> FALSE, reason |-> "SERVER_MISSING", cancel |-> FALSE]
      /\ Fail("COMMAND_REJECTED") = [done |-> FALSE, reason |-> "COMMAND_REJECTED", cancel |-> FALSE]
  BY DEF Fail
<1>. QED  BY <1>1, <1>2, PhaseReasons DEF EndAs, SetBool

\* The two shapes of an outcome.
LEMMA FailDone ==
  /\ Done.done
  /\ \A r : ~Fail(r).done /\ Fail(r).reason = r
BY DEF Done, Fail

\* An answer that is mapped to an end never ends the command as a send timeout.
LEMMA EndAsResult ==
  ASSUME NEW a, EndAs("RESULT", a)
  PROVE  \E o \in Ends \ {"SEND_TIMEOUT"} : End(o)
<1>1. CASE MapOutcome(Cmd(cur), "RESULT", a) = Done
  BY <1>1, FailDone DEF EndAs, Ends
<1>2. ASSUME NEW r \in ActuatorFailures \ {"SEND_TIMEOUT"},
             MapOutcome(Cmd(cur), "RESULT", a) = Fail(r)
      PROVE  \E o \in Ends \ {"SEND_TIMEOUT"} : End(o)
  BY <1>2, FailDone DEF EndAs, Ends, Reasons
<1>. QED  BY <1>1, <1>2, ResultReasons

\* A result read at the tick thread either ends the command or goes on to confirm it.
LEMMA ResultReadCases ==
  ASSUME NEW a, ResultRead(a)
  PROVE  \/ pc' = "confirm" /\ UNCHANGED <<out, latched, scene>>
         \/ \E o \in Ends \ {"SEND_TIMEOUT"} : End(o)
<1>1. CASE MapOutcome(Cmd(cur), "RESULT", a) = Done
  BY <1>1, FailDone DEF ResultRead
<1>2. ASSUME NEW r \in ActuatorFailures \ {"SEND_TIMEOUT"},
             MapOutcome(Cmd(cur), "RESULT", a) = Fail(r)
      PROVE  \E o \in Ends \ {"SEND_TIMEOUT"} : End(o)
  BY <1>2, FailDone DEF ResultRead, Ends, Reasons
<1>. QED  BY <1>1, <1>2, ResultReasons

\* The ends that no send timeout gives are reasons (or DONE, or interrupted).
LEMMA PlainEnds ==
  {"DONE", "interrupted", "SERVER_MISSING", "COMMAND_REJECTED", "COMMAND_TIMEOUT"}
    \cup WindowFailures \cup Refusals \subseteq Ends \ {"SEND_TIMEOUT", "none"}
BY CommandAssumption DEF Ends, Reasons, Verdicts, ActuatorFailures, VerificationErrors,
                         ContractFailures

\* At the result deadline the command ends as COMMAND_TIMEOUT, with the one
\* cancel of a goal that was never abandoned.
LEMMA DeadlineInv == Inv /\ DeadlineCancel => Inv'
<1> SUFFICES ASSUME Inv, DeadlineCancel PROVE Inv'
  OBVIOUS
<1>1. CASE UNCHANGED cancels
  <2>1. UNCHANGED watchVars  BY <1>1 DEF DeadlineCancel, watchVars
  <2>2. ASSUME NEW o \in Ends \ {"SEND_TIMEOUT"}, End(o)  PROVE Inv'
    BY <2>1, <2>2, EndKeepsInv DEF DeadlineCancel, Inv, TypeOK
  <2>3. CASE EndAs("NO_RESULT", NoAnswer)
    BY <2>2, <2>3, EndAsCases, PlainEnds
  <2>4. ASSUME NEW a \in ServerAnswers, ResultRead(a)  PROVE Inv'
    <3>1. CASE pc' = "confirm" /\ UNCHANGED <<out, latched, scene>>
      BY <1>1, <3>1 DEF DeadlineCancel, Inv, TypeOK, Current, Fresh, Watch,
         LateCancel, ThirdPartySeen, Cancellable, CancelMayFail, SetBool, watchVars,
         serverVars, envVars
    <3>. QED  BY <2>2, <2>4, <3>1, ResultReadCases
  <2>. QED  BY <2>3, <2>4 DEF DeadlineCancel
<1>2. CASE ~UNCHANGED cancels
  <2>1. /\ pc = "deadline" /\ Cancellable(cur) /\ End("COMMAND_TIMEOUT")
        /\ cancels' = [cancels EXCEPT ![cur] = @ + 1]
        /\ UNCHANGED <<cur, op, ros2, sent, abandoned, cancelSent, srv, fut, cb, res,
                       adapter, act, ctx>>
    BY <1>2, EndAsCases DEF DeadlineCancel, serverVars, envVars
  <2>2. /\ pc' = "idle" /\ out' \in [Goals -> Ends \cup {"none"}]
        /\ out'[cur] = "COMMAND_TIMEOUT"
        /\ \A g \in Goals \ {cur} : out'[g] = out[g]
        /\ latched' \subseteq Goals /\ scene' \in {"none", "grip_engage", "grip_release"}
    BY <2>1, PlainEnds, EndTypes DEF Inv
  <2>3. /\ cur \in Goals /\ out[cur] = "none" /\ ~abandoned[cur] /\ cancels[cur] = 0
        /\ srv[cur] # "unsent"
    BY <2>1 DEF Inv, TypeOK, Current, Watch
  <2>10. cancels' \in [Goals -> 0..2]  BY <2>1, <2>3 DEF Inv, TypeOK
  <2>4. TypeOK'  BY <2>1, <2>2, <2>10 DEF Inv, TypeOK
  <2>5. Current'  BY <2>2 DEF Current
  <2>6. Fresh'
    BY <2>1, <2>2, <2>3, CommandAssumption DEF Inv, TypeOK, Fresh, Goals
  <2>7. Watch'
    BY <2>1, <2>2, <2>3 DEF Inv, TypeOK, Watch, Cancellable, SetBool
  <2>8. LateCancel'
    BY <2>1, <2>2, <2>3 DEF Inv, TypeOK, Watch, LateCancel, Cancellable,
       CancelMayFail, SetBool
  <2>9. ThirdPartySeen'  BY <2>1 DEF Inv, ThirdPartySeen, SetBool
  <2>. QED  BY <2>4, <2>5, <2>6, <2>7, <2>8, <2>9 DEF Inv
<1>. QED  BY <1>1, <1>2

\* At the recheck the goal is the abandoned one: an acceptance that the callback
\* has not claimed is claimed here.
LEMMA RecheckInv == Inv /\ RecheckResponse => Inv'
<1> SUFFICES ASSUME Inv, RecheckResponse PROVE Inv'
  OBVIOUS
<1>1. /\ pc = "recheck" /\ End("SEND_TIMEOUT")
      /\ UNCHANGED <<cur, op, ros2, sent, abandoned, srv, fut, cb, res, adapter, act, ctx>>
  BY EndAsCases DEF RecheckResponse, Inv, Current, serverVars, envVars
<1>2. "SEND_TIMEOUT" \in Ends  BY DEF Ends, Reasons, ActuatorFailures
<1>3. /\ pc' = "idle" /\ out' \in [Goals -> Ends \cup {"none"}]
      /\ out'[cur] = "SEND_TIMEOUT"
      /\ \A g \in Goals \ {cur} : out'[g] = out[g]
      /\ latched' \subseteq Goals /\ scene' \in {"none", "grip_engage", "grip_release"}
  BY <1>1, <1>2, EndTypes DEF Inv
<1>4. /\ cur \in Goals /\ out[cur] = "none" /\ abandoned[cur] /\ srv[cur] # "unsent"
  BY <1>1 DEF Inv, TypeOK, Current, Watch
<1>5. \/ /\ fut[cur] = "handle" /\ Cancellable(cur) /\ ~cancelSent[cur]
         /\ cancelSent' = [cancelSent EXCEPT ![cur] = TRUE]
         /\ \/ cancels' = [cancels EXCEPT ![cur] = @ + 1]
            \/ CancelMayFail(cur) /\ UNCHANGED cancels
      \/ /\ ~(fut[cur] = "handle" /\ Cancellable(cur) /\ ~cancelSent[cur])
         /\ UNCHANGED <<cancelSent, cancels>>
  BY DEF RecheckResponse, CancelGoal
<1>12. cancels' \in [Goals -> 0..2] /\ cancelSent' \in [Goals -> BOOLEAN]
  <2>1. cancels[cur] \in 0..1  BY <1>4 DEF Inv, TypeOK, Watch
  <2>2. cancels' = cancels \/ cancels' = [cancels EXCEPT ![cur] = @ + 1]  BY <1>5
  <2>3. cancelSent' = cancelSent \/ cancelSent' = [cancelSent EXCEPT ![cur] = TRUE]  BY <1>5
  <2>4. cancels' \in [Goals -> 0..2]  BY <1>4, <2>1, <2>2 DEF Inv, TypeOK
  <2>5. cancelSent' \in [Goals -> BOOLEAN]  BY <1>4, <2>3 DEF Inv, TypeOK
  <2>. QED  BY <2>4, <2>5
<1>6. TypeOK'  BY <1>1, <1>3, <1>12 DEF Inv, TypeOK
<1>7. Current'  BY <1>3 DEF Current
<1>8. Fresh'
  BY <1>1, <1>3, <1>4, <1>5, CommandAssumption DEF Inv, TypeOK, Fresh, Goals
<1>9. Watch'
  BY <1>1, <1>3, <1>4, <1>5 DEF Inv, TypeOK, Watch, Cancellable, SetBool
<1>10. LateCancel'
  BY <1>1, <1>3, <1>4, <1>5 DEF Inv, TypeOK, Watch, LateCancel, Cancellable,
     CancelMayFail, SetBool
<1>11. ThirdPartySeen'  BY <1>1 DEF Inv, ThirdPartySeen, SetBool
<1>. QED  BY <1>6, <1>7, <1>8, <1>9, <1>10, <1>11 DEF Inv

\* The late-accept cancel of the executor thread.
LEMMA CallbackInv ==
  ASSUME Inv, NEW g \in Goals, ResponseCallback(g)
  PROVE  Inv'
<1>1. /\ cb' = [cb EXCEPT ![g] = TRUE] /\ ~SetBool /\ fut[g] # "none" /\ ~cb[g]
      /\ UNCHANGED <<pc, cur, op, ros2, out, sent, latched, scene, abandoned, srv, fut, res,
                     adapter, act, ctx>>
  BY DEF ResponseCallback, tickVars, envVars
<1>2. \/ /\ fut[g] = "handle" /\ abandoned[g] /\ Cancellable(g) /\ ~cancelSent[g]
         /\ cancelSent' = [cancelSent EXCEPT ![g] = TRUE]
         /\ \/ cancels' = [cancels EXCEPT ![g] = @ + 1]
            \/ CancelMayFail(g) /\ UNCHANGED cancels
      \/ /\ ~(fut[g] = "handle" /\ abandoned[g] /\ Cancellable(g) /\ ~cancelSent[g])
         /\ UNCHANGED <<cancelSent, cancels>>
  BY DEF ResponseCallback, CancelGoal
<1>9. cancels' \in [Goals -> 0..2] /\ cancelSent' \in [Goals -> BOOLEAN]
  <2>1. cancels[g] \in 0..1  BY DEF Inv, TypeOK, Watch
  <2>2. cancels' = cancels \/ cancels' = [cancels EXCEPT ![g] = @ + 1]  BY <1>2
  <2>3. cancelSent' = cancelSent \/ cancelSent' = [cancelSent EXCEPT ![g] = TRUE]  BY <1>2
  <2>4. cancels' \in [Goals -> 0..2]  BY <2>1, <2>2 DEF Inv, TypeOK
  <2>5. cancelSent' \in [Goals -> BOOLEAN]  BY <2>3 DEF Inv, TypeOK
  <2>. QED  BY <2>4, <2>5
<1>3. TypeOK'  BY <1>1, <1>9 DEF Inv, TypeOK
<1>4. Current'  BY <1>1 DEF Inv, Current, SetBool
<1>5. Fresh'  BY <1>1, <1>2 DEF Inv, TypeOK, Fresh
<1>6. Watch'  BY <1>1, <1>2 DEF Inv, TypeOK, Watch, Cancellable, SetBool
<1>7. LateCancel'
  BY <1>1, <1>2 DEF Inv, TypeOK, Watch, LateCancel, Cancellable, CancelMayFail, SetBool
<1>8. ThirdPartySeen'  BY <1>1 DEF Inv, ThirdPartySeen, SetBool
<1>. QED  BY <1>3, <1>4, <1>5, <1>6, <1>7, <1>8 DEF Inv

\* One step per action.
LEMMA NextInv == Inv /\ [Next]_vars => Inv'
<1> SUFFICES ASSUME Inv, [Next]_vars PROVE Inv'
  OBVIOUS
<1> USE CommandAssumption
<1>1. CASE RefuseCommand
  BY <1>1, PlainEnds DEF RefuseCommand, Inv, TypeOK, Current, Fresh, Watch, LateCancel,
     ThirdPartySeen, Cancellable, CancelMayFail, SetBool, watchVars, serverVars,
     envVars, Goals
<1>2. CASE StartCommand
  BY <1>2 DEF StartCommand, Inv, TypeOK, Current, Fresh, Watch, LateCancel,
     ThirdPartySeen, Cancellable, CancelMayFail, SetBool, watchVars, serverVars,
     envVars, Goals
<1>3. CASE ServerMissing
  BY <1>3, EndKeepsInv, PlainEnds, EndAsCases DEF ServerMissing, Inv, TypeOK, Goals,
     watchVars
<1>4. CASE Send
  <2>1. /\ pc = "server" /\ pc' = "sent" /\ srv' = [srv EXCEPT ![cur] = "flight"]
        /\ UNCHANGED <<cur, op, out, sent, latched, scene, abandoned, cancelSent, cancels,
                       fut, cb, res, adapter, act, ctx>>
    BY <1>4 DEF Send, watchVars, envVars
  <2>2. \/ ros2' = [ros2 EXCEPT ![cur] = TRUE]
        \/ ros2' = [ros2 EXCEPT ![cur] = FALSE] /\ (adapter \/ SetBool)
    <3>1. PICK publishers \in VisiblePublishers :
            ros2' = [ros2 EXCEPT ![cur] = ~SetBool /\ publishers = 0]
      BY <1>4 DEF Send
    <3>2. ~adapter => publishers = 0  BY DEF VisiblePublishers
    <3>3. CASE ~SetBool /\ publishers = 0
      <4>1. (~SetBool /\ publishers = 0) = TRUE  BY <3>3
      <4>. QED  BY <3>1, <4>1
    <3>4. CASE ~(~SetBool /\ publishers = 0)
      <4>1. (~SetBool /\ publishers = 0) = FALSE  BY <3>4
      <4>. QED  BY <3>1, <3>2, <3>4, <4>1
    <3>. QED  BY <3>3, <3>4
  <2>3. cur \in Goals /\ out[cur] = "none" /\ srv[cur] = "unsent" /\ op[cur] \in Ops
    BY <2>1 DEF Inv, Current
  <2>4. ~abandoned[cur] /\ ~cancelSent[cur] /\ fut[cur] = "none" /\ cancels[cur] = 0
    BY <2>3 DEF Inv, Fresh, Watch
  <2>5. TypeOK'  BY <2>1, <2>2, <2>3 DEF Inv, TypeOK
  <2>6. Current'  BY <2>1, <2>3 DEF Inv, TypeOK, Current
  <2>7. Fresh'
    BY <2>1, <2>3, CommandAssumption DEF Inv, TypeOK, Fresh, Goals
  <2>8. Watch'
    BY <2>1, <2>2, <2>3, <2>4 DEF Inv, TypeOK, Watch, Cancellable, SetBool
  <2>9. LateCancel'
    BY <2>1, <2>2, <2>3, <2>4 DEF Inv, TypeOK, LateCancel, Cancellable, CancelMayFail,
       SetBool
  <2>10. ThirdPartySeen'
    BY <2>1, <2>2, <2>3 DEF Inv, TypeOK, ThirdPartySeen, SetBool
  <2>. QED  BY <2>5, <2>6, <2>7, <2>8, <2>9, <2>10 DEF Inv
<1>5. CASE Interrupted
  BY <1>5, EndKeepsInv, PlainEnds DEF Interrupted, Inv, TypeOK, Goals, watchVars
<1>6. CASE SetBoolAnswered
  <2>1. PICK a \in ServerAnswers :
          IF SetBoolResult(a).done
            THEN sent' = cur /\ pc' = "confirm" /\ UNCHANGED <<out, latched, scene>>
            ELSE EndAs("RESULT", a) /\ UNCHANGED sent
    BY <1>6 DEF SetBoolAnswered
  <2>2. CASE SetBoolResult(a).done
    <3>1. /\ pc = "sent" /\ SetBool /\ sent' = cur /\ pc' = "confirm"
          /\ UNCHANGED <<cur, op, ros2, out, latched, scene, abandoned, cancelSent,
                         cancels, srv, fut, cb, res, adapter, act, ctx>>
      BY <1>6, <2>1, <2>2 DEF SetBoolAnswered, watchVars, serverVars, envVars
    <3>2. TypeOK'  BY <3>1 DEF Inv, TypeOK
    <3>3. Current' /\ Fresh' /\ Watch'
      BY <3>1 DEF Inv, Current, Fresh, Watch, Cancellable, SetBool
    <3>4. LateCancel' /\ ThirdPartySeen'
      BY <3>1 DEF Inv, LateCancel, ThirdPartySeen, Cancellable, CancelMayFail, SetBool
    <3>. QED  BY <3>2, <3>3, <3>4 DEF Inv
  <2>3. CASE ~SetBoolResult(a).done
    BY <1>6, <2>1, <2>3, EndAsResult, EndKeepsInv DEF SetBoolAnswered, Inv, TypeOK
  <2>. QED  BY <2>2, <2>3
<1>7. CASE SetBoolTimeout
  BY <1>7, EndKeepsInv, PlainEnds, EndAsCases DEF SetBoolTimeout, Inv, TypeOK, Goals,
     watchVars
<1>8. CASE GoalRejected
  BY <1>8, EndKeepsInv, PlainEnds, EndAsCases DEF GoalRejected, Inv, TypeOK, Goals,
     watchVars
<1>9. CASE GoalAccepted
  BY <1>9 DEF GoalAccepted, Inv, TypeOK, Current, Fresh, Watch, LateCancel,
     ThirdPartySeen, Cancellable, CancelMayFail, SetBool, watchVars, serverVars,
     envVars, Goals
<1>10. CASE ResponseTimeout
  BY <1>10 DEF ResponseTimeout, Inv, TypeOK, Current, Fresh, Watch, LateCancel,
     ThirdPartySeen, Cancellable, CancelMayFail, SetBool, watchVars, serverVars,
     envVars, Goals
<1>11. CASE Abandon
  BY <1>11 DEF Abandon, Inv, TypeOK, Current, Fresh, Watch, LateCancel, ThirdPartySeen,
     Cancellable, CancelMayFail, SetBool, watchVars, serverVars, envVars, Goals
<1>12. CASE RecheckResponse  BY <1>12, RecheckInv
<1>13. CASE GoalResult
  <2>1. PICK a \in ServerAnswers : ResultRead(a)  BY <1>13 DEF GoalResult
  <2>2. CASE pc' = "confirm" /\ UNCHANGED <<out, latched, scene>>
    BY <1>13, <2>2 DEF GoalResult, Inv, TypeOK, Current, Fresh, Watch, LateCancel,
       ThirdPartySeen, Cancellable, CancelMayFail, SetBool, watchVars, serverVars,
       envVars
  <2>. QED
    BY <1>13, <2>1, <2>2, ResultReadCases, EndKeepsInv DEF GoalResult, Inv, TypeOK
<1>14. CASE ResultTimeout
  BY <1>14 DEF ResultTimeout, Inv, TypeOK, Current, Fresh, Watch, LateCancel,
     ThirdPartySeen, Cancellable, CancelMayFail, SetBool, watchVars, serverVars,
     envVars, Goals
<1>15. CASE DeadlineCancel  BY <1>15, DeadlineInv
<1>16. CASE SkipConfirm
  BY <1>16, EndKeepsInv, PlainEnds DEF SkipConfirm, Inv, TypeOK, Goals, watchVars
<1>17. CASE OpenWindow
  BY <1>17 DEF OpenWindow, Inv, TypeOK, Current, Fresh, Watch, LateCancel,
     ThirdPartySeen, Cancellable, CancelMayFail, SetBool, watchVars, serverVars,
     envVars, Goals
<1>18. CASE CloseWindow
  BY <1>18, EndKeepsInv, PlainEnds DEF CloseWindow, Inv, TypeOK, Goals, watchVars
<1>19. CASE \E g \in Goals : ServerDecides(g)
  BY <1>19 DEF ServerDecides, Inv, TypeOK, Current, Fresh, Watch, LateCancel,
     ThirdPartySeen, Cancellable, CancelMayFail, SetBool, watchVars, serverVars,
     envVars, tickVars
<1>20. CASE \E g \in Goals : ServerEnds(g)
  BY <1>20 DEF ServerEnds, Inv, TypeOK, Current, Fresh, Watch, LateCancel,
     ThirdPartySeen, Cancellable, CancelMayFail, SetBool, watchVars, serverVars,
     envVars, tickVars
<1>21. CASE \E g \in Goals : ResponseArrives(g)
  BY <1>21 DEF ResponseArrives, Inv, TypeOK, Current, Fresh, Watch, LateCancel,
     ThirdPartySeen, Cancellable, CancelMayFail, SetBool, watchVars, serverVars,
     envVars, tickVars
<1>22. CASE \E g \in Goals : ResultArrives(g)
  BY <1>22 DEF ResultArrives, Inv, TypeOK, Current, Fresh, Watch, LateCancel,
     ThirdPartySeen, Cancellable, CancelMayFail, SetBool, watchVars, serverVars,
     envVars, tickVars
<1>23. CASE \E g \in Goals : ResponseCallback(g)  BY <1>23, CallbackInv
<1>24. CASE Shutdown
  BY <1>24 DEF Shutdown, Inv, TypeOK, Current, Fresh, Watch, LateCancel, ThirdPartySeen,
     Cancellable, CancelMayFail, SetBool, watchVars, serverVars, envVars, tickVars
<1>25. CASE UNCHANGED vars
  BY <1>25 DEF vars, Inv, TypeOK, Current, Fresh, Watch, LateCancel, ThirdPartySeen,
     Cancellable, CancelMayFail, SetBool, watchVars, serverVars, envVars, tickVars
<1>. QED
  BY <1>1, <1>2, <1>3, <1>4, <1>5, <1>6, <1>7, <1>8, <1>9, <1>10, <1>11, <1>12, <1>13,
     <1>14, <1>15, <1>16, <1>17, <1>18, <1>19, <1>20, <1>21, <1>22, <1>23, <1>24, <1>25
     DEF Next, TickStep

-----------------------------------------------------------------------------
(* What an ended command leaves behind.                                    *)

\* The record is of the command in progress from its acceptance on, and of every command
\* that was done; every other end is latched.
Recorded ==
  /\ sent <= cur
  /\ pc \in {"accepted", "deadline", "confirm", "window"} => sent = cur
  /\ \A g \in Goals : out[g] = "DONE" => g <= sent
  /\ \A g \in Goals : out[g] \notin {"none", "DONE"} => g \in latched

\* What the client was told of a goal is true, and a goal that is being confirmed is over.
Told ==
  /\ \A g \in Goals :
       /\ fut[g] = "handle" => srv[g] \in {"accepted", "ended"}
       /\ fut[g] = "null" => srv[g] = "rejected"
       /\ res[g] => srv[g] = "ended"
  /\ pc \in {"confirm", "window"} => SetBool \/ srv[cur] = "ended"

\* The scene signal, by the grip it is of: none, or the newest that was done.
Grips == {g \in Goals : out[g] = "DONE" /\ op[g] # "actuate"}

SceneOf ==
  act.tmr =>
    \/ Grips = {} /\ scene = "none"
    \/ \E g \in Grips : (\A h \in Grips : h <= g) /\ scene = op[g]

AfterEnd == Recorded /\ Told /\ NoUnattendedGoal /\ SceneOf

\* The ends of a command that was sent, but for DONE.
Failures == {"interrupted"} \cup ActuatorFailures \cup WindowFailures

\* Each of them is a fault: none is a verdict a retry may absorb.
LEMMA FailuresAreFaults ==
  ASSUME NEW o \in Failures
  PROVE  o \in Ends /\ o # "DONE" /\ IsFault(ReasonOf(o))
<1> DEFINE r == ReasonOf(o)
<1>1. o # "DONE" /\ r \in ActuatorFailures \cup WindowFailures
  BY CommandAssumption DEF Failures, ReasonOf, ActuatorFailures
<1>2. r \in Reasons \ (Verdicts \cup {"NONE"})
  BY <1>1, CommandAssumption DEF Reasons, Verdicts, ActuatorFailures, VerificationErrors,
     ContractFailures
<1>3. r \notin Verdicts /\ r # "NONE"  BY <1>2
<1>4. ClassOf(r) # "VERDICT"
  <2>1. r \in ActuatorFailures \/ r = "STATE_MISSING" \/ r \in {"STATE_STALE", "STATE_UNKNOWN"}
        \/ r \in VerificationErrors \/ r \in ContractFailures
    BY <1>2 DEF Reasons
  <2>. QED  BY <1>3, <2>1 DEF ClassOf, ActuatorFailures, VerificationErrors, ContractFailures
<1>5. o \in Ends
  BY CommandAssumption DEF Failures, Ends, Reasons, Verdicts, ActuatorFailures,
     VerificationErrors, ContractFailures
<1>. QED  BY <1>1, <1>3, <1>4, <1>5 DEF IsFault

\* A result read at the tick thread fails the command for a fault, if it is not confirmed.
LEMMA ResultReadFails ==
  ASSUME NEW a, ResultRead(a)
  PROVE  \/ pc' = "confirm" /\ UNCHANGED <<out, latched, scene>>
         \/ \E o \in Failures : End(o)
<1>1. CASE MapOutcome(Cmd(cur), "RESULT", a) = Done
  BY <1>1, FailDone DEF ResultRead
<1>2. ASSUME NEW r \in ActuatorFailures, MapOutcome(Cmd(cur), "RESULT", a) = Fail(r)
      PROVE  \E o \in Failures : End(o)
  BY <1>2, FailDone DEF ResultRead, Failures
<1>. QED  BY <1>1, <1>2, ResultReasons

\* A SetBool that did not answer success fails it too.
LEMMA SetBoolFails ==
  ASSUME NEW a, SetBool, ~SetBoolResult(a).done, EndAs("RESULT", a)
  PROVE  \E o \in Failures : End(o)
<1>1. MapOutcome(Cmd(cur), "RESULT", a) = SetBoolResult(a)
  BY DEF MapOutcome, Cmd, SetBool
<1>2. MapOutcome(Cmd(cur), "RESULT", a) = Fail("COMMAND_REJECTED")
  BY <1>1 DEF SetBoolResult, Done
<1>. QED  BY <1>2, FailDone DEF EndAs, Failures, ActuatorFailures

\* How a command may end: done from its confirmation only, and with its goal over, given
\* up without a response, held by an interruption, or cancelled at the result deadline.
MayEnd(o) ==
  /\ o = "DONE" => pc \in {"confirm", "window"}
  /\ srv[cur] \in {"flight", "accepted"} =>
       \/ SetBool
       \/ o \in {"SEND_TIMEOUT", "interrupted"}
       \/ o = "COMMAND_TIMEOUT" /\ (Cancellable(cur) /\ ctx => cancels'[cur] = 1)

\* An end that may be keeps what ended commands leave behind.
LEMMA EndKeepsAfter ==
  ASSUME Inv, AfterEnd, pc # "idle", NEW o \in Failures \cup {"DONE"}, End(o), MayEnd(o),
         \A g \in Goals \ {cur} : cancels'[g] = cancels[g],
         UNCHANGED <<cur, op, ros2, sent, serverVars, envVars>>
  PROVE  AfterEnd'
<1>1. o \in Ends /\ o # "none"
  BY FailuresAreFaults, PlainEnds DEF Failures, ActuatorFailures
<1>2. /\ pc' = "idle" /\ out'[cur] = o /\ cur \in Goals /\ out[cur] = "none" /\ op[cur] \in Ops
      /\ \A g \in Goals \ {cur} : out'[g] = out[g]
      /\ UNCHANGED <<cur, op, ros2, sent, srv, fut, cb, res, adapter, act, ctx>>
  BY <1>1, EndTypes DEF Inv, Current, serverVars, envVars
<1>3. Recorded'
  <2>1. o # "DONE" => latched' = latched \cup {cur}
    BY FailuresAreFaults DEF End
  <2>2. latched \subseteq latched'  BY DEF End
  <2>3. o = "DONE" => sent = cur  BY DEF AfterEnd, Recorded, MayEnd
  <2>. QED
    BY <1>2, <2>1, <2>2, <2>3, CommandAssumption DEF AfterEnd, Recorded, Inv, TypeOK, Goals
<1>4. Told'  BY <1>2 DEF AfterEnd, Told
<1>5. NoUnattendedGoal'
  BY <1>2 DEF AfterEnd, NoUnattendedGoal, MayEnd, Ended, Cancellable, SetBool
<1>6. SceneOf'
  <2>1. CASE o = "DONE" /\ op[cur] # "actuate"
    <3>1. Grips' = Grips \cup {cur}  BY <1>2, <2>1 DEF Grips
    <3>2. \A h \in Grips : h <= cur
      BY <1>2, CommandAssumption DEF Grips, Inv, Fresh, Goals, TypeOK
    <3>3. act.tmr => scene' = op[cur]  BY <2>1 DEF End
    <3>. QED  BY <1>2, <3>1, <3>2, <3>3, CommandAssumption DEF SceneOf, Goals
  <2>2. CASE ~(o = "DONE" /\ op[cur] # "actuate")
    <3>1. Grips' = Grips  BY <1>1, <1>2, <2>2 DEF Grips
    <3>2. scene' = scene  BY <2>2 DEF End
    <3>. QED  BY <1>2, <3>1, <3>2 DEF AfterEnd, SceneOf
  <2>. QED  BY <2>1, <2>2
<1>. QED  BY <1>3, <1>4, <1>5, <1>6 DEF AfterEnd

\* A step that ends nothing, and leaves the goals at the server, the record and the scene.
LEMMA QuietKeepsAfter ==
  ASSUME Inv, AfterEnd, UNCHANGED <<cur, op, ros2, out, sent, latched, scene, srv, fut, res, adapter, act>>,
         pc' \in {"accepted", "deadline", "confirm", "window"} => sent = cur,
         pc' \in {"confirm", "window"} => SetBool \/ srv[cur] = "ended",
         ctx' => ctx,
         \A g \in Goals : out[g] = "COMMAND_TIMEOUT" => cancels'[g] = cancels[g]
  PROVE  AfterEnd'
<1>1. Recorded' /\ Told'  BY DEF AfterEnd, Recorded, Told, SetBool
<1>2. NoUnattendedGoal'  BY DEF AfterEnd, NoUnattendedGoal, Ended, Cancellable, SetBool
<1>3. SceneOf'  BY DEF AfterEnd, SceneOf, Grips
<1>. QED  BY <1>1, <1>2, <1>3 DEF AfterEnd

\* One step per action.
LEMMA NextAfterEnd == Inv /\ AfterEnd /\ [Next]_vars => AfterEnd'
<1> SUFFICES ASSUME Inv, AfterEnd, [Next]_vars PROVE AfterEnd'
  OBVIOUS
<1> USE CommandAssumption DEF tickVars, watchVars, serverVars, envVars
<1>1. CASE RefuseCommand
  <2>1. /\ pc = "idle" /\ cur + 1 \in Goals /\ cur' = cur + 1 /\ latched' = latched \cup {cur + 1}
        /\ out[cur + 1] = "none" /\ srv[cur + 1] = "unsent"
        /\ UNCHANGED <<pc, op, ros2, sent, scene, cancels, srv, fut, res, adapter, act, ctx>>
    BY <1>1 DEF RefuseCommand, Inv, TypeOK, Fresh, Goals
  <2>2. PICK r \in Refusals : out' = [out EXCEPT ![cur + 1] = r]
    BY <1>1 DEF RefuseCommand
  <2>3. r # "DONE" /\ r # "none"
    BY CommandAssumption DEF ContractFailures
  <2>4. /\ out'[cur + 1] = r
        /\ \A g \in Goals \ {cur + 1} : out'[g] = out[g]
    BY <2>1, <2>2 DEF Inv, TypeOK
  <2>5. Recorded' /\ Told'
    BY <2>1, <2>3, <2>4 DEF AfterEnd, Recorded, Told, SetBool, Inv, TypeOK, Goals
  <2>6. NoUnattendedGoal'
    BY <2>1, <2>4 DEF AfterEnd, NoUnattendedGoal, Ended, Cancellable, SetBool
  <2>7. Grips' = Grips  BY <2>1, <2>3, <2>4 DEF Grips
  <2>8. SceneOf'  BY <2>1, <2>7 DEF AfterEnd, SceneOf
  <2>. QED  BY <2>5, <2>6, <2>8 DEF AfterEnd
<1>2. CASE StartCommand
  <2>1. /\ pc = "idle" /\ pc' = "server" /\ cur + 1 \in Goals /\ cur' = cur + 1
        /\ out[cur + 1] = "none"
        /\ \A g \in Goals \ {cur + 1} : op'[g] = op[g]
        /\ UNCHANGED <<ros2, out, sent, latched, scene, cancels, srv, fut, res, adapter, act, ctx>>
    BY <1>2 DEF StartCommand, Inv, TypeOK, Fresh, Goals
  <2>2. Recorded' /\ Told'
    BY <2>1 DEF AfterEnd, Recorded, Told, SetBool, Inv, TypeOK, Goals
  <2>3. NoUnattendedGoal'
    BY <2>1 DEF AfterEnd, NoUnattendedGoal, Ended, Cancellable, SetBool
  <2>4. Grips' = Grips  BY <2>1 DEF Grips
  <2>5. cur + 1 \notin Grips  BY <2>1 DEF Grips
  <2>6. SceneOf'  BY <2>1, <2>4, <2>5 DEF AfterEnd, SceneOf, Grips
  <2>. QED  BY <2>2, <2>3, <2>6 DEF AfterEnd
<1>3. CASE ServerMissing
  <2>1. srv[cur] = "unsent"  BY <1>3 DEF ServerMissing, Inv, Current
  <2>2. End("SERVER_MISSING") \/ End("interrupted")
    BY <1>3, EndAsCases DEF ServerMissing
  <2>. QED
    BY <1>3, <2>1, <2>2, EndKeepsAfter DEF ServerMissing, MayEnd, Failures, ActuatorFailures
<1>4. CASE Send
  <2>1. /\ pc = "server" /\ pc' = "sent" /\ srv' = [srv EXCEPT ![cur] = "flight"]
        /\ cur \in Goals /\ out[cur] = "none" /\ fut[cur] = "none" /\ ~res[cur]
        /\ \A g \in Goals \ {cur} : ros2'[g] = ros2[g]
        /\ UNCHANGED <<cur, op, out, sent, latched, scene, cancels, fut, res, adapter, act, ctx>>
    BY <1>4 DEF Send, Inv, TypeOK, Current, Fresh, AfterEnd, Told
  <2>2. \A g \in Goals \ {cur} : srv'[g] = srv[g]  BY <2>1 DEF Inv, TypeOK
  <2>3. Recorded' /\ Told'  BY <2>1, <2>2 DEF AfterEnd, Recorded, Told, SetBool
  <2>4. NoUnattendedGoal'
    BY <2>1, <2>2 DEF AfterEnd, NoUnattendedGoal, Ended, Cancellable, SetBool
  <2>5. SceneOf'  BY <2>1 DEF AfterEnd, SceneOf, Grips
  <2>. QED  BY <2>3, <2>4, <2>5 DEF AfterEnd
<1>5. CASE Interrupted
  BY <1>5, EndKeepsAfter DEF Interrupted, MayEnd, Failures
<1>6. CASE SetBoolAnswered
  <2>1. PICK a \in ServerAnswers :
          IF SetBoolResult(a).done
            THEN sent' = cur /\ pc' = "confirm" /\ UNCHANGED <<out, latched, scene>>
            ELSE EndAs("RESULT", a) /\ UNCHANGED sent
    BY <1>6 DEF SetBoolAnswered
  <2>2. CASE SetBoolResult(a).done
    <3>1. /\ pc = "sent" /\ SetBool /\ sent' = cur /\ pc' = "confirm" /\ cur \in Goals
          /\ UNCHANGED <<cur, op, ros2, out, latched, scene, cancels, srv, fut, res, adapter, act, ctx>>
      BY <1>6, <2>1, <2>2 DEF SetBoolAnswered, Inv, Current
    <3>2. Recorded' /\ Told'
      BY <3>1 DEF AfterEnd, Recorded, Told, SetBool, Inv, TypeOK, Goals
    <3>3. NoUnattendedGoal' /\ SceneOf'
      BY <3>1 DEF AfterEnd, NoUnattendedGoal, SceneOf, Grips, Ended, Cancellable, SetBool
    <3>. QED  BY <3>2, <3>3 DEF AfterEnd
  <2>3. CASE ~SetBoolResult(a).done
    <3>1. PICK o \in Failures : End(o)
      BY <1>6, <2>1, <2>3, SetBoolFails DEF SetBoolAnswered
    <3>. QED
      BY <1>6, <2>1, <2>3, <3>1, EndKeepsAfter, FailuresAreFaults DEF SetBoolAnswered, MayEnd
  <2>. QED  BY <2>2, <2>3
<1>7. CASE SetBoolTimeout
  <2>1. End("COMMAND_TIMEOUT")  BY <1>7, EndAsCases DEF SetBoolTimeout
  <2>. QED
    BY <1>7, <2>1, EndKeepsAfter DEF SetBoolTimeout, MayEnd, Failures, ActuatorFailures
<1>8. CASE GoalRejected
  <2>1. End("COMMAND_REJECTED") /\ srv[cur] = "rejected"
    BY <1>8, EndAsCases DEF GoalRejected, Inv, Current, AfterEnd, Told
  <2>. QED
    BY <1>8, <2>1, EndKeepsAfter DEF GoalRejected, MayEnd, Failures, ActuatorFailures
<1>9. CASE GoalAccepted
  <2>1. /\ pc = "sent" /\ pc' = "accepted" /\ sent' = cur /\ cur \in Goals
        /\ UNCHANGED <<cur, op, ros2, out, latched, scene, cancels, srv, fut, res, adapter, act, ctx>>
    BY <1>9 DEF GoalAccepted, Inv, Current
  <2>2. Recorded' /\ Told'
    BY <2>1 DEF AfterEnd, Recorded, Told, SetBool, Inv, TypeOK, Goals
  <2>3. NoUnattendedGoal' /\ SceneOf'
    BY <2>1 DEF AfterEnd, NoUnattendedGoal, SceneOf, Grips, Ended, Cancellable, SetBool
  <2>. QED  BY <2>2, <2>3 DEF AfterEnd
<1>10. CASE ResponseTimeout
  BY <1>10, QuietKeepsAfter DEF ResponseTimeout
<1>11. CASE Abandon
  BY <1>11, QuietKeepsAfter DEF Abandon
<1>12. CASE RecheckResponse
  <2>1. End("SEND_TIMEOUT")
    BY <1>12, EndAsCases DEF RecheckResponse, Inv, Current
  <2>2. \A g \in Goals \ {cur} : cancels'[g] = cancels[g]
    BY <1>12 DEF RecheckResponse, CancelGoal, Inv, TypeOK
  <2>. QED
    BY <1>12, <2>1, <2>2, EndKeepsAfter DEF RecheckResponse, MayEnd, Failures, ActuatorFailures
<1>13. CASE GoalResult
  <2>1. PICK a \in ServerAnswers : ResultRead(a)  BY <1>13 DEF GoalResult
  <2>2. pc = "accepted" /\ srv[cur] = "ended" /\ sent = cur
    BY <1>13 DEF GoalResult, Inv, Current, AfterEnd, Told, Recorded
  <2>3. CASE pc' = "confirm" /\ UNCHANGED <<out, latched, scene>>
    BY <1>13, <2>2, <2>3, QuietKeepsAfter DEF GoalResult
  <2>4. ASSUME NEW o \in Failures, End(o)  PROVE AfterEnd'
    BY <1>13, <2>2, <2>4, EndKeepsAfter, FailuresAreFaults DEF GoalResult, MayEnd
  <2>. QED  BY <2>1, <2>3, <2>4, ResultReadFails
<1>14. CASE ResultTimeout
  BY <1>14, QuietKeepsAfter DEF ResultTimeout, AfterEnd, Recorded
<1>15. CASE DeadlineCancel
  <2>1. pc = "deadline" /\ cur \in Goals /\ cancels[cur] = 0 /\ sent = cur
    BY <1>15 DEF DeadlineCancel, Inv, TypeOK, Current, Watch, AfterEnd, Recorded
  <2>2. CASE Cancellable(cur) /\ cancels' = [cancels EXCEPT ![cur] = @ + 1] /\ EndAs("NO_RESULT", NoAnswer)
    <3>1. cancels'[cur] = 1 /\ \A g \in Goals \ {cur} : cancels'[g] = cancels[g]
      BY <2>1, <2>2 DEF Inv, TypeOK
    <3>2. End("COMMAND_TIMEOUT")  BY <2>2, EndAsCases
    <3>. QED
      BY <1>15, <2>1, <3>1, <3>2, EndKeepsAfter DEF DeadlineCancel, MayEnd, Failures, ActuatorFailures
  <2>3. CASE Cancellable(cur) /\ CancelMayFail(cur) /\ UNCHANGED cancels
    <3>1. CASE res[cur] /\ \E a \in ServerAnswers : ResultRead(a)
      <4>1. PICK a \in ServerAnswers : ResultRead(a)  BY <3>1
      <4>2. srv[cur] = "ended"  BY <2>1, <3>1 DEF AfterEnd, Told
      <4>3. CASE pc' = "confirm" /\ UNCHANGED <<out, latched, scene>>
        BY <1>15, <2>1, <2>3, <4>2, <4>3, QuietKeepsAfter DEF DeadlineCancel
      <4>4. ASSUME NEW o \in Failures, End(o)  PROVE AfterEnd'
        BY <1>15, <2>1, <2>3, <4>2, <4>4, EndKeepsAfter, FailuresAreFaults DEF DeadlineCancel, MayEnd
      <4>. QED  BY <4>1, <4>3, <4>4, ResultReadFails
    <3>2. CASE EndAs("NO_RESULT", NoAnswer)
      <4>1. End("COMMAND_TIMEOUT")  BY <3>2, EndAsCases
      <4>. QED
        BY <1>15, <2>1, <2>3, <4>1, EndKeepsAfter DEF DeadlineCancel, MayEnd, CancelMayFail,
           Failures, ActuatorFailures
    <3>. QED  BY <1>15, <2>1, <2>3, <3>1, <3>2 DEF DeadlineCancel
  <2>4. CASE ~Cancellable(cur) /\ UNCHANGED cancels /\ EndAs("NO_RESULT", NoAnswer)
    <3>1. End("COMMAND_TIMEOUT")  BY <2>4, EndAsCases
    <3>. QED
      BY <1>15, <2>1, <2>4, <3>1, EndKeepsAfter DEF DeadlineCancel, MayEnd, Failures, ActuatorFailures
  <2>. QED  BY <1>15, <2>2, <2>3, <2>4 DEF DeadlineCancel
<1>16. CASE SkipConfirm
  BY <1>16, EndKeepsAfter DEF SkipConfirm, MayEnd, AfterEnd, Told
<1>17. CASE OpenWindow
  BY <1>17, QuietKeepsAfter DEF OpenWindow, AfterEnd, Recorded, Told
<1>18. CASE CloseWindow
  <2>1. PICK o \in {"DONE"} \cup WindowFailures : End(o)  BY <1>18 DEF CloseWindow
  <2>. QED
    BY <1>18, <2>1, EndKeepsAfter DEF CloseWindow, MayEnd, Failures, AfterEnd, Told
<1>19. CASE \E g \in Goals : ServerDecides(g) \/ ServerEnds(g)
  <2>1. PICK g \in Goals : ServerDecides(g) \/ ServerEnds(g)  BY <1>19
  <2>2. /\ UNCHANGED <<pc, cur, op, ros2, out, sent, latched, scene, cancels, fut, res, adapter, act, ctx>>
        /\ srv[g] \in {"flight", "accepted"}
        /\ srv'[g] \in {"accepted", "rejected", "ended"}
        /\ srv[g] = "accepted" => srv'[g] = "ended"
        /\ \A h \in Goals \ {g} : srv'[h] = srv[h]
    BY <2>1 DEF ServerDecides, ServerEnds, Inv, TypeOK
  <2>3. Recorded' /\ Told'
    BY <2>2 DEF AfterEnd, Recorded, Told, SetBool, Inv, Current
  <2>4. NoUnattendedGoal'
    BY <2>2 DEF AfterEnd, NoUnattendedGoal, Ended, Cancellable, SetBool
  <2>5. SceneOf'  BY <2>2 DEF AfterEnd, SceneOf, Grips
  <2>. QED  BY <2>3, <2>4, <2>5 DEF AfterEnd
<1>20. CASE \E g \in Goals : ResponseArrives(g) \/ ResultArrives(g)
  <2>1. PICK g \in Goals : ResponseArrives(g) \/ ResultArrives(g)  BY <1>20
  <2>2. /\ UNCHANGED <<pc, cur, op, ros2, out, sent, latched, scene, cancels, srv, adapter, act, ctx>>
        /\ \A h \in Goals \ {g} : fut'[h] = fut[h] /\ res'[h] = res[h]
        /\ fut'[g] = "handle" => srv[g] \in {"accepted", "ended"}
        /\ fut'[g] = "null" => srv[g] = "rejected"
        /\ res'[g] => srv[g] = "ended"
    BY <2>1 DEF ResponseArrives, ResultArrives, Inv, TypeOK, AfterEnd, Told
  <2>3. Recorded' /\ Told'  BY <2>2 DEF AfterEnd, Recorded, Told, SetBool
  <2>4. NoUnattendedGoal' /\ SceneOf'
    BY <2>2 DEF AfterEnd, NoUnattendedGoal, Ended, Cancellable, SetBool, SceneOf, Grips
  <2>. QED  BY <2>3, <2>4 DEF AfterEnd
<1>21. CASE \E g \in Goals : ResponseCallback(g)
  <2>1. PICK g \in Goals : ResponseCallback(g)  BY <1>21
  <2>2. \A h \in Goals : out[h] = "COMMAND_TIMEOUT" => cancels'[h] = cancels[h]
    BY <2>1 DEF ResponseCallback, CancelGoal, Inv, TypeOK, Current, Watch
  <2>. QED
    BY <2>1, <2>2, QuietKeepsAfter DEF ResponseCallback, AfterEnd, Recorded, Told
<1>22. CASE Shutdown
  BY <1>22, QuietKeepsAfter DEF Shutdown, AfterEnd, Recorded, Told
<1>23. CASE UNCHANGED vars
  BY <1>23, QuietKeepsAfter DEF vars, AfterEnd, Recorded, Told
<1>. QED
  BY <1>1, <1>2, <1>3, <1>4, <1>5, <1>6, <1>7, <1>8, <1>9, <1>10, <1>11, <1>12, <1>13,
     <1>14, <1>15, <1>16, <1>17, <1>18, <1>19, <1>20, <1>21, <1>22, <1>23
     DEF Next, TickStep

LEMMA InitAfterEnd == Init => AfterEnd
BY CommandAssumption DEF Init, AfterEnd, Recorded, Told, NoUnattendedGoal, Ended, SceneOf,
   Grips, Goals

-----------------------------------------------------------------------------
(* The theorems.                                                           *)

\* The inductive invariant, from which every theorem below follows.
THEOREM Invariance == Spec => []Inv
BY InitInv, NextInv, PTL DEF Spec

\* Every value the protocol's state ever takes is one the code's types hold.
THEOREM TypeCorrect == Spec => []TypeOK
<1>1. Inv => TypeOK  BY DEF Inv
<1>. QED  BY <1>1, Invariance, PTL

\* A goal accepted after its send timeout does not run on uncancelled, whichever
\* thread sees the acceptance first.
THEOREM LateAcceptIsCancelled == Spec => []LateAcceptCancelled
<1>1. ASSUME Inv, NEW g \in Goals, out[g] = "SEND_TIMEOUT", Cancellable(g),
             fut[g] = "handle", cb[g], srv[g] = "accepted", ctx
      PROVE  cancels[g] > 0
  <2>1. abandoned[g]  BY <1>1 DEF Inv, Watch
  <2>2. ~(g = cur /\ pc = "recheck")  BY <1>1 DEF Inv, Current
  <2>3. cancelSent[g]  BY <1>1, <2>1, <2>2 DEF Inv, LateCancel
  <2>4. cancels[g] = 1  BY <1>1, <2>3 DEF Inv, LateCancel, CancelMayFail
  <2>. QED  BY <2>4
<1>2. Inv => LateAcceptCancelled  BY <1>1 DEF LateAcceptCancelled
<1>. QED  BY <1>2, Invariance, PTL

\* A goal gets at most one cancel request from the tick thread and the callback together,
\* for any number of commands; the goal of an interrupted command and that of a
\* ros2_control gripper get none, from either thread.
THEOREM CancelledAsAllowed == Spec => []CancelsAsAllowed
<1>1. ASSUME Inv, NEW g \in Goals PROVE cancels[g] <= 1
  BY <1>1 DEF Inv, TypeOK, Watch
<1>2. ASSUME Inv, NEW g \in Goals, out[g] = "interrupted" PROVE cancels[g] = 0
  BY <1>2 DEF Inv, Current, Watch
<1>3. ASSUME Inv, ~adapter, act.interface = "gripper_command", NEW g \in Goals
      PROVE  cancels[g] = 0
  <2>1. CASE srv[g] = "unsent"  BY <1>3, <2>1 DEF Inv, Fresh
  <2>2. CASE srv[g] # "unsent"
    <3>1. ros2[g]  BY <1>3, <2>2 DEF Inv, ThirdPartySeen, SetBool
    <3>2. ~Cancellable(g)  BY <1>3, <3>1 DEF Cancellable, MayCancel
    <3>. QED  BY <1>3, <3>2 DEF Inv, Watch
  <2>. QED  BY <2>1, <2>2
<1>4. Inv => CancelsAsAllowed
  BY <1>1, <1>2, <1>3 DEF CancelsAsAllowed
<1>. QED  BY <1>4, Invariance, PTL

\* What ended commands leave behind is as AfterEnd says, in every state.
LEMMA AfterEndInvariance == Spec => []AfterEnd
<1>1. Init => Inv /\ AfterEnd  BY InitInv, InitAfterEnd
<1>2. Inv /\ AfterEnd /\ [Next]_vars => (Inv /\ AfterEnd)'  BY NextInv, NextAfterEnd
<1>. QED  BY <1>1, <1>2, PTL DEF Spec

\* A command that has ended leaves no goal running that nobody answers for: it was
\* given up without a response, held by a shutdown, or cancelled at its deadline.
THEOREM GoalsAttended == Spec => []NoUnattendedGoal
<1>1. AfterEnd => NoUnattendedGoal  BY DEF AfterEnd
<1>. QED  BY <1>1, AfterEndInvariance, PTL

\* A command the server applied and the record does not know is latched as a fault, so
\* that no grasp is judged against an older command.
THEOREM UnrecordedIsLatched == Spec => []AppliedButUnrecordedIsLatched
<1>1. ASSUME AfterEnd, Inv, NEW g \in Goals, Ended(g), g > sent
      PROVE  g \in latched
  <2>1. out[g] # "none"  BY <1>1 DEF Ended
  <2>2. out[g] # "DONE"
    BY <1>1, CommandAssumption DEF AfterEnd, Recorded, Inv, TypeOK, Goals
  <2>. QED  BY <1>1, <2>1, <2>2 DEF AfterEnd, Recorded
<1>2. AfterEnd /\ Inv => AppliedButUnrecordedIsLatched
  BY <1>1 DEF AppliedButUnrecordedIsLatched
<1>. QED  BY <1>2, AfterEndInvariance, Invariance, PTL

\* The scene signal is the newest grip's that was done: a failed one, a refused one or a
\* CommandActuator never moves it.
THEOREM SceneShowsNewestDone == Spec => []SceneSignalShowsNewestDone
<1>1. ASSUME AfterEnd, act.tmr
      PROVE  scene = IF Grips = {} THEN "none"
                     ELSE op[CHOOSE g \in Grips : \A h \in Grips : h <= g]
  <2>1. CASE Grips = {} /\ scene = "none"  BY <2>1
  <2>2. ASSUME NEW g \in Grips, \A h \in Grips : h <= g, scene = op[g]
        PROVE  scene = op[CHOOSE x \in Grips : \A h \in Grips : h <= x]
    <3> DEFINE top == CHOOSE x \in Grips : \A h \in Grips : h <= x
    <3>1. top \in Grips /\ \A h \in Grips : h <= top  BY <2>2
    <3>2. top <= g /\ g <= top /\ top \in Nat /\ g \in Nat
      BY <2>2, <3>1, CommandAssumption DEF Grips, Goals
    <3>3. top = g  BY <3>2
    <3>. QED  BY <2>2, <3>3
  <2>. QED  BY <1>1, <2>1, <2>2 DEF AfterEnd, SceneOf
<1>2. AfterEnd => SceneSignalShowsNewestDone
  BY <1>1 DEF SceneSignalShowsNewestDone, Grips
<1>. QED  BY <1>2, AfterEndInvariance, PTL

=============================================================================
