------------------------- MODULE EndEffectorCommand -------------------------
(***************************************************************************)
(* One EndEffectorDevice, its actuators and the commands the runner sends  *)
(* them (end_effector_registry.cpp: grip, actuate, command, commandSetBool,*)
(* commandGripper, commandTrajectory, confirm, finish).                    *)
(*                                                                         *)
(* Three parties interleave: the tick thread, which sends a goal and waits *)
(* in slices for its response, its result and its confirmation; the        *)
(* executor thread, which sets the goal response's future and THEN runs    *)
(* the goal response callback; and the server.  Each command is a number   *)
(* g in Goals: the late callback of an abandoned goal may run during a     *)
(* later command.  Waiting times are not counted: a wait may time out in   *)
(* any state in which its check found nothing.                             *)
(*                                                                         *)
(* The confirmation window is a choice among its outcomes here; what it    *)
(* reads, and why it may be trusted, is GraspVerification.                 *)
(***************************************************************************)
EXTENDS EndEffectorReason, ActuatorOutcome

CONSTANTS
  Actuators,      \* the contract's actuators: [interface, policy, tmr] records,
                  \* tmr: the device's scene_signal is tmr
  ServerAnswers,  \* the answers a server may give, a subset of Answers
  Refusals,       \* the reasons a port may be refused for, before anything is sent
  WindowFailures, \* the reasons a confirmation window may end with
  MaxGoals        \* bound: the commands of a run

ASSUME CommandAssumption ==
  /\ Actuators \subseteq [interface : Interfaces, policy : ResultPolicies, tmr : BOOLEAN]
  /\ ServerAnswers \subseteq Answers
  /\ Refusals \subseteq ContractFailures
  /\ WindowFailures \subseteq {"WRONG_EEF", "CONTRACT_MISMATCH", "STATE_MISSING",
                              "STATE_STALE", "ACTUATION_NOT_CONFIRMED"}
  /\ MaxGoals \in Nat \ {0}

Goals == 1..MaxGoals

VARIABLES
  adapter,     \* the TrainIt adapter serves the device and publishes its state;
               \* FALSE: a ros2_control controller, which publishes none
  act,         \* the actuator commanded (one per behaviour)
  pc,          \* where the tick thread is
  cur,         \* the newest command (0: none yet)
  op,          \* [Goals -> what it asks]
  ros2,        \* [Goals -> read as a third-party server when it was sent]
  srv,         \* [Goals -> the goal at the server]
  fut,         \* [Goals -> the goal response future (SetBool: the response)]
  cb,          \* [Goals -> the goal response callback has run]
  abandoned,   \* [Goals -> GoalWatch::abandoned]
  cancelSent,  \* [Goals -> GoalWatch::cancel_sent]
  cancels,     \* [Goals -> the cancel requests sent]
  res,         \* [Goals -> the result has reached the client]
  out,         \* [Goals -> what the command ended as]
  sent,        \* the newest command recorded as applied (recordSent); 0: none
  latched,     \* the commands whose FAULT was latched
  scene,       \* the newest value on eef/<id>/engaged, "none" before the first
  ctx          \* the ROS context is valid

tickVars   == <<pc, cur, op, ros2, out, sent, latched, scene>>
watchVars  == <<abandoned, cancelSent, cancels>>
serverVars == <<srv, fut, cb, res>>
envVars    == <<adapter, act, ctx>>
vars == <<tickVars, watchVars, serverVars, envVars>>

Ops == {"grip_engage", "grip_release", "actuate"}

\* A command's end: DONE, interrupted (COMMAND_ABORTED, "interrupted: the ROS
\* context shut down") or the reason it failed for.
Ends == {"DONE", "interrupted"} \cup Reasons

ReasonOf(o) == CASE o = "DONE" -> "NONE"
                 [] o = "interrupted" -> "COMMAND_ABORTED"
                 [] OTHER -> o

SetBool == act.interface = "set_bool"

\* What the runner may count on the device's state topic: discovery may not have
\* shown it the adapter's publisher yet, or have lost it.
VisiblePublishers == IF adapter THEN {0, 1} ELSE {0}

Cmd(g) == [interface |-> act.interface, engage |-> op[g] = "grip_engage",
           policy |-> act.policy, ros2 |-> ros2[g]]

\* A command that is still waited for has no end yet.
Ended(g) == out[g] # "none"

\* Whether the goal may be cancelled (GoalWatch::may_cancel).
Cancellable(g) == ~SetBool /\ MayCancel(act.interface, ros2[g])

TypeOK ==
  /\ adapter \in BOOLEAN /\ act \in Actuators
  /\ pc \in {"idle", "server", "sent", "abandon", "recheck", "accepted",
             "deadline", "confirm", "window"}
  /\ cur \in 0..MaxGoals
  /\ op \in [Goals -> Ops \cup {"none"}]
  /\ ros2 \in [Goals -> BOOLEAN]
  /\ srv \in [Goals -> {"unsent", "flight", "accepted", "rejected", "ended"}]
  /\ fut \in [Goals -> {"none", "null", "handle"}]
  /\ cb \in [Goals -> BOOLEAN]
  /\ abandoned \in [Goals -> BOOLEAN] /\ cancelSent \in [Goals -> BOOLEAN]
  /\ cancels \in [Goals -> 0..2]
  /\ res \in [Goals -> BOOLEAN]
  /\ out \in [Goals -> Ends \cup {"none"}]
  /\ sent \in 0..MaxGoals
  /\ latched \subseteq Goals
  /\ scene \in {"none", "grip_engage", "grip_release"}
  /\ ctx \in BOOLEAN

Init ==
  /\ act \in Actuators
  /\ adapter \in BOOLEAN /\ (SetBool => adapter)   \* only the adapter serves one
  /\ pc = "idle" /\ cur = 0
  /\ op = [g \in Goals |-> "none"]
  /\ ros2 = [g \in Goals |-> FALSE]
  /\ srv = [g \in Goals |-> "unsent"]
  /\ fut = [g \in Goals |-> "none"]
  /\ cb = [g \in Goals |-> FALSE]
  /\ abandoned = [g \in Goals |-> FALSE]
  /\ cancelSent = [g \in Goals |-> FALSE]
  /\ cancels = [g \in Goals |-> 0]
  /\ res = [g \in Goals |-> FALSE]
  /\ out = [g \in Goals |-> "none"]
  /\ sent = 0 /\ latched = {} /\ scene = "none"
  /\ ctx = TRUE

-----------------------------------------------------------------------------
(* The tick thread.                                                        *)

\* Mutant of End: the scene signal is published on every end.
EndAlwaysSignals(o) ==
  /\ pc' = "idle"
  /\ out' = [out EXCEPT ![cur] = o]
  /\ latched' = latched \cup (IF IsFault(ReasonOf(o)) THEN {cur} ELSE {})
  /\ scene' = IF act.tmr /\ op[cur] # "actuate" THEN op[cur] ELSE scene

\* finish(): log, latch a FAULT; grip() publishes the scene signal on DONE.
End(o) ==
  /\ pc' = "idle"
  /\ out' = [out EXCEPT ![cur] = o]
  /\ latched' = latched \cup (IF IsFault(ReasonOf(o)) THEN {cur} ELSE {})
  /\ scene' = IF o = "DONE" /\ act.tmr /\ op[cur] # "actuate"
                THEN op[cur] ELSE scene

\* Mutant of EndAs: the phase is reported in place of the mapped reason.
EndAsPhase(phase, a) ==
  End(IF MapOutcome(Cmd(cur), phase, a).done THEN "DONE" ELSE phase)

\* End in the state the outcome table maps (phase, a) to.
EndAs(phase, a) ==
  LET o == MapOutcome(Cmd(cur), phase, a)
  IN End(IF o.done THEN "DONE" ELSE o.reason)

NoAnswer == [status |-> "UNKNOWN", code |-> 0, reached |-> FALSE,
             stalled |-> FALSE, success |-> FALSE]

\* A port that names nothing of the contract: refused, latched, nothing sent.
RefuseCommand ==
  /\ pc = "idle" /\ cur < MaxGoals
  /\ cur' = cur + 1
  /\ \E r \in Refusals : out' = [out EXCEPT ![cur + 1] = r]
  /\ latched' = latched \cup {cur + 1}
  /\ UNCHANGED <<pc, op, ros2, sent, scene, watchVars, serverVars, envVars>>

StartCommand ==
  /\ pc = "idle" /\ cur < MaxGoals
  /\ \E o \in Ops : op' = [op EXCEPT ![cur + 1] = o]
  /\ cur' = cur + 1
  /\ pc' = "server"
  /\ UNCHANGED <<ros2, out, sent, latched, scene, watchVars, serverVars, envVars>>

\* No server within kServerWaitMs, or the context shut down meanwhile.
ServerMissing ==
  /\ pc = "server"
  /\ IF ctx THEN EndAs("NO_SERVER", NoAnswer) ELSE End("interrupted")
  /\ UNCHANGED <<cur, op, ros2, sent, watchVars, serverVars, envVars>>

\* The server is there: no publisher visible on the device's state means a
\* third-party controller; the goal is sent.
Send ==
  /\ pc = "server" /\ ctx
  /\ \E publishers \in VisiblePublishers :
       ros2' = [ros2 EXCEPT ![cur] = ~SetBool /\ publishers = 0]
  /\ srv' = [srv EXCEPT ![cur] = "flight"]
  /\ pc' = "sent"
  /\ UNCHANGED <<cur, op, out, sent, latched, scene, watchVars, fut, cb, res, envVars>>

\* waitReady: ready is looked at first, then the context, then the deadline.
Interrupted ==
  /\ ~ctx
  /\ \/ pc = "sent" /\ fut[cur] = "none"
     \/ pc = "accepted" /\ ~res[cur]
     \/ pc \in {"confirm", "window"}
  /\ End("interrupted")           \* HOLD: nothing is cancelled
  /\ UNCHANGED <<cur, op, ros2, sent, watchVars, serverVars, envVars>>

\* The SetBool response, or its absence by the deadline.
SetBoolAnswered ==
  /\ pc = "sent" /\ SetBool /\ fut[cur] = "handle"
  /\ \E a \in ServerAnswers :
       IF SetBoolResult(a).done
         THEN /\ sent' = cur /\ pc' = "confirm"
              /\ UNCHANGED <<out, latched, scene>>
         ELSE EndAs("RESULT", a) /\ UNCHANGED sent
  /\ UNCHANGED <<cur, op, ros2, watchVars, serverVars, envVars>>

SetBoolTimeout ==
  /\ pc = "sent" /\ SetBool /\ fut[cur] = "none" /\ ctx
  /\ EndAs("NO_RESPONSE", NoAnswer)
  /\ UNCHANGED <<cur, op, ros2, sent, watchVars, serverVars, envVars>>

\* The goal response: rejected, or accepted (APPLIED: the command is recorded).
GoalRejected ==
  /\ pc = "sent" /\ ~SetBool /\ fut[cur] = "null"
  /\ EndAs("REJECTED", NoAnswer)
  /\ UNCHANGED <<cur, op, ros2, sent, watchVars, serverVars, envVars>>

\* Mutant of GoalAccepted: the command is not recorded as applied.
GoalAcceptedUnrecorded ==
  /\ pc = "sent" /\ ~SetBool /\ fut[cur] = "handle"
  /\ pc' = "accepted"
  /\ UNCHANGED <<cur, op, ros2, out, sent, latched, scene, watchVars, serverVars, envVars>>

GoalAccepted ==
  /\ pc = "sent" /\ ~SetBool /\ fut[cur] = "handle"
  /\ sent' = cur
  /\ pc' = "accepted"
  /\ UNCHANGED <<cur, op, ros2, out, latched, scene, watchVars, serverVars, envVars>>

\* Mutant of ResponseTimeout: the wait for the goal response has no deadline.
ResponseNeverTimesOut == FALSE /\ UNCHANGED vars

ResponseTimeout ==
  /\ pc = "sent" /\ ~SetBool /\ fut[cur] = "none" /\ ctx
  /\ pc' = "abandon"
  /\ UNCHANGED <<cur, op, ros2, out, sent, latched, scene, watchVars, serverVars, envVars>>

Abandon ==
  /\ pc = "abandon"
  /\ abandoned' = [abandoned EXCEPT ![cur] = TRUE]
  /\ pc' = "recheck"
  /\ UNCHANGED <<cur, op, ros2, out, sent, latched, scene, cancelSent, cancels,
                 serverVars, envVars>>

\* async_cancel_goal throws when the client knows that the goal ended, or when the
\* request cannot be sent any more; cancelGoal swallows it.
CancelMayFail(g) == srv[g] = "ended" \/ ~ctx

CancelGoal(g) ==
  \/ cancels' = [cancels EXCEPT ![g] = @ + 1]
  \/ CancelMayFail(g) /\ UNCHANGED cancels

\* Mutant of RecheckResponse: the response future is not looked at again.
NoRecheck ==
  /\ pc = "recheck"
  /\ EndAs("NO_RESPONSE", NoAnswer)
  /\ UNCHANGED <<cur, op, ros2, sent, watchVars, serverVars, envVars>>

\* A goal accepted between the deadline and `abandoned` is cancelled here; one
\* accepted later, by its callback; cancel_sent.exchange lets only one of them.
RecheckResponse ==
  /\ pc = "recheck"
  /\ IF fut[cur] = "handle" /\ Cancellable(cur) /\ ~cancelSent[cur]
       THEN /\ cancelSent' = [cancelSent EXCEPT ![cur] = TRUE]
            /\ CancelGoal(cur)
       ELSE UNCHANGED <<cancelSent, cancels>>
  /\ EndAs("NO_RESPONSE", NoAnswer)
  /\ UNCHANGED <<cur, op, ros2, sent, abandoned, serverVars, envVars>>

\* The result, mapped; DONE goes on to the confirmation.
ResultRead(a) ==
  LET o == MapOutcome(Cmd(cur), "RESULT", a)
  IN IF o.done THEN pc' = "confirm" /\ UNCHANGED <<out, latched, scene>>
               ELSE End(o.reason)

GoalResult ==
  /\ pc = "accepted" /\ res[cur]
  /\ \E a \in ServerAnswers : ResultRead(a)
  /\ UNCHANGED <<cur, op, ros2, sent, watchVars, serverVars, envVars>>

ResultTimeout ==
  /\ pc = "accepted" /\ ~res[cur] /\ ctx
  /\ pc' = "deadline"
  /\ UNCHANGED <<cur, op, ros2, out, sent, latched, scene, watchVars, serverVars, envVars>>

\* Mutant of DeadlineCancel: the result deadline only fails the command.
DeadlineOnlyFails ==
  /\ pc = "deadline"
  /\ EndAs("NO_RESULT", NoAnswer)
  /\ UNCHANGED <<cur, op, ros2, sent, watchVars, serverVars, envVars>>

\* At the result deadline the goal is cancelled; a cancel that throws means the
\* goal ended meanwhile, and its result, when it is already here, is mapped.
DeadlineCancel ==
  /\ pc = "deadline"
  /\ \/ /\ Cancellable(cur)
        /\ cancels' = [cancels EXCEPT ![cur] = @ + 1]
        /\ EndAs("NO_RESULT", NoAnswer)
     \/ /\ Cancellable(cur) /\ CancelMayFail(cur)      \* cancel_failed
        /\ UNCHANGED cancels
        /\ IF res[cur] THEN \E a \in ServerAnswers : ResultRead(a)
                       ELSE EndAs("NO_RESULT", NoAnswer)
     \/ /\ ~Cancellable(cur)
        /\ UNCHANGED cancels
        /\ EndAs("NO_RESULT", NoAnswer)
  /\ UNCHANGED <<cur, op, ros2, sent, abandoned, cancelSent, serverVars, envVars>>

\* confirm(): a third-party server has no state to confirm from.
SkipConfirm ==
  /\ pc = "confirm" /\ ctx /\ ~SetBool /\ 0 \in VisiblePublishers
  /\ End("DONE")
  /\ UNCHANGED <<cur, op, ros2, sent, watchVars, serverVars, envVars>>

OpenWindow ==
  /\ pc = "confirm" /\ ctx /\ (SetBool \/ 1 \in VisiblePublishers)
  /\ pc' = "window"
  /\ UNCHANGED <<cur, op, ros2, out, sent, latched, scene, watchVars, serverVars, envVars>>

CloseWindow ==
  /\ pc = "window"
  /\ \E o \in {"DONE"} \cup WindowFailures : End(o)
  /\ UNCHANGED <<cur, op, ros2, sent, watchVars, serverVars, envVars>>

TickStep ==
  \/ ServerMissing \/ Send \/ Interrupted
  \/ SetBoolAnswered \/ SetBoolTimeout
  \/ GoalRejected \/ GoalAccepted \/ ResponseTimeout \/ Abandon \/ RecheckResponse
  \/ GoalResult \/ ResultTimeout \/ DeadlineCancel
  \/ SkipConfirm \/ OpenWindow \/ CloseWindow

-----------------------------------------------------------------------------
(* The server, the executor thread and the environment (external, but for  *)
(* the goal response callback).                                            *)

ServerDecides(g) ==
  /\ srv[g] = "flight"
  /\ \E s \in {"accepted", "rejected"} : srv' = [srv EXCEPT ![g] = s]
  /\ SetBool => srv'[g] = "accepted"
  /\ UNCHANGED <<tickVars, watchVars, fut, cb, res, envVars>>

ServerEnds(g) ==
  /\ srv[g] = "accepted"
  /\ srv' = [srv EXCEPT ![g] = "ended"]
  /\ UNCHANGED <<tickVars, watchVars, fut, cb, res, envVars>>

\* rclcpp_action sets the response future first ...
ResponseArrives(g) ==
  /\ srv[g] \in {"accepted", "rejected", "ended"} /\ fut[g] = "none"
  /\ fut' = [fut EXCEPT ![g] = IF srv[g] = "rejected" THEN "null" ELSE "handle"]
  /\ UNCHANGED <<tickVars, watchVars, srv, cb, res, envVars>>

\* Mutant of ResponseCallback: the callback does not look at cancel_sent.
ResponseCallbackCancelsAgain(g) ==
  /\ ~SetBool /\ fut[g] # "none" /\ ~cb[g]
  /\ cb' = [cb EXCEPT ![g] = TRUE]
  /\ IF fut[g] = "handle" /\ abandoned[g] /\ Cancellable(g)
       THEN cancelSent' = [cancelSent EXCEPT ![g] = TRUE] /\ CancelGoal(g)
       ELSE UNCHANGED <<cancelSent, cancels>>
  /\ UNCHANGED <<tickVars, abandoned, srv, fut, res, envVars>>

\* ... and then runs the goal response callback: the late-accept cancel.
ResponseCallback(g) ==
  /\ ~SetBool /\ fut[g] # "none" /\ ~cb[g]
  /\ cb' = [cb EXCEPT ![g] = TRUE]
  /\ IF fut[g] = "handle" /\ abandoned[g] /\ Cancellable(g) /\ ~cancelSent[g]
       THEN /\ cancelSent' = [cancelSent EXCEPT ![g] = TRUE]
            /\ CancelGoal(g)
       ELSE UNCHANGED <<cancelSent, cancels>>
  /\ UNCHANGED <<tickVars, abandoned, srv, fut, res, envVars>>

\* The result asked for (async_get_result); one that nobody waits for any more
\* is dropped.
ResultArrives(g) ==
  /\ g = cur /\ pc \in {"accepted", "deadline"}
  /\ srv[g] = "ended" /\ ~res[g]
  /\ res' = [res EXCEPT ![g] = TRUE]
  /\ UNCHANGED <<tickVars, watchVars, srv, fut, cb, envVars>>

Shutdown ==
  /\ ctx
  /\ ctx' = FALSE
  /\ UNCHANGED <<tickVars, watchVars, serverVars, adapter, act>>

Next ==
  \/ RefuseCommand \/ StartCommand \/ TickStep
  \/ \E g \in Goals :
       ServerDecides(g) \/ ServerEnds(g) \/ ResponseArrives(g)
         \/ ResponseCallback(g) \/ ResultArrives(g)
  \/ Shutdown

\* The tick thread keeps running and the steady clock keeps advancing: every
\* wait of the code is bounded.  Nothing is assumed of the server, of the
\* executor thread or of discovery.
Spec == Init /\ [][Next]_vars /\ WF_vars(TickStep)

-----------------------------------------------------------------------------
(* Properties                                                              *)

\* Two threads may see an accepted goal nobody waits for any more: whichever of
\* the abandoned-flag store and the response comes first, a goal accepted after
\* the send timeout does not run on uncancelled once its callback has run.
LateAcceptCancelled ==
  \A g \in Goals :
    (/\ out[g] = "SEND_TIMEOUT" /\ Cancellable(g)
     /\ fut[g] = "handle" /\ cb[g] /\ srv[g] = "accepted" /\ ctx) => cancels[g] > 0

\* However the tick thread and the callback race, one goal gets at most one cancel
\* request (GoalWatch::cancel_sent), and where a cancel does harm none, now or later: a
\* command the shutdown interrupted holds the tool as it is, and a ros2_control gripper's
\* cancel is undefined behaviour in the controller manager's process.
CancelsAsAllowed ==
  LET spared(g) == out[g] = "interrupted" \/ (~adapter /\ act.interface = "gripper_command")
  IN \A g \in Goals : cancels[g] <= (IF spared(g) THEN 0 ELSE 1)

\* A command that has ended leaves a goal running at the server only when it
\* timed out or was interrupted, and past the result deadline only with a cancel
\* requested, unless it may not be cancelled: DONE and every other failure mean
\* that the goal is over.
NoUnattendedGoal ==
  \A g \in Goals :
    Ended(g) /\ srv[g] \in {"flight", "accepted"} =>
      \/ out[g] \in {"SEND_TIMEOUT", "interrupted"}
      \/ out[g] = "COMMAND_TIMEOUT" /\ (Cancellable(g) /\ ctx => cancels[g] = 1)
      \/ SetBool

\* VerifyGrasp judges against the newest command recorded as applied.  A command
\* the server applied that the record does not know (accepted after the send
\* timeout, a SetBool answer that was late or negative, a shutdown before the
\* response) has failed with a FAULT, and is latched: the task cannot go on to
\* judge a grasp against an older command and end as a success.
AppliedButUnrecordedIsLatched ==
  \A g \in Goals :
    Ended(g) /\ srv[g] \in {"accepted", "ended"} /\ g > sent => g \in latched

\* The scene signal shows the newest DONE grip: a failed or refused command, and
\* a CommandActuator, never move it.
SceneSignalShowsNewestDone ==
  act.tmr =>
    LET grips == {g \in Goals : out[g] = "DONE" /\ op[g] # "actuate"}
    IN scene = IF grips = {} THEN "none"
               ELSE op[CHOOSE g \in grips : \A h \in grips : h <= g]

\* Every command ends: no wait of the tick thread is unbounded, whatever the
\* server, the executor and the adapter do.
CommandEnds == (pc # "idle") ~> (pc = "idle")

=============================================================================
