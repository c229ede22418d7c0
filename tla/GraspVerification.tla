-------------------------- MODULE GraspVerification --------------------------
(***************************************************************************)
(* How the runner learns from a device's state that a command reached it,  *)
(* and then whether it holds the object: the confirmation window           *)
(* (EndEffectorDevice::confirm) and VerifyGrasp's loop around the judge    *)
(* (EndEffectorDevice::verify), against an adapter on another clock that   *)
(* publishes on a topic of depth one.                                      *)
(*                                                                         *)
(* The device has one site and the actuator that grips it.  How a command  *)
(* waits for its server is EndEffectorCommand's; here a command is done, or  *)
(* is given up while its request may still be applied.                     *)
(***************************************************************************)
EXTENDS VerifyGrasp, Sequences

CONSTANTS
  Tol,           \* clock_tolerance_ms
  MaxAge,        \* max_age_ms
  Wirings,       \* the deployments: see WiringType
  Readings,      \* what the sensor can read of the site while a command is the newest
  Start,         \* the runner's clock when it starts
  MaxTime,       \* bound: the runner's clock
  MaxCommands    \* bound: commands of the run

Grips    == {"ENGAGE", "RELEASE"}
NoSample == [none |-> TRUE]

\* The actuator's interface (a set_bool with a switch that confirms it); whose server
\* the client reaches; whose state the topic carries, or this device's by another
\* contract; the adapter's clock minus the runner's; bound: restarts of the adapter.
WiringType ==
  [actuator : {"set_bool", "set_bool_feedback", "action"}, client : {"own", "other"},
   topic : {"own", "other", "odd"}, skew : Int, restarts : Nat]

\* A command of an earlier run was applied at time 1 of the adapter's clock, further
\* back than any difference of the two clocks, on either of them: a process takes that
\* long to start.
ASSUME GraspAssumption ==
  /\ Tol \in Nat /\ MaxAge \in Nat /\ MaxTime \in Nat /\ MaxCommands \in Nat
  /\ Start \in 0..MaxTime
  /\ Wirings \subseteq WiringType
  /\ 1 + Tol < Start /\ \A w \in Wirings : 1 + Tol < Start + w.skew
  /\ Readings \in [Grips \cup {"NONE"} -> SUBSET (Grasps \X Evidences)]

VARIABLES
  now,       \* the runner's clock
  wiring,    \* the actuator's kind; whose server and state the names reach; the skew
  pubs,      \* publishers visible on the state topic
  device,    \* the adapter that is read: its newest command and newest observation
  wire,      \* its last sample not delivered yet
  feed,      \* Feed.latest
  flight,    \* requests sent and not handled by the server
  answer,    \* of the newest command's server: "none", "accepted", "done"
  restarts,  \* bound: restarts of the adapter left
  sent,      \* sent_[actuator]
  pc, job,   \* where the tick is; its node's locals
  late,      \* the wait's deadline has passed
  out,       \* how the last tick ended: "SUCCESS", "VERDICT" or a latched "FAULT"
  count,     \* commands sent
  shown,     \* history: the state has shown the newest command
  gap        \* history: a command was sent after one the state had not shown

clocks  == <<now, wiring>>
adapter == <<device, wire, restarts>>
server  == <<flight, answer>>
state   == <<pubs, feed>>
tick    == <<pc, job, late, out>>
record  == <<sent, count, shown, gap>>
vars    == <<clocks, adapter, server, state, tick, record>>

Idle == [op |-> "none", want |-> "NONE", prior |-> 0, at |-> 0]

NeverObserved == [reading |-> <<"UNAVAILABLE", "none">>, switch |-> "NONE", stamp |-> 0, by |-> 0]

\* by: history: the command of this run that was the newest applied then.
Entry(last, ref, by, obs) == [last |-> last, ref |-> ref, by |-> by, obs |-> obs]

Init ==
  /\ now = Start
  /\ wiring \in Wirings
  /\ pubs \in (IF wiring.actuator = "action" THEN {0, 1} ELSE {1})
  /\ \/ device = Entry("NONE", 0, 0, NeverObserved)
     \/ device = Entry("ENGAGE", 1, 0, NeverObserved)
  /\ wire = NoSample /\ feed = NoSample
  /\ flight = <<>> /\ answer = "none"
  /\ sent = [known |-> FALSE, stamp |-> 0, prior |-> 0, id |-> 0]
  /\ pc = "idle" /\ job = Idle /\ late = FALSE /\ out = "NONE"
  /\ count = 0 /\ shown = TRUE /\ gap = FALSE
  /\ restarts = wiring.restarts

-----------------------------------------------------------------------------
(* External: the clock, the server, the adapter, the topic.                *)

\* The device whose state is read is the one the command client reaches.
Reaches == wiring.client = (IF wiring.topic = "other" THEN "other" ELSE "own")

AdapterNow == now + wiring.skew

TimePasses ==
  /\ now < MaxTime
  /\ now' = now + 1
  /\ UNCHANGED <<wiring, adapter, server, state, tick, record>>

DeadlinePasses ==
  /\ pc \in {"look", "judge"} /\ ~late
  /\ late' = TRUE
  /\ UNCHANGED <<clocks, adapter, server, state, pc, job, out, record>>

\* The state publisher is discovered.
Discover ==
  /\ pubs = 0
  /\ pubs' = 1
  /\ UNCHANGED <<clocks, adapter, server, feed, tick, record>>

Accept ==
  /\ flight # <<>> /\ Head(flight).id = count /\ wiring.actuator = "action" /\ answer = "none"
  /\ answer' = "accepted"
  /\ UNCHANGED <<clocks, adapter, flight, state, tick, record>>

\* The server applies the oldest request.  The adapter stamps no two of its events alike.
Apply ==
  /\ flight # <<>>
  /\ IF Reaches
       THEN /\ AdapterNow > device.ref /\ AdapterNow > device.obs.stamp
            /\ device' = Entry(Head(flight).kind, AdapterNow, Head(flight).id, device.obs)
       ELSE UNCHANGED device
  /\ answer' = IF Head(flight).id = count THEN "done" ELSE answer
  /\ flight' = Tail(flight)
  /\ UNCHANGED <<clocks, wire, restarts, state, tick, record>>

\* The adapter publishes its newest command, with a new observation or with the one
\* it has.  A sample the topic has not delivered yet is replaced: depth one.
Publish ==
  /\ \/ \E r \in Readings[device.last] :
          device' = [device EXCEPT
            !.obs = [reading |-> r, stamp |-> AdapterNow, by |-> device.by,
                     switch |-> IF wiring.actuator = "set_bool_feedback" THEN device.last ELSE "NONE"]]
     \/ UNCHANGED device
  /\ wire' = device'
  /\ UNCHANGED <<clocks, restarts, server, state, tick, record>>

Restart ==
  /\ restarts > 0
  /\ restarts' = restarts - 1
  /\ device' = Entry("NONE", 0, 0, NeverObserved)
  /\ UNCHANGED <<clocks, wire, server, state, tick, record>>

\* The subscription's callback.
Deliver ==
  /\ pubs = 1 /\ wire # NoSample
  /\ feed' = wire
  /\ wire' = NoSample
  /\ UNCHANGED <<clocks, device, restarts, server, pubs, tick, record>>

-----------------------------------------------------------------------------
(* The tick thread: one command.                                           *)

WrongId   == wiring.topic = "other"
Malformed == wiring.topic = "odd"

Outcome(reason) ==
  IF reason = "NONE" THEN "SUCCESS" ELSE IF IsFault(reason) THEN "FAULT" ELSE "VERDICT"

\* Mutant of Returns: the outcome is recorded and the wait goes on.
LatchesOnly(reason) == out' = Outcome(reason) /\ UNCHANGED <<pc, job, late>>

\* finish: a FAULT is latched.
Returns(reason) ==
  /\ out' = Outcome(reason)
  /\ pc' = "idle" /\ job' = Idle /\ late' = FALSE

\* The prior is taken, then the send stamp, then the request leaves; a sample that
\* arrives in between is one that arrives after.
Command(kind) ==
  /\ pc = "idle" /\ count < MaxCommands
  /\ pc' = "wait"
  /\ job' = [op |-> "command", want |-> kind, at |-> now,
             prior |-> IF feed = NoSample \/ WrongId THEN 0 ELSE feed.ref]
  /\ count' = count + 1
  /\ flight' = Append(flight, [id |-> count + 1, kind |-> kind])
  /\ answer' = "none"
  /\ gap' = (gap \/ ~shown) /\ shown' = FALSE
  /\ out' = "NONE"
  /\ UNCHANGED <<clocks, adapter, state, sent, late>>

\* recordSent: a SetBool that answered success, a goal that was accepted.
Record ==
  /\ pc = "wait"
  /\ answer = "done" \/ answer = "accepted"
  /\ sent' = [known |-> TRUE, stamp |-> job.at, prior |-> job.prior, id |-> count]
  /\ pc' = "result"
  /\ UNCHANGED <<clocks, adapter, server, state, job, late, out, count, shown, gap>>

\* The requests without the newest command's, which is the last one.
Refused ==
  IF flight # <<>> /\ flight[Len(flight)].id = count
    THEN SubSeq(flight, 1, Len(flight) - 1) ELSE flight

\* Any failure before the confirmation.  The request was refused, or is still in flight.
GiveUp ==
  /\ pc = "wait" \/ (pc = "result" /\ wiring.actuator = "action")
  /\ flight' \in {flight, Refused}
  /\ Returns("COMMAND_TIMEOUT")
  /\ UNCHANGED <<clocks, adapter, answer, state, record>>

\* With no publisher in sight an action server is a third party's, with no state.
ConfirmBegins ==
  /\ pc = "result" /\ answer = "done"
  /\ IF wiring.actuator = "action" /\ pubs = 0
       THEN Returns("NONE")
       ELSE pc' = "look" /\ UNCHANGED <<job, late, out>>
  /\ UNCHANGED <<clocks, adapter, server, state, record>>

\* Mutant of ShowsThisCommand: newer than the prior, however old.
ShowsAnOldOne(s) == s.last = job.want /\ s.ref > job.prior

ShowsThisCommand(s) ==
  /\ s.last = job.want
  /\ s.ref >= job.at - Tol
  /\ s.ref > job.prior

SwitchConfirms(s) ==
  wiring.actuator = "set_bool_feedback" =>
    s.obs.switch = job.want /\ s.obs.stamp >= job.at - Tol

ConfirmRefuses ==
  IF WrongId THEN "WRONG_EEF" ELSE IF Malformed THEN "CONTRACT_MISMATCH" ELSE "NONE"

\* What the deadline makes of it: ACTUATION_NOT_CONFIRMED, STATE_MISSING, STATE_STALE
\* or CONTRACT_MISMATCH, by what the samples have shown.  Each is a FAULT.
NotConfirmed == "CONTRACT_MISMATCH"

\* Mutant of ConfirmLook: the deadline is never looked at.
ConfirmLookForever ==
  /\ pc = "look"
  /\ LET showsIt == feed # NoSample /\ ShowsThisCommand(feed)
     IN /\ shown' = (shown \/ showsIt)
        /\ IF showsIt /\ SwitchConfirms(feed) THEN Returns("NONE") ELSE UNCHANGED tick
  /\ UNCHANGED <<clocks, adapter, server, state, sent, count, gap>>

\* One look at the newest sample; the deadline is looked at after it.
ConfirmLook ==
  /\ pc = "look"
  /\ LET refused == feed # NoSample /\ ConfirmRefuses # "NONE"
         showsIt == feed # NoSample /\ ~refused /\ ShowsThisCommand(feed)
     IN /\ shown' = (shown \/ showsIt)
        /\ IF refused THEN Returns(ConfirmRefuses)
           ELSE IF showsIt /\ SwitchConfirms(feed) THEN Returns("NONE")
           ELSE IF late THEN Returns(NotConfirmed)
           ELSE UNCHANGED tick
  /\ UNCHANGED <<clocks, adapter, server, state, sent, count, gap>>

-----------------------------------------------------------------------------
(* The tick thread: VerifyGrasp.                                           *)

VerifyBegins(expect) ==
  /\ pc = "idle"
  /\ pc' = "judge"
  /\ job' = [Idle EXCEPT !.op = "verify", !.want = expect]
  /\ out' = "NONE"
  /\ UNCHANGED <<clocks, adapter, server, state, late, record>>

\* The judge's input: the newest sample, and the clock now.
JudgeInput ==
  LET e == IF feed = NoSample THEN Entry("NONE", 0, 0, NeverObserved) ELSE feed
  IN [present |-> feed # NoSample, publishers |-> pubs, wrongId |-> WrongId,
      malformed |-> Malformed, status |-> "READY", site |-> 0, expect |-> job.want,
      accepted |-> {"sensor"}, now |-> now, atDeadline |-> late, tol |-> Tol, maxAge |-> MaxAge,
      entry |-> <<[last |-> e.last, ref |-> e.ref, grasp |-> e.obs.reading[1],
                   evidence |-> e.obs.reading[2], stamp |-> e.obs.stamp]>>,
      sent |-> <<[known |-> sent.known, stamp |-> sent.stamp, prior |-> sent.prior]>>]

VerifyJudge ==
  /\ pc = "judge"
  /\ \E in \in {JudgeInput} : \E j \in {Judge(in)} :
        IF j.verdict # "WAIT" THEN Returns(j.reason)
        ELSE IF late THEN Returns("STATE_STALE")
        ELSE UNCHANGED tick
  /\ UNCHANGED <<clocks, adapter, server, state, record>>

\* The ROS context is shut down, and the loop sees it.
Interrupted ==
  /\ pc \in {"look", "judge"}
  /\ Returns("COMMAND_ABORTED")
  /\ UNCHANGED <<clocks, adapter, server, state, record>>

TickStep ==
  \/ DeadlinePasses
  \/ Record \/ GiveUp \/ ConfirmBegins \/ ConfirmLook \/ VerifyJudge

Next ==
  \/ TickStep \/ Interrupted
  \/ \E kind \in Grips : Command(kind)
  \/ \E expect \in {"HELD", "RELEASED"} : VerifyBegins(expect)
  \/ TimePasses \/ Discover
  \/ Accept \/ Apply \/ Publish \/ Restart \/ Deliver

\* The tick thread runs and its steady clock advances; nothing is assumed of the
\* server, the adapter or the topic.
Spec == Init /\ [][Next]_vars /\ WF_vars(TickStep)

-----------------------------------------------------------------------------
(* Properties                                                              *)

TypeOK ==
  /\ now \in Start..MaxTime /\ pubs \in {0, 1}
  /\ pc \in {"idle", "wait", "result", "look", "judge"}
  /\ answer \in {"none", "accepted", "done"}
  /\ count \in 0..MaxCommands /\ sent.id \in 0..count
  /\ out \in {"NONE", "SUCCESS", "VERDICT", "FAULT"}
  /\ pc # "idle" => out = "NONE"

\* What confirm() takes for this command was applied by THIS device: no remapped
\* client or topic and nothing an earlier run left passes it.  And it is this command,
\* not an identical one before it: claimed only while the state has shown every command
\* before it.  Once one was never shown nothing is claimed of this or any later command,
\* identical or not.
ConfirmedIsThisCommand ==
  [][~shown /\ shown' =>
       /\ wiring.client = "own" /\ wiring.topic = "own" /\ feed.by > 0
       /\ ~gap => feed.by = count]_vars

VerifySucceeds == pc = "judge" /\ out' = "SUCCESS"

\* VerifyGrasp succeeds only on an observation this device made after the newest
\* command this run sent it was applied, when the state has shown the commands
\* before: the object of the cycle before is never taken for this one's, whatever
\* samples were late, lost or replaced, and whatever the clocks' difference.
VerdictOfThisGrasp ==
  [][VerifySucceeds /\ sent.id = count /\ ~gap => feed.obs.by = count]_vars

\* Every command and every check ends.
WaitEnds == []<>(pc = "idle")

=============================================================================
