------------------------------ MODULE Capture ------------------------------
(***************************************************************************)
(* The tree's perception nodes: DetectObject, with and without a trigger,  *)
(* DetectCandidates, and the nodes that make waypoints of what they wrote, *)
(* against a detector in another process, perhaps on another clock.        *)
(*                                                                         *)
(* A feed keeps the newest message of its topic for the whole process.  A  *)
(* message is known by the order it arrived in, and an entry of the         *)
(* blackboard by the message and the detection it was written from; poses, *)
(* frames and texts are left out.                                          *)
(***************************************************************************)
EXTENDS Integers, Sequences, FiniteSets

CONSTANTS
  Slack,        \* kFutureSlackNs
  Deployments,  \* see DeploymentType
  Contents,     \* what an array can hold
  Ages,         \* bound: how old an array's image can be when it arrives
  MaxTime,      \* bound: the runner's clock
  MaxMessages   \* bound: arrays that arrive

Topics == {"detections", "candidates"}

\* A detection of the class and score asked for, one of another, and one that matches
\* but is no usable candidate (arrayProblem, projectDetection).
Kinds == {"match", "other", "unusable"}

\* The detector's clock minus the runner's; the nodes' `keep`; DetectCandidates' source.
DeploymentType == [skew : Int, keep : Nat \ {0}, source : Topics]

ASSUME CaptureAssumption ==
  /\ Slack \in Nat /\ MaxTime \in Nat \ {0} /\ MaxMessages \in Nat /\ Ages \subseteq Nat
  /\ Deployments \subseteq DeploymentType
  /\ Contents \subseteq Seq(Kinds)

VARIABLES
  now,       \* the node's clock; 0: it does not run
  dep,       \* the deployment
  made,      \* arrays that have arrived
  feed,      \* each feed's `latest`
  call,      \* the newest trigger: "none", "asked", "ok", "refused"
  pc, job,   \* where the tick is; its node's locals
  late,      \* the tick's deadline has passed
  out,       \* how the last tick ended: "SUCCESS", or a fault or reason
  found,     \* DetectObject's keys: flat, list, count
  cands,     \* DetectCandidates' keys: list, count
  goal,      \* the waypoint the last tick wrote: of which node, index and entry
  newest,    \* history: the array each node's newest tick took, 0 when it failed
  used       \* history: the newest array a triggered tick took

outside == <<now, dep, made, feed>>
tick    == <<pc, job, late, out>>
board   == <<found, cands, goal>>
history == <<newest, used>>
vars    == <<outside, call, tick, board, history>>

NoArray == [id |-> 0, taken |-> 0, dets |-> <<>>]
Absent  == <<0, 0>>                      \* a key that was never written
NoGoal  == [of |-> "none", at |-> 0, from |-> Absent]
Places  == 1..dep.keep
skew    == dep.skew
keep    == dep.keep
Idle    == [op |-> "none", topic |-> "detections", seen |-> 0, boundary |-> 0,
            sampled |-> FALSE, answered |-> FALSE, stale |-> FALSE, future |-> FALSE]

Init ==
  /\ now \in {0, 1} /\ dep \in Deployments
  /\ made = 0 /\ feed = [t \in Topics |-> NoArray]
  /\ call = "none" /\ pc = "idle" /\ job = Idle /\ late = FALSE /\ out = "NONE"
  /\ found = [flat |-> Absent, list |-> [i \in Places |-> Absent], count |-> 0]
  /\ cands = [list |-> [i \in Places |-> Absent], count |-> 0]
  /\ goal = NoGoal
  /\ newest = [DetectObject |-> 0, DetectCandidates |-> 0] /\ used = 0

-----------------------------------------------------------------------------
(* External: the clock, the detector, the topics.                          *)

\* Once the clock runs: without a /clock it stays at 0.
TimePasses ==
  /\ now \in 1..(MaxTime - 1)
  /\ now' = now + 1
  /\ UNCHANGED <<dep, made, feed, call, tick, board, history>>

DeadlinePasses ==
  /\ pc # "idle" /\ ~late
  /\ late' = TRUE
  /\ UNCHANGED <<outside, call, pc, job, out, board, history>>

\* The subscription's callback: an array of an image of now or of an older one, whoever
\* asked for it, if anybody did.  One that was late on its way is of an older image; one
\* the topic dropped (depth 1) does not arrive.
Deliver(t, age, dets) ==
  /\ made < MaxMessages /\ age <= now
  /\ t = "candidates" => dep.source = t /\ \A i \in DOMAIN dets : dets[i] # "other"
  /\ made' = made + 1
  /\ feed' = [feed EXCEPT ![t] = [id |-> made + 1, taken |-> now - age, dets |-> dets]]
  /\ UNCHANGED <<now, dep, call, tick, board, history>>

DetectorAnswers ==
  /\ call = "asked"
  /\ call' \in {"ok", "refused"}
  /\ UNCHANGED <<outside, tick, board, history>>

-----------------------------------------------------------------------------
(* The tick thread.                                                        *)

Begin(step, op, topic) ==
  /\ pc = "idle"
  /\ pc' = step
  /\ job' = [Idle EXCEPT !.op = op, !.topic = topic, !.seen = feed[topic].id]
  /\ late' = FALSE /\ out' = "NONE" /\ goal' = NoGoal

Return(result) ==
  /\ pc' = "idle" /\ job' = Idle /\ late' = FALSE /\ out' = result

Matches(dets) == {i \in DOMAIN dets : dets[i] # "other"}

\* Which match i is: the first, the second, ...
Rank(dets, i) == Cardinality({j \in Matches(dets) : j <= i})

\* selectDetectionCandidates: the places of the first k matches, in published order.
FirstMatches(dets, k) ==
  LET all == Cardinality(Matches(dets))
  IN [m \in 1..(IF k < all THEN k ELSE all) |->
        CHOOSE i \in Matches(dets) : Rank(dets, i) = m]

\* A list after its first n places were written from the chosen ones of array a.
Written(list, a, chosen, n) ==
  [i \in DOMAIN list |-> IF i <= n THEN <<a.id, chosen[i]>> ELSE list[i]]

-----------------------------------------------------------------------------
(* DetectObject.                                                           *)

\* What it makes of the array it took.  The keys of the candidates before one without a
\* transform are written; the count is written last, and only for a list.
Found(a) ==
  LET chosen == FirstMatches(a.dets, keep)
  IN \E n \in 0..Len(chosen) :
       /\ found' =
            IF keep = 1 THEN [found EXCEPT !.flat = IF n = 1 THEN <<a.id, chosen[1]>> ELSE @]
            ELSE [found EXCEPT !.list = Written(@, a, chosen, n),
                               !.count = IF n > 0 /\ n = Len(chosen) THEN n ELSE @]
       /\ newest' = [newest EXCEPT !.DetectObject = IF n > 0 /\ n = Len(chosen) THEN a.id ELSE 0]
       /\ Return(IF chosen = <<>> THEN "NO_MATCH"
                 ELSE IF n < Len(chosen) THEN "TF_LOOKUP_FAILED" ELSE "SUCCESS")

Fails(reason) ==
  /\ newest' = [newest EXCEPT !.DetectObject = 0]
  /\ Return(reason)
  /\ UNCHANGED found

DetectObject(trigger) ==
  /\ Begin(IF trigger THEN "match" ELSE "arrive", "DetectObject", "detections")
  /\ newest' = [newest EXCEPT !.DetectObject = 0]
  /\ UNCHANGED <<outside, call, found, cands, used>>

\* A publisher matched, or 1 s passed: the boundary is set, the clock first, then the
\* arrivals.
CaptureBegins ==
  /\ pc = "match"
  /\ IF now = 0 THEN Fails("CLOCK_UNAVAILABLE")
     ELSE /\ pc' = "call"
          /\ job' = [job EXCEPT !.boundary = now, !.seen = feed[job.topic].id]
          /\ UNCHANGED <<late, out, found, newest>>
  /\ UNCHANGED <<outside, call, cands, goal, used>>

SendTrigger ==
  /\ pc = "call" /\ ~late
  /\ pc' = "answer" /\ call' = "asked"
  /\ UNCHANGED <<outside, job, late, out, board, history>>

\* An answer that came with the deadline is still taken.
TakeAnswer ==
  /\ pc = "answer" /\ call \in {"ok", "refused"}
  /\ pc' = "window"
  /\ job' = [job EXCEPT !.answered = TRUE, !.sampled = (call = "ok")]
  /\ call' = "none"
  /\ UNCHANGED <<outside, late, out, board, history>>

Stamp(a) == a.taken + skew

\* Mutant of Fresh: by arrival alone, as without a trigger.
FreshByArrival(a) == TRUE

Fresh(a) == Stamp(a) >= job.boundary

\* Looks at an array that has arrived since the last look.  After an answer that says it
\* could not sample none is taken.
WindowLook ==
  LET a == feed[job.topic]
      seen == [job EXCEPT !.seen = a.id]
  IN /\ pc = "window" /\ ~late /\ a.id > job.seen
     /\ IF ~job.sampled
          THEN job' = seen /\ UNCHANGED <<pc, late, out, found, newest, used>>
        ELSE IF Stamp(a) > now + Slack
          THEN job' = [seen EXCEPT !.future = TRUE] /\ UNCHANGED <<pc, late, out, found, newest, used>>
        ELSE IF ~Fresh(a)
          THEN job' = [seen EXCEPT !.stale = TRUE] /\ UNCHANGED <<pc, late, out, found, newest, used>>
        ELSE Found(a) /\ used' = a.id
     /\ UNCHANGED <<outside, call, cands, goal>>

\* 500 ms after the answer.
WindowEnds ==
  /\ pc = "window"
  /\ pc' = "call"
  /\ UNCHANGED <<outside, call, job, late, out, board, history>>

\* Mutant of CaptureFails: a trigger that is not answered is waited for.
CaptureFailsInCall ==
  /\ pc = "call" /\ late
  /\ Fails(IF ~job.answered THEN "TRIGGER_UNAVAILABLE" ELSE "DETECTION_TIMEOUT")
  /\ UNCHANGED <<outside, call, cands, goal, used>>

\* No result by the deadline; a trigger that is not answered is dropped.
CaptureFails ==
  /\ pc = "call" \/ (pc = "answer" /\ call = "asked")
  /\ late
  /\ Fails(IF ~job.answered THEN "TRIGGER_UNAVAILABLE"
           ELSE IF job.future /\ ~job.stale THEN "CLOCK_MISMATCH" ELSE "DETECTION_TIMEOUT")
  /\ call' = "none"
  /\ UNCHANGED <<outside, cands, goal, used>>

-----------------------------------------------------------------------------
(* DetectCandidates.                                                       *)

\* Mutant of EmptiesSet: refused ports leave the set as it was.
EmptiesSetOfWait(refused) == ~refused

\* The set is empty until this tick has written it, also when its ports are refused.
EmptiesSet(refused) == TRUE

DetectCandidates(source, refused) ==
  /\ IF refused
       THEN pc = "idle" /\ out' = "INVALID_CONFIGURATION" /\ goal' = NoGoal /\ UNCHANGED <<pc, job, late>>
       ELSE Begin("arrive", "DetectCandidates", source)
  /\ cands' = IF EmptiesSet(refused) THEN [cands EXCEPT !.count = 0] ELSE cands
  /\ newest' = [newest EXCEPT !.DetectCandidates = 0]
  /\ UNCHANGED <<outside, call, found, used>>

\* The candidates of an array: a producer's is taken whole, and cut to `keep` after.
Proposed(a) ==
  IF job.topic = "detections" THEN FirstMatches(a.dets, keep)
  ELSE SubSeq([i \in DOMAIN a.dets |-> i], 1, IF keep < Len(a.dets) THEN keep ELSE Len(a.dets))

Validated(a) ==
  IF job.topic = "detections" THEN FirstMatches(a.dets, keep) ELSE [i \in DOMAIN a.dets |-> i]

Usable(a) == \A i \in DOMAIN Validated(a) : a.dets[Validated(a)[i]] # "unusable"

\* Mutant of Partial: the count is written before the candidates.
PartialCounted(a, chosen, n) == [list |-> Written(cands.list, a, chosen, n), count |-> Len(chosen)]

\* The set when candidate n + 1 has no transform: the first n are written, the count is not.
Partial(a, chosen, n) == [cands EXCEPT !.list = Written(@, a, chosen, n)]

\* One unusable candidate refuses the array; nothing is written before all were looked at.
Candidates(a) ==
  LET chosen == Proposed(a)
  IN \/ /\ ~Usable(a) \/ chosen = <<>>
        /\ Return(IF Usable(a) THEN "NO_CANDIDATES" ELSE "INVALID_CANDIDATE")
        /\ UNCHANGED <<cands, newest>>
     \/ /\ Usable(a) \/ job.topic = "detections"
        /\ \E n \in 0..(Len(chosen) - 1) : (n > 0 => Usable(a)) /\ cands' = Partial(a, chosen, n)
        /\ Return("TF_LOOKUP_FAILED")
        /\ UNCHANGED newest
     \/ /\ Usable(a) /\ chosen # <<>>
        /\ cands' = [list |-> Written(cands.list, a, chosen, Len(chosen)), count |-> Len(chosen)]
        /\ newest' = [newest EXCEPT !.DetectCandidates = a.id]
        /\ Return("SUCCESS")

-----------------------------------------------------------------------------
(* The wait of both without a trigger.                                     *)

\* The first array to arrive since the tick began, whatever its stamp.
Arrives ==
  LET a == feed[job.topic]
  IN /\ pc = "arrive" /\ ~late /\ a.id > job.seen
     /\ \/ job.op = "DetectObject" /\ Found(a) /\ UNCHANGED cands
        \/ job.op = "DetectCandidates" /\ Candidates(a) /\ UNCHANGED found
     /\ UNCHANGED <<outside, call, goal, used>>

NoArrival ==
  /\ pc = "arrive" /\ late
  /\ Return("DETECTION_TIMEOUT")
  /\ UNCHANGED <<outside, call, board, history>>

-----------------------------------------------------------------------------
(* The nodes that make waypoints: no wait, one step.                       *)

\* Which key an index reads: the list's, or for 0 the flat one.
Resolved(index) ==
  IF index + 1 \in Places /\ found.list[index + 1] # Absent THEN found.list[index + 1]
  ELSE IF index = 0 THEN found.flat ELSE Absent

\* The position is written before the orientation is looked at: one that is missing
\* fails after it.
SetWaypointFromDetection(index, oriented) ==
  LET e == Resolved(index)
  IN /\ pc = "idle"
     /\ goal' = IF e = Absent THEN NoGoal ELSE [of |-> "DetectObject", at |-> index, from |-> e]
     /\ out' = IF e = Absent \/ ~oriented THEN "FAILURE" ELSE "SUCCESS"
     /\ UNCHANGED <<outside, call, pc, job, late, found, cands, history>>

\* The index is below the count.
Named(index) == index < cands.count

\* Every refusal (of its ports, an eef or site that is not the candidate's, a standoff or a
\* reference) comes before the first write; then the waypoints are written together.
SetWaypointFromCandidate(index, refused) ==
  /\ pc = "idle"
  /\ IF refused \/ ~Named(index)
       THEN out' = "FAILURE" /\ goal' = NoGoal
       ELSE /\ out' = "SUCCESS"
            /\ goal' = [of |-> "DetectCandidates", at |-> index, from |-> cands.list[index + 1]]
  /\ UNCHANGED <<outside, call, pc, job, late, found, cands, history>>

-----------------------------------------------------------------------------
TickStep ==
  \/ DeadlinePasses
  \/ CaptureBegins \/ SendTrigger \/ TakeAnswer \/ WindowLook \/ WindowEnds \/ CaptureFails
  \/ Arrives \/ NoArrival

NodeBegins ==
  \/ \E trigger \in BOOLEAN : DetectObject(trigger)
  \/ \E refused \in BOOLEAN : DetectCandidates(dep.source, refused)
  \/ \E i \in Places, oriented \in BOOLEAN : SetWaypointFromDetection(i - 1, oriented)
  \/ \E i \in Places, refused \in BOOLEAN : SetWaypointFromCandidate(i - 1, refused)

Next ==
  \/ TickStep \/ NodeBegins
  \/ TimePasses
  \/ \E t \in Topics, age \in Ages, dets \in Contents : Deliver(t, age, dets)
  \/ DetectorAnswers

\* The tick thread runs and its steady clock advances; nothing is assumed of the detector.
Spec == Init /\ [][Next]_vars /\ WF_vars(TickStep) /\ WF_vars(DeadlinePasses)

-----------------------------------------------------------------------------
(* Properties                                                              *)

\* Types, and that a counted set is of one array, in the order it was published in.
TypeOK ==
  /\ now \in 0..MaxTime /\ made \in 0..MaxMessages
  /\ pc \in {"idle", "arrive", "match", "call", "answer", "window"}
  /\ call \in {"none", "asked", "ok", "refused"} /\ {late} \subseteq BOOLEAN
  /\ found.count \in 0..keep /\ cands.count \in 0..keep
  /\ \A i, j \in 1..cands.count :
       /\ cands.list[i] # Absent /\ cands.list[i][1] = cands.list[j][1]
       /\ i < j => cands.list[i][2] < cands.list[j][2]

\* A capture takes an image taken after it began, as far as the two clocks agree, and
\* never one it or an earlier capture took: what was asked for by an earlier trigger and
\* comes late is not taken for this one's.
CaptureIsOfThisTrigger ==
  [][used' # used =>
       /\ used' > used /\ job.sampled
       /\ feed["detections"].taken >= job.boundary - (IF skew > 0 THEN skew ELSE 0)]_vars

\* A SetWaypointFromCandidate goes to a candidate of the newest DetectCandidates, whatever
\* ticks before it left: after one that failed, also half-way, it goes nowhere (line 2361
\* of bt_nodes.cpp sets the count to 0 first).  For DetectObject the code promises less:
\* after a success an index below its count is of that tick; an index above it, and every
\* index after a DetectObject that failed, may still be an older tick's (lines 2001, 2065).
WaypointsOfNewest ==
  [][goal' # goal =>
       /\ goal'.of = "DetectCandidates" => goal'.from[1] = newest.DetectCandidates
       /\ goal'.of = "DetectObject" /\ newest.DetectObject # 0 /\ (keep = 1 \/ goal'.at < found.count) =>
            goal'.from[1] = newest.DetectObject]_vars

\* Every tick ends, whatever the detector does.
NodeEnds == (pc # "idle") ~> (pc = "idle")
=============================================================================
