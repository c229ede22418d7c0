---------------------------- MODULE PathLibrary ----------------------------
(***************************************************************************)
(* The runner's path library (path_library.cpp) and the runs FollowPath    *)
(* makes of a path (bt_nodes.cpp): which definitions of paths.yaml the     *)
(* loader accepts, what it derives from them, and which part from..to of   *)
(* an accepted path FollowPath agrees to run.  Poses are abstract places,  *)
(* texts and the parsing of numbers are left out.                          *)
(*                                                                         *)
(* A definition p has states 0..p.last (a waypoint's name or an inline     *)
(* place each) and, unless it is dense, p.segments segments, segment i     *)
(* from state i to state i+1: p.circ and p.blend are the sets of segments  *)
(* that are arcs, and that blend into the next one.  p.events are its      *)
(* process events and p.provider the one it names ("" = the default).      *)
(***************************************************************************)
EXTENDS Integers

When == {"after_arrival", "before_departure"}
EventKinds ==
  {"process_on", "process_off", "set_value", "capture", "dwell", "external"}

-----------------------------------------------------------------------------
(* The registry's providers: their door route and what they provide.  Every *)
(* one scales velocities, and only pilz_sequence's TCP limits and process  *)
(* path are left out: no path of the library asks for them.                *)

Providers ==
  [pilz_sequence |->
     [route |-> "motion_sequence",
      provides |-> {"multi_segment_path", "blending", "cartesian_linear",
                    "cartesian_circular", "goal_tolerance"}],
   cartesian_waypoints |->
     [route |-> "cartesian_path", provides |-> {"continuous_path"}],
   pilz_circ |->
     [route |-> "motion_sequence",
      provides |-> {"cartesian_circular", "goal_tolerance"}],
   pilz_lin |->
     [route |-> "plan_and_execute",
      provides |-> {"cartesian_linear", "goal_tolerance"}],
   pilz_ptp |->
     [route |-> "plan_and_execute", provides |-> {"joint_ptp", "goal_tolerance"}],
   ompl |->
     [route |-> "plan_and_execute",
      provides |-> {"collision_free_planning", "goal_tolerance"}],
   ompl_chomp |->
     [route |-> "plan_and_execute",
      provides |-> {"collision_free_planning", "goal_tolerance"}]]

Provider(p) ==
  CASE p.provider # "" -> p.provider
    [] p.provider = "" /\ p.dense /\ p.continuity = "blend" -> "cartesian_waypoints"
    [] p.provider = "" /\ ~(p.dense /\ p.continuity = "blend") -> "pilz_sequence"

\* What the path needs of its provider.
RequiredCapabilities(p) ==
  (IF p.tolerance THEN {"goal_tolerance"} ELSE {}) \union
  CASE p.dense /\ p.continuity = "blend" -> {"continuous_path"}
    [] p.dense /\ p.continuity = "stop"  -> {"multi_segment_path", "cartesian_linear"}
    [] ~p.dense ->
         {"multi_segment_path"}
         \union {IF i \in p.circ THEN "cartesian_circular" ELSE "cartesian_linear" :
                   i \in 0..p.segments - 1}
         \union (IF p.continuity = "blend" THEN {"blending"} ELSE {})

MissingCapabilities(provider, required) == required \ Providers[provider].provides

\* The states the path stops at for an event: event_states.
EventStates(p) == {e.state : e \in p.events}

-----------------------------------------------------------------------------
(* What the loader accepts.  It refuses the whole file, and the runner     *)
(* does not start, if one path is refused.                                 *)

\* A segment blends into a next one, so the last one cannot; and continuity
\* says whether any does.
SegmentsAccepted(p) ==
  /\ p.last >= 1
  /\ p.segments = p.last
  /\ p.segments - 1 \notin p.blend
  /\ p.continuity = "blend" <=> p.blend # {}

\* A dense source gives at least two samples.
SourceAccepted(p) == p.last >= 1

\* Mutant of EventAccepted: events are checked apart from blends.
EventAcceptedAlone(p, e) ==
  /\ e.state \in 0..p.last
  /\ e.when \in When /\ e.kind \in EventKinds
  /\ ~(e.when = "before_departure" /\ e.state = p.last)

EventAccepted(p, e) ==
  /\ e.state \in 0..p.last
  /\ e.when \in When /\ e.kind \in EventKinds
  /\ ~(e.when = "before_departure" /\ e.state = p.last)
  \* the robot stops here: the segment that arrives must not blend
  /\ e.state - 1 \notin p.blend

EventsAccepted(p) ==
  /\ p.events # {} => ~p.dense
  /\ \A e \in p.events : EventAccepted(p, e)

ProviderAccepted(p, backend) ==
  LET provider == Provider(p) IN
  /\ provider \in DOMAIN Providers
  /\ MissingCapabilities(provider, RequiredCapabilities(p)) = {}
  /\ Providers[provider].route = "cartesian_path" => backend = "cartesian_waypoints"
  /\ Providers[provider].route \in {"motion_sequence", "cartesian_path"}

\* Of the geometry, what places tell: consecutive states differ.
GeometryHolds(p, place) == \A i \in 0..p.last - 1 : place[i] # place[i + 1]

Inline(p) == \A i \in 0..p.last : ~p.states[i].waypoint

ParsePath(p, backend) ==
  /\ IF p.dense THEN SourceAccepted(p) ELSE SegmentsAccepted(p)
  /\ EventsAccepted(p)
  /\ ProviderAccepted(p, backend)
  /\ Inline(p) => GeometryHolds(p, [i \in 0..p.last |-> p.states[i].at])

-----------------------------------------------------------------------------
(* The runs FollowPath makes: states from..to, whole without its ports.    *)

\* Mutant of DrivesThroughEvent: the run's last segment is not looked at.
DrivesThroughEventButLast(p, from, to) ==
  \E e \in EventStates(p) : from < e /\ e < to - 1

\* The run would drive through a state where the path stops for an event.
DrivesThroughEvent(p, from, to) ==
  \E e \in EventStates(p) : from < e /\ e < to

\* The run would end where its last segment blends into the next one.
EndsInBlend(p, from, to) ==
  to > from /\ to < p.last /\ ~p.dense /\ to - 1 \in p.blend

RunInRange(p, ranged, from, to) ==
  /\ ranged => ~p.dense
  /\ from \in 0..p.last /\ to \in 0..p.last /\ from <= to
  /\ ~DrivesThroughEvent(p, from, to)
  /\ ~EndsInBlend(p, from, to)

\* The items of the sequence goal: the places of states from+1..to, each
\* with whether it blends into the next.
SequenceItems(p, place, from, to) ==
  [k \in 1..to - from |->
     [place |-> place[from + k],
      blend |-> ~p.dense /\ p.continuity = "blend" /\ from + k - 1 \in p.blend]]

-----------------------------------------------------------------------------
(* How a tree runs a path: whole if it is dense, else split at its event    *)
(* states, each event node between the run that arrives and the run that    *)
(* departs.                                                                 *)

Cuts(p) == {0, p.last} \union EventStates(p)

SplitRuns(p) ==
  {run \in Cuts(p) \X Cuts(p) :
     run[1] < run[2] /\ \A c \in Cuts(p) : ~(run[1] < c /\ c < run[2])}

Runs(p) == IF p.dense THEN {<<0, p.last>>} ELSE SplitRuns(p)

\* The poses a backend wants at least.  It is sent those after the run's first state,
\* where the robot is.
FewestPoses(p) == IF Providers[Provider(p)].route = "cartesian_path" THEN 2 ELSE 1

\* FollowPath refuses none of the path's runs for its range, and leaves its backend
\* enough to go through.
Runnable(p) ==
  \A run \in Runs(p) :
    /\ RunInRange(p, ~p.dense, run[1], run[2])
    /\ run[2] - run[1] >= FewestPoses(p)

\* A continuous dense path of two samples.
TwoSamples(p) == p.dense /\ p.continuity = "blend" /\ p.last = 1

\* The loader checks a path's blends, events and samples, FollowPath its runs and the
\* backend its poses, each apart from the others.  They agree on every path the loader
\* accepts but one kind: a continuous dense path of two samples is accepted and fails
\* whenever it is run.
AcceptedIsRunnable(p, backend) ==
  ParsePath(p, backend) => (Runnable(p) <=> ~TwoSamples(p))
=============================================================================
