--------------------------- MODULE MCMotionNodes ---------------------------
(* Two places, one waypoint a detection may rewrite, and path definitions *)
(* of every kind: two the loader refuses.                                   *)
EXTENDS MotionNodes, TLC

CONSTANTS h, p, w

MCPlaces == {h, p}

MCProcessFiles == {[places |-> <<>>, frame |-> "base"], [places |-> <<p>>, frame |-> "base"],
                   [places |-> <<p, h>>, frame |-> "part"]}

At(place) == [waypoint |-> FALSE, at |-> place]
Named(name) == [waypoint |-> TRUE, at |-> name]
Event(state, when) == [state |-> state, when |-> when, kind |-> "process_on"]

Stop3(first, mid, last) ==
  [dense |-> FALSE, last |-> 2, segments |-> 2, continuity |-> "stop",
   states |-> (0 :> first @@ 1 :> mid @@ 2 :> last),
   circ |-> {}, blend |-> {}, events |-> {}, provider |-> "", tolerance |-> FALSE]
Dense(n, continuity) ==
  [Stop3(At(h), At(p), At(h)) EXCEPT
     !.dense = TRUE, !.last = n, !.segments = 0, !.continuity = continuity,
     !.states = [i \in 0..n |-> <<At(h), At(p), At(h)>>[i + 1]]]

MCPathFiles ==
  LET plain == Stop3(At(h), Named(w), At(h))
      blend == [plain EXCEPT !.blend = {0}, !.continuity = "blend"]
  IN {[plain EXCEPT !.circ = {1},
                    !.events = {Event(1, "after_arrival"), Event(1, "before_departure")}],
      [blend EXCEPT !.tolerance = TRUE],
      \* refused: the robot stops where the segment blends
      [blend EXCEPT !.events = {Event(1, "after_arrival")}],
      \* refused with the Pilz sequence as the backend
      Dense(2, "blend"),
      \* accepted, and too short for the Cartesian backend
      Dense(1, "blend"),
      Dense(1, "stop"),
      \* refused: the provider cannot blend
      [blend EXCEPT !.provider = "pilz_circ"]}

MCSetups == {[backend |-> "pilz_sequence", resolves |-> TRUE],
             [backend |-> "cartesian_waypoints", resolves |-> FALSE]}
=============================================================================
