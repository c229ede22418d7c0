------------------------ MODULE MCGraspVerification ------------------------
\* Each interface, with the adapter's clock ahead of or behind the runner's by the
\* tolerance; each way a name can be remapped; a tool that does what it is told, the
\* case in which checks succeed.
EXTENDS GraspVerification

Wiring(a, c, t, k, n) ==
  [actuator |-> a, client |-> c, topic |-> t, skew |-> k, restarts |-> n]

MCWirings ==
  {Wiring("set_bool", "own", "own", 0, 1), Wiring("set_bool_feedback", "own", "own", 1, 0),
   Wiring("action", "own", "own", -1, 0)}
    \cup {Wiring("set_bool", "other", "own", 0, 0), Wiring("set_bool", "own", "other", 0, 0),
          Wiring("set_bool", "other", "other", 0, 0), Wiring("set_bool", "own", "odd", 0, 0)}

MCReadings ==
  [c \in Grips \cup {"NONE"} |->
    {<<IF c = "ENGAGE" THEN "HELD" ELSE "NOT_HELD", "sensor">>}]
=============================================================================
