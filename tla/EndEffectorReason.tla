------------------------- MODULE EndEffectorReason -------------------------
(***************************************************************************)
(* The failure vocabulary of the end-effector contract                     *)
(* (end_effector_reason.hpp).  Every canonical end-effector node fails     *)
(* with exactly one reason; the reason's class says whether a generated    *)
(* retry may absorb the failure (VERDICT) or the runner latches it (every  *)
(* other class: a FAULT).                                                  *)
(***************************************************************************)

Verdicts == {"NO_OBJECT", "NOT_CONFIRMED_TIMEOUT", "OBJECT_LOST"}

ActuatorFailures ==
  {"SERVER_MISSING", "SEND_TIMEOUT", "COMMAND_REJECTED", "COMMAND_TIMEOUT",
   "COMMAND_ABORTED", "COMMAND_CANCELED", "PATH_TOLERANCE_VIOLATED",
   "GOAL_TOLERANCE_VIOLATED", "ACTUATOR_BLOCKED", "ACTUATOR_UNAVAILABLE",
   "ACTUATION_NOT_CONFIRMED", "HARDWARE_FAULT", "EEF_UNAVAILABLE"}

VerificationErrors ==
  {"VERIFICATION_UNAVAILABLE", "EVIDENCE_NOT_ACCEPTED", "CLOCK_MISMATCH",
   "NO_ENGAGE_COMMAND", "NO_RELEASE_COMMAND", "RELEASE_NOT_CONFIRMED"}

ContractFailures ==
  {"WRONG_EEF", "CONTRACT_MISMATCH", "UNKNOWN_EEF", "UNKNOWN_SITE",
   "UNKNOWN_ACTUATOR", "UNKNOWN_TARGET"}

Reasons ==
  Verdicts \cup ActuatorFailures \cup {"STATE_MISSING"}
           \cup {"STATE_STALE", "STATE_UNKNOWN"}
           \cup VerificationErrors \cup ContractFailures

\* NONE is the reason of a result that is not a failure.
ClassOf(r) ==
  CASE r \in Verdicts                          -> "VERDICT"
    [] r \in ActuatorFailures                  -> "ACTUATOR_FAILURE"
    [] r = "STATE_MISSING"                     -> "STATE_PROVIDER_MISSING"
    [] r \in {"STATE_STALE", "STATE_UNKNOWN"}  -> "STALE_STATE"
    [] r \in VerificationErrors                -> "VERIFICATION_ERROR"
    [] r \in ContractFailures                  -> "CONTRACT_FAILURE"
    [] OTHER                                   -> "NONE"

IsFault(r) == r # "NONE" /\ ClassOf(r) # "VERDICT"

=============================================================================
