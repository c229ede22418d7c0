----------------------------- MODULE VerifyGrasp -----------------------------
(***************************************************************************)
(* The VerifyGrasp judge (verify_grasp.cpp): what ONE EndEffectorState     *)
(* sample says of one VerifyGrasp check.  Pure: the loop that waits for a  *)
(* sample, and the clock, are GraspVerification's.                         *)
(*                                                                         *)
(* Sites are numbered in the contract's order, and each is gripped by an   *)
(* actuator of its own.  An input is a record                              *)
(*   present, publishers   a sample arrived; the writers of its topic      *)
(*   wrongId, malformed    it names another device; its structure is not   *)
(*                         the contract's                                  *)
(*   status                the tool's status                               *)
(*   entry[i]   last, ref: the newest command its grip applied, and when;  *)
(*              grasp, evidence, stamp: the observation, its provenance    *)
(*              and when it was made                                       *)
(*   sent[i]    known: this runner sent its grip a command, at stamp, when *)
(*              the newest entry it saw was applied at prior               *)
(*   site       0: the tool;  expect;  accepted;  now;  atDeadline         *)
(*   tol, maxAge                                                           *)
(***************************************************************************)
EXTENDS EndEffectorReason, Integers, FiniteSetsExt

Commands  == {"NONE", "ENGAGE", "RELEASE", "TARGET"}
Grasps    == {"UNAVAILABLE", "UNKNOWN", "NOT_HELD", "PENDING", "HELD", "LOST"}
Evidences == {"none", "command_echo", "actuation_inference", "sensor"}
Statuses  == {"READY", "FAULT", "UNAVAILABLE"}

Sites(in) == DOMAIN in.entry

-----------------------------------------------------------------------------
(* One site (evalSite).                                                    *)

\* Mutant of Reflects: an entry no newer than the one seen at the send is taken.
ReflectsSinceSend(in, i) ==
  in.sent[i].known =>
    in.entry[i].last # "NONE" /\ in.entry[i].ref >= in.sent[i].stamp - in.tol

\* The reference rule: the entry shows the command THIS runner sent.
Reflects(in, i) ==
  in.sent[i].known =>
    /\ in.entry[i].last # "NONE"
    /\ in.entry[i].ref >= in.sent[i].stamp - in.tol
    /\ in.entry[i].ref > in.sent[i].prior

CommandFits(in, i) ==
  IF in.expect = "HELD" THEN in.entry[i].last = "ENGAGE"
                        ELSE in.entry[i].last \in {"RELEASE", "NONE"}

\* A tool nothing was ever sent to has no reference: a fresh NOT_HELD is enough.
HasRef(in, i) == in.entry[i].last # "NONE"

InFuture(in, i) ==
  \/ in.entry[i].stamp > in.now + in.tol
  \/ HasRef(in, i) /\ in.entry[i].ref > in.now + in.tol

\* Past the reference rule and the clock check: the tool's status may be judged.
Judged(in, i) == Reflects(in, i) /\ CommandFits(in, i) /\ ~InFuture(in, i)

\* Mutant of Fresh: the observation may be older than the command.
FreshByAge(in, i) == in.now - in.entry[i].stamp <= in.maxAge

Fresh(in, i) ==
  /\ HasRef(in, i) => in.entry[i].stamp >= in.entry[i].ref
  /\ in.now - in.entry[i].stamp <= in.maxAge

\* What a fresh observation reads as: OK, a wait, or a reason to fail for.
Observation(in, i) ==
  LET grasp    == in.entry[i].grasp
      evidence == in.entry[i].evidence
  IN IF evidence # "none" /\ evidence \notin in.accepted THEN "EVIDENCE_NOT_ACCEPTED"
     ELSE IF grasp = "UNKNOWN" THEN "WAIT_UNKNOWN"
     ELSE IF evidence = "none" THEN "EVIDENCE_NOT_ACCEPTED"
     ELSE IF in.expect = "HELD"
       THEN CASE grasp = "LOST"     -> "OBJECT_LOST"
              [] grasp = "NOT_HELD" -> "NO_OBJECT"
              [] grasp = "PENDING"  -> "WAIT_PENDING"
              [] OTHER              -> "OK"
       ELSE IF grasp = "NOT_HELD" THEN "OK" ELSE "WAIT_NOT_RELEASED"

\* A tool-level `held` skips the sites with no current engage.
Reading(in, i, toolLevel) ==
  IF ~Reflects(in, i) THEN "WAIT_REFLECT"
  ELSE IF ~CommandFits(in, i)
    THEN IF in.expect = "RELEASED" THEN "NO_RELEASE_COMMAND"
         ELSE IF toolLevel THEN "SKIP" ELSE "NO_ENGAGE_COMMAND"
  ELSE IF InFuture(in, i) THEN "CLOCK_MISMATCH"
  ELSE IF in.entry[i].grasp = "UNAVAILABLE" THEN "VERIFICATION_UNAVAILABLE"
  ELSE IF ~Fresh(in, i) THEN "WAIT_STALE"
  ELSE Observation(in, i)

IsWait(k) ==
  k \in {"WAIT_REFLECT", "WAIT_STALE", "WAIT_UNKNOWN", "WAIT_PENDING", "WAIT_NOT_RELEASED"}

IsFail(k) == k \in Reasons

\* What a wait becomes at the deadline.
DeadlineReason(k) ==
  CASE k = "WAIT_REFLECT"      -> "CONTRACT_MISMATCH"
    [] k = "WAIT_STALE"        -> "STATE_STALE"
    [] k = "WAIT_UNKNOWN"      -> "STATE_UNKNOWN"
    [] k = "WAIT_PENDING"      -> "NOT_CONFIRMED_TIMEOUT"
    [] k = "WAIT_NOT_RELEASED" -> "RELEASE_NOT_CONFIRMED"
    [] OTHER                   -> k

-----------------------------------------------------------------------------
(* The verdict.  site: the one it names, 0: the device.                    *)

Success(i)    == [verdict |-> "SUCCESS", reason |-> "NONE", site |-> i]
Wait(i)       == [verdict |-> "WAIT",    reason |-> "NONE", site |-> i]
Failure(r, i) == [verdict |-> "FAILURE", reason |-> r,      site |-> i]

StatusFault(in) == in.status \in {"FAULT", "UNAVAILABLE"}

StatusFailure(in) ==
  Failure(IF in.status = "FAULT" THEN "HARDWARE_FAULT" ELSE "EEF_UNAVAILABLE", 0)

SingleSite(in, i) ==
  LET k == Reading(in, i, FALSE)
  IN IF Judged(in, i) /\ StatusFault(in) THEN StatusFailure(in)
     ELSE IF k = "OK" THEN Success(i)
     ELSE IF IsFail(k) THEN Failure(k, i)
     ELSE IF IsWait(k) /\ in.atDeadline THEN Failure(DeadlineReason(k), i)
     ELSE Wait(i)

\* Mutant of ToolLevelHeld: at the deadline the first site in contract order
\* decides, whatever its reason's class.
ToolLevelHeldFirst(in) ==
  LET k == [i \in Sites(in) |-> Reading(in, i, TRUE)]
      engaged == {i \in Sites(in) : k[i] # "SKIP"}
      waiting == {i \in engaged : IsWait(k[i])}
      oks     == {i \in engaged : k[i] = "OK"}
  IN IF engaged = {} THEN Failure("NO_ENGAGE_COMMAND", 0)
     ELSE IF waiting # {} /\ ~in.atDeadline THEN Wait(Min(waiting))
     ELSE IF oks # {} THEN Success(Min(oks))
     ELSE Failure(DeadlineReason(k[Min(engaged)]), Min(engaged))

\* Mutant of ToolLevelHeld: an undecided site is not waited for.
ToolLevelHeldEager(in) ==
  LET k == [i \in Sites(in) |-> Reading(in, i, TRUE)]
      engaged  == {i \in Sites(in) : k[i] # "SKIP"}
      failed   == {i \in engaged : IsFail(k[i])}
      oks      == {i \in engaged : k[i] = "OK"}
      faulty   == {i \in engaged : IsFault(DeadlineReason(k[i]))}
      first(S) == Failure(DeadlineReason(k[Min(S)]), Min(S))
  IN IF engaged = {} THEN Failure("NO_ENGAGE_COMMAND", 0)
     ELSE IF oks # {} THEN Success(Min(oks))
     ELSE IF in.atDeadline THEN first(IF faulty # {} THEN faulty ELSE engaged)
     ELSE IF failed # {} THEN first(failed) ELSE Wait(Min(engaged))

\* Held through any site with a current engage: a LOST one fails it, an
\* undecided one is waited for, and when none holds a FAULT outranks a VERDICT.
ToolLevelHeld(in) ==
  LET k == [i \in Sites(in) |-> Reading(in, i, TRUE)]
      engaged  == {i \in Sites(in) : k[i] # "SKIP"}
      unjudged == {i \in engaged : IsFail(k[i]) /\ ~Judged(in, i)}
      lost     == {i \in engaged : k[i] = "OBJECT_LOST"}
      waiting  == {i \in engaged : IsWait(k[i])}
      oks      == {i \in engaged : k[i] = "OK"}
      faulty   == {i \in engaged : IsFault(DeadlineReason(k[i]))}
      first(S) == Failure(DeadlineReason(k[Min(S)]), Min(S))
  IN IF engaged = {} THEN Failure("NO_ENGAGE_COMMAND", 0)
     ELSE IF unjudged # {} THEN first(unjudged)
     ELSE IF StatusFault(in) /\ \E i \in engaged : Judged(in, i) THEN StatusFailure(in)
     ELSE IF lost # {} THEN first(lost)
     ELSE IF waiting # {} /\ ~in.atDeadline THEN Wait(Min(waiting))
     ELSE IF oks # {} THEN Success(Min(oks))
     ELSE IF faulty # {} THEN first(faulty)
     ELSE first(engaged)

\* Mutant of ToolLevelReleased: one released site is enough.
ToolLevelReleasedAny(in) ==
  LET k == [i \in Sites(in) |-> Reading(in, i, FALSE)]
  IN IF \E i \in Sites(in) : k[i] = "OK" THEN Success(0)
     ELSE IF in.atDeadline THEN Failure(DeadlineReason(k[1]), 1) ELSE Wait(1)

\* Released: every site is.
ToolLevelReleased(in) ==
  LET k == [i \in Sites(in) |-> Reading(in, i, FALSE)]
      failed   == {i \in Sites(in) : IsFail(k[i])}
      unjudged == {i \in failed : ~Judged(in, i)}
      waiting  == {i \in Sites(in) : IsWait(k[i])}
      first(S) == Failure(DeadlineReason(k[Min(S)]), Min(S))
  IN IF unjudged # {} THEN first(unjudged)
     ELSE IF StatusFault(in) /\ \E i \in Sites(in) : Judged(in, i) THEN StatusFailure(in)
     ELSE IF failed # {} THEN first(failed)
     ELSE IF waiting # {} THEN IF in.atDeadline THEN first(waiting) ELSE Wait(Min(waiting))
     ELSE Success(0)

Judge(in) ==
  IF ~in.present
    THEN IF in.atDeadline THEN Failure("STATE_MISSING", 0) ELSE Wait(0)
  ELSE IF in.wrongId THEN Failure("WRONG_EEF", 0)
  ELSE IF in.publishers > 1 \/ in.malformed THEN Failure("CONTRACT_MISMATCH", 0)
  ELSE IF in.site # 0 THEN SingleSite(in, in.site)
  ELSE IF Sites(in) = {1} THEN SingleSite(in, 1)
  ELSE IF in.expect = "HELD" THEN ToolLevelHeld(in) ELSE ToolLevelReleased(in)

=============================================================================
