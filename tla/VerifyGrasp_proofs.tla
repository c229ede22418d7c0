------------------------- MODULE VerifyGrasp_proofs -------------------------
(***************************************************************************)
(* What the judge's verdict rests on, for a device of any number of sites  *)
(* and any stamps, clock, tolerance and age limit.                         *)
(***************************************************************************)
EXTENDS MCVerifyGrasp, WellFoundedInduction, TLAPS

\* One site's entry, and what this runner sent its grip.
Shown == [last : Commands, ref : Int, grasp : Grasps, evidence : Evidences, stamp : Int]
Told  == [known : BOOLEAN, stamp : Int, prior : Int]

\* What the judge can be given for a device of n sites.
InputsOf(n) ==
  [present : BOOLEAN, publishers : Nat, wrongId : BOOLEAN, malformed : BOOLEAN,
   status : Statuses, entry : [1..n -> Shown], sent : [1..n -> Told], site : 0..n,
   expect : {"HELD", "RELEASED"}, accepted : SUBSET Evidences, now : Int,
   atDeadline : BOOLEAN, tol : Nat, maxAge : Nat]

Inputs == UNION {InputsOf(n) : n \in Nat \ {0}}

-----------------------------------------------------------------------------
\* The first of some sites is one of them.
LEMMA LeastSite ==
  ASSUME NEW S, S \subseteq Nat, S # {}
  PROVE  \E i \in S : \A j \in S : i <= j
<1> DEFINE R == OpToRel(<, Nat)
<1>1. IsWellFoundedOn(R, Nat)  BY NatLessThanWellFounded
<1>2. ASSUME NEW m \in Nat, NEW n \in Nat, m < n PROVE <<m, n>> \in R  BY <1>2 DEF OpToRel
<1> HIDE DEF R
<1>3. PICK i \in S : \A j \in S : ~(<<j, i>> \in R)  BY <1>1, WFMin
<1>4. ASSUME NEW j \in S PROVE i <= j
  <2>1. ~(j < i)  BY <1>2, <1>3
  <2>. QED  BY <2>1
<1>. QED  BY <1>4

LEMMA FirstIsOne ==
  ASSUME NEW S, S \subseteq Nat, S # {}
  PROVE  Min(S) \in S
BY LeastSite DEF Min

-----------------------------------------------------------------------------
(* One site.                                                               *)

Waits == {"WAIT_REFLECT", "WAIT_STALE", "WAIT_UNKNOWN", "WAIT_PENDING", "WAIT_NOT_RELEASED"}

\* What a site can read as, and what that becomes at the deadline.
LEMMA ReadingIsOneOf ==
  ASSUME NEW i, NEW tool \in BOOLEAN
  PROVE  /\ Reading(in, i, tool) \in {"OK", "NO_RELEASE_COMMAND", "NO_ENGAGE_COMMAND", "CLOCK_MISMATCH",
               "VERIFICATION_UNAVAILABLE", "EVIDENCE_NOT_ACCEPTED", "OBJECT_LOST", "NO_OBJECT"}
             \cup Waits \cup {"SKIP"}
         /\ Reading(in, i, FALSE) # "SKIP"
BY DEF Reading, Observation, Waits

\* A reading that is OK, or that a retry may absorb, now or at the deadline, is of a site
\* whose command was seen applied and whose observation is fresh and accepted.
Decides(k) == k \in {"OK", "OBJECT_LOST", "NO_OBJECT", "WAIT_PENDING"}

LEMMA DecidesOrFaults ==
  ASSUME NEW i, NEW tool \in BOOLEAN
  PROVE  LET k == Reading(in, i, tool)
         IN  /\ k \in Verdicts \/ DeadlineReason(k) \in Verdicts => Decides(k)
             /\ ~Decides(k) /\ k # "SKIP" => IsFault(DeadlineReason(k))
             /\ IsFail(k) => DeadlineReason(k) = k
             /\ k = "OK" \/ k = "SKIP" \/ IsFail(k) \/ IsWait(k)
             /\ ~IsFail("OK") /\ ~IsWait("OK") /\ k # "NOT_CONFIRMED_TIMEOUT"
<1> DEFINE k == Reading(in, i, tool)
<1>1. k \in {"OK", "NO_RELEASE_COMMAND", "NO_ENGAGE_COMMAND", "CLOCK_MISMATCH",
             "VERIFICATION_UNAVAILABLE", "EVIDENCE_NOT_ACCEPTED", "OBJECT_LOST", "NO_OBJECT"}
           \cup Waits \cup {"SKIP"}
  BY ReadingIsOneOf
<1> HIDE DEF k
<1>2. k \in Verdicts \/ DeadlineReason(k) \in Verdicts => Decides(k)
  BY <1>1 DEF Verdicts, DeadlineReason, Decides, Waits
<1>3. ~Decides(k) /\ k # "SKIP" => IsFault(DeadlineReason(k))
  BY <1>1
  DEF Decides, Waits, DeadlineReason, IsFault, ClassOf, Verdicts, ActuatorFailures,
      VerificationErrors, ContractFailures
<1>4. IsFail(k) => DeadlineReason(k) = k
  BY <1>1 DEF DeadlineReason, IsFail, Reasons, Waits, Verdicts, ActuatorFailures, VerificationErrors, ContractFailures
<1>5. k = "OK" \/ k = "SKIP" \/ IsFail(k) \/ IsWait(k)
  BY <1>1 DEF IsFail, IsWait, Reasons, Waits, Verdicts, VerificationErrors
<1>6. ~IsFail("OK") /\ ~IsWait("OK") /\ k # "NOT_CONFIRMED_TIMEOUT"
  BY <1>1 DEF IsFail, IsWait, Reasons, Waits, Verdicts, ActuatorFailures, VerificationErrors, ContractFailures
<1>. QED  BY <1>2, <1>3, <1>4, <1>5, <1>6 DEF k

LEMMA DecidedSite ==
  ASSUME in \in Inputs, NEW i \in Sites(in), NEW tool \in BOOLEAN, Decides(Reading(in, i, tool))
  PROVE  /\ ObservedAfterCommand(i) /\ Judged(in, i)
         /\ Reading(in, i, tool) = "OK" =>
              in.entry[i].grasp = (IF in.expect = "HELD" THEN "HELD" ELSE "NOT_HELD")
         /\ Reading(in, i, tool) \in {"NO_OBJECT", "WAIT_PENDING"} =>
              in.expect = "HELD" /\ in.entry[i].grasp \in {"NOT_HELD", "PENDING"}
<1> DEFINE k == Reading(in, i, tool)
           e == in.entry[i]
<1>1. /\ Reflects(in, i) /\ CommandFits(in, i) /\ ~InFuture(in, i)
      /\ e.grasp # "UNAVAILABLE" /\ Fresh(in, i) /\ k = Observation(in, i)
  BY DEF Reading, Decides
<1>2. PICK n \in Nat \ {0} : in \in InputsOf(n)  BY DEF Inputs
<1>3. /\ e \in Shown /\ in.sent[i] \in Told /\ in.now \in Int /\ in.tol \in Nat /\ in.maxAge \in Nat
  <2>1. in.entry \in [1..n -> Shown] /\ in.sent \in [1..n -> Told] /\ DOMAIN in.entry = 1..n
    BY <1>2 DEF InputsOf
  <2>. QED  BY <1>2, <2>1 DEF Sites, InputsOf
<1>4. e.stamp \in Int /\ e.ref \in Int /\ in.sent[i].prior \in Int /\ e.grasp \in Grasps
  BY <1>3 DEF Shown, Told
<1>5. in.sent[i].known => e.ref > in.sent[i].prior  BY <1>1 DEF Reflects
<1>6. e.last # "NONE" => e.stamp >= e.ref  BY <1>1 DEF Fresh, HasRef
<1>7. e.stamp >= in.now - in.maxAge /\ e.stamp <= in.now + in.tol
  <2>1. in.now - e.stamp <= in.maxAge  BY <1>1 DEF Fresh
  <2>2. ~(e.stamp > in.now + in.tol)  BY <1>1 DEF InFuture
  <2>. QED  BY <1>3, <1>4, <2>1, <2>2
<1>8. /\ e.evidence \in in.accepted
      /\ k = "OK" => e.grasp = (IF in.expect = "HELD" THEN "HELD" ELSE "NOT_HELD")
      /\ k \in {"NO_OBJECT", "WAIT_PENDING"} =>
           in.expect = "HELD" /\ e.grasp \in {"NOT_HELD", "PENDING"}
  BY <1>1, <1>4 DEF Observation, Decides, Grasps
<1>. QED  BY <1>1, <1>5, <1>6, <1>7, <1>8 DEF ObservedAfterCommand, Judged

\* A named site's check, or the only site's.
LEMMA SingleSiteRests ==
  ASSUME in \in Inputs, NEW i \in Sites(in),
         NEW r, r = SingleSite(in, i), r.verdict = "SUCCESS" \/ r.reason \in Verdicts
  PROVE  /\ in.status = "READY" /\ r.site = i /\ ObservedAfterCommand(i)
         /\ r.reason \in {"NO_OBJECT", "NOT_CONFIRMED_TIMEOUT"} =>
              in.entry[i].grasp \in {"NOT_HELD", "PENDING"}
<1> DEFINE k == Reading(in, i, FALSE)
<1>1. /\ StatusFailure(in).verdict = "FAILURE" /\ StatusFailure(in).reason \notin Verdicts
  BY DEF StatusFailure, Failure, Verdicts
<1>2. Wait(i).verdict # "SUCCESS" /\ Wait(i).reason \notin Verdicts  BY DEF Wait, Verdicts
<1>3. /\ ~(Judged(in, i) /\ StatusFault(in))
      /\ \/ k = "OK" /\ r = Success(i)
         \/ IsFail(k) /\ r = Failure(k, i)
         \/ r = Failure(DeadlineReason(k), i)
  BY <1>1, <1>2 DEF SingleSite
<1>4. Decides(k) /\ r.site = i /\ (k # "OK" => r.reason \in {k, DeadlineReason(k)} /\ r.reason # "NONE")
      /\ (k = "OK" => r.reason \notin {"NO_OBJECT", "NOT_CONFIRMED_TIMEOUT"})
  <2>0. k \in Verdicts \/ DeadlineReason(k) \in Verdicts => Decides(k)
    BY DecidesOrFaults
  <2> HIDE DEF k
  <2>1. \/ k = "OK" /\ r = Success(i)
        \/ k \in Verdicts /\ r.reason = k /\ r.site = i
        \/ DeadlineReason(k) \in Verdicts /\ r.reason = DeadlineReason(k) /\ r.site = i
    BY <1>3 DEF Failure
  <2>2. DeadlineReason("OK") = "OK" /\ "OK" \notin Verdicts /\ "NONE" \notin Verdicts
    BY DEF DeadlineReason, Verdicts
  <2>3. CASE k = "OK" /\ r = Success(i)  BY <2>3 DEF Success, Decides
  <2>4. CASE k \in Verdicts /\ r.reason = k /\ r.site = i  BY <2>0, <2>2, <2>4
  <2>5. CASE DeadlineReason(k) \in Verdicts /\ r.reason = DeadlineReason(k) /\ r.site = i
    BY <2>0, <2>2, <2>5
  <2>. QED  BY <2>1, <2>3, <2>4, <2>5
<1>5. ObservedAfterCommand(i) /\ Judged(in, i)  BY <1>4, DecidedSite
<1>6. in.status = "READY"
  <2>1. in.status \in Statuses  BY DEF Inputs, InputsOf
  <2>. QED  BY <1>3, <1>5, <2>1 DEF StatusFault, Statuses
<1>7. r.reason \in {"NO_OBJECT", "NOT_CONFIRMED_TIMEOUT"} => k \in {"NO_OBJECT", "WAIT_PENDING"}
  <2>1. r.reason \in {"NO_OBJECT", "NOT_CONFIRMED_TIMEOUT"} => k # "OK" /\ k # "OBJECT_LOST"
    BY <1>4 DEF DeadlineReason
  <2>. QED  BY <1>4, <2>1 DEF Decides
<1>. QED  BY <1>4, <1>5, <1>6, <1>7, DecidedSite


-----------------------------------------------------------------------------
(* The tool: a result names the first site of those it rests on.           *)

LEMMA SitesAreNumbers ==
  ASSUME in \in Inputs
  PROVE  Sites(in) \subseteq Nat \ {0} /\ in.status \in Statuses
BY DEF Inputs, InputsOf, Sites

\* A tool reads as held, or as empty in a way a retry may absorb, by one of its sites; as
\* empty only when every site with an engage is.
LEMMA ToolLevelHeldRests ==
  ASSUME in \in Inputs, NEW r, r = ToolLevelHeld(in)
  PROVE  /\ r.verdict = "SUCCESS" \/ r.reason \in Verdicts =>
              ~StatusFault(in) /\ r.site \in Sites(in) /\ Decides(Reading(in, r.site, TRUE))
         /\ r.reason \in {"NO_OBJECT", "NOT_CONFIRMED_TIMEOUT"} =>
              \A i \in Sites(in) : Reading(in, i, TRUE) \in {"SKIP", "NO_OBJECT", "WAIT_PENDING"}
<1> DEFINE k        == [i \in Sites(in) |-> Reading(in, i, TRUE)]
           engaged  == {i \in Sites(in) : k[i] # "SKIP"}
           unjudged == {i \in engaged : IsFail(k[i]) /\ ~Judged(in, i)}
           lost     == {i \in engaged : k[i] = "OBJECT_LOST"}
           waiting  == {i \in engaged : IsWait(k[i])}
           oks      == {i \in engaged : k[i] = "OK"}
           faulty   == {i \in engaged : IsFault(DeadlineReason(k[i]))}
           first(S) == Failure(DeadlineReason(k[Min(S)]), Min(S))
<1>1. r = IF engaged = {} THEN Failure("NO_ENGAGE_COMMAND", 0)
          ELSE IF unjudged # {} THEN first(unjudged)
          ELSE IF StatusFault(in) /\ \E i \in engaged : Judged(in, i) THEN StatusFailure(in)
          ELSE IF lost # {} THEN first(lost)
          ELSE IF waiting # {} /\ ~in.atDeadline THEN Wait(Min(waiting))
          ELSE IF oks # {} THEN Success(Min(oks))
          ELSE IF faulty # {} THEN first(faulty)
          ELSE first(engaged)
  BY DEF ToolLevelHeld
<1>2. /\ \A i \in Sites(in) : k[i] = Reading(in, i, TRUE)
      /\ engaged \subseteq Sites(in)
      /\ unjudged \subseteq engaged /\ lost \subseteq engaged /\ waiting \subseteq engaged
      /\ oks \subseteq engaged /\ faulty \subseteq engaged
  OBVIOUS
<1>3. ASSUME NEW S, S \subseteq Sites(in), S # {} PROVE Min(S) \in S
  BY <1>3, SitesAreNumbers, FirstIsOne
<1>4. \A i \in Sites(in) :
        /\ DeadlineReason(k[i]) \in Verdicts => Decides(k[i])
        /\ Decides(k[i]) => Judged(in, i)
        /\ ~Decides(k[i]) /\ k[i] # "SKIP" => IsFault(DeadlineReason(k[i]))
        /\ k[i] # "NOT_CONFIRMED_TIMEOUT"
  BY <1>2, DecidesOrFaults, DecidedSite
<1>5. \A i \in unjudged : ~Judged(in, i)  OBVIOUS
<1>6. /\ \A i \in oks : k[i] = "OK"
      /\ \A i \in lost : k[i] = "OBJECT_LOST"
      /\ \A i \in engaged : i \notin oks => k[i] # "OK"
      /\ \A i \in engaged : i \notin lost => k[i] # "OBJECT_LOST"
      /\ \A i \in engaged : i \notin faulty => ~IsFault(DeadlineReason(k[i]))
      /\ \A i \in faulty : IsFault(DeadlineReason(k[i]))
      /\ \A i \in Sites(in) : i \notin engaged => k[i] = "SKIP"
  OBVIOUS
<1> HIDE DEF k, engaged, unjudged, lost, waiting, oks, faulty
<1>7. ASSUME NEW S, S \subseteq Sites(in), S # {}, r = first(S)
      PROVE  /\ r.verdict = "FAILURE" /\ r.site \in S /\ r.reason = DeadlineReason(k[r.site])
  BY <1>3, <1>7 DEF Failure
<1>8. ASSUME r.verdict = "SUCCESS" \/ r.reason \in Verdicts
      PROVE  ~StatusFault(in) /\ r.site \in engaged /\ Decides(k[r.site])
  <2>0. /\ "NO_ENGAGE_COMMAND" \notin Verdicts /\ "HARDWARE_FAULT" \notin Verdicts
        /\ "EEF_UNAVAILABLE" \notin Verdicts /\ "NONE" \notin Verdicts
    BY DEF Verdicts
  <2>1. engaged # {}
    <3>1. Failure("NO_ENGAGE_COMMAND", 0).verdict = "FAILURE"
          /\ Failure("NO_ENGAGE_COMMAND", 0).reason = "NO_ENGAGE_COMMAND"
      BY DEF Failure
    <3>. QED  BY <1>1, <1>8, <2>0, <3>1
  <2>2. unjudged = {}
    <3>1. ASSUME unjudged # {} PROVE FALSE
      <4>1. r = first(unjudged)  BY <1>1, <2>1, <3>1
      <4>2. /\ r.verdict = "FAILURE" /\ r.site \in unjudged /\ r.reason = DeadlineReason(k[r.site])
        BY <1>2, <1>7, <3>1, <4>1
      <4>. QED  BY <1>2, <1>4, <1>5, <1>8, <4>2
    <3>. QED  BY <3>1
  <2>3. ~(StatusFault(in) /\ \E i \in engaged : Judged(in, i))
    <3>1. StatusFailure(in).verdict = "FAILURE" /\ StatusFailure(in).reason \notin Verdicts
      BY <2>0 DEF StatusFailure, Failure
    <3>. QED  BY <1>1, <1>8, <2>1, <2>2, <3>1
  <2>4. r.site \in engaged /\ Decides(k[r.site])
    <3>1. CASE lost # {}
      <4>1. r = first(lost)  BY <1>1, <2>1, <2>2, <2>3, <3>1
      <4>2. r.site \in lost  BY <1>2, <1>7, <3>1, <4>1
      <4>. QED  BY <1>2, <1>6, <4>2 DEF Decides
    <3>2. CASE lost = {} /\ waiting # {} /\ ~in.atDeadline
      <4>1. r = Wait(Min(waiting))  BY <1>1, <2>1, <2>2, <2>3, <3>2
      <4>. QED  BY <1>8, <2>0, <4>1 DEF Wait
    <3>3. CASE lost = {} /\ ~(waiting # {} /\ ~in.atDeadline) /\ oks # {}
      <4>1. r = Success(Min(oks))  BY <1>1, <2>1, <2>2, <2>3, <3>3
      <4>2. r.site \in oks  BY <1>2, <1>3, <3>3, <4>1 DEF Success
      <4>. QED  BY <1>2, <1>6, <4>2 DEF Decides
    <3>4. CASE lost = {} /\ ~(waiting # {} /\ ~in.atDeadline) /\ oks = {}
      <4>1. (r = first(faulty) /\ faulty # {}) \/ (r = first(engaged) /\ engaged # {})
        BY <1>1, <2>1, <2>2, <2>3, <3>4
      <4>2. r.site \in engaged /\ r.reason = DeadlineReason(k[r.site]) /\ r.verdict = "FAILURE"
        BY <1>2, <1>7, <4>1
      <4>. QED  BY <1>2, <1>4, <1>8, <4>2
    <3>. QED  BY <3>1, <3>2, <3>3, <3>4
  <2>. QED  BY <1>2, <1>4, <2>3, <2>4
<1>9. ASSUME r.reason \in {"NO_OBJECT", "NOT_CONFIRMED_TIMEOUT"}, NEW i \in engaged
      PROVE  k[i] \in {"NO_OBJECT", "WAIT_PENDING"}
  <2>1. r.reason \in Verdicts  BY <1>9 DEF Verdicts
  <2>2. /\ ~StatusFault(in) /\ r.site \in engaged /\ Decides(k[r.site]) /\ engaged # {}
    BY <1>8, <2>1
  <2>3. unjudged = {}
    <3>1. ASSUME unjudged # {} PROVE FALSE
      <4>1. r = first(unjudged)  BY <1>1, <2>2, <3>1
      <4>2. r.site \in unjudged  BY <1>2, <1>7, <3>1, <4>1
      <4>. QED  BY <1>2, <1>4, <1>5, <2>2, <4>2
    <3>. QED  BY <3>1
  <2>4. lost = {}
    <3>1. ASSUME lost # {} PROVE FALSE
      <4>1. r = first(lost)  BY <1>1, <2>2, <2>3, <3>1
      <4>2. r.site \in lost /\ r.reason = DeadlineReason(k[r.site])  BY <1>2, <1>7, <3>1, <4>1
      <4>3. r.reason = DeadlineReason("OBJECT_LOST")  BY <1>6, <4>2
      <4>. QED  BY <1>9, <4>3 DEF DeadlineReason
    <3>. QED  BY <3>1
  <2>5. ~(waiting # {} /\ ~in.atDeadline) /\ oks = {}
    <3>1. /\ Wait(Min(waiting)).reason = "NONE" /\ Success(Min(oks)).reason = "NONE"
      BY DEF Wait, Success
    <3>. QED  BY <1>1, <1>9, <2>2, <2>3, <2>4, <3>1
  <2>6. faulty = {}
    <3>1. ASSUME faulty # {} PROVE FALSE
      <4>1. r = first(faulty)  BY <1>1, <2>2, <2>3, <2>4, <2>5, <3>1
      <4>2. r.site \in faulty /\ r.reason = DeadlineReason(k[r.site])  BY <1>2, <1>7, <3>1, <4>1
      <4>3. IsFault(r.reason)  BY <1>6, <4>2
      <4>4. ClassOf(r.reason) = "VERDICT"
        BY <2>1 DEF ClassOf, Verdicts, ActuatorFailures, VerificationErrors, ContractFailures
      <4>. QED  BY <4>3, <4>4 DEF IsFault
    <3>. QED  BY <3>1
  <2>7. Decides(k[i]) /\ k[i] # "OK" /\ k[i] # "OBJECT_LOST"
    <3>1. i \in Sites(in) /\ i \notin oks /\ i \notin lost /\ i \notin faulty
      BY <1>2, <2>4, <2>5, <2>6
    <3>2. k[i] # "SKIP"  BY DEF engaged
    <3>. QED  BY <1>4, <1>6, <3>1, <3>2
  <2>. QED  BY <2>7 DEF Decides
<1>. QED
  BY <1>2, <1>6, <1>8, <1>9


\* A tool reads as released by all of its sites, and as not released in a way a retry may
\* absorb by none.
LEMMA ToolLevelReleasedRests ==
  ASSUME in \in Inputs, NEW r, r = ToolLevelReleased(in), in.expect = "RELEASED"
  PROVE  /\ r.verdict = "SUCCESS" =>
              /\ r = Success(0)
              /\ \A i \in Sites(in) : Reading(in, i, FALSE) = "OK"
         /\ r.reason \notin Verdicts
         /\ r.verdict = "SUCCESS" => ~(StatusFault(in) /\ \E i \in Sites(in) : Judged(in, i))
<1> DEFINE k        == [i \in Sites(in) |-> Reading(in, i, FALSE)]
           failed   == {i \in Sites(in) : IsFail(k[i])}
           unjudged == {i \in failed : ~Judged(in, i)}
           waiting  == {i \in Sites(in) : IsWait(k[i])}
           first(S) == Failure(DeadlineReason(k[Min(S)]), Min(S))
<1>1. r = IF unjudged # {} THEN first(unjudged)
          ELSE IF StatusFault(in) /\ \E i \in Sites(in) : Judged(in, i) THEN StatusFailure(in)
          ELSE IF failed # {} THEN first(failed)
          ELSE IF waiting # {} THEN IF in.atDeadline THEN first(waiting) ELSE Wait(Min(waiting))
          ELSE Success(0)
  BY DEF ToolLevelReleased
<1>2. /\ failed \subseteq Sites(in) /\ unjudged \subseteq Sites(in) /\ waiting \subseteq Sites(in)
      /\ \A i \in Sites(in) : k[i] = Reading(in, i, FALSE)
      /\ \A i \in Sites(in) : i \notin failed => ~IsFail(k[i])
      /\ \A i \in Sites(in) : i \notin waiting => ~IsWait(k[i])
      /\ \A i \in failed : IsFail(k[i])
      /\ \A i \in waiting : IsWait(k[i])
  OBVIOUS
<1>3. ASSUME NEW i \in Sites(in), IsFail(k[i]) \/ IsWait(k[i])
      PROVE  DeadlineReason(k[i]) \notin Verdicts
  <2>1. Decides(k[i]) => k[i] \notin {"NO_OBJECT", "WAIT_PENDING", "OBJECT_LOST"}
    BY DEF Reading, Observation
  <2>2. k[i] # "OK"  BY <1>2, <1>3, DecidesOrFaults
  <2>3. ~Decides(k[i])  BY <2>1, <2>2 DEF Decides
  <2>. QED  BY <1>2, <2>3, DecidesOrFaults
<1>4. \A i \in Sites(in) : ~IsFail(k[i]) /\ ~IsWait(k[i]) => k[i] = "OK"
  BY <1>2, DecidesOrFaults, ReadingIsOneOf
<1> HIDE DEF k, failed, unjudged, waiting
<1>5. ASSUME NEW S, S \subseteq Sites(in), S # {}, r = first(S), S \subseteq failed \/ S \subseteq waiting
      PROVE  r.verdict = "FAILURE" /\ r.reason \notin Verdicts
  <2>1. Min(S) \in S  BY <1>5, SitesAreNumbers, FirstIsOne
  <2>2. DeadlineReason(k[Min(S)]) \notin Verdicts  BY <1>2, <1>3, <1>5, <2>1
  <2>. QED  BY <1>5, <2>2 DEF Failure
<1>6. unjudged \subseteq failed  BY DEF unjudged
<1>7. CASE unjudged # {} \/ (unjudged = {} /\ failed # {} /\ ~(StatusFault(in) /\ \E i \in Sites(in) : Judged(in, i)))
  <2>1. \/ unjudged # {} /\ r = first(unjudged)
        \/ failed # {} /\ r = first(failed)
    BY <1>1, <1>7
  <2>2. r.verdict = "FAILURE" /\ r.reason \notin Verdicts  BY <1>2, <1>5, <1>6, <2>1
  <2>. QED  BY <2>2
<1>8. CASE unjudged = {} /\ StatusFault(in) /\ \E i \in Sites(in) : Judged(in, i)
  <2>1. r = StatusFailure(in)  BY <1>1, <1>8
  <2>2. StatusFailure(in).verdict = "FAILURE" /\ StatusFailure(in).reason \notin Verdicts
    BY DEF StatusFailure, Failure, Verdicts
  <2>. QED  BY <2>1, <2>2
<1>9. CASE unjudged = {} /\ failed = {} /\ ~(StatusFault(in) /\ \E i \in Sites(in) : Judged(in, i))
  <2>1. CASE waiting = {}
    <3>1. r = Success(0)  BY <1>1, <1>9, <2>1
    <3>2. Success(0).reason \notin Verdicts  BY DEF Success, Verdicts
    <3>. QED  BY <1>2, <1>4, <1>9, <2>1, <3>1, <3>2
  <2>2. CASE waiting # {}
    <3>1. r = first(waiting) \/ r = Wait(Min(waiting))  BY <1>1, <1>9, <2>2
    <3>2. Wait(Min(waiting)).verdict = "WAIT" /\ Wait(Min(waiting)).reason \notin Verdicts
      BY DEF Wait, Verdicts
    <3>3. r = first(waiting) => r.verdict = "FAILURE" /\ r.reason \notin Verdicts
      BY <1>2, <1>5, <2>2
    <3>. QED  BY <3>1, <3>2, <3>3
  <2>. QED  BY <2>1, <2>2
<1>. QED  BY <1>7, <1>8, <1>9

-----------------------------------------------------------------------------
(* The judge.                                                              *)

\* What a decision rests on.
LEMMA JudgeRests ==
  ASSUME in \in Inputs, NEW r, r = Judge(in), r.verdict = "SUCCESS" \/ r.reason \in Verdicts
  PROVE  /\ in.present /\ ~in.wrongId /\ ~in.malformed /\ in.publishers <= 1
         /\ \/ \E i \in Sites(in) : i # 0 /\ r = SingleSite(in, i)
                 /\ (in.site = i \/ (in.site = 0 /\ Sites(in) = {1}))
            \/ in.site = 0 /\ in.expect = "HELD" /\ r = ToolLevelHeld(in)
            \/ in.site = 0 /\ in.expect = "RELEASED" /\ r = ToolLevelReleased(in)
<1>1. PICK n \in Nat \ {0} : in \in InputsOf(n)  BY DEF Inputs
<1>2. /\ Sites(in) = 1..n /\ in.site \in 0..n /\ in.expect \in {"HELD", "RELEASED"}
      /\ in.publishers \in Nat
  BY <1>1 DEF InputsOf, Sites
<1>3. /\ \A q : Failure(q, 0).verdict = "FAILURE" /\ Failure(q, 0).reason = q
      /\ Wait(0).verdict = "WAIT" /\ Wait(0).reason \notin Verdicts
      /\ \A q \in {"STATE_MISSING", "WRONG_EEF", "CONTRACT_MISMATCH"} : q \notin Verdicts
  BY DEF Failure, Wait, Verdicts
<1>4. in.present /\ ~in.wrongId /\ ~in.malformed /\ ~(in.publishers > 1)
  BY <1>3 DEF Judge
<1>5. \/ in.site # 0 /\ r = SingleSite(in, in.site)
      \/ in.site = 0 /\ Sites(in) = {1} /\ r = SingleSite(in, 1)
      \/ in.site = 0 /\ in.expect = "HELD" /\ r = ToolLevelHeld(in)
      \/ in.site = 0 /\ in.expect # "HELD" /\ r = ToolLevelReleased(in)
  BY <1>4 DEF Judge
<1>6. in.site # 0 => in.site \in Sites(in)  BY <1>2
<1>. QED  BY <1>2, <1>4, <1>5, <1>6

\* Every verdict and every success rests on a fresh observation by a tool that is neither
\* faulty nor unavailable, whatever the number of its sites, its stamps and the clock
\* (verify_grasp.cpp, judge).
THEOREM DecisionsAreObserved == in \in Inputs => DecisionRestsOnFreshObservation
<1> SUFFICES ASSUME in \in Inputs, NEW r, r = Judge(in),
                    r.verdict = "SUCCESS" \/ r.reason \in Verdicts
             PROVE  /\ in.present /\ ~in.wrongId /\ ~in.malformed /\ in.publishers <= 1
                    /\ in.status = "READY"
                    /\ \A i \in RestsOn(r) : ObservedAfterCommand(i)
  BY DEF DecisionRestsOnFreshObservation
<1>1. in.present /\ ~in.wrongId /\ ~in.malformed /\ in.publishers <= 1  BY JudgeRests
<1>2. CASE \E i \in Sites(in) : i # 0 /\ r = SingleSite(in, i)
  <2>1. PICK i \in Sites(in) : i # 0 /\ r = SingleSite(in, i)  BY <1>2
  <2>2. in.status = "READY" /\ r.site = i /\ ObservedAfterCommand(i)  BY <2>1, SingleSiteRests
  <2>. QED  BY <1>1, <2>1, <2>2 DEF RestsOn
<1>3. CASE r = ToolLevelHeld(in)
  <2>1. ~StatusFault(in) /\ r.site \in Sites(in) /\ Decides(Reading(in, r.site, TRUE))
    BY <1>3, ToolLevelHeldRests
  <2>2. ObservedAfterCommand(r.site) /\ r.site # 0  BY <2>1, DecidedSite, SitesAreNumbers
  <2>3. in.status = "READY"  BY <2>1, SitesAreNumbers DEF StatusFault, Statuses
  <2>. QED  BY <1>1, <2>2, <2>3 DEF RestsOn
<1>4. CASE in.expect = "RELEASED" /\ r = ToolLevelReleased(in)
  <2>1. /\ r = Success(0) /\ \A i \in Sites(in) : Reading(in, i, FALSE) = "OK"
        /\ ~(StatusFault(in) /\ \E i \in Sites(in) : Judged(in, i))
    BY <1>4, ToolLevelReleasedRests
  <2>2. \A i \in Sites(in) : ObservedAfterCommand(i) /\ Judged(in, i)
    BY <2>1, DecidedSite DEF Decides
  <2>3. Sites(in) # {}
    <3>1. PICK n \in Nat \ {0} : in \in InputsOf(n)  BY DEF Inputs
    <3>2. in.entry \in [1..n -> Shown]  BY <3>1 DEF InputsOf
    <3>3. DOMAIN in.entry = 1..n  BY <3>2
    <3>. QED  BY <3>1, <3>3 DEF Sites
  <2>4. in.status = "READY"  BY <2>1, <2>2, <2>3, SitesAreNumbers DEF StatusFault, Statuses
  <2>5. r.site = 0  BY <2>1 DEF Success
  <2>. QED  BY <1>1, <2>2, <2>4, <2>5 DEF RestsOn
<1>. QED  BY <1>2, <1>3, <1>4, JudgeRests

\* A tool-level failure a retry may absorb as "no object" hides no site that holds, and no
\* fault, stale or unknown site (verify_grasp.cpp, toolLevelHeld).
THEOREM AbsorbedHidesNoHolder == in \in Inputs => AbsorbedFailureHidesNoHolder
<1> SUFFICES ASSUME in \in Inputs, in.site = 0, NEW r, r = Judge(in),
                    r.reason \in {"NO_OBJECT", "NOT_CONFIRMED_TIMEOUT"},
                    NEW i \in Sites(in), in.entry[i].last = "ENGAGE"
             PROVE  ObservedAfterCommand(i) /\ in.entry[i].grasp \in {"NOT_HELD", "PENDING"}
  BY DEF AbsorbedFailureHidesNoHolder
<1>1. r.reason \in Verdicts  BY DEF Verdicts
<1>2. CASE Sites(in) = {1} /\ r = SingleSite(in, 1)
  BY <1>1, <1>2, SingleSiteRests
<1>3. CASE in.expect = "HELD" /\ r = ToolLevelHeld(in)
  <2>1. Reading(in, i, TRUE) \in {"SKIP", "NO_OBJECT", "WAIT_PENDING"}
    BY <1>3, ToolLevelHeldRests
  <2>2. Reading(in, i, TRUE) # "SKIP"
    BY <1>3 DEF Reading, CommandFits, Observation
  <2>3. Decides(Reading(in, i, TRUE))  BY <2>1, <2>2 DEF Decides
  <2>. QED  BY <2>1, <2>2, <2>3, DecidedSite
<1>4. CASE in.expect = "RELEASED" /\ r = ToolLevelReleased(in)
  BY <1>1, <1>4, ToolLevelReleasedRests
<1>5. \A j \in Sites(in) : j # 0  BY SitesAreNumbers
<1>. QED  BY <1>1, <1>2, <1>3, <1>4, <1>5, JudgeRests

\* The tool reads as released only when every site was seen empty after its release
\* (verify_grasp.cpp, toolLevelReleased).
THEOREM ReleasedIsEmpty == in \in Inputs => ReleasedMeansEmpty
<1> SUFFICES ASSUME in \in Inputs, in.expect = "RELEASED", Judge(in) = Success(0),
                    NEW i \in Sites(in)
             PROVE  /\ in.entry[i].last \in {"RELEASE", "NONE"}
                    /\ in.entry[i].grasp = "NOT_HELD" /\ ObservedAfterCommand(i)
  BY DEF ReleasedMeansEmpty
<1>1. Judge(in).verdict = "SUCCESS" /\ Judge(in).site = 0  BY DEF Success
<1>2. Judge(in) = ToolLevelReleased(in)
  <2>1. ~\E j \in Sites(in) : j # 0 /\ Judge(in) = SingleSite(in, j)
    BY <1>1, SingleSiteRests
  <2>. QED  BY <1>1, <2>1, JudgeRests
<1>3. Reading(in, i, FALSE) = "OK"  BY <1>1, <1>2, ToolLevelReleasedRests
<1>4. /\ ObservedAfterCommand(i) /\ Judged(in, i) /\ in.entry[i].grasp = "NOT_HELD"
  BY <1>3, DecidedSite DEF Decides
<1>. QED  BY <1>4 DEF Judged, CommandFits


-----------------------------------------------------------------------------
(* The deadline.                                                           *)

\* Whether the deadline has passed is nothing a site is read by.
LEMMA ReadingIgnoresDeadline ==
  ASSUME in \in Inputs, NEW d, d = [in EXCEPT !.atDeadline = TRUE]
  PROVE  /\ Sites(d) = Sites(in) /\ StatusFault(d) = StatusFault(in)
         /\ StatusFailure(d) = StatusFailure(in)
         /\ \A i \in Sites(in) :
              /\ Judged(d, i) = Judged(in, i)
              /\ \A t \in BOOLEAN : Reading(d, i, t) = Reading(in, i, t)
<1>1. PICK n \in Nat \ {0} : in \in InputsOf(n)  BY DEF Inputs
<1>2. /\ d.entry = in.entry /\ d.sent = in.sent /\ d.status = in.status /\ d.expect = in.expect
      /\ d.accepted = in.accepted /\ d.now = in.now /\ d.tol = in.tol /\ d.maxAge = in.maxAge
  BY <1>1 DEF InputsOf
<1>3. ASSUME NEW i \in Sites(in)
      PROVE  /\ Reflects(d, i) = Reflects(in, i) /\ CommandFits(d, i) = CommandFits(in, i)
             /\ InFuture(d, i) = InFuture(in, i) /\ Fresh(d, i) = Fresh(in, i)
             /\ Observation(d, i) = Observation(in, i)
  BY <1>2 DEF Reflects, CommandFits, InFuture, Fresh, HasRef, Observation
<1>. QED  BY <1>2, <1>3 DEF Sites, StatusFault, StatusFailure, Judged, Reading

LEMMA VerdictsDiffer ==
  /\ \A i : Success(i).verdict = "SUCCESS" /\ Wait(i).verdict = "WAIT"
  /\ \A q, i : Failure(q, i).verdict = "FAILURE"
  /\ StatusFailure(in).verdict = "FAILURE"
BY DEF Success, Wait, Failure, StatusFailure

\* A site, or the tool, judged before and at the deadline.
DecidedBy(before, at) ==
  /\ at.verdict # "WAIT"
  /\ before.verdict # "WAIT" => at = before

LEMMA SingleSiteDecided ==
  ASSUME in \in Inputs, ~in.atDeadline, NEW i \in Sites(in),
         NEW d, d = [in EXCEPT !.atDeadline = TRUE]
  PROVE  DecidedBy(SingleSite(in, i), SingleSite(d, i))
<1> DEFINE k == Reading(in, i, FALSE)
<1>1. d.atDeadline  BY DEF Inputs, InputsOf
<1>2. /\ StatusFault(d) = StatusFault(in) /\ StatusFailure(d) = StatusFailure(in)
      /\ Judged(d, i) = Judged(in, i) /\ Reading(d, i, FALSE) = k
  BY ReadingIgnoresDeadline
<1>3. k = "OK" \/ IsFail(k) \/ IsWait(k)  BY ReadingIsOneOf, DecidesOrFaults
<1> HIDE DEF k
<1>4. SingleSite(d, i) =
        IF Judged(in, i) /\ StatusFault(in) THEN StatusFailure(in)
        ELSE IF k = "OK" THEN Success(i)
        ELSE IF IsFail(k) THEN Failure(k, i) ELSE Failure(DeadlineReason(k), i)
  BY <1>1, <1>2, <1>3 DEF SingleSite
<1>5. SingleSite(in, i) =
        IF Judged(in, i) /\ StatusFault(in) THEN StatusFailure(in)
        ELSE IF k = "OK" THEN Success(i)
        ELSE IF IsFail(k) THEN Failure(k, i) ELSE Wait(i)
  BY DEF SingleSite, k
<1>. QED  BY <1>4, <1>5, VerdictsDiffer DEF DecidedBy

LEMMA ToolLevelHeldDecided ==
  ASSUME in \in Inputs, ~in.atDeadline, NEW d, d = [in EXCEPT !.atDeadline = TRUE]
  PROVE  DecidedBy(ToolLevelHeld(in), ToolLevelHeld(d))
<1> DEFINE k        == [i \in Sites(in) |-> Reading(in, i, TRUE)]
           engaged  == {i \in Sites(in) : k[i] # "SKIP"}
           unjudged == {i \in engaged : IsFail(k[i]) /\ ~Judged(in, i)}
           lost     == {i \in engaged : k[i] = "OBJECT_LOST"}
           waiting  == {i \in engaged : IsWait(k[i])}
           oks      == {i \in engaged : k[i] = "OK"}
           faulty   == {i \in engaged : IsFault(DeadlineReason(k[i]))}
           first(S) == Failure(DeadlineReason(k[Min(S)]), Min(S))
           decided  == IF oks # {} THEN Success(Min(oks))
                       ELSE IF faulty # {} THEN first(faulty) ELSE first(engaged)
           result(w) == IF engaged = {} THEN Failure("NO_ENGAGE_COMMAND", 0)
                        ELSE IF unjudged # {} THEN first(unjudged)
                        ELSE IF StatusFault(in) /\ \E i \in engaged : Judged(in, i)
                          THEN StatusFailure(in)
                        ELSE IF lost # {} THEN first(lost)
                        ELSE IF w THEN Wait(Min(waiting)) ELSE decided
<1>1. d.atDeadline  BY DEF Inputs, InputsOf
<1>2. ToolLevelHeld(in) = result(waiting # {})  BY DEF ToolLevelHeld
<1>3. ToolLevelHeld(d) = result(FALSE)
  <2> DEFINE at       == [i \in Sites(d) |-> Reading(d, i, TRUE)]
             engaged2 == {i \in Sites(d) : at[i] # "SKIP"}
             unjudged2 == {i \in engaged2 : IsFail(at[i]) /\ ~Judged(d, i)}
             lost2    == {i \in engaged2 : at[i] = "OBJECT_LOST"}
             oks2     == {i \in engaged2 : at[i] = "OK"}
             faulty2  == {i \in engaged2 : IsFault(DeadlineReason(at[i]))}
             first2(S) == Failure(DeadlineReason(at[Min(S)]), Min(S))
  <2>1. ToolLevelHeld(d) =
          IF engaged2 = {} THEN Failure("NO_ENGAGE_COMMAND", 0)
          ELSE IF unjudged2 # {} THEN first2(unjudged2)
          ELSE IF StatusFault(d) /\ \E i \in engaged2 : Judged(d, i) THEN StatusFailure(d)
          ELSE IF lost2 # {} THEN first2(lost2)
          ELSE IF oks2 # {} THEN Success(Min(oks2))
          ELSE IF faulty2 # {} THEN first2(faulty2) ELSE first2(engaged2)
    BY <1>1 DEF ToolLevelHeld
  <2>2. /\ Sites(d) = Sites(in) /\ StatusFault(d) = StatusFault(in)
        /\ StatusFailure(d) = StatusFailure(in)
        /\ \A i \in Sites(in) : Judged(d, i) = Judged(in, i)
    BY ReadingIgnoresDeadline
  <2>3. at = k  BY ReadingIgnoresDeadline
  <2>4. engaged2 = engaged /\ \A i \in engaged : i \in Sites(in)  BY <2>2, <2>3
  <2>5. unjudged2 = unjudged  BY <2>2, <2>3, <2>4
  <2>6. lost2 = lost /\ oks2 = oks /\ faulty2 = faulty  BY <2>3, <2>4
  <2>7. (\E i \in engaged2 : Judged(d, i)) <=> (\E i \in engaged : Judged(in, i))
    BY <2>2, <2>4
  <2>8. \A S : first2(S) = first(S)  BY <2>3
  <2> HIDE DEF at, k, engaged2, engaged, unjudged2, unjudged, lost2, lost, oks2, oks,
               faulty2, faulty, first2, first
  <2>. QED  BY <2>1, <2>2, <2>4, <2>5, <2>6, <2>7, <2>8
<1> HIDE DEF k, engaged, unjudged, lost, waiting, oks, faulty
<1>4. \A S : first(S).verdict = "FAILURE"  BY VerdictsDiffer
<1> HIDE DEF first
<1>5. decided.verdict # "WAIT"  BY <1>4, VerdictsDiffer
<1> HIDE DEF decided
<1>. QED  BY <1>2, <1>3, <1>4, <1>5, VerdictsDiffer DEF DecidedBy

LEMMA ToolLevelReleasedDecided ==
  ASSUME in \in Inputs, ~in.atDeadline, NEW d, d = [in EXCEPT !.atDeadline = TRUE]
  PROVE  DecidedBy(ToolLevelReleased(in), ToolLevelReleased(d))
<1> DEFINE k        == [i \in Sites(in) |-> Reading(in, i, FALSE)]
           failed   == {i \in Sites(in) : IsFail(k[i])}
           unjudged == {i \in failed : ~Judged(in, i)}
           waiting  == {i \in Sites(in) : IsWait(k[i])}
           first(S) == Failure(DeadlineReason(k[Min(S)]), Min(S))
           result(w) == IF unjudged # {} THEN first(unjudged)
                        ELSE IF StatusFault(in) /\ \E i \in Sites(in) : Judged(in, i)
                          THEN StatusFailure(in)
                        ELSE IF failed # {} THEN first(failed)
                        ELSE IF waiting # {} THEN w ELSE Success(0)
<1>1. d.atDeadline  BY DEF Inputs, InputsOf
<1>2. ToolLevelReleased(in) = result(Wait(Min(waiting)))  BY DEF ToolLevelReleased
<1>3. ToolLevelReleased(d) = result(first(waiting))
  <2> DEFINE at        == [i \in Sites(d) |-> Reading(d, i, FALSE)]
             failed2   == {i \in Sites(d) : IsFail(at[i])}
             unjudged2 == {i \in failed2 : ~Judged(d, i)}
             waiting2  == {i \in Sites(d) : IsWait(at[i])}
             first2(S) == Failure(DeadlineReason(at[Min(S)]), Min(S))
  <2>1. ToolLevelReleased(d) =
          IF unjudged2 # {} THEN first2(unjudged2)
          ELSE IF StatusFault(d) /\ \E i \in Sites(d) : Judged(d, i) THEN StatusFailure(d)
          ELSE IF failed2 # {} THEN first2(failed2)
          ELSE IF waiting2 # {} THEN first2(waiting2) ELSE Success(0)
    BY <1>1 DEF ToolLevelReleased
  <2>2. /\ Sites(d) = Sites(in) /\ StatusFault(d) = StatusFault(in)
        /\ StatusFailure(d) = StatusFailure(in)
        /\ \A i \in Sites(in) : Judged(d, i) = Judged(in, i)
    BY ReadingIgnoresDeadline
  <2>3. at = k  BY ReadingIgnoresDeadline
  <2>4. failed2 = failed /\ \A i \in failed : i \in Sites(in)  BY <2>2, <2>3
  <2>5. unjudged2 = unjudged /\ waiting2 = waiting  BY <2>2, <2>3, <2>4
  <2>6. (\E i \in Sites(d) : Judged(d, i)) <=> (\E i \in Sites(in) : Judged(in, i))
    BY <2>2
  <2>7. \A S : first2(S) = first(S)  BY <2>3
  <2> HIDE DEF at, k, failed2, failed, unjudged2, unjudged, waiting2, waiting, first2, first
  <2>. QED  BY <2>1, <2>2, <2>4, <2>5, <2>6, <2>7
<1> HIDE DEF k, failed, unjudged, waiting
<1>4. \A S : first(S).verdict = "FAILURE"  BY VerdictsDiffer
<1> HIDE DEF first
<1>. QED  BY <1>2, <1>3, <1>4, VerdictsDiffer DEF DecidedBy

LEMMA JudgeDecided ==
  ASSUME in \in Inputs, ~in.atDeadline, NEW d, d = [in EXCEPT !.atDeadline = TRUE]
  PROVE  DecidedBy(Judge(in), Judge(d)) /\ d \in Inputs
<1>1. PICK n \in Nat \ {0} : in \in InputsOf(n)  BY DEF Inputs
<1>2. /\ d.present = in.present /\ d.wrongId = in.wrongId /\ d.malformed = in.malformed
      /\ d.publishers = in.publishers /\ d.site = in.site /\ d.expect = in.expect
      /\ d.atDeadline /\ Sites(in) = 1..n /\ d.entry = in.entry /\ in.site \in 0..n
  BY <1>1 DEF InputsOf, Sites
<1>3. d \in Inputs
  <2>1. d \in InputsOf(n)  BY <1>1 DEF InputsOf
  <2>. QED  BY <2>1 DEF Inputs
<1>4. Sites(d) = Sites(in)  BY <1>2 DEF Sites
<1>5. \A i \in Sites(in) : DecidedBy(SingleSite(in, i), SingleSite(d, i))  BY SingleSiteDecided
<1>6. /\ DecidedBy(ToolLevelHeld(in), ToolLevelHeld(d))
      /\ DecidedBy(ToolLevelReleased(in), ToolLevelReleased(d))
  BY ToolLevelHeldDecided, ToolLevelReleasedDecided
<1>7. \A q, i : DecidedBy(Failure(q, i), Failure(q, i))  BY VerdictsDiffer DEF DecidedBy
<1>8. \A q, i, j : DecidedBy(Wait(j), Failure(q, i))  BY VerdictsDiffer DEF DecidedBy
<1>9. in.site # 0 => in.site \in Sites(in)  BY <1>2
<1>. QED  BY <1>2, <1>3, <1>4, <1>5, <1>6, <1>7, <1>8, <1>9 DEF Judge

\* The deadline turns every wait into a decision and revises none, whatever the input it
\* falls on (verify_grasp.cpp, judge and its at_deadline).
THEOREM DeadlineDecides == in \in Inputs /\ [][Next]_in => DeadlineOnlyDecides
<1>1. in \in Inputs /\ [Next]_in => (in \in Inputs)'
  <2> SUFFICES ASSUME in \in Inputs, [Next]_in PROVE in' \in Inputs  OBVIOUS
  <2>1. CASE Next  BY <2>1, JudgeDecided DEF Next, DeadlinePasses
  <2>. QED  BY <2>1
<1>2. in \in Inputs /\ [Next]_in =>
        [/\ Judge(in').verdict # "WAIT"
         /\ Judge(in).verdict # "WAIT" => Judge(in') = Judge(in)]_in
  <2> SUFFICES ASSUME in \in Inputs, Next
               PROVE  /\ Judge(in').verdict # "WAIT"
                      /\ Judge(in).verdict # "WAIT" => Judge(in') = Judge(in)
    OBVIOUS
  <2>1. DecidedBy(Judge(in), Judge(in'))  BY JudgeDecided DEF Next, DeadlinePasses
  <2>. QED  BY <2>1 DEF DecidedBy
<1>. QED  BY <1>1, <1>2, PTL DEF DeadlineOnlyDecides


-----------------------------------------------------------------------------
(* The checked instance is one of those inputs.                            *)

LEMMA EntriesAreShown == Entries \subseteq Shown /\ Representatives \subseteq Shown
BY DEF Entries, Representatives, Entry, Shown, Commands, Grasps, Evidences

LEMMA InitialInputs == Init => in \in Inputs
<1>1. ASSUME NEW p \in BOOLEAN, NEW w \in BOOLEAN, NEW m \in BOOLEAN, NEW n \in {0, 1, 2},
             NEW status \in Statuses, NEW e1 \in Shown, NEW e2 \in Shown,
             NEW s1 \in {NotSent, SentAt3}, NEW s2 \in {NotSent, SentAt3},
             NEW site \in {0, 1, 2}, NEW expect \in {"HELD", "RELEASED"}
      PROVE  Input(p, w, m, n, status, <<e1, e2>>, <<s1, s2>>, site, expect) \in Inputs
  <2>1. <<e1, e2>> \in [1..2 -> Shown]  OBVIOUS
  <2>2. s1 \in Told /\ s2 \in Told
    <3>1. NotSent \in Told  BY DEF NotSent, Told
    <3>2. SentAt3 \in Told  BY DEF SentAt3, Told
    <3>. QED  BY <3>1, <3>2
  <2>3. <<s1, s2>> \in [1..2 -> Told]  BY <2>2
  <2>4. {"sensor", "actuation_inference"} \in SUBSET Evidences /\ site \in 0..2
    BY DEF Evidences
  <2>5. Input(p, w, m, n, status, <<e1, e2>>, <<s1, s2>>, site, expect) \in InputsOf(2)
    BY <2>1, <2>3, <2>4 DEF Input, InputsOf
  <2>. QED  BY <2>5 DEF Inputs
<1>2. "READY" \in Statuses  BY DEF Statuses
<1>3. CASE \E e1 \in Entries, e2 \in Representatives, s1, s2 \in {NotSent, SentAt3},
              flip \in BOOLEAN, site \in {0, 1}, expect \in {"HELD", "RELEASED"} :
             in = Input(TRUE, FALSE, FALSE, 1, "READY",
                        IF flip THEN <<e2, e1>> ELSE <<e1, e2>>, <<s1, s2>>, site, expect)
  <2>1. PICK e1 \in Entries, e2 \in Representatives, s1 \in {NotSent, SentAt3},
             s2 \in {NotSent, SentAt3}, flip \in BOOLEAN, site \in {0, 1},
             expect \in {"HELD", "RELEASED"} :
          in = Input(TRUE, FALSE, FALSE, 1, "READY",
                     IF flip THEN <<e2, e1>> ELSE <<e1, e2>>, <<s1, s2>>, site, expect)
    BY <1>3
  <2>2. e1 \in Shown /\ e2 \in Shown  BY EntriesAreShown
  <2>3. CASE flip
    <3>1. in = Input(TRUE, FALSE, FALSE, 1, "READY", <<e2, e1>>, <<s1, s2>>, site, expect)
      BY <2>1, <2>3
    <3>. QED  BY <1>1, <1>2, <2>2, <3>1
  <2>4. CASE ~flip
    <3>1. in = Input(TRUE, FALSE, FALSE, 1, "READY", <<e1, e2>>, <<s1, s2>>, site, expect)
      BY <2>1, <2>4
    <3>. QED  BY <1>1, <1>2, <2>2, <3>1
  <2>. QED  BY <2>3, <2>4
<1>4. CASE \E e1, e2 \in Representatives, o \in Odd, n \in {0, 1, 2}, status \in Statuses,
              expect \in {"HELD", "RELEASED"} :
             in = Input(o.present, o.wrongId, o.malformed, n, status, <<e1, e2>>,
                        <<NotSent, NotSent>>, 0, expect)
  <2>1. PICK e1 \in Representatives, e2 \in Representatives, o \in Odd, n \in {0, 1, 2},
             status \in Statuses, expect \in {"HELD", "RELEASED"} :
          in = Input(o.present, o.wrongId, o.malformed, n, status, <<e1, e2>>,
                     <<NotSent, NotSent>>, 0, expect)
    BY <1>4
  <2>2. e1 \in Shown /\ e2 \in Shown  BY EntriesAreShown
  <2>3. o.present \in BOOLEAN /\ o.wrongId \in BOOLEAN /\ o.malformed \in BOOLEAN
    <3>1. Odd \subseteq [present : BOOLEAN, wrongId : BOOLEAN, malformed : BOOLEAN]  BY DEF Odd
    <3>. QED  BY <3>1
  <2>. QED  BY <1>1, <2>1, <2>2, <2>3
<1>5. CASE \E e1, e2 \in Representatives, s2 \in {NotSent, SentAt3}, site \in {0, 2},
              status \in Statuses, expect \in {"HELD", "RELEASED"} :
             in = Input(TRUE, FALSE, FALSE, 1, status, <<e1, e2>>, <<SentAt3, s2>>, site, expect)
  <2>1. PICK e1 \in Representatives, e2 \in Representatives, s2 \in {NotSent, SentAt3},
             site \in {0, 2}, status \in Statuses, expect \in {"HELD", "RELEASED"} :
          in = Input(TRUE, FALSE, FALSE, 1, status, <<e1, e2>>, <<SentAt3, s2>>, site, expect)
    BY <1>5
  <2>2. e1 \in Shown /\ e2 \in Shown  BY EntriesAreShown
  <2>. QED  BY <1>1, <2>1, <2>2
<1>. QED  BY <1>3, <1>4, <1>5 DEF Init

\* On the checked instance all four hold in every state (verify_grasp.cpp, judge).
THEOREM JudgedSoundly ==
  Spec => /\ [](/\ DecisionRestsOnFreshObservation
                /\ AbsorbedFailureHidesNoHolder
                /\ ReleasedMeansEmpty)
          /\ DeadlineOnlyDecides
<1>1. in \in Inputs /\ [Next]_in => (in \in Inputs)'
  <2> SUFFICES ASSUME in \in Inputs, [Next]_in PROVE in' \in Inputs  OBVIOUS
  <2>1. CASE Next  BY <2>1, JudgeDecided DEF Next, DeadlinePasses
  <2>. QED  BY <2>1
<1>2. in \in Inputs => /\ DecisionRestsOnFreshObservation
                       /\ AbsorbedFailureHidesNoHolder
                       /\ ReleasedMeansEmpty
  BY DecisionsAreObserved, AbsorbedHidesNoHolder, ReleasedIsEmpty
<1>. QED  BY <1>1, <1>2, InitialInputs, DeadlineDecides, PTL DEF Spec

=============================================================================
