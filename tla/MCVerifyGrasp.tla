---------------------------- MODULE MCVerifyGrasp ----------------------------
(***************************************************************************)
(* The judge on every sample of a two-site device whose stamps lie around  *)
(* the moment it is judged (now = 4, tol = 1, maxAge = 2), first before    *)
(* the deadline and then at it.  One site ranges over every entry, the     *)
(* other over one entry of each reading a site can have.                   *)
(***************************************************************************)
EXTENDS VerifyGrasp

VARIABLE in       \* the judge's input: JudgeInput

Entry(last, ref, grasp, evidence, stamp) ==
  [last |-> last, ref |-> ref, grasp |-> grasp, evidence |-> evidence, stamp |-> stamp]

\* Every entry: a command not applied yet, applied before and after the send, or
\* in the runner's future; an observation before and after it, too old, of now
\* and in the future.
Entries ==
  {Entry("NONE", 0, g, e, t) : g \in Grasps, e \in Evidences, t \in {0, 3, 6}}
    \cup {Entry(c, r, g, e, t) : c \in Commands \ {"NONE"}, r \in {1, 3, 6}, g \in Grasps,
                                 e \in Evidences, t \in {0, 2, 3, 6}}

\* One entry of each reading: no command, a release, and an engage that reads
\* stale, unobservable, pending, empty, held, lost, unknown or of the future.
Representatives ==
  {Entry("NONE", 0, "NOT_HELD", "sensor", 3), Entry("NONE", 0, "HELD", "sensor", 3),
   Entry("RELEASE", 3, "NOT_HELD", "sensor", 3), Entry("RELEASE", 3, "HELD", "sensor", 4)}
    \cup {Entry("ENGAGE", 3, "HELD", "sensor", 2), Entry("ENGAGE", 3, "HELD", "sensor", 6),
          Entry("ENGAGE", 3, "UNAVAILABLE", "none", 0)}
    \cup {Entry("ENGAGE", 3, g, "sensor", 3) : g \in Grasps \ {"UNAVAILABLE"}}

\* The runner sent the grip nothing, or a command at 3 (when it saw one of 1).
NotSent == [known |-> FALSE, stamp |-> 0, prior |-> 0]
SentAt3 == [known |-> TRUE,  stamp |-> 3, prior |-> 1]

\* Samples that are not the device's, or none at all.
Odd == {[present |-> FALSE, wrongId |-> FALSE, malformed |-> FALSE],
        [present |-> TRUE,  wrongId |-> TRUE,  malformed |-> FALSE],
        [present |-> TRUE,  wrongId |-> FALSE, malformed |-> TRUE]}

Input(p, w, m, n, status, e, s, site, expect) ==
  [present |-> p, wrongId |-> w, malformed |-> m, publishers |-> n, status |-> status,
   entry |-> e, sent |-> s, site |-> site, expect |-> expect,
   accepted |-> {"sensor", "actuation_inference"}, now |-> 4, tol |-> 1, maxAge |-> 2,
   atDeadline |-> FALSE]

Init ==
  \/ \E e1 \in Entries, e2 \in Representatives, s1, s2 \in {NotSent, SentAt3},
        flip \in BOOLEAN, site \in {0, 1}, expect \in {"HELD", "RELEASED"} :
       in = Input(TRUE, FALSE, FALSE, 1, "READY", IF flip THEN <<e2, e1>> ELSE <<e1, e2>>,
                  <<s1, s2>>, site, expect)
  \/ \E e1, e2 \in Representatives, o \in Odd, n \in {0, 1, 2}, status \in Statuses,
        expect \in {"HELD", "RELEASED"} :
       in = Input(o.present, o.wrongId, o.malformed, n, status, <<e1, e2>>,
                  <<NotSent, NotSent>>, 0, expect)
  \/ \E e1, e2 \in Representatives, s2 \in {NotSent, SentAt3}, site \in {0, 2},
        status \in Statuses, expect \in {"HELD", "RELEASED"} :
       in = Input(TRUE, FALSE, FALSE, 1, status, <<e1, e2>>, <<SentAt3, s2>>, site, expect)

\* The same sample, judged again at the deadline.
DeadlinePasses ==
  /\ ~in.atDeadline
  /\ in' = [in EXCEPT !.atDeadline = TRUE]

Next == DeadlinePasses

Spec == Init /\ [][Next]_in

-----------------------------------------------------------------------------
(* Properties                                                              *)

\* The entry shows a command of this runner's, if it sent one, and an
\* observation of accepted provenance made after it, recently, not in the future.
ObservedAfterCommand(i) ==
  LET e == in.entry[i]
  IN /\ in.sent[i].known => e.ref > in.sent[i].prior
     /\ e.last # "NONE" => e.stamp >= e.ref
     /\ e.stamp >= in.now - in.maxAge /\ e.stamp <= in.now + in.tol
     /\ e.evidence \in in.accepted

\* The sites a result rests on: the one it names, or every one.
RestsOn(r) == IF r.site = 0 THEN Sites(in) ELSE {r.site}

\* Every verdict, and every success, rests on a fresh observation by a tool that
\* is neither faulty nor unavailable: a retry may absorb nothing else.
DecisionRestsOnFreshObservation ==
  LET r == Judge(in)
  IN r.verdict = "SUCCESS" \/ r.reason \in Verdicts =>
       /\ in.present /\ ~in.wrongId /\ ~in.malformed /\ in.publishers <= 1
       /\ in.status = "READY"
       /\ \A i \in RestsOn(r) : ObservedAfterCommand(i)

\* When a tool-level check fails in a way a retry may absorb, as "no object",
\* every engaged site was seen not to hold: a fault, a stale or an unknown site
\* never hides behind another site's verdict.
AbsorbedFailureHidesNoHolder ==
  in.site = 0 /\ Judge(in).reason \in {"NO_OBJECT", "NOT_CONFIRMED_TIMEOUT"} =>
    \A i \in Sites(in) :
      in.entry[i].last = "ENGAGE" =>
        ObservedAfterCommand(i) /\ in.entry[i].grasp \in {"NOT_HELD", "PENDING"}

\* The tool reads as released only when every site was seen empty after its
\* release, and no site's newest command is an engage.
ReleasedMeansEmpty ==
  in.expect = "RELEASED" /\ Judge(in) = Success(0) =>
    \A i \in Sites(in) :
      /\ in.entry[i].last \in {"RELEASE", "NONE"}
      /\ in.entry[i].grasp = "NOT_HELD" /\ ObservedAfterCommand(i)

\* The deadline decides what was waited for and changes nothing decided before.
DeadlineOnlyDecides ==
  [][/\ Judge(in').verdict # "WAIT"
     /\ Judge(in).verdict # "WAIT" => Judge(in') = Judge(in)]_in

=============================================================================
