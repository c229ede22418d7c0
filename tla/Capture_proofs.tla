--------------------------- MODULE Capture_proofs ---------------------------
(***************************************************************************)
(* Whose detections the tree acts on, for any skew of the two clocks, any  *)
(* deployment, any arrays and any number of them: a triggered tick takes   *)
(* an image of its own trigger, and a waypoint is made of what the newest  *)
(* tick of its node wrote.                                                 *)
(***************************************************************************)
EXTENDS Capture, FiniteSetTheorems, SequenceTheorems, WellFoundedInduction, TLAPS

Arrays == [id : Nat, taken : Int, dets : Seq(Kinds)]

\* What is outside the tick, and the records that are updated field by field.
Shape ==
  /\ now \in Nat /\ made \in Nat /\ dep \in Deployments
  /\ feed \in [Topics -> Arrays] /\ \A t \in Topics : feed[t].id <= made
  /\ found = [flat |-> found.flat, list |-> found.list, count |-> found.count]
  /\ DOMAIN found.list = Places
  /\ cands = [list |-> cands.list, count |-> cands.count]
  /\ DOMAIN cands.list = Places
  /\ newest = [DetectObject |-> newest.DetectObject,
               DetectCandidates |-> newest.DetectCandidates]

\* A capture looks at what arrives after its boundary, hence after any earlier capture.
Capturing ==
  /\ used \in Nat /\ used <= feed["detections"].id
  /\ pc = "arrive" => job.topic \in Topics
  /\ pc \in {"match", "call", "answer", "window"} => job.topic = "detections"
  /\ pc \in {"call", "answer", "window"} => job.seen \in Nat /\ used <= job.seen
  /\ pc \in {"call", "answer", "window"} => job.boundary \in Nat
  /\ job = [op |-> job.op, topic |-> job.topic, seen |-> job.seen, boundary |-> job.boundary,
            sampled |-> job.sampled, answered |-> job.answered, stale |-> job.stale,
            future |-> job.future]

\* The counted set is of the newest array; while it is being written it is empty.
CandidatesOfNewest ==
  /\ cands.count \in Nat
  /\ pc = "arrive" /\ job.op = "DetectCandidates" => cands.count = 0
  /\ \A i \in Places : i <= cands.count => cands.list[i][1] = newest.DetectCandidates

\* What the newest DetectObject wrote, if it succeeded: the flat keys of its one detection,
\* or its list.
ObjectOfNewest ==
  /\ found.count \in Nat
  /\ keep = 1 => \A i \in Places : found.list[i] = Absent
  /\ newest.DetectObject # 0 =>
       IF keep = 1 THEN found.flat[1] = newest.DetectObject
       ELSE \A i \in Places : i <= found.count => found.list[i][1] = newest.DetectObject

Inv == Shape /\ Capturing /\ CandidatesOfNewest /\ ObjectOfNewest
-----------------------------------------------------------------------------
\* A deployment's keep and skew.
LEMMA Deployed ==
  ASSUME Shape
  PROVE  keep \in Nat \ {0} /\ skew \in Int /\ Places = 1..keep /\ dep.source \in Topics
BY CaptureAssumption DEF CaptureAssumption, Shape, DeploymentType, keep, skew, Places

\* What a step that leaves the blackboard, the feeds and the deployment alone leaves of Inv.
LEMMA BoardKept ==
  ASSUME Inv, UNCHANGED <<dep, made, feed, found, cands, newest, used>>, now' \in Nat
  PROVE  Shape' /\ ObjectOfNewest' /\ used' \in Nat /\ used' <= feed'["detections"].id
BY DEF Inv, Shape, ObjectOfNewest, Capturing, Places, keep

\* A step of a capture: only its locals change.
LEMMA CaptureSteps ==
  ASSUME Inv, DeadlinePasses \/ SendTrigger \/ TakeAnswer \/ WindowEnds \/ DetectorAnswers \/ TimePasses
  PROVE  Inv'
<1>1. /\ UNCHANGED <<dep, made, feed, found, cands, newest, used>> /\ now' \in Nat
  BY DEF DeadlinePasses, SendTrigger, TakeAnswer, WindowEnds, DetectorAnswers, TimePasses,
         outside, tick, board, history, Inv, Shape
<1>2. /\ pc' = "arrive" => pc = "arrive"
      /\ pc' \in {"match", "call", "answer", "window"} => pc \in {"match", "call", "answer", "window"}
      /\ pc' \in {"call", "answer", "window"} => pc \in {"call", "answer", "window"}
      /\ job' \in {job, [job EXCEPT !.answered = TRUE, !.sampled = (call = "ok")]}
  BY DEF DeadlinePasses, SendTrigger, TakeAnswer, WindowEnds, DetectorAnswers, TimePasses,
         outside, tick, board, history
<1>3. /\ job'.op = job.op /\ job'.topic = job.topic /\ job'.seen = job.seen
      /\ job'.boundary = job.boundary
      /\ job' = [op |-> job'.op, topic |-> job'.topic, seen |-> job'.seen,
                 boundary |-> job'.boundary, sampled |-> job'.sampled,
                 answered |-> job'.answered, stale |-> job'.stale, future |-> job'.future]
  BY <1>2 DEF Inv, Capturing
<1>4. Capturing'  BY <1>1, <1>2, <1>3, BoardKept DEF Inv, Capturing
<1>5. CandidatesOfNewest'  BY <1>1, <1>2, <1>3 DEF Inv, CandidatesOfNewest, Places, keep
<1>. QED  BY <1>1, <1>4, <1>5, BoardKept DEF Inv

-----------------------------------------------------------------------------
(* What a tick makes of the array it takes.                                *)

LEMMA LeastNat ==
  ASSUME NEW T, T \subseteq Nat, T # {}
  PROVE  \E n \in T : \A m \in T : n <= m
<1> DEFINE R == OpToRel(<, Nat)
<1>1. IsWellFoundedOn(R, Nat)  BY NatLessThanWellFounded
<1>2. ASSUME NEW m \in Nat, NEW n \in Nat, m < n PROVE <<m, n>> \in R  BY <1>2 DEF OpToRel
<1> HIDE DEF R
<1>3. PICK n \in T : \A m \in T : ~(<<m, n>> \in R)  BY <1>1, WFMin
<1>4. ASSUME NEW m \in T PROVE n <= m
  <2>1. ~(m < n)  BY <1>2, <1>3
  <2>. QED  BY <2>1
<1>. QED  BY <1>4

\* Ranks are counts: they grow from 0 to the number of matches, by one at each match.
LEMMA Ranks ==
  ASSUME NEW dets \in Seq(Kinds)
  PROVE  /\ IsFiniteSet(Matches(dets)) /\ Cardinality(Matches(dets)) \in Nat
         /\ \A i \in Int : Rank(dets, i) \in Nat
         /\ \A i, j \in Int : i <= j => Rank(dets, i) <= Rank(dets, j)
         /\ Rank(dets, 0) = 0 /\ Rank(dets, Len(dets)) = Cardinality(Matches(dets))
         /\ \A i \in Int : Rank(dets, i) = Rank(dets, i - 1) + (IF i \in Matches(dets) THEN 1 ELSE 0)
<1> DEFINE M == Matches(dets)
           upTo(i) == {j \in M : j <= i}
<1>1. M \subseteq 1..Len(dets) /\ Len(dets) \in Nat /\ \A i : Rank(dets, i) = Cardinality(upTo(i))
  BY DEF Matches, Rank
<1>2. IsFiniteSet(1..Len(dets))  BY <1>1, FS_Interval
<1>3. IsFiniteSet(M)  BY <1>1, <1>2, FS_Subset
<1> HIDE DEF M
<1>4. \A i : IsFiniteSet(upTo(i))  BY <1>3, FS_Subset
<1>5. Cardinality(M) \in Nat /\ \A i : Rank(dets, i) \in Nat  BY <1>1, <1>3, <1>4, FS_CardinalityType
<1>0. \A j \in M : j \in Int  BY <1>1
<1>6. ASSUME NEW i \in Int, NEW j \in Int, i <= j PROVE Rank(dets, i) <= Rank(dets, j)
  <2>1. \A n \in M : n <= i => n <= j  BY <1>0, <1>6
  <2>2. upTo(i) \in SUBSET upTo(j)  BY <2>1
  <2>3. IsFiniteSet(upTo(j))  BY <1>4
  <2>4. Rank(dets, i) = Cardinality(upTo(i)) /\ Rank(dets, j) = Cardinality(upTo(j))  BY <1>1
  <2> HIDE DEF upTo
  <2>. QED  BY <2>2, <2>3, <2>4, FS_Subset
<1>7. upTo(0) = {} /\ upTo(Len(dets)) = M
  <2>1. \A j \in M : ~(j <= 0) /\ j <= Len(dets)  BY <1>1
  <2>. QED  BY <2>1
<1>8. Rank(dets, 0) = 0 /\ Rank(dets, Len(dets)) = Cardinality(M)
  <2> HIDE DEF upTo
  <2>. QED  BY <1>1, <1>7, FS_EmptySet
<1>9. ASSUME NEW i \in Int PROVE Rank(dets, i) = Rank(dets, i - 1) + (IF i \in M THEN 1 ELSE 0)
  <2>1. CASE i \in M
    <3>1. /\ \A j \in M : j <= i <=> (j <= i - 1 \/ j = i)
          /\ ~(i <= i - 1)
      BY <1>0, <1>9
    <3>2. upTo(i) = upTo(i - 1) \union {i} /\ i \notin upTo(i - 1)  BY <2>1, <3>1
    <3>3. IsFiniteSet(upTo(i - 1))  BY <1>4
    <3>4. Rank(dets, i) = Cardinality(upTo(i)) /\ Rank(dets, i - 1) = Cardinality(upTo(i - 1))
      BY <1>1
    <3> HIDE DEF upTo
    <3>. QED  BY <2>1, <3>2, <3>3, <3>4, FS_AddElement
  <2>2. CASE i \notin M
    <3>1. \A j \in M : j <= i <=> j <= i - 1  BY <1>0, <1>9, <2>2
    <3>2. upTo(i) = upTo(i - 1)  BY <3>1
    <3>3. Rank(dets, i) = Cardinality(upTo(i)) /\ Rank(dets, i - 1) = Cardinality(upTo(i - 1))
      BY <1>1
    <3> HIDE DEF upTo
    <3>4. Rank(dets, i) = Rank(dets, i - 1) /\ Rank(dets, i) \in Nat  BY <1>5, <3>2, <3>3
    <3>. QED  BY <2>2, <3>4
  <2>. QED  BY <2>1, <2>2
<1>. QED  BY <1>3, <1>5, <1>6, <1>8, <1>9 DEF M

\* There is a first match, a second one, and so on to the last.
LEMMA RankedMatch ==
  ASSUME NEW dets \in Seq(Kinds), NEW m \in 1..Cardinality(Matches(dets))
  PROVE  \E i \in Matches(dets) : Rank(dets, i) = m
<1> DEFINE T == {i \in Nat : i <= Len(dets) /\ Rank(dets, i) >= m}
<1>1. Len(dets) \in Nat /\ Cardinality(Matches(dets)) \in Nat /\ Rank(dets, Len(dets)) >= m
  BY Ranks
<1>2. Len(dets) \in T  BY <1>1
<1>3. T \subseteq Nat /\ T # {}  BY <1>2
<1>4. PICK i \in T : \A j \in T : i <= j  BY <1>3, LeastNat
<1>5. i \in Nat /\ i <= Len(dets) /\ Rank(dets, i) >= m  BY <1>4
<1>6. i # 0  BY <1>5, Ranks
<1>7. Rank(dets, i - 1) \in Nat /\ Rank(dets, i - 1) < m
  <2>1. i - 1 \in Nat /\ i - 1 \notin T  BY <1>4, <1>5, <1>6
  <2>2. Rank(dets, i - 1) \in Nat  BY <2>1, Ranks
  <2>3. ~(Rank(dets, i - 1) >= m)  BY <1>1, <1>5, <2>1
  <2>. QED  BY <2>2, <2>3
<1>8. Rank(dets, i) = Rank(dets, i - 1) + (IF i \in Matches(dets) THEN 1 ELSE 0)  BY <1>5, Ranks
<1>9. i \in Matches(dets) /\ Rank(dets, i) = m
  <2>1. CASE i \in Matches(dets)
    <3>1. Rank(dets, i) = Rank(dets, i - 1) + 1  BY <1>8, <2>1
    <3>. QED  BY <1>5, <1>7, <2>1, <3>1
  <2>2. CASE i \notin Matches(dets)
    <3>1. Rank(dets, i) = Rank(dets, i - 1)  BY <1>7, <1>8, <2>2
    <3>. QED  BY <1>5, <1>7, <3>1
  <2>. QED  BY <2>1, <2>2
<1>. QED  BY <1>9

\* No more matches than were asked for, in the order they were published in.
LEMMA FirstInOrder ==
  ASSUME NEW dets \in Seq(Kinds), NEW k \in Nat
  PROVE  LET s == FirstMatches(dets, k)
         IN  /\ Len(s) \in 0..k
             /\ \A m, n \in 1..Len(s) : m < n => s[m] < s[n]
<1> DEFINE all == Cardinality(Matches(dets))
           len == IF k < all THEN k ELSE all
           s   == [m \in 1..len |-> CHOOSE i \in Matches(dets) : Rank(dets, i) = m]
<1>0. all \in Nat  BY Ranks
<1>1. len \in Nat /\ len <= k /\ len <= all  BY <1>0
<1>2. FirstMatches(dets, k) = s  BY DEF FirstMatches
<1>3. Len(s) = len  BY <1>1
<1>4. \A m \in 1..len : s[m] \in Matches(dets) /\ Rank(dets, s[m]) = m
  <2>1. \A m \in 1..len : m \in 1..all  BY <1>0, <1>1
  <2>2. \A m \in 1..len : \E i \in Matches(dets) : Rank(dets, i) = m  BY <2>1, RankedMatch
  <2>. QED  BY <2>2
<1> HIDE DEF s, len, all
<1>5. ASSUME NEW m \in 1..len, NEW n \in 1..len, m < n PROVE s[m] < s[n]
  <2>1. s[m] \in Int /\ s[n] \in Int
    <3>1. Matches(dets) \subseteq Int  BY DEF Matches
    <3>. QED  BY <1>4, <3>1
  <2>2. s[n] <= s[m] => n <= m  BY <1>4, <2>1, Ranks
  <2>. QED  BY <1>1, <1>5, <2>1, <2>2
<1>. QED  BY <1>1, <1>2, <1>3, <1>5

\* A list keeps its places, and its first n are of the array they were written from.
LEMMA WrittenPlaces ==
  ASSUME NEW list, NEW a, NEW chosen, NEW n
  PROVE  /\ DOMAIN Written(list, a, chosen, n) = DOMAIN list
         /\ \A i \in DOMAIN list : i <= n => Written(list, a, chosen, n)[i][1] = a.id
BY DEF Written

LEMMA FoundWrites ==
  ASSUME Inv, NEW a \in Arrays, Found(a), UNCHANGED dep
  PROVE  /\ pc' = "idle" /\ job' = Idle
         /\ found' = [flat |-> found'.flat, list |-> found'.list, count |-> found'.count]
         /\ DOMAIN found'.list = Places
         /\ newest' = [DetectObject |-> newest'.DetectObject,
                       DetectCandidates |-> newest.DetectCandidates]
         /\ ObjectOfNewest'
         /\ found'.count \in 0..keep \/ found'.count = found.count
<1> DEFINE chosen == FirstMatches(a.dets, keep)
<1>1. /\ keep \in Nat \ {0} /\ Places = 1..keep /\ keep' = keep /\ Places' = Places
      /\ Len(chosen) \in 0..keep
  BY Deployed, FirstInOrder DEF Inv, keep, Places, Arrays
<1> HIDE DEF chosen
<1>2. PICK n \in 0..Len(chosen) :
        /\ found' =
             IF keep = 1 THEN [found EXCEPT !.flat = IF n = 1 THEN <<a.id, chosen[1]>> ELSE @]
             ELSE [found EXCEPT !.list = Written(@, a, chosen, n),
                                !.count = IF n > 0 /\ n = Len(chosen) THEN n ELSE @]
        /\ newest' = [newest EXCEPT !.DetectObject = IF n > 0 /\ n = Len(chosen) THEN a.id ELSE 0]
        /\ pc' = "idle" /\ job' = Idle
  BY DEF Found, Return, chosen
<1>3. newest' = [DetectObject |-> newest'.DetectObject, DetectCandidates |-> newest.DetectCandidates]
      /\ (newest'.DetectObject # 0 => newest'.DetectObject = a.id /\ n > 0 /\ n = Len(chosen))
  BY <1>2 DEF Inv, Shape
<1>4. CASE keep = 1
  <2>1. /\ found'.flat = IF n = 1 THEN <<a.id, chosen[1]>> ELSE found.flat
        /\ found'.list = found.list /\ found'.count = found.count
        /\ found' = [flat |-> found'.flat, list |-> found'.list, count |-> found'.count]
    BY <1>2, <1>4 DEF Inv, Shape
  <2>2. newest'.DetectObject # 0 => n = 1  BY <1>1, <1>3, <1>4
  <2>3. ObjectOfNewest'
    BY <1>1, <1>3, <1>4, <2>1, <2>2 DEF Inv, ObjectOfNewest
  <2>. QED  BY <1>2, <1>3, <2>1, <2>3 DEF Inv, Shape
<1>5. CASE keep # 1
  <2>1. /\ found'.list = Written(found.list, a, chosen, n)
        /\ found'.count = IF n > 0 /\ n = Len(chosen) THEN n ELSE found.count
        /\ found' = [flat |-> found'.flat, list |-> found'.list, count |-> found'.count]
    <3> DEFINE list == Written(found.list, a, chosen, n)
               count == IF n > 0 /\ n = Len(chosen) THEN n ELSE found.count
    <3>1. found' = [found EXCEPT !.list = list, !.count = count]  BY <1>2, <1>5
    <3>2. found = [flat |-> found.flat, list |-> found.list, count |-> found.count]
      BY DEF Inv, Shape
    <3> HIDE DEF list, count
    <3>3. found' = [flat |-> found.flat, list |-> list, count |-> count]  BY <3>1, <3>2
    <3>. QED  BY <3>3 DEF list, count
  <2>2. DOMAIN found'.list = Places /\ \A i \in Places : i <= n => found'.list[i][1] = a.id
    BY <2>1, WrittenPlaces DEF Inv, Shape
  <2>3. ObjectOfNewest'
    <3>1. found'.count \in Nat  BY <2>1 DEF Inv, ObjectOfNewest
    <3>. QED  BY <1>1, <1>3, <1>5, <2>1, <2>2, <3>1 DEF ObjectOfNewest
  <2>4. found'.count \in 0..keep \/ found'.count = found.count  BY <1>1, <2>1
  <2>. QED  BY <1>2, <1>3, <2>1, <2>2, <2>3, <2>4
<1>. QED  BY <1>4, <1>5

\* The tick's locals between two ticks.
LEMMA IdleJob ==
  Idle = [op |-> Idle.op, topic |-> Idle.topic, seen |-> Idle.seen, boundary |-> Idle.boundary,
          sampled |-> Idle.sampled, answered |-> Idle.answered, stale |-> Idle.stale,
          future |-> Idle.future]
BY DEF Idle

LEMMA FoundKeepsInv ==
  ASSUME Inv, NEW a \in Arrays, Found(a), UNCHANGED <<outside, cands>>,
         used' \in Nat, used' <= feed["detections"].id
  PROVE  Inv'
<1>1. UNCHANGED <<now, dep, made, feed, cands>>  BY DEF outside
<1>2. /\ pc' = "idle" /\ job' = Idle
      /\ found' = [flat |-> found'.flat, list |-> found'.list, count |-> found'.count]
      /\ DOMAIN found'.list = Places
      /\ newest' = [DetectObject |-> newest'.DetectObject,
                    DetectCandidates |-> newest.DetectCandidates]
      /\ ObjectOfNewest'
  BY <1>1, FoundWrites
<1>3. Places' = Places  BY <1>1 DEF Places
<1>4. newest'.DetectCandidates = newest.DetectCandidates  BY <1>2
<1>5. Shape'
  <2>1. newest' = [DetectObject |-> newest'.DetectObject,
                   DetectCandidates |-> newest'.DetectCandidates]
    BY <1>2, <1>4
  <2>. QED  BY <1>1, <1>2, <1>3, <2>1 DEF Inv, Shape
<1>6. Capturing'  BY <1>1, <1>2, IdleJob DEF Capturing
<1>7. CandidatesOfNewest'  BY <1>1, <1>2, <1>3, <1>4 DEF Inv, CandidatesOfNewest
<1>. QED  BY <1>2, <1>5, <1>6, <1>7 DEF Inv

\* A tick of DetectObject that has found nothing, yet or at its end: what an earlier one
\* found is no longer the newest's.
LEMMA NothingFound ==
  ASSUME Inv, newest' = [newest EXCEPT !.DetectObject = 0],
         UNCHANGED <<outside, found, cands, used>>, Capturing',
         pc' = "arrive" => job'.op # "DetectCandidates"
  PROVE  Inv'
<1>1. UNCHANGED <<now, dep, made, feed>> /\ Places' = Places /\ keep' = keep
  BY DEF outside, Places, keep
<1>2. /\ newest' = [DetectObject |-> newest'.DetectObject,
                    DetectCandidates |-> newest'.DetectCandidates]
      /\ newest'.DetectObject = 0 /\ newest'.DetectCandidates = newest.DetectCandidates
  BY DEF Inv, Shape
<1>3. Shape'  BY <1>1, <1>2 DEF Inv, Shape
<1>4. CandidatesOfNewest'  BY <1>1, <1>2 DEF Inv, CandidatesOfNewest
<1>5. ObjectOfNewest'  BY <1>1, <1>2 DEF Inv, ObjectOfNewest
<1>. QED  BY <1>3, <1>4, <1>5 DEF Inv

LEMMA FailsKeepsInv ==
  ASSUME Inv, NEW reason, Fails(reason), UNCHANGED <<outside, cands, used>>
  PROVE  Inv'
<1>1. pc' = "idle" /\ job' = Idle /\ newest' = [newest EXCEPT !.DetectObject = 0] /\ found' = found
  BY DEF Fails, Return
<1>2. Capturing'  BY <1>1, IdleJob DEF Inv, Capturing, outside
<1>. QED  BY <1>1, <1>2, NothingFound

\* The locals of a tick that begins.
LEMMA BeginsWith ==
  ASSUME Inv, NEW step, NEW op, NEW topic \in Topics, Begin(step, op, topic)
  PROVE  /\ pc = "idle" /\ pc' = step /\ job'.op = op /\ job'.topic = topic
         /\ job' = [op |-> job'.op, topic |-> job'.topic, seen |-> job'.seen,
                    boundary |-> job'.boundary, sampled |-> job'.sampled,
                    answered |-> job'.answered, stale |-> job'.stale, future |-> job'.future]
BY DEF Begin, Idle

LEMMA DetectObjectKeepsInv ==
  ASSUME Inv, NEW trigger, DetectObject(trigger)
  PROVE  Inv'
<1>1. "detections" \in Topics  BY DEF Topics
<1>2. /\ pc' \in {"match", "arrive"} /\ job'.topic = "detections" /\ job'.op = "DetectObject"
      /\ job' = [op |-> job'.op, topic |-> job'.topic, seen |-> job'.seen,
                 boundary |-> job'.boundary, sampled |-> job'.sampled,
                 answered |-> job'.answered, stale |-> job'.stale, future |-> job'.future]
  BY <1>1, BeginsWith DEF DetectObject
<1>3. /\ newest' = [newest EXCEPT !.DetectObject = 0]
      /\ UNCHANGED <<outside, found, cands, used>>
  BY DEF DetectObject
<1>4. Capturing'  BY <1>1, <1>2, <1>3 DEF Inv, Capturing, outside
<1>. QED  BY <1>2, <1>3, <1>4, NothingFound

\* The boundary is set, and what had arrived by then is not looked at.
LEMMA CaptureBeginsKeepsInv ==
  ASSUME Inv, CaptureBegins
  PROVE  Inv'
<1>1. CASE Fails("CLOCK_UNAVAILABLE")
  BY <1>1, FailsKeepsInv DEF CaptureBegins
<1>2. CASE /\ pc = "match" /\ pc' = "call"
           /\ job' = [job EXCEPT !.boundary = now, !.seen = feed[job.topic].id]
           /\ UNCHANGED <<late, out, found, newest>>
  <2>1. UNCHANGED <<now, dep, made, feed, found, cands, newest, used>>
    BY <1>2 DEF CaptureBegins, outside
  <2>2. /\ job'.op = job.op /\ job'.topic = "detections" /\ job'.boundary = now
        /\ job'.seen = feed["detections"].id
        /\ job' = [op |-> job'.op, topic |-> job'.topic, seen |-> job'.seen,
                   boundary |-> job'.boundary, sampled |-> job'.sampled,
                   answered |-> job'.answered, stale |-> job'.stale, future |-> job'.future]
    BY <1>2 DEF Inv, Capturing
  <2>3. feed["detections"].id \in Nat /\ now \in Nat  BY DEF Inv, Shape, Topics, Arrays
  <2>4. Capturing'  BY <1>2, <2>1, <2>2, <2>3 DEF Inv, Capturing
  <2>5. CandidatesOfNewest'  BY <1>2, <2>1 DEF Inv, CandidatesOfNewest, Places, keep
  <2>. QED  BY <2>1, <2>3, <2>4, <2>5, BoardKept DEF Inv
<1>. QED  BY <1>1, <1>2 DEF CaptureBegins

LEMMA WindowLookKeepsInv ==
  ASSUME Inv, WindowLook
  PROVE  Inv'
<1> DEFINE a == feed[job.topic]
           seen == [job EXCEPT !.seen = a.id]
<1>1. /\ pc = "window" /\ job.topic = "detections" /\ a.id > job.seen /\ a \in Arrays
      /\ a = feed["detections"] /\ UNCHANGED <<outside, cands>>
  BY DEF WindowLook, Inv, Capturing, Shape, Topics
<1>2. CASE Found(a) /\ used' = a.id
  <2>1. used' \in Nat /\ used' <= feed["detections"].id  BY <1>1, <1>2 DEF Arrays
  <2> HIDE DEF a
  <2>. QED  BY <1>1, <1>2, <2>1, FoundKeepsInv
<1>3. CASE /\ job' \in {seen, [seen EXCEPT !.future = TRUE], [seen EXCEPT !.stale = TRUE]}
           /\ UNCHANGED <<pc, late, out, found, newest, used>>
  <2>1. /\ job'.op = job.op /\ job'.topic = "detections" /\ job'.boundary = job.boundary
        /\ job'.seen = a.id
        /\ job' = [op |-> job'.op, topic |-> job'.topic, seen |-> job'.seen,
                   boundary |-> job'.boundary, sampled |-> job'.sampled,
                   answered |-> job'.answered, stale |-> job'.stale, future |-> job'.future]
    BY <1>1, <1>3 DEF Inv, Capturing
  <2>2. UNCHANGED <<now, dep, made, feed, found, cands, newest, used>>
    BY <1>1, <1>3 DEF outside
  <2>3. now \in Nat /\ a.id \in Nat  BY <1>1 DEF Inv, Shape, Arrays
  <2>4. Capturing'  BY <1>1, <1>3, <2>1, <2>2, <2>3 DEF Inv, Capturing
  <2>5. CandidatesOfNewest'  BY <1>1, <1>3, <2>1, <2>2 DEF Inv, CandidatesOfNewest, Places, keep
  <2>. QED  BY <2>2, <2>3, <2>4, <2>5, BoardKept DEF Inv
<1>. QED  BY <1>2, <1>3 DEF WindowLook

-----------------------------------------------------------------------------
(* DetectCandidates, and the other steps.                                  *)

\* At most `keep` candidates, in the order they were published in.
LEMMA Proposals ==
  ASSUME Shape, NEW a \in Arrays
  PROVE  /\ Len(Proposed(a)) \in 0..keep
         /\ \A m, n \in 1..Len(Proposed(a)) : m < n => Proposed(a)[m] < Proposed(a)[n]
<1>1. keep \in Nat /\ a.dets \in Seq(Kinds) /\ Len(a.dets) \in Nat  BY Deployed DEF Arrays
<1>2. CASE job.topic = "detections"
  BY <1>1, <1>2, FirstInOrder DEF Proposed
<1>3. CASE job.topic # "detections"
  <2> DEFINE all == [i \in DOMAIN a.dets |-> i]
             n == IF keep < Len(a.dets) THEN keep ELSE Len(a.dets)
  <2>1. n \in Nat /\ n <= keep /\ n <= Len(a.dets)  BY <1>1
  <2>2. Proposed(a) = SubSeq(all, 1, n)  BY <1>3 DEF Proposed
  <2>3. \A i \in 1..n : all[i] \in {all[j] : j \in 1..n}  OBVIOUS
  <2>4. \A i \in 1..n : all[i] = i  BY <1>1, <2>1
  <2> HIDE DEF all, n
  <2>5. /\ Len(SubSeq(all, 1, n)) = IF 1 <= n THEN n - 1 + 1 ELSE 0
        /\ \A i \in 1..(n - 1 + 1) : SubSeq(all, 1, n)[i] = all[1 + i - 1]
    BY <2>1, <2>3, SubSeqProperties
  <2>6. Len(Proposed(a)) = n /\ \A i \in 1..n : Proposed(a)[i] = i  BY <2>1, <2>2, <2>4, <2>5
  <2>. QED  BY <1>1, <2>1, <2>6
<1>. QED  BY <1>2, <1>3

\* A tick that ends leaves the set empty, partly written and not counted, or of its array.
LEMMA CandidatesKeepsInv ==
  ASSUME Inv, pc = "arrive", job.op = "DetectCandidates", NEW a \in Arrays, Candidates(a),
         UNCHANGED <<outside, found, used>>
  PROVE  Inv'
<1> DEFINE chosen == Proposed(a)
<1>1. /\ UNCHANGED <<now, dep, made, feed, found, used>> /\ Places' = Places /\ keep' = keep
      /\ cands.count = 0 /\ 0 \in Nat
      /\ cands = [list |-> cands.list, count |-> cands.count] /\ DOMAIN cands.list = Places
  BY DEF outside, Places, keep, Inv, CandidatesOfNewest, Shape
<1> HIDE DEF chosen
<1>2. pc' = "idle" /\ job' = Idle  BY DEF Candidates, Return
<1>3. Capturing'  BY <1>1, <1>2, IdleJob DEF Inv, Capturing
<1>4. ASSUME NEW n, cands' = [list |-> Written(cands.list, a, chosen, n), count |-> cands'.count],
             \/ cands'.count = 0 /\ newest' = newest
             \/ /\ cands'.count = n /\ n \in Nat
                /\ newest' = [newest EXCEPT !.DetectCandidates = a.id]
      PROVE  Inv'
  <2>1. cands'.list = Written(cands.list, a, chosen, n)  BY <1>4
  <2>2. DOMAIN cands'.list = Places /\ \A i \in Places : i <= n => cands'.list[i][1] = a.id
    BY <1>1, <2>1, WrittenPlaces
  <2>3. /\ newest' = [DetectObject |-> newest'.DetectObject,
                      DetectCandidates |-> newest'.DetectCandidates]
        /\ newest'.DetectObject = newest.DetectObject
        /\ cands'.count = 0 \/ (cands'.count = n /\ newest'.DetectCandidates = a.id)
    BY <1>4 DEF Inv, Shape
  <2>4. Shape'  BY <1>1, <1>4, <2>1, <2>2, <2>3 DEF Inv, Shape
  <2>5. \A i \in Places : i <= cands'.count => cands'.list[i][1] = newest'.DetectCandidates
    <3>1. \A i \in Places : i \in Nat /\ i > 0  BY Deployed DEF Inv
    <3>. QED  BY <2>2, <2>3, <3>1
  <2>6. CandidatesOfNewest'  BY <1>1, <1>2, <1>4, <2>5 DEF CandidatesOfNewest
  <2>7. ObjectOfNewest'  BY <1>1, <2>3 DEF Inv, ObjectOfNewest
  <2>. QED  BY <1>3, <2>4, <2>6, <2>7 DEF Inv
<1>5. CASE UNCHANGED <<cands, newest>>
  <2>1. now \in Nat  BY DEF Inv, Shape
  <2>2. CandidatesOfNewest'  BY <1>1, <1>2, <1>5 DEF Inv, CandidatesOfNewest
  <2>. QED  BY <1>1, <1>3, <1>5, <2>1, <2>2, BoardKept DEF Inv
<1>6. ASSUME NEW n, cands' = Partial(a, chosen, n), newest' = newest PROVE Inv'
  <2> DEFINE list == Written(cands.list, a, chosen, n)
  <2>1. cands' = [cands EXCEPT !.list = list]  BY <1>6 DEF Partial
  <2> HIDE DEF list
  <2>2. cands' = [list |-> list, count |-> cands.count]  BY <1>1, <2>1
  <2>3. cands'.count = 0 /\ cands' = [list |-> list, count |-> cands'.count]  BY <1>1, <2>2
  <2>. QED  BY <1>4, <1>6, <2>3 DEF list
<1>7. CASE /\ cands' = [list |-> Written(cands.list, a, chosen, Len(chosen)), count |-> Len(chosen)]
           /\ newest' = [newest EXCEPT !.DetectCandidates = a.id]
  <2>1. Len(chosen) \in Nat  BY Proposals, Deployed DEF Inv, chosen
  <2>2. cands'.count = Len(chosen)  BY <1>7
  <2>. QED  BY <1>4, <1>7, <2>1, <2>2
<1>. QED  BY <1>5, <1>6, <1>7 DEF Candidates, chosen

LEMMA ArriveKeepsInv ==
  ASSUME Inv, Arrives \/ NoArrival
  PROVE  Inv'
<1> DEFINE a == feed[job.topic]
<1>1. a \in Arrays  BY DEF Arrives, NoArrival, Inv, Capturing, Shape
<1> HIDE DEF a
<1>2. CASE Found(a) /\ UNCHANGED <<outside, cands, used>>
  <2>1. used' \in Nat /\ used' <= feed["detections"].id  BY <1>2 DEF Inv, Capturing
  <2>. QED  BY <1>1, <1>2, <2>1, FoundKeepsInv
<1>3. CASE pc = "arrive" /\ job.op = "DetectCandidates" /\ Candidates(a) /\ UNCHANGED <<outside, found, used>>
  BY <1>1, <1>3, CandidatesKeepsInv
<1>4. CASE NoArrival
  <2>1. /\ UNCHANGED <<now, dep, made, feed, found, cands, newest, used>>
        /\ pc' = "idle" /\ job' = Idle /\ now \in Nat
    BY <1>4 DEF NoArrival, Return, outside, board, history, Inv, Shape
  <2>2. Capturing' /\ CandidatesOfNewest'
    BY <2>1, IdleJob DEF Inv, Capturing, CandidatesOfNewest, Places, keep
  <2>. QED  BY <2>1, <2>2, BoardKept DEF Inv
<1>. QED  BY <1>2, <1>3, <1>4 DEF Arrives, a

LEMMA DeliverKeepsInv ==
  ASSUME Inv, NEW t \in Topics, NEW age \in Ages, NEW dets \in Contents, Deliver(t, age, dets)
  PROVE  Inv'
<1>1. /\ UNCHANGED <<now, dep, pc, job, found, cands, newest, used>>
      /\ made' = made + 1 /\ Places' = Places /\ keep' = keep
      /\ feed' = [feed EXCEPT ![t] = [id |-> made + 1, taken |-> now - age, dets |-> dets]]
  BY DEF Deliver, tick, board, history, Places, keep
<1>2. [id |-> made + 1, taken |-> now - age, dets |-> dets] \in Arrays
  <2>1. now - age \in Int /\ made + 1 \in Nat /\ dets \in Seq(Kinds)
    BY CaptureAssumption DEF CaptureAssumption, Inv, Shape
  <2>. QED  BY <2>1 DEF Arrays
<1>3. feed' \in [Topics -> Arrays]  BY <1>1, <1>2 DEF Inv, Shape
<1>4. \A s \in Topics : feed'[s].id <= made' /\ feed[s].id <= feed'[s].id
  BY <1>1 DEF Inv, Shape, Arrays
<1>5. Shape'  BY <1>1, <1>3, <1>4 DEF Inv, Shape
<1>6. Capturing'
  <2>1. "detections" \in Topics  BY DEF Topics
  <2>2. used <= feed'["detections"].id
    BY <1>3, <1>4, <2>1 DEF Inv, Capturing, Shape, Arrays
  <2>. QED  BY <1>1, <2>2 DEF Inv, Capturing
<1>7. CandidatesOfNewest' /\ ObjectOfNewest'
  BY <1>1 DEF Inv, CandidatesOfNewest, ObjectOfNewest
<1>. QED  BY <1>5, <1>6, <1>7 DEF Inv

LEMMA DetectCandidatesKeepsInv ==
  ASSUME Inv, NEW refused, DetectCandidates(dep.source, refused)
  PROVE  Inv'
<1>1. /\ UNCHANGED <<now, dep, made, feed, found, used>> /\ Places' = Places /\ keep' = keep
      /\ cands' = [cands EXCEPT !.count = 0]
      /\ newest' = [newest EXCEPT !.DetectCandidates = 0]
  BY DEF DetectCandidates, EmptiesSet, outside, Places, keep
<1>2. /\ cands' = [list |-> cands'.list, count |-> cands'.count]
      /\ cands'.list = cands.list /\ cands'.count = 0
      /\ newest' = [DetectObject |-> newest'.DetectObject,
                    DetectCandidates |-> newest'.DetectCandidates]
      /\ newest'.DetectObject = newest.DetectObject
  BY <1>1 DEF Inv, Shape
<1>3. Shape'  BY <1>1, <1>2 DEF Inv, Shape
<1>4. CandidatesOfNewest'
  <2>1. \A i \in Places : ~(i <= 0)  BY Deployed DEF Inv
  <2>. QED  BY <1>1, <1>2, <2>1 DEF CandidatesOfNewest
<1>5. ObjectOfNewest'  BY <1>1, <1>2 DEF Inv, ObjectOfNewest
<1>6. Capturing'
  <2>1. CASE UNCHANGED <<pc, job>>  BY <1>1, <2>1 DEF Inv, Capturing
  <2>2. CASE Begin("arrive", "DetectCandidates", dep.source)
    <3>1. /\ pc' = "arrive" /\ job'.topic \in Topics
          /\ job' = [op |-> job'.op, topic |-> job'.topic, seen |-> job'.seen,
                     boundary |-> job'.boundary, sampled |-> job'.sampled,
                     answered |-> job'.answered, stale |-> job'.stale, future |-> job'.future]
      BY <2>2, BeginsWith, Deployed DEF Inv
    <3>. QED  BY <1>1, <3>1 DEF Inv, Capturing
  <2>. QED  BY <2>1, <2>2 DEF DetectCandidates
<1>. QED  BY <1>3, <1>4, <1>5, <1>6 DEF Inv

LEMMA WaypointKeepsInv ==
  ASSUME Inv, \/ UNCHANGED vars
              \/ \E i, oriented : SetWaypointFromDetection(i, oriented)
              \/ \E i, refused : SetWaypointFromCandidate(i, refused)
  PROVE  Inv'
<1>1. UNCHANGED <<now, dep, made, feed, pc, job, found, cands, newest, used>> /\ now \in Nat
  BY DEF SetWaypointFromDetection, SetWaypointFromCandidate, vars, outside, tick, board, history,
         Inv, Shape
<1>2. Capturing' /\ CandidatesOfNewest'
  BY <1>1 DEF Inv, Capturing, CandidatesOfNewest, Places, keep
<1>. QED  BY <1>1, <1>2, BoardKept DEF Inv

LEMMA InitInv == Init => Inv
<1> SUFFICES ASSUME Init PROVE Inv
  OBVIOUS
<1> DEFINE none == [i \in Places |-> Absent]
<1>1. /\ now \in {0, 1} /\ dep \in Deployments /\ made = 0 /\ feed = [t \in Topics |-> NoArray]
      /\ pc = "idle" /\ job = Idle /\ used = 0
      /\ found = [flat |-> Absent, list |-> none, count |-> 0]
      /\ cands = [list |-> none, count |-> 0]
      /\ newest = [DetectObject |-> 0, DetectCandidates |-> 0]
  BY DEF Init
<1>2. DOMAIN none = Places /\ \A i \in Places : none[i] = Absent  OBVIOUS
<1> HIDE DEF none
<1>3. /\ found = [flat |-> found.flat, list |-> found.list, count |-> found.count]
      /\ cands = [list |-> cands.list, count |-> cands.count]
      /\ newest = [DetectObject |-> newest.DetectObject,
                   DetectCandidates |-> newest.DetectCandidates]
      /\ found.list = none /\ cands.list = none /\ cands.count = 0 /\ newest.DetectObject = 0
  BY <1>1
<1>4. NoArray \in Arrays /\ NoArray.id = 0 /\ "detections" \in Topics
  BY DEF NoArray, Arrays, Topics
<1>5. Shape  BY <1>1, <1>2, <1>3, <1>4 DEF Shape
<1>6. Capturing  BY <1>1, <1>4, IdleJob DEF Capturing
<1>7. CandidatesOfNewest
  <2>1. \A i \in Places : ~(i <= 0)  BY <1>5, Deployed
  <2>. QED  BY <1>1, <1>3, <2>1 DEF CandidatesOfNewest
<1>8. ObjectOfNewest
  <2>1. found.count \in Nat  BY <1>1
  <2>. QED  BY <1>2, <1>3, <2>1 DEF ObjectOfNewest
<1>. QED  BY <1>5, <1>6, <1>7, <1>8 DEF Inv

LEMMA NextInv == Inv /\ [Next]_vars => Inv'
<1> SUFFICES ASSUME Inv, [Next]_vars PROVE Inv'
  OBVIOUS
<1>1. CASE DeadlinePasses \/ SendTrigger \/ TakeAnswer \/ WindowEnds \/ DetectorAnswers \/ TimePasses
  BY <1>1, CaptureSteps
<1>2. CASE CaptureBegins  BY <1>2, CaptureBeginsKeepsInv
<1>3. CASE WindowLook  BY <1>3, WindowLookKeepsInv
<1>4. CASE CaptureFails  BY <1>4, FailsKeepsInv DEF CaptureFails
<1>5. CASE Arrives \/ NoArrival  BY <1>5, ArriveKeepsInv
<1>6. CASE \E trigger \in BOOLEAN : DetectObject(trigger)  BY <1>6, DetectObjectKeepsInv
<1>7. CASE \E refused \in BOOLEAN : DetectCandidates(dep.source, refused)
  BY <1>7, DetectCandidatesKeepsInv
<1>8. CASE \/ UNCHANGED vars
           \/ \E i \in Places, oriented \in BOOLEAN : SetWaypointFromDetection(i - 1, oriented)
           \/ \E i \in Places, refused \in BOOLEAN : SetWaypointFromCandidate(i - 1, refused)
  BY <1>8, WaypointKeepsInv
<1>9. CASE \E t \in Topics, age \in Ages, dets \in Contents : Deliver(t, age, dets)
  BY <1>9, DeliverKeepsInv
<1>. QED
  BY <1>1, <1>2, <1>3, <1>4, <1>5, <1>6, <1>7, <1>8, <1>9 DEF Next, TickStep, NodeBegins

-----------------------------------------------------------------------------
\* What the nodes wrote is of the arrays they took, and what a capture has still to look at
\* arrived after its boundary.
THEOREM Invariance == Spec => []Inv
  BY InitInv, NextInv, PTL DEF Spec

\* A step that takes an array for a triggered tick takes one of its own trigger.
LEMMA TakesItsOwn ==
  Inv /\ [Next]_vars =>
    (used' # used =>
       /\ used' > used /\ job.sampled
       /\ feed["detections"].taken >= job.boundary - (IF skew > 0 THEN skew ELSE 0))
<1> SUFFICES ASSUME Inv, [Next]_vars, used' # used
             PROVE  /\ used' > used /\ job.sampled
                    /\ feed["detections"].taken >= job.boundary - (IF skew > 0 THEN skew ELSE 0)
  OBVIOUS
<1>1. WindowLook
  BY DEF Next, TickStep, NodeBegins, DeadlinePasses, CaptureBegins, SendTrigger, TakeAnswer,
         WindowEnds, CaptureFails, Arrives, NoArrival, DetectObject, DetectCandidates,
         SetWaypointFromDetection, SetWaypointFromCandidate, TimePasses, Deliver, DetectorAnswers,
         vars, history
<1>2. /\ pc = "window" /\ job.sampled /\ used' = feed[job.topic].id
      /\ feed[job.topic].id > job.seen /\ Fresh(feed[job.topic])
  BY <1>1 DEF WindowLook
<1>3. /\ job.topic = "detections" /\ used <= job.seen /\ job.seen \in Nat /\ used \in Nat
      /\ feed["detections"].id \in Nat /\ feed["detections"].taken \in Int /\ job.boundary \in Nat
  BY <1>2 DEF Inv, Capturing, Shape, Arrays, Topics
<1>4. feed["detections"].taken + skew >= job.boundary  BY <1>2, <1>3 DEF Fresh, Stamp
<1>5. skew \in Int  BY Deployed DEF Inv
<1>. QED  BY <1>2, <1>3, <1>4, <1>5

\* A capture takes an image taken after its boundary, as far as the two clocks agree, and
\* none that it or an earlier capture took (bt_nodes.cpp, DetectObject with a trigger).
THEOREM CapturesItsOwn == Spec => CaptureIsOfThisTrigger
  BY Invariance, TakesItsOwn, PTL DEF Spec, CaptureIsOfThisTrigger

\* A step that writes a waypoint makes it of what the newest tick of its node wrote.
LEMMA GoesToNewest ==
  Inv /\ [Next]_vars =>
    (goal' # goal =>
       /\ goal'.of = "DetectCandidates" => goal'.from[1] = newest.DetectCandidates
       /\ goal'.of = "DetectObject" /\ newest.DetectObject # 0 /\ (keep = 1 \/ goal'.at < found.count) =>
            goal'.from[1] = newest.DetectObject)
<1> SUFFICES ASSUME Inv, [Next]_vars, goal' # goal
             PROVE  /\ goal'.of = "DetectCandidates" => goal'.from[1] = newest.DetectCandidates
                    /\ goal'.of = "DetectObject" /\ newest.DetectObject # 0
                         /\ (keep = 1 \/ goal'.at < found.count) =>
                         goal'.from[1] = newest.DetectObject
  OBVIOUS
<1>1. NoGoal.of = "none"  BY DEF NoGoal
<1>2. \/ goal' = NoGoal
      \/ \E i \in Places : \E oriented \in BOOLEAN : SetWaypointFromDetection(i - 1, oriented)
      \/ \E i \in Places : \E refused \in BOOLEAN : SetWaypointFromCandidate(i - 1, refused)
  BY DEF Next, TickStep, NodeBegins, DeadlinePasses, CaptureBegins, SendTrigger, TakeAnswer,
         WindowLook, WindowEnds, CaptureFails, Arrives, NoArrival, DetectObject, DetectCandidates,
         Begin, TimePasses, Deliver, DetectorAnswers, vars, board
<1>3. keep \in Nat \ {0} /\ Places = 1..keep  BY Deployed DEF Inv
<1>4. ASSUME NEW i \in Places, goal' # NoGoal,
             \E oriented \in BOOLEAN : SetWaypointFromDetection(i - 1, oriented)
      PROVE  /\ goal'.of = "DetectObject"
             /\ newest.DetectObject # 0 /\ (keep = 1 \/ goal'.at < found.count) =>
                  goal'.from[1] = newest.DetectObject
  <2>1. /\ goal' = [of |-> "DetectObject", at |-> i - 1, from |-> Resolved(i - 1)]
        /\ Resolved(i - 1) # Absent
    BY <1>4 DEF SetWaypointFromDetection
  <2>2. goal'.of = "DetectObject" /\ goal'.at = i - 1 /\ goal'.from = Resolved(i - 1)  BY <2>1
  <2>3. i \in Int /\ (i - 1) + 1 = i  BY <1>3
  <2>4. ASSUME newest.DetectObject # 0, keep = 1 PROVE Resolved(i - 1)[1] = newest.DetectObject
    <3>1. i = 1 /\ found.list[i] = Absent /\ found.flat[1] = newest.DetectObject
      BY <1>3, <2>4 DEF Inv, ObjectOfNewest
    <3>. QED  BY <2>3, <3>1 DEF Resolved
  <2>5. ASSUME newest.DetectObject # 0, keep # 1, i - 1 < found.count
        PROVE  Resolved(i - 1)[1] = newest.DetectObject
    <3>1. i <= found.count  BY <2>3, <2>5 DEF Inv, ObjectOfNewest
    <3>2. found.list[i][1] = newest.DetectObject  BY <2>5, <3>1 DEF Inv, ObjectOfNewest
    <3>3. found.list[i] # Absent  BY <2>5, <3>2 DEF Absent
    <3>. QED  BY <2>3, <3>2, <3>3 DEF Resolved
  <2>. QED  BY <2>2, <2>4, <2>5
<1>5. ASSUME NEW i \in Places, goal' # NoGoal,
             \E refused \in BOOLEAN : SetWaypointFromCandidate(i - 1, refused)
      PROVE  goal'.of = "DetectCandidates" /\ goal'.from[1] = newest.DetectCandidates
  <2>1. /\ goal' = [of |-> "DetectCandidates", at |-> i - 1, from |-> cands.list[(i - 1) + 1]]
        /\ i - 1 < cands.count
    BY <1>5 DEF SetWaypointFromCandidate, Named
  <2>2. (i - 1) + 1 = i /\ i <= cands.count
    BY <1>3, <2>1 DEF Inv, CandidatesOfNewest
  <2>. QED  BY <2>1, <2>2 DEF Inv, CandidatesOfNewest
<1>. QED  BY <1>1, <1>2, <1>4, <1>5

\* SetWaypointFromCandidate goes to a candidate of the newest DetectCandidates, or nowhere
\* when that failed, wherever it failed.  SetWaypointFromDetection, after a DetectObject
\* that succeeded, goes to a detection of it at every index below its count; of the other
\* indexes, and after a DetectObject that failed, nothing is claimed (bt_nodes.cpp: 2361
\* empties the candidates first, 2001 and 2065 do not do so for detections).
THEOREM WaypointsAreOfNewest == Spec => WaypointsOfNewest
  BY Invariance, GoesToNewest, PTL DEF Spec, WaypointsOfNewest

-----------------------------------------------------------------------------
(* Types: the counts stay within `keep`, and the counted set is in order.  *)

Clocked ==
  /\ now \in 0..MaxTime /\ made \in 0..MaxMessages
  /\ pc \in {"idle", "arrive", "match", "call", "answer", "window"}
  /\ call \in {"none", "asked", "ok", "refused"} /\ late \in BOOLEAN

SetInOrder ==
  /\ cands.count \in 0..keep
  /\ \A i \in 1..cands.count : cands.list[i] # Absent
  /\ \A i, j \in 1..cands.count : i < j => cands.list[i][2] < cands.list[j][2]

\* With what a tick that waits saw before: a message after it is not the absent one.
Typed ==
  /\ Clocked /\ found.count \in 0..keep /\ SetInOrder
  /\ pc = "arrive" => job.seen \in Nat

LEMMA ClockedKept == Inv /\ Clocked /\ [Next]_vars => Clocked'
<1> SUFFICES ASSUME Inv, Clocked, [Next]_vars PROVE Clocked'
  OBVIOUS
<1>1. MaxTime \in Nat /\ MaxMessages \in Nat  BY CaptureAssumption DEF CaptureAssumption
<1>2. now' \in 0..MaxTime /\ made' \in 0..MaxMessages
  <2>1. CASE TimePasses  BY <1>1, <2>1 DEF TimePasses, Clocked
  <2>2. CASE \E t \in Topics, age \in Ages, dets \in Contents : Deliver(t, age, dets)
    BY <1>1, <2>2 DEF Deliver, Clocked
  <2>3. CASE UNCHANGED <<now, made>>  BY <2>3 DEF Clocked
  <2>. QED
    BY <2>1, <2>2, <2>3
    DEF Next, TickStep, NodeBegins, DeadlinePasses, CaptureBegins, SendTrigger, TakeAnswer,
        WindowLook, WindowEnds, CaptureFails, Arrives, NoArrival, DetectObject, DetectCandidates,
        SetWaypointFromDetection, SetWaypointFromCandidate, DetectorAnswers, vars, outside
<1>3. call' \in {"none", "asked", "ok", "refused"}
  BY DEF Clocked, Next, TickStep, NodeBegins, DeadlinePasses, CaptureBegins, SendTrigger,
         TakeAnswer, WindowLook, WindowEnds, CaptureFails, Arrives, NoArrival, DetectObject,
         DetectCandidates, SetWaypointFromDetection, SetWaypointFromCandidate, DetectorAnswers,
         TimePasses, Deliver, vars
<1>4. pc' \in {"idle", "arrive", "match", "call", "answer", "window"} /\ late' \in BOOLEAN
  <2>1. CASE TickStep
    BY <2>1 DEF Clocked, TickStep, DeadlinePasses, CaptureBegins, SendTrigger, TakeAnswer,
        WindowLook, WindowEnds, CaptureFails, Arrives, NoArrival, Found, Fails, Candidates, Return
  <2>2. CASE NodeBegins
    BY <2>2 DEF Clocked, NodeBegins, DetectObject, DetectCandidates, SetWaypointFromDetection,
        SetWaypointFromCandidate, Begin
  <2>3. CASE UNCHANGED <<pc, late>>  BY <2>3 DEF Clocked
  <2>. QED  BY <2>1, <2>2, <2>3 DEF Next, TimePasses, Deliver, DetectorAnswers, vars, tick
<1>. QED  BY <1>2, <1>3, <1>4 DEF Clocked

\* The steps that read an array take the feed's newest, that of the topic waited on.
LEMMA TakesFrom ==
  ASSUME Inv, pc \in {"arrive", "window"}
  PROVE  feed[job.topic] \in Arrays
BY DEF Inv, Shape, Capturing, Topics

LEMMA FoundCountKept == Inv /\ found.count \in 0..keep /\ [Next]_vars => found'.count \in 0..keep'
<1> SUFFICES ASSUME Inv, found.count \in 0..keep, [Next]_vars PROVE found'.count \in 0..keep'
  OBVIOUS
<1>1. keep' = keep
  BY DEF keep, Next, TickStep, NodeBegins, DeadlinePasses, CaptureBegins, SendTrigger, TakeAnswer,
         WindowLook, WindowEnds, CaptureFails, Arrives, NoArrival, DetectObject, DetectCandidates,
         SetWaypointFromDetection, SetWaypointFromCandidate, TimePasses, Deliver, DetectorAnswers,
         vars, outside
<1>2. CASE pc \in {"arrive", "window"} /\ Found(feed[job.topic]) /\ UNCHANGED outside
  <2>1. UNCHANGED dep  BY <1>2 DEF outside
  <2>2. feed[job.topic] \in Arrays  BY <1>2, TakesFrom
  <2>3. found'.count \in 0..keep \/ found'.count = found.count  BY <1>2, <2>1, <2>2, FoundWrites
  <2>. QED  BY <1>1, <2>3
<1>3. CASE UNCHANGED found  BY <1>1, <1>3
<1>. QED
  BY <1>2, <1>3
  DEF Next, TickStep, NodeBegins, DeadlinePasses, CaptureBegins, SendTrigger, TakeAnswer,
      WindowLook, WindowEnds, CaptureFails, Arrives, NoArrival, DetectObject, DetectCandidates,
      SetWaypointFromDetection, SetWaypointFromCandidate, TimePasses, Deliver, DetectorAnswers,
      Fails, vars, board

\* A set that is counted was written whole, from candidates in order.
LEMMA CandidatesInOrder ==
  ASSUME Inv, SetInOrder, pc = "arrive", job.op = "DetectCandidates", job.seen \in Nat,
         NEW a \in Arrays, a.id > job.seen, Candidates(a), UNCHANGED dep
  PROVE  SetInOrder'
<1> DEFINE chosen == Proposed(a)
<1>1. keep' = keep /\ keep \in Nat /\ Places = 1..keep /\ DOMAIN cands.list = Places
      /\ cands.count = 0
  BY Deployed DEF Inv, Shape, CandidatesOfNewest, keep
<1>2. Len(chosen) \in 0..keep /\ \A m, n \in 1..Len(chosen) : m < n => chosen[m] < chosen[n]
  BY Proposals DEF Inv
<1> HIDE DEF chosen
<1>3. CASE cands'.count = 0
  BY <1>1, <1>3 DEF SetInOrder
<1>4. CASE cands' = [list |-> Written(cands.list, a, chosen, Len(chosen)), count |-> Len(chosen)]
  <2>1. cands'.count = Len(chosen) /\ cands'.list = Written(cands.list, a, chosen, Len(chosen))
    BY <1>4
  <2>2. \A i \in 1..Len(chosen) : cands'.list[i] = <<a.id, chosen[i]>>
    BY <1>1, <1>2, <2>1 DEF Written
  <2>3. a.id # 0  BY DEF Arrays
  <2>4. \A i \in 1..Len(chosen) :
          cands'.list[i] # Absent /\ cands'.list[i][2] = chosen[i]
    BY <2>2, <2>3 DEF Absent
  <2>. QED  BY <1>1, <1>2, <2>1, <2>4 DEF SetInOrder
<1>5. cands'.count = 0 \/
      cands' = [list |-> Written(cands.list, a, chosen, Len(chosen)), count |-> Len(chosen)]
  <2>1. cands = [list |-> cands.list, count |-> cands.count]  BY DEF Inv, Shape
  <2>2. ASSUME NEW n, cands' = Partial(a, chosen, n) PROVE cands'.count = 0
    <3> DEFINE list == Written(cands.list, a, chosen, n)
    <3>1. cands' = [cands EXCEPT !.list = list]  BY <2>2 DEF Partial
    <3> HIDE DEF list
    <3>. QED  BY <1>1, <2>1, <3>1
  <2>. QED  BY <1>1, <2>2 DEF Candidates, chosen
<1>. QED  BY <1>3, <1>4, <1>5

LEMMA SetInOrderKept == Inv /\ Typed /\ [Next]_vars => SetInOrder'
<1> SUFFICES ASSUME Inv, Typed, [Next]_vars PROVE SetInOrder'
  OBVIOUS
<1>1. CASE Arrives /\ job.op = "DetectCandidates" /\ Candidates(feed[job.topic])
  <2>1. pc = "arrive" /\ feed[job.topic].id > job.seen /\ UNCHANGED dep
    BY <1>1 DEF Arrives, outside
  <2>2. feed[job.topic] \in Arrays  BY <2>1, TakesFrom
  <2>. QED  BY <1>1, <2>1, <2>2, CandidatesInOrder DEF Typed
<1>2. CASE UNCHANGED <<cands, dep>>
  BY <1>2 DEF Typed, SetInOrder, keep
<1>3. CASE \E refused \in BOOLEAN : DetectCandidates(dep.source, refused)
  <2>1. cands' = [cands EXCEPT !.count = 0] /\ UNCHANGED dep
    BY <1>3 DEF DetectCandidates, EmptiesSet, outside
  <2>2. cands'.count = 0 /\ keep' = keep  BY <2>1 DEF Inv, Shape, keep
  <2>3. keep \in Nat  BY Deployed DEF Inv
  <2>. QED  BY <2>2, <2>3 DEF SetInOrder
<1>. QED
  BY <1>1, <1>2, <1>3
  DEF Next, TickStep, NodeBegins, DeadlinePasses, CaptureBegins, SendTrigger, TakeAnswer,
      WindowLook, WindowEnds, CaptureFails, Arrives, NoArrival, DetectObject,
      SetWaypointFromDetection, SetWaypointFromCandidate, TimePasses, Deliver, DetectorAnswers,
      vars, outside, board

\* What had arrived when a wait began is a message's number.
LEMMA SeenKept ==
  ASSUME Inv, Typed, [Next]_vars
  PROVE  pc' = "arrive" => job'.seen \in Nat
<1>1. CASE pc = "idle" /\ \E op : \E topic \in Topics : Begin("arrive", op, topic)
  <2>1. PICK topic \in Topics : job'.seen = feed[topic].id  BY <1>1 DEF Begin, Idle
  <2>. QED  BY <2>1 DEF Inv, Shape, Arrays
<1>2. CASE UNCHANGED <<pc, job>>  BY <1>2 DEF Typed
<1>3. CASE pc' # "arrive"  BY <1>3
<1>4. CASE NodeBegins
  <2>1. dep.source \in Topics /\ "detections" \in Topics  BY Deployed DEF Inv, Topics
  <2>2. CASE \E trigger \in BOOLEAN : DetectObject(trigger)
    BY <1>1, <1>3, <2>1, <2>2 DEF DetectObject, Begin
  <2>3. CASE \E refused \in BOOLEAN : DetectCandidates(dep.source, refused)
    BY <1>1, <1>2, <2>1, <2>3 DEF DetectCandidates, Begin
  <2>. QED
    BY <1>2, <1>4, <2>2, <2>3 DEF NodeBegins, SetWaypointFromDetection, SetWaypointFromCandidate
<1>5. CASE TickStep
  BY <1>2, <1>3, <1>5
  DEF TickStep, DeadlinePasses, CaptureBegins, SendTrigger, TakeAnswer, WindowLook, WindowEnds,
      CaptureFails, Arrives, NoArrival, Found, Fails, Candidates, Return
<1>. QED
  BY <1>2, <1>4, <1>5 DEF Next, TimePasses, Deliver, DetectorAnswers, vars, tick

LEMMA InitTyped == Init => Typed
<1> SUFFICES ASSUME Init PROVE Typed
  OBVIOUS
<1>1. Inv /\ keep \in Nat  BY InitInv, Deployed DEF Inv
<1>2. found.count = 0 /\ cands.count = 0 /\ pc = "idle"
  <2> DEFINE none == [i \in Places |-> Absent]
  <2>1. /\ found = [flat |-> Absent, list |-> none, count |-> 0]
        /\ cands = [list |-> none, count |-> 0] /\ pc = "idle"
    BY DEF Init
  <2> HIDE DEF none
  <2>. QED  BY <2>1
<1>3. Clocked
  <2>1. now \in {0, 1} /\ made = 0 /\ call = "none" /\ late = FALSE  BY DEF Init
  <2>2. now \in 0..MaxTime /\ made \in 0..MaxMessages
    BY <2>1, CaptureAssumption DEF CaptureAssumption
  <2>. QED  BY <1>2, <2>1, <2>2 DEF Clocked
<1>. QED  BY <1>1, <1>2, <1>3 DEF Typed, SetInOrder

LEMMA NextTyped == Inv /\ Typed /\ [Next]_vars => Typed'
BY ClockedKept, FoundCountKept, SetInOrderKept, SeenKept DEF Typed

\* One counted set is of one array.
LEMMA TypedIsTypeOK == Inv /\ Typed => TypeOK
<1> SUFFICES ASSUME Inv, Typed PROVE TypeOK
  OBVIOUS
<1>1. \A i \in 1..cands.count : cands.list[i][1] = newest.DetectCandidates
  BY Deployed DEF Inv, CandidatesOfNewest, Typed, SetInOrder
<1>2. \A i, j \in 1..cands.count :
        /\ cands.list[i] # Absent /\ cands.list[i][1] = cands.list[j][1]
        /\ i < j => cands.list[i][2] < cands.list[j][2]
  BY <1>1 DEF Typed, SetInOrder
<1>. QED  BY <1>2 DEF TypeOK, Typed, Clocked, SetInOrder

\* The counts the nodes write stay within what a deployment keeps, and a counted set is of
\* one array, in the order it was published in (bt_nodes.cpp, DetectObject, DetectCandidates).
THEOREM TypeCorrect == Spec => []TypeOK
  BY InitInv, NextInv, InitTyped, NextTyped, TypedIsTypeOK, PTL DEF Spec
=============================================================================
