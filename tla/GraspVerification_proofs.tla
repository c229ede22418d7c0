---------------------- MODULE GraspVerification_proofs ----------------------
(***************************************************************************)
(* Which command a confirmation, and which grasp a verdict, is of: for any *)
(* deployments and clocks, any number of commands and restarts, whatever   *)
(* samples are late, replaced or lost, and whatever requests are given up  *)
(* and applied after that.                                                 *)
(***************************************************************************)
EXTENDS GraspVerification, SequenceTheorems, TLAPS

Kinds        == Grips \cup {"NONE"}
Observations == [reading : Grasps \X Evidences, switch : Kinds, stamp : Int, by : Nat]
Entries      == [last : Kinds, ref : Int, by : Nat, obs : Observations]
Requests     == [id : Nat, kind : Grips]
Jobs         == [op : {"none", "command", "verify"}, want : Grips \cup {"NONE", "HELD", "RELEASED"},
                 prior : Int, at : Int]
Records      == [known : BOOLEAN, stamp : Int, prior : Int, id : Nat]

\* What the adapter shows now, what is on its way, and what the runner has.
Samples == {e \in {device, wire, feed} : e # NoSample}

\* The state's types, beyond TypeOK.
Shape ==
  /\ TypeOK
  /\ wiring \in Wirings /\ {late, shown, gap} \subseteq BOOLEAN
  /\ flight \in Seq(Requests) /\ device \in Entries /\ Samples \subseteq Entries
  /\ job \in Jobs /\ sent \in Records

\* The requests in flight are in the order of their commands, and none was applied yet.
Queue ==
  /\ \A i \in 1..Len(flight) : flight[i].id \in 1..count
  /\ \A i, j \in 1..Len(flight) : i < j => flight[i].id < flight[j].id
  /\ \A e \in Samples : \A i \in 1..Len(flight) : e.by < flight[i].id

\* What a sample says of its own: an entry of no command of this run is of before its
\* start, and an observation made under an earlier command is older than the entry.
Told ==
  \A e \in Samples :
    /\ e.by <= count /\ e.obs.by <= count
    /\ e.by = 0 => e.ref <= 1
    /\ e.by > 0 => Reaches
    /\ e.obs.by = e.by \/ e.obs.stamp < e.ref

\* f is a later sample than e: a later command's, the same one's, or a restart's.
Follows(f, e) ==
  f # NoSample /\ e # NoSample =>
    /\ f.by # 0 => f.by >= e.by
    /\ f.by = e.by /\ f.by # 0 => f.ref = e.ref

\* The samples come in the order they were made; nothing is applied twice after a restart.
Ordered ==
  /\ Follows(device, wire) /\ Follows(device, feed) /\ Follows(wire, feed)
  /\ wire # NoSample /\ feed # NoSample /\ wire.by = 0 /\ feed.by # 0 =>
       device.by = 0 \/ device.by > feed.by

\* A command was sent after the start, and what was recorded is of a command.
Sent ==
  /\ pc \in {"wait", "result", "look"} <=> job.op = "command"
  /\ job.op = "command" => job.at >= Start /\ count > 0
  /\ sent.id > 0 => sent.known /\ sent.stamp >= Start

\* The samples of the command before are no newer than prior.
Since(prior) ==
  \A e \in Samples :
    /\ e.by \in {0, count - 1, count}
    /\ e.by = count - 1 /\ e.by > 0 => e.ref <= prior

\* When every command before was seen applied, only the newest can be in flight, and only
\* it can be newer than the entry seen when it was sent.
Chained ==
  ~gap /\ wiring.topic = "own" =>
    /\ \A i \in 1..Len(flight) : flight[i].id = count
    /\ job.op = "command" => Since(job.prior)
    /\ sent.id = count /\ count > 0 => Since(sent.prior)

\* The newest command was seen applied: it is what all samples show, until a restart.
Settled ==
  ~gap /\ wiring.topic = "own" /\ shown =>
    /\ flight = <<>>
    /\ count > 0 => feed # NoSample
    /\ \A e \in Samples : e.by \in {0, count}
    /\ feed # NoSample /\ feed.by = 0 => device.by = 0 /\ (wire # NoSample => wire.by = 0)
    /\ wire # NoSample /\ wire.by = 0 => device.by = 0

Inv == Shape /\ Queue /\ Told /\ Ordered /\ Sent /\ Chained /\ Settled
-----------------------------------------------------------------------------
LEMMA RefusedIs ==
  ASSUME flight \in Seq(Requests)
  PROVE  /\ Refused \in Seq(Requests) /\ Len(Refused) <= Len(flight)
         /\ \A i \in 1..Len(Refused) : Refused[i] = flight[i]
<1>1. CASE Refused = flight
  BY <1>1
<1>2. CASE flight # <<>> /\ Refused = SubSeq(flight, 1, Len(flight) - 1)
  <2> DEFINE n == Len(flight) - 1
  <2>1. n \in Nat /\ n <= Len(flight)  BY <1>2
  <2>2. \A i \in 1..n : flight[i] \in Requests  BY <2>1
  <2> HIDE DEF n
  <2>3. /\ SubSeq(flight, 1, n) \in Seq(Requests)
        /\ Len(SubSeq(flight, 1, n)) = IF 1 <= n THEN n - 1 + 1 ELSE 0
        /\ \A i \in 1..(n - 1 + 1) : SubSeq(flight, 1, n)[i] = flight[1 + i - 1]
    BY <2>1, <2>2, SubSeqProperties
  <2>4. Len(SubSeq(flight, 1, n)) = n /\ \A i \in 1..n : SubSeq(flight, 1, n)[i] = flight[i]
    BY <2>1, <2>3
  <2>5. Refused = SubSeq(flight, 1, n)  BY <1>2 DEF n
  <2>. QED  BY <2>1, <2>3, <2>4, <2>5
<1>. QED  BY <1>1, <1>2 DEF Refused

LEMMA Ends ==
  ASSUME NEW reason, Returns(reason)
  PROVE  pc' = "idle" /\ job' = Idle /\ late' = FALSE /\ out' \in {"SUCCESS", "VERDICT", "FAULT"}
BY DEF Returns, Outcome

LEMMA IdleIsAJob == Idle \in Jobs /\ Idle.op = "none"
BY DEF Idle, Jobs

\* A step of the tick thread between a command and the confirmation, or of VerifyGrasp.
LEMMA LocalStep ==
  ASSUME Inv, Shape', Sent', UNCHANGED <<wiring, device, wire, feed, count, gap>>,
         flight' \in {flight, Refused},
         job'.op = "command" => job' = job,
         shown' = shown \/ Settled',
         sent' = sent \/ (job.op = "command" /\ sent'.prior = job.prior)
  PROVE  Inv'
<1>1. Samples' = Samples /\ (Reaches <=> Reaches')  BY DEF Samples, Reaches
<1>2. /\ flight \in Seq(Requests) /\ Len(flight') <= Len(flight) /\ flight' \in Seq(Requests)
      /\ \A i \in 1..Len(flight') : i \in 1..Len(flight) /\ flight'[i] = flight[i]
  BY RefusedIs DEF Inv, Shape
<1>3. Queue'  BY <1>1, <1>2 DEF Inv, Queue
<1>4. Told' /\ Ordered'  BY <1>1 DEF Inv, Told, Ordered, Follows
<1>5. ASSUME NEW p PROVE Since(p) <=> Since(p)'  BY <1>1 DEF Since
<1>6. Chained'  BY <1>2, <1>5 DEF Inv, Chained
<1>7. Settled'
  <2>1. flight = <<>> => flight' = <<>>  BY <1>2
  <2>. QED  BY <1>1, <2>1 DEF Inv, Settled
<1>. QED  BY <1>3, <1>4, <1>6, <1>7 DEF Inv

\* The steps of the tick thread that leave the history alone.
LEMMA TickKeepsInv ==
  ASSUME Inv, \/ TimePasses \/ DeadlinePasses \/ Discover \/ Accept \/ ConfirmBegins \/ Interrupted
              \/ VerifyJudge \/ GiveUp \/ UNCHANGED vars
  PROVE  Inv'
<1>1. UNCHANGED <<wiring, device, wire, feed, count, sent, shown, gap>>
  BY DEF TimePasses, DeadlinePasses, Discover, Accept, ConfirmBegins, Interrupted, VerifyJudge,
         GiveUp, vars, clocks, adapter, state, record
<1>2. flight' \in {flight, Refused}
  BY DEF TimePasses, DeadlinePasses, Discover, Accept, ConfirmBegins, Interrupted, VerifyJudge,
         GiveUp, vars, server
<1>3. \/ pc' = "idle" /\ job' = Idle /\ late' = FALSE /\ out' \in {"SUCCESS", "VERDICT", "FAULT"}
      \/ job' = job /\ out' = out /\ late' = late /\ pc = "result" /\ pc' = "look"
      \/ job' = job /\ out' = out /\ late' \in {late, TRUE} /\ pc' = pc
  BY Ends DEF TimePasses, DeadlinePasses, Discover, Accept, ConfirmBegins, Interrupted, VerifyJudge,
         GiveUp, vars, tick
<1>4. now' \in Start..MaxTime /\ pubs' \in {0, 1} /\ answer' \in {"none", "accepted", "done"}
  BY GraspAssumption DEF GraspAssumption, Inv, Shape, TypeOK,
         TimePasses, DeadlinePasses, Discover, Accept, ConfirmBegins, Interrupted, VerifyJudge,
         GiveUp, vars, clocks, server, state
<1>5. Shape'
  <2>1. flight' \in Seq(Requests)  BY <1>2, RefusedIs DEF Inv, Shape
  <2>2. Samples' = Samples  BY <1>1 DEF Samples
  <2>3. TypeOK'  BY <1>1, <1>3, <1>4 DEF Inv, Shape, TypeOK
  <2>4. {late', shown', gap'} \subseteq BOOLEAN  BY <1>1, <1>3 DEF Inv, Shape
  <2>5. job' \in Jobs  BY <1>3, IdleIsAJob DEF Inv, Shape, Jobs
  <2>. QED  BY <1>1, <2>1, <2>2, <2>3, <2>4, <2>5 DEF Inv, Shape, Jobs
<1>6. Sent'  BY <1>1, <1>3, IdleIsAJob DEF Inv, Sent
<1>7. job'.op = "command" => job' = job  BY <1>3, IdleIsAJob
<1>. QED  BY <1>1, <1>2, <1>5, <1>6, <1>7, LocalStep

LEMMA RecordKeepsInv ==
  ASSUME Inv, Record
  PROVE  Inv'
<1>1. /\ pc = "wait" /\ pc' = "result"
      /\ UNCHANGED <<now, wiring, device, wire, feed, pubs, flight, answer, job, late, out, count, shown, gap>>
      /\ sent' = [known |-> TRUE, stamp |-> job.at, prior |-> job.prior, id |-> count]
  BY DEF Record, clocks, adapter, server, state
<1>2. job.op = "command" /\ count \in Nat /\ job.at \in Int /\ job.prior \in Int
  BY <1>1, GraspAssumption DEF GraspAssumption, Inv, Shape, Sent, TypeOK, Jobs
<1>3. /\ sent'.id = count /\ sent'.known = TRUE /\ sent'.stamp = job.at /\ sent'.prior = job.prior
      /\ sent' \in Records
  BY <1>1, <1>2 DEF Records
<1>4. Shape'
  <2>1. Samples' = Samples  BY <1>1 DEF Samples
  <2>2. TypeOK'  BY <1>1, <1>2, <1>3 DEF Inv, Shape, TypeOK
  <2>. QED  BY <1>1, <1>3, <2>1, <2>2 DEF Inv, Shape
<1>5. Sent'  BY <1>1, <1>2, <1>3 DEF Inv, Sent
<1>. QED  BY <1>1, <1>2, <1>3, <1>4, <1>5, LocalStep

LEMMA VerifyBeginsKeepsInv ==
  ASSUME Inv, NEW expect \in {"HELD", "RELEASED"}, VerifyBegins(expect)
  PROVE  Inv'
<1>1. /\ pc = "idle" /\ pc' = "judge" /\ out' = "NONE"
      /\ UNCHANGED <<now, wiring, device, wire, feed, pubs, flight, answer, late, sent, count, shown, gap>>
      /\ job' = [op |-> "verify", want |-> expect, prior |-> 0, at |-> 0]
  BY DEF VerifyBegins, Idle, clocks, adapter, server, state, record
<1>2. job' \in Jobs /\ job'.op = "verify"  BY <1>1 DEF Jobs
<1>3. Shape'
  <2>1. Samples' = Samples  BY <1>1 DEF Samples
  <2>2. TypeOK'  BY <1>1 DEF Inv, Shape, TypeOK
  <2>. QED  BY <1>1, <1>2, <2>1, <2>2 DEF Inv, Shape, Jobs
<1>4. Sent'  BY <1>1, <1>2 DEF Inv, Sent
<1>. QED  BY <1>1, <1>2, <1>3, <1>4, LocalStep


\* The adapter always has something to show.
LEMMA DeviceIsASample ==
  ASSUME Inv
  PROVE  device \in Samples /\ device.by \in Nat /\ device.ref \in Int
<1>1. device \in Entries  BY DEF Inv, Shape
<1>2. device # NoSample  BY <1>1 DEF Entries, NoSample
<1>. QED  BY <1>1, <1>2 DEF Samples, Entries

-----------------------------------------------------------------------------
(* The adapter, the server and the topic.                                  *)

\* A step that changes no sample's entry: each new sample is one of the old ones, with at
\* most another observation, and comes after those it came after.
LEMMA SampleStep ==
  ASSUME Inv, UNCHANGED <<now, wiring, flight, answer, tick, record>>, pubs' \in {0, 1},
         device' \in Entries, Samples' \subseteq Entries, Ordered',
         \A e \in Samples' :
           \/ e.by = 0 /\ e.ref <= 1 /\ e.obs.by = 0
           \/ \E f \in Samples :
                /\ e.by = f.by /\ e.ref = f.ref
                /\ e.obs.by \in {f.obs.by, f.by} /\ (e.obs = f.obs \/ e.obs.by = f.by),
         feed # NoSample => feed' # NoSample,
         feed' # NoSample /\ feed'.by = 0 /\ shown /\ ~gap /\ wiring.topic = "own" =>
           device'.by = 0 /\ (wire' # NoSample => wire'.by = 0),
         wire' # NoSample /\ wire'.by = 0 /\ shown /\ ~gap /\ wiring.topic = "own" => device'.by = 0
  PROVE  Inv'
<1>1. UNCHANGED <<now, wiring, flight, answer, pc, job, late, out, sent, count, shown, gap>>
  BY DEF tick, record
<1>2. Shape'  BY <1>1 DEF Inv, Shape, TypeOK
<1>3. count \in Nat /\ flight \in Seq(Requests) /\ Samples \subseteq Entries
  BY GraspAssumption DEF GraspAssumption, Inv, Shape, TypeOK
<1>4. Queue'
  <2>1. \A i \in 1..Len(flight) : flight[i].id \in Nat /\ flight[i].id > 0
    BY <1>3 DEF Inv, Queue
  <2>2. ASSUME NEW e \in Samples', NEW i \in 1..Len(flight) PROVE e.by < flight[i].id
    BY <2>1 DEF Inv, Queue
  <2>. QED  BY <1>1, <2>2 DEF Inv, Queue
<1>5. Told'
  <2>1. ASSUME NEW e \in Samples', e.by = 0, e.ref <= 1, e.obs.by = 0
        PROVE  /\ e.by <= count /\ e.obs.by <= count
               /\ e.by = 0 => e.ref <= 1
               /\ e.by > 0 => Reaches
               /\ e.obs.by = e.by \/ e.obs.stamp < e.ref
    BY <1>3, <2>1
  <2>2. ASSUME NEW e \in Samples', NEW f \in Samples, e.by = f.by, e.ref = f.ref,
               e.obs.by \in {f.obs.by, f.by}, e.obs = f.obs \/ e.obs.by = f.by
        PROVE  /\ e.by <= count /\ e.obs.by <= count
               /\ e.by = 0 => e.ref <= 1
               /\ e.by > 0 => Reaches
               /\ e.obs.by = e.by \/ e.obs.stamp < e.ref
    BY <2>2 DEF Inv, Told
  <2>3. Reaches <=> Reaches'  BY <1>1 DEF Reaches
  <2>. QED  BY <1>1, <2>1, <2>2, <2>3 DEF Told
<1>6. Sent'  BY <1>1 DEF Inv, Sent
<1>7. ASSUME NEW p \in Int, Since(p) PROVE Since(p)'
  BY <1>1, <1>7 DEF Since
<1>8. Chained'
  <2>1. job.prior \in Int /\ sent.prior \in Int  BY DEF Inv, Shape, Jobs, Records
  <2>. QED  BY <1>1, <1>7, <2>1 DEF Inv, Chained
<1>9. Settled'
  <2>1. ASSUME ~gap, wiring.topic = "own", shown, NEW e \in Samples' PROVE e.by \in {0, count}
    BY <2>1 DEF Inv, Settled
  <2>. QED  BY <1>1, <2>1 DEF Inv, Settled
<1>. QED  BY <1>2, <1>4, <1>5, <1>6, <1>8, <1>9 DEF Inv

LEMMA DeliverKeepsInv ==
  ASSUME Inv, Deliver
  PROVE  Inv'
<1>1. /\ wire # NoSample /\ feed' = wire /\ wire' = NoSample
      /\ UNCHANGED <<now, wiring, flight, answer, tick, record, device, pubs>>
  BY DEF Deliver, clocks, server
<1>2. Samples' \subseteq Samples  BY <1>1 DEF Samples
<1>3. Ordered'  BY <1>1 DEF Inv, Ordered, Follows
<1>4. shown /\ ~gap /\ wiring.topic = "own" /\ wire.by = 0 => device.by = 0
  BY <1>1 DEF Inv, Settled
<1>. QED  BY <1>1, <1>2, <1>3, <1>4, SampleStep DEF Inv, Shape, TypeOK

LEMMA RestartKeepsInv ==
  ASSUME Inv, Restart
  PROVE  Inv'
<1> DEFINE new == [last |-> "NONE", ref |-> 0, by |-> 0, obs |-> NeverObserved]
<1>1. /\ device' = new
      /\ UNCHANGED <<now, wiring, wire, flight, answer, tick, record, feed, pubs>>
  BY DEF Restart, Entry, clocks, server, state
<1>2. new \in Entries /\ new.by = 0 /\ new.ref <= 1 /\ new.obs.by = 0
  BY DEF Entries, NeverObserved, Observations, Kinds, Grips, Grasps, Evidences
<1> HIDE DEF new
<1>3. Samples' \subseteq Samples \union {new}  BY <1>1 DEF Samples
<1>4. Ordered'  BY <1>1, <1>2 DEF Inv, Ordered, Follows
<1>5. /\ feed # NoSample /\ feed.by = 0 /\ shown /\ ~gap /\ wiring.topic = "own" =>
           (wire # NoSample => wire.by = 0)
  BY DEF Inv, Settled
<1>. QED  BY <1>1, <1>2, <1>3, <1>4, <1>5, SampleStep DEF Inv, Shape, TypeOK

LEMMA PublishKeepsInv ==
  ASSUME Inv, Publish
  PROVE  Inv'
<1>1. /\ wire' = device'
      /\ UNCHANGED <<now, wiring, flight, answer, tick, record, feed, pubs>>
  BY DEF Publish, clocks, server, state
<1>2. device \in Entries /\ now + wiring.skew \in Int
  BY GraspAssumption DEF GraspAssumption, WiringType, Inv, Shape, TypeOK
<1>3. /\ device' \in Entries /\ device'.by = device.by /\ device'.ref = device.ref
      /\ device'.obs = device.obs \/ device'.obs.by = device.by
  <2>1. CASE UNCHANGED device  BY <1>2, <2>1
  <2>2. CASE \E r \in Readings[device.last] :
               device' = [device EXCEPT
                 !.obs = [reading |-> r, stamp |-> AdapterNow, by |-> device.by,
                          switch |-> IF wiring.actuator = "set_bool_feedback" THEN device.last ELSE "NONE"]]
    <3> DEFINE obs(r) == [reading |-> r, stamp |-> AdapterNow, by |-> device.by,
                          switch |-> IF wiring.actuator = "set_bool_feedback" THEN device.last ELSE "NONE"]
    <3>1. PICK r \in Readings[device.last] : device' = [device EXCEPT !.obs = obs(r)]  BY <2>2
    <3>2. device.last \in Kinds /\ device.by \in Nat  BY <1>2 DEF Entries
    <3>3. r \in Grasps \X Evidences
      BY <3>2, GraspAssumption DEF GraspAssumption, Kinds
    <3>4. AdapterNow \in Int  BY <1>2 DEF AdapterNow
    <3>5. obs(r) \in Observations /\ obs(r).by = device.by
      BY <3>2, <3>3, <3>4 DEF Observations, Kinds
    <3> HIDE DEF obs
    <3>6. device' = [last |-> device.last, ref |-> device.ref, by |-> device.by, obs |-> obs(r)]
      BY <1>2, <3>1 DEF Entries
    <3>. QED  BY <1>2, <3>5, <3>6 DEF Entries
  <2>. QED  BY <2>1, <2>2 DEF Publish
<1>5. device \in Samples /\ device.by \in Nat /\ device.ref \in Int /\ device # NoSample
  BY DeviceIsASample DEF Samples
<1>6. Samples' \subseteq {device'} \union Samples  BY <1>1 DEF Samples
<1>7. Ordered'  BY <1>1, <1>3, <1>5 DEF Inv, Ordered, Follows
<1>8. /\ feed # NoSample /\ feed.by = 0 /\ shown /\ ~gap /\ wiring.topic = "own" => device.by = 0
  BY DEF Inv, Settled
<1>. QED
  BY <1>1, <1>3, <1>5, <1>6, <1>7, <1>8, SampleStep DEF Inv, Shape, TypeOK


\* The oldest request in flight is a later command's than any sample shows.
LEMMA ApplyKeepsInv ==
  ASSUME Inv, Apply
  PROVE  Inv'
<1> DEFINE h == Head(flight)
<1>1. /\ flight # <<>> /\ flight' = Tail(flight)
      /\ UNCHANGED <<now, wiring, wire, feed, pubs, tick, record>>
      /\ answer' \in {answer, "done"}
  BY DEF Apply, clocks, state
<1>2. /\ flight \in Seq(Requests) /\ Len(flight) \in Nat /\ Len(flight) > 0
      /\ h = flight[1] /\ h \in Requests /\ h.id \in 1..count /\ h.id > 0 /\ h.id <= count
      /\ flight' \in Seq(Requests) /\ Len(flight') = Len(flight) - 1
      /\ \A i \in 1..Len(flight') : i + 1 \in 1..Len(flight) /\ flight'[i] = flight[i + 1]
  <2>1. /\ flight \in Seq(Requests) /\ Len(flight) \in Nat /\ Len(flight) > 0
        /\ h = flight[1] /\ 1 \in 1..Len(flight)
    BY <1>1 DEF Inv, Shape
  <2>2. h \in Requests /\ h.id \in 1..count  BY <2>1 DEF Inv, Queue
  <2>3. count \in Nat  BY GraspAssumption DEF GraspAssumption, Inv, Shape, TypeOK
  <2>4. /\ flight' \in Seq(Requests) /\ Len(flight') = Len(flight) - 1
        /\ \A i \in 1..Len(flight') : flight'[i] = flight[i + 1]
    BY <1>1, <2>1, HeadTailProperties
  <2>. QED  BY <2>1, <2>2, <2>3, <2>4
<1> HIDE DEF h
<1>3. UNCHANGED <<pc, job, late, out, sent, count, shown, gap>>  BY <1>1 DEF tick, record
<1>4. ASSUME NEW e \in Samples
      PROVE  e.by < h.id /\ \A i \in 1..Len(flight') : e.by < flight'[i].id
  <2>1. 1 \in 1..Len(flight)  BY <1>2
  <2>. QED  BY <1>2, <2>1 DEF Inv, Queue
<1>5. \/ UNCHANGED device
      \/ /\ Reaches /\ AdapterNow > device.obs.stamp
         /\ device' = [last |-> h.kind, ref |-> AdapterNow, by |-> h.id, obs |-> device.obs]
  BY DEF Apply, Entry, h
<1>6. device \in Entries /\ AdapterNow \in Int
  BY GraspAssumption DEF GraspAssumption, AdapterNow, WiringType, Inv, Shape, TypeOK
<1>7. Samples' \subseteq Samples \union {device'} /\ device' \in Samples'
  <2>1. device' \in Entries  BY <1>2, <1>5, <1>6 DEF Entries, Requests, Kinds
  <2>. QED  BY <1>1, <2>1 DEF Samples, Entries, NoSample
<1>8. Shape'
  <2>1. device' \in Entries  BY <1>2, <1>5, <1>6 DEF Entries, Requests, Kinds
  <2>2. Samples' \subseteq Entries  BY <1>7, <2>1 DEF Inv, Shape
  <2>3. TypeOK'  BY <1>1, <1>3 DEF Inv, Shape, TypeOK
  <2>. QED  BY <1>1, <1>2, <1>3, <2>1, <2>2, <2>3 DEF Inv, Shape
<1>9. ASSUME NEW i \in 1..Len(flight'), NEW j \in 1..Len(flight'), i < j
      PROVE  flight'[i].id < flight'[j].id
  <2>1. i + 1 \in 1..Len(flight) /\ j + 1 \in 1..Len(flight) /\ i + 1 < j + 1  BY <1>2, <1>9
  <2>. QED  BY <1>2, <2>1 DEF Inv, Queue
<1>10. \A i \in 1..Len(flight') : h.id < flight'[i].id
  <2>1. 1 \in 1..Len(flight)  BY <1>2
  <2>2. ASSUME NEW i \in 1..Len(flight') PROVE h.id < flight[i + 1].id
    <3>1. 1 < i + 1 /\ i + 1 \in 1..Len(flight)  BY <1>2
    <3>. QED  BY <1>2, <2>1, <3>1 DEF Inv, Queue
  <2>. QED  BY <1>2, <2>2
<1>11. Queue'
  <2>1. ASSUME NEW e \in Samples', NEW i \in 1..Len(flight') PROVE e.by < flight'[i].id
    <3>1. CASE e \in Samples  BY <1>4, <3>1
    <3>2. CASE e = device' /\ device' # device  BY <1>5, <1>10, <3>2
    <3>. QED  BY <1>7, <3>1, <3>2, DeviceIsASample
  <2>2. \A i \in 1..Len(flight') : flight'[i].id \in 1..count'  BY <1>2, <1>3 DEF Inv, Queue
  <2>. QED  BY <1>9, <2>1, <2>2 DEF Queue
<1>12. CASE UNCHANGED device
  <2>1. Samples' = Samples /\ (Reaches <=> Reaches')  BY <1>1, <1>12 DEF Samples, Reaches
  <2>2. Told' /\ Ordered' /\ Sent'
    BY <1>1, <1>3, <1>12, <2>1 DEF Inv, Told, Ordered, Follows, Sent
  <2>3. \A p : Since(p) <=> Since(p)'  BY <1>3, <2>1 DEF Since
  <2>4. Chained'  BY <1>1, <1>2, <1>3, <2>3 DEF Inv, Chained
  <2>5. Settled'  BY <1>1, <1>3, <1>12, <2>1 DEF Inv, Settled
  <2>. QED  BY <1>8, <1>11, <2>2, <2>4, <2>5 DEF Inv
<1>13. CASE /\ Reaches /\ AdapterNow > device.obs.stamp
            /\ device' = [last |-> h.kind, ref |-> AdapterNow, by |-> h.id, obs |-> device.obs]
  <2>1. /\ device'.by = h.id /\ device'.ref = AdapterNow /\ device'.obs = device.obs /\ h.id \in Nat
    BY <1>2, <1>13
  <2>2. Reaches'  BY <1>1, <1>13 DEF Reaches
  <2>3. count \in Nat /\ device \in Samples  BY DeviceIsASample, GraspAssumption DEF GraspAssumption, Inv, Shape, TypeOK
  <2>4. Told'
    <3>1. ASSUME NEW e \in Samples'
          PROVE  /\ e.by <= count /\ e.obs.by <= count
                 /\ e.by = 0 => e.ref <= 1
                 /\ e.by > 0 => Reaches
                 /\ e.obs.by = e.by \/ e.obs.stamp < e.ref
      <4>1. CASE e \in Samples  BY <4>1 DEF Inv, Told
      <4>2. CASE e = device'
        <5>1. device.obs.by <= count  BY <2>3 DEF Inv, Told
        <5>2. device.obs.stamp \in Int  BY <1>6 DEF Entries, Observations
        <5>. QED  BY <1>2, <1>6, <1>13, <2>1, <4>2, <5>1, <5>2
      <4>. QED  BY <1>7, <4>1, <4>2
    <3>. QED  BY <1>3, <1>13, <2>2, <3>1 DEF Told
  <2>5. Ordered'
    <3>1. (wire # NoSample => wire \in Samples /\ wire.by < h.id) /\ (feed # NoSample => feed \in Samples /\ feed.by < h.id)
      BY <1>4 DEF Samples
    <3>2. (wire # NoSample => wire.by \in Nat) /\ (feed # NoSample => feed.by \in Nat)
      BY <3>1 DEF Inv, Shape, Entries
    <3>. QED  BY <1>1, <2>1, <3>1, <3>2 DEF Inv, Ordered, Follows
  <2>6. Sent'  BY <1>3 DEF Inv, Sent
  <2>7. ASSUME ~gap, wiring.topic = "own" PROVE h.id = count /\ ~shown
    <3>1. 1 \in 1..Len(flight)  BY <1>2
    <3>. QED  BY <1>1, <1>2, <2>7, <3>1 DEF Inv, Chained, Settled
  <2>8. ASSUME ~gap, wiring.topic = "own", NEW p, Since(p) PROVE Since(p)'
    <3>1. \A e \in Samples' : e \in Samples \/ (e.by = count /\ e.by # count - 1)
      BY <1>7, <2>1, <2>3, <2>7, <2>8
    <3>. QED  BY <1>3, <2>8, <3>1 DEF Since
  <2>9. Chained'  BY <1>1, <1>2, <1>3, <2>8 DEF Inv, Chained
  <2>10. Settled'  BY <1>1, <1>3, <2>7 DEF Settled
  <2>. QED  BY <1>8, <1>11, <2>4, <2>5, <2>6, <2>9, <2>10 DEF Inv
<1>. QED  BY <1>5, <1>12, <1>13

-----------------------------------------------------------------------------
(* A command, and what shows it.                                           *)

\* The entry a command is compared with is the newest the runner has of the one before.
LEMMA CommandKeepsInv ==
  ASSUME Inv, NEW kind \in Grips, Command(kind)
  PROVE  Inv'
<1> DEFINE prior   == IF feed = NoSample \/ WrongId THEN 0 ELSE feed.ref
           request == [id |-> count + 1, kind |-> kind]
<1>1. /\ pc = "idle" /\ count < MaxCommands /\ pc' = "wait" /\ count' = count + 1
      /\ job' = [op |-> "command", want |-> kind, at |-> now, prior |-> prior]
      /\ flight' = Append(flight, request) /\ answer' = "none"
      /\ gap' = (gap \/ ~shown) /\ shown' = FALSE /\ out' = "NONE"
      /\ UNCHANGED <<now, wiring, device, wire, feed, pubs, sent, late>>
  BY DEF Command, clocks, adapter, state
<1>2. /\ Samples' = Samples /\ (Reaches <=> Reaches')
      /\ count \in Nat /\ MaxCommands \in Nat /\ sent.id \in 0..count
      /\ now \in Int /\ now >= Start /\ Start \in Nat
      /\ flight \in Seq(Requests) /\ Samples \subseteq Entries
  BY <1>1, GraspAssumption DEF GraspAssumption, Samples, Reaches, Inv, Shape, TypeOK
<1>3. prior \in Int
  <2>1. feed # NoSample => feed \in Samples  BY DEF Samples
  <2>. QED  BY <1>2, <2>1 DEF Entries
<1>4. request \in Requests /\ request.id = count + 1  BY <1>2 DEF Requests
<1> HIDE DEF prior, request
<1>5. /\ flight' \in Seq(Requests) /\ Len(flight') = Len(flight) + 1 /\ Len(flight) \in Nat
      /\ \A i \in 1..Len(flight) : flight'[i] = flight[i]
      /\ flight'[Len(flight) + 1] = request
  BY <1>1, <1>2, <1>4, AppendProperties
<1>6. job' \in Jobs /\ job'.op = "command" /\ job'.at = now /\ job'.prior = prior
  BY <1>1, <1>2, <1>3 DEF Jobs
<1>7. Shape'
  <2>1. TypeOK'
    <3>1. count' \in 0..MaxCommands /\ sent.id \in 0..count'  BY <1>1, <1>2
    <3>. QED  BY <1>1, <3>1 DEF Inv, Shape, TypeOK
  <2>2. {late', shown', gap'} \subseteq BOOLEAN
    <3>1. gap' \in BOOLEAN  BY <1>1
    <3>. QED  BY <1>1, <3>1 DEF Inv, Shape
  <2>. QED  BY <1>1, <1>2, <1>5, <1>6, <2>1, <2>2 DEF Inv, Shape
<1>8. \A e \in Samples : e.by <= count /\ e.by \in Nat  BY <1>2 DEF Inv, Told, Entries
<1>9. Queue'
  <2>1. ASSUME NEW i \in 1..Len(flight')
        PROVE  /\ flight'[i].id \in 1..count'
               /\ \A e \in Samples : e.by < flight'[i].id
               /\ \A j \in 1..Len(flight') : j < i => flight'[j].id < flight'[i].id
    <3>1. CASE i \in 1..Len(flight)
      <4>1. \A j \in 1..Len(flight') : j < i => j \in 1..Len(flight)  BY <1>5, <3>1
      <4>. QED  BY <1>1, <1>2, <1>5, <3>1, <4>1 DEF Inv, Queue
    <3>2. CASE i = Len(flight) + 1
      <4>1. flight'[i].id = count + 1  BY <1>4, <1>5, <3>2
      <4>2. \A j \in 1..Len(flight') : j < i => flight'[j].id \in 1..count
        BY <1>5, <3>2 DEF Inv, Queue
      <4>. QED  BY <1>1, <1>2, <1>8, <4>1, <4>2
    <3>. QED  BY <1>5, <3>1, <3>2
  <2>. QED  BY <1>2, <2>1 DEF Queue
<1>10. Told'
  <2>1. \A e \in Samples : e.obs.by <= count + 1 /\ e.by <= count + 1
    BY <1>2, <1>8 DEF Inv, Told, Entries, Observations
  <2>. QED  BY <1>1, <1>2, <2>1 DEF Inv, Told
<1>11. Ordered'  BY <1>1 DEF Inv, Ordered, Follows
<1>12. Sent'  BY <1>1, <1>2, <1>6 DEF Inv, Sent
<1>13. ASSUME ~gap', wiring.topic = "own"
       PROVE  /\ \A i \in 1..Len(flight') : flight'[i].id = count'
              /\ Since(job.prior)'
  <2>1. ~gap /\ shown  BY <1>1, <1>13
  <2>2. /\ flight = <<>>
        /\ count > 0 => feed # NoSample
        /\ \A e \in Samples : e.by \in {0, count}
        /\ feed # NoSample /\ feed.by = 0 => device.by = 0 /\ (wire # NoSample => wire.by = 0)
    BY <1>13, <2>1 DEF Inv, Settled
  <2>3. ASSUME NEW e \in Samples, e.by = count, e.by > 0 PROVE e.ref <= prior
    <3>1. feed # NoSample /\ feed \in Samples /\ feed.by \in Nat /\ feed.ref \in Int
      <4>1. feed # NoSample  BY <2>2, <2>3
      <4>2. feed \in Samples  BY <4>1 DEF Samples
      <4>. QED  BY <1>2, <4>1, <4>2 DEF Entries
    <3>2. prior = feed.ref  BY <1>13, <3>1 DEF prior, WrongId
    <3>3. feed.by # 0  BY <2>2, <2>3 DEF Samples
    <3>4. feed.by = count  BY <2>2, <3>1, <3>3
    <3>5. e \in {device, wire, feed} /\ e # NoSample  BY DEF Samples
    <3>6. e.ref = feed.ref
      BY <2>3, <3>1, <3>4, <3>5 DEF Inv, Ordered, Follows
    <3>. QED  BY <3>1, <3>2, <3>6
  <2>4. Since(job.prior)'
    <3>1. ASSUME NEW e \in Samples
          PROVE  /\ e.by \in {0, (count + 1) - 1, count + 1}
                 /\ e.by = (count + 1) - 1 /\ e.by > 0 => e.ref <= prior
      <4>1. (count + 1) - 1 = count  BY <1>2
      <4>. QED  BY <2>2, <2>3, <4>1
    <3>. QED  BY <1>1, <1>2, <1>6, <3>1 DEF Since
  <2>5. \A i \in 1..Len(flight') : i = Len(flight) + 1  BY <1>5, <2>2
  <2>. QED  BY <1>1, <1>4, <1>5, <2>4, <2>5
<1>14. Chained'
  <2>1. sent'.id # count'  BY <1>1, <1>2
  <2>. QED  BY <1>1, <1>13, <2>1 DEF Chained
<1>15. Settled'  BY <1>1 DEF Settled
<1>. QED  BY <1>7, <1>9, <1>10, <1>11, <1>12, <1>14, <1>15 DEF Inv


\* A sample that passes for the newest command's is of this run and this device; and it is
\* that command's, when the commands before were seen applied.
LEMMA ShownIsThis ==
  ASSUME Inv, pc = "look", feed # NoSample, ConfirmRefuses = "NONE", ShowsThisCommand(feed)
  PROVE  /\ wiring.client = "own" /\ wiring.topic = "own" /\ feed.by > 0
         /\ ~gap => feed.by = count
<1>1. /\ job.op = "command" /\ job.at >= Start /\ job.at \in Int /\ job.prior \in Int
      /\ feed \in Samples /\ feed.by \in Nat /\ feed.ref \in Int
  <2>1. feed \in Samples  BY DEF Samples
  <2>. QED  BY <2>1 DEF Inv, Shape, Sent, Jobs, Entries
<1>2. wiring.topic = "own"
  BY GraspAssumption DEF GraspAssumption, WiringType, ConfirmRefuses, WrongId, Malformed, Inv, Shape
<1>3. feed.ref > 1
  BY <1>1, GraspAssumption DEF GraspAssumption, ShowsThisCommand
<1>4. feed.by > 0  BY <1>1, <1>3 DEF Inv, Told
<1>5. wiring.client = "own"  BY <1>1, <1>2, <1>4 DEF Inv, Told, Reaches
<1>6. ASSUME ~gap PROVE feed.by = count
  <2>1. Since(job.prior)  BY <1>1, <1>2, <1>6 DEF Inv, Chained
  <2>2. feed.by \in {0, count - 1, count} /\ (feed.by = count - 1 => feed.ref <= job.prior)
    BY <1>1, <1>4, <2>1 DEF Since
  <2>3. feed.ref > job.prior  BY DEF ShowsThisCommand
  <2>. QED  BY <1>1, <1>4, <2>2, <2>3
<1>. QED  BY <1>2, <1>4, <1>5, <1>6

\* Once it is shown, every later sample shows it too, or a restart.
LEMMA ShownIsSettled ==
  ASSUME Inv, feed # NoSample, feed.by > 0, ~gap => feed.by = count, job.op = "command"
  PROVE  ~gap /\ wiring.topic = "own" =>
           /\ flight = <<>>
           /\ \A e \in Samples : e.by \in {0, count}
           /\ feed.by = count /\ count > 0
           /\ wire # NoSample /\ wire.by = 0 => device.by = 0
<1> SUFFICES ASSUME ~gap, wiring.topic = "own"
             PROVE  /\ flight = <<>>
                    /\ \A e \in Samples : e.by \in {0, count}
                    /\ feed.by = count /\ count > 0
                    /\ wire # NoSample /\ wire.by = 0 => device.by = 0
  OBVIOUS
<1>1. feed \in Samples /\ feed.by = count /\ count \in Nat /\ count > 0
      /\ flight \in Seq(Requests) /\ Samples \subseteq Entries
  BY GraspAssumption DEF GraspAssumption, Samples, Inv, Shape, TypeOK
<1>2. flight = <<>>
  <2>1. \A i \in 1..Len(flight) : flight[i].id = count /\ feed.by < flight[i].id
    BY <1>1 DEF Inv, Chained, Queue
  <2>2. ~(1 \in 1..Len(flight))  BY <1>1, <2>1
  <2>. QED  BY <1>1, <2>2
<1>3. ASSUME NEW e \in Samples PROVE e.by \in {0, count}
  <2>1. e.by \in Nat /\ (e.by = 0 \/ e.by >= feed.by)
    BY <1>1, <1>3 DEF Samples, Entries, Inv, Ordered, Follows
  <2>2. e.by <= count  BY DEF Inv, Told
  <2>. QED  BY <1>1, <2>1, <2>2
<1>4. ASSUME wire # NoSample, wire.by = 0 PROVE device.by = 0
  <2>1. device.by = 0 \/ device.by > feed.by  BY <1>1, <1>4 DEF Inv, Ordered
  <2>2. device.by <= count /\ device.by \in Nat  BY DeviceIsASample DEF Inv, Told
  <2>. QED  BY <1>1, <2>1, <2>2
<1>. QED  BY <1>1, <1>2, <1>3, <1>4

LEMMA ConfirmLookKeepsInv ==
  ASSUME Inv, ConfirmLook
  PROVE  Inv'
<1> DEFINE showsIt == feed # NoSample /\ ConfirmRefuses = "NONE" /\ ShowsThisCommand(feed)
<1>1. /\ pc = "look"
      /\ UNCHANGED <<now, wiring, device, wire, feed, pubs, flight, answer, sent, count, gap>>
      /\ shown' = (shown \/ showsIt)
  BY DEF ConfirmLook, clocks, adapter, server, state
<1>2. \/ pc' = "idle" /\ job' = Idle /\ late' = FALSE /\ out' \in {"SUCCESS", "VERDICT", "FAULT"}
      \/ job' = job /\ out' = out /\ late' = late /\ pc' = pc
  BY Ends DEF ConfirmLook, tick
<1>3. job.op = "command"  BY <1>1 DEF Inv, Sent
<1>4. Shape'
  <2>1. Samples' = Samples  BY <1>1 DEF Samples
  <2>2. TypeOK'  BY <1>1, <1>2 DEF Inv, Shape, TypeOK
  <2>3. shown' \in BOOLEAN /\ late' \in BOOLEAN /\ gap' \in BOOLEAN
    <3>1. shown' \in BOOLEAN  BY <1>1
    <3>. QED  BY <1>1, <1>2, <3>1 DEF Inv, Shape
  <2>4. job' \in Jobs  BY <1>2, IdleIsAJob DEF Inv, Shape
  <2>. QED  BY <1>1, <2>1, <2>2, <2>3, <2>4 DEF Inv, Shape
<1>5. Sent'  BY <1>1, <1>2, IdleIsAJob DEF Inv, Sent
<1>6. job'.op = "command" => job' = job  BY <1>2, IdleIsAJob
<1>7. shown' = shown \/ Settled'
  <2>1. CASE showsIt
    <3>1. feed # NoSample /\ feed.by > 0 /\ (~gap => feed.by = count)
      BY <1>1, <2>1, ShownIsThis
    <3>2. Samples' = Samples  BY <1>1 DEF Samples
    <3>. QED  BY <1>1, <1>3, <3>1, <3>2, ShownIsSettled DEF Settled
  <2>2. CASE ~showsIt
    <3>1. shown \in BOOLEAN  BY DEF Inv, Shape
    <3>. QED  BY <1>1, <2>2, <3>1
  <2>. QED  BY <2>1, <2>2
<1>. QED  BY <1>1, <1>4, <1>5, <1>6, <1>7, LocalStep

LEMMA InitInv == Init => Inv
<1> SUFFICES ASSUME Init PROVE Inv
  OBVIOUS
<1> DEFINE none == [last |-> "NONE", ref |-> 0, by |-> 0, obs |-> NeverObserved]
           old  == [last |-> "ENGAGE", ref |-> 1, by |-> 0, obs |-> NeverObserved]
<1>1. /\ now = Start /\ wiring \in Wirings /\ pubs \in {0, 1} /\ device \in {none, old}
      /\ wire = NoSample /\ feed = NoSample /\ flight = <<>> /\ answer = "none"
      /\ sent = [known |-> FALSE, stamp |-> 0, prior |-> 0, id |-> 0]
      /\ pc = "idle" /\ job = Idle /\ late = FALSE /\ out = "NONE"
      /\ count = 0 /\ shown = TRUE /\ gap = FALSE
  BY DEF Init, Entry
<1>2. /\ device \in Entries /\ device.by = 0 /\ device.ref <= 1 /\ device.obs.by = 0
      /\ Samples \subseteq {device}
  BY <1>1 DEF Samples, Entries, NeverObserved, Observations, Kinds, Grips, Grasps, Evidences
<1>3. sent \in Records /\ sent.id = 0 /\ job \in Jobs /\ job.op = "none"
  BY <1>1, IdleIsAJob DEF Records
<1>4. Shape
  <2>1. TypeOK
    <3>1. now \in Start..MaxTime /\ count \in 0..MaxCommands /\ sent.id \in 0..count
      BY <1>1, <1>3, GraspAssumption DEF GraspAssumption
    <3>. QED  BY <1>1, <3>1 DEF TypeOK
  <2>2. flight \in Seq(Requests)  BY <1>1
  <2>. QED  BY <1>1, <1>2, <1>3, <2>1, <2>2 DEF Shape
<1>5. Len(flight) = 0  BY <1>1
<1>6. Queue  BY <1>5 DEF Queue
<1>7. Told  BY <1>1, <1>2 DEF Told
<1>8. Ordered  BY <1>1 DEF Ordered, Follows
<1>9. Sent  BY <1>1, <1>3 DEF Sent
<1>10. Chained  BY <1>1, <1>3, <1>5 DEF Chained
<1>11. Settled  BY <1>1, <1>2 DEF Settled
<1>. QED  BY <1>4, <1>6, <1>7, <1>8, <1>9, <1>10, <1>11 DEF Inv

LEMMA NextInv == Inv /\ [Next]_vars => Inv'
BY TickKeepsInv, RecordKeepsInv, VerifyBeginsKeepsInv, DeliverKeepsInv, RestartKeepsInv,
   PublishKeepsInv, ApplyKeepsInv, CommandKeepsInv, ConfirmLookKeepsInv
DEF Next, TickStep

\* The samples come in the order of the commands, and what passes for the newest command's
\* is newer than what was seen of the one before.
THEOREM Invariance == Spec => []Inv
  BY InitInv, NextInv, PTL DEF Spec

\* A tick that waits has no outcome yet, and what is recorded is of a command of this run
\* (end_effector_registry.cpp, recordSent, finish).
THEOREM TypeCorrect == Spec => []TypeOK
<1>1. Inv => TypeOK  BY DEF Inv, Shape
<1>. QED  BY <1>1, Invariance, PTL

LEMMA ConfirmsItsOwn ==
  Inv /\ [Next]_vars =>
    (~shown /\ shown' =>
       /\ wiring.client = "own" /\ wiring.topic = "own" /\ feed.by > 0
       /\ ~gap => feed.by = count)
<1> SUFFICES ASSUME Inv, [Next]_vars, ~shown, shown'
             PROVE  /\ wiring.client = "own" /\ wiring.topic = "own" /\ feed.by > 0
                    /\ ~gap => feed.by = count
  OBVIOUS
<1>1. ConfirmLook
  BY DEF Next, TickStep, TimePasses, DeadlinePasses, Discover, Accept, ConfirmBegins, Interrupted,
         VerifyJudge, GiveUp, Record, Command, VerifyBegins, Apply, Publish, Restart, Deliver,
         vars, record
<1>2. pc = "look" /\ feed # NoSample /\ ConfirmRefuses = "NONE" /\ ShowsThisCommand(feed)
  BY <1>1 DEF ConfirmLook
<1>. QED  BY <1>2, ShownIsThis

\* What confirm() takes for this command was applied by this device in this run, and it is
\* this command's, not an identical one before it, unless one before it was never confirmed
\* (end_effector_registry.cpp, confirm).
THEOREM ConfirmationIsOfThisCommand == Spec => ConfirmedIsThisCommand
  BY Invariance, ConfirmsItsOwn, PTL DEF Spec, ConfirmedIsThisCommand


-----------------------------------------------------------------------------
(* VerifyGrasp.                                                            *)

\* The check of a tool with one site succeeds on a reading that is OK: a failure has a
\* reason.
LEMMA JudgeSucceeds ==
  ASSUME NEW in, in.present, ~in.wrongId, ~in.malformed, in.site = 0, Sites(in) = {1},
         Judge(in).verdict # "WAIT", Judge(in).reason = "NONE"
  PROVE  Reading(in, 1, FALSE) = "OK"
<1> DEFINE k == Reading(in, 1, FALSE)
<1>1. Judge(in) = SingleSite(in, 1)
  <2>1. Judge(in) = Failure("CONTRACT_MISMATCH", 0) \/ Judge(in) = SingleSite(in, 1)
    BY DEF Judge
  <2>. QED  BY <2>1 DEF Failure
<1>2. SUFFICES ASSUME k # "OK" PROVE FALSE
  OBVIOUS
<1>3. k # "NONE" \/ ~IsFail(k)
  BY DEF IsFail, Reasons, Verdicts, ActuatorFailures, VerificationErrors, ContractFailures
<1>4. IsWait(k) => DeadlineReason(k) # "NONE"  BY DEF IsWait, DeadlineReason
<1>5. \/ SingleSite(in, 1) = StatusFailure(in)
      \/ IsFail(k) /\ SingleSite(in, 1) = Failure(k, 1)
      \/ IsWait(k) /\ SingleSite(in, 1) = Failure(DeadlineReason(k), 1)
      \/ SingleSite(in, 1) = Wait(1)
  BY <1>2 DEF SingleSite
<1> HIDE DEF k
<1>. QED  BY <1>1, <1>3, <1>4, <1>5 DEF StatusFailure, Failure, Wait

\* A reading that is OK is of a command the runner sent, if it sent one, and of an
\* observation made after it.
LEMMA ReadsOK ==
  ASSUME NEW in, Reading(in, 1, FALSE) = "OK"
  PROVE  Reflects(in, 1) /\ Fresh(in, 1)
BY DEF Reading

LEMMA VerdictRestsOnThis ==
  Inv /\ [Next]_vars => (VerifySucceeds /\ sent.id = count /\ ~gap => feed.obs.by = count)
<1> SUFFICES ASSUME Inv, [Next]_vars, VerifySucceeds, sent.id = count, ~gap
             PROVE  feed.obs.by = count
  OBVIOUS
<1> DEFINE in == JudgeInput
<1>1. VerifyJudge
  <2>1. pc = "judge" /\ out = "NONE" /\ out' = "SUCCESS"  BY DEF VerifySucceeds, Inv, Shape, TypeOK
  <2>2. ~Interrupted
    BY <2>1 DEF Interrupted, Returns, Outcome, IsFault, ClassOf, Verdicts, ActuatorFailures
  <2>. QED
    BY <2>1, <2>2
    DEF Next, TickStep, TimePasses, DeadlinePasses, Discover, Accept, ConfirmBegins, GiveUp,
        Record, ConfirmLook, Command, VerifyBegins, Apply, Publish, Restart, Deliver, vars, tick
<1>2. Judge(in).verdict # "WAIT" /\ Judge(in).reason = "NONE"
  <2>1. ASSUME NEW r, Returns(r) PROVE r = "NONE"
    BY <2>1 DEF Returns, Outcome, VerifySucceeds
  <2>2. out = "NONE" /\ out' = "SUCCESS"  BY <1>1 DEF VerifySucceeds, VerifyJudge, Inv, Shape, TypeOK
  <2>3. \/ Judge(in).verdict # "WAIT" /\ Returns(Judge(in).reason)
        \/ Returns("STATE_STALE") \/ UNCHANGED tick
    BY <1>1 DEF VerifyJudge
  <2> HIDE DEF in
  <2>. QED  BY <2>1, <2>2, <2>3 DEF tick
<1>3. /\ in.present = (feed # NoSample) /\ in.wrongId = WrongId /\ in.malformed = Malformed
      /\ in.site = 0 /\ in.tol = Tol /\ Sites(in) = {1}
      /\ in.sent[1].known = sent.known /\ in.sent[1].stamp = sent.stamp
      /\ in.sent[1].prior = sent.prior
      /\ feed # NoSample =>
           in.entry[1].last = feed.last /\ in.entry[1].ref = feed.ref /\ in.entry[1].stamp = feed.obs.stamp
  BY DEF JudgeInput, Sites
<1> HIDE DEF in
<1>4. in.present /\ ~in.wrongId /\ ~in.malformed
  <2>1. ~in.present => Judge(in) \in {Failure("STATE_MISSING", 0), Wait(0)}  BY DEF Judge
  <2>2. in.present /\ in.wrongId => Judge(in) = Failure("WRONG_EEF", 0)  BY DEF Judge
  <2>3. in.present /\ ~in.wrongId /\ in.malformed => Judge(in) = Failure("CONTRACT_MISMATCH", 0)
    BY DEF Judge
  <2>. QED  BY <1>2, <2>1, <2>2, <2>3 DEF Failure, Wait
<1>5. Reflects(in, 1) /\ Fresh(in, 1)  BY <1>2, <1>3, <1>4, JudgeSucceeds, ReadsOK
<1>6. feed # NoSample /\ wiring.topic = "own"
  BY <1>3, <1>4, GraspAssumption
  DEF GraspAssumption, WiringType, WrongId, Malformed, Inv, Shape
<1>7. /\ feed \in Samples /\ feed \in Entries /\ feed.by \in Nat /\ feed.ref \in Int
      /\ feed.obs.by \in Nat /\ feed.obs.stamp \in Int /\ count \in Nat
  BY <1>6, GraspAssumption
  DEF GraspAssumption, Samples, Inv, Shape, TypeOK, Entries, Observations
<1>8. CASE count = 0  BY <1>7, <1>8 DEF Inv, Told
<1>9. CASE count > 0
  <2>1. /\ sent.known /\ sent.stamp >= Start /\ sent.stamp \in Int /\ sent.prior \in Int
        /\ Since(sent.prior)
    BY <1>6, <1>7, <1>9 DEF Inv, Sent, Chained, Shape, Records
  <2>2. /\ feed.last # "NONE" /\ feed.ref >= sent.stamp - Tol /\ feed.ref > sent.prior
        /\ feed.obs.stamp >= feed.ref
    BY <1>3, <1>5, <1>6, <2>1 DEF Reflects, Fresh, HasRef
  <2>3. feed.ref > 1
    BY <1>7, <2>1, <2>2, GraspAssumption DEF GraspAssumption
  <2>4. feed.by # 0  BY <1>7, <2>3 DEF Inv, Told
  <2>5. feed.by = count
    <3>1. feed.by \in {0, count - 1, count} /\ (feed.by = count - 1 /\ feed.by > 0 => feed.ref <= sent.prior)
      BY <1>7, <2>1 DEF Since
    <3>. QED  BY <1>7, <2>1, <2>2, <2>4, <3>1
  <2>6. feed.obs.by = feed.by \/ feed.obs.stamp < feed.ref  BY <1>7 DEF Inv, Told
  <2>. QED  BY <1>7, <2>2, <2>5, <2>6
<1>. QED  BY <1>7, <1>8, <1>9

\* VerifyGrasp succeeds only on an observation this device made after the newest command
\* this run sent it was applied, when the commands before were seen applied: the object of
\* the cycle before is never taken for this one's (verify_grasp.cpp, evalSite;
\* end_effector_registry.cpp, verify).
THEOREM VerdictIsOfThisGrasp == Spec => VerdictOfThisGrasp
  BY Invariance, VerdictRestsOnThis, PTL DEF Spec, VerdictOfThisGrasp

=============================================================================
