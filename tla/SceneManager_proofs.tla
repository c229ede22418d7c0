-------------------------- MODULE SceneManager_proofs --------------------------
(***************************************************************************)
(* Safety of the scene manager, for any set of objects, any of them boxes, *)
(* and any number of events and of requests that move_group has not        *)
(* handled.                                                                *)
(***************************************************************************)
EXTENDS SceneManager, SequenceTheorems, TLAPS

\* The objects a request says anything of.
Touches(r) == r.attach \cup r.detach \cup r.add \cup r.remove

EntryJobs == {"graspAcm", "checkAcm"}

\* The handler: what its job works on, and which job may run before the scene is loaded.
Account ==
  /\ pc = "idle" => job = "load"
  /\ pc = "fetch" => job \in AcmJobs
  /\ loaded => ~timer
  /\ ~loaded => offset = {}
  /\ pc # "idle" =>
       /\ loaded <=> job \notin {"load", "loadAcm"}
       /\ ~timer
       /\ job \in {"load", "grasp", "reset"} => batch = Objects
       /\ job = "release" => batch = offset
       /\ job \in {"releaseAcm", "resetAcm"} => offset = {}

\* The request that is waited for: the last of the queue, until it is handled.
Awaited ==
  /\ pc = "answer" /\ queue # <<>> => answer = "none" /\ queue[Len(queue)] = Request
  /\ \A i \in 1..Len(queue) :
       ~(pc = "answer" /\ i = Len(queue)) => Touches(queue[i]) \subseteq doubt

\* What the current request may have changed of the objects that are attached, and of the
\* world.
HeldTouched  == IF pc = "answer" THEN Request.attach \cup Request.detach ELSE {}
WorldTouched == IF pc = "answer" THEN Touches(Request) ELSE {}

\* An answer that accepts the request says that all of it is in the scene, but for what a
\* re-assertion has put back since.
Accepted ==
  pc = "answer" /\ answer = "OK" =>
    LET r == Request IN
      /\ r.attach \subseteq held /\ held \cap r.detach = {}
      /\ r.add \subseteq world /\ world \cap (r.attach \cup r.remove) \subseteq ghosts
      /\ r.acm # NoMatrix => matrix = r.acm

\* The account is the scene's, but for what is in doubt or being changed.
View ==
  \A o \in Boxes \ (doubt \cup HeldTouched) : o \in attached <=> o \in held

Place ==
  loaded \/ job = "loadAcm" =>
    \A o \in Objects \ (doubt \cup ghosts \cup WorldTouched) : o \in offset <=> o \notin world

\* The entries a matrix has for the boxes that are held.
Follows(m) == \A o \in attached : m.pair[o] = IF flag THEN "checked" ELSE "allowed"

\* ... are those of the flag in the matrix a handler is about to apply for it, and in the
\* scene's after it was, with no older matrix on its way.
Entered ==
  /\ job \in EntryJobs /\ pc \in {"apply", "answer"} => Follows(acm)
  /\ ~acmDoubt /\ attached # {} /\ job \notin EntryJobs =>
       Follows(matrix) /\ \A i \in 1..Len(queue) : queue[i].acm = NoMatrix

Inv == TypeOK /\ Account /\ Awaited /\ Accepted /\ View /\ Place /\ Entered

-----------------------------------------------------------------------------
(* Requests, matrices and what move_group makes of them.                   *)

\* An edited matrix is one, and has the entries the flag asks for.
LEMMA EditedTypes ==
  ASSUME NEW m \in Matrices, TypeOK
  PROVE  /\ Edited(m) \in Matrices
         /\ job \in EntryJobs => Follows(Edited(m))
<1>1. CASE job \in {"loadAcm", "resetAcm"}
  <2>1. Edited(m) = [m EXCEPT !.default = @ \cup Objects]  BY <1>1 DEF Edited
  <2>. QED  BY <1>1, <2>1 DEF Matrices, EntryJobs
<1>2. CASE job = "releaseAcm"
  <2>1. Edited(m) = [default |-> m.default \cup batch,
                     pair |-> [o \in Objects |-> IF o \in batch THEN "allowed" ELSE m.pair[o]]]
    BY <1>2 DEF Edited
  <2>. QED  BY <1>2, <2>1 DEF Matrices, EntryJobs, TypeOK, Entries
<1>3. CASE job \notin {"loadAcm", "resetAcm", "releaseAcm"}
  <2>1. Edited(m) = [default |-> m.default \cup attached,
                     pair |-> [o \in Objects |->
                                IF o \notin attached THEN m.pair[o]
                                ELSE IF flag THEN "checked" ELSE "allowed"]]
    BY <1>3 DEF Edited
  <2>2. attached \subseteq Objects  BY DEF TypeOK
  <2> DEFINE pair == [o \in Objects |->
                       IF o \notin attached THEN m.pair[o] ELSE IF flag THEN "checked" ELSE "allowed"]
  <2>3. pair \in [Objects -> Entries]  BY DEF Matrices, Entries
  <2>4. m.default \cup attached \in SUBSET Objects  BY <2>2 DEF Matrices
  <2>5. Edited(m).pair = pair /\ Edited(m) \in Matrices  BY <2>1, <2>3, <2>4 DEF Matrices
  <2>6. \A o \in attached : pair[o] = IF flag THEN "checked" ELSE "allowed"  BY <2>2
  <2>. QED  BY <2>5, <2>6 DEF Follows
<1>. QED  BY <1>1, <1>2, <1>3

LEMMA NoMatrixType == NoMatrix \in Matrices
BY DEF NoMatrix, Matrices, Entries

\* What each job asks for.
LEMMA RequestShape ==
  /\ job = "load"    => Request = [Nothing EXCEPT !.add = Objects]
  /\ job = "grasp"   => Request = [Nothing EXCEPT !.attach = Boxes, !.remove = Objects \ Boxes]
  /\ job = "release" => Request = [Nothing EXCEPT !.detach = batch \cap attached, !.add = batch]
  /\ job = "reset"   => Request = [Nothing EXCEPT !.detach = attached, !.add = Objects]
  /\ job \in AcmJobs => Request = [Nothing EXCEPT !.acm = acm]
BY DEF Request, AcmJobs

\* A request is of its batch, and no part of it undoes another.
LEMMA RequestTypes ==
  ASSUME TypeOK, Account, pc # "idle"
  PROVE  /\ Request \in Requests
         /\ Touches(Request) \subseteq (IF job \in AcmJobs THEN {} ELSE batch)
         /\ job \notin AcmJobs => Request.acm = NoMatrix
         /\ Request.add \cap (Request.attach \cup Request.remove) = {}
         /\ Request.detach \cap (Request.attach \cup Request.remove) = {}
         /\ Request.remove \cup Request.attach # {} => job = "grasp"
<1> USE SceneAssumption, NoMatrixType, RequestShape
    DEF TypeOK, Account, Requests, Nothing, Touches
<1>1. CASE job = "load"  BY <1>1 DEF AcmJobs
<1>2. CASE job = "grasp"  BY <1>2 DEF AcmJobs
<1>3. CASE job = "release"
  <2>1. batch \cap attached \in SUBSET Objects /\ batch \in SUBSET Objects  OBVIOUS
  <2>2. Request = [attach |-> {}, detach |-> batch \cap attached, add |-> batch, remove |-> {}, acm |-> NoMatrix]
    BY <1>3
  <2>. QED  BY <1>3, <2>1, <2>2 DEF AcmJobs
<1>4. CASE job = "reset"
  <2>1. attached \in SUBSET Objects  OBVIOUS
  <2>2. Request = [attach |-> {}, detach |-> attached, add |-> Objects, remove |-> {}, acm |-> NoMatrix]
    BY <1>4
  <2>. QED  BY <1>4, <2>1, <2>2 DEF AcmJobs
<1>5. CASE job \in AcmJobs  BY <1>5
<1>. QED  BY <1>1, <1>2, <1>3, <1>4, <1>5 DEF Jobs

\* What is left of a request that was handled in part.
Parts(r) == {r, [r EXCEPT !.attach = {}], Nothing}

\* A part of a request leaves alone what the request does not touch.
LEMMA PartsTouch ==
  ASSUME TypeOK, NEW r \in Requests, NEW p \in Parts(r), Applied(p)
  PROVE  /\ world' \subseteq Objects /\ held' \subseteq Boxes /\ matrix' \in Matrices
         /\ \A o \in Objects \ Touches(r) : o \in world' <=> o \in world
         /\ \A o \in Objects \ (r.attach \cup r.detach) : o \in held' <=> o \in held
         /\ r.acm = NoMatrix => matrix' = matrix
<1>1. /\ p \in Requests /\ p.attach \subseteq r.attach /\ p.detach \subseteq r.detach
      /\ p.add \subseteq r.add /\ p.remove \subseteq r.remove /\ p.acm \in {r.acm, NoMatrix}
  BY NoMatrixType DEF Parts, Requests, Nothing
<1>2. p.attach \subseteq Boxes /\ p.add \subseteq Objects /\ p.acm \in Matrices /\ Boxes \subseteq Objects
  BY <1>1, SceneAssumption DEF Requests
<1>3. /\ held' = (held \cup p.attach) \ p.detach
      /\ world' = ((world \ p.attach) \cup (p.detach \cap held) \cup p.add) \ p.remove
      /\ matrix' = (IF p.acm = NoMatrix THEN matrix ELSE p.acm)
  BY DEF Applied
<1>4. held \subseteq Boxes /\ world \subseteq Objects /\ matrix \in Matrices  BY DEF TypeOK
<1>5. world' \subseteq Objects /\ held' \subseteq Boxes  BY <1>2, <1>3, <1>4
<1>6. matrix' \in Matrices /\ (r.acm = NoMatrix => matrix' = matrix)  BY <1>1, <1>2, <1>3, <1>4
<1>7. \A o \in Objects \ Touches(r) : o \in world' <=> o \in world  BY <1>1, <1>3 DEF Touches
<1>8. \A o \in Objects \ (r.attach \cup r.detach) : o \in held' <=> o \in held  BY <1>1, <1>3
<1>. QED  BY <1>5, <1>6, <1>7, <1>8

\* All of a request does what Accepted says.
LEMMA AllApplied ==
  ASSUME NEW r \in Requests, Applied(r),
         r.add \cap (r.attach \cup r.remove) = {},
         r.detach \cap (r.attach \cup r.remove) = {}
  PROVE  /\ r.attach \subseteq held' /\ held' \cap r.detach = {}
         /\ r.add \subseteq world' /\ world' \cap (r.attach \cup r.remove) = {}
         /\ r.acm # NoMatrix => matrix' = r.acm
BY DEF Applied, Requests

-----------------------------------------------------------------------------
(* The invariant.                                                          *)

LEMMA InitInv == Init => Inv
<1> SUFFICES ASSUME Init PROVE Inv
  OBVIOUS
<1>1. Len(queue) = 0 /\ queue \in Seq(Requests)  BY EmptySeq DEF Init
<1>2. TypeOK
  <2>1. /\ pc = "idle" /\ job \in Jobs /\ answer = "none" /\ command = "none"
        /\ batch = {} /\ attached = {} /\ offset = {} /\ forced = {} /\ diff = {}
        /\ world \subseteq Objects /\ held \subseteq Boxes /\ doubt = held
        /\ acm = NoMatrix /\ matrix = NoMatrix
    BY DEF Init, Jobs
  <2>2. events \in 0..MaxEvents /\ Len(queue) <= MaxRequests
    BY <1>1, SceneAssumption DEF Init
  <2>3. {timer, loaded, closed, flag, reasserts, pulse, acmDoubt} \subseteq BOOLEAN
    BY DEF Init
  <2>. QED  BY <1>1, <2>1, <2>2, <2>3, NoMatrixType, SceneAssumption DEF TypeOK
<1>3. Account /\ Accepted /\ Awaited  BY <1>1 DEF Init, Account, Accepted, Awaited
<1>4. View /\ Place /\ Entered
  BY DEF Init, View, Place, Entered, HeldTouched, EntryJobs
<1>. QED  BY <1>2, <1>3, <1>4 DEF Inv

\* A step that leaves the handler, the scene and the queue alone.
LEMMA QuietInv ==
  ASSUME Inv, TypeOK', timer' => timer, flag' = flag \/ attached = {},
         UNCHANGED <<pc, job, batch, acm, answer, loaded, attached, offset, scene, queue, history>>
  PROVE  Inv'
<1>1. UNCHANGED <<world, held, matrix, doubt, acmDoubt, ghosts>>  BY DEF scene, history
<1>2. Request' = Request  BY DEF Request
<1>3. Account' /\ Awaited' /\ Accepted'
  BY <1>1, <1>2 DEF Inv, Account, Awaited, Accepted
<1>4. View' /\ Place' /\ Entered'
  BY <1>1, <1>2 DEF Inv, View, Place, Entered, HeldTouched, WorldTouched, Follows
<1>. QED  BY <1>3, <1>4 DEF Inv

\* A handler that begins: its job is of the loaded scene, or loads it.
LEMMA StartInv ==
  ASSUME Inv, TypeOK', pc = "idle", NEW j \in Jobs, NEW b \in SUBSET Objects, Start(j, b),
         ~timer', loaded <=> j \notin {"load", "loadAcm"}, j # "loadAcm",
         j \in {"load", "grasp", "reset"} => b = Objects,
         j = "release" => b = offset,
         j \notin {"releaseAcm", "resetAcm"},
         flag' = flag \/ attached = {} \/ j \in EntryJobs,
         world' = world \/ ~loaded,
         UNCHANGED <<loaded, attached, offset, held, matrix, queue, history>>
  PROVE  Inv'
<1>1. /\ pc' = (IF j \in AcmJobs THEN "fetch" ELSE "apply") /\ job' = j /\ batch' = b
      /\ UNCHANGED <<doubt, acmDoubt, ghosts>>
  BY DEF Start, history
<1>2. Account'  BY <1>1 DEF Inv, Account
<1>3. Awaited' /\ Accepted'  BY <1>1 DEF Inv, Awaited, Accepted
<1>4. View'  BY <1>1 DEF Inv, View, HeldTouched
<1>5. Place'  BY <1>1 DEF Inv, Place, WorldTouched
<1>6. Entered'  BY <1>1 DEF Inv, Account, Entered, Follows, EntryJobs, AcmJobs
<1>. QED  BY <1>2, <1>3, <1>4, <1>5, <1>6 DEF Inv

\* A job that was not applied puts what its request may have changed in doubt.
LEMMA NotAppliedInv ==
  ASSUME Inv, pc # "idle", NotApplied, UNCHANGED <<fixed, scene, traffic>>,
         doubt \subseteq doubt', doubt' \subseteq Objects,
         pc = "answer" => job \in AcmJobs \/ batch \subseteq doubt',
         job = "load" => doubt' = Objects
  PROVE  Inv'
<1>1. /\ UNCHANGED <<closed, flag, attached, offset, forced, ghosts, timer, reasserts, world, held,
                     matrix, queue, diff, command, events>>
      /\ acmDoubt' = (acmDoubt \/ job \in EntryJobs)
  BY DEF NotApplied, fixed, scene, traffic, EntryJobs
<1>2. \/ /\ job = "load" /\ pc' = "fetch" /\ job' = "loadAcm" /\ batch' = Objects /\ acm' = NoMatrix
         /\ answer' = "none" /\ UNCHANGED <<loaded, pulse>>
      \/ /\ job # "load" /\ pc' = "idle" /\ job' = "load" /\ batch' = {} /\ acm' = NoMatrix
         /\ answer' = "none" /\ loaded' = (loaded \/ job = "loadAcm")
         /\ pulse' = (pulse \/ job = "resetAcm")
  BY DEF NotApplied, Start, End, AcmJobs
<1>3. TypeOK'
  <2>1. loaded' \in BOOLEAN /\ pulse' \in BOOLEAN /\ acmDoubt' \in BOOLEAN
    BY <1>1, <1>2 DEF Inv, TypeOK
  <2>. QED
    BY <1>1, <1>2, <2>1, NoMatrixType DEF Inv, TypeOK, Jobs, AcmJobs
<1>4. Account'
  <2>1. CASE job = "load"
    BY <1>1, <1>2, <2>1 DEF Inv, Account, AcmJobs
  <2>2. CASE job # "load"
    <3>1. loaded => loaded'  BY <1>2, <2>2
    <3>. QED  BY <1>1, <1>2, <2>2, <3>1 DEF Inv, Account
  <2>. QED  BY <2>1, <2>2
<1>5. Touches(Request) \subseteq doubt' \/ pc # "answer"
  BY RequestTypes DEF Inv
<1>6. Awaited' /\ Accepted'
  BY <1>1, <1>2, <1>5 DEF Inv, Awaited, Accepted
<1>7. View'
  <2>1. HeldTouched \subseteq doubt'  BY <1>5 DEF HeldTouched, Touches
  <2>. QED  BY <1>1, <1>2, <2>1 DEF Inv, View, HeldTouched
<1>8. Place'
  <2>1. WorldTouched \subseteq doubt'  BY <1>5 DEF WorldTouched
  <2>. QED  BY <1>1, <1>2, <2>1 DEF Inv, Place, WorldTouched
<1>9. Entered'  BY <1>1, <1>2 DEF Inv, Entered, Follows, EntryJobs
<1>. QED  BY <1>3, <1>4, <1>6, <1>7, <1>8, <1>9 DEF Inv

\* What is sent is waited for; what was given up before it is in doubt.
LEMMA SendInv == Inv /\ SendRequest => Inv'
<1> SUFFICES ASSUME Inv, SendRequest PROVE Inv'
  OBVIOUS
<1>1. /\ pc = "apply" /\ pc' = "answer" /\ answer' = "none" /\ queue' = Append(queue, Request)
      /\ Len(queue) < MaxRequests
      /\ UNCHANGED <<loaded, closed, flag, attached, offset, forced, job, batch, acm, timer, reasserts,
                     pulse, world, held, matrix, diff, command, events, doubt, acmDoubt, ghosts>>
  BY DEF SendRequest, account, fixed, scene, history
<1>2. Request' = Request  BY <1>1 DEF Request
<1>3. /\ Request \in Requests
      /\ job \notin AcmJobs => Request.acm = NoMatrix
  BY <1>1, RequestTypes DEF Inv
<1>4. /\ queue' \in Seq(Requests) /\ queue' # <<>> /\ Len(queue') = Len(queue) + 1
      /\ \A i \in 1..Len(queue) : queue'[i] = queue[i]
      /\ queue'[Len(queue')] = Request /\ Len(queue) \in Nat
  <2>1. queue \in Seq(Requests)  BY DEF Inv, TypeOK
  <2> DEFINE r == Request
  <2>2. r \in Requests  BY <1>3
  <2> HIDE DEF r
  <2>3. /\ Append(queue, r) \in Seq(Requests) /\ Append(queue, r) # <<>>
        /\ Len(Append(queue, r)) = Len(queue) + 1
        /\ \A i \in 1..Len(queue) : Append(queue, r)[i] = queue[i]
        /\ Append(queue, r)[Len(queue) + 1] = r
    BY <2>1, <2>2, AppendProperties
  <2>4. Len(queue) \in Nat  BY <2>1, LenProperties
  <2>5. queue' = Append(queue, r)  BY <1>1 DEF r
  <2>. QED  BY <2>3, <2>4, <2>5 DEF r
<1>5. TypeOK'  BY <1>1, <1>4, SceneAssumption DEF Inv, TypeOK
<1>6. Account'  BY <1>1 DEF Inv, Account
<1>7. Awaited' /\ Accepted'  BY <1>1, <1>2, <1>4 DEF Inv, Awaited, Accepted
<1>8. View' /\ Place'
  BY <1>1 DEF Inv, View, Place, HeldTouched, WorldTouched
<1>9. Entered'
  <2>1. job \in EntryJobs => Follows(acm)'  BY <1>1 DEF Inv, Entered, Follows
  <2>2. CASE ~acmDoubt /\ attached # {} /\ job \notin EntryJobs
    <3>1. job \notin AcmJobs
      BY <1>1, <2>2 DEF Inv, TypeOK, Account, AcmJobs, EntryJobs
    <3>. QED  BY <1>1, <1>3, <1>4, <2>1, <2>2, <3>1 DEF Inv, Entered, Follows
  <2>3. CASE ~(~acmDoubt /\ attached # {} /\ job \notin EntryJobs)
    BY <1>1, <2>1, <2>3 DEF Entered
  <2>. QED  BY <2>2, <2>3
<1>. QED  BY <1>5, <1>6, <1>7, <1>8, <1>9 DEF Inv

\* move_group handles the oldest request: one that was given up touches what is in doubt,
\* and the one that is waited for what View and Place leave out until its answer.
LEMMA GroupInv == Inv /\ GroupHandles => Inv'
<1> SUFFICES ASSUME Inv, GroupHandles PROVE Inv'
  OBVIOUS
<1> DEFINE r == Head(queue)
<1>1. /\ queue # <<>> /\ queue' = Tail(queue)
      /\ UNCHANGED <<loaded, closed, flag, attached, offset, forced, pc, job, batch, acm, timer, reasserts,
                     pulse, diff, command, events, doubt, acmDoubt, ghosts>>
  BY DEF GroupHandles, account, fixed, history
<1>2. /\ r \in Requests /\ r = queue[1] /\ Len(queue) \in Nat /\ Len(queue) >= 1
      /\ queue' \in Seq(Requests) /\ Len(queue') = Len(queue) - 1
      /\ \A i \in 1..Len(queue') : queue'[i] = queue[i + 1]
      /\ Len(queue) = 1 => queue' = <<>>
  <2>1. queue \in Seq(Requests) /\ queue # <<>>  BY <1>1 DEF Inv, TypeOK
  <2>2. /\ r \in Requests /\ Tail(queue) \in Seq(Requests) /\ Len(Tail(queue)) = Len(queue) - 1
        /\ \A i \in 1..Len(Tail(queue)) : Tail(queue)[i] = queue[i + 1]
    BY <2>1, HeadTailProperties
  <2>3. Len(queue) \in Nat /\ Len(queue) # 0 /\ r = queue[1]  BY <2>1, LenProperties, EmptySeq
  <2>. QED  BY <1>1, <2>1, <2>2, <2>3
<1>3. PICK p \in Parts(r) :
        /\ Applied(p)
        /\ \/ UNCHANGED answer
           \/ /\ pc = "answer" /\ Len(queue) = 1
              /\ answer' \in {"OK", "FAILURE"}
              /\ answer' = "OK" => p = r /\ r.remove \subseteq world
  BY DEF GroupHandles, Parts
<1> HIDE DEF r
<1>4. Request' = Request  BY <1>1 DEF Request
<1>5. pc = "answer" /\ Len(queue) = 1 => r = Request /\ answer = "none"
  BY <1>1, <1>2 DEF Inv, Awaited
<1>6. ~(pc = "answer" /\ Len(queue) = 1) => Touches(r) \subseteq doubt
  BY <1>2 DEF Inv, Awaited
<1>7. TypeOK'
  <2>1. world' \subseteq Objects /\ held' \subseteq Boxes /\ matrix' \in Matrices
    BY <1>2, <1>3, PartsTouch DEF Inv
  <2>2. answer' \in {"none", "OK", "FAILURE"}  BY <1>3 DEF Inv, TypeOK
  <2>3. Len(queue') <= MaxRequests  BY <1>2, SceneAssumption DEF Inv, TypeOK
  <2>. QED  BY <1>1, <1>2, <2>1, <2>2, <2>3 DEF Inv, TypeOK
<1>8. Account'  BY <1>1 DEF Inv, Account
<1>9. Awaited'
  <2>1. CASE pc = "answer" /\ Len(queue) = 1
    BY <1>2, <2>1 DEF Awaited
  <2>2. CASE ~(pc = "answer" /\ Len(queue) = 1)
    <3>1. answer' = answer  BY <1>3, <2>2
    <3>2. ASSUME pc = "answer", queue' # <<>>
          PROVE  answer' = "none" /\ queue'[Len(queue')] = Request
      <4>1. answer = "none" /\ queue[Len(queue)] = Request  BY <1>1, <3>2 DEF Inv, Awaited
      <4>2. Len(queue) # 1  BY <2>2, <3>2
      <4>3. Len(queue') \in 1..Len(queue') /\ Len(queue') + 1 = Len(queue)  BY <1>2, <4>2
      <4>. QED  BY <1>2, <3>1, <4>1, <4>3
    <3>3. ASSUME NEW i \in 1..Len(queue'), ~(pc = "answer" /\ i = Len(queue'))
          PROVE  Touches(queue'[i]) \subseteq doubt
      <4>1. /\ i + 1 \in 1..Len(queue) /\ queue'[i] = queue[i + 1]
            /\ ~(pc = "answer" /\ i + 1 = Len(queue))
        BY <1>2, <3>3
      <4>. QED  BY <4>1 DEF Inv, Awaited
    <3>. QED  BY <1>1, <1>4, <3>2, <3>3 DEF Awaited
  <2>. QED  BY <2>1, <2>2
<1>10. Accepted'
  <2>1. CASE pc = "answer" /\ answer' = "OK"
    <3>1. answer # "OK"  BY <1>1, <2>1 DEF Inv, Awaited
    <3>2. p = r /\ r = Request  BY <1>3, <1>5, <2>1, <3>1
    <3>3. Applied(r)  BY <1>3, <3>2
    <3>4. /\ r.add \cap (r.attach \cup r.remove) = {}
          /\ r.detach \cap (r.attach \cup r.remove) = {}
      BY <2>1, <3>2, RequestTypes DEF Inv
    <3>5. /\ r.attach \subseteq held' /\ held' \cap r.detach = {}
          /\ r.add \subseteq world' /\ world' \cap (r.attach \cup r.remove) = {}
          /\ r.acm # NoMatrix => matrix' = r.acm
      BY <1>2, <3>3, <3>4, AllApplied
    <3>6. r = Request'  BY <1>4, <3>2
    <3>. QED  BY <3>5, <3>6 DEF Accepted
  <2>2. CASE ~(pc = "answer" /\ answer' = "OK")
    BY <1>1, <2>2 DEF Accepted
  <2>. QED  BY <2>1, <2>2
<1>11. View'
  <2>1. ASSUME NEW o \in Boxes, o \notin doubt, o \notin HeldTouched
        PROVE  o \in held' <=> o \in held
    <3>1. o \notin r.attach \cup r.detach
      BY <1>5, <1>6, <2>1 DEF HeldTouched, Touches
    <3>. QED  BY <1>2, <1>3, <2>1, <3>1, PartsTouch, SceneAssumption DEF Inv
  <2>2. HeldTouched' = HeldTouched  BY <1>1, <1>4 DEF HeldTouched
  <2>. QED  BY <1>1, <2>1, <2>2 DEF Inv, View
<1>12. Place'
  <2>1. ASSUME NEW o \in Objects, o \notin doubt, o \notin WorldTouched
        PROVE  o \in world' <=> o \in world
    <3>1. o \notin Touches(r)  BY <1>5, <1>6, <2>1 DEF WorldTouched
    <3>. QED  BY <1>2, <1>3, <2>1, <3>1, PartsTouch DEF Inv
  <2>2. WorldTouched' = WorldTouched  BY <1>1, <1>4 DEF WorldTouched
  <2>. QED  BY <1>1, <2>1, <2>2 DEF Inv, Place
<1>13. Entered'
  <2>1. (job \in EntryJobs /\ pc \in {"apply", "answer"} => Follows(acm))'
    BY <1>1 DEF Inv, Entered, Follows
  <2>2. CASE ~acmDoubt /\ attached # {} /\ job \notin EntryJobs
    <3>1. r.acm = NoMatrix  BY <1>2, <2>2 DEF Inv, Entered
    <3>2. matrix' = matrix  BY <1>2, <1>3, <3>1, PartsTouch DEF Inv
    <3>3. \A i \in 1..Len(queue') : queue'[i].acm = NoMatrix
      BY <1>2, <2>2 DEF Inv, Entered
    <3>. QED  BY <1>1, <2>1, <2>2, <3>2, <3>3 DEF Inv, Entered, Follows
  <2>3. CASE ~(~acmDoubt /\ attached # {} /\ job \notin EntryJobs)
    BY <1>1, <2>1, <2>3 DEF Entered
  <2>. QED  BY <2>2, <2>3
<1>. QED  BY <1>7, <1>8, <1>9, <1>10, <1>11, <1>12, <1>13 DEF Inv

\* A re-assertion puts its objects into the world: those the account has off it are ghosts.
LEMMA DiffInv == Inv /\ DiffArrives => Inv'
<1> SUFFICES ASSUME Inv, DiffArrives PROVE Inv'
  OBVIOUS
<1>1. /\ diff' = {} /\ world' = world \cup diff
      /\ ghosts' = ghosts \cup (diff \cap (offset \cup (IF job = "grasp" THEN batch ELSE {})))
      /\ UNCHANGED <<loaded, closed, flag, attached, offset, forced, pc, job, batch, acm, answer, timer,
                     reasserts, pulse, held, matrix, queue, command, events, doubt, acmDoubt>>
  BY DEF DiffArrives, account, handler, fixed
<1>2. Request' = Request  BY <1>1 DEF Request
<1>3. TypeOK'  BY <1>1 DEF Inv, TypeOK
<1>4. Account' /\ Awaited'  BY <1>1, <1>2 DEF Inv, Account, Awaited
<1>5. Accepted'
  <2>1. pc = "answer" /\ Request.attach \cup Request.remove # {} => diff \subseteq ghosts'
    BY <1>1, RequestTypes DEF Inv, TypeOK, Account
  <2>. QED  BY <1>1, <1>2, <2>1 DEF Inv, Accepted
<1>6. View' /\ Entered'
  BY <1>1, <1>2 DEF Inv, View, Entered, HeldTouched, Follows
<1>7. Place'
  <2>1. WorldTouched' = WorldTouched  BY <1>1, <1>2 DEF WorldTouched
  <2>2. \A o \in diff \ ghosts' : o \notin offset  BY <1>1
  <2>. QED  BY <1>1, <2>1, <2>2 DEF Inv, Place
<1>. QED  BY <1>3, <1>4, <1>5, <1>6, <1>7 DEF Inv

\* The matrix that was fetched is edited for what is held.
LEMMA FetchInv == Inv /\ FetchAcm => Inv'
<1> SUFFICES ASSUME Inv, FetchAcm PROVE Inv'
  OBVIOUS
<1>1. /\ pc = "fetch" /\ pc' = "apply" /\ acm' = Edited(matrix)
      /\ UNCHANGED <<loaded, closed, flag, attached, offset, forced, job, batch, answer, timer, reasserts,
                     pulse, world, held, matrix, queue, diff, command, events, doubt, acmDoubt, ghosts>>
  BY DEF FetchAcm, account, fixed, scene, traffic, history
<1>2. Edited(matrix) \in Matrices /\ (job \in EntryJobs => Follows(Edited(matrix)))
  BY EditedTypes DEF Inv, TypeOK
<1>3. TypeOK'  BY <1>1, <1>2 DEF Inv, TypeOK
<1>4. Account' /\ Awaited' /\ Accepted'  BY <1>1 DEF Inv, Account, Awaited, Accepted
<1>5. View' /\ Place'  BY <1>1 DEF Inv, View, Place, HeldTouched, WorldTouched
<1>6. Entered'  BY <1>1, <1>2 DEF Inv, Entered, Follows
<1>. QED  BY <1>3, <1>4, <1>5, <1>6 DEF Inv

\* An accepted request is in the scene when the account takes it over.
LEMMA CommitInv == Inv /\ Commit => Inv'
<1> SUFFICES ASSUME Inv, Commit PROVE Inv'
  OBVIOUS
<1>1. /\ pc = "answer" /\ answer = "OK"
      /\ UNCHANGED <<timer, reasserts, world, held, matrix, queue, diff, command, events>>
  BY DEF Commit, fixed, scene, traffic
<1>2. queue = <<>>  BY <1>1 DEF Inv, Awaited
<1>3. Len(queue) = 0  BY <1>2, EmptySeq
<1>4. ~timer /\ Boxes \subseteq Objects /\ attached = offset \cap Boxes /\ offset \subseteq Objects
  BY <1>1, SceneAssumption DEF Inv, Account, TypeOK
<1>5. /\ Request.attach \subseteq held /\ held \cap Request.detach = {}
      /\ Request.add \subseteq world /\ world \cap (Request.attach \cup Request.remove) \subseteq ghosts
      /\ Request.acm # NoMatrix => matrix = Request.acm
  BY <1>1 DEF Inv, Accepted
<1>6. ASSUME pc' # "answer" PROVE Awaited' /\ Accepted'
  BY <1>1, <1>3, <1>6 DEF Awaited, Accepted
<1>7. HeldTouched = Request.attach \cup Request.detach /\ WorldTouched = Touches(Request)
  BY <1>1 DEF HeldTouched, WorldTouched
<1>8. CASE CommitLoad
  <2>1. /\ job = "load" /\ pc' = "fetch" /\ job' = "loadAcm" /\ batch' = Objects /\ acm' = NoMatrix
        /\ answer' = "none"
        /\ UNCHANGED <<loaded, closed, flag, attached, offset, forced, pulse, doubt, acmDoubt, ghosts>>
    BY <1>8 DEF CommitLoad, Start, AcmJobs, account, history
  <2>2. Request = [attach |-> {}, detach |-> {}, add |-> Objects, remove |-> {}, acm |-> NoMatrix]
    BY <2>1, RequestShape DEF Nothing
  <2>3. ~loaded /\ offset = {} /\ attached = {}  BY <1>1, <1>4, <2>1 DEF Inv, Account
  <2>4. TypeOK'  BY <1>1, <2>1, NoMatrixType DEF Inv, TypeOK, Jobs, AcmJobs
  <2>5. Account'  BY <1>1, <1>4, <2>1, <2>3 DEF Account, AcmJobs
  <2>6. View'  BY <1>1, <1>7, <2>1, <2>2 DEF Inv, View, HeldTouched
  <2>7. Place'  BY <1>1, <1>5, <2>1, <2>2, <2>3 DEF Place
  <2>8. Entered'  BY <2>1, <2>3 DEF Entered
  <2>. QED  BY <1>6, <2>1, <2>4, <2>5, <2>6, <2>7, <2>8 DEF Inv
<1>9. CASE CommitGrasp
  <2>1. /\ job = "grasp" /\ batch = Objects /\ loaded
        /\ offset' = offset \cup batch /\ forced' = forced \ batch
        /\ attached' = attached \cup (batch \cap Boxes) /\ doubt' = doubt \ batch
        /\ acm' = NoMatrix /\ answer' = "none"
        /\ UNCHANGED <<closed, flag, acmDoubt, ghosts>>
    BY <1>1, <1>9 DEF CommitGrasp, Start, End, Inv, Account
  <2>2. \/ /\ Boxes # {} /\ pc' = "fetch" /\ job' = "graspAcm" /\ batch' = Objects
           /\ UNCHANGED <<loaded, pulse>>
        \/ Boxes = {} /\ pc' = "idle" /\ job' = "load" /\ batch' = {} /\ UNCHANGED <<loaded, pulse>>
    <3>1. batch \cap Boxes = Boxes  BY <1>4, <2>1
    <3>2. CASE Boxes # {}
      BY <1>9, <2>1, <3>1, <3>2 DEF CommitGrasp, Start, AcmJobs
    <3>3. CASE Boxes = {}
      <4>1. End(job)  BY <1>9, <3>1, <3>3 DEF CommitGrasp
      <4>2. loaded' = loaded  BY <2>1, <4>1 DEF End
      <4>3. pulse' = pulse  BY <2>1, <4>1 DEF End, Inv, TypeOK
      <4>. QED  BY <3>3, <4>1, <4>2, <4>3 DEF End
    <3>. QED  BY <3>2, <3>3
  <2>3. offset' = Objects /\ attached' = Boxes /\ forced' = {} /\ doubt' = {}
    BY <1>4, <2>1 DEF Inv, TypeOK
  <2>4. Request = [attach |-> Boxes, detach |-> {}, add |-> {}, remove |-> Objects \ Boxes, acm |-> NoMatrix]
    BY <2>1, RequestShape DEF Nothing
  <2>5. TypeOK'  BY <1>1, <1>4, <2>1, <2>2, <2>3, NoMatrixType DEF Inv, TypeOK, Jobs, AcmJobs
  <2>6. Account'  BY <1>1, <1>4, <2>1, <2>2 DEF Account, AcmJobs
  <2>7. View'  BY <1>1, <1>5, <2>3, <2>4 DEF View
  <2>8. Place'  BY <1>1, <1>5, <2>1, <2>3, <2>4 DEF Place
  <2>9. Entered'  BY <2>2, <2>3 DEF Entered, EntryJobs
  <2>. QED  BY <1>6, <2>2, <2>5, <2>6, <2>7, <2>8, <2>9 DEF Inv
<1>10. CASE CommitRelease
  <2>1. /\ job = "release" /\ batch = offset /\ loaded
        /\ offset' = offset \ batch /\ forced' = forced \cup batch /\ attached' = attached \ batch
        /\ doubt' = doubt \ batch /\ ghosts' = ghosts \ batch
        /\ pc' = "fetch" /\ job' = "releaseAcm" /\ batch' = batch /\ acm' = NoMatrix /\ answer' = "none"
        /\ UNCHANGED <<loaded, closed, flag, pulse, acmDoubt>>
    BY <1>1, <1>10 DEF CommitRelease, Start, AcmJobs, Inv, Account
  <2>2. offset' = {} /\ attached' = {}  BY <1>4, <2>1
  <2>3. Request = [attach |-> {}, detach |-> attached, add |-> offset, remove |-> {}, acm |-> NoMatrix]
    <3>1. batch \cap attached = attached  BY <1>4, <2>1
    <3>. QED  BY <2>1, <3>1, RequestShape DEF Nothing
  <2>4. TypeOK'  BY <1>1, <1>4, <2>1, <2>2, NoMatrixType DEF Inv, TypeOK, Jobs, AcmJobs
  <2>5. Account'  BY <1>1, <1>4, <2>1, <2>2 DEF Account, AcmJobs
  <2>6. View'  BY <1>1, <1>4, <1>5, <1>7, <2>1, <2>2, <2>3 DEF Inv, View
  <2>7. Place'
    <3>1. WorldTouched = offset /\ offset \subseteq world
      BY <1>4, <1>5, <1>7, <2>3 DEF Touches
    <3>. QED  BY <1>1, <2>1, <2>2, <3>1 DEF Inv, Place
  <2>8. Entered'  BY <2>1, <2>2 DEF Entered, EntryJobs
  <2>. QED  BY <1>6, <2>1, <2>4, <2>5, <2>6, <2>7, <2>8 DEF Inv
<1>11. CASE CommitReset
  <2>1. /\ job = "reset" /\ batch = Objects /\ loaded
        /\ offset' = offset \ batch /\ forced' = forced \cup batch /\ attached' = {}
        /\ doubt' = (doubt \cap Boxes) \ attached /\ ghosts' = ghosts \ batch
        /\ pc' = "fetch" /\ job' = "resetAcm" /\ batch' = batch /\ acm' = NoMatrix /\ answer' = "none"
        /\ UNCHANGED <<loaded, closed, flag, pulse, acmDoubt>>
    BY <1>1, <1>11 DEF CommitReset, Start, AcmJobs, Inv, Account
  <2>2. offset' = {}  BY <1>4, <2>1
  <2>3. Request = [attach |-> {}, detach |-> attached, add |-> Objects, remove |-> {}, acm |-> NoMatrix]
    BY <2>1, RequestShape DEF Nothing
  <2>4. TypeOK'  BY <1>1, <1>4, <2>1, <2>2, NoMatrixType DEF Inv, TypeOK, Jobs, AcmJobs
  <2>5. Account'  BY <1>1, <1>4, <2>1, <2>2 DEF Account, AcmJobs
  <2>6. View'  BY <1>1, <1>5, <1>7, <2>1, <2>3 DEF Inv, View
  <2>7. Place'  BY <1>1, <1>5, <2>1, <2>2, <2>3 DEF Place
  <2>8. Entered'  BY <2>1 DEF Entered, EntryJobs
  <2>. QED  BY <1>6, <2>1, <2>4, <2>5, <2>6, <2>7, <2>8 DEF Inv
<1>12. CASE CommitAcm
  <2>1. /\ job \in AcmJobs /\ pc' = "idle" /\ batch' = {} /\ acm' = NoMatrix /\ answer' = "none"
        /\ job' = "load" /\ loaded' = (loaded \/ job = "loadAcm") /\ pulse' = (pulse \/ job = "resetAcm")
        /\ acmDoubt' = (acmDoubt /\ job \notin EntryJobs)
        /\ UNCHANGED <<closed, flag, attached, offset, forced, doubt, ghosts>>
    BY <1>12 DEF CommitAcm, End, EntryJobs
  <2>2. Request = [attach |-> {}, detach |-> {}, add |-> {}, remove |-> {}, acm |-> acm]
    BY <2>1, RequestShape DEF Nothing
  <2>3. TypeOK'
    <3>1. loaded' \in BOOLEAN /\ pulse' \in BOOLEAN /\ acmDoubt' \in BOOLEAN
      BY <2>1 DEF Inv, TypeOK
    <3>. QED  BY <1>1, <2>1, <3>1, NoMatrixType DEF Inv, TypeOK, Jobs
  <2>4. Account'
    <3>1. ~loaded' => offset = {}  BY <2>1 DEF Inv, Account
    <3>. QED  BY <1>1, <1>4, <2>1, <3>1 DEF Account
  <2>5. View'  BY <1>1, <1>7, <2>1, <2>2 DEF Inv, View, HeldTouched
  <2>6. Place'
    <3>1. WorldTouched = {}  BY <1>7, <2>2 DEF Touches
    <3>2. loaded' \/ job' = "loadAcm" => loaded \/ job = "loadAcm"  BY <2>1
    <3>. QED  BY <1>1, <2>1, <3>1, <3>2 DEF Inv, Place, WorldTouched
  <2>7. Entered'
    <3>1. CASE job \in EntryJobs /\ attached # {}
      <4>1. Follows(acm)  BY <1>1, <3>1 DEF Inv, Entered
      <4>2. acm # NoMatrix
        <5>1. PICK o \in attached : TRUE  BY <3>1
        <5>2. o \in Objects  BY <1>4
        <5>3. NoMatrix.pair[o] = "none"  BY <5>2 DEF NoMatrix
        <5>4. acm.pair[o] # "none"  BY <4>1, <5>1 DEF Follows
        <5>. QED  BY <5>3, <5>4
      <4>3. matrix = acm  BY <1>5, <2>2, <4>2
      <4>4. Follows(matrix)'  BY <1>1, <2>1, <4>1, <4>3 DEF Follows
      <4>. QED  BY <1>1, <1>3, <2>1, <4>4 DEF Entered
    <3>2. CASE job \notin EntryJobs /\ attached # {}
      <4>1. ~acmDoubt => Follows(matrix)  BY <3>2 DEF Inv, Entered
      <4>2. ~acmDoubt => Follows(matrix)'  BY <1>1, <2>1, <4>1 DEF Follows
      <4>3. acmDoubt' <=> acmDoubt  BY <2>1, <3>2
      <4>. QED  BY <1>1, <1>3, <2>1, <4>2, <4>3 DEF Entered
    <3>3. CASE attached = {}
      BY <2>1, <3>3 DEF Entered
    <3>. QED  BY <3>1, <3>2, <3>3
  <2>. QED  BY <1>6, <2>1, <2>3, <2>4, <2>5, <2>6, <2>7 DEF Inv
<1>. QED  BY <1>8, <1>9, <1>10, <1>11, <1>12 DEF Commit

\* A handler that begins has the types of the variables it sets.
LEMMA StartTypes ==
  ASSUME NEW j \in Jobs, NEW b \in SUBSET Objects, Start(j, b)
  PROVE  /\ pc' \in {"idle", "fetch", "apply", "answer"} /\ job' \in Jobs /\ batch' \subseteq Objects
         /\ acm' \in Matrices /\ answer' \in {"none", "OK", "FAILURE"}
BY NoMatrixType DEF Start

LEMMA NextInv == Inv /\ [Next]_vars => Inv'
<1> SUFFICES ASSUME Inv, [Next]_vars PROVE Inv'
  OBVIOUS
<1>1. CASE FetchAcm  BY <1>1, FetchInv
<1>2. CASE FetchFails
  <2>1. pc # "answer" /\ job # "load" /\ pc # "idle"
    BY <1>2 DEF FetchFails, Inv, Account, AcmJobs
  <2>. QED  BY <1>2, <2>1, NotAppliedInv DEF FetchFails, Inv, TypeOK
<1>3. CASE SendRequest  BY <1>3, SendInv
<1>4. CASE ApplyUnavailable
  <2>1. /\ pc = "apply" /\ NotApplied /\ UNCHANGED <<fixed, scene, traffic>>
        /\ doubt' = (IF job = "load" THEN Objects ELSE doubt) /\ doubt \subseteq Objects
    BY <1>4 DEF ApplyUnavailable, Inv, TypeOK
  <2>. QED  BY <2>1, NotAppliedInv
<1>5. CASE ApplyFails
  <2>1. /\ pc = "answer" /\ NotApplied /\ UNCHANGED <<fixed, scene, traffic>>
        /\ doubt' = (IF job \in AcmJobs THEN doubt ELSE doubt \cup batch)
        /\ doubt \subseteq Objects /\ batch \subseteq Objects
        /\ job = "load" => batch = Objects
    BY <1>5 DEF ApplyFails, Inv, TypeOK, Account
  <2>2. job = "load" => doubt' = Objects  BY <2>1 DEF AcmJobs
  <2>. QED  BY <2>1, <2>2, NotAppliedInv
<1>6. CASE Commit  BY <1>6, CommitInv
<1>7. CASE LoadInitialScene
  <2>1. /\ pc = "idle" /\ timer /\ ~timer' /\ flag' \in BOOLEAN /\ world' \in {world, {}}
        /\ timer' = FALSE /\ forced' = Objects /\ Start("load", Objects)
        /\ UNCHANGED <<loaded, closed, attached, offset, reasserts, pulse, held, matrix, queue, diff,
                       command, events, doubt, acmDoubt, ghosts>>
    BY <1>7 DEF LoadInitialScene, Idle, traffic, history
  <2>2. ~loaded /\ offset = {} /\ attached = {}  BY <2>1 DEF Inv, Account, TypeOK
  <2>3. "load" \in Jobs  BY DEF Jobs
  <2>4. TypeOK'  BY <2>1, <2>2, <2>3, StartTypes DEF Inv, TypeOK
  <2>. QED  BY <2>1, <2>2, <2>3, <2>4, StartInv DEF history
<1>8. CASE LoadThrows
  <2>1. TypeOK'
    BY <1>8 DEF LoadThrows, Inv, TypeOK, account, handler, scene, traffic, history
  <2>. QED
    BY <1>8, <2>1, QuietInv DEF LoadThrows, account, handler, scene, traffic, history
<1>9. CASE GripperCmd
  <2>1. /\ pc = "idle" /\ command' = "none" /\ closed' \in BOOLEAN
        /\ UNCHANGED <<loaded, flag, timer, reasserts, pulse, world, held, matrix, queue, diff, events,
                       attached, offset, forced, doubt, acmDoubt, ghosts>>
        /\ \/ UNCHANGED handler
           \/ loaded /\ Start("grasp", Objects)
           \/ loaded /\ Start("release", offset)
    BY <1>9 DEF GripperCmd, Idle, GraspObjects, ReleaseObjects, fixed, scene, history
  <2>2. "grasp" \in Jobs /\ "release" \in Jobs /\ offset \in SUBSET Objects
    BY DEF Jobs, Inv, TypeOK
  <2>3. CASE UNCHANGED handler
    <3>1. TypeOK'  BY <2>1, <2>3 DEF Inv, TypeOK, handler
    <3>. QED  BY <2>1, <2>3, <3>1, QuietInv DEF handler, scene, history
  <2>4. CASE loaded /\ Start("grasp", Objects)
    <3>1. TypeOK'  BY <2>1, <2>2, <2>4, StartTypes DEF Inv, TypeOK
    <3>2. ~timer'  BY <2>1, <2>4 DEF Inv, Account
    <3>. QED  BY <2>1, <2>2, <2>4, <3>1, <3>2, StartInv DEF history
  <2>5. CASE loaded /\ Start("release", offset)
    <3>1. TypeOK'  BY <2>1, <2>2, <2>5, StartTypes DEF Inv, TypeOK
    <3>2. ~timer'  BY <2>1, <2>5 DEF Inv, Account
    <3>. QED  BY <2>1, <2>2, <2>5, <3>1, <3>2, StartInv DEF history
  <2>. QED  BY <2>1, <2>3, <2>4, <2>5
<1>10. CASE ResetScene
  <2>1. /\ pc = "idle" /\ events < MaxEvents /\ events' = events + 1
        /\ UNCHANGED <<loaded, closed, flag, attached, offset, forced, timer, reasserts, pulse, world, held,
                       matrix, queue, diff, command, doubt, acmDoubt, ghosts>>
        /\ \/ UNCHANGED handler
           \/ loaded /\ Start("reset", Objects)
    BY <1>10 DEF ResetScene, Idle, account, fixed, scene, history
  <2>2. "reset" \in Jobs /\ events' \in 0..MaxEvents
    BY <2>1, SceneAssumption DEF Jobs, Inv, TypeOK
  <2>3. CASE UNCHANGED handler
    <3>1. TypeOK'  BY <2>1, <2>2, <2>3 DEF Inv, TypeOK, handler
    <3>. QED  BY <2>1, <2>3, <3>1, QuietInv DEF handler, scene, history
  <2>4. CASE loaded /\ Start("reset", Objects)
    <3>1. TypeOK'  BY <2>1, <2>2, <2>4, StartTypes DEF Inv, TypeOK
    <3>2. ~timer'  BY <2>1, <2>4 DEF Inv, Account
    <3>. QED  BY <2>1, <2>2, <2>4, <3>1, <3>2, StartInv DEF history
  <2>. QED  BY <2>1, <2>3, <2>4
<1>11. ASSUME NEW value \in BOOLEAN, SetCheck(value) PROVE Inv'
  <2>1. /\ pc = "idle" /\ events < MaxEvents /\ events' = events + 1 /\ flag' \in BOOLEAN
        /\ UNCHANGED <<loaded, closed, attached, offset, forced, timer, reasserts, pulse, world, held,
                       matrix, queue, diff, command, doubt, acmDoubt, ghosts>>
        /\ IF attached # {} THEN Start("checkAcm", attached) ELSE UNCHANGED handler
    BY <1>11 DEF SetCheck, Idle, fixed, scene, history
  <2>2. "checkAcm" \in Jobs /\ events' \in 0..MaxEvents /\ attached \in SUBSET Objects
    BY <2>1, SceneAssumption DEF Jobs, AcmJobs, Inv, TypeOK
  <2>3. CASE attached = {}
    <3>1. TypeOK'  BY <2>1, <2>2, <2>3 DEF Inv, TypeOK, handler
    <3>. QED  BY <2>1, <2>3, <3>1, QuietInv DEF handler, scene, history
  <2>4. CASE attached # {}
    <3>1. TypeOK'  BY <2>1, <2>2, <2>4, StartTypes DEF Inv, TypeOK
    <3>2. loaded /\ ~timer'  BY <2>1, <2>4 DEF Inv, Account, TypeOK
    <3>. QED  BY <2>1, <2>2, <2>4, <3>1, <3>2, StartInv DEF history, EntryJobs
  <2>. QED  BY <2>3, <2>4
<1>12. CASE ReassertDynamic
  <2>1. TypeOK'
    BY <1>12 DEF ReassertDynamic, Inv, TypeOK, account, handler, fixed, scene, history
  <2>. QED
    BY <1>12, <2>1, QuietInv DEF ReassertDynamic, account, handler, fixed, scene, history
<1>13. CASE PulseFalls
  <2>1. TypeOK'
    BY <1>13 DEF PulseFalls, Inv, TypeOK, account, handler, fixed, scene, traffic, history
  <2>. QED
    BY <1>13, <2>1, QuietInv DEF PulseFalls, account, handler, fixed, scene, traffic, history
<1>14. CASE GroupHandles  BY <1>14, GroupInv
<1>15. CASE DiffArrives  BY <1>15, DiffInv
<1>16. ASSUME NEW c \in {"open", "close"}, Publish(c) PROVE Inv'
  <2>1. events' \in 0..MaxEvents
    BY <1>16, SceneAssumption DEF Publish, Inv, TypeOK
  <2>2. TypeOK'
    BY <1>16, <2>1 DEF Publish, Inv, TypeOK, account, handler, fixed, scene, history
  <2>. QED
    BY <1>16, <2>2, QuietInv DEF Publish, account, handler, fixed, scene, history
<1>17. CASE UNCHANGED vars
  <2>1. TypeOK'
    BY <1>17 DEF vars, Inv, TypeOK, account, handler, fixed, scene, traffic, history
  <2>. QED
    BY <1>17, <2>1, QuietInv DEF vars, account, handler, fixed, scene, traffic, history
<1>. QED
  BY <1>1, <1>2, <1>3, <1>4, <1>5, <1>6, <1>7, <1>8, <1>9, <1>10, <1>11, <1>12, <1>13, <1>14, <1>15,
     <1>16, <1>17
  DEF Next, NodeStep, HandlerStep

-----------------------------------------------------------------------------
(* The theorems.                                                           *)

\* The inductive invariant, from which every theorem below follows.
THEOREM Invariance == Spec => []Inv
BY InitInv, NextInv, PTL DEF Spec

\* The state of the node, of move_group's scene and of the messages between them is
\* always of the code's types; what is attached is the boxes of what has an offset.
THEOREM TypeCorrect == Spec => []TypeOK
<1>1. Inv => TypeOK  BY DEF Inv
<1>. QED  BY <1>1, Invariance, PTL

\* Whatever move_group accepts, refuses, applies in part or answers late, the node's
\* account of what is attached is the scene's, but for the boxes whose change was sent
\* and not confirmed.
THEOREM AccountIsTheScenes == Spec => []ViewMatchesScene
<1>1. Inv => ViewMatchesScene
  BY DEF Inv, View, HeldTouched, ViewMatchesScene, Settled, Idle
<1>. QED  BY <1>1, Invariance, PTL

\* Once the scene is loaded, an object is off the world while it is held and on it
\* otherwise, but for an unconfirmed change and a re-assertion that was overtaken.
THEOREM HeldObjectsAreOffTheWorld == Spec => []HeldLeavesWorld
<1>1. Inv => HeldLeavesWorld
  BY DEF Inv, Place, WorldTouched, HeldLeavesWorld, Settled, Idle
<1>. QED  BY <1>1, Invariance, PTL

\* The matrix checks what is held against the static meshes if and only if the flag is
\* on, unless a change of the entries was not confirmed.
THEOREM CheckIsTheFlags == Spec => []CheckFollowsFlag
<1>1. Inv => CheckFollowsFlag
  BY DEF Inv, TypeOK, Account, Entered, Follows, EntryJobs, CheckFollowsFlag, Settled, Idle
<1>. QED  BY <1>1, Invariance, PTL

=============================================================================
