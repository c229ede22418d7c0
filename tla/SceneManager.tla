---------------------------- MODULE SceneManager ----------------------------
(***************************************************************************)
(* scene_manager_node: the node that mirrors the gripper in move_group's   *)
(* planning scene.  It keeps its own account of what is held (attached_,   *)
(* grasp_offset_, forced_) and changes it only when move_group has         *)
(* accepted the change of the scene.                                       *)
(*                                                                         *)
(* The node's callbacks share one mutually exclusive group, so that one    *)
(* handler runs at a time; what interleaves is move_group, which handles   *)
(* the requests in order, late, in part or not at all, and takes the       *)
(* re-asserted objects from a topic.  Objects are the dynamic objects that *)
(* attach on a close; poses are abstract, and one static mesh stands for   *)
(* the static objects.                                                     *)
(***************************************************************************)
EXTENDS Naturals, Sequences

CONSTANTS
  Objects,     \* attach_object_ids that are dynamic objects
  Boxes,       \* those attached as a box (attach_box mode with a grasp_box)
  MaxEvents,   \* bound: gripper commands published, resets and flag calls
  MaxRequests  \* bound: apply requests move_group has not handled yet

ASSUME SceneAssumption ==
  /\ Boxes \subseteq Objects
  /\ MaxEvents \in Nat /\ MaxRequests \in Nat \ {0}

VARIABLES
  \* the node
  pc,         \* where its handler is
  job,        \* what the handler applies
  batch,      \* the objects the handler works on
  acm,        \* the collision matrix it fetched and edited
  timer,      \* init_timer_ is armed
  loaded,     \* initial_loaded_
  closed,     \* gripper_closed_
  flag,       \* collision_check_
  attached,   \* attached_
  offset,     \* the objects with a grasp_offset_
  forced,     \* forced_
  reasserts,  \* force_republish_hz > 0
  pulse,      \* the reset topic's level
  \* move_group and the messages
  world, held,    \* the scene's world objects, and its attached objects
  matrix,         \* the scene's allowed collision matrix
  queue,          \* the apply requests it has not handled
  answer,         \* the answer to the request waited for
  diff,           \* the re-asserted objects on their way to it
  command,        \* the gripper topic's newest message, not taken yet
  events,         \* commands and calls so far
  \* history
  doubt,      \* objects whose newest change in the scene was not confirmed
  acmDoubt,   \* the newest change of the held objects' entries was not confirmed
  ghosts      \* objects a re-assertion of before their grasp put back after it was sent

account == <<loaded, closed, flag, attached, offset, forced>>
handler == <<pc, job, batch, acm, answer>>
fixed   == <<timer, reasserts>>
scene   == <<world, held, matrix>>
traffic == <<queue, diff, command, events>>
history == <<doubt, acmDoubt, ghosts>>
vars == <<account, handler, fixed, pulse, scene, traffic, history>>

\* A matrix: the objects with a default entry (allowed), and each object's explicit
\* entry with the static meshes, which wins over the default.
Entries == {"none", "checked", "allowed"}
Matrices == [default : SUBSET Objects, pair : [Objects -> Entries]]
NoMatrix == [default |-> {}, pair |-> [o \in Objects |-> "none"]]
Transparent(o) == matrix.pair[o] = "allowed" \/ (matrix.pair[o] = "none" /\ o \in matrix.default)

AcmJobs == {"loadAcm", "graspAcm", "releaseAcm", "resetAcm", "checkAcm"}
Jobs == {"load", "grasp", "release", "reset"} \cup AcmJobs

Requests ==
  [attach : SUBSET Boxes, detach : SUBSET Objects, add : SUBSET Objects,
   remove : SUBSET Objects, acm : Matrices]
Nothing == [attach |-> {}, detach |-> {}, add |-> {}, remove |-> {}, acm |-> NoMatrix]

\* Types, and what the account's parts have to do with each other: a box is attached
\* while its offset is kept, and a held object is not re-asserted.
TypeOK ==
  /\ pc \in {"idle", "fetch", "apply", "answer"} /\ job \in Jobs
  /\ batch \subseteq Objects /\ acm \in Matrices
  /\ {timer, loaded, closed, flag, reasserts, pulse, acmDoubt} \subseteq BOOLEAN
  /\ offset \subseteq Objects /\ attached = offset \cap Boxes
  /\ forced \subseteq Objects \ offset
  /\ world \subseteq Objects /\ held \subseteq Boxes /\ matrix \in Matrices
  /\ queue \in Seq(Requests) /\ Len(queue) <= MaxRequests
  /\ answer \in {"none", "OK", "FAILURE"}
  /\ diff \subseteq Objects /\ doubt \subseteq Objects
  /\ command \in {"none", "open", "close"} /\ events \in 0..MaxEvents

\* A new node.  An earlier one may have left objects in the scene and boxes on the
\* tool; its matrix entries are not modelled (each one the node relies on is written
\* anew).
Init ==
  /\ pc = "idle" /\ job = "load" /\ batch = {} /\ acm = NoMatrix /\ answer = "none"
  /\ timer = TRUE /\ loaded = FALSE /\ closed = FALSE /\ pulse = FALSE
  /\ flag = TRUE /\ reasserts \in BOOLEAN
  /\ attached = {} /\ offset = {} /\ forced = {}
  /\ world \in SUBSET Objects /\ held \in SUBSET Boxes /\ matrix = NoMatrix
  /\ queue = <<>> /\ diff = {} /\ command = "none" /\ events = 0
  /\ doubt = held /\ acmDoubt = FALSE /\ ghosts = {}

-----------------------------------------------------------------------------
(* The handlers' common steps: applyScene, fetchAcm.                       *)

Idle == pc = "idle"

\* The handler begins to apply j for the objects of b, or to fetch the matrix for it.
Start(j, b) ==
  /\ pc' = IF j \in AcmJobs THEN "fetch" ELSE "apply"
  /\ job' = j /\ batch' = b /\ answer' = "none"
  /\ acm' = NoMatrix

\* The handler of job j returns.
End(j) ==
  /\ pc' = "idle" /\ batch' = {} /\ acm' = NoMatrix /\ answer' = "none"
  /\ job' = "load"
  /\ loaded' = (loaded \/ j = "loadAcm")
  /\ pulse' = (pulse \/ j = "resetAcm")

\* The matrix of job: held boxes checked or not, released objects and those at their
\* initial pose allowed (a reset and the initial scene set the defaults only).
Edited(m) ==
  CASE job \in {"loadAcm", "resetAcm"} -> [m EXCEPT !.default = @ \cup Objects]
    [] job = "releaseAcm" ->
         [default |-> m.default \cup batch,
          pair |-> [o \in Objects |-> IF o \in batch THEN "allowed" ELSE m.pair[o]]]
    [] OTHER ->
         [default |-> m.default \cup attached,
          pair |-> [o \in Objects |->
                     IF o \notin attached THEN m.pair[o]
                     ELSE IF flag THEN "checked" ELSE "allowed"]]

\* The request of job, from the account.
Request ==
  CASE job = "load"    -> [Nothing EXCEPT !.add = Objects]
    [] job = "grasp"   -> [Nothing EXCEPT !.attach = Boxes, !.remove = Objects \ Boxes]
    [] job = "release" -> [Nothing EXCEPT !.detach = batch \cap attached, !.add = batch]
    [] job = "reset"   -> [Nothing EXCEPT !.detach = attached, !.add = Objects]
    [] OTHER           -> [Nothing EXCEPT !.acm = acm]

\* job was not applied, as far as the node knows: the initial load goes on, an entry
\* of the matrix is left as it was, and the account too.
NotApplied ==
  /\ IF job = "load"
       THEN Start("loadAcm", Objects) /\ UNCHANGED <<loaded, pulse>>
       ELSE End(job)
  /\ acmDoubt' = (acmDoubt \/ job \in {"graspAcm", "checkAcm"})
  /\ UNCHANGED <<closed, flag, attached, offset, forced, ghosts>>

\* get_planning_scene answers, as the matrix is now.
FetchAcm ==
  /\ pc = "fetch"
  /\ acm' = Edited(matrix) /\ pc' = "apply"
  /\ UNCHANGED <<account, job, batch, answer, fixed, pulse, scene, traffic, history>>

\* It is not there within 5 s or gives no answer within 10 s.
FetchFails ==
  /\ pc = "fetch"
  /\ NotApplied
  /\ UNCHANGED <<fixed, scene, traffic, doubt>>

SendRequest ==
  /\ pc = "apply" /\ Len(queue) < MaxRequests
  /\ queue' = Append(queue, Request)
  /\ pc' = "answer" /\ answer' = "none"
  /\ UNCHANGED <<account, job, batch, acm, fixed, pulse, scene, diff, command, events, history>>

\* apply_planning_scene is not there within 5 s: nothing was sent.
ApplyUnavailable ==
  /\ pc = "apply"
  /\ NotApplied
  /\ doubt' = IF job = "load" THEN Objects ELSE doubt
  /\ UNCHANGED <<fixed, scene, traffic>>

\* Mutant of ApplyFails: the answer is awaited without a bound.
ApplyAwaited ==
  /\ pc = "answer" /\ answer = "FAILURE"
  /\ NotApplied
  /\ doubt' = doubt \cup batch
  /\ UNCHANGED <<fixed, scene, traffic>>

\* The answer is a refusal, or there is none within 10 s.
ApplyFails ==
  /\ pc = "answer" /\ answer # "OK"
  /\ NotApplied
  /\ doubt' = IF job \in AcmJobs THEN doubt ELSE doubt \cup batch
  /\ UNCHANGED <<fixed, scene, traffic>>

-----------------------------------------------------------------------------
(* What an accepted request commits.                                       *)

CommitLoad ==
  /\ job = "load"
  /\ Start("loadAcm", Objects)
  /\ UNCHANGED <<account, pulse, history>>

\* Mutant of CommitGrasp: the held objects are still re-asserted.
CommitGraspStillForced ==
  /\ job = "grasp"
  /\ offset' = offset \cup batch /\ forced' = forced
  /\ attached' = attached \cup (batch \cap Boxes)
  /\ doubt' = doubt \ batch
  /\ IF batch \cap Boxes # {} THEN Start("graspAcm", batch) /\ UNCHANGED <<loaded, pulse>>
                              ELSE End(job)
  /\ UNCHANGED <<closed, flag, acmDoubt, ghosts>>

\* With no box the matrix is left alone.
CommitGrasp ==
  /\ job = "grasp"
  /\ offset' = offset \cup batch /\ forced' = forced \ batch
  /\ attached' = attached \cup (batch \cap Boxes)
  /\ doubt' = doubt \ batch
  /\ IF batch \cap Boxes # {} THEN Start("graspAcm", batch) /\ UNCHANGED <<loaded, pulse>>
                              ELSE End(job)
  /\ UNCHANGED <<closed, flag, acmDoubt, ghosts>>

CommitRelease ==
  /\ job = "release"
  /\ offset' = offset \ batch /\ forced' = forced \cup batch /\ attached' = attached \ batch
  /\ doubt' = doubt \ batch
  /\ Start("releaseAcm", batch)
  /\ ghosts' = ghosts \ batch
  /\ UNCHANGED <<loaded, closed, flag, pulse, acmDoubt>>

\* Mutant of CommitReset: only the boxes' offsets are erased.
CommitResetOfBoxes ==
  /\ job = "reset"
  /\ offset' = offset \ attached /\ forced' = forced \cup batch /\ attached' = {}
  /\ doubt' = (doubt \cap Boxes) \ attached
  /\ Start("resetAcm", batch)
  /\ ghosts' = ghosts \ batch
  /\ UNCHANGED <<loaded, closed, flag, pulse, acmDoubt>>

\* A box that only the scene holds stays there: the reset detaches what the node
\* believes attached.
CommitReset ==
  /\ job = "reset"
  /\ offset' = offset \ batch /\ forced' = forced \cup batch /\ attached' = {}
  /\ doubt' = (doubt \cap Boxes) \ attached
  /\ Start("resetAcm", batch)
  /\ ghosts' = ghosts \ batch
  /\ UNCHANGED <<loaded, closed, flag, pulse, acmDoubt>>

CommitAcm ==
  /\ job \in AcmJobs
  /\ End(job)
  /\ acmDoubt' = (acmDoubt /\ job \notin {"graspAcm", "checkAcm"})
  /\ UNCHANGED <<closed, flag, attached, offset, forced, doubt, ghosts>>

Commit ==
  /\ pc = "answer" /\ answer = "OK"
  /\ CommitLoad \/ CommitGrasp \/ CommitRelease \/ CommitReset \/ CommitAcm
  /\ UNCHANGED <<fixed, scene, traffic>>

-----------------------------------------------------------------------------
(* The handlers.                                                           *)

\* The world objects are removed over a topic (the message may get no subscriber; that
\* PlanningSceneInterface's constructor, line 494, first waits for move_group without a
\* bound is left out), then the objects are recorded and added.  The flag is read from its parameter,
\* whatever a call has set before.
LoadInitialScene ==
  /\ Idle /\ timer
  /\ timer' = FALSE /\ flag' \in BOOLEAN
  /\ world' \in {world, {}}
  /\ forced' = Objects
  /\ Start("load", Objects)
  /\ UNCHANGED <<loaded, closed, attached, offset, reasserts, pulse, held, matrix,
                 traffic, history>>

\* A parameter of the wrong type: the timer is cancelled, the scene never loaded.
LoadThrows ==
  /\ Idle /\ timer
  /\ timer' = FALSE
  /\ UNCHANGED <<account, handler, reasserts, pulse, scene, traffic, history>>

\* Mutant of GraspObjects: the account is changed before the scene.
GraspObjectsUpFront ==
  /\ offset' = Objects /\ forced' = {} /\ attached' = Boxes
  /\ Start("grasp", Objects)

\* On a close; without the tool's transform nothing is done.
GraspObjects ==
  /\ \/ Objects # {} /\ Start("grasp", Objects)
     \/ UNCHANGED handler
  /\ UNCHANGED <<attached, offset, forced>>

\* On an open; without the tool's transform the objects keep their cached pose.
ReleaseObjects ==
  /\ IF offset # {} THEN Start("release", offset) ELSE UNCHANGED handler
  /\ UNCHANGED <<attached, offset, forced>>

\* onGripperCmd: only an edge counts, and it counts before the scene is loaded.
GripperCmd ==
  /\ Idle /\ command # "none"
  /\ command' = "none" /\ closed' = (command = "close")
  /\ IF closed' # closed /\ loaded
       THEN IF closed' THEN GraspObjects ELSE ReleaseObjects
       ELSE UNCHANGED <<handler, attached, offset, forced>>
  /\ UNCHANGED <<loaded, flag, fixed, pulse, scene, queue, diff, events, history>>

\* onResetScene: refused before any object is recorded.
ResetScene ==
  /\ Idle /\ events < MaxEvents
  /\ events' = events + 1
  /\ IF loaded /\ Objects # {} THEN Start("reset", Objects) ELSE UNCHANGED handler
  /\ UNCHANGED <<account, fixed, pulse, scene, queue, diff, command, history>>

\* Mutant of SetCheck: the flag is stored only.
SetCheckStores(value) ==
  /\ Idle /\ events < MaxEvents
  /\ events' = events + 1
  /\ flag' = value
  /\ UNCHANGED <<handler, loaded, closed, attached, offset, forced, fixed, pulse, scene,
                 queue, diff, command, history>>

\* onSetCheck: the boxes held are re-applied, if there are any; the answer is a
\* success whatever came of it.
SetCheck(value) ==
  /\ Idle /\ events < MaxEvents
  /\ events' = events + 1
  /\ flag' = value
  /\ IF attached # {} THEN Start("checkAcm", attached) ELSE UNCHANGED handler
  /\ UNCHANGED <<loaded, closed, attached, offset, forced, fixed, pulse, scene,
                 queue, diff, command, history>>

\* reassertDynamic, on its timer; a message on its way is replaced (depth 1).
ReassertDynamic ==
  /\ Idle /\ reasserts /\ forced # {}
  /\ diff' = forced
  /\ UNCHANGED <<account, handler, fixed, pulse, scene, queue, command, events, history>>

\* publishResetPulse: the level falls on a timer of the same group.
PulseFalls ==
  /\ Idle /\ pulse
  /\ pulse' = FALSE
  /\ UNCHANGED <<account, handler, fixed, scene, traffic, history>>

HandlerStep ==
  FetchAcm \/ FetchFails \/ SendRequest \/ ApplyUnavailable \/ ApplyFails \/ Commit

NodeStep ==
  \/ HandlerStep
  \/ LoadInitialScene \/ LoadThrows \/ GripperCmd \/ ResetScene
  \/ \E value \in BOOLEAN : SetCheck(value)
  \/ ReassertDynamic \/ PulseFalls

-----------------------------------------------------------------------------
(* External: move_group, the topics, the runner.                           *)

\* The scene after the part p of a request: the robot's state first (an attach moves
\* the object off the world, a detach puts it back), then the world, then the matrix
\* (one without entries is ignored).
Applied(p) ==
  /\ held' = (held \cup p.attach) \ p.detach
  /\ world' = ((world \ p.attach) \cup (p.detach \cap held) \cup p.add) \ p.remove
  /\ matrix' = IF p.acm = NoMatrix THEN matrix ELSE p.acm

\* Of the request handled next all, all but the attach, or nothing is applied.  It is
\* accepted if all of it was, and what it removes was there; a detach of an object
\* that is not attached may be refused.  The answer may be late or lost.
GroupHandles ==
  /\ queue # <<>> /\ queue' = Tail(queue)
  /\ LET r == Head(queue) IN
     \E p \in {r, [r EXCEPT !.attach = {}], Nothing} :
       /\ Applied(p)
       /\ \/ UNCHANGED answer
          \/ pc = "answer" /\ Len(queue) = 1
             /\ answer' \in (IF p = r /\ r.remove \subseteq world THEN {"OK"} ELSE {"FAILURE"})
                            \cup (IF r.detach \subseteq held THEN {} ELSE {"FAILURE"})
  /\ UNCHANGED <<account, pc, job, batch, acm, fixed, pulse, diff, command, events, history>>

\* The diff travels on a topic, a grasp on a service: it may be handled after one that
\* was sent later.
DiffArrives ==
  /\ diff # {} /\ diff' = {}
  /\ world' = world \cup diff
  /\ ghosts' = ghosts \cup (diff \cap (offset \cup (IF job = "grasp" THEN batch ELSE {})))
  /\ UNCHANGED <<account, handler, fixed, pulse, held, matrix, queue, command, events,
                 doubt, acmDoubt>>

\* The runner's scene signal; a message that was not taken is replaced (depth 1).
Publish(c) ==
  /\ events < MaxEvents /\ events' = events + 1
  /\ command' = c
  /\ UNCHANGED <<account, handler, fixed, pulse, scene, queue, diff, history>>

Next ==
  \/ NodeStep
  \/ GroupHandles \/ DiffArrives
  \/ \E c \in {"open", "close"} : Publish(c)

\* The node's executor runs a handler that has begun and the clock advances.
Spec == Init /\ [][Next]_vars /\ WF_vars(HandlerStep)

-----------------------------------------------------------------------------
(* Properties                                                              *)

\* Nothing is on its way between the node and move_group.
Settled == Idle /\ queue = <<>>

\* The node's account is the scene's: what it believes attached is attached, and
\* nothing else, but for the objects whose change was sent and not confirmed.  A
\* change that was never sent leaves both sides as they were.
ViewMatchesScene ==
  Settled => \A o \in Boxes \ doubt : o \in attached <=> o \in held

\* A held object is off the world, as a mesh or as a box, and comes back when it is
\* released or reset; no object is lost or doubled, but for one that a re-assertion
\* published before its grasp and handled after it has put back.
HeldLeavesWorld ==
  Settled /\ loaded => \A o \in Objects \ (doubt \cup ghosts) : o \in offset <=> o \notin world

\* A box that is held is checked against the static meshes if and only if the flag is
\* on, whenever the flag changed, unless the matrix could not be applied.
CheckFollowsFlag ==
  Settled /\ ~acmDoubt =>
    \A o \in attached : matrix.pair[o] = IF flag THEN "checked" ELSE "allowed"

\* Every handler returns, whatever move_group answers: the next gripper edge is taken.
\* Of the load this is said from its first request on, not of the wait before it for
\* move_group to be there.
HandlerEnds == (pc # "idle") ~> (pc = "idle")

\* scene_manager_node.cpp:850: after a reset the objects are "transparent again, like
\* startup": once move_group has accepted its matrix, none is checked.
ResetIsTransparent ==
  pc = "answer" /\ job = "resetAcm" /\ answer = "OK" => \A o \in Objects : Transparent(o)
=============================================================================
