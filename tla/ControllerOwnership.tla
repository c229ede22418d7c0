------------------------ MODULE ControllerOwnership ------------------------
(***************************************************************************)
(* What the arbitration of bt_nodes.cpp promises ("one owner per           *)
(* controller"), seen from outside: a joint trajectory controller, and the *)
(* movers of one run that may drive it.                                    *)
(*                                                                         *)
(* A mover the run has given up (its end was never established: a late     *)
(* answer, a pause that nobody confirmed) may drive the controller at any  *)
(* time from then on; every other one drives it alone among its kind.      *)
(***************************************************************************)
CONSTANT Movers

VARIABLES
  holds,   \* the movers that drive the controller
  givenUp  \* the movers whose end the run does not know

Init == holds \subseteq givenUp /\ givenUp \subseteq Movers

\* A mover takes the controller: nobody else has it whom the run has not given up.
Take(m) ==
  /\ m \notin givenUp => holds \subseteq givenUp
  /\ holds' = holds \cup {m}
  /\ UNCHANGED givenUp

Free(m) ==
  /\ holds' = holds \ {m}
  /\ UNCHANGED givenUp

GiveUp(m) ==
  /\ givenUp' = givenUp \cup {m}
  /\ UNCHANGED holds

Next == \E m \in Movers : Take(m) \/ Free(m) \/ GiveUp(m)

Spec == Init /\ [][Next]_<<holds, givenUp>>

\* Among the movers the run has not given up, the controller has one owner.
OneOwner == \A m, n \in holds \ givenUp : m = n
=============================================================================
