-------------------------------- MODULE Fsm ---------------------------------
(***************************************************************************)
(* The table-driven state machine shared by streams and connections        *)
(* (conn/lifecycle/fsm): rows of a state, an event and the next state.     *)
(***************************************************************************)
FsmAllows(rows, s, ev) == \E r \in rows : r[1] = s /\ r[2] = ev

FsmStep(rows, s, ev) ==
  IF FsmAllows(rows, s, ev) THEN (CHOOSE r \in rows : r[1] = s /\ r[2] = ev)[3]
  ELSE s
=============================================================================
