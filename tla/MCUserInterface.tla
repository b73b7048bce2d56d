-------------------------- MODULE MCUserInterface --------------------------
(***************************************************************************)
(* A binding of a data-driven screen, and forms, which are such screens.   *)
(* Forms see of a binding only that the client writes: the two share no    *)
(* state, and in a behaviour one of them moves.                            *)
(* Two listeners, one of which may write while the other has not been told *)
(* yet, and writes nested three deep: only those of others nest further.   *)
(* Two forms, for two players, on one observable, whose setData calls nest *)
(* three deep.                                                             *)
(***************************************************************************)
EXTENDS FormRuntime, DataBinding

VARIABLE part

MCInit == Init /\ BindingInit /\ part \in {"forms", "binding"}
MCNext ==
    \/ part = "forms" /\ Next /\ UNCHANGED <<bindingVars, part>>
    \/ part = "binding" /\ BindingNext /\ UNCHANGED <<vars, part>>
MCSpec == MCInit /\ [][MCNext]_<<vars, bindingVars, part>>
=============================================================================
