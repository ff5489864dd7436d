---------------------------- MODULE TransformSpec ----------------------------
(***************************************************************************)
(* What a transform promises: in one step, a blueprint is either refused   *)
(* or compiled, and the outcome is a function of the blueprint alone.  An  *)
(* implementation that lets the iteration order of a map show in its       *)
(* output does not satisfy it, whatever that function is.                  *)
(***************************************************************************)
CONSTANTS
    Blueprint,
    Compile(_),         \* the outcome of a blueprint that is compiled
    MustRefuse(_)       \* whether a blueprint is refused

VARIABLES blueprint, output

Pending == [outcome |-> "pending"]
Refused == [outcome |-> "refused"]

Init == blueprint \in Blueprint /\ output = Pending

Transform ==
    /\ output = Pending
    /\ output' = IF MustRefuse(blueprint) THEN Refused ELSE Compile(blueprint)
    /\ UNCHANGED blueprint

\* No run produces anything but the promised outcome.
Safety == Init /\ [][Transform]_<<blueprint, output>>

\* And every run produces it.
Spec == Safety /\ WF_<<blueprint, output>>(Transform)
=============================================================================
