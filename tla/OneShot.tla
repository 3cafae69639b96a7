------------------------------- MODULE OneShot -------------------------------
(***************************************************************************)
(* What a one-shot attempt promises, whoever carries it out: it is         *)
(* consumed once, the effect happens at most once and only afterwards, and *)
(* a result is recorded only for an effect that happened.  A crash may     *)
(* stop it anywhere: a consumed attempt may stay without effect or result. *)
(***************************************************************************)
EXTENDS Naturals

VARIABLES
    attempt,    \* "open", "consumed" or "recorded"
    effects     \* effects performed

Init == attempt = "open" /\ effects = 0

Consume ==
    /\ attempt = "open"
    /\ attempt' = "consumed"
    /\ UNCHANGED effects

Perform ==
    /\ attempt = "consumed"
    /\ effects = 0
    /\ effects' = 1
    /\ UNCHANGED attempt

Record ==
    /\ attempt = "consumed"
    /\ effects = 1
    /\ attempt' = "recorded"
    /\ UNCHANGED effects

Next == Consume \/ Perform \/ Record

Spec == Init /\ [][Next]_<<attempt, effects>>
=============================================================================
