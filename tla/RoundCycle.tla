----------------------------- MODULE RoundCycle -----------------------------
(***************************************************************************)
(* What a Loop's rounds promise, without saying who acts and when: a round *)
(* is drafted, opened and published, one upcoming and one collecting at a  *)
(* time, and nothing takes it a step back.  A draft may also be published  *)
(* without having collected an answer.                                     *)
(***************************************************************************)

CONSTANT Editions

VARIABLE stage   \* how far each round has come

At(st) == {e \in Editions : stage[e] = st}

\* The launched Loop's first round collects.
CycleInit == \E first \in Editions :
    stage = [e \in Editions |-> IF e = first THEN "collecting" ELSE "none"]

Draft(e) ==
    /\ stage[e] = "none" /\ At("draft") = {}
    /\ stage' = [stage EXCEPT ![e] = "draft"]

Open(e) ==
    /\ stage[e] = "draft" /\ At("collecting") = {}
    /\ stage' = [stage EXCEPT ![e] = "collecting"]

Publish(e) ==
    /\ stage[e] \in {"draft", "collecting"}
    /\ stage' = [stage EXCEPT ![e] = "published"]

CycleNext == \E e \in Editions : Draft(e) \/ Open(e) \/ Publish(e)

CycleSpec == CycleInit /\ [][CycleNext]_stage
=============================================================================
