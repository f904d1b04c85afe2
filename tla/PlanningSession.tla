--------------------------- MODULE PlanningSession ----------------------------
(* What a client session promises about its results, whatever the surface and *)
(* however requests and answers interleave: a plan is shown only with the     *)
(* intent it was made from, an explanation and an install preview only with   *)
(* the plan they were made from, and a new intent or plan drops what was      *)
(* derived from the old one in the same step.                                 *)
CONSTANTS Null, Intents, Answers

VARIABLES intent, planResponse, explanation, installPreview

results == <<intent, planResponse, explanation, installPreview>>

PlansOf(i) == [intent : {i}, answer : Answers]

Init == /\ intent = Null
        /\ planResponse = Null
        /\ explanation = Null
        /\ installPreview = Null

Parse == /\ intent' \in Intents
         /\ planResponse' = Null
         /\ explanation' = Null
         /\ installPreview' = Null

Plan == /\ intent \in Intents
        /\ planResponse' \in PlansOf(intent)
        /\ explanation' = Null
        /\ installPreview' = Null
        /\ UNCHANGED intent

Explain == /\ planResponse \in PlansOf(intent)
           /\ explanation' = planResponse
           /\ UNCHANGED <<intent, planResponse, installPreview>>

Preview == /\ planResponse \in PlansOf(intent)
           /\ installPreview' = planResponse
           /\ UNCHANGED <<intent, planResponse, explanation>>

Next == Parse \/ Plan \/ Explain \/ Preview

Spec == Init /\ [][Next]_results
===============================================================================
