-------------------------- MODULE MCStrategyCampaign --------------------------
(* Small instances of StrategyCampaign for TLC.                             *)
EXTENDS StrategyCampaign, TLC

CONSTANTS c1, c2, s1, g1, g2

\* Two campaigns that share a strategy: one generates it twice, the other has an invalid
\* attempt before it.
SharedPlan == c1 :> <<s1, s1>> @@ c2 :> <<Invalid, s1>>
PlanOfOne  == c1 :> <<s1>>
===============================================================================
