----------------------------- MODULE MCCampaign -----------------------------
(***************************************************************************)
(* Instances of the campaign for TLC.                                      *)
(***************************************************************************)
EXTENDS CampaignProperties

\* The code's first threshold, more than a quarter of more than 10 runs, and
\* its second, more than a tenth of more than 100, scaled to the number of
\* executions of the instance.
MCCrashLimits == {[floor |-> 1, num |-> 1, den |-> 2], [floor |-> 3, num |-> 1, den |-> 4]}

MCForever == -1
=============================================================================
