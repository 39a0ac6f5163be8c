-------------------------- MODULE MCAnalysisPipeline --------------------------
(* AnalysisPipeline for TLC: tables on which the two groups agree, outvote   *)
(* each other and cancel.                                                    *)
EXTENDS AnalysisPipeline, TLC

MCBasicVotes == 0 :> 0 @@ 1 :> 0 @@ 2 :> 1 @@ 3 :> -1
MCAdvancedVotes == 0 :> 1 @@ 1 :> 1 @@ 2 :> 1 @@ 3 :> 1
=============================================================================
