------------------------------ MODULE MCServer ------------------------------
(***************************************************************************)
(* Server for TLC, with the submissions of MCJudge.                        *)
(***************************************************************************)
EXTENDS Server, MCJudge
=============================================================================
