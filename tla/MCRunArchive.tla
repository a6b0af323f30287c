---------------------------- MODULE MCRunArchive ----------------------------
(***************************************************************************)
(* Model-checking instance of RunArchive, and of the policies that decide  *)
(* which archives it is applied to.  A behaviour is of one of the two.     *)
(***************************************************************************)
EXTENDS RunArchive, CleanupPolicy

VARIABLE part

mcvars == <<vars, policyVars, part>>

MCInit ==
  \/ /\ part = "archive" /\ Init
     /\ inventory = {} /\ policy = [kind |-> "KeepRuns", arg |-> 0]
     /\ preview = [selected |-> {}, failure |-> FALSE] /\ outcome = "None"
  \/ part = "policy" /\ Init /\ PolicyInit

MCNext ==
  /\ \/ part = "archive" /\ Next /\ UNCHANGED policyVars
     \/ part = "policy" /\ PolicyNext /\ UNCHANGED vars
  /\ UNCHANGED part

MCSpec == MCInit /\ [][MCNext]_mcvars /\ Fairness

=============================================================================
