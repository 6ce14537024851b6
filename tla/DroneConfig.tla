------------------------------ MODULE DroneConfig ------------------------------
(***************************************************************************)
(* Config.ReposConfig of receiver/dronereceiver, which the scraper and the *)
(* webhook share, and what Config.Validate demands of it.                  *)
(***************************************************************************)
EXTENDS Sequences, SequencesExt

CONSTANT ReposConfig   \* the branches of each repository

\* At least one repository, at least one branch each, none of them twice.
ValidRepos ==
  /\ DOMAIN ReposConfig # {}
  /\ \A repo \in DOMAIN ReposConfig :
       ReposConfig[repo] # <<>> /\ IsInjective(ReposConfig[repo])

ASSUME ConfigAssumption ==
  /\ DOMAIN ReposConfig \subseteq STRING
  /\ ReposConfig \in [DOMAIN ReposConfig -> Seq(STRING)]
  /\ ValidRepos

\* The branches of a repository, none if it is not configured.
BranchesOf(repo) == IF repo \in DOMAIN ReposConfig THEN ToSet(ReposConfig[repo]) ELSE {}
===============================================================================
