------------------------------ MODULE DroneServer ------------------------------
(***************************************************************************)
(* Drone, as receiver/dronereceiver sees it: a table of builds, which the  *)
(* scraper queries, and a webhook for every change of a build, sent after  *)
(* the table was written.  A webhook may be late, lost or sent again.  All *)
(* of this module is external to the repository.                           *)
(***************************************************************************)
EXTENDS Integers, Sequences

CONSTANTS
  Names,      \* what repositories, branches and commits are called
  Shapes,     \* the builds that may be started
  Stations,   \* the statuses a build passes before it finishes, in their order
  Outcomes    \* the statuses of builds that have finished

\* branch: the branch in the repository's record; source, after: the build's branch
\* and commit; stages: its stages with their steps.
Step  == [status : STRING, started : Nat, lines : Seq(Nat)]
Stage == [status : STRING, steps : Seq(Step)]
Shape == [repo : Names, branch : Names, source : Names, after : Names,
          stages : Seq(Stage)]

Waiting  == {Stations[i] : i \in DOMAIN Stations}
Statuses == Waiting \cup Outcomes

ASSUME ServerAssumption ==
  /\ Shapes \subseteq Shape
  /\ Stations \in Seq(STRING) /\ Outcomes \subseteq STRING \ {""} /\ Waiting \cap Outcomes = {}

VARIABLES
  builds,   \* the table, in the order of build_id: the shape and status of each
  outbox    \* the webhooks sent: the number of a build and its status then

server == <<builds, outbox>>

Row     == [shape : Shapes, status : Statuses]
Message == [build : Nat, status : Statuses]

ServerInit == builds = <<>> /\ outbox = {}

\* build.Finished is zero until then.
Finished(status) == status \in Outcomes

\* The trigger of a build, or a restart, which is a build of its own.
StartBuild(shape, status) ==
  /\ builds' = Append(builds, [shape |-> shape, status |-> status])
  /\ outbox' = outbox \cup {[build |-> Len(builds) + 1, status |-> status]}

\* A build comes to a later station, or finishes.
GetsOn(from, to) ==
  \/ \E i, j \in DOMAIN Stations : i < j /\ Stations[i] = from /\ Stations[j] = to
  \/ ~Finished(from) /\ Finished(to)

Update(n, status) ==
  /\ GetsOn(builds[n].status, status)
  /\ builds' = [builds EXCEPT ![n].status = status]
  /\ outbox' = outbox \cup {[build |-> n, status |-> status]}

ServerNext ==
  \/ \E shape \in Shapes, status \in Waiting : StartBuild(shape, status)
  \/ \E n \in DOMAIN builds, status \in Statuses : Update(n, status)
===============================================================================
