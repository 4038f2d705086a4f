----------------------------- MODULE ServiceLife -----------------------------
(***************************************************************************)
(* What the deploy manager promises to whoever visits a project's domain.  *)
(*                                                                         *)
(* A project is Down, or it is answered by a release: Static (its folder)  *)
(* or the container of one deployment.  A release is replaced by a later   *)
(* one in a single step, with no moment in between at which nobody         *)
(* answers; it goes down only while the operator has asked for that, by    *)
(* Stop or Remove.  The deployment manager's comments state the same:      *)
(* "the new container is built, run, and health-checked before the route   *)
(* flips and the old one drains" (internal/deploy/deploy.go).              *)
(***************************************************************************)
EXTENDS Integers

CONSTANTS Projects,  \* the deployed projects
          Releases   \* ids of deployments, from 1; a later deployment has a larger id

VARIABLES live,   \* live[p]: who answers on p's domain
          asked   \* projects under a Stop or Remove request (an input)

Down   == -1
Static == 0

sVars == <<live, asked>>

SInit ==
  /\ live = [p \in Projects |-> Down]
  /\ asked = {}

(* A project comes up, or its release gives way to a later one.            *)
Publish(p) ==
  /\ live'[p] \in Releases \cup {Static}
  /\ live[p] \in Releases /\ live'[p] \in Releases => live'[p] > live[p]

TakeDown(p) ==
  /\ p \in asked
  /\ live'[p] = Down

SNext ==
  /\ asked' \in SUBSET Projects
  /\ DOMAIN live' = Projects
  /\ \A p \in Projects : live'[p] = live[p] \/ Publish(p) \/ TakeDown(p)

SSpec == SInit /\ [][SNext]_sVars
=============================================================================
