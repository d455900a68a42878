------------------------------ MODULE MCServer ------------------------------
(* A server process with two requests at a time on the objects of Keys, in  *)
(* both environments, restarted for ever; and the site that a production    *)
(* server is part of, with its people, publish service and worker           *)
(* (EndToEnd).  They share no state, so that the first state says which of  *)
(* them runs.                                                               *)
EXTENDS ServerProcess, EndToEnd

VARIABLE half

ASSUME ServerAssumption == EndToEndParameters

serverVars == <<half, vars, siteVars>>

ServerInit == Init /\ SiteInit /\ half \in {"process", "site"}

\* The site rests when its identifiers are used up; a process never does.
ServerNext ==
  \/ half = "process" /\ Next /\ UNCHANGED <<half, siteVars>>
  \/ half = "site" /\ (SiteNext \/ UNCHANGED siteVars) /\ UNCHANGED <<half, vars>>

ServerSpec ==
  /\ ServerInit /\ [][ServerNext]_serverVars
  /\ half = "process" => Fairness
=============================================================================
