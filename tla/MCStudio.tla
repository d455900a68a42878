------------------------------ MODULE MCStudio ------------------------------
(* People at the studio: two clients who work on the same versions, a       *)
(* browser that logs in and out, and the signing keys its logins are checked *)
(* with.  They share no state, so that a behaviour of all adds nothing to    *)
(* one of each: the first state says which of them runs.                     *)
EXTENDS ReviewWorkflow, Sessions, SigningKeys, TLC

VARIABLE half

ASSUME StudioAssumption == Parameters /\ LoginParameters /\ KeysParameters

studioVars == <<half, vars, loginVars, keysVars>>

StudioInit ==
  /\ Init /\ LoginInit /\ KeysInit
  /\ half \in {"review", "sessions", "keys"}
  /\ half # "keys" => published = {}

StudioNext ==
  \/ half = "review" /\ Next /\ UNCHANGED <<half, loginVars, keysVars>>
  \/ half = "sessions" /\ LoginNext /\ UNCHANGED <<half, vars, keysVars>>
  \/ half = "keys" /\ KeysNext /\ UNCHANGED <<half, vars, loginVars>>

StudioSpec == StudioInit /\ [][StudioNext]_studioVars

\* Clients and versions are not permuted: fewer permutations take less time
\* than they save.
Symmetry == Permutations(Contents) \cup Permutations(Tabs) \cup Permutations(Kids)

\* Versions and views, sessions and tabs, and the key cache are of their types.
StudioTypeOK == TypeOK /\ LoginTypeOK /\ KeysTypeOK
============================================================================
