---------------------------- MODULE BuildTrigger ----------------------------
(* What the publish service may rely on when it submits a build: one build  *)
(* per idempotency key, one running at a time, and a result that, once      *)
(* reported, never changes.                                                 *)
CONSTANT Keys
VARIABLE status   \* what Status reports for the build of each key

Results == {"succeeded", "failed"}

TypeOK == status \in [Keys -> {"none", "running"} \cup Results]

Init == status = [key \in Keys |-> "none"]

Submit(key) ==
  /\ status[key] = "none"
  /\ \A other \in Keys : status[other] # "running"
  /\ status' = [status EXCEPT ![key] = "running"]

End(key) ==
  /\ status[key] = "running"
  /\ \E result \in Results : status' = [status EXCEPT ![key] = result]

Next == \E key \in Keys : Submit(key) \/ End(key)

Spec == Init /\ [][Next]_status
============================================================================
