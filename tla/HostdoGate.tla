----------------------------- MODULE HostdoGate -----------------------------
(***************************************************************************)
(* What the gate to host commands promises, whatever handlers, queues and  *)
(* prompts do: a command is started once, after the policy or the user     *)
(* allowed that request; a request that was denied never runs; a request   *)
(* that is over stays over.                                                *)
(***************************************************************************)
CONSTANT Request
VARIABLE stage

Init == stage = [r \in Request |-> "new"]

\* The policy lets the request pass, or the user is asked.
Pass(r) == stage[r] = "new" /\ stage' = [stage EXCEPT ![r] = "allowed"]
Ask(r) == stage[r] = "new" /\ stage' = [stage EXCEPT ![r] = "asked"]

Allow(r) == stage[r] = "asked" /\ stage' = [stage EXCEPT ![r] = "allowed"]

\* One decision may deny several requests: those of a session that closes.
Deny(S) ==
  /\ \A r \in S : stage[r] = "asked"
  /\ stage' = [r \in Request |-> IF r \in S THEN "denied" ELSE stage[r]]

Start(r) == stage[r] = "allowed" /\ stage' = [stage EXCEPT ![r] = "running"]

\* Refused, timed out, given up, failed to start, or ended.
Finish(r) == stage[r] # "over" /\ stage' = [stage EXCEPT ![r] = "over"]

Next ==
  \/ \E r \in Request : Pass(r) \/ Ask(r) \/ Allow(r) \/ Start(r) \/ Finish(r)
  \/ \E S \in SUBSET Request : Deny(S)

Spec == Init /\ [][Next]_stage

=============================================================================
