------------------------------ MODULE RemoteCall ------------------------------
(* What the relay promises the client of an account about a tool call,        *)
(* whatever is lost, late or asked again on the way: a call is addressed to   *)
(* one runtime, no other runtime executes it, and it settles once, with an    *)
(* answer or a failure of its own execution, or with a rejection.             *)
CONSTANTS Requests, Runtimes, Nobody

VARIABLES
  promise,   \* promise[r]: none, open, or how it settled
  target,    \* target[r]: the runtime the call is addressed to
  executed   \* pairs of a request and a runtime that has executed it

callVars == <<promise, target, executed>>

CallInit ==
  /\ promise = [r \in Requests |-> "none"]
  /\ target = [r \in Requests |-> Nobody]
  /\ executed = {}

Ask(r) ==
  /\ promise[r] = "none"
  /\ promise' = [promise EXCEPT ![r] = "open"]
  /\ \E rt \in Runtimes : target' = [target EXCEPT ![r] = rt]
  /\ UNCHANGED executed

\* A runtime does not learn that a call was rejected meanwhile.
Work(r) ==
  /\ promise[r] # "none"
  /\ executed' = executed \cup {<<r, target[r]>>}
  /\ UNCHANGED <<promise, target>>

Reply(r, out) ==
  /\ promise[r] = "open" /\ <<r, target[r]>> \in executed
  /\ promise' = [promise EXCEPT ![r] = out]
  /\ UNCHANGED <<target, executed>>

\* A deadline, a revocation, another runtime's connection or a restart.
Reject(S) ==
  /\ \A r \in S : promise[r] = "open"
  /\ promise' = [r \in Requests |-> IF r \in S THEN "rejected" ELSE promise[r]]
  /\ UNCHANGED <<target, executed>>

CallNext ==
  \/ \E r \in Requests : Ask(r) \/ Work(r) \/ Reply(r, "answered") \/ Reply(r, "failed")
  \/ \E S \in SUBSET Requests : Reject(S)

CallSpec == CallInit /\ [][CallNext]_callVars
==============================================================================
