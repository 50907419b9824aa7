---------------------------- MODULE CallContract ----------------------------
(***************************************************************************)
(* What the request path promises of one attempt (tryRequest or            *)
(* tryStreamRequest), whatever happens to its provider's queue meanwhile:  *)
(*   - the provider is called at most once;                                *)
(*   - a provider outcome is returned only if the provider was called;     *)
(*   - an attempt the gateway refused ("provider is shutting down", queue  *)
(*     full, no key, no provider, ...) was not sent to the provider and    *)
(*     never will be, so that a retry or a fallback does not repeat work;  *)
(*   - an attempt whose context ended may or may not still be executed.    *)
(***************************************************************************)
EXTENDS Naturals

CONSTANT Calls

VARIABLES outcome, execs

vars == <<outcome, execs>>

Outcomes == {"open", "provider", "refused", "cancelled"}

Init ==
    /\ outcome = [c \in Calls |-> "open"]
    /\ execs = [c \in Calls |-> 0]

Execute(c) ==
    /\ outcome[c] \in {"open", "cancelled"}
    /\ execs[c] = 0
    /\ execs' = [execs EXCEPT ![c] = 1]
    /\ UNCHANGED outcome

Resolve(c, o) ==
    /\ outcome[c] = "open"
    /\ o = "provider" => execs[c] = 1
    /\ o = "refused" => execs[c] = 0
    /\ outcome' = [outcome EXCEPT ![c] = o]
    /\ UNCHANGED execs

Next ==
    \E c \in Calls :
        Execute(c) \/ \E o \in {"provider", "refused", "cancelled"} : Resolve(c, o)

Spec == Init /\ [][Next]_vars

\* A refused attempt has not been sent to the provider.
RefusedNotExecuted == \A c \in Calls : outcome[c] = "refused" => execs[c] = 0
=============================================================================
