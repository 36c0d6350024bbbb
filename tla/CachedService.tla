--------------------------- MODULE CachedService ---------------------------
(***************************************************************************)
(* What the search and extract endpoints promise their callers, whatever   *)
(* happens to permits, timers, Redis and the blocking pool: one answer per *)
(* call, a fresh answer built from the call's own results, a cached answer *)
(* built from results that some call for the same thing completed and that *)
(* is never told it failed, and nothing after the answer.                  *)
(***************************************************************************)
CONSTANTS
    Requests,  \* the calls
    KeyOf,     \* what each call asks for
    Nobody     \* "no producer"

VARIABLES
    state,     \* each call: new, pending, ok, failed, or gone
    source,    \* whose results an ok call was answered with
    produced   \* the calls whose own results are complete

serviceVars == <<state, source, produced>>

\* "gone": the route's timeout or the client's departure dropped the call.
States == {"new", "pending", "ok", "failed", "gone"}

ServiceInit ==
    /\ state = [r \in Requests |-> "new"]
    /\ source = [r \in Requests |-> Nobody]
    /\ produced = {}

Submit(r) ==
    /\ state[r] = "new"
    /\ state' = [state EXCEPT ![r] = "pending"]
    /\ UNCHANGED <<source, produced>>

\* The results are complete, perhaps after the call was given up on.
Produce(r) ==
    /\ state[r] # "new"
    /\ produced' = produced \cup {r}
    /\ UNCHANGED <<state, source>>

AnswerWith(r, p) ==
    /\ state[r] = "pending"
    /\ p \in produced
    /\ KeyOf[p] = KeyOf[r]
    /\ state[p] # "failed"
    /\ state' = [state EXCEPT ![r] = "ok"]
    /\ source' = [source EXCEPT ![r] = p]
    /\ UNCHANGED produced

Refuse(r) ==
    /\ state[r] \in {"new", "pending"}
    /\ r \notin produced
    /\ state' = [state EXCEPT ![r] = "failed"]
    /\ UNCHANGED <<source, produced>>

GiveUp(r) ==
    /\ state[r] = "pending"
    /\ state' = [state EXCEPT ![r] = "gone"]
    /\ UNCHANGED <<source, produced>>

ServiceNext ==
    \E r \in Requests :
        \/ Submit(r) \/ Produce(r) \/ Refuse(r) \/ GiveUp(r)
        \/ \E p \in Requests : AnswerWith(r, p)

ServiceSpec == ServiceInit /\ [][ServiceNext]_serviceVars
=============================================================================
