------------------------- MODULE OperationLifecycle -------------------------
(***************************************************************************)
(* What the ECC runtime promises to a caller that holds an operation: it   *)
(* is created running, it settles in exactly one outcome that never        *)
(* changes again, and that outcome is announced (event, outcome list,      *)
(* waiters) at most once and never before it is known.                     *)
(***************************************************************************)
CONSTANTS Ids,       \* the operation objects
          Outcomes   \* the terminal states of EccRuntimeOperation

VARIABLES state,     \* state[i]: "absent", "running" or a member of Outcomes
          announced  \* announced[i]: the outcome of i has been published

vars == <<state, announced>>

TypeOK == /\ state \in [Ids -> {"absent", "running"} \union Outcomes]
          /\ announced \in [Ids -> BOOLEAN]

Init == /\ state = [i \in Ids |-> "absent"]
        /\ announced = [i \in Ids |-> FALSE]

Create(i) == /\ state[i] = "absent"
             /\ state' = [state EXCEPT ![i] = "running"]
             /\ UNCHANGED announced

Settle(i, o) == /\ state[i] = "running"
                /\ state' = [state EXCEPT ![i] = o]
                /\ UNCHANGED announced

Announce(i) == /\ state[i] \in Outcomes
               /\ ~announced[i]
               /\ announced' = [announced EXCEPT ![i] = TRUE]
               /\ UNCHANGED state

Next == \E i \in Ids : \/ Create(i)
                       \/ \E o \in Outcomes : Settle(i, o)
                       \/ Announce(i)

Spec == Init /\ [][Next]_vars
=============================================================================
