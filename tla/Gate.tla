-------------------------------- MODULE Gate --------------------------------
(***************************************************************************)
(* What the watchdog promises about one action, whatever happens inside:   *)
(*                                                                         *)
(*   - the first decision recorded for an action stands for good;          *)
(*   - the action is relayed to its target only after an approving         *)
(*     decision, so an undecided action is a blocked action.               *)
(*                                                                         *)
(* ActionLifecycle implements this with a verdicts table, a status column  *)
(* and a forward handler; the mapping is at the end of that module.        *)
(***************************************************************************)
CONSTANT Actions

VARIABLES decision,   \* decision[a]: the decision that stands, or "none"
          released    \* the actions their targets have received

vars == <<decision, released>>

Decisions == {"approved", "denied", "escalate"}

TypeOK ==
    /\ decision \in [Actions -> Decisions \cup {"none"}]
    /\ released \in SUBSET Actions

Init ==
    /\ decision = [a \in Actions |-> "none"]
    /\ released = {}

Decide(a) ==
    /\ decision[a] = "none"
    /\ \E d \in Decisions : decision' = [decision EXCEPT ![a] = d]
    /\ UNCHANGED released

Release(a) ==
    /\ decision[a] = "approved"
    /\ released' = released \cup {a}
    /\ UNCHANGED decision

Next == \E a \in Actions : Decide(a) \/ Release(a)

Spec == Init /\ [][Next]_vars
=============================================================================
