---------------------------- MODULE MCAuditChain ----------------------------
(***************************************************************************)
(* Small instances of AuditChain for TLC: one handler in each of two       *)
(* replicas, or both in one.  Content2 hashes like Content1: it has the    *)
(* empty action for none, and its event has taken in the separator.  An    *)
(* edit of the timestamp is the one a hash tells.                          *)
(***************************************************************************)
EXTENDS AuditChain

CONSTANTS r1, r2, w1, w2

OneReplica  == {r1}
TwoReplicas == {r1, r2}
OneWriter   == {w1}
TwoWriters  == {w1, w2}

\* Contents of rows: an action id, an event type and details.
Content1 == [action |-> Null, event |-> "e", details |-> "f|d"]
Content2 == [action |-> "", event |-> "e|f", details |-> "d"]

OneEvent == {Content1}
MCEvents == {Content1, Content2}

\* What compute_entry_hash joins.
Text(field) == IF field = Null THEN "" ELSE field

MCJoined ==
    [c \in Events \X Stamps |->
        Text(c[1].action) \o "|" \o c[1].event \o "|" \o c[1].details \o "|" \o c[2]]

MCHome == [w \in Writers |-> IF w = w1 \/ r2 \notin Replicas THEN r1 ELSE r2]
=============================================================================
