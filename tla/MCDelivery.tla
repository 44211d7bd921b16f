----------------------------- MODULE MCDelivery -----------------------------
(***************************************************************************)
(* Two actions, of two agents; the socket is of the first.  A window lasts *)
(* one tick, and the clock runs two.                                       *)
(***************************************************************************)
EXTENDS Delivery

CONSTANTS a1, a2, agent, other, ip

MCActions == {a1, a2}

MCAgents == {agent, other}

MCOwner == [a \in MCActions |-> IF a = a1 THEN agent ELSE other]

MCSources == {ip}

MCAgentOf == [k \in Sockets |-> agent]

MCSourceOf == [k \in Sockets |-> ip]
=============================================================================
