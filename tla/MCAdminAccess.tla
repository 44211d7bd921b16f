--------------------------- MODULE MCAdminAccess ---------------------------
(***************************************************************************)
(* Two people of one domain, of whom the list allows one.  Requests,       *)
(* tokens and states are alike: all properties are invariants.             *)
(***************************************************************************)
EXTENDS AdminAccess, TLC

CONSTANTS listed, unlisted, domain

MCEmails == {listed, unlisted}

MCAllowed == {listed}

MCDomains == {domain}

MCDomainOf == [e \in MCEmails |-> domain]

MCSymmetry == Permutations(Requests) \cup Permutations(Tokens) \cup Permutations(States)
=============================================================================
