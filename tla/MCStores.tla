------------------------------ MODULE MCStores ------------------------------
(* StoreManager and VectorSystems on small instances: the handles of user  *)
(* u are <<u, 1>>, <<u, 2>>, ... so that the number of times a user can be *)
(* opened is the bound Opens.                                              *)
EXTENDS VectorSystems, TLC

CONSTANT Opens

MCHandles == Users \X (1..Opens)
MCOwner == [h \in MCHandles |-> h[1]]
MCSymmetry == Permutations(Clients) \cup Permutations(Users)
=============================================================================
