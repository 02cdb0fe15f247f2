------------------------------ MODULE MCShared ------------------------------
(***************************************************************************)
(* What workers do to each other's channels, in two parts of which a       *)
(* behaviour takes one: "delivery", MCDelivery, and "groups", Groups.      *)
(***************************************************************************)
EXTENDS MCDelivery, Groups

VARIABLE part

MCInit ==
    /\ part \in {"delivery", "groups"}
    /\ DeliveryInit /\ GroupsInit
    /\ part # "delivery" => \A s \in Subs : last[s] = Oldest

MCNext ==
    /\ UNCHANGED part
    /\ IF part = "delivery" THEN DeliveryBoundedNext ELSE UNCHANGED vars
    /\ IF part = "groups" THEN GroupsNext ELSE UNCHANGED groupVars

MCSpec == MCInit /\ [][MCNext]_<<part, vars, groupVars>>
=============================================================================
