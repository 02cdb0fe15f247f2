----------------------------- MODULE MCDelivery -----------------------------
(* Bounds for checking Delivery. *)
EXTENDS Delivery, FiniteSetsExt

CONSTANTS
    MaxPipe,    \* packets in the pipe
    MaxFetches, \* requests per message id that the owner may owe
    MaxOwed     \* requests that the owner may owe together

MCStarts == {Oldest, Newest, Nth}
MCOldestNewest == {Oldest, Newest}

DeliveryBoundedNext ==
    /\ DeliveryNext
    /\ Len(pipe') <= MaxPipe
    /\ \A i \in TreeIds : fetches'[i] <= MaxFetches
    /\ MapThenSumSet(LAMBDA i : fetches'[i], TreeIds) <= MaxOwed

DeliveryBoundedSpec == DeliveryInit /\ [][DeliveryBoundedNext]_vars
=============================================================================
