------------------------------ MODULE MCSpooler ------------------------------
(* Bounds for checking Spooler with an unrestricted store and channel. *)
EXTENDS Spooler

CONSTANT MaxFetches  \* requests per message id that the store may owe

MCStarts == {Oldest, Newest, Nth}

MCNext ==
    /\ SpoolerNext
    /\ \A i \in TreeIds : fetches'[i] + stale'[i] <= MaxFetches

MCSpec == SpoolerInit /\ [][MCNext]_spoolerVars
=============================================================================
