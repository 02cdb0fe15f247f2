----------------------------- MODULE ReadersWriter -----------------------------
(***************************************************************************)
(* What a readers-writer lock promises: any number of processes read, or   *)
(* one writes.                                                             *)
(***************************************************************************)
CONSTANT Procs
VARIABLES readers, writers

RWInit == readers = {} /\ writers = {}

Reads(p) == writers = {} /\ p \notin readers /\ readers' = readers \cup {p} /\ UNCHANGED writers
StopsReading(p) == p \in readers /\ readers' = readers \ {p} /\ UNCHANGED writers
Writes(p) == writers = {} /\ readers = {} /\ writers' = {p} /\ UNCHANGED readers
StopsWriting(p) == p \in writers /\ writers' = writers \ {p} /\ UNCHANGED readers

RWNext == \E p \in Procs : Reads(p) \/ StopsReading(p) \/ Writes(p) \/ StopsWriting(p)
RWSpec == RWInit /\ [][RWNext]_<<readers, writers>>
===============================================================================
