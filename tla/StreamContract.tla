---------------------------- MODULE StreamContract ----------------------------
(***************************************************************************)
(* What the server promises about one stream, seen from outside: requests  *)
(* reach the stream while it is open, and the storage keeps a record of    *)
(* it.  A stream is opened once, never before its record exists, and a     *)
(* finished record stays finished unless a patch of the record, begun      *)
(* while the stream was open, is stored late.                              *)
(***************************************************************************)
CONSTANTS
    Streams,
    Patching  \* whether clients patch records

VARIABLES
    access,   \* access[s]: can requests reach the stream
    record    \* record[s]: the status in the storage

contractVars == <<access, record>>

Init ==
    /\ access = [s \in Streams |-> "never"]
    /\ record = [s \in Streams |-> "absent"]

Record(s) ==
    /\ record[s] = "absent"
    /\ access[s] = "never"
    /\ record' = [record EXCEPT ![s] = "running"]
    /\ UNCHANGED access

Open(s) ==
    /\ access[s] = "never"
    /\ record[s] # "absent"
    /\ access' = [access EXCEPT ![s] = "open"]
    /\ UNCHANGED record

\* One stream is killed, or all of them are gone with the server process.
Close(S) ==
    /\ \A s \in S : access[s] = "open"
    /\ access' = [s \in Streams |-> IF s \in S THEN "closed" ELSE access[s]]
    /\ UNCHANGED record

\* An interrupt that comes early may finish the record before the stream opens.
Finish(s) ==
    /\ record[s] = "running"
    /\ record' = [record EXCEPT ![s] = "finished"]
    /\ UNCHANGED access

Revive(s) ==
    /\ Patching
    /\ access[s] # "never"
    /\ record[s] = "finished"
    /\ record' = [record EXCEPT ![s] = "running"]
    /\ UNCHANGED access

Next ==
    \/ \E s \in Streams : Record(s) \/ Open(s) \/ Finish(s) \/ Revive(s)
    \/ \E S \in SUBSET Streams : Close(S)

Spec == Init /\ [][Next]_contractVars
=============================================================================
