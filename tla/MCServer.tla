------------------------------- MODULE MCServer -------------------------------
(* An instance of Server for TLC.                                            *)
EXTENDS Server

\* Two clients with subjects of their own.
TwoClients == {"ann", "bob"}
TwoSubjects == [c \in TwoClients |-> c]
=============================================================================
