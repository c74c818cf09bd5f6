--------------------------- MODULE MCStreamSettings ---------------------------
(* Instances of StreamSettings for TLC: bodies the clients send, valid or not. *)
EXTENDS StreamSettings

Join(policy_, code_) == [policy |-> policy_, code |-> code_]
ByCode == Join("by_code", "123456")

MCCreateRequests ==
    {[name |-> name_, join |-> j, launch |-> launch_, host |-> host_] :
        name_ \in {"", "talk"}, launch_ \in {"", Bad}, host_ \in {Bad, "talk"},
        j \in {Join("by_code", ""), Join("host_resolve", ""), Join(Bad, "")}}

\* A name, a join policy or both; with a host, some of them panic.
MCPatchRequests ==
    {[name |-> name_, join |-> <<>>, host |-> host_] :
        name_ \in Given({Bad, "demo"}), host_ \in Given({"demo"})}
    \cup {[name |-> <<>>, join |-> <<j>>, host |-> host_] :
        j \in {Join("auto", Bad), Join("by_code", "letters"), Join("", ""), Join(Bad, "")},
        host_ \in Given({Bad})}
    \cup {[name |-> <<"demo">>, join |-> <<ByCode>>, host |-> <<>>]}
=============================================================================
