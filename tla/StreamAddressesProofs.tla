------------------------- MODULE StreamAddressesProofs -------------------------
(* Theorems about StreamAddresses for every set of streams, ports, requests and *)
(* faults.                                                                     *)
EXTENDS StreamAddresses, StreamLifecycleProofs, FiniteSetTheorems

\* Two programs that run with one port: their launches overlapped, or one of them
\* had no choice.
PortsInv ==
    /\ port \in [Streams -> Ports \cup {0}]
    /\ overlap \in [Streams -> SUBSET Streams]
    /\ process \in [Streams -> {"none", "created", "running", "clean", "failed"}]
    /\ bound \subseteq Running
    /\ \A s, t \in Running :
          s # t /\ port[s] = port[t] /\ preferred[s] = 0 /\ preferred[t] = 0
              => t \in overlap[s] /\ s \in overlap[t]

\* The streams change a process to one that does not run, except in Launch.
LEMMA NothingStarts ==
    ASSUME process \in [Streams -> {"none", "created", "running", "clean", "failed"}],
           NEW s \in Streams, OtherStep(s)
    PROVE  /\ process' \in [Streams -> {"none", "created", "running", "clean", "failed"}]
           /\ \A t \in Streams : process'[t] = "running" => process[t] = "running"
  <1> USE DEF processVars, launchVars
  <1>1. ASSUME LaunchFails(s)
        PROVE  process' = [process EXCEPT ![s] = "created"] \/ UNCHANGED process
    BY <1>1 DEF LaunchFails, ContainerLeft
  <1>2. ASSUME GiveUp(s) \/ \E k \in Killers : KillStop(s, k)
        PROVE  \/ process' = [process EXCEPT ![s] = IF @ = "running" THEN "failed" ELSE @]
               \/ UNCHANGED process
    BY <1>2 DEF GiveUp, KillStop, StopProcess
  <1>3. ASSUME ProcessExits(s)
        PROVE  \E outcome \in {"clean", "failed"} : process' = [process EXCEPT ![s] = outcome]
    BY <1>3 DEF ProcessExits
  <1>4. ASSUME \/ StoreRow(s) \/ StoreRowFails(s) \/ Aborted(s) \/ Register(s)
               \/ AnnounceHost(s) \/ WaitReturns(s) \/ Interrupt(s)
               \/ \E f \in Finishers : FinishStream(s, f)
        PROVE  UNCHANGED process
    BY <1>4 DEF StoreRow, StoreRowFails, Aborted, Register, AnnounceHost, WaitReturns, Interrupt,
                FinishStream
  <1>5. ASSUME NEW k \in Killers, KillStep(s, k), ~ KillStop(s, k) PROVE UNCHANGED process
    BY <1>5 DEF KillStep, KillRuns, KillCallsBolt, KillLookup, KillDelete, KillLoad, KillStore
  <1>6. \/ UNCHANGED process
        \/ \E outcome \in {"created", "clean", "failed"} :
              process' = [process EXCEPT ![s] = outcome]
        \/ process' = [process EXCEPT ![s] = IF @ = "running" THEN "failed" ELSE @]
    BY <1>1, <1>2, <1>3, <1>4, <1>5 DEF OtherStep
  <1> QED
    BY <1>6

LEMMA PortsNext == PortsInv /\ [AddressesNext]_addressVars => PortsInv'
  <1> SUFFICES ASSUME PortsInv, [AddressesNext]_addressVars PROVE PortsInv'
    OBVIOUS
  <1> USE DEF PortsInv, Running
  <1>1. ASSUME NEW s \in Streams, LaunchAt(s) PROVE PortsInv'
    <2>1. PICK p \in Ports : PicksPort(s, p) /\ port' = [port EXCEPT ![s] = p]
      BY <1>1 DEF LaunchAt
    <2>2. process' = [process EXCEPT ![s] = "running"] /\ UNCHANGED <<preferred, bound>>
      BY <1>1 DEF LaunchAt, Launch
    <2>3. overlap' = [t \in Streams |->
                         IF t = s THEN Starting ELSE IF t \in Starting THEN overlap[t] \cup {s}
                                                     ELSE overlap[t]]
      BY <1>1 DEF LaunchAt
    <2>4. ASSUME NEW t \in Running', t # s, port'[t] = port'[s], preferred[s] = 0
          PROVE  t \in Starting
      BY <2>1, <2>2, <2>4 DEF PicksPort, FreePort, Answers, Starting
    <2>5. ASSUME NEW t \in Running', NEW u \in Running',
                 t # u, port'[t] = port'[u], preferred'[t] = 0, preferred'[u] = 0
          PROVE  u \in overlap'[t] /\ t \in overlap'[u]
      <3>1. CASE t = s
        BY <2>2, <2>3, <2>4, <2>5, <3>1
      <3>2. CASE u = s
        BY <2>2, <2>3, <2>4, <2>5, <3>2
      <3>3. CASE t # s /\ u # s
        <4>1. t \in Running /\ u \in Running /\ port[t] = port[u]
          BY <2>1, <2>2, <2>5, <3>3
        <4> QED
          BY <2>2, <2>3, <2>5, <3>3, <4>1
      <3> QED
        BY <3>1, <3>2, <3>3
    <2>6. overlap' \in [Streams -> SUBSET Streams]
      BY <2>3 DEF Starting
    <2> QED
      BY <2>1, <2>2, <2>5, <2>6
  <1>2. ASSUME NEW s \in Streams, Binds(s) PROVE PortsInv'
    BY <1>2 DEF Binds, Starting, vars, processVars
  <1>3. ASSUME NEW s \in Streams, BindFails(s) PROVE PortsInv'
    BY <1>3 DEF BindFails, Starting, portVars
  <1>4. ASSUME NEW s \in Streams, Dials(s) PROVE PortsInv'
    BY <1>4 DEF Dials, Connected, ConnectRetry, processVars, portVars
  <1>5. ASSUME NEW s \in Streams, OtherStep(s) PROVE PortsInv'
    <2>1. /\ process' \in [Streams -> {"none", "created", "running", "clean", "failed"}]
          /\ Running' \subseteq Running
      BY <1>5, NothingStarts
    <2>2. /\ bound' = {t \in bound : process'[t] = "running"}
          /\ UNCHANGED <<preferred, port, overlap>>
      BY <1>5 DEF OtherStep
    <2> QED
      BY <2>1, <2>2
  <1>6. CASE Crash /\ UNCHANGED portVars
    BY <1>6 DEF Crash, portVars
  <1>7. CASE UNCHANGED addressVars
    BY <1>7 DEF addressVars, portVars, vars, processVars
  <1> QED
    BY <1>1, <1>2, <1>3, <1>4, <1>5, <1>6, <1>7 DEF AddressesNext, BindStep

\* With free ports the address of a stream whose program runs is answered by no other
\* stream, unless their launches overlapped: for any number of streams and ports,
\* with failures and restarts.
THEOREM OwnProgramCorrect == AddressesSpec => []OwnProgramAnswers
  <1>1. AddressesInit => PortsInv
    BY DEF AddressesInit, Init, PortsInv, Running
  <1>2. PortsInv => OwnProgramAnswers
    BY DEF PortsInv, OwnProgramAnswers, Reached, StreamAddress, Answers
  <1> QED
    BY <1>1, <1>2, PortsNext, PTL DEF AddressesSpec

-----------------------------------------------------------------------------
(* The invariants of StreamLifecycle hold with ports, because every action *)
(* here is built from one there.                                           *)

\* Every action with ports is one of StreamLifecycle or leaves the streams alone.
LEMMA AddressesStep == [AddressesNext]_addressVars => [Next]_vars
  <1>1. ASSUME NEW s \in Streams, LaunchAt(s) PROVE Next
    BY <1>1 DEF LaunchAt, Next
  <1>2. ASSUME NEW s \in Streams, Binds(s) PROVE UNCHANGED vars
    BY <1>2 DEF Binds
  <1>3. ASSUME NEW s \in Streams, BindFails(s) PROVE ProcessExits(s)
    BY <1>3 DEF BindFails, Starting, Running, ProcessExits
  <1>4. ASSUME NEW s \in Streams, Dials(s) PROVE Next
    BY <1>4 DEF Dials, CreatorStep, CreatorRuns, CreatorCallsBolt, Next
  <1>5. ASSUME NEW s \in Streams, OtherStep(s) PROVE Next
    BY <1>5 DEF OtherStep, CreatorStep, CreatorRuns, CreatorCallsBolt, Next
  <1>6. UNCHANGED addressVars => UNCHANGED vars
    BY DEF addressVars
  <1> QED
    BY <1>1, <1>2, <1>3, <1>4, <1>5, <1>6 DEF AddressesNext, BindStep, Next

LEMMA LifecycleTypes == AddressesSpec => []TypeOK
  <1>1. AddressesInit => Init
    BY DEF AddressesInit
  <1> QED
    BY <1>1, AddressesStep, TypeCorrect, PTL DEF AddressesSpec, Spec

-----------------------------------------------------------------------------
(* Types, and one listener at a port.                                      *)

\* What makes AddressesTypeOK inductive: a stream that is not launched yet has no
\* running program, so the port of a listening program never changes.
ListenersInv ==
    /\ preferred \in [Streams -> Preferences]
    /\ \A s \in Streams : creator[s] = "idle" => process[s] # "running"
    /\ \A s, t \in bound : port[s] = port[t] => s = t

LEMMA ListenersNext ==
    ASSUME TypeOK, PortsInv, ListenersInv, [AddressesNext]_addressVars
    PROVE  ListenersInv'
  <1>1. preferred' = preferred
    BY DEF AddressesNext, LaunchAt, BindStep, Binds, BindFails, Dials, OtherStep, portVars,
        addressVars
  <1>2. ASSUME NEW s \in Streams, creator'[s] = "idle" PROVE process'[s] # "running"
    <2>1. creator[s] = "idle" /\ process[s] # "running"
      BY <1>2, AddressesStep, IdleWasIdle DEF ListenersInv
    <2>2. Launch(s) => creator'[s] = "connecting"
      BY DEF Launch, TypeOK
    <2> QED
      BY <1>2, <2>1, <2>2, AddressesStep, OnlyLaunchRuns
  <1>3. ASSUME NEW s \in bound', NEW t \in bound', port'[s] = port'[t] PROVE s = t
    <2> USE DEF ListenersInv, PortsInv, Running
    <2>1. ASSUME NEW u \in Streams, LaunchAt(u) PROVE s = t
      <3>1. u \notin bound /\ bound' = bound
        BY <2>1 DEF LaunchAt, Launch
      <3>2. port'[s] = port[s] /\ port'[t] = port[t]
        BY <2>1, <3>1 DEF LaunchAt
      <3> QED
        BY <1>3, <3>1, <3>2
    <2>2. ASSUME NEW u \in Streams, Binds(u) PROVE s = t
      <3>1. /\ bound' = bound \cup {u} /\ port' = port
            /\ \A v \in bound : port[v] # port[u]
        BY <2>2 DEF Binds, Answers
      <3> QED
        BY <1>3, <3>1
    <2>3. ASSUME NEW u \in Streams, BindFails(u) \/ Dials(u) \/ OtherStep(u) PROVE s = t
      <3>1. port' = port /\ bound' \subseteq bound
        BY <2>3 DEF BindFails, Dials, OtherStep, portVars
      <3> QED
        BY <1>3, <3>1
    <2>4. CASE UNCHANGED portVars
      BY <1>3, <2>4 DEF portVars
    <2> QED
      BY <2>1, <2>2, <2>3, <2>4 DEF AddressesNext, BindStep, addressVars
  <1> QED
    BY <1>1, <1>2, <1>3 DEF ListenersInv

\* A program answers at a port alone, for any number of ports and programs, and only
\* running programs answer.
THEOREM AddressesTypeCorrect == AddressesSpec => []AddressesTypeOK
  <1>1. AddressesInit => PortsInv /\ ListenersInv
    BY DEF AddressesInit, Init, PortsInv, ListenersInv, Running
  <1>2. PortsInv /\ ListenersInv => AddressesTypeOK
    <2> SUFFICES ASSUME PortsInv, ListenersInv PROVE AddressesTypeOK
      OBVIOUS
    <2>1. ASSUME NEW p \in Ports PROVE Cardinality(Answers(p)) <= 1
      <3>1. CASE Answers(p) = {}
        <4>1. Cardinality({}) = 0
          BY FS_EmptySet
        <4> QED
          BY <3>1, <4>1
      <3>2. CASE Answers(p) # {}
        <4>1. PICK s : s \in Answers(p)
          BY <3>2
        <4>2. Answers(p) = {s}
          BY <4>1 DEF Answers, ListenersInv
        <4>3. Cardinality({s}) = 1
          BY FS_Singleton
        <4> QED
          BY <4>2, <4>3
      <3> QED
        BY <3>1, <3>2
    <2> QED
      BY <2>1 DEF PortsInv, ListenersInv, AddressesTypeOK
  <1> QED
    BY <1>1, <1>2, LifecycleTypes, PortsNext, ListenersNext, PTL DEF AddressesSpec
=============================================================================
