------------------------ MODULE StreamLifecycleProofs ------------------------
(* Theorems about StreamLifecycle for every set of streams and requests, every *)
(* retry limit and, unless a theorem says otherwise, every set of failures.    *)
EXTENDS StreamLifecycle, TLAPS

-----------------------------------------------------------------------------
(* Type correctness.                                                       *)

\* The records the goroutines copy around are rows.
LEMMA RowTypes ==
    /\ NoRow \in Row
    /\ NewRow \in Row
    /\ \A r \in Row, k \in Killers : Finished(r, k) \in Row
    /\ \A r \in Row, p \in Patchers : Patched(r, p) \in Row
  <1>1. NoRow \in Row /\ NewRow \in Row
    BY DEF NoRow, NewRow, Row
  <1>2. ASSUME NEW r \in Row, NEW k \in Killers PROVE Finished(r, k) \in Row
    BY DEF Finished, Row
  <1>3. ASSUME NEW r \in Row, NEW p \in Patchers PROVE Patched(r, p) \in Row
    BY DEF Patched, Row
  <1> QED
    BY <1>1, <1>2, <1>3

\* The names of the two internal killers are killers, like every finisher.
LEMMA KillerNames ==
    /\ "listener" \in Killers
    /\ "creator" \in Killers
    /\ Finishers \subseteq Killers
  BY DEF Killers

\* The retry limit is a positive number.
LEMMA LimitType == RetryCount \in Nat /\ RetryCount > 0
  BY LifecycleAssumption

\* While NewStream dials, it has a dial left: TypeOK alone does not say so and is
\* not inductive.
DialsLeft ==
    \A s \in Streams : creator[s] \in {"idle", "connecting"} => tries[s] < RetryCount

TypeInv == TypeOK /\ DialsLeft

\* Every initial state is well-typed.
LEMMA InitTypeInv == Init => TypeInv
  <1> SUFFICES ASSUME Init PROVE TypeInv
    OBVIOUS
  <1>1. mode \in [Streams -> {"standalone_app", "docker_container"}]
    BY LifecycleAssumption DEF Init
  <1>2. tries \in [Streams -> 0 .. RetryCount]
    <2>1. 0 \in 0 .. RetryCount
      BY LimitType
    <2> QED
      BY <2>1 DEF Init
  <1>3. DialsLeft
    BY LimitType DEF Init, DialsLeft
  <1>4. TypeOK
    BY <1>1, <1>2, RowTypes DEF Init, TypeOK, CreatorPC, KillPC, PatchPC
  <1> QED
    BY <1>3, <1>4 DEF TypeInv

\* Only connectToStream counts, and only NewStream before it can come to dial.
LEMMA DialsLeftKept ==
    ASSUME TypeInv, UNCHANGED tries,
           \A s \in Streams :
               creator'[s] \in {"idle", "connecting"} => creator[s] \in {"idle", "connecting"}
    PROVE  DialsLeft'
  BY DEF TypeInv, DialsLeft

\* The rest of the state, as a step leaves it alone.
LEMMA DialsLeftUnchanged ==
    ASSUME TypeInv, UNCHANGED <<creator, tries>>
    PROVE  DialsLeft'
  BY DEF TypeInv, DialsLeft

\* StopProcess leaves the process in one of its states.
LEMMA StopProcessType ==
    ASSUME TypeOK, NEW s \in Streams, StopProcess(s)
    PROVE  process' \in [Streams -> {"none", "created", "running", "clean", "failed"}]
  BY DEF StopProcess, TypeOK

\* The arithmetic of a failed dial.
LEMMA BelowLimit ==
    ASSUME NEW n \in Nat, n < RetryCount
    PROVE  /\ n + 1 \in 0 .. RetryCount
           /\ n + 1 # RetryCount => n + 1 < RetryCount
  BY LimitType

LEMMA TriesType ==
    ASSUME TypeInv, NEW s \in Streams, creator[s] = "connecting"
    PROVE  tries[s] \in Nat /\ tries[s] < RetryCount /\ tries[s] + 1 \in 0 .. RetryCount
  <1>1. tries[s] \in 0 .. RetryCount
    BY DEF TypeInv, TypeOK
  <1>2. tries[s] < RetryCount
    BY DEF TypeInv, DialsLeft
  <1> QED
    BY <1>1, <1>2, LimitType, BelowLimit

\* Every step of NewStream keeps the types.
LEMMA CreatorTypeInv ==
    ASSUME TypeInv, NEW s \in Streams, Launch(s) \/ LaunchFails(s) \/ CreatorStep(s)
    PROVE  TypeInv'
  <1>a. TypeOK
    BY DEF TypeInv
  <1> USE <1>a DEF TypeOK, CreatorPC, KillPC, launchVars, processVars, killVars, patchVars
  <1>1. CASE Launch(s)
    <2>1. TypeOK'
      BY <1>1 DEF Launch
    <2>2. DialsLeft'
      BY <1>1, DialsLeftKept DEF Launch
    <2> QED
      BY <2>1, <2>2 DEF TypeInv
  <1>2. CASE LaunchFails(s)
    <2>1. process' \in [Streams -> {"none", "created", "running", "clean", "failed"}]
      BY <1>2 DEF LaunchFails, ContainerLeft
    <2>2. TypeOK'
      BY <1>2, <2>1 DEF LaunchFails, ContainerLeft
    <2>3. DialsLeft'
      BY <1>2, DialsLeftKept DEF LaunchFails, ContainerLeft
    <2> QED
      BY <2>2, <2>3 DEF TypeInv
  <1>3. CASE Connected(s)
    <2>1. TypeOK'
      BY <1>3 DEF Connected
    <2>2. DialsLeft'
      BY <1>3, DialsLeftKept DEF Connected
    <2> QED
      BY <2>1, <2>2 DEF TypeInv
  <1>4. CASE ConnectRetry(s)
    <2>1. tries[s] \in Nat /\ tries[s] < RetryCount /\ tries[s] + 1 \in 0 .. RetryCount
      BY <1>4, TriesType DEF ConnectRetry
    <2>2. tries'[s] = tries[s] + 1
      BY <1>4 DEF ConnectRetry
    <2>3. /\ tries' \in [Streams -> 0 .. RetryCount]
          /\ creator' \in [Streams -> CreatorPC]
      BY <1>4, <2>1 DEF ConnectRetry
    <2>4. TypeOK'
      BY <1>4, <2>3 DEF ConnectRetry
    <2>5. DialsLeft'
      <3> SUFFICES ASSUME NEW t \in Streams, creator'[t] \in {"idle", "connecting"}
                   PROVE  tries'[t] < RetryCount
        BY DEF DialsLeft
      <3>1. CASE t = s
        <4>1. creator'[s] # "idle" /\ (creator'[s] = "connecting" => tries'[s] # RetryCount)
          BY <1>4 DEF ConnectRetry
        <4>2. tries'[s] # RetryCount
          BY <3>1, <4>1
        <4> QED
          BY <2>1, <2>2, <3>1, <4>2, LimitType, BelowLimit
      <3>2. CASE t # s
        BY <1>4, <3>2 DEF ConnectRetry, TypeInv, DialsLeft
      <3> QED
        BY <3>1, <3>2
    <2> QED
      BY <2>4, <2>5 DEF TypeInv
  <1>5. CASE GiveUp(s)
    <2>1. TypeOK'
      BY <1>5, StopProcessType DEF GiveUp
    <2>2. DialsLeft'
      BY <1>5, DialsLeftKept DEF GiveUp
    <2> QED
      BY <2>1, <2>2 DEF TypeInv
  <1>6. CASE StoreRow(s)
    <2>1. TypeOK'
      BY <1>6, RowTypes DEF StoreRow
    <2>2. DialsLeft'
      BY <1>6, DialsLeftKept DEF StoreRow
    <2> QED
      BY <2>1, <2>2 DEF TypeInv
  <1>7. CASE StoreRowFails(s)
    <2>1. TypeOK'
      BY <1>7, KillerNames DEF StoreRowFails
    <2>2. DialsLeft'
      BY <1>7, DialsLeftKept DEF StoreRowFails
    <2> QED
      BY <2>1, <2>2 DEF TypeInv
  <1>8. CASE Aborted(s)
    <2>1. TypeOK'
      BY <1>8 DEF Aborted
    <2>2. DialsLeft'
      BY <1>8, DialsLeftKept DEF Aborted
    <2> QED
      BY <2>1, <2>2 DEF TypeInv
  <1>9. CASE Register(s)
    <2>1. TypeOK'
      BY <1>9 DEF Register
    <2>2. DialsLeft'
      BY <1>9, DialsLeftKept DEF Register
    <2> QED
      BY <2>1, <2>2 DEF TypeInv
  <1> QED
    BY <1>1, <1>2, <1>3, <1>4, <1>5, <1>6, <1>7, <1>8, <1>9 DEF CreatorStep, CreatorRuns,
        CreatorCallsBolt

\* Every step of the process, of the goroutines that watch it and of the host's
\* announcement keeps the types.
LEMMA ProcessTypeInv ==
    ASSUME TypeInv, NEW s \in Streams,
           \/ AnnounceHost(s)
           \/ ProcessExits(s)
           \/ WaitReturns(s)
           \/ WaitFails(s)
           \/ Interrupt(s)
    PROVE  TypeInv'
  <1>a. TypeOK
    BY DEF TypeInv
  <1> USE <1>a DEF TypeOK, CreatorPC, KillPC, launchVars, processVars, killVars, patchVars
  <1>1. CASE AnnounceHost(s)
    BY <1>1, DialsLeftUnchanged DEF AnnounceHost, TypeInv
  <1>2. CASE ProcessExits(s)
    <2>1. PICK outcome \in {"clean", "failed"} : process' = [process EXCEPT ![s] = outcome]
      BY <1>2 DEF ProcessExits
    <2> QED
      BY <1>2, <2>1, DialsLeftUnchanged DEF ProcessExits, TypeInv
  <1>3. CASE WaitReturns(s)
    BY <1>3, DialsLeftUnchanged DEF WaitReturns, TypeInv
  <1>4. CASE WaitFails(s)
    BY <1>4, DialsLeftUnchanged DEF WaitFails, TypeInv
  <1>5. CASE Interrupt(s)
    BY <1>5, KillerNames, DialsLeftUnchanged DEF Interrupt, TypeInv
  <1> QED
    BY <1>1, <1>2, <1>3, <1>4, <1>5

\* Every step of FinishStream and killStream keeps the types.
LEMMA KillTypeInv ==
    ASSUME TypeInv, NEW s \in Streams, NEW k \in Killers,
           KillStep(s, k) \/ (k \in Finishers /\ FinishStream(s, k))
    PROVE  TypeInv'
  <1>a. TypeOK
    BY DEF TypeInv
  <1> USE <1>a DEF TypeOK, CreatorPC, KillPC, launchVars, processVars, killVars, patchVars
  <1>1. CASE FinishStream(s, k)
    <2>1. PICK pc \in {"lookup", "rejected"} : kill' = [kill EXCEPT ![s][k] = pc]
      BY <1>1 DEF FinishStream
    <2>2. UNCHANGED <<streams, row, launchVars, processVars, killCopy, patchVars>>
      BY <1>1 DEF FinishStream
    <2>3. TypeOK'
      BY <2>1, <2>2
    <2>4. DialsLeft'
      BY <2>2, DialsLeftUnchanged
    <2> QED
      BY <2>3, <2>4 DEF TypeInv
  <1>2. CASE KillLookup(s, k)
    BY <1>2, DialsLeftUnchanged DEF KillLookup, TypeInv
  <1>3. CASE KillStop(s, k)
    BY <1>3, StopProcessType, DialsLeftUnchanged DEF KillStop, TypeInv
  <1>4. CASE KillDelete(s, k)
    BY <1>4, DialsLeftUnchanged DEF KillDelete, TypeInv
  <1>5. CASE KillLoad(s, k)
    <2>1. PICK pc \in {"done", "store"} : kill' = [kill EXCEPT ![s][k] = pc]
      BY <1>5 DEF KillLoad
    <2> QED
      BY <1>5, <2>1, DialsLeftUnchanged DEF KillLoad, TypeInv
  <1>6. CASE KillStore(s, k)
    <2>1. Finished(killCopy[s][k], k) \in Row
      BY RowTypes
    <2>2. row' \in [Streams -> Row]
      BY <1>6, <2>1 DEF KillStore
    <2> QED
      BY <1>6, <2>2, DialsLeftUnchanged DEF KillStore, TypeInv
  <1> QED
    BY <1>1, <1>2, <1>3, <1>4, <1>5, <1>6 DEF KillStep, KillRuns, KillCallsBolt

\* Every step of PatchStream keeps the types.
LEMMA PatchTypeInv ==
    ASSUME TypeInv, NEW s \in Streams, NEW p \in Patchers,
           PatchLoad(s, p) \/ PatchStep(s, p)
    PROVE  TypeInv'
  <1>a. TypeOK
    BY DEF TypeInv
  <1> USE <1>a DEF TypeOK, PatchPC, launchVars, processVars, killVars, patchVars
  <1>1. CASE PatchLoad(s, p)
    BY <1>1, DialsLeftUnchanged DEF PatchLoad, TypeInv
  <1>2. CASE PatchLookup(s, p)
    <2>1. PICK pc \in {"store", "error"} : patch' = [patch EXCEPT ![s][p] = pc]
      BY <1>2 DEF PatchLookup
    <2> QED
      BY <1>2, <2>1, DialsLeftUnchanged DEF PatchLookup, TypeInv
  <1>3. CASE PatchStore(s, p)
    <2>1. Patched(draft[s][p], p) \in Row
      BY RowTypes
    <2>2. row' \in [Streams -> Row]
      BY <1>3, <2>1 DEF PatchStore
    <2>3. PICK pc \in {"ok", "error"} : patch' = [patch EXCEPT ![s][p] = pc]
      BY <1>3 DEF PatchStore
    <2> QED
      BY <1>3, <2>2, <2>3, DialsLeftUnchanged DEF PatchStore, TypeInv
  <1> QED
    BY <1>1, <1>2, <1>3 DEF PatchStep

\* A restart of the server keeps the types.
LEMMA CrashTypeInv == ASSUME TypeInv, Crash PROVE TypeInv'
  <1>a. TypeOK
    BY DEF TypeInv
  <1> USE <1>a DEF TypeOK
  <1>1. creator' \in [Streams -> CreatorPC] /\ notice' \in [Streams -> {"none", "pending",
      "sent", "dropped"}]
    BY DEF Crash, CreatorPC
  <1>2. kill' \in [Streams -> [Killers -> KillPC]]
    BY DEF Crash, KillPC
  <1>3. patch' \in [Streams -> [Patchers -> PatchPC]]
    BY DEF Crash, PatchPC
  <1>4. TypeOK'
    BY <1>1, <1>2, <1>3 DEF Crash
  <1>5. DialsLeft'
    BY DialsLeftKept DEF Crash
  <1> QED
    BY <1>4, <1>5 DEF TypeInv

\* Together: TypeInv is inductive.
LEMMA NextTypeInv == TypeInv /\ [Next]_vars => TypeInv'
  <1> SUFFICES ASSUME TypeInv, [Next]_vars PROVE TypeInv'
    OBVIOUS
  <1>1. CASE UNCHANGED vars
    <2> USE <1>1 DEF vars, launchVars, processVars, killVars, patchVars
    <2>1. TypeOK'
      BY DEF TypeInv, TypeOK
    <2>2. DialsLeft'
      BY DialsLeftUnchanged
    <2> QED
      BY <2>1, <2>2 DEF TypeInv
  <1>2. CASE Crash
    BY <1>2, CrashTypeInv
  <1>3. ASSUME NEW s \in Streams, Launch(s) \/ LaunchFails(s) \/ CreatorStep(s)
        PROVE  TypeInv'
    BY <1>3, CreatorTypeInv
  <1>4. ASSUME NEW s \in Streams,
               \/ AnnounceHost(s)
               \/ ProcessExits(s)
               \/ WaitReturns(s)
               \/ WaitFails(s)
               \/ Interrupt(s)
        PROVE  TypeInv'
    BY <1>4, ProcessTypeInv
  <1>5. ASSUME NEW s \in Streams, NEW f \in Finishers, FinishStream(s, f) PROVE TypeInv'
    BY <1>5, KillTypeInv, KillerNames
  <1>6. ASSUME NEW s \in Streams, NEW k \in Killers, KillStep(s, k) PROVE TypeInv'
    BY <1>6, KillTypeInv
  <1>7. ASSUME NEW s \in Streams, NEW p \in Patchers, PatchLoad(s, p) \/ PatchStep(s, p)
        PROVE  TypeInv'
    BY <1>7, PatchTypeInv
  <1> QED
    BY <1>1, <1>2, <1>3, <1>4, <1>5, <1>6, <1>7 DEF Next

\* TypeOK is an invariant of the lifecycle, whatever fails.
THEOREM TypeCorrect == Spec => []TypeOK
  <1>1. TypeInv => TypeOK
    BY DEF TypeInv
  <1> QED
    BY <1>1, InitTypeInv, NextTypeInv, PTL DEF Spec

-----------------------------------------------------------------------------
(* Registration: the row is stored before the module is.                   *)

\* What makes RegisteredHasRow inductive: NewStream comes to Register only through
\* StoreRow, and no Store of another request brings NoRow back.
RegistrationInv ==
    /\ \A s \in streams : creator[s] = "created"
    /\ \A s \in Streams : creator[s] \in {"registering", "created"} => row[s] # NoRow

\* No goroutine stores the absent row.
LEMMA StoredRows ==
    /\ NewRow # NoRow
    /\ \A r, k : Finished(r, k) # NoRow
    /\ \A r \in Row, p \in Patchers : Patched(r, p) # NoRow
  <1>1. NewRow # NoRow
    BY DEF NewRow, NoRow
  <1>2. ASSUME NEW r, NEW k PROVE Finished(r, k) # NoRow
    BY DEF Finished, NoRow
  <1>3. ASSUME NEW r \in Row, NEW p \in Patchers PROVE Patched(r, p) # NoRow
    BY DEF Patched, NoRow, Row
  <1> QED
    BY <1>1, <1>2, <1>3

LEMMA RegistrationNext ==
    ASSUME TypeOK, RegistrationInv, [Next]_vars PROVE RegistrationInv'
  <1> USE DEF RegistrationInv, launchVars, processVars, killVars, patchVars
  <1>a. /\ creator \in [Streams -> CreatorPC]
        /\ row \in [Streams -> Row]
        /\ streams \subseteq Streams
    BY DEF TypeOK
  <1>1. ASSUME UNCHANGED <<streams, creator, row>> PROVE RegistrationInv'
    BY <1>1
  <1>2. ASSUME NEW s \in Streams, Launch(s) \/ LaunchFails(s) PROVE RegistrationInv'
    BY <1>2, <1>a DEF Launch, LaunchFails, ContainerLeft
  <1>3. ASSUME NEW s \in Streams, CreatorStep(s) PROVE RegistrationInv'
    <2>1. CASE Connected(s) \/ ConnectRetry(s) \/ GiveUp(s) \/ StoreRowFails(s) \/ Aborted(s)
      <3>1. PICK pc \in {"connecting", "storing", "giving up", "failed", "aborting"} :
              creator' = [creator EXCEPT ![s] = pc]
        BY <2>1, <1>a DEF Connected, ConnectRetry, GiveUp, StoreRowFails, Aborted
      <3>2. creator[s] \notin {"created", "registering"} /\ UNCHANGED <<streams, row>>
        BY <2>1 DEF Connected, ConnectRetry, GiveUp, StoreRowFails, Aborted
      <3> QED
        BY <3>1, <3>2, <1>a
    <2>2. CASE StoreRow(s)
      BY <2>2, <1>a, StoredRows DEF StoreRow
    <2>3. CASE Register(s)
      BY <2>3, <1>a DEF Register
    <2> QED
      BY <1>3, <2>1, <2>2, <2>3 DEF CreatorStep, CreatorRuns, CreatorCallsBolt
  <1>4. ASSUME NEW s \in Streams, NEW k \in Killers, KillStep(s, k) PROVE RegistrationInv'
    <2>1. CASE KillDelete(s, k)
      BY <2>1 DEF KillDelete
    <2>2. CASE KillStore(s, k)
      BY <2>2, <1>a, StoredRows DEF KillStore
    <2>3. CASE KillLookup(s, k) \/ KillStop(s, k) \/ KillLoad(s, k)
      BY <2>3, <1>1 DEF KillLookup, KillStop, KillLoad
    <2> QED
      BY <1>4, <2>1, <2>2, <2>3 DEF KillStep, KillRuns, KillCallsBolt
  <1>5. ASSUME NEW s \in Streams, NEW p \in Patchers, PatchLoad(s, p) \/ PatchStep(s, p)
        PROVE  RegistrationInv'
    <2>1. CASE PatchStore(s, p)
      <3>1. draft[s][p] \in Row
        BY DEF TypeOK
      <3>2. row' = [row EXCEPT ![s] = Patched(draft[s][p], p)] \/ UNCHANGED row
        BY <2>1 DEF PatchStore
      <3>3. UNCHANGED <<streams, creator>>
        BY <2>1 DEF PatchStore
      <3> QED
        BY <3>1, <3>2, <3>3, <1>a, StoredRows
    <2>2. CASE PatchLoad(s, p) \/ PatchLookup(s, p)
      BY <2>2, <1>1 DEF PatchLoad, PatchLookup
    <2> QED
      BY <1>5, <2>1, <2>2 DEF PatchStep
  <1>6. CASE Crash
    BY <1>6, <1>a DEF Crash
  <1>7. ASSUME NEW s \in Streams,
               \/ AnnounceHost(s)
               \/ ProcessExits(s)
               \/ WaitReturns(s)
               \/ WaitFails(s)
               \/ Interrupt(s)
               \/ \E f \in Finishers : FinishStream(s, f)
        PROVE  RegistrationInv'
    BY <1>7, <1>1 DEF AnnounceHost, ProcessExits, WaitReturns, WaitFails, Interrupt, FinishStream
  <1>8. CASE UNCHANGED vars
    BY <1>8, <1>1 DEF vars
  <1> QED
    BY <1>2, <1>3, <1>4, <1>5, <1>6, <1>7, <1>8 DEF Next

\* Every stream in the map has a row, whatever fails.
THEOREM RegistrationCorrect == Spec => []RegisteredHasRow
  <1>1. Init => RegistrationInv
    BY DEF Init, RegistrationInv
  <1>2. TypeOK /\ RegistrationInv => RegisteredHasRow
    BY DEF TypeOK, RegistrationInv, RegisteredHasRow
  <1> QED
    BY <1>1, <1>2, RegistrationNext, TypeCorrect, PTL DEF Spec

-----------------------------------------------------------------------------
(* The end: what FinishStream has done when it answers.                    *)

\* A request is let into killStream only for a created stream, and past the
\* deletion the stream is out of the map; a created stream is not registered again.
FinishInv ==
    \A s \in Streams : \A f \in Finishers :
        /\ kill[s][f] \in KillInFlight \cup {"done"} => creator[s] = "created"
        /\ kill[s][f] \in {"load", "store", "done"} => s \notin streams

LEMMA FinishNext ==
    ASSUME TypeOK, RegistrationInv, FinishInv, [Next]_vars PROVE FinishInv'
  <1> USE KillerNames DEF launchVars, processVars, killVars, patchVars
  <1>a. /\ creator \in [Streams -> CreatorPC]
        /\ streams \subseteq Streams
    BY DEF TypeOK
  <1>b. kill \in [Streams -> [Killers -> KillPC]]
    BY DEF TypeOK
  <1>1. ASSUME UNCHANGED <<streams, creator, kill>> PROVE FinishInv'
    BY <1>1 DEF FinishInv
  <1>2. ASSUME NEW s \in Streams, Launch(s) \/ LaunchFails(s) PROVE FinishInv'
    BY <1>2, <1>a DEF Launch, LaunchFails, ContainerLeft, FinishInv
  <1>3. ASSUME NEW s \in Streams, CreatorStep(s) PROVE FinishInv'
    <2>1. CASE Connected(s) \/ ConnectRetry(s) \/ GiveUp(s) \/ StoreRow(s) \/ Aborted(s)
      <3>1. creator[s] # "created" /\ UNCHANGED <<streams, kill>>
        BY <2>1 DEF Connected, ConnectRetry, GiveUp, StoreRow, Aborted
      <3>2. \A t \in Streams : t # s => creator'[t] = creator[t]
        BY <2>1, <1>a DEF Connected, ConnectRetry, GiveUp, StoreRow, Aborted
      <3> QED
        BY <3>1, <3>2 DEF FinishInv
    <2>2. CASE StoreRowFails(s)
      <3>1. creator[s] # "created" /\ UNCHANGED streams
        BY <2>2 DEF StoreRowFails
      <3>2. \A t \in Streams : t # s => creator'[t] = creator[t]
        BY <2>2, <1>a DEF StoreRowFails
      <3>3. \A t \in Streams : \A f \in Finishers : kill'[t][f] = kill[t][f]
        BY <2>2, <1>b, LifecycleAssumption DEF StoreRowFails
      <3> QED
        BY <3>1, <3>2, <3>3 DEF FinishInv
    <2>3. CASE Register(s)
      <3>1. creator[s] # "created" /\ streams' = streams \cup {s} /\ UNCHANGED kill
        BY <2>3 DEF Register
      <3>2. \A t \in Streams : t # s => creator'[t] = creator[t]
        BY <2>3, <1>a DEF Register
      <3> QED
        BY <3>1, <3>2 DEF FinishInv, KillInFlight
    <2> QED
      BY <1>3, <2>1, <2>2, <2>3 DEF CreatorStep, CreatorRuns, CreatorCallsBolt
  <1>4. ASSUME NEW s \in Streams, Interrupt(s) PROVE FinishInv'
    <2>1. \A t \in Streams : \A f \in Finishers : kill'[t][f] = kill[t][f]
      BY <1>4, <1>b, LifecycleAssumption DEF Interrupt
    <2> QED
      BY <1>4, <2>1 DEF Interrupt, FinishInv
  <1>5. ASSUME NEW s \in Streams, NEW f \in Finishers, FinishStream(s, f) PROVE FinishInv'
    <2>1. PICK pc \in {"lookup", "rejected"} :
            /\ kill' = [kill EXCEPT ![s][f] = pc]
            /\ pc = "lookup" => s \in streams
      BY <1>5 DEF FinishStream
    <2>2. UNCHANGED <<streams, creator>>
      BY <1>5 DEF FinishStream
    <2>3. s \in streams => creator[s] = "created"
      BY DEF RegistrationInv
    <2>4. /\ kill'[s][f] = pc
          /\ \A t \in Streams : \A j \in Killers : t # s \/ j # f => kill'[t][j] = kill[t][j]
      BY <2>1, <1>b
    <2> SUFFICES ASSUME NEW t \in Streams, NEW g \in Finishers
                 PROVE  /\ kill'[t][g] \in KillInFlight \cup {"done"} => creator'[t] = "created"
                        /\ kill'[t][g] \in {"load", "store", "done"} => t \notin streams'
      BY DEF FinishInv
    <2>5. CASE t = s /\ g = f
      BY <2>1, <2>2, <2>3, <2>4, <2>5 DEF KillInFlight
    <2>6. CASE t # s \/ g # f
      BY <2>2, <2>4, <2>6 DEF FinishInv
    <2> QED
      BY <2>5, <2>6
  <1>6. ASSUME NEW s \in Streams, NEW k \in Killers, KillStep(s, k) PROVE FinishInv'
    <2>1. PICK pc :
            /\ kill' = [kill EXCEPT ![s][k] = pc]
            /\ pc \in {"load", "store", "done"} =>
                 kill[s][k] \in {"load", "store", "done"} \/ s \notin streams'
      BY <1>6 DEF KillStep, KillRuns, KillCallsBolt, KillLookup, KillStop, KillDelete, KillLoad,
          KillStore
    <2>2. kill[s][k] \in KillInFlight /\ streams' \subseteq streams /\ UNCHANGED creator
      BY <1>6 DEF KillStep, KillRuns, KillCallsBolt, KillLookup, KillStop, KillDelete, KillLoad,
          KillStore, KillInFlight
    <2>3. /\ kill'[s][k] = pc
          /\ \A t \in Streams : \A j \in Killers : t # s \/ j # k => kill'[t][j] = kill[t][j]
      BY <2>1, <1>b
    <2> SUFFICES ASSUME NEW t \in Streams, NEW f \in Finishers
                 PROVE  /\ kill'[t][f] \in KillInFlight \cup {"done"} => creator'[t] = "created"
                        /\ kill'[t][f] \in {"load", "store", "done"} => t \notin streams'
      BY DEF FinishInv
    <2>4. CASE t = s /\ f = k
      BY <2>1, <2>2, <2>3, <2>4 DEF FinishInv
    <2>5. CASE t # s \/ f # k
      BY <2>2, <2>3, <2>5 DEF FinishInv
    <2> QED
      BY <2>4, <2>5
  <1>7. CASE Crash
    <2>1. \A t \in Streams : creator[t] = "created" => creator'[t] = "created"
      BY <1>7 DEF Crash
    <2>2. \A t \in Streams : \A f \in Finishers :
             kill'[t][f] \in KillInFlight \cup {"done"} => kill'[t][f] = kill[t][f]
      BY <1>7 DEF Crash, KillInFlight
    <2>3. streams' = {}
      BY <1>7 DEF Crash
    <2> QED
      BY <2>1, <2>2, <2>3 DEF FinishInv
  <1>8. ASSUME NEW s \in Streams,
               \/ AnnounceHost(s)
               \/ ProcessExits(s)
               \/ WaitReturns(s)
               \/ WaitFails(s)
               \/ \E p \in Patchers : PatchLoad(s, p) \/ PatchStep(s, p)
        PROVE  FinishInv'
    BY <1>8, <1>1 DEF AnnounceHost, ProcessExits, WaitReturns, WaitFails, PatchLoad,
       PatchStep, PatchLookup, PatchStore
  <1>9. CASE UNCHANGED vars
    BY <1>9, <1>1 DEF vars
  <1> QED
    BY <1>2, <1>3, <1>4, <1>5, <1>6, <1>7, <1>8, <1>9 DEF Next

LEMMA FinishInit == Init => FinishInv
  BY KillerNames DEF Init, FinishInv, KillInFlight

\* A stream whose FinishStream has answered is out of the map and stays out,
\* whatever fails.
THEOREM FinishCorrect == Spec => []FinishUnregisters
  <1>1. Init => RegistrationInv
    BY DEF Init, RegistrationInv
  <1>2. FinishInv => FinishUnregisters
    BY DEF FinishInv, FinishUnregisters
  <1> QED
    BY <1>1, <1>2, FinishInit, RegistrationNext, FinishNext, TypeCorrect, PTL DEF Spec

\* Before the launch nobody kills the stream; a killer deletes the module only
\* after it has stopped the process, so a request that finds the module deleted
\* finds the process stopped.
StopInv ==
    \A s \in Streams :
        /\ creator[s] = "idle" =>
             listener[s] # "listening" /\ \A k \in Killers : kill[s][k] \notin KillInFlight
        /\ \A k \in Killers : kill[s][k] = "delete" => process[s] # "running"
        /\ \A f \in Finishers :
             /\ kill[s][f] = "lookup" /\ s \notin streams => process[s] # "running"
             /\ kill[s][f] \in {"load", "store", "done"} => process[s] # "running"

\* Only Launch starts a process, and only for a stream that is idle.
LEMMA OnlyLaunchRuns ==
    ASSUME TypeOK, [Next]_vars, NEW s \in Streams, process'[s] = "running"
    PROVE  process[s] = "running" \/ Launch(s)
  <1> USE DEF launchVars, processVars, killVars, patchVars
  <1>a. process \in [Streams -> {"none", "created", "running", "clean", "failed"}]
    BY DEF TypeOK
  <1>1. ASSUME UNCHANGED process PROVE process[s] = "running"
    BY <1>1
  <1>2. ASSUME NEW t \in Streams, StopProcess(t) PROVE process[s] = "running"
    BY <1>2, <1>a DEF StopProcess
  <1>3. ASSUME NEW t \in Streams, Launch(t) PROVE process[s] = "running" \/ Launch(s)
    BY <1>3, <1>a DEF Launch
  <1>4. ASSUME NEW t \in Streams, LaunchFails(t) PROVE process[s] = "running"
    BY <1>4, <1>a DEF LaunchFails, ContainerLeft
  <1>5. ASSUME NEW t \in Streams, ProcessExits(t) PROVE process[s] = "running"
    BY <1>5, <1>a DEF ProcessExits
  <1>6. ASSUME NEW t \in Streams, CreatorStep(t) PROVE process[s] = "running"
    BY <1>1, <1>2, <1>6 DEF CreatorStep, CreatorRuns, CreatorCallsBolt, Connected, ConnectRetry,
        GiveUp, StoreRow,
       StoreRowFails, Aborted, Register
  <1>7. ASSUME NEW t \in Streams, NEW k \in Killers, KillStep(t, k) PROVE process[s] = "running"
    BY <1>1, <1>2, <1>7 DEF KillStep, KillRuns, KillCallsBolt, KillLookup, KillStop, KillDelete,
        KillLoad, KillStore
  <1>8. ASSUME NEW t \in Streams,
               \/ AnnounceHost(t)
               \/ WaitReturns(t)
               \/ WaitFails(t)
               \/ Interrupt(t)
               \/ \E f \in Finishers : FinishStream(t, f)
               \/ \E p \in Patchers : PatchLoad(t, p) \/ PatchStep(t, p)
        PROVE  process[s] = "running"
    BY <1>1, <1>8 DEF AnnounceHost, WaitReturns, WaitFails, Interrupt, FinishStream,
       PatchLoad, PatchStep, PatchLookup, PatchStore
  <1>9. CASE Crash
    BY <1>1, <1>9 DEF Crash
  <1>10. CASE UNCHANGED vars
    BY <1>1, <1>10 DEF vars
  <1> QED
    BY <1>3, <1>4, <1>5, <1>6, <1>7, <1>8, <1>9, <1>10 DEF Next

\* Which steps move a killer, empty the map or fill it.
LEMMA WhoKills ==
    ASSUME TypeOK, [Next]_vars, NEW s \in Streams, NEW k \in Killers, kill'[s][k] # kill[s][k]
    PROVE  \/ Crash
           \/ k \in Finishers /\ FinishStream(s, k)
           \/ Interrupt(s)
           \/ StoreRowFails(s)
           \/ KillStep(s, k)
  <1> USE DEF launchVars, processVars, killVars, patchVars
  <1>a. kill \in [Streams -> [Killers -> KillPC]]
    BY DEF TypeOK
  <1>1. ASSUME UNCHANGED kill PROVE FALSE
    BY <1>1
  <1>2. ASSUME NEW t \in Streams, NEW j \in Killers, NEW pc,
               kill' = [kill EXCEPT ![t][j] = pc]
        PROVE  t = s /\ j = k
    BY <1>2, <1>a
  <1>3. ASSUME NEW t \in Streams, NEW j \in Killers, KillStep(t, j) PROVE t = s /\ j = k
    <2>1. \E pc : kill' = [kill EXCEPT ![t][j] = pc]
      BY <1>3 DEF KillStep, KillRuns, KillCallsBolt, KillLookup, KillStop, KillDelete, KillLoad,
          KillStore
    <2> QED
      BY <1>2, <2>1
  <1>4. ASSUME NEW t \in Streams, NEW f \in Finishers, FinishStream(t, f)
        PROVE  t = s /\ f = k
    BY <1>2, <1>4, KillerNames DEF FinishStream
  <1>5. ASSUME NEW t \in Streams, Interrupt(t) PROVE t = s
    BY <1>2, <1>5, KillerNames DEF Interrupt
  <1>6. ASSUME NEW t \in Streams, CreatorStep(t) PROVE StoreRowFails(s)
    <2>1. CASE StoreRowFails(t)
      BY <1>2, <2>1, KillerNames DEF StoreRowFails
    <2>2. CASE ~ StoreRowFails(t)
      BY <1>1, <1>6, <2>2 DEF CreatorStep, CreatorRuns, CreatorCallsBolt, Connected,
          ConnectRetry, GiveUp, StoreRow, Aborted,
         Register
    <2> QED
      BY <2>1, <2>2
  <1>7. ASSUME NEW t \in Streams,
               \/ Launch(t)
               \/ LaunchFails(t)
               \/ AnnounceHost(t)
               \/ ProcessExits(t)
               \/ WaitReturns(t)
               \/ WaitFails(t)
               \/ \E p \in Patchers : PatchLoad(t, p) \/ PatchStep(t, p)
        PROVE  FALSE
    BY <1>1, <1>7 DEF Launch, LaunchFails, ContainerLeft, AnnounceHost, ProcessExits,
        WaitReturns, WaitFails,
       PatchLoad, PatchStep, PatchLookup, PatchStore
  <1>8. CASE UNCHANGED vars
    BY <1>1, <1>8 DEF vars
  <1> QED
    BY <1>3, <1>4, <1>5, <1>6, <1>7, <1>8 DEF Next

LEMMA WhoUnregisters ==
    ASSUME [Next]_vars, NEW s \in Streams, s \in streams, s \notin streams'
    PROVE  Crash \/ \E k \in Killers : KillDelete(s, k)
  <1> USE DEF launchVars, processVars, killVars, patchVars
  <1>1. ASSUME streams \subseteq streams' PROVE FALSE
    BY <1>1
  <1>2. ASSUME NEW t \in Streams, NEW k \in Killers, KillStep(t, k)
        PROVE  KillDelete(s, k)
    BY <1>1, <1>2 DEF KillStep, KillRuns, KillCallsBolt, KillLookup, KillStop, KillDelete,
        KillLoad, KillStore
  <1>3. ASSUME NEW t \in Streams, CreatorStep(t) PROVE FALSE
    BY <1>1, <1>3 DEF CreatorStep, CreatorRuns, CreatorCallsBolt, Connected, ConnectRetry,
        GiveUp, StoreRow, StoreRowFails,
       Aborted, Register
  <1>4. ASSUME NEW t \in Streams,
               \/ Launch(t)
               \/ LaunchFails(t)
               \/ AnnounceHost(t)
               \/ ProcessExits(t)
               \/ WaitReturns(t)
               \/ WaitFails(t)
               \/ Interrupt(t)
               \/ \E f \in Finishers : FinishStream(t, f)
               \/ \E p \in Patchers : PatchLoad(t, p) \/ PatchStep(t, p)
        PROVE  FALSE
    BY <1>1, <1>4 DEF Launch, LaunchFails, ContainerLeft, AnnounceHost, ProcessExits,
        WaitReturns, WaitFails,
       Interrupt, FinishStream, PatchLoad, PatchStep, PatchLookup, PatchStore
  <1>5. CASE UNCHANGED vars
    BY <1>1, <1>5 DEF vars
  <1> QED
    BY <1>2, <1>3, <1>4, <1>5 DEF Next

\* NewStream draws a new UUID: an idle stream was idle before, and nobody listens
\* for a stream that has not been launched.
LEMMA IdleWasIdle ==
    ASSUME TypeOK, [Next]_vars, NEW s \in Streams, creator'[s] = "idle"
    PROVE  /\ creator[s] = "idle"
           /\ listener'[s] = "listening" => listener[s] = "listening"
  <1> USE DEF launchVars, processVars, killVars, patchVars
  <1>a. /\ creator \in [Streams -> CreatorPC]
        /\ listener \in [Streams -> {"none", "listening", "done"}]
    BY DEF TypeOK
  <1>1. ASSUME UNCHANGED <<creator, listener>> PROVE
           /\ creator[s] = "idle"
           /\ listener'[s] = "listening" => listener[s] = "listening"
    BY <1>1
  <1>2. ASSUME NEW t \in Streams, Launch(t) \/ LaunchFails(t) \/ CreatorStep(t)
        PROVE  /\ creator[s] = "idle"
               /\ listener'[s] = "listening" => listener[s] = "listening"
    BY <1>2, <1>a DEF Launch, LaunchFails, ContainerLeft, CreatorStep, CreatorRuns,
        CreatorCallsBolt, Connected, ConnectRetry, GiveUp,
       StoreRow, StoreRowFails, Aborted, Register
  <1>3. ASSUME NEW t \in Streams, Interrupt(t)
        PROVE  /\ creator[s] = "idle"
               /\ listener'[s] = "listening" => listener[s] = "listening"
    BY <1>3, <1>a DEF Interrupt
  <1>4. ASSUME NEW t \in Streams, NEW k \in Killers, KillStep(t, k)
        PROVE  /\ creator[s] = "idle"
               /\ listener'[s] = "listening" => listener[s] = "listening"
    BY <1>1, <1>4 DEF KillStep, KillRuns, KillCallsBolt, KillLookup, KillStop, KillDelete,
        KillLoad, KillStore
  <1>5. ASSUME NEW t \in Streams,
               \/ AnnounceHost(t)
               \/ ProcessExits(t)
               \/ WaitReturns(t)
               \/ WaitFails(t)
               \/ \E f \in Finishers : FinishStream(t, f)
               \/ \E p \in Patchers : PatchLoad(t, p) \/ PatchStep(t, p)
        PROVE  /\ creator[s] = "idle"
               /\ listener'[s] = "listening" => listener[s] = "listening"
    BY <1>1, <1>5 DEF AnnounceHost, ProcessExits, WaitReturns, WaitFails, FinishStream,
       PatchLoad, PatchStep, PatchLookup, PatchStore
  <1>6. CASE Crash
    BY <1>6 DEF Crash
  <1>7. CASE UNCHANGED vars
    BY <1>1, <1>7 DEF vars
  <1> QED
    BY <1>2, <1>3, <1>4, <1>5, <1>6, <1>7 DEF Next

LEMMA StopNext ==
    ASSUME TypeOK, RegistrationInv, FinishInv, StopInv, [Next]_vars, "stop" \notin Faults
    PROVE  StopInv'
  <1> USE DEF KillInFlight
  <1>a. kill \in [Streams -> [Killers -> KillPC]] /\ creator \in [Streams -> CreatorPC]
    BY DEF TypeOK
  <1> SUFFICES ASSUME NEW s \in Streams
      PROVE /\ creator'[s] = "idle" =>
                  listener'[s] # "listening" /\ \A k \in Killers : kill'[s][k] \notin KillInFlight
            /\ \A k \in Killers : kill'[s][k] = "delete" => process'[s] # "running"
            /\ \A f \in Finishers :
                 /\ kill'[s][f] = "lookup" /\ s \notin streams' => process'[s] # "running"
                 /\ kill'[s][f] \in {"load", "store", "done"} => process'[s] # "running"
    BY DEF StopInv
  <1>1. ASSUME creator[s] # "idle", process[s] # "running" PROVE process'[s] # "running"
    BY <1>1, OnlyLaunchRuns DEF Launch
  <1>2. ASSUME creator'[s] = "idle", NEW k \in Killers
        PROVE  listener'[s] # "listening" /\ kill'[s][k] \notin KillInFlight
    <2>1. /\ creator[s] = "idle"
          /\ listener[s] # "listening" /\ listener'[s] # "listening"
          /\ kill[s][k] \notin KillInFlight
      BY <1>2, IdleWasIdle DEF StopInv
    <2>2. s \notin streams
      BY <2>1 DEF RegistrationInv
    <2>3. CASE Crash
      <3>1. kill'[s][k] = IF kill[s][k] \in KillInFlight THEN "lost" ELSE kill[s][k]
        BY <2>3 DEF Crash
      <3> QED
        BY <2>1, <3>1
    <2>4. CASE FinishStream(s, k)
      BY <1>a, <2>1, <2>2, <2>4 DEF FinishStream
    <2>5. ~ Interrupt(s) /\ ~ StoreRowFails(s) /\ ~ KillStep(s, k)
      BY <2>1 DEF Interrupt, StoreRowFails, KillStep, KillRuns, KillCallsBolt, KillLookup,
          KillStop, KillDelete,
         KillLoad, KillStore
    <2>6. CASE kill'[s][k] # kill[s][k]
      <3>1. Crash \/ FinishStream(s, k)
        BY <2>5, <2>6, WhoKills
      <3> QED
        BY <2>3, <2>4, <3>1
    <2> QED
      BY <2>1, <2>6
  <1>3. ASSUME NEW k \in Killers, kill'[s][k] = "delete" PROVE process'[s] # "running"
    <2>1. CASE kill[s][k] = "delete"
      <3>1. creator[s] # "idle" /\ process[s] # "running"
        BY <2>1 DEF StopInv
      <3> QED
        BY <1>1, <3>1
    <2>2. CASE kill[s][k] # "delete"
      <3>1. ~ Crash
        BY <1>a, <1>3, <2>2 DEF Crash
      <3>2. ~ FinishStream(s, k)
        BY <1>a, <1>3 DEF FinishStream
      <3>3. Interrupt(s) \/ StoreRowFails(s) => FALSE
        BY <1>a, <1>3, <2>2, KillerNames DEF Interrupt, StoreRowFails
      <3>4. KillStep(s, k)
        BY <1>3, <2>2, <3>1, <3>2, <3>3, WhoKills
      <3>5. KillStop(s, k)
        BY <1>a, <1>3, <3>4 DEF KillStep, KillRuns, KillCallsBolt, KillLookup, KillStop,
            KillDelete, KillLoad, KillStore
      <3> QED
        BY <3>5 DEF KillStop, StopProcess, TypeOK
    <2> QED
      BY <2>1, <2>2
  <1>4. ASSUME NEW f \in Finishers, kill'[s][f] = "lookup", s \notin streams'
        PROVE  process'[s] # "running"
    <2>0. f \in Killers
      BY KillerNames
    <2>1. ~ Crash
      <3>1. Crash => kill'[s][f] = IF kill[s][f] \in KillInFlight THEN "lost" ELSE kill[s][f]
        BY <2>0 DEF Crash
      <3> QED
        BY <1>4, <3>1
    <2>2. kill[s][f] = "lookup"
      <3>1. ~ FinishStream(s, f)
        BY <1>a, <1>4, <2>0 DEF FinishStream
      <3>2. ASSUME Interrupt(s) \/ StoreRowFails(s) PROVE kill[s][f] = "lookup"
        BY <1>a, <1>4, <2>0, <3>2, LifecycleAssumption, KillerNames DEF Interrupt, StoreRowFails
      <3>3. ~ KillStep(s, f)
        BY <1>a, <1>4, <2>0 DEF KillStep, KillRuns, KillCallsBolt, KillLookup, KillStop,
            KillDelete, KillLoad, KillStore
      <3> QED
        BY <1>4, <2>0, <2>1, <3>1, <3>2, <3>3, WhoKills
    <2>3. creator[s] # "idle"
      BY <2>2 DEF FinishInv
    <2>4. CASE s \notin streams
      BY <1>1, <2>2, <2>3, <2>4 DEF StopInv
    <2>5. CASE s \in streams
      <3>1. PICK k \in Killers : KillDelete(s, k)
        BY <1>4, <2>1, <2>5, WhoUnregisters
      <3> QED
        BY <1>1, <2>3, <3>1 DEF KillDelete, StopInv
    <2> QED
      BY <2>4, <2>5
  <1>5. ASSUME NEW f \in Finishers, kill'[s][f] \in {"load", "store", "done"}
        PROVE  process'[s] # "running"
    <2>0. f \in Killers
      BY KillerNames
    <2>1. CASE kill[s][f] \in {"load", "store", "done"}
      BY <1>1, <2>1 DEF StopInv, FinishInv
    <2>2. CASE kill[s][f] \notin {"load", "store", "done"}
      <3>1. ~ Crash /\ ~ FinishStream(s, f) /\ ~ Interrupt(s) /\ ~ StoreRowFails(s)
        BY <1>a, <1>5, <2>0, <2>2, LifecycleAssumption, KillerNames
        DEF Crash, FinishStream, Interrupt, StoreRowFails
      <3>2. KillStep(s, f)
        BY <1>5, <2>0, <2>2, <3>1, WhoKills
      <3>3. (KillLookup(s, f) /\ s \notin streams) \/ KillDelete(s, f)
        BY <1>a, <1>5, <2>0, <2>2, <3>2
        DEF KillStep, KillRuns, KillCallsBolt, KillLookup, KillStop, KillDelete, KillLoad, KillStore
      <3>4. CASE KillLookup(s, f) /\ s \notin streams
        <4>1. kill[s][f] = "lookup"
          BY <3>4 DEF KillLookup
        <4> QED
          BY <1>1, <3>4, <4>1 DEF StopInv, FinishInv
      <3>5. CASE KillDelete(s, f)
        <4>1. kill[s][f] = "delete"
          BY <3>5 DEF KillDelete
        <4> QED
          BY <1>1, <2>0, <4>1 DEF StopInv, FinishInv
      <3> QED
        BY <3>3, <3>4, <3>5
    <2> QED
      BY <2>1, <2>2
  <1> QED
    BY <1>2, <1>3, <1>4, <1>5, KillerNames

\* Unless ContainerStop fails, the process of a stream whose FinishStream has
\* answered does not run, also when the request lost the race for the module and
\* also after restarts.
THEOREM StopCorrect == ASSUME "stop" \notin Faults PROVE Spec => []FinishStopsProcess
  <1>1. Init => RegistrationInv /\ StopInv
    BY KillerNames DEF Init, RegistrationInv, StopInv, KillInFlight
  <1>2. StopInv => FinishStopsProcess
    BY DEF StopInv, FinishStopsProcess
  <1>3. TypeOK /\ RegistrationInv /\ FinishInv /\ StopInv /\ [Next]_vars
          => StopInv'
    BY StopNext
  <1> QED
    BY <1>1, <1>2, <1>3, FinishInit, RegistrationNext, FinishNext, TypeCorrect, PTL DEF Spec
=============================================================================
