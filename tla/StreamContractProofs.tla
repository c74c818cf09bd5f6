------------------------- MODULE StreamContractProofs -------------------------
(* What the lifecycle promises when it rests, and the contract it implements: the *)
(* theorems of StreamLifecycle that relate the map, the rows and the processes.  *)
(* They hold for every set of streams and requests; which failures a theorem     *)
(* excludes is its assumption.                                                   *)
EXTENDS StreamLifecycleProofs

-----------------------------------------------------------------------------
(* One stream at a time.                                                   *)

\* What the state says of stream s.
At(s) ==
    <<s \in streams, row[s], creator[s], process[s], listener[s], kill[s], killCopy[s], patch[s],
      draft[s]>>

\* A step that is about stream s.
StreamStep(s) ==
    \/ Launch(s)
    \/ LaunchFails(s)
    \/ CreatorStep(s)
    \/ AnnounceHost(s)
    \/ ProcessExits(s)
    \/ WaitReturns(s)
    \/ WaitFails(s)
    \/ Interrupt(s)
    \/ \E f \in Finishers : FinishStream(s, f)
    \/ \E k \in Killers : KillStep(s, k)
    \/ \E p \in Patchers : PatchLoad(s, p) \/ PatchStep(s, p)

\* A step of one stream leaves every other stream alone.
LEMMA OtherStep ==
    ASSUME TypeOK, NEW s \in Streams, NEW t \in Streams, StreamStep(t), t # s
    PROVE  UNCHANGED At(s)
  <1> USE DEF At, launchVars, processVars, killVars, patchVars
  <1>a. /\ row \in [Streams -> Row] /\ creator \in [Streams -> CreatorPC]
        /\ process \in [Streams -> {"none", "created", "running", "clean", "failed"}]
        /\ listener \in [Streams -> {"none", "listening", "done"}]
        /\ kill \in [Streams -> [Killers -> KillPC]]
        /\ killCopy \in [Streams -> [Killers -> Row]]
        /\ patch \in [Streams -> [Patchers -> PatchPC]]
        /\ draft \in [Streams -> [Patchers -> Row]]
    BY DEF TypeOK
  <1>1. CASE Launch(t) \/ LaunchFails(t)
    BY <1>1, <1>a DEF Launch, LaunchFails, ContainerLeft
  <1>2. ASSUME StopProcess(t) PROVE process'[s] = process[s]
    BY <1>2, <1>a DEF StopProcess
  <1>3. CASE CreatorStep(t)
    <2>1. CASE Connected(t) \/ ConnectRetry(t) \/ StoreRow(t) \/ Aborted(t)
      BY <2>1, <1>a DEF Connected, ConnectRetry, StoreRow, Aborted
    <2>2. CASE GiveUp(t)
      BY <2>2, <1>2, <1>a DEF GiveUp
    <2>3. CASE StoreRowFails(t)
      BY <2>3, <1>a DEF StoreRowFails
    <2>4. CASE Register(t)
      BY <2>4, <1>a DEF Register
    <2> QED
      BY <1>3, <2>1, <2>2, <2>3, <2>4 DEF CreatorStep, CreatorRuns, CreatorCallsBolt
  <1>4. CASE AnnounceHost(t) \/ WaitReturns(t) \/ WaitFails(t)
    BY <1>4 DEF AnnounceHost, WaitReturns, WaitFails
  <1>5. CASE ProcessExits(t) \/ Interrupt(t)
    BY <1>5, <1>a DEF ProcessExits, Interrupt
  <1>6. ASSUME NEW f \in Finishers, FinishStream(t, f) PROVE UNCHANGED At(s)
    BY <1>6, <1>a DEF FinishStream
  <1>7. ASSUME NEW k \in Killers, KillStep(t, k) PROVE UNCHANGED At(s)
    BY <1>7, <1>2, <1>a DEF KillStep, KillRuns, KillCallsBolt, KillLookup, KillStop, KillDelete,
        KillLoad, KillStore
  <1>8. ASSUME NEW p \in Patchers, PatchLoad(t, p) \/ PatchStep(t, p) PROVE UNCHANGED At(s)
    BY <1>8, <1>a DEF PatchLoad, PatchStep, PatchLookup, PatchStore
  <1> QED
    BY <1>1, <1>3, <1>4, <1>5, <1>6, <1>7, <1>8 DEF StreamStep

\* Every step is a restart of the server, a step of one stream, or stutters.
LEMMA NextCases ==
    ASSUME [Next]_vars PROVE Crash \/ (\E s \in Streams : StreamStep(s)) \/ UNCHANGED vars
  BY DEF Next, StreamStep

\* For one stream: a restart, a step of its own, or nothing.
LEMMA OwnStep ==
    ASSUME TypeOK, [Next]_vars, NEW s \in Streams
    PROVE  Crash \/ StreamStep(s) \/ UNCHANGED At(s)
  <1>1. UNCHANGED vars => UNCHANGED At(s)
    BY DEF vars, launchVars, processVars, killVars, patchVars, At
  <1> QED
    BY <1>1, NextCases, OtherStep

-----------------------------------------------------------------------------
(* Invariants.                                                             *)

\* A row is absent or it has a status.
HasStatus(r) == r = NoRow \/ r.status \in {"running", "finished"}

\* What ImplementsContract needs of the rows: NewStream stores the first one, and
\* whoever is about to write a row back has seen one.
RecordInv ==
    \A s \in Streams :
        /\ HasStatus(row[s])
        /\ creator[s] \in {"idle", "connecting", "giving up", "storing"} => row[s] = NoRow
        /\ \A k \in Killers : kill[s][k] = "store" => row[s] # NoRow
        /\ \A p \in Patchers :
             /\ HasStatus(draft[s][p])
             /\ patch[s][p] = "store" => draft[s][p] # NoRow /\ creator[s] = "created"

\* What a killer who has answered leaves: a finished row, or a patched one.
Recorded(s) == row[s].status = "finished" \/ \E p \in Patchers : patch[s][p] = "ok"

RecordedInv ==
    \A s \in Streams : \A f \in Finishers : kill[s][f] = "done" => Recorded(s)

\* A created stream leaves the map by the hand of a killer who will finish the row;
\* the listener enters killStream once.
RestInv ==
    \A s \in Streams :
        /\ creator[s] \in {"idle", "connecting"} => listener[s] # "listening"
        /\ creator[s] \in {"idle", "connecting"} \/ listener[s] = "listening"
             => kill[s]["listener"] = "idle"
        /\ creator[s] = "created" /\ s \notin streams
             => Recorded(s) \/ \E k \in Killers : kill[s][k] \in {"load", "store"}

-----------------------------------------------------------------------------
(* The contract.                                                           *)

\* What the goroutines write back has a status and is not the absent row.
LEMMA WrittenRows ==
    /\ HasStatus(NoRow) /\ HasStatus(NewRow) /\ NewRow # NoRow
    /\ \A r \in Row, k \in Killers : HasStatus(Finished(r, k)) /\ Finished(r, k) # NoRow
    /\ \A r \in Row, p \in Patchers :
         r # NoRow /\ HasStatus(r) => HasStatus(Patched(r, p)) /\ Patched(r, p) # NoRow
  <1>1. HasStatus(NoRow) /\ HasStatus(NewRow)
    BY DEF HasStatus, NewRow
  <1>2. ASSUME NEW r \in Row, NEW k \in Killers PROVE HasStatus(Finished(r, k))
    BY DEF HasStatus, Finished, Row
  <1>3. ASSUME NEW r \in Row, NEW p \in Patchers, r # NoRow, HasStatus(r)
        PROVE  HasStatus(Patched(r, p))
    BY <1>3 DEF HasStatus, Patched, Row
  <1> QED
    BY <1>1, <1>2, <1>3, StoredRows

LEMMA RecordNext ==
    ASSUME TypeOK, RegistrationInv, RecordInv, [Next]_vars PROVE RecordInv'
  <1> USE DEF launchVars, processVars, killVars, patchVars
  <1>a. /\ row \in [Streams -> Row] /\ creator \in [Streams -> CreatorPC]
        /\ kill \in [Streams -> [Killers -> KillPC]]
        /\ killCopy \in [Streams -> [Killers -> Row]]
        /\ patch \in [Streams -> [Patchers -> PatchPC]]
        /\ draft \in [Streams -> [Patchers -> Row]]
    BY DEF TypeOK
  <1> SUFFICES ASSUME NEW s \in Streams
      PROVE /\ HasStatus(row'[s])
            /\ creator'[s] \in {"idle", "connecting", "giving up", "storing"} => row'[s] = NoRow
            /\ \A k \in Killers : kill'[s][k] = "store" => row'[s] # NoRow
            /\ \A p \in Patchers :
                 /\ HasStatus(draft'[s][p])
                 /\ patch'[s][p] = "store" => draft'[s][p] # NoRow /\ creator'[s] = "created"
    BY DEF RecordInv, HasStatus
  <1> DEFINE Holds ==
            /\ HasStatus(row'[s])
            /\ creator'[s] \in {"idle", "connecting", "giving up", "storing"} => row'[s] = NoRow
            /\ \A k \in Killers : kill'[s][k] = "store" => row'[s] # NoRow
            /\ \A p \in Patchers :
                 /\ HasStatus(draft'[s][p])
                 /\ patch'[s][p] = "store" => draft'[s][p] # NoRow /\ creator'[s] = "created"
  <1>b. /\ HasStatus(row[s])
        /\ creator[s] \in {"idle", "connecting", "giving up", "storing"} => row[s] = NoRow
        /\ \A k \in Killers : kill[s][k] = "store" => row[s] # NoRow
        /\ \A p \in Patchers :
             /\ HasStatus(draft[s][p])
             /\ patch[s][p] = "store" => draft[s][p] # NoRow /\ creator[s] = "created"
        /\ s \in streams => creator[s] = "created"
        /\ creator[s] \in {"registering", "created"} => row[s] # NoRow
    BY DEF RecordInv, RegistrationInv
  <1>1. ASSUME UNCHANGED <<row, creator, patch, draft>>,
               \A k \in Killers : kill'[s][k] = "store" => kill[s][k] = "store"
        PROVE  Holds
    BY <1>1, <1>b
  <1>2. CASE UNCHANGED At(s)
    BY <1>2, <1>b DEF At

       <1>3. CASE Launch(s) \/ LaunchFails(s) \/ Connected(s) \/ ConnectRetry(s) \/ GiveUp(s) \/ Aborted(s)
    <2>1. /\ UNCHANGED <<row, kill, patch, draft>>
          /\ creator'[s] \in {"connecting", "giving up", "storing"} => row[s] = NoRow
          /\ creator'[s] # "idle" /\ creator[s] # "created"
      BY <1>3, <1>a, <1>b DEF Launch, LaunchFails, ContainerLeft, Connected, ConnectRetry,
          GiveUp, Aborted
    <2> QED
      BY <2>1, <1>b
  <1>4. CASE StoreRow(s)
    <2>1. creator'[s] = "registering" /\ row'[s] = NewRow /\ UNCHANGED <<kill, patch, draft>>
      BY <1>4, <1>a DEF StoreRow
    <2>2. creator[s] = "storing"
      BY <1>4 DEF StoreRow
    <2> QED
      BY <2>1, <2>2, <1>b, WrittenRows
  <1>5. CASE StoreRowFails(s)
    <2>1. /\ UNCHANGED <<row, patch, draft>> /\ creator[s] = "storing" /\ creator'[s] = "aborting"
          /\ \A k \in Killers : kill'[s][k] \in {kill[s][k], "lookup"}
      BY <1>5, <1>a, KillerNames DEF StoreRowFails
    <2> QED
      BY <2>1, <1>b
  <1>6. CASE Register(s)
    BY <1>6, <1>a, <1>b DEF Register
  <1>7. CASE AnnounceHost(s) \/ ProcessExits(s) \/ WaitReturns(s) \/ WaitFails(s)
    BY <1>7, <1>1 DEF AnnounceHost, ProcessExits, WaitReturns, WaitFails
  <1>8. CASE Interrupt(s) \/ \E f \in Finishers : FinishStream(s, f)
    <2>1. /\ UNCHANGED <<row, creator, patch, draft>>
          /\ \A k \in Killers : kill'[s][k] \in {kill[s][k], "lookup", "rejected"}
      BY <1>8, <1>a, KillerNames DEF Interrupt, FinishStream
    <2> QED
      BY <2>1, <1>1
  <1>9. ASSUME NEW k \in Killers, KillStep(s, k) PROVE Holds
    <2>1. CASE KillLookup(s, k) \/ KillStop(s, k) \/ KillDelete(s, k)
      <3>1. /\ UNCHANGED <<row, creator, patch, draft>>
            /\ \A j \in Killers : kill'[s][j] \in {kill[s][j], "stop", "delete", "load"}
        BY <2>1, <1>a DEF KillLookup, KillStop, KillDelete
      <3> QED
        BY <3>1, <1>1
    <2>2. CASE KillLoad(s, k)
      <3>1. UNCHANGED <<row, creator, patch, draft>>
        BY <2>2 DEF KillLoad
      <3>2. \A j \in Killers : kill'[s][j] = "store" => kill[s][j] = "store" \/ row[s] # NoRow
        BY <2>2, <1>a DEF KillLoad
      <3> QED
        BY <3>1, <3>2, <1>b
    <2>3. CASE KillStore(s, k)
      <3>1. /\ UNCHANGED <<creator, patch, draft>>
            /\ \A j \in Killers : kill'[s][j] \in {kill[s][j], "done"}
        BY <2>3, <1>a DEF KillStore
      <3>2. row'[s] \in {row[s], Finished(killCopy[s][k], k)}
        BY <2>3, <1>a DEF KillStore
      <3>3. kill[s][k] = "store"
        BY <2>3 DEF KillStore
      <3>4. killCopy[s][k] \in Row
        BY <1>a
      <3>5. HasStatus(row'[s]) /\ row'[s] # NoRow
        BY <3>2, <3>3, <3>4, <1>b, WrittenRows
      <3>6. creator[s] \notin {"idle", "connecting", "giving up", "storing"}
        BY <3>3, <1>b
      <3> QED
        BY <3>1, <3>5, <3>6, <1>b
    <2> QED
      BY <1>9, <2>1, <2>2, <2>3 DEF KillStep, KillRuns, KillCallsBolt
  <1>10. ASSUME NEW p \in Patchers, PatchLoad(s, p) \/ PatchStep(s, p) PROVE Holds
    <2>1. CASE PatchLoad(s, p)
      <3>1. /\ UNCHANGED <<row, creator, kill>>
            /\ \A q \in Patchers : draft'[s][q] = IF q = p THEN row[s] ELSE draft[s][q]
            /\ \A q \in Patchers : patch'[s][q] = IF q = p THEN "lookup" ELSE patch[s][q]
        BY <2>1, <1>a DEF PatchLoad
      <3> QED
        BY <3>1, <1>b
    <2>2. CASE PatchLookup(s, p)
      <3>1. UNCHANGED <<row, creator, kill, draft>>
        BY <2>2 DEF PatchLookup
      <3>2. \A q \in Patchers :
              patch'[s][q] = "store" =>
                patch[s][q] = "store" \/ (s \in streams /\ draft[s][q] # NoRow)
        BY <2>2, <1>a DEF PatchLookup
      <3> QED
        BY <3>1, <3>2, <1>b
    <2>3. CASE PatchStore(s, p)
      <3>1. /\ UNCHANGED <<creator, kill, draft>>
            /\ \A q \in Patchers : patch'[s][q] \in {patch[s][q], "ok", "error"}
        BY <2>3, <1>a DEF PatchStore
      <3>2. row'[s] \in {row[s], Patched(draft[s][p], p)}
        BY <2>3, <1>a DEF PatchStore
      <3>3. draft[s][p] # NoRow /\ HasStatus(draft[s][p]) /\ creator[s] = "created"
        BY <2>3, <1>b DEF PatchStore
      <3>4. draft[s][p] \in Row
        BY <1>a
      <3>5. HasStatus(row'[s]) /\ row'[s] # NoRow
        BY <3>2, <3>3, <3>4, <1>b, WrittenRows
      <3> QED
        BY <3>1, <3>3, <3>5, <1>b
    <2> QED
      BY <1>10, <2>1, <2>2, <2>3 DEF PatchStep
  <1>11. CASE Crash
    <2>1. /\ UNCHANGED <<row, draft>>
          /\ creator'[s] \in {creator[s],
              "lost"} /\ (creator[s] = "created" => creator'[s] = "created")
          /\ \A k \in Killers : kill'[s][k] \in {kill[s][k], "lost"}
          /\ \A p \in Patchers : patch'[s][p] \in {patch[s][p], "lost"}
      BY <1>11 DEF Crash
    <2> QED
      BY <2>1, <1>b
  <1> QED
    BY <1>2, <1>3, <1>4, <1>5, <1>6, <1>7, <1>8, <1>9, <1>10, <1>11, OwnStep
    DEF StreamStep, CreatorStep, CreatorRuns, CreatorCallsBolt

\* The access to a stream and its record, read off the state.
LEMMA ContractView ==
    ASSUME NEW s \in Streams, RegistrationInv
    PROVE  /\ access[s] = IF s \in streams THEN "open"
                          ELSE IF creator[s] = "created" THEN "closed" ELSE "never"
           /\ record[s] = row[s].status
  BY DEF access, record

\* The same of the next state.
LEMMA ContractViewNext ==
    ASSUME NEW s \in Streams
    PROVE  /\ access'[s] = IF s \in streams' THEN "open"
                           ELSE IF creator'[s] = "created" THEN "closed" ELSE "never"
           /\ record'[s] = row'[s].status
  BY DEF access, record

\* What a step may do to one stream, in the words of the contract.
ContractStep(s) ==
    \/ UNCHANGED <<access[s], record[s]>>
    \/ /\ access[s] = "never" /\ record[s] = "absent"
       /\ record'[s] = "running" /\ access'[s] = access[s]
    \/ /\ access[s] = "never" /\ record[s] # "absent"
       /\ access'[s] = "open" /\ record'[s] = record[s]
    \/ /\ access[s] = "open"
       /\ access'[s] = "closed" /\ record'[s] = record[s]
    \/ /\ record[s] = "running"
       /\ record'[s] = "finished" /\ access'[s] = access[s]
    \/ /\ Patchers # {} /\ access[s] # "never" /\ record[s] = "finished"
       /\ record'[s] = "running" /\ access'[s] = access[s]

\* A step of a stream is a step of the contract for it, or none.
LEMMA StreamKeepsContract ==
    ASSUME TypeOK, RegistrationInv, RecordInv, NEW s \in Streams, StreamStep(s)
    PROVE  ContractStep(s)
  <1> USE DEF launchVars, processVars, killVars, patchVars
  <1>a. /\ row \in [Streams -> Row] /\ creator \in [Streams -> CreatorPC]
        /\ killCopy \in [Streams -> [Killers -> Row]]
        /\ draft \in [Streams -> [Patchers -> Row]]
    BY DEF TypeOK
  <1>b. /\ access[s] = IF s \in streams THEN "open"
                       ELSE IF creator[s] = "created" THEN "closed" ELSE "never"
        /\ record[s] = row[s].status
        /\ access'[s] = IF s \in streams' THEN "open"
                        ELSE IF creator'[s] = "created" THEN "closed" ELSE "never"
        /\ record'[s] = row'[s].status
    BY ContractView, ContractViewNext
  <1>c. /\ HasStatus(row[s])
        /\ s \in streams => creator[s] = "created"
        /\ creator[s] = "created" => row[s] # NoRow
    BY DEF RecordInv, RegistrationInv
  <1>d. NoRow.status = "absent" /\ NewRow.status = "running"
    BY DEF NoRow, NewRow
  <1>1. ASSUME UNCHANGED <<streams, row, creator>> PROVE ContractStep(s)
    BY <1>1, <1>b DEF ContractStep
  <1>2. ASSUME creator[s] # "created", creator'[s] # "created", UNCHANGED <<streams, row>>
        PROVE  ContractStep(s)
    BY <1>2, <1>b, <1>c DEF ContractStep
  <1>3. CASE Launch(s) \/ LaunchFails(s) \/ Connected(s) \/ ConnectRetry(s) \/ GiveUp(s)
             \/ StoreRowFails(s) \/ Aborted(s)
    BY <1>3, <1>2, <1>a DEF Launch, LaunchFails, ContainerLeft, Connected, ConnectRetry, GiveUp,
       StoreRowFails, Aborted
  <1>4. CASE StoreRow(s)

           <2>1. creator[s] = "storing" /\ creator'[s] = "registering" /\ row'[s] = NewRow /\ UNCHANGED streams
      BY <1>4, <1>a DEF StoreRow
    <2>2. row[s] = NoRow
      BY <2>1 DEF RecordInv
    <2> QED
      BY <2>1, <2>2, <1>b, <1>c, <1>d DEF ContractStep
  <1>5. CASE Register(s)
    <2>1. creator[s] = "registering" /\ s \in streams' /\ row'[s] = row[s]
      BY <1>5 DEF Register
    <2>2. row[s].status # "absent"
      BY <2>1, <1>c DEF RegistrationInv, HasStatus
    <2> QED
      BY <2>1, <2>2, <1>b, <1>c DEF ContractStep
  <1>6. CASE \/ AnnounceHost(s) \/ ProcessExits(s) \/ WaitReturns(s) \/ WaitFails(s) \/ Interrupt(s)
             \/ \E f \in Finishers : FinishStream(s, f)
    BY <1>6, <1>1 DEF AnnounceHost, ProcessExits, WaitReturns, WaitFails, Interrupt, FinishStream
  <1>7. ASSUME NEW k \in Killers, KillStep(s, k) PROVE ContractStep(s)
    <2>1. CASE KillLookup(s, k) \/ KillStop(s, k) \/ KillLoad(s, k)
      BY <2>1, <1>1 DEF KillLookup, KillStop, KillLoad
    <2>2. CASE KillDelete(s, k)
      <3>1. s \notin streams' /\ UNCHANGED <<row, creator>>
        BY <2>2 DEF KillDelete
      <3> QED
        BY <3>1, <1>b, <1>c DEF ContractStep
    <2>3. CASE KillStore(s, k)
      <3>1. UNCHANGED <<streams, creator>> /\ row'[s] \in {row[s], Finished(killCopy[s][k], k)}
        BY <2>3, <1>a DEF KillStore
      <3>2. row[s] # NoRow
        BY <2>3 DEF KillStore, RecordInv
      <3>3. Finished(killCopy[s][k], k).status = "finished"
        BY <1>a DEF Finished, Row
      <3> QED
        BY <3>1, <3>2, <3>3, <1>b, <1>c DEF ContractStep, HasStatus
    <2> QED
      BY <1>7, <2>1, <2>2, <2>3 DEF KillStep, KillRuns, KillCallsBolt
  <1>8. ASSUME NEW p \in Patchers, PatchLoad(s, p) \/ PatchStep(s, p) PROVE ContractStep(s)
    <2>1. CASE PatchLoad(s, p) \/ PatchLookup(s, p)
      BY <2>1, <1>1 DEF PatchLoad, PatchLookup
    <2>2. CASE PatchStore(s, p)
      <3>1. UNCHANGED <<streams, creator>> /\ row'[s] \in {row[s], Patched(draft[s][p], p)}
        BY <2>2, <1>a DEF PatchStore
      <3>2. creator[s] = "created" /\ HasStatus(draft[s][p]) /\ draft[s][p] # NoRow
        BY <2>2 DEF PatchStore, RecordInv
      <3>3. Patched(draft[s][p], p).status = draft[s][p].status
        BY <1>a DEF Patched, Row
      <3> QED
        BY <3>1, <3>2, <3>3, <1>b, <1>c DEF ContractStep, HasStatus
    <2> QED
      BY <1>8, <2>1, <2>2 DEF PatchStep
  <1> QED
    BY <1>3, <1>4, <1>5, <1>6, <1>7, <1>8 DEF StreamStep, CreatorStep, CreatorRuns, CreatorCallsBolt

\* Functions over the streams that differ at most at one of them.
LEMMA OnlyAt ==
    ASSUME NEW f, NEW g, f = [x \in Streams |-> f[x]], g = [x \in Streams |-> g[x]],
           NEW s \in Streams, \A t \in Streams : t # s => g[t] = f[t]
    PROVE  g = [f EXCEPT ![s] = g[s]]
  OBVIOUS

\* Every step of the lifecycle is a step of the contract, or none.
LEMMA ContractNext ==
    ASSUME TypeOK, RegistrationInv, RecordInv, [Next]_vars
    PROVE  [Contract!Next]_Contract!contractVars
  <1>a. /\ access = [x \in Streams |-> access[x]] /\ access' = [x \in Streams |-> access'[x]]
        /\ record = [x \in Streams |-> record[x]] /\ record' = [x \in Streams |-> record'[x]]
    BY DEF access, record
  <1>1. CASE UNCHANGED vars
    <2>1. UNCHANGED <<access, record>>
      BY <1>1 DEF vars, launchVars, access, record
    <2> QED
      BY <2>1 DEF Contract!contractVars
  <1>2. CASE Crash
    <2>1. /\ streams' = {} /\ UNCHANGED row
          /\ \A t \in Streams : creator'[t] = "created" <=> creator[t] = "created"
      BY <1>2 DEF Crash
    <2>2. \A t \in streams : creator[t] = "created"
      BY DEF RegistrationInv
    <2>3. UNCHANGED record
      BY <2>1 DEF record
    <2>4. streams \in SUBSET Streams
      BY DEF TypeOK
    <2>5. \A t \in streams : access[t] = "open"
      BY <2>4 DEF access
    <2>6. access' = [t \in Streams |-> IF t \in streams THEN "closed" ELSE access[t]]
      <3>1. ASSUME NEW t \in Streams
            PROVE  access'[t] = IF t \in streams THEN "closed" ELSE access[t]
        BY <2>1, <2>2, ContractView, ContractViewNext
      <3> QED
        BY <3>1, <1>a
    <2>7. Contract!Close(streams)
      BY <2>3, <2>5, <2>6 DEF Contract!Close
    <2> QED
      BY <2>4, <2>7 DEF Contract!Next
  <1>3. ASSUME NEW s \in Streams, StreamStep(s) PROVE [Contract!Next]_Contract!contractVars
    <2>1. ASSUME NEW t \in Streams, t # s PROVE access'[t] = access[t] /\ record'[t] = record[t]
      <3>1. UNCHANGED At(t)
        BY <1>3, <2>1, OtherStep
      <3>2. (t \in streams' <=> t \in streams) /\ creator'[t] = creator[t] /\ row'[t] = row[t]
        BY <3>1 DEF At
      <3> QED
        BY <3>2, ContractView, ContractViewNext
    <2>2. access' = [access EXCEPT ![s] = access'[s]] /\ record' = [record EXCEPT ![s] = record'[s]]
      BY <2>1, <1>a, OnlyAt
    <2>3. access'[s] = access[s] => UNCHANGED access
      BY <2>2, <1>a
    <2>4. record'[s] = record[s] => UNCHANGED record
      BY <2>2, <1>a
    <2>5. ContractStep(s)
      BY <1>3, StreamKeepsContract
    <2>6. CASE UNCHANGED <<access[s], record[s]>>
      BY <2>3, <2>4, <2>6 DEF Contract!contractVars
    <2>7. ASSUME access[s] = "never", record[s] = "absent", record'[s] = "running",
        access'[s] = access[s]
          PROVE  Contract!Record(s)
      BY <2>7, <2>2, <2>3 DEF Contract!Record
    <2>8. ASSUME access[s] = "never", record[s] # "absent", access'[s] = "open",
        record'[s] = record[s]
          PROVE  Contract!Open(s)
      BY <2>8, <2>2, <2>4 DEF Contract!Open
    <2>9. ASSUME access[s] = "open", access'[s] = "closed", record'[s] = record[s]
          PROVE  Contract!Close({s})
      <3>1. access' = [t \in Streams |-> IF t \in {s} THEN "closed" ELSE access[t]]
        BY <2>1, <2>9, <1>a
      <3> QED
        BY <3>1, <2>4, <2>9 DEF Contract!Close
    <2>10. ASSUME record[s] = "running", record'[s] = "finished", access'[s] = access[s]
           PROVE  Contract!Finish(s)
      BY <2>10, <2>2, <2>3 DEF Contract!Finish
    <2>11. ASSUME Patchers # {}, access[s] # "never", record[s] = "finished",
        record'[s] = "running",
                  access'[s] = access[s]
           PROVE  Contract!Revive(s)
      BY <2>11, <2>2, <2>3 DEF Contract!Revive
    <2> QED
      BY <2>5, <2>6, <2>7, <2>8, <2>9, <2>10, <2>11 DEF ContractStep, Contract!Next
  <1> QED
    BY <1>1, <1>2, <1>3, NextCases

\* Whatever fails: a stream is opened once and never before its record exists, the
\* record is never lost, and a finished record says running again only when a patch
\* of an opened stream is stored.  The server (map, bucket, NewStream, killStream
\* and PatchStream together) implements this contract.
THEOREM ContractImplemented == Spec => ImplementsContract
  <1>1. Init => RegistrationInv
    BY DEF Init, RegistrationInv
  <1>2. Init => RecordInv
    BY DEF Init, RecordInv, HasStatus
  <1>3. Init => Contract!Init
    BY DEF Init, Contract!Init, access, record, NoRow
  <1>4. TypeOK /\ RegistrationInv /\ RecordInv /\ [Next]_vars => RecordInv'
    BY RecordNext

       <1>5. TypeOK /\ RegistrationInv /\ RecordInv /\ [Next]_vars => [Contract!Next]_Contract!contractVars
    BY ContractNext
  <1> QED
    BY <1>1, <1>2, <1>3, <1>4, <1>5, RegistrationNext, TypeCorrect, PTL
    DEF Spec, ImplementsContract, Contract!Spec

-----------------------------------------------------------------------------
(* Processes have owners.                                                  *)

\* The killer who takes the module out of the map has stopped the process, and
\* NewStream gives the stream up only after stopping it.
LEMMA OwnerNext ==
    ASSUME TypeOK, RegistrationInv, StopInv, ProcessHasOwner, [Next]_vars,
           Faults \cap {"store", "stop", "crash"} = {}
    PROVE  ProcessHasOwner'
  <1> USE DEF launchVars, processVars, killVars, patchVars, OwnedByCreator
  <1>a. /\ creator \in [Streams -> CreatorPC]
        /\ process \in [Streams -> {"none", "created", "running", "clean", "failed"}]
    BY DEF TypeOK
  <1> SUFFICES ASSUME NEW s \in Streams, process'[s] = "running"
               PROVE  creator'[s] \in OwnedByCreator \/ s \in streams'
    BY DEF ProcessHasOwner
  <1>1. CASE Launch(s)
    BY <1>1, <1>a DEF Launch
  <1>2. CASE ~ Launch(s)
    <2>1. process[s] = "running"
      BY <1>2, OnlyLaunchRuns
    <2>2. creator[s] \in OwnedByCreator \/ s \in streams
      BY <2>1 DEF ProcessHasOwner
    <2>3. ASSUME UNCHANGED <<creator,
        streams>> PROVE creator'[s] \in OwnedByCreator \/ s \in streams'
      BY <2>2, <2>3
    <2>4. CASE UNCHANGED At(s)
      BY <2>2, <2>4 DEF At
    <2>5. CASE LaunchFails(s) \/ Connected(s) \/ ConnectRetry(s) \/ StoreRow(s) \/ Register(s)
      BY <2>2, <2>5, <1>a DEF LaunchFails, Connected, ConnectRetry, StoreRow, Register,
          RegistrationInv
    <2>6. CASE GiveUp(s)
      <3>1. process'[s] = "failed"
        BY <2>1, <2>6, <1>a DEF GiveUp, StopProcess
      <3> QED
        BY <3>1
    <2>7. ~ StoreRowFails(s) /\ ~ Crash
      BY DEF StoreRowFails, Crash
    <2>8. ~ Aborted(s)
      BY <2>2 DEF Aborted, RegistrationInv

           <2>9. CASE \/ AnnounceHost(s) \/ ProcessExits(s) \/ WaitReturns(s) \/ WaitFails(s) \/ Interrupt(s)
               \/ (\E f \in Finishers : FinishStream(s, f))
               \/ \E p \in Patchers : PatchLoad(s, p) \/ PatchStep(s, p)
      BY <2>3, <2>9 DEF AnnounceHost, ProcessExits, WaitReturns, WaitFails, Interrupt, FinishStream,
         PatchLoad, PatchStep, PatchLookup, PatchStore
    <2>10. ASSUME NEW k \in Killers, KillStep(s,
        k) PROVE creator'[s] \in OwnedByCreator \/ s \in streams'
      <3>1. ~ KillDelete(s, k)
        BY <2>1 DEF KillDelete, StopInv
      <3> QED
        BY <2>3, <2>10, <3>1 DEF KillStep, KillRuns, KillCallsBolt, KillLookup, KillStop,
            KillLoad, KillStore
    <2> QED
      BY <1>2, <2>4, <2>5, <2>6, <2>7, <2>8, <2>9, <2>10, OwnStep DEF StreamStep, CreatorStep,
          CreatorRuns, CreatorCallsBolt
  <1> QED
    BY <1>1, <1>2

\* A running process is in the hands of NewStream or its stream is in the map, so
\* FinishStream can reach it.  It takes a failing Store, a failing stop of a
\* container or a crash of the server to orphan a process.
THEOREM OwnerCorrect ==
    ASSUME Faults \cap {"store", "stop", "crash"} = {} PROVE Spec => []ProcessHasOwner
  <1>1. Init => RegistrationInv /\ StopInv /\ ProcessHasOwner
    BY KillerNames DEF Init, RegistrationInv, StopInv, KillInFlight, ProcessHasOwner
  <1>2. TypeOK /\ RegistrationInv /\ FinishInv /\ StopInv /\ [Next]_vars => StopInv'
    BY StopNext
  <1>3. TypeOK /\ RegistrationInv /\ StopInv /\ ProcessHasOwner /\ [Next]_vars => ProcessHasOwner'
    BY OwnerNext
  <1> QED
    BY <1>1, <1>2, <1>3, FinishInit, RegistrationNext, FinishNext, TypeCorrect, PTL DEF Spec

-----------------------------------------------------------------------------
(* The record at rest.                                                     *)

\* A finished or patched record stays so once the stream is created: the only Store
\* that is neither a killer's nor a patch's is NewStream's first one.
LEMMA RecordedStays ==
    ASSUME TypeOK, [Next]_vars, NEW s \in Streams, creator[s] = "created", Recorded(s),
           "store" \notin Faults
    PROVE  Recorded(s)'
  <1> USE DEF Recorded, launchVars, processVars, killVars, patchVars
  <1>a. /\ row \in [Streams -> Row]
        /\ killCopy \in [Streams -> [Killers -> Row]]
        /\ patch \in [Streams -> [Patchers -> PatchPC]]
    BY DEF TypeOK
  <1>1. ASSUME UNCHANGED <<row, patch>> PROVE Recorded(s)'
    BY <1>1
  <1>2. CASE UNCHANGED At(s)
    BY <1>2 DEF At
  <1>3. CASE Launch(s) \/ LaunchFails(s) \/ CreatorStep(s)
    BY <1>3 DEF Launch, LaunchFails, CreatorStep, CreatorRuns, CreatorCallsBolt, Connected,
        ConnectRetry, GiveUp, StoreRow,
       StoreRowFails, Aborted, Register
  <1>4. CASE \/ AnnounceHost(s) \/ ProcessExits(s) \/ WaitReturns(s) \/ WaitFails(s) \/ Interrupt(s)
             \/ \E f \in Finishers : FinishStream(s, f)
    BY <1>1, <1>4 DEF AnnounceHost, ProcessExits, WaitReturns, WaitFails, Interrupt, FinishStream
  <1>5. ASSUME NEW k \in Killers, KillStep(s, k) PROVE Recorded(s)'
    <2>1. CASE KillStore(s, k)
      <3>1. row'[s] = Finished(killCopy[s][k], k)
        BY <2>1, <1>a DEF KillStore
      <3>2. row'[s].status = "finished"
        BY <3>1, <1>a DEF Finished, Row
      <3> QED
        BY <3>2
    <2>2. CASE ~ KillStore(s, k)
      BY <1>1, <1>5, <2>2 DEF KillStep, KillRuns, KillCallsBolt, KillLookup, KillStop,
          KillDelete, KillLoad
    <2> QED
      BY <2>1, <2>2
  <1>6. ASSUME NEW p \in Patchers, PatchLoad(s, p) \/ PatchStep(s, p) PROVE Recorded(s)'
    <2>1. CASE PatchLoad(s, p) \/ PatchLookup(s, p)
      <3>1. UNCHANGED row
        BY <2>1 DEF PatchLoad, PatchLookup
      <3>2. \A q \in Patchers : patch[s][q] = "ok" => patch'[s][q] = "ok"
        BY <2>1, <1>a DEF PatchLoad, PatchLookup
      <3> QED
        BY <3>1, <3>2
    <2>2. CASE PatchStore(s, p)
      BY <2>2, <1>a DEF PatchStore
    <2> QED
      BY <1>6, <2>1, <2>2 DEF PatchStep
  <1>7. CASE Crash
    BY <1>7 DEF Crash
  <1> QED
    BY <1>2, <1>3, <1>4, <1>5, <1>6, <1>7, OwnStep DEF StreamStep

\* A killer who stores leaves a finished record.
LEMMA KillStoreRecords ==
    ASSUME TypeOK, NEW s \in Streams, NEW k \in Killers, KillStore(s, k), "store" \notin Faults
    PROVE  Recorded(s)'
  <1>1. row'[s] = Finished(killCopy[s][k], k) /\ killCopy[s][k] \in Row
    BY DEF KillStore, TypeOK
  <1> QED
    BY <1>1 DEF Recorded, Finished, Row

LEMMA RecordedNext ==
    ASSUME TypeOK, RegistrationInv, FinishInv, RecordedInv, [Next]_vars,
           Faults \cap {"store", "decode"} = {}
    PROVE  RecordedInv'
  <1> USE DEF launchVars, processVars, killVars, patchVars
  <1>a. kill \in [Streams -> [Killers -> KillPC]]
    BY DEF TypeOK
  <1> SUFFICES ASSUME NEW s \in Streams, NEW f \in Finishers,
      kill'[s][f] = "done" PROVE Recorded(s)'
    BY DEF RecordedInv, Recorded
  <1>0. f \in Killers
    BY KillerNames
  <1>1. CASE kill[s][f] = "done"
    <2>1. creator[s] = "created" /\ Recorded(s)
      BY <1>1 DEF FinishInv, RecordedInv
    <2> QED
      BY <2>1, RecordedStays
  <1>2. CASE kill[s][f] # "done"
    <2>1. ~ Crash /\ ~ FinishStream(s, f) /\ ~ Interrupt(s) /\ ~ StoreRowFails(s)
      BY <1>a, <1>0, <1>2, LifecycleAssumption, KillerNames
      DEF Crash, FinishStream, Interrupt, StoreRowFails
    <2>2. KillStep(s, f)
      BY <1>0, <1>2, <2>1, WhoKills
    <2>3. ~ KillLoad(s, f)
      <3>1. ASSUME KillLoad(s, f) PROVE row[s] # NoRow
        BY <3>1 DEF KillLoad, FinishInv, KillInFlight, RegistrationInv
      <3> QED
        BY <3>1, <1>0, <1>a DEF KillLoad
    <2>4. KillStore(s, f)
      BY <1>0, <1>a, <2>2, <2>3 DEF KillStep, KillRuns, KillCallsBolt, KillLookup, KillStop,
          KillDelete
    <2> QED
      BY <1>0, <2>4, KillStoreRecords
  <1> QED
    BY <1>1, <1>2

\* When FinishStream has answered and no patch is under way or stored, the record
\* says finished, also for a request that found the module deleted by another one
\* and after a restart.  It takes a failing Store or Decode to break this.
THEOREM FinishRecordedCorrect ==
    ASSUME Faults \cap {"store", "decode"} = {} PROVE Spec => []FinishRecorded
  <1>1. Init => RegistrationInv /\ RecordedInv
    BY KillerNames DEF Init, RegistrationInv, RecordedInv
  <1>2. TypeOK /\ RegistrationInv /\ FinishInv /\ RecordedInv /\ [Next]_vars => RecordedInv'
    BY RecordedNext
  <1>3. RecordedInv => FinishRecorded
    BY DEF RecordedInv, Recorded, FinishRecorded, Unpatched
  <1> QED
    BY <1>1, <1>2, <1>3, FinishInit, RegistrationNext, FinishNext, TypeCorrect, PTL DEF Spec

LEMMA RestInit == Init => RestInv
  BY KillerNames DEF Init, RestInv

\* The killer that will finish the record of a stream that left the map goes on to
\* do it, and a new one starts from the idle state.
LEMMA RestNext ==
    ASSUME TypeOK, RegistrationInv, RestInv, [Next]_vars,
           Faults \cap {"store", "decode", "crash"} = {}
    PROVE  RestInv'
  <1> USE KillerNames DEF launchVars, processVars, killVars, patchVars
  <1>a. /\ row \in [Streams -> Row] /\ creator \in [Streams -> CreatorPC]
        /\ listener \in [Streams -> {"none", "listening", "done"}]
        /\ kill \in [Streams -> [Killers -> KillPC]]
    BY DEF TypeOK
  <1> SUFFICES ASSUME NEW s \in Streams
      PROVE /\ creator'[s] \in {"idle", "connecting"} => listener'[s] # "listening"
            /\ creator'[s] \in {"idle", "connecting"} \/ listener'[s] = "listening"
                 => kill'[s]["listener"] = "idle"
            /\ creator'[s] = "created" /\ s \notin streams'
                 => Recorded(s)' \/ \E k \in Killers : kill'[s][k] \in {"load", "store"}
    BY DEF RestInv, Recorded
  <1> DEFINE Holds ==
            /\ creator'[s] \in {"idle", "connecting"} => listener'[s] # "listening"
            /\ creator'[s] \in {"idle", "connecting"} \/ listener'[s] = "listening"
                 => kill'[s]["listener"] = "idle"
            /\ creator'[s] = "created" /\ s \notin streams'
                 => Recorded(s)' \/ \E k \in Killers : kill'[s][k] \in {"load", "store"}
  <1>b. /\ creator[s] \in {"idle", "connecting"} => listener[s] # "listening"
        /\ creator[s] \in {"idle", "connecting"} \/ listener[s] = "listening"
             => kill[s]["listener"] = "idle"
        /\ creator[s] = "created" /\ s \notin streams
             => Recorded(s) \/ \E k \in Killers : kill[s][k] \in {"load", "store"}
    BY DEF RestInv
  <1>c. creator[s] = "created" /\ Recorded(s) => Recorded(s)'
    BY RecordedStays
  <1>1. ASSUME UNCHANGED <<creator, listener, kill, streams>> PROVE Holds
    BY <1>1, <1>b, <1>c
  <1>2. CASE UNCHANGED At(s)
    BY <1>2, <1>b DEF At, Recorded
  <1>3. CASE Launch(s) \/ LaunchFails(s) \/ Connected(s) \/ ConnectRetry(s) \/ GiveUp(s)
             \/ StoreRow(s) \/ Aborted(s)
    <2>1. /\ UNCHANGED <<kill, streams>> /\ creator[s] # "created" /\ creator'[s] # "created"
          /\ creator'[s] \in {"idle", "connecting"} =>
               creator[s] \in {"idle", "connecting"} /\ listener'[s] = listener[s]
          /\ listener'[s] = "listening" =>
               listener[s] = "listening" \/ creator[s] = "connecting"
      BY <1>3, <1>a DEF Launch, LaunchFails, ContainerLeft, Connected, ConnectRetry, GiveUp,
          StoreRow, Aborted
    <2> QED
      BY <2>1, <1>b
  <1>4. ~ StoreRowFails(s) /\ ~ Crash
    BY DEF StoreRowFails, Crash
  <1>5. CASE Register(s)
    <2>1. /\ UNCHANGED <<listener, kill>> /\ s \in streams' /\ creator'[s] = "created"
      BY <1>5, <1>a DEF Register
    <2> QED
      BY <2>1, <1>b
  <1>6. CASE \/ AnnounceHost(s) \/ ProcessExits(s) \/ WaitReturns(s) \/ WaitFails(s)
             \/ \E p \in Patchers : PatchLoad(s, p) \/ PatchStep(s, p)
    BY <1>1, <1>6 DEF AnnounceHost, ProcessExits, WaitReturns, WaitFails,
       PatchLoad, PatchStep, PatchLookup, PatchStore
  <1>7. CASE Interrupt(s)
    <2>1. /\ UNCHANGED <<creator, streams>> /\ listener[s] = "listening" /\ listener'[s] = "done"
          /\ \A k \in Killers : k # "listener" => kill'[s][k] = kill[s][k]
      BY <1>7, <1>a DEF Interrupt
    <2> QED
      BY <2>1, <1>b, <1>c
  <1>8. ASSUME NEW f \in Finishers, FinishStream(s, f) PROVE Holds
    <2>1. /\ UNCHANGED <<creator, streams, listener>> /\ kill[s][f] = "idle" /\ f # "listener"
          /\ \A k \in Killers : k # f => kill'[s][k] = kill[s][k]
      BY <1>8, <1>a, LifecycleAssumption DEF FinishStream
    <2> QED
      BY <2>1, <1>b, <1>c
  <1>9. ASSUME NEW k \in Killers, KillStep(s, k) PROVE Holds
    <2>1. /\ UNCHANGED <<creator, listener>> /\ kill[s][k] # "idle"
          /\ \A j \in Killers : j # k => kill'[s][j] = kill[s][j]
      BY <1>9, <1>a DEF KillStep, KillRuns, KillCallsBolt, KillLookup, KillStop, KillDelete,
          KillLoad, KillStore
    <2>2. CASE KillLookup(s, k) \/ KillStop(s, k)
      <3>1. UNCHANGED streams /\ kill[s][k] \notin {"load", "store"}
        BY <2>2 DEF KillLookup, KillStop
      <3> QED
        BY <2>1, <3>1, <1>b, <1>c
    <2>3. CASE KillDelete(s, k)
      <3>1. kill'[s][k] = "load"
        BY <2>3, <1>a DEF KillDelete
      <3> QED
        BY <2>1, <3>1, <1>b
    <2>4. CASE KillLoad(s, k)
      <3>1. creator[s] = "created" => kill'[s][k] = "store"
        BY <2>4, <1>a DEF KillLoad, RegistrationInv
      <3> QED
        BY <2>1, <3>1, <1>b
    <2>5. CASE KillStore(s, k)
      <3>1. Recorded(s)'
        BY <2>5, KillStoreRecords
      <3> QED
        BY <2>1, <3>1, <1>b
    <2> QED
      BY <1>9, <2>2, <2>3, <2>4, <2>5 DEF KillStep, KillRuns, KillCallsBolt
  <1> QED
    BY <1>2, <1>3, <1>4, <1>5, <1>6, <1>7, <1>8, <1>9, OwnStep DEF StreamStep, CreatorStep,
        CreatorRuns, CreatorCallsBolt

\* A created stream that left the map and that nobody is killing has a finished
\* record, unless a patch interfered: map and bucket agree when the killers are
\* done.  It takes a failing Store or Decode or a crash to break this.
THEOREM UnregisteredCorrect ==
    ASSUME Faults \cap {"store", "decode", "crash"} = {} PROVE Spec => []UnregisteredIsFinished
  <1>1. Init => RegistrationInv
    BY DEF Init, RegistrationInv
  <1>2. TypeOK /\ RegistrationInv /\ RestInv /\ [Next]_vars => RestInv'
    BY RestNext
  <1>3. RestInv => UnregisteredIsFinished
    BY DEF RestInv, Recorded, UnregisteredIsFinished, Unpatched, KillInFlight
  <1> QED
    BY <1>1, <1>2, <1>3, RestInit, RegistrationNext, TypeCorrect, PTL DEF Spec
=============================================================================
