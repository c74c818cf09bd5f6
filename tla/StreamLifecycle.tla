--------------------------- MODULE StreamLifecycle ---------------------------
(***************************************************************************)
(* The life of a stream as server/stream.go runs it.                       *)
(*                                                                         *)
(* A stream is three things that are updated one after the other, under no *)
(* common lock: an entry of the in-memory map Server.streams, a row of the *)
(* bolt bucket Server.streamStorage, and an operating-system process (or a *)
(* docker container) the server has started.  The goroutines that touch    *)
(* them are                                                                *)
(*   - the handler that runs NewStream (the creator of the stream),        *)
(*   - the goroutine of stream.Start that waits for the process to exit,   *)
(*   - listenStreamInterruptEvent, which kills the stream afterwards,      *)
(*   - the handlers that run FinishStream and PatchStream,                 *)
(*   - addNewParticipant, which announces the host to the process.         *)
(* Every access to the map, to the bucket or to the process is one step.   *)
(***************************************************************************)
EXTENDS Naturals, FiniteSets

CONSTANTS
    Streams,     \* stream UUIDs; each is drawn by at most one NewStream
    Finishers,   \* FinishStream requests that a stream can receive
    Patchers,    \* PatchStream requests that a stream can receive
    Modes,       \* launch modes requested of NewStream
    RetryCount,  \* defaultConnectToStreamRetryCount
    Faults       \* the failures of the environment that may happen

\* What can fail around the server: a bucket Store, a Decode of a loaded row,
\* ContainerStop, ContainerWait, and the server process itself.
AllFaults == {"store", "decode", "stop", "wait", "crash"}

\* The goroutines that call killStream for a stream.
Killers == Finishers \cup {"listener", "creator"}

ASSUME LifecycleAssumption ==
    /\ {"listener", "creator"} \cap Finishers = {}
    /\ "never" \notin Finishers
    /\ Modes \subseteq {"standalone_app", "docker_container"}
    /\ RetryCount \in Nat \ {0}
    /\ Faults \subseteq AllFaults

VARIABLES
    streams,   \* keys of Server.streams
    row,       \* row[s]: the record of s in Server.streamStorage
    creator,   \* creator[s]: where NewStream stands
    mode,      \* mode[s]: cfg.Launch.Mode
    tries,     \* tries[s]: failed dials of connectToStream
    notice,    \* notice[s]: the goroutine that announces the host
    process,   \* process[s]: the operating-system process or container
    waiter,    \* waiter[s]: the goroutine of Start that waits for the exit
    listener,  \* listener[s]: listenStreamInterruptEvent
    kill,      \* kill[s][k]: where killer k stands in killStream
    killCopy,  \* killCopy[s][k]: the row killer k has decoded
    patch,     \* patch[s][p]: where request p stands in PatchStream
    draft      \* draft[s][p]: the row request p has decoded

launchVars == <<creator, mode, tries, notice>>
processVars == <<process, waiter, listener>>
killVars == <<kill, killCopy>>
patchVars == <<patch, draft>>
vars == <<streams, row, launchVars, processVars, killVars, patchVars>>

-----------------------------------------------------------------------------
(* streamInfo, reduced to what the operations race on: the status, who     *)
(* stamped FinishedAt, and which PatchStream requests the row contains (the *)
(* requests patch distinct fields).                                        *)
Row == [status : {"absent", "running", "finished"},
        finishedAt : Killers \cup {"never"},
        edits : SUBSET Patchers]

NoRow == [status |-> "absent", finishedAt |-> "never", edits |-> {}]
NewRow == [status |-> "running", finishedAt |-> "never", edits |-> {}]

Finished(r, k) == [r EXCEPT !.status = "finished", !.finishedAt = k]
Patched(r, p) == [r EXCEPT !.edits = @ \cup {p}]

CreatorPC == {"idle", "connecting", "giving up", "storing", "registering",
              "aborting", "created", "failed", "lost"}
KillPC == {"idle", "rejected", "lookup", "stop", "delete", "load", "store", "done", "lost"}
KillInFlight == {"lookup", "stop", "delete", "load", "store"}
PatchPC == {"idle", "lookup", "store", "ok", "error", "lost"}

TypeOK ==
    /\ streams \subseteq Streams
    /\ row \in [Streams -> Row]
    /\ creator \in [Streams -> CreatorPC]
    /\ mode \in [Streams -> {"standalone_app", "docker_container"}]
    /\ tries \in [Streams -> 0 .. RetryCount]
    /\ notice \in [Streams -> {"none", "pending", "sent", "dropped"}]
    /\ process \in [Streams -> {"none", "created", "running", "clean", "failed"}]
    /\ waiter \in [Streams -> {"none", "waiting", "sending", "done", "stuck"}]
    /\ listener \in [Streams -> {"none", "listening", "done"}]
    /\ kill \in [Streams -> [Killers -> KillPC]]
    /\ killCopy \in [Streams -> [Killers -> Row]]
    /\ patch \in [Streams -> [Patchers -> PatchPC]]
    /\ draft \in [Streams -> [Patchers -> Row]]

Init ==
    /\ streams = {}
    /\ row = [s \in Streams |-> NoRow]
    /\ creator = [s \in Streams |-> "idle"]
    /\ mode \in [Streams -> Modes]
    /\ tries = [s \in Streams |-> 0]
    /\ notice = [s \in Streams |-> "none"]
    /\ process = [s \in Streams |-> "none"]
    /\ waiter = [s \in Streams |-> "none"]
    /\ listener = [s \in Streams |-> "none"]
    /\ kill = [s \in Streams |-> [k \in Killers |-> "idle"]]
    /\ killCopy = [s \in Streams |-> [k \in Killers |-> NoRow]]
    /\ patch = [s \in Streams |-> [p \in Patchers |-> "idle"]]
    /\ draft = [s \in Streams |-> [p \in Patchers |-> NoRow]]

-----------------------------------------------------------------------------
(* The process of a stream.                                                *)

\* Stream.Stop: a standalone process is killed (a process that has exited is
\* left as it is); a container may survive, because ContainerStop fails when
\* the daemon does or when the request's context has been cancelled.  Process.Kill
\* does not wait for the exit; here the process ends with the signal, after which
\* it does nothing more.
StopProcess(s) ==
    \/ process' = [process EXCEPT ![s] = IF @ = "running" THEN "failed" ELSE @]
    \/ /\ "stop" \in Faults
       /\ mode[s] = "docker_container"
       /\ UNCHANGED process

\* The stream program ends by itself, with or without an error.
ProcessExits(s) ==
    /\ process[s] = "running"
    /\ \E outcome \in {"clean", "failed"} : process' = [process EXCEPT ![s] = outcome]
    /\ UNCHANGED <<streams, row, launchVars, waiter, listener, killVars, patchVars>>

\* The waiter sees the exit.  Only a container reports a clean one.
Reports(s) == mode[s] = "docker_container" \/ process[s] = "failed"

WaitReturnsMutant(s) ==
    /\ waiter[s] = "waiting"
    /\ process[s] \in {"clean", "failed"}
    /\ waiter' = [waiter EXCEPT ![s] = IF process[s] = "clean" THEN "sending" ELSE "done"]
    /\ UNCHANGED <<streams, row, launchVars, process, listener, killVars, patchVars>>

WaitReturns(s) ==
    /\ waiter[s] = "waiting"
    /\ process[s] \in {"clean", "failed"}
    /\ waiter' = [waiter EXCEPT ![s] = IF Reports(s) THEN "sending" ELSE "done"]
    /\ UNCHANGED <<streams, row, launchVars, process, listener, killVars, patchVars>>

\* ContainerWait reports an error on the channel that Start ignores: the
\* waiter keeps receiving from the other one.
WaitFails(s) ==
    /\ "wait" \in Faults
    /\ mode[s] = "docker_container"
    /\ waiter[s] = "waiting"
    /\ waiter' = [waiter EXCEPT ![s] = "stuck"]
    /\ UNCHANGED <<streams, row, launchVars, process, listener, killVars, patchVars>>

\* interruptChan has no buffer: sender and listener meet, and the listener
\* enters killStream.
Interrupt(s) ==
    /\ waiter[s] = "sending"
    /\ listener[s] = "listening"
    /\ waiter' = [waiter EXCEPT ![s] = "done"]
    /\ listener' = [listener EXCEPT ![s] = "done"]
    /\ kill' = [kill EXCEPT ![s]["listener"] = "lookup"]
    /\ UNCHANGED <<streams, row, launchVars, process, killCopy, patchVars>>

-----------------------------------------------------------------------------
(* NewStream.                                                              *)

\* Keys, token and handler are made; Stream.Start has started the process.
Launch(s) ==
    /\ creator[s] = "idle"
    /\ creator' = [creator EXCEPT ![s] = "connecting"]
    /\ process' = [process EXCEPT ![s] = "running"]
    /\ waiter' = [waiter EXCEPT ![s] = "waiting"]
    /\ UNCHANGED <<streams, row, mode, tries, notice, listener, killVars, patchVars>>

\* ContainerStart fails after ContainerCreate: the container is left behind.
ContainerLeft(s) ==
    /\ mode[s] = "docker_container"
    /\ process' = [process EXCEPT ![s] = "created"]

\* Anything up to Start fails, or Start itself.
LaunchFails(s) ==
    /\ creator[s] = "idle"
    /\ creator' = [creator EXCEPT ![s] = "failed"]
    /\ ContainerLeft(s) \/ UNCHANGED process
    /\ UNCHANGED <<streams, row, mode, tries, notice, waiter, listener, killVars, patchVars>>

\* A dial succeeds, because the program, or another one, listens at the address; the
\* listener of the interrupt channel is spawned.  (That closing the connection again
\* fails, stream.go:575, would be a launch that gives up.)
Connected(s) ==
    /\ creator[s] = "connecting"
    /\ creator' = [creator EXCEPT ![s] = "storing"]
    /\ listener' = [listener EXCEPT ![s] = "listening"]
    /\ UNCHANGED <<streams, row, mode, tries, notice, process, waiter, killVars, patchVars>>

ConnectRetryMutant(s) ==
    /\ creator[s] = "connecting"
    /\ tries' = [tries EXCEPT ![s] = (@ + 1) % RetryCount]
    /\ creator' = [creator EXCEPT ![s] = IF tries[s] = RetryCount THEN "giving up" ELSE @]
    /\ UNCHANGED <<streams, row, mode, notice, processVars, killVars, patchVars>>

ConnectRetryOffByOne(s) ==
    /\ creator[s] = "connecting"
    /\ tries' = [tries EXCEPT ![s] = @ + 1]
    /\ creator' = [creator EXCEPT ![s] = IF tries'[s] > RetryCount THEN "giving up" ELSE @]
    /\ UNCHANGED <<streams, row, mode, notice, processVars, killVars, patchVars>>

\* A dial fails: the process is not listening yet, or is no more.
ConnectRetry(s) ==
    /\ creator[s] = "connecting"
    /\ tries' = [tries EXCEPT ![s] = @ + 1]
    /\ creator' = [creator EXCEPT ![s] = IF tries'[s] = RetryCount THEN "giving up" ELSE @]
    /\ UNCHANGED <<streams, row, mode, notice, processVars, killVars, patchVars>>

GiveUpMutant(s) ==
    /\ creator[s] = "giving up"
    /\ creator' = [creator EXCEPT ![s] = "failed"]
    /\ UNCHANGED process
    /\ UNCHANGED <<streams, row, mode, tries, notice, waiter, listener, killVars, patchVars>>

\* The deferred call of startStreamAndConnect stops the process again.
GiveUp(s) ==
    /\ creator[s] = "giving up"
    /\ creator' = [creator EXCEPT ![s] = "failed"]
    /\ StopProcess(s)
    /\ UNCHANGED <<streams, row, mode, tries, notice, waiter, listener, killVars, patchVars>>

StoreRow(s) ==
    /\ creator[s] = "storing"
    /\ row' = [row EXCEPT ![s] = NewRow]
    /\ creator' = [creator EXCEPT ![s] = "registering"]
    /\ UNCHANGED <<streams, mode, tries, notice, processVars, killVars, patchVars>>

StoreRowFailsMutant(s) ==
    /\ "store" \in Faults
    /\ creator[s] = "storing"
    /\ creator' = [creator EXCEPT ![s] = "registering"]
    /\ UNCHANGED <<streams, row, mode, tries, notice, processVars, killVars, patchVars>>

\* The Store fails: NewStream calls killStream, then returns the error.
StoreRowFails(s) ==
    /\ "store" \in Faults
    /\ creator[s] = "storing"
    /\ creator' = [creator EXCEPT ![s] = "aborting"]
    /\ kill' = [kill EXCEPT ![s]["creator"] = "lookup"]
    /\ UNCHANGED <<streams, row, mode, tries, notice, processVars, killCopy, patchVars>>

Aborted(s) ==
    /\ creator[s] = "aborting"
    /\ kill[s]["creator"] = "done"
    /\ creator' = [creator EXCEPT ![s] = "failed"]
    /\ UNCHANGED <<streams, row, mode, tries, notice, processVars, killVars, patchVars>>

\* The module enters the map; the host is announced by a goroutine.
Register(s) ==
    /\ creator[s] = "registering"
    /\ streams' = streams \cup {s}
    /\ creator' = [creator EXCEPT ![s] = "created"]
    /\ notice' = [notice EXCEPT ![s] = "pending"]
    /\ UNCHANGED <<row, mode, tries, processVars, killVars, patchVars>>

\* addNewParticipant for the host.
AnnounceHost(s) ==
    /\ notice[s] = "pending"
    /\ notice' = [notice EXCEPT ![s] = IF s \in streams THEN "sent" ELSE "dropped"]
    /\ UNCHANGED <<streams, row, creator, mode, tries, processVars, killVars, patchVars>>

-----------------------------------------------------------------------------
(* killStream, and FinishStream in front of it.                            *)

FinishStreamMutant(s, f) ==
    /\ kill[s][f] = "idle"
    /\ kill' = [kill EXCEPT ![s][f] = "lookup"]
    /\ UNCHANGED <<streams, row, launchVars, processVars, killCopy, patchVars>>

FinishStream(s, f) ==
    /\ kill[s][f] = "idle"
    /\ kill' = [kill EXCEPT ![s][f] = IF s \in streams THEN "lookup" ELSE "rejected"]
    /\ UNCHANGED <<streams, row, launchVars, processVars, killCopy, patchVars>>

KillLookupMutant(s, k) ==
    /\ kill[s][k] = "lookup"
    /\ kill' = [kill EXCEPT ![s][k] = IF s \in streams THEN "stop" ELSE "load"]
    /\ streams' = streams \ {s}
    /\ UNCHANGED <<row, launchVars, processVars, killCopy, patchVars>>

KillLookupEarlyReturn(s, k) ==
    /\ kill[s][k] = "lookup"
    /\ kill' = [kill EXCEPT ![s][k] = IF s \in streams THEN "stop" ELSE "done"]
    /\ UNCHANGED <<streams, row, launchVars, processVars, killCopy, patchVars>>

KillLookup(s, k) ==
    /\ kill[s][k] = "lookup"
    /\ kill' = [kill EXCEPT ![s][k] = IF s \in streams THEN "stop" ELSE "load"]
    /\ UNCHANGED <<streams, row, launchVars, processVars, killCopy, patchVars>>

KillStopMutant(s, k) ==
    /\ kill[s][k] = "stop"
    /\ StopProcess(s)
    /\ kill' = [kill EXCEPT ![s][k] = "load"]
    /\ UNCHANGED <<streams, row, launchVars, waiter, listener, killCopy, patchVars>>

\* The error of Stop is only logged.
KillStop(s, k) ==
    /\ kill[s][k] = "stop"
    /\ StopProcess(s)
    /\ kill' = [kill EXCEPT ![s][k] = "delete"]
    /\ UNCHANGED <<streams, row, launchVars, waiter, listener, killCopy, patchVars>>

KillDelete(s, k) ==
    /\ kill[s][k] = "delete"
    /\ streams' = streams \ {s}
    /\ kill' = [kill EXCEPT ![s][k] = "load"]
    /\ UNCHANGED <<row, launchVars, processVars, killCopy, patchVars>>

KillLoad(s, k) ==
    /\ kill[s][k] = "load"
    /\ killCopy' = [killCopy EXCEPT ![s][k] = row[s]]
    /\ \/ kill' = [kill EXCEPT ![s][k] = IF row[s] = NoRow THEN "done" ELSE "store"]
       \/ /\ "decode" \in Faults
          /\ kill' = [kill EXCEPT ![s][k] = "done"]
    /\ UNCHANGED <<streams, row, launchVars, processVars, patchVars>>

KillStoreMutant(s, k) ==
    /\ kill[s][k] = "store"
    /\ row' = [row EXCEPT ![s] = [killCopy[s][k] EXCEPT !.finishedAt = k]]
    /\ kill' = [kill EXCEPT ![s][k] = "done"]
    /\ UNCHANGED <<streams, launchVars, processVars, killCopy, patchVars>>

\* The whole decoded record is written back.
KillStore(s, k) ==
    /\ kill[s][k] = "store"
    /\ \/ row' = [row EXCEPT ![s] = Finished(killCopy[s][k], k)]
       \/ /\ "store" \in Faults
          /\ UNCHANGED row
    /\ kill' = [kill EXCEPT ![s][k] = "done"]
    /\ UNCHANGED <<streams, launchVars, processVars, killCopy, patchVars>>

\* The steps that call bolt, which may keep the caller waiting, and the others.
KillCallsBolt(s, k) == KillLoad(s, k) \/ KillStore(s, k)
KillRuns(s, k) == KillLookup(s, k) \/ KillStop(s, k) \/ KillDelete(s, k)

KillStep(s, k) == KillRuns(s, k) \/ KillCallsBolt(s, k)

-----------------------------------------------------------------------------
(* PatchStream: load the row, look the module up, store the row.           *)

PatchLoad(s, p) ==
    /\ patch[s][p] = "idle"
    /\ draft' = [draft EXCEPT ![s][p] = row[s]]
    /\ patch' = [patch EXCEPT ![s][p] = "lookup"]
    /\ UNCHANGED <<streams, row, launchVars, processVars, killVars>>

PatchLookup(s, p) ==
    /\ patch[s][p] = "lookup"
    /\ \/ patch' = [patch EXCEPT ![s][p] = IF s \in streams /\ draft[s][p] # NoRow
                                           THEN "store" ELSE "error"]
       \/ /\ "decode" \in Faults
          /\ patch' = [patch EXCEPT ![s][p] = "error"]
    /\ UNCHANGED <<streams, row, launchVars, processVars, killVars, draft>>

PatchStore(s, p) ==
    /\ patch[s][p] = "store"
    /\ \/ /\ row' = [row EXCEPT ![s] = Patched(draft[s][p], p)]
          /\ patch' = [patch EXCEPT ![s][p] = "ok"]
       \/ /\ "store" \in Faults
          /\ UNCHANGED row
          /\ patch' = [patch EXCEPT ![s][p] = "error"]
    /\ UNCHANGED <<streams, launchVars, processVars, killVars, draft>>

PatchStep(s, p) == PatchLookup(s, p) \/ PatchStore(s, p)

-----------------------------------------------------------------------------
(* The server process dies and is started again: goroutines and the map    *)
(* are gone, rows and stream processes stay.  Server.New reconciles        *)
(* nothing.                                                                *)
Crash ==
    /\ "crash" \in Faults
    /\ streams' = {}
    /\ creator' = [s \in Streams |-> IF creator[s] \in {"idle", "created", "failed"}
                                     THEN creator[s] ELSE "lost"]
    /\ notice' = [s \in Streams |-> IF notice[s] = "pending" THEN "dropped" ELSE notice[s]]
    /\ waiter' = [s \in Streams |-> "none"]
    /\ listener' = [s \in Streams |-> "none"]
    /\ kill' = [s \in Streams |-> [k \in Killers |->
                    IF kill[s][k] \in KillInFlight THEN "lost" ELSE kill[s][k]]]
    /\ patch' = [s \in Streams |-> [p \in Patchers |->
                    IF patch[s][p] \in {"lookup", "store"} THEN "lost" ELSE patch[s][p]]]
    /\ UNCHANGED <<row, mode, tries, process, killCopy, draft>>

\* NewStream after the launch, with its Store and without.
CreatorCallsBolt(s) == StoreRow(s) \/ StoreRowFails(s)
CreatorRuns(s) ==
    \/ Connected(s)
    \/ ConnectRetry(s)
    \/ GiveUp(s)
    \/ Aborted(s)
    \/ Register(s)

CreatorStep(s) == CreatorRuns(s) \/ CreatorCallsBolt(s)

Next ==
    \/ \E s \in Streams :
        \/ Launch(s)
        \/ LaunchFails(s)
        \/ CreatorStep(s)
        \/ AnnounceHost(s)
        \/ ProcessExits(s)
        \/ WaitReturns(s)
        \/ WaitFails(s)
        \/ Interrupt(s)
        \/ \E f \in Finishers : FinishStream(s, f)
        \/ \E k \in Killers : KillStep(s, k)
        \/ \E p \in Patchers : PatchLoad(s, p) \/ PatchStep(s, p)
    \/ Crash

Spec == Init /\ [][Next]_vars

\* The Go scheduler runs every goroutine that can take a step.  Nothing is owed where
\* a goroutine has called bolt: a Store waits for ever once a listing has left its
\* cursor open (StreamList), and a Load waits behind the Store.  Requests, exits of the
\* stream program and failures are not owed to anybody either.
Fairness ==
    \A s \in Streams :
        /\ WF_vars(CreatorRuns(s))
        /\ WF_vars(WaitReturns(s))
        /\ WF_vars(Interrupt(s))
        /\ \A k \in Killers : WF_vars(KillRuns(s, k))

FairSpec == Spec /\ Fairness

-----------------------------------------------------------------------------
(* Safety.                                                                 *)

\* A stream a client can reach has a row: every request that finds the module
\* in the map also needs the record, so NewStream must store before it
\* registers and no failure may skip that order.
RegisteredHasRow == \A s \in streams : row[s] # NoRow

\* When FinishStream has answered, the stream is out of the map and stays out,
\* also when another request or the listener was killing it at the same time.
FinishUnregisters ==
    \A s \in Streams : \A f \in Finishers : kill[s][f] = "done" => s \notin streams

\* When FinishStream has answered, the process runs no more, also for a request
\* that found the map entry already deleted by a concurrent killStream.
FinishStopsProcess ==
    \A s \in Streams : \A f \in Finishers : kill[s][f] = "done" => process[s] # "running"

\* No process is orphaned: one that runs is still in the hands of NewStream or
\* can be reached through the map, hence by FinishStream.
OwnedByCreator == {"connecting", "giving up", "storing", "registering"}
ProcessHasOwner ==
    \A s \in Streams :
        process[s] = "running" => creator[s] \in OwnedByCreator \/ s \in streams

\* No PatchStream holds a copy of the row or has written one back.
Unpatched(s) == \A p \in Patchers : patch[s][p] \in {"idle", "error"}

\* When FinishStream has answered, the row says so: a request that loses the
\* race for the map entry does not answer before the record is finished.
FinishRecorded ==
    \A s \in Streams : \A f \in Finishers :
        kill[s][f] = "done" /\ Unpatched(s) => row[s].status = "finished"

\* A created stream that is no longer in the map, and that nobody is still
\* killing, has a finished row: map and bucket agree when they are at rest.
UnregisteredIsFinished ==
    \A s \in Streams :
        /\ creator[s] = "created"
        /\ s \notin streams
        /\ \A k \in Killers : kill[s][k] \notin KillInFlight
        /\ Unpatched(s)
        => row[s].status = "finished"

-----------------------------------------------------------------------------
(* Liveness.                                                               *)

\* A registered stream whose process has failed, and whose listener is still
\* there to hear of it, leaves the map.
CrashIsReaped ==
    \A s \in Streams :
        s \in streams /\ listener[s] = "listening" /\ process[s] = "failed"
            ~> s \notin streams

\* A launch does not stay between having started a process and looking after it: either
\* somebody listens for its failure, or NewStream has failed and the process, however
\* late it was given up, runs no more.
LaunchWatchedOrUndone ==
    \A s \in Streams :
        creator[s] = "connecting"
            ~> listener[s] # "none" \/ (creator[s] = "failed" /\ process[s] # "running")

\* A FinishStream that has found its stream takes it out of the map and stops its
\* process, whoever else is killing it and even if bolt never answers again.
FinishTakesEffect ==
    \A s \in Streams, f \in Finishers :
        kill[s][f] = "lookup" ~> s \notin streams /\ process[s] # "running"

\* No call of bolt on behalf of killStream lasts for ever.
BoltReturns == \A s \in Streams, k \in Killers : WF_vars(KillCallsBolt(s, k))

-----------------------------------------------------------------------------
(* What the comments of the source promise and the code does not keep.     *)

\* "listening stream interrupt event": a failure of the process is acted on
\* whenever it comes after the launch, so a created stream whose process has
\* failed does not stay in the map.
FailureIsReaped ==
    \A s \in Streams :
        creator[s] = "created" /\ process[s] = "failed" ~> s \notin streams

\* "FinishStream finishes running stream": the record of a stream FinishStream
\* has finished never says running again.
FinishIsFinal ==
    [][\A s \in Streams :
         (\E f \in Finishers : kill[s][f] = "done") /\ row[s].status = "finished"
             => row'[s].status = "finished"]_vars

-----------------------------------------------------------------------------
(* The contract a stream keeps with its clients, whatever fails.           *)

\* The access a client has to a stream: through the map only.
access ==
    [s \in Streams |-> CASE s \in streams -> "open"
                         [] s \notin streams /\ creator[s] = "created" -> "closed"
                         [] OTHER -> "never"]

record == [s \in Streams |-> row[s].status]

Contract == INSTANCE StreamContract WITH Patching <- Patchers # {}

\* A stream is opened once and not before it has a record, the record never
\* disappears, and only a patch can say again that a finished stream runs.
ImplementsContract == Contract!Spec

\* The end of every closed stream gets on the record, provided that bolt returns and
\* that nothing else fails either.
EndIsRecorded ==
    BoltReturns => \A s \in Streams : access[s] = "closed" ~> record[s] = "finished"
=============================================================================
