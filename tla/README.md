# A TLA+ model of the code-cord server

The code-cord server starts stream programs (as child processes or docker
containers), lets participants join them, and keeps a record of both in bolt
files. This directory holds the specifications of that behaviour, the TLC
configurations that check them on small instances, and proofs that TLAPS checks.
All paths below are relative to the root of the repository (`src/...` in
`PROJECT.json`).

Run a configuration with `tlc -config <run>.cfg <module>` and a proof module with
`tlapm StreamLifecycleProofs.tla` (or any other module whose name ends in `Proofs`).
`PROJECT.json` lists the runs, the lines each definition translates, the mutants that show each property can fail, the hazards
and the findings.

## 1. Inventory

The repository has no tests and no documentation besides its comments and its
error messages; the models are read from the code.

| Component | State it keeps | Operations | What makes it correct |
|---|---|---|---|
| Stream lifecycle (`server/stream.go`, `stream/*.go`) | the map `Server.streams`, a row per stream in the bucket of `streamStorage`, one process or container per stream, the goroutines that wait for it | `NewStream`, `FinishStream`, `PatchStream`, `killStream`, `listenStreamInterruptEvent`, `Start`, `Stop` | map, row and process agree when nobody is working on them; no process without an owner; a finished stream stays finished; a dead one is noticed |
| Participants (`server/participant.go`, `server/stream_handler.go`) | `pendingParticipants` and a channel per waiting participant, the list of participants in `participantStorage` | `JoinParticipant`, `DecideParticipantJoin`, `StreamParticipants`, `PatchParticipant`, `addNewParticipant`, `updateParticipantInfo` | nobody is let in without a reason; a decision answered with success has counted; who has joined is on the record; requests are answered |
| Stream listing (`StreamList`, `handler/models/api.go`, `handler/api/get_streams.go`) | none of its own | `GET /stream` with filter, order and page | a page holds what belongs to it; a walk through the pages misses nobody |
| Storage (`storage/*.go`) | three bolt files with one bucket each, open transactions | `Load`, `Store`, `Delete`, `All`, `Size`, `Backup`, `Close` | a `Store` returns; a value read is the value stored |
| Start and stop (`server/server.go`, `main.go`) | the two http servers, the storages | `New`, `Run`, `Stop`, the signal handler | the streams found are killed and recorded; storages close behind the last request; the process ends |
| Access tokens (`handler/middleware/auth.go`, `NewStreamHostToken`, `NewServerToken`) | an RSA key pair per stream, in the map; the server's keys | token checks in front of the endpoints | a token opens its own stream only, host endpoints to the host only |
| Settings (`handler/models/stream.go`, `PatchStream`) | the join policy, the code and the names in the row of a stream | the validation of create, patch and join requests, overlapping patches | what a join goes by has passed validation; updates are not lost without a reason |
| Addresses (`util/net.go`, `stream/standalone.go`, `handler/stream_proxy.go`) | the port of each stream, who listens at it | `FreePort`, `Start`, `connectToStream`, `StreamAddress`, the redirects | a stream's address is answered by its own program |
| Options, avatars, responses, the API client, helpers | configuration; a row per avatar | | sequential code without shared state |

How they interact: handlers call the server's methods, each in a goroutine of its
own. `NewStream` puts the stream's module into a `sync.Map` where all other
requests find it; `killStream` takes it out. The process of a stream is observed
by the goroutine of `Start`, which sends on an unbuffered channel to
`listenStreamInterruptEvent`, which calls `killStream`. The host's decision goes
over an unbuffered channel that lives in the value of `pendingParticipants`. Rows
are read, changed and written back as a whole, in two transactions and without a
lock. Nothing but bolt's own locks and the `sync.Map`s orders the goroutines, and
that is where the hard behaviour is; the list is under `hazards` in `PROJECT.json`.

## 2. The modules

| Module | Models | Kind |
|---|---|---|
| `StreamContract` | what the server promises about a stream from outside: it is opened once, never without a record, and its end is recorded | abstract specification |
| `StreamLifecycle` | `NewStream`, `FinishStream`, `PatchStream`, `killStream`, the waiter and the listener, a restart | detailed, implements `StreamContract` |
| `StreamLifecycleProofs` | theorems about `StreamLifecycle`: types, the map and the processes | proofs |
| `StreamContractProofs` | theorems about `StreamLifecycle`: the contract, and map, rows and processes together | proofs |
| `Participants` | the requests about the participants of one stream | detailed |
| `ParticipantsProofs` | theorems about `Participants` | proofs |
| `StreamSettings` | what create and patch requests let into the row of a stream, and what its end and other patches leave of it | composes, implements `Participants` |
| `StreamSettingsProofs` | theorems about `StreamSettings` | proofs |
| `StreamAddresses` | the ports of standalone streams around `StreamLifecycle` | composes |
| `StreamAddressesProofs` | theorems about `StreamAddresses` | proofs |
| `StreamList` | the query of the listing, its pages, backups, and the locks of bolt they meet | detailed |
| `StreamListProofs` | theorems about `StreamList` | proofs |
| `Server` | the two http servers, the tokens that open them, `Stop` and `Run`, and the start of the next server, around the streams of `StreamLifecycle` | composes |
| `ServerProofs` | theorems about `Server` | proofs |
| `MCStreamLifecycle`, `MCParticipants`, `MCStreamSettings`, `MCStreamAddresses`, `MCStreamList`, `MCServer` | symmetry and the sets the instances range over | for TLC |

### StreamLifecycle

| Variable | In the code |
|---|---|
| `streams` | keys of `Server.streams` |
| `row[s]` | the record in `streamStorage`: status, who stamped `FinishedAt`, which patches it contains |
| `creator[s]`, `tries[s]` | where `NewStream` and `connectToStream` stand, the dials so far |
| `process[s]`, `waiter[s]`, `listener[s]` | the process or container, the goroutine of `Start`, `listenStreamInterruptEvent` |
| `kill[s][k]`, `killCopy[s][k]` | where killer `k` stands in `killStream` and the row it has decoded |
| `patch[s][p]`, `draft[s][p]` | the same for `PatchStream` |
| `notice[s]` | the goroutine that announces the host |

One action is one access to shared state: `killStream` is `KillLookup` (the map),
`KillStop` (the process), `KillDelete` (the map), `KillLoad` and `KillStore` (the
bucket), for every goroutine that can be in it: the `FinishStream` requests, the
listener, and `NewStream` when its `Store` fails. `killStream` goes on to the row
also when the map entry is already gone, as the code does. `FinishStream` answers
an error when the stream is not in the map, and otherwise answers success whatever
`killStream` met: errors are only logged.

What fails is chosen by the constant `Faults`: a `Store`, a `Decode`,
`ContainerStop`, `ContainerWait`, and the server itself (`Crash`: goroutines and
map are lost, rows and processes are not; `New` reconciles nothing). The stream
program may exit at any time, with or without an error (`ProcessExits`), and dials
may fail while it runs.

Two differences between the launch modes are kept: only a container reports a
clean exit (`Reports`), and only a container can survive `Stop` or be left behind by
a failing start. `Process.Kill` only sends a signal; in the model the process ends with it.
That the connection of a successful dial fails to close (`server/stream.go:575`) is left out.

### StreamContract and the refinement

`access[s]` is "open" while the stream is in the map, "closed" once it has been
created and is not, "never" before. `record[s]` is the status of the row.
`ImplementsContract` says that every behaviour of `StreamLifecycle` is one of the
contract: a stream is opened once and not before its record, the record never
disappears, and only a late patch revives a finished record.
`EndIsRecorded` adds for the run without faults and patches that the end of every closed
stream gets on the record, provided that bolt returns.

### Participants

`join[j]` stands in `JoinParticipant`; `pending` holds the keys of
`pendingParticipants`, `roster` the record, `copy[j]` the list `j` has decoded and
is going to write back. A decision and a waiting join meet in one step
(`ReceiveDecision`), because the channel has no buffer. `PatchStream` may change the
settings between any two requests, so `JoinArrives` loads any of them; the empty
policy is among them because `PatchStreamRequest.Validate` lets it pass.
`DecideParticipantJoin` looks into the two maps one after the other (`Decide`, `DecideLooks`).
`due[l]` is a history variable: who has been visible, waiting or on the record, ever since the
listing began. A `Range` of a `sync.Map` may or may not see the keys stored or deleted while it
runs.

### StreamSettings

`Participants` lets a join load any settings that pass validation. `StreamSettings`
says which there are: `info` is the row, `CreateRequests` and `PatchRequests` are
bodies clients send, valid or not, and `ValidCreate`, `ValidPatch` and `ValidJoin` are
the `Validate` methods, in which every rule but `Required` lets the empty value pass. A
text is one of a few words: `Bad` is one that every rule but emptiness rejects, "letters"
one of a good length that is no code. A field that is a pointer in Go is `<<>>` or
`<<v>>`. `draft[w]` is the row a writer has decoded and will write back as a whole:
`PatchStream` requests `p` and, as `"kill"`, the end of the stream. `created`, `stored` and
`exposed` are history variables; `LastWriteCounts` says with them that a field is what the
last writer that set it asked for (`LastGiver`), unless that writer stored while another
held an older row. The
validation of a patch with a host reads the join policy even if there is none: that
panic is a step of the model, and `Config` drops the host, as `patchStream` does.
`ImplementsParticipants` is the specification of `Participants`: settings that reach a
join are among those `Participants` checks.

### StreamAddresses

| Variable | In the code |
|---|---|
| `preferred[s]`, `port[s]` | `cfg.Launch.PreferredPort`, and the port `Start` has passed to the program |
| `bound` | streams whose program listens by now |
| `overlap[s]` | streams that were not listening yet when one of the two picked its port (history) |

`StreamAddresses` refines the steps of `StreamLifecycle` with ports. `FreePort` is a port
nobody listens at, at that moment; the program binds it in a step of its own (`Binds`),
or exits with an error because somebody else has (`BindFails`). A dial succeeds when
anybody answers at the address (`Dials`), as `connectToStream` does not ask who it is.
`Reached(s)` is where a redirected request for `s` ends up. Each step is one of
`StreamLifecycle` with something to say about ports, or leaves its variables alone.

### StreamList

`rows` is the bucket and `snap[c]` what the open cursor of `c` sees. A `Store` is one
step, unless it has to grow the file: then it waits in `grower` until `cursors` is
empty, and no read transaction begins meanwhile. The arithmetic of the page is that
of the code, with an int of `MaxInt` (`Wrap`), the capacity of the slice, and the
panics of a slice expression out of bounds. `Queries` are URL queries as they come,
`Build` fills in the defaults and `Valid` is the validation; what is not valid is
answered at once. A client that gives no page walks on from the first while `hasNext`
is set. A backup is a read transaction that lasts as long as its client reads
(`backups`), and holds the lock of the mapping as an open cursor does (`Reading`). A row is
stored when its stream is new and when it ends; the Store of `PatchStream`, which may bring an
ended row back (`server/stream.go:242`), is left out, so that a bucket which is what it was is
one in which nothing was stored. So is a `mode=` or `status=` given as an empty word, which
passes the validation and fits no stream. Streams are numbers in the order of their UUIDs, so the order of the UUIDs and the order of
the starts are independent.

`Listing` is the sorted list of what fits, chosen among the functions from positions to
streams. `sort.Slice` is not stable: it leaves equal rows as they were in a slice of
`ShortSlice` or less (6 or 12, depending on the version of Go), and in a longer one puts them
into an order that only the rows determine. So the order of a long listing by launch mode
may change between two pages of a walk; what is claimed of walks is claimed where the order is
`Settled`, that is, the listing is short or no two of its streams are equal in the field. The
streams and their rows are counted in an int, which is the assumption `Cardinality(Streams)
<= MaxInt`.

### Server

`Server` extends `StreamLifecycle` and conjoins each of its steps with what the http
servers, the tokens and the storages allow at that time. What is dropped is a failing bolt
other than one that has been closed (`BoltFails`, `PatchFails`). `Patch` is a `PatchStream`
that a token has opened: the core server accepts it until `Shutdown`, also while `Stop` goes
through the streams.

| Variable | In the code |
|---|---|
| `serving` | which of the two http servers accepts requests |
| `stop` | where the goroutine of the signal handler stands in `Stop` |
| `found` | the streams in the map when `Stop` began (a history variable) |
| `opened` | the storages that are open |
| `exited` | `Run` and `main` have returned; the goroutines are gone (`Crash`) |
| `owner[s]` | the client whose request created `s`; `Subject` gives the subject of its server token, which the row records |
| `tokens`, `joining` | stream tokens that clients hold, and those that joins still wait for; gone with the keys when the program ends |
| `sent[s][r]` | by whom and over which server the `FinishStream` or `PatchStream` request `r` came |

`StreamAuth` is asked when a request arrives and not again: between `Ask` and `Finish`
the stream may end. `Guests` are the clients that ask to join. The API server on the local address asks for no token at all. A
`Range` over a `sync.Map` visits what was there when it began and stayed
(`StopRanged`), and what is added may or may not be visited (`StopVisits`).
`Shutdown` is two steps, closing the listeners and waiting for the requests (`Busy`);
`MainReturns` may come at any time after the first of them for the core server,
because `ListenAndServe` returns then. `MainReturns` reuses `Crash` for the end of the
goroutines.

`successor` is the next server that is started on the same data folder while the old one runs or after
it: `storage.New` waits, without a timeout, for the lock of each bolt file
(`Unlocked`: `Close` or the end of the process releases it), then both http servers bind
their ports, which are fixed. `SuccessorFindsPorts` says that it never gets as far as
`ListenAndServe` while the old server still listens, which would end it with `Fatal`: the
order of `Stop`, listeners before storages, is what makes this so. Streams of the old server
are unknown to the next one; that is `Crash` in `StreamLifecycle`.

## 3. The runs

| Run | Instance | Shows |
|---|---|---|
| `lifecycle` | 1 stream, 2 `FinishStream`, both modes, a retry count of 3, nothing fails but the stream program, fair | `TypeOK`, `FinishStopsProcess`, `ProcessHasOwner`, `FinishRecorded`, `UnregisteredIsFinished`, `CrashIsReaped`, `LaunchWatchedOrUndone`, `FinishTakesEffect`, `EndIsRecorded` |
| `lifecycle_faults` | the same with 1 `PatchStream`, every fault and restarts | `RegisteredHasRow`, `FinishUnregisters`, `ImplementsContract` |
| `early_interrupt_lost` | 1 stream, fair | `FailureIsReaped` is violated |
| `patch_resurrects` | 1 `FinishStream`, 1 `PatchStream` | `FinishIsFinal` is violated |
| `join` | 2 joins, 2 decisions, 1 listing, 1 rename, every policy, failing `Store` and `Decode` | `TypeOK`, `AdmissionJustified`, `DecisionCounts`, `ListingComplete` |
| `joined_lost` | 2 joins | `JoinedIsRecorded` is violated |
| `decision_blocks` | 1 join, 1 decision, fair | `DecisionReturns` is violated |
| `settings` | 24 create and 15 patch bodies, valid or not, 2 patches, 1 join, 1 decision, the end, failing `Store` and `Decode`, fair | `SettingsTypeOK`, `CodeIsSet`, `LastWriteCounts`, `ImplementsParticipants`, `JoinSettles` |
| `addresses` | 2 standalone streams, 2 ports, one of them preferred or not, failing `Store`, restarts, fair | `AddressesTypeOK`, `OwnProgramAnswers`, `MixupEnds` |
| `listing` | 3 streams, 1 client, 12 queries by each field, 1 backup, ints up to 7, equal rows keep their order among two, fair | `TypeOK`, `PageIsRight`, `WalkMissesNobody`, `WalkRepeatsOnlyPushed`, `WalkIsExact`, `GrowthIsDelayedOnly` |
| `list_blocks_writer` | 2 streams, 1 client, fair | `StoreReturns` is violated |
| `shutdown` | 1 stream, 1 `FinishStream` and 1 `PatchStream` request and `Stop`, 2 clients with subjects of their own, one of whom may join, a secured server, the next server, fair | `ServerTypeOK`, `OnlyHostActs`, `StopFinishesStreams`, `ClosedAfterRequests`, `StopEnds`, `SuccessorFindsPorts` |

**Why the bounds are enough.** Streams share nothing but the map and the buckets,
whose keys they are, so one stream shows every interleaving about a stream. Two
`FinishStream` requests, the listener and the creator are four racing killers; a
third request adds no new pair. One patch is enough to overlap an end; that a patch
can lose another patch's fields is the same read-modify-write and is listed as a
hazard. Two joins are enough for a lost update, two decisions for a race about one
waiting participant. Three streams and pages of one and two give pages that end
before, inside and after the list, and a walk of up to three pages; an int of 7 is
small enough for a page to wrap, and two rows that keep their order among equals leave three
that need not. Two clients are a host and a stranger; each of them may create the stream, and
`Guests` lets one of them join it, so the guest is the host or the stranger;
`Stop` visits one stream after the other, each by itself a run of `killStream`, and the
request, the listener and `Stop` race for it. Two streams are enough for a port that is
taken twice, and with two ports there is another to escape to; a third stream would meet
each of them as the other does. Two patches and the end are three writers of one row,
enough for each to overlap the others in either order. Every counter is bounded by the code itself (`tries`
by the retry count) or by the number of requests, which is why deadlock is not
checked: the requests of an instance run out, and that is the only reason where no
violated property says otherwise.

**Fairness.** Weak fairness for each goroutine that can take a step, because the Go
scheduler runs every runnable goroutine: the creator, the waiter, the listener, the
killers, the steps of a join, up to the point where one of them calls bolt. A call of bolt is
owed nothing: after one listing of the streams a `Store` may wait for ever
(`list_blocks_writer`), and `Load` behind it; a backup that nobody reads does the same, and
any of the three files can be backed up. So the steps of `NewStream`, `killStream` and
`JoinParticipant` are split into those that run and those that call bolt (`CreatorRuns` and
`CreatorCallsBolt`, `KillRuns` and `KillCallsBolt`, `JoinRuns` and `JoinCallsBolt`), only the
first are fair, and what needs bolt says so in its antecedent: `EndIsRecorded` and
`JoinSettles` begin with `BoltReturns`. `CrashIsReaped`, `LaunchWatchedOrUndone`,
`FinishTakesEffect` and `MixupEnds` hold although bolt may never answer: `killStream` stops
the process and leaves the map before it touches the row. That the calls of the docker daemon
return is assumed. Requests, exits of the stream program and failures are owed to nobody and
are not fair, and how a dial ends is not either: a dial is a step of the creator, and only
their bound makes `LaunchWatchedOrUndone` hold. A decision is fair only together with the join
that receives it. In `Server`, `Stop` is owed nothing while it goes through the streams,
because its `killStream` calls bolt: a `Stop` stuck there reaches no `Shutdown`, and the
program goes on. `StopEnds` therefore begins where the streams are through, and needs `Stop` to
tell the core server to shut down (`ShutdownCore`), `main` to return and the next server to be
scheduled like any process. The clients are not fair, and neither are the waits of `Stop` for
them: a join may wait for its host for ever, and the program still ends, because `Run` does not
wait for `Stop`. A stream program that has been started gets to the point where it listens
(`BindStep`), and is owed nothing after that. In `StreamList`,
`Grown` is weakly fair: bolt's lock goes to the writer when the last reader leaves, and no new
one enters while it waits. A backup is not owed its end: the code gives the answer no
deadline, and a client that stays connected and does not read keeps the transaction open for
ever. `GrowthIsDelayedOnly` has `BackupsEnd` as its antecedent.

### What is violated

These are disagreements between a comment of the source and its code; each run shows
the shortest behaviour.

- `early_interrupt_lost`: the listener runs before the stream enters the map. A
  failure in between is consumed by a `killStream` that finds nothing there, and
  `NewStream` then registers a dead stream.
- `patch_resurrects`: `PatchStream` writes back the row it loaded before the end.
- `joined_lost`: of two participants who join at once one is lost from the record.
- `decision_blocks`: the host's decision about a participant who does not, or no
  longer, receive from the channel is never answered.
- `list_blocks_writer`: the cursor of a listing stays open, so a `Store` that has to
  grow the file waits for ever, with its lock, and later reads behind it.

### Known and not claimed

A clean exit of a standalone program is reported to nobody (`stream/standalone.go:69`).
An error of `ContainerWait` is sent on a channel nobody reads
(`stream/docker_container.go:110`). A failing `Store` in `NewStream` leaves the process
running, because `killStream` does not find it in the map (`server/stream.go:125`). A
failing `Stop` is only logged (`server/stream.go:389`). After a restart a row that says
running can be neither joined nor finished (`server/stream.go:188`).
A walk through a long listing by launch mode may skip a stream (`server/stream.go:465`).
`PatchParticipant` answers with the patched participant and does not store it
(`server/participant.go:189`). A participant who waits for the host waits on when the
stream ends. A participant may be listed twice, as waiting and as joined. A patch with a host and
without a join policy is a panic (`handler/models/stream.go:213`), and a host is never
patched, because `handler/patch_stream_info.go:32` tests the field it is about to set
instead of the request's. Of two patches that overlap, the later Store erases what the
other has changed (`server/stream.go:242`). A stream may be redirected to the program of
another one while both start, or for good where a standalone program ended without an
error or a failing `Store` left an orphan with its port. All of these
are in the models, as steps or as the limits of the properties. A stream that registers after
`Stop` has gone through the map is left running when the program ends
(`server/server.go:153`), and so is a storage that `Stop` has not come to close when
`Run` returns (`server/server.go:144`): `StopFinishesStreams` speaks of the streams found,
and no property claims that the storages get closed. A patch that is stored behind the
`killStream` of `Stop` takes the end off the record again; `StopFinishesStreams` names that
case (`PatchedBehindStop`). A `Stop` whose `killStream` meets a blocked bolt ends nothing. Outside the models:
`cli/client.go` expects 200 from the endpoint that answers 201
(`handler/api/generate_token.go:32`); `handler/join_participant_decision.go:14` asks whether
the parameter `allowed` is there and not for its value; and the redirect of
`handler/stream_proxy.go:25` is permanent, so a client may keep an address beyond the life of
its stream.

## 4. The proofs

Seven modules of proofs establish, for every set of streams, requests, modes, settings,
bodies, ports and queries and every positive retry count, and for every set of faults but
those the last column excludes:

| Theorem | Statement | Faults excluded |
|---|---|---|
| `TypeCorrect` | `Spec => []TypeOK` | |
| `RegistrationCorrect` | `Spec => []RegisteredHasRow` | |
| `FinishCorrect` | `Spec => []FinishUnregisters` | |
| `StopCorrect` | `Spec => []FinishStopsProcess` | a stop |
| `ContractImplemented` | `Spec => ImplementsContract`, the refinement of `StreamContract` | |
| `OwnerCorrect` | `Spec => []ProcessHasOwner` | a `Store`, a stop, a crash |
| `FinishRecordedCorrect` | `Spec => []FinishRecorded` | a `Store`, a `Decode` |
| `UnregisteredCorrect` | `Spec => []UnregisteredIsFinished` | a `Store`, a `Decode`, a crash |
| `FinishCorrectOnServer` | `ServerSpec => []FinishUnregisters` | |
| `ServerTypeCorrect` | `ServerSpec => []ServerTypeOK` | |
| `HostActsCorrect` | `ServerSpec => []OnlyHostActs`, also for clients without a subject and a server that is not secured | |
| `SuccessorCorrect` | `ServerSpec => []SuccessorFindsPorts` | |
| `ClosedCorrect` | `ServerSpec => []ClosedAfterRequests` | |
| `StopFinishesCorrect` | `ServerSpec => []StopFinishesStreams` | a stop |
| `OwnProgramCorrect` | `AddressesSpec => []OwnProgramAnswers` | |
| `AddressesTypeCorrect` | `AddressesSpec => []AddressesTypeOK` | |
| `ParticipantsTypeCorrect` | `Spec => []TypeOK` of `Participants` | |
| `AdmissionCorrect` | `Spec => []AdmissionJustified` | |
| `DecisionCorrect` | `Spec => []DecisionCounts` | |
| `ListingCorrect` | `Spec => []ListingComplete` | |
| `CodeCorrect` | `SettingsSpec => []CodeIsSet` | |
| `ParticipantsImplemented` | `SettingsSpec => ImplementsParticipants`, which is `Spec` of `Participants` | |
| `AdmissionCorrectWithSettings` | `SettingsSpec => []AdmissionJustified` | |
| `SettingsTypeCorrect` | `SettingsSpec => []SettingsTypeOK` | |
| `LastWriteCorrect` | `SettingsSpec => []LastWriteCounts` | |
| `TypeCorrect` of `StreamListProofs` | `Spec => []TypeOK` of `StreamList` | |
| `PageCorrect` | `Spec => []PageIsRight` | |
| `NobodyMissed` | `Spec => []WalkMissesNobody` | |
| `RepeatsOnlyPushed` | `Spec => []WalkRepeatsOnlyPushed` | |
| `WalkCorrect` | `Spec => []WalkIsExact` | |

The faults excluded are those under which the code breaks the property: an error of `Store`,
`Decode` or `Stop` is only logged by `killStream`, a failing `Store` of `NewStream` leaves its
process behind, and a crash forgets the map.

Those about the lifecycle rest on `LifecycleAssumption` only: the names of the internal killers are
no requests, the modes are the two the code knows, the retry count is positive.
Those of `StreamAddressesProofs` add `AddressesAssumption` (ports are positive, a preferred one is
among them, streams are standalone and not patched), for any number of ports. Those about
`Participants` rest on `ParticipantsAssumption` (bolt and the decoding are all that fails),
those about `StreamSettings` on it and on `SettingsAssumption`: bodies are of the types the
code decodes them into, a code is neither empty nor one of the texts that are none, and the
end of the stream is no patch. Those of `ServerProofs` rest on
`LifecycleAssumption` and on `ServerAssumption`: `Stop` kills under a name of its own,
finishing and patching requests have different names, guests are clients, and the faults of the
lifecycle include those that closing and exiting cause.
Those of `StreamListProofs` rest on `StreamListAssumption`: the queries are of the types the
URL is decoded into, the streams are finitely many, and there are no more of them than an int
counts.

The arguments:

- `TypeOK` bounds `tries` by the retry count and is not inductive: `ConnectRetry`
  would count beyond it from a state that dials with no dial left. `DialsLeft` says
  that no such state is reached; `TypeInv` is both.
- `RegisteredHasRow` needs to know that `NewStream` has stored the row once it is about
  to register, and that what the killers and patches write back is a row and never the
  absence of one, because they stop when they have loaded none (`RegistrationInv`).
- `FinishUnregisters` needs the other half of the race: a `FinishStream` only begins
  when the stream is registered, a stream is registered once, so a killer behind
  `KillDelete`, or one that found the entry gone, knows it stays gone (`FinishInv`).
- `FinishStopsProcess` adds that whoever removes the entry has stopped the process
  before, and that only `Launch` starts one (`StopInv`). The assumption that `"stop"` is
  not among the faults is needed: the error of `Stop` is only logged.
- `FinishCorrectOnServer` carries a theorem of `StreamLifecycle` over: each action of `Server`
  is one of `StreamLifecycle` or leaves its variables alone, by the way `Server` is built
  (`ServerStep`, `ServerLifecycle`; `AddressesStep` is the same for ports).
- `ServerTypeOK` is not inductive: the token of the host is made out to `owner[s]`, which
  has to be a client by then (`OwnerSettled`).
- `OnlyHostActs` needs to know that the owner of a stream does not change once a token
  or a request exists for it (`NewStream` has been called, which happens once), and that
  every token of a host, those that joins wait for included, belongs to the owner or to
  its subject (`AccessInv`).
- `OwnProgramAnswers` speaks of streams in the map; what is inductive is a statement about
  any two programs that run with the same port, neither of them preferred (`PortsInv`):
  their launches overlapped. It is kept because `FreePort` gives
  no port at which somebody listens, because whoever does not listen yet is written into
  `overlap` when another picks its port, and because a process once ended does not run
  again (`NothingStarts`).

- `SuccessorFindsPorts` follows from the order of `Stop` (`PortsFreedInv`): the core server is
  off before the API server is shut down, both are off before a storage is closed, and the next
  server passes the first storage only when one is closed or the program has ended.
- `TypeOK` of `Participants` needs that who goes on to the record has been let in
  (`OutcomeSettled`), or an admitted join could be answered without an outcome.
- `AdmissionJustified` and `DecisionCounts` are parts of one invariant (`AdmitInv`): who is
  on the record, in a copy of it, announced or answered with success was let in by the
  policy or by a decision that was received (`OnlyLetIn`), and a participant has received one decision at most, the one answered with success
  (`OneDecision`). The join leaves the channel in the same step in which the decision is
  answered, which is why a second one finds no receiver.
- `ListingComplete` needs the order of the two reads (`ListInv`): whom a listing owes when it
  is between them is waiting and has been seen, or is on the record, because a participant
  leaves the map only behind the record; and who has left does not come back. Who was refused
  or overwritten in between is owed no more (`DueShrinks`).
- `CodeIsSet` and the refinement of `Participants` rest on `JoinInv`: the join policy in the
  row, in every row a writer has decoded and in every request that has passed validation is
  a valid one. A step of `StreamSettings` is then a step of `Participants` with such settings,
  or leaves the participants alone (`SettingsStep`).

- `ContractImplemented` splits a step by the stream it is about (`StreamStep`): nobody but a
  crash changes two streams at once. What the contract asks of a step needs that `NewStream`
  has stored a row before it registers, and that a killer or a patch that is about to write a
  row back has seen one, of a stream that was opened (`RecordInv`).
- `ProcessHasOwner` follows from where the creator stands: a process it has launched is in
  its hands until `Register`, and whoever takes the stream out of the map has stopped it.
- `FinishRecorded` needs that a killer who has answered has left a finished row or met a
  patch (`Recorded`), although it may have stored the row it decoded long ago: rows only go
  from running to finished but for patches, and no other store brings back a running one.
- `UnregisteredIsFinished` adds that a created stream leaves the map by the hand of a killer
  who has not answered yet and will finish the row, and that the listener enters `killStream`
  once (`RestInv`).
- `AddressesTypeOK` says that a port is answered by one program, which needs that only running
  processes listen (`ListenersInv`).
- `ClosedAfterRequests` needs that `Stop` goes on only when a server is drained
  (`DrainedInv`), and that a server that does not listen and has no request gets none.
- `StopFinishesStreams` is about three actors: the kill `Stop` has begun, a request that
  took the stream out of the map before, and a patch. In the first two cases the process was
  stopped before the entry went, and the storages stay open, so what was begun is completed
  (`StopsInv`). The end stays on the record until a patch that had loaded the row before stores
  it, and then the row is that patch's until the row is finished again (`Ended`, `EndedStays`).
  That the patch is one `killStream` of `Stop` has not read needs that a row contains only
  patches that were stored (`EditsInv`).
- `LastWriteCounts` needs the same of every row a writer has decoded and not stored yet
  (`UpdatesInv`): it is up to date as the row itself is, because whoever stores meanwhile is
  `exposed` from then on.
- `PageIsRight` is arithmetic: `PageCut` shows that the page of a list no longer than its
  capacity holds the positions `(page - 1) * size + k`, for `k` up to `size` and the end of the
  list, and does not wrap; `PagePositions` that these are the positions of that page. It needs
  the invariant that the rows of a cursor are among the rows that are counted later (`RowsInv`).
- `TypeOK` of `StreamList` is not obvious for the number of the page, which a walk counts up:
  a client walks on only from a page whose last position is an int, because a page beyond it
  is a panic (`PageBeyondInt`, `RequestInv`).
- The walks rest on the number of streams ahead of a stream, which is its place when the order
  is settled (`ListingPlaces`) and only grows as streams are stored (`PlaceKept`).
  `WalkMissesNobody` needs that a stream of the first listing that has not been shown stands
  behind what has been (`NobodyPassed`); `WalkRepeatsOnlyPushed` that one that has been shown
  stands where it was or behind a new one (`OnlyPushed`); `WalkIsExact` that what has been shown
  is the beginning of the listing as long as the bucket is the same (`ExactInv`). That a bucket
  that has changed is not what it was again (`GrewAntisymmetric`) is needed for the last one.

Every invariant that a run checks is proved, and so are the two refinements. Only model-checked
are the properties under fairness, which are out of the prover's reach: `CrashIsReaped`,
`LaunchWatchedOrUndone`, `FinishTakesEffect`, `EndIsRecorded`, `JoinSettles`, `MixupEnds`,
`GrowthIsDelayedOnly` and `StopEnds`. The five properties the code violates are shown by TLC's behaviours.

## 5. Plan

In this order, most important behaviour first:

1. Done: `StreamContract`, `StreamLifecycle`, `Participants`, `StreamSettings`,
   `StreamAddresses`, `StreamList`, `Server`, the theorems of section 4. The project keeps to
   twelve runs, and they are all in use: what comes next extends a module and its run, or
   replaces a run.
2. Models: the life of the slice that `Load` returns, which is decoded after its
   transaction (`storage/bucket.go:54`), in `StreamList` or a module `Bucket` that takes
   over `list_blocks_writer`; the server tokens, their expiry and `NewServerToken` in `Server`;
   ports of containers in `StreamAddresses`.
3. Theorems: the properties of `StreamLifecycle` carried over to `StreamAddresses` and
   `Server`, where their faults allow it; the steps behind the liveness
   properties that are plain invariants (what a waiting goroutine waits for is there).

## 6. Not modelled

RSA and JWT, the expiry of tokens, http and routing but for what opens `FinishStream` and
what validates the requests about streams, the contents of messages and images, the
stream program itself beyond the port it listens at, ports of containers and of programs
other than streams, the options, avatars, the responses, and the client but for the way
it walks through the listing. The options are read once, before anything runs; avatars are
written once under a fresh UUID; the client sends a request and decodes the answer: none
of them has a state a run could tell apart. `PROJECT.json` gives the reason for each
component.
