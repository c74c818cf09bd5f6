-------------------------------- MODULE Server --------------------------------
(***************************************************************************)
(* The server around its streams: who may create, change and finish them,  *)
(* and how the server stops (server/server.go, main.go, handler/middleware/auth.go). *)
(*                                                                         *)
(* The streams are those of StreamLifecycle; this module adds              *)
(*   - the two http servers, with what opens their endpoints: the core     *)
(*     server asks for tokens, the API server on the local address does    *)
(*     not;                                                                *)
(*   - Stop, the goroutine of the signal handler, which kills the streams  *)
(*     it finds, shuts the http servers down and closes the storages;      *)
(*   - the main goroutine: Run returns as soon as the core server has been *)
(*     told to shut down, and the program ends with it;                    *)
(*   - the next server, started on the same data folder and ports, which   *)
(*     waits for the locks of the storages (storage/storage.go).           *)
(* Bolt fails here only when it has been closed.                           *)
(***************************************************************************)
EXTENDS StreamLifecycle

CONSTANTS
    Clients,   \* users of the two http servers
    Guests,    \* those of them who ask to join a stream
    Subject,   \* Subject[c]: the subject of the server token of c, or ""
    Secured    \* opts.ServerSecurityEnabled

\* Stop kills streams under this name, next to the FinishStream requests.
Signal == "signal"

ASSUME ServerAssumption ==
    /\ Signal \in Finishers
    /\ Patchers \cap Finishers = {}
    /\ {"crash", "store", "decode"} \subseteq Faults
    /\ Guests \subseteq Clients
    /\ Secured \in BOOLEAN

VARIABLES
    serving,   \* http servers that accept requests
    stop,      \* where Stop stands
    found,     \* the streams in the map when Stop began (history)
    opened,    \* storages that are open
    exited,    \* the main goroutine has returned
    successor, \* where the next server stands in New and Run
    owner,     \* owner[s]: the client that created s
    tokens,    \* stream tokens: whose, for which stream, as its host or not
    sent,      \* sent[s][r]: by whom and over which server the request r came
    joining    \* the tokens of joins that wait for the host

stopVars == <<serving, stop, found, opened, exited, successor>>
accessVars == <<owner, tokens, sent, joining>>
serverVars == <<vars, stopVars, accessVars>>

-----------------------------------------------------------------------------
NoClient == "nobody"
NoRequest == [server |-> "none", client |-> NoClient]
Token == [stream : Streams, holder : Clients, host : BOOLEAN]
Storages == {"avatar", "stream", "participant"}
Callers == Finishers \ {Signal}
Requests == Callers \cup Patchers

StopPC == {"idle", "ranging", "shutting core", "draining core", "shutting api", "draining api",
           "closing avatar", "closing stream", "closing participant", "done", "lost"}

SuccessorPC == {"opening stream", "opening avatar", "opening participant", "listening",
                "serving", "failed"}

ServerTypeOK ==
    /\ serving \subseteq {"core", "api"}
    /\ stop \in StopPC
    /\ found \subseteq Streams
    /\ opened \subseteq Storages
    /\ exited \in BOOLEAN
    /\ successor \in SuccessorPC
    /\ owner \in [Streams -> Clients \cup {NoClient}]
    /\ tokens \subseteq Token
    /\ sent \in [Streams -> [Requests -> [server : {"none", "core", "api"},
                                          client : Clients \cup {NoClient}]]]
    /\ joining \subseteq Token

ServerInit ==
    /\ Init
    /\ serving = {"core", "api"}
    /\ stop = "idle"
    /\ found = {}
    /\ opened = Storages
    /\ exited = FALSE
    /\ successor = "opening stream"
    /\ owner = [s \in Streams |-> NoClient]
    /\ tokens = {}
    /\ sent = [s \in Streams |-> [r \in Requests |-> NoRequest]]
    /\ joining = {}

-----------------------------------------------------------------------------
(* The endpoints.                                                          *)

HostToken(s, c) == [stream |-> s, holder |-> c, host |-> TRUE]
ParticipantToken(s, c) == [stream |-> s, holder |-> c, host |-> FALSE]

\* ServerAuthMiddleware, in front of the server's endpoints when it is secured.
ServerAuth(c) == Secured => Subject[c] # ""

\* What createStream records of the client.
RecordedSubject(s) == IF Secured THEN Subject[owner[s]] ELSE ""

\* StreamAuthMiddleware: the stream is in the map, the token is signed with its
\* key and names it, and is the host's where the endpoint asks for one.
StreamAuth(s, c, hostSpecific) ==
    /\ s \in streams
    /\ \E t \in tokens : t.holder = c /\ t.stream = s /\ (hostSpecific => t.host)

CreateMutant(s, c) ==
    /\ "core" \in serving
    /\ ServerAuth(c)
    /\ Launch(s) \/ LaunchFails(s)
    /\ UNCHANGED <<stopVars, accessVars>>

\* createStream
Create(s, c) ==
    /\ "core" \in serving
    /\ ServerAuth(c)
    /\ Launch(s) \/ LaunchFails(s)
    /\ owner' = [owner EXCEPT ![s] = c]
    /\ UNCHANGED <<stopVars, tokens, sent, joining>>

\* The last step of NewStream, and its answer with the token of the host.
CreateAnswers(s) ==
    /\ Register(s)
    /\ tokens' = tokens \cup {HostToken(s, owner[s])}
    /\ UNCHANGED <<stopVars, owner, sent, joining>>

NewAuthTokenMutant(s, c) ==
    /\ Secured
    /\ "core" \in serving
    /\ ServerAuth(c)
    /\ s \in streams
    /\ tokens' = tokens \cup {HostToken(s, c)}
    /\ UNCHANGED <<vars, stopVars, owner, sent, joining>>

\* NewStreamHostToken, for the subject that has created the stream.
NewAuthToken(s, c) ==
    /\ Secured
    /\ "core" \in serving
    /\ ServerAuth(c)
    /\ s \in streams
    /\ RecordedSubject(s) # "" /\ RecordedSubject(s) = Subject[c]
    /\ tokens' = tokens \cup {HostToken(s, c)}
    /\ UNCHANGED <<vars, stopVars, owner, sent, joining>>

\* JoinParticipant lets somebody in, or waits for the host.  A guest who is waiting or
\* in does not ask again: a second token opens what the first one does.
Join(s, c) ==
    /\ "core" \in serving
    /\ s \in streams
    /\ ParticipantToken(s, c) \notin tokens \cup joining
    /\ \/ tokens' = tokens \cup {ParticipantToken(s, c)} /\ UNCHANGED joining
       \/ joining' = joining \cup {ParticipantToken(s, c)} /\ UNCHANGED tokens
    /\ UNCHANGED <<vars, stopVars, owner, sent>>

\* The host has decided, with the stream still in the map or not.
JoinDecided(t) ==
    /\ ~ exited
    /\ t \in joining
    /\ joining' = joining \ {t}
    /\ tokens' = tokens \cup {t} \/ UNCHANGED tokens
    /\ UNCHANGED <<vars, stopVars, owner, sent>>

\* finishStream of either router, or patchStream of the core router: the request has
\* passed what stands before it.
Ask(s, r, c) ==
    /\ sent[s][r] = NoRequest
    /\ \/ /\ "core" \in serving
          /\ StreamAuth(s, c, TRUE)
          /\ sent' = [sent EXCEPT ![s][r] = [server |-> "core", client |-> c]]
       \/ /\ "api" \in serving
          /\ r \in Callers
          /\ sent' = [sent EXCEPT ![s][r] = [server |-> "api", client |-> NoClient]]
    /\ UNCHANGED <<vars, stopVars, owner, tokens, joining>>

Finish(s, f) ==
    /\ ~ exited
    /\ sent[s][f] # NoRequest
    /\ FinishStream(s, f)
    /\ UNCHANGED <<stopVars, accessVars>>

-----------------------------------------------------------------------------
(* The goroutines of StreamLifecycle, on storages that may be closed.       *)

\* Load finds nothing in a closed file and Store reports an error.
BoltFails(s, k) ==
    \/ kill[s][k] = "load" /\ row[s] # NoRow /\ kill'[s][k] = "done"
    \/ kill[s][k] = "store" /\ row' = row

Kill(s, k) ==
    /\ KillStep(s, k)
    /\ kill[s][k] \in {"load", "store"} /\ row[s] # NoRow
          => (BoltFails(s, k) <=> "stream" \notin opened)
    /\ UNCHANGED <<stopVars, accessVars>>

\* PatchStream finds no row in a closed file, and its Store reports an error.
PatchFails(s, p) ==
    \/ "stream" \notin opened
    \/ patch[s][p] = "lookup" /\ (s \notin streams \/ draft[s][p] = NoRow)

Patch(s, p) ==
    /\ ~ exited
    /\ sent[s][p] # NoRequest
    /\ \/ PatchLoad(s, p)
       \/ PatchStep(s, p) /\ (patch'[s][p] = "error" <=> PatchFails(s, p))
    /\ UNCHANGED <<stopVars, accessVars>>

Background(s) ==
    /\ \/ Connected(s)
       \/ ConnectRetry(s)
       \/ GiveUp(s)
       \/ StoreRow(s)
       \/ AnnounceHost(s)
       \/ ProcessExits(s)
       \/ WaitReturns(s)
       \/ Interrupt(s)
    /\ UNCHANGED <<stopVars, accessVars>>

-----------------------------------------------------------------------------
(* Stop and Run.                                                           *)

\* Requests http.Server.Shutdown waits for.
Busy(server) ==
    \/ \E s \in Streams, f \in Callers :
          /\ sent[s][f].server = server
          /\ kill[s][f] \in {"idle"} \cup KillInFlight
    \/ \E s \in Streams, p \in Patchers :
          /\ sent[s][p].server = server
          /\ patch[s][p] \in {"idle", "lookup", "store"}
    \/ /\ server = "core"
       /\ \/ joining # {}
          \/ \E s \in Streams : creator[s] \in OwnedByCreator

\* main.go: the handler of the signal calls Stop.
StopBegins ==
    /\ stop = "idle"
    /\ stop' = "ranging"
    /\ found' = streams
    /\ UNCHANGED <<vars, serving, opened, exited, successor, accessVars>>

StopKills(s) == kill[s][Signal] \in KillInFlight

\* Range calls killStream for one stream after the other; it may or may not see
\* a stream that has been added.
StopVisits(s) ==
    /\ stop = "ranging"
    /\ s \in streams
    /\ \A t \in Streams : ~ StopKills(t)
    /\ FinishStream(s, Signal)
    /\ UNCHANGED <<stopVars, accessVars>>

StopRangedToClose ==
    /\ stop = "ranging"
    /\ \A s \in Streams : ~ StopKills(s)
    /\ \A s \in found \cap streams : kill[s][Signal] # "idle"
    /\ stop' = "closing avatar"
    /\ UNCHANGED <<vars, serving, found, opened, exited, successor, accessVars>>

StopRangedMutant ==
    /\ stop = "ranging"
    /\ \A s \in found \cap streams : kill[s][Signal] # "idle"
    /\ stop' = "shutting core"
    /\ UNCHANGED <<vars, serving, found, opened, exited, successor, accessVars>>

StopRanged ==
    /\ stop = "ranging"
    /\ \A s \in Streams : ~ StopKills(s)
    /\ \A s \in found \cap streams : kill[s][Signal] # "idle"
    /\ stop' = "shutting core"
    /\ UNCHANGED <<vars, serving, found, opened, exited, successor, accessVars>>

ShutdownMutant(server, before, between, after) ==
    /\ stop = before
    /\ serving' = serving \ {server}
    /\ stop' = after
    /\ UNCHANGED <<vars, found, opened, exited, successor, accessVars>>

\* http.Server.Shutdown closes the listeners and waits for the requests.
Shutdown(server, before, between, after) ==
    \/ /\ stop = before
       /\ serving' = serving \ {server}
       /\ stop' = between
       /\ UNCHANGED <<vars, found, opened, exited, successor, accessVars>>
    \/ /\ stop = between
       /\ ~ Busy(server)
       /\ stop' = after
       /\ UNCHANGED <<vars, serving, found, opened, exited, successor, accessVars>>

Close(storage, before, after) ==
    /\ stop = before
    /\ opened' = opened \ {storage}
    /\ stop' = after
    /\ UNCHANGED <<vars, serving, found, exited, successor, accessVars>>

ShutdownCore == Shutdown("core", "shutting core", "draining core", "shutting api")

StopStep ==
    \/ \E s \in Streams : StopVisits(s)
    \/ StopRanged
    \/ ShutdownCore
    \/ Shutdown("api", "shutting api", "draining api", "closing avatar")
    \/ Close("avatar", "closing avatar", "closing stream")
    \/ Close("stream", "closing stream", "closing participant")
    \/ Close("participant", "closing participant", "done")

MainReturnsMutant ==
    /\ ~ exited
    /\ stop = "done"
    /\ Crash
    /\ exited' = TRUE
    /\ UNCHANGED <<serving, stop, found, opened, successor, accessVars>>

\* ListenAndServe returns when Shutdown has been called, Run and main with it, and
\* the goroutines are gone wherever they are, with the keys the tokens are signed with.
MainReturns ==
    /\ ~ exited
    /\ "core" \notin serving
    /\ Crash
    /\ exited' = TRUE
    /\ serving' = {}
    /\ stop' = IF stop = "done" THEN "done" ELSE "lost"
    /\ tokens' = {}
    /\ joining' = {}
    /\ UNCHANGED <<found, opened, successor, owner, sent>>

-----------------------------------------------------------------------------
(* The next server.                                                        *)

\* bolt.Open waits for the lock of the file without a deadline.
Unlocked(storage) == exited \/ storage \notin opened

SuccessorOpens(storage, before, after) ==
    /\ successor = before
    /\ Unlocked(storage)
    /\ successor' = after
    /\ UNCHANGED <<vars, serving, stop, found, opened, exited, accessVars>>

\* Run ends with Fatal when it finds a port taken.
SuccessorListens ==
    /\ successor = "listening"
    /\ successor' = IF serving = {} THEN "serving" ELSE "failed"
    /\ UNCHANGED <<vars, serving, stop, found, opened, exited, accessVars>>

SuccessorStep ==
    \/ SuccessorOpens("stream", "opening stream", "opening avatar")
    \/ SuccessorOpens("avatar", "opening avatar", "opening participant")
    \/ SuccessorOpens("participant", "opening participant", "listening")
    \/ SuccessorListens

ServerNext ==
    \/ \E s \in Streams :
        \/ \E c \in Clients : Create(s, c) \/ NewAuthToken(s, c)
        \/ \E c \in Guests : Join(s, c)
        \/ CreateAnswers(s)
        \/ \E r \in Requests, c \in Clients : Ask(s, r, c)
        \/ \E f \in Callers : Finish(s, f)
        \/ \E p \in Patchers : Patch(s, p)
        \/ \E k \in Killers : Kill(s, k)
        \/ Background(s)
    \/ \E t \in joining : JoinDecided(t)
    \/ StopBegins
    \/ StopStep
    \/ MainReturns
    \/ SuccessorStep

ServerSpec == ServerInit /\ [][ServerNext]_serverVars

\* Stop is scheduled when it is through with the streams, and so are main and the next
\* server.  While it ranges nothing is owed, because its killStream calls bolt, which
\* may keep it for ever (StreamList), and bolt waits for itself in Close as well.
ServerFairness ==
    /\ WF_serverVars(ShutdownCore)
    /\ WF_serverVars(MainReturns)
    /\ WF_serverVars(SuccessorStep)

FairServerSpec == ServerSpec /\ ServerFairness

-----------------------------------------------------------------------------
(* Safety.                                                                 *)

\* A stream is finished or changed over the core server only for the client that
\* created it, or for one with the same subject, whatever tokens clients have
\* collected.
OnlyHostActs ==
    \A s \in Streams, r \in Requests :
        sent[s][r].server = "core" =>
            \/ sent[s][r].client = owner[s]
            \/ Secured /\ Subject[sent[s][r].client] = Subject[owner[s]]

\* A PatchStream has written the row, and the killStream of Stop had not read what it
\* wrote.
PatchedBehindStop(s) ==
    \E p \in Patchers :
        /\ patch[s][p] = "ok"
        /\ p \notin killCopy[s][Signal].edits
        /\ row[s] = Patched(draft[s][p], p)

\* When Stop is through with the streams, no process of a stream it has found
\* runs, also where another request was killing the stream at the same time, and
\* the ends it has written are on the record, whenever the program ends: only a
\* PatchStream that stores behind the killStream of Stop takes one off again.
StopFinishesStreams ==
    stop \notin {"idle", "ranging"} =>
        \A s \in found :
            /\ process[s] # "running"
            /\ kill[s][Signal] = "done" => row[s].status = "finished" \/ PatchedBehindStop(s)

\* A storage is closed only after the last request that could use it: neither a
\* NewStream, nor a FinishStream of either server, nor a PatchStream, nor a join that
\* waits meets a closed storage.
ClosedAfterRequests ==
    opened # Storages => ~ Busy("core") /\ ~ Busy("api")

\* The next server never finds a port taken: the locks of the storages keep it from
\* listening until the http servers that use them listen no more.
SuccessorFindsPorts == successor # "failed"

-----------------------------------------------------------------------------
(* Liveness.                                                               *)

\* Once Stop is through with the streams the program ends, even if a join waits for its
\* host for ever, and the next server gets the storages and serves, wherever Stop was
\* cut off.
StopEnds == stop = "shutting core" ~> exited /\ successor = "serving"
=============================================================================
