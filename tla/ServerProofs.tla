----------------------------- MODULE ServerProofs -----------------------------
(* Theorems about Server for every set of streams, requests and clients: who   *)
(* acts on a stream over the core server, what Stop leaves behind and what the *)
(* next server finds.  The invariants of StreamLifecycle are used, because     *)
(* every action here that touches a stream is built from one there.            *)
EXTENDS Server, StreamContractProofs

-----------------------------------------------------------------------------
(* The invariants of StreamLifecycle hold in the server.                   *)

\* Stop kills streams like a FinishStream request.
LEMMA CallerNames ==
    /\ Signal \in Finishers /\ Callers \subseteq Finishers /\ Guests \subseteq Clients
    /\ Callers \subseteq Requests /\ Patchers \subseteq Requests
  BY ServerAssumption DEF Callers, Requests

\* Every action of the server is one of StreamLifecycle or leaves the streams alone.
LEMMA ServerStep == [ServerNext]_serverVars => [Next]_vars
  <1>1. ASSUME NEW s \in Streams, NEW c \in Clients,
               Create(s, c) \/ NewAuthToken(s, c) \/ Join(s, c)
        PROVE  [Next]_vars
    BY <1>1 DEF Create, NewAuthToken, Join, Next
  <1>2. ASSUME NEW s \in Streams, CreateAnswers(s) PROVE Next
    BY <1>2 DEF CreateAnswers, CreatorStep, CreatorRuns, CreatorCallsBolt, Next
  <1>3. ASSUME NEW s \in Streams, NEW f \in Callers, Finish(s, f) PROVE Next
    BY <1>3, CallerNames DEF Finish, Next
  <1>4. ASSUME NEW s \in Streams, NEW r \in Requests, NEW c \in Clients, Ask(s, r, c)
        PROVE  UNCHANGED vars
    BY <1>4 DEF Ask
  <1>5. ASSUME NEW s \in Streams,
               (\E k \in Killers : Kill(s, k)) \/ (\E p \in Patchers : Patch(s, p))
        PROVE  Next
    BY <1>5 DEF Kill, Patch, Next
  <1>6. ASSUME NEW s \in Streams, Background(s) PROVE Next
    BY <1>6 DEF Background, CreatorStep, CreatorRuns, CreatorCallsBolt, Next
  <1>7. CASE StopBegins \/ \E t \in joining : JoinDecided(t)
    BY <1>7 DEF StopBegins, JoinDecided
  <1>8. CASE StopStep
    <2>1. ASSUME NEW s \in Streams, StopVisits(s) PROVE Next
      BY <2>1, CallerNames DEF StopVisits, Next
    <2>2. CASE StopRanged
      BY <2>2 DEF StopRanged
    <2>3. ASSUME NEW server, NEW before, NEW between, NEW after,
                 Shutdown(server, before, between, after)
          PROVE  UNCHANGED vars
      BY <2>3 DEF Shutdown
    <2>4. ASSUME NEW storage, NEW before, NEW after, Close(storage, before, after)
          PROVE  UNCHANGED vars
      BY <2>4 DEF Close
    <2> QED
      BY <1>8, <2>1, <2>2, <2>3, <2>4 DEF StopStep, ShutdownCore
  <1>9. CASE MainReturns
    BY <1>9 DEF MainReturns, Next
  <1>10. CASE SuccessorStep
    BY <1>10 DEF SuccessorStep, SuccessorOpens, SuccessorListens
  <1>11. CASE UNCHANGED serverVars
    BY <1>11 DEF serverVars
  <1> QED
    BY <1>1, <1>2, <1>3, <1>4, <1>5, <1>6, <1>7, <1>8, <1>9, <1>10, <1>11, CallerNames
    DEF ServerNext

LEMMA ServerLifecycle == ServerSpec => Spec
  <1>1. ServerInit => Init
    BY DEF ServerInit
  <1> QED
    BY <1>1, ServerStep, PTL DEF ServerSpec, Spec

\* FinishStream over either server, and the Range of Stop, leave the stream out of
\* the map also while the server is stopped: the theorem of StreamLifecycle.
THEOREM FinishCorrectOnServer == ServerSpec => []FinishUnregisters
  BY ServerLifecycle, FinishCorrect, PTL

-----------------------------------------------------------------------------
(* Access: only the client that has created a stream acts as its host.     *)

\* Who may act as the host of s.
Entitled(c, s) ==
    \/ c = owner[s]
    \/ Secured /\ Subject[c] = Subject[owner[s]]

\* What makes OnlyHostActs inductive: a stream has no token before NewStream
\* has been called for it, when its owner is settled, and the tokens of the host,
\* those that joins wait for included, are in the right hands.
AccessInv ==
    /\ \A t \in tokens \cup joining :
          /\ t.stream \in Streams
          /\ creator[t.stream] # "idle"
          /\ t.host => Entitled(t.holder, t.stream)
    /\ \A s \in Streams, r \in Requests :
          sent[s][r].server = "core" => creator[s] # "idle" /\ Entitled(sent[s][r].client, s)

\* NewStream never comes back to where it has not begun.
LEMMA CreatorStarts ==
    ASSUME TypeOK, [Next]_vars, NEW s \in Streams, creator[s] # "idle"
    PROVE  creator'[s] # "idle"
  <1> USE DEF launchVars, processVars, killVars, patchVars
  <1>1. creator \in [Streams -> CreatorPC]
    BY DEF TypeOK
  <1>2. CASE UNCHANGED creator
    BY <1>2
  <1>3. ASSUME NEW t \in Streams, Launch(t) \/ LaunchFails(t) PROVE creator'[s] # "idle"
    BY <1>1, <1>3 DEF Launch, LaunchFails, ContainerLeft
  <1>4. ASSUME NEW t \in Streams, CreatorStep(t) PROVE creator'[s] # "idle"
    <2>1. PICK pc \in CreatorPC \ {"idle"} :
            creator' = [creator EXCEPT ![t] = pc] \/ UNCHANGED creator
      BY <1>1, <1>4 DEF CreatorStep, CreatorRuns, CreatorCallsBolt, CreatorPC, Connected,
          ConnectRetry, GiveUp, StoreRow,
                        StoreRowFails, Aborted, Register
    <2> QED
      BY <1>1, <2>1
  <1>5. CASE Crash
    BY <1>5 DEF Crash
  <1>6. ASSUME NEW t \in Streams,
               \/ AnnounceHost(t)
               \/ ProcessExits(t)
               \/ WaitReturns(t)
               \/ WaitFails(t)
               \/ Interrupt(t)
               \/ \E f \in Finishers : FinishStream(t, f)
        PROVE  UNCHANGED creator
    BY <1>6 DEF AnnounceHost, ProcessExits, WaitReturns, WaitFails, Interrupt, FinishStream
  <1>7. ASSUME NEW t \in Streams, NEW k \in Killers, KillStep(t, k) PROVE UNCHANGED creator
    BY <1>7 DEF KillStep, KillRuns, KillCallsBolt, KillLookup, KillStop, KillDelete, KillLoad,
        KillStore
  <1>8. ASSUME NEW t \in Streams, NEW p \in Patchers, PatchLoad(t, p) \/ PatchStep(t, p)
        PROVE  UNCHANGED creator
    BY <1>8 DEF PatchLoad, PatchStep, PatchLookup, PatchStore
  <1> QED
    BY <1>2, <1>3, <1>4, <1>5, <1>6, <1>7, <1>8 DEF Next, vars

\* Most steps neither create a stream nor issue a token or pass a request on.
LEMMA AccessUnchanged ==
    ASSUME TypeOK, AccessInv, [Next]_vars, UNCHANGED <<owner, sent>>,
           tokens' \cup joining' \subseteq tokens \cup joining
    PROVE  AccessInv'
  BY CreatorStarts DEF AccessInv, Entitled

\* A new token of the host, or of somebody else, for a stream that has been created.
LEMMA AccessToken ==
    ASSUME TypeOK, AccessInv, [Next]_vars, UNCHANGED <<owner, sent>>,
           NEW s \in Streams, creator[s] # "idle", NEW c,
           \/ tokens' \cup joining' = tokens \cup joining \cup {ParticipantToken(s, c)}
           \/ /\ tokens' \cup joining' = tokens \cup joining \cup {HostToken(s, c)}
              /\ Entitled(c, s)
    PROVE  AccessInv'
  BY CreatorStarts DEF AccessInv, Entitled, ParticipantToken, HostToken

LEMMA AccessNext ==
    ASSUME TypeOK, RegistrationInv, AccessInv, ServerTypeOK, [ServerNext]_serverVars
    PROVE  AccessInv'
  <1> USE DEF stopVars, accessVars
  <1>a. [Next]_vars
    BY ServerStep
  <1>b. ASSUME NEW s \in streams PROVE s \in Streams /\ creator[s] # "idle"
    BY DEF TypeOK, RegistrationInv
  <1>1. CASE UNCHANGED <<owner, tokens, sent, joining>>
    BY <1>1, <1>a, AccessUnchanged
  <1>2. ASSUME NEW s \in Streams, NEW c \in Clients, Create(s, c) PROVE AccessInv'
    <2>1. creator[s] = "idle" /\ owner' = [owner EXCEPT ![s] = c]
      BY <1>2 DEF Create, Launch, LaunchFails
    <2>2. UNCHANGED <<tokens, sent, joining>>
      BY <1>2 DEF Create
    <2>3. ASSUME NEW t \in Streams, creator[t] # "idle"
          PROVE  creator'[t] # "idle" /\ owner'[t] = owner[t]
      BY <1>a, <2>1, <2>3, CreatorStarts DEF ServerTypeOK
    <2> QED
      BY <2>2, <2>3 DEF AccessInv, Entitled
  <1>3. ASSUME NEW s \in Streams, NEW c \in Clients, NewAuthToken(s, c) PROVE AccessInv'
    <2>1. Entitled(c, s)
      BY <1>3 DEF NewAuthToken, RecordedSubject, Entitled
    <2> QED
      BY <1>3, <1>a, <1>b, <2>1, AccessToken DEF NewAuthToken
  <1>4. ASSUME NEW s \in Streams, NEW c \in Clients, Join(s, c) PROVE AccessInv'
    BY <1>1, <1>4, <1>a, <1>b, AccessToken DEF Join
  <1>5. ASSUME NEW s \in Streams, CreateAnswers(s) PROVE AccessInv'
    <2>1. creator[s] # "idle"
      BY <1>5 DEF CreateAnswers, Register
    <2> QED
      BY <1>5, <1>a, <2>1, AccessToken DEF CreateAnswers, Entitled
  <1>6. ASSUME NEW s \in Streams, NEW r \in Requests, NEW c \in Clients, Ask(s, r, c)
        PROVE  AccessInv'
    <2>1. PICK server \in {"core", "api"}, client \in Clients \cup {NoClient} :
            /\ server = "core" => client = c /\ StreamAuth(s, c, TRUE)
            /\ sent' = [sent EXCEPT ![s][r] = [server |-> server, client |-> client]]
      BY <1>6 DEF Ask
    <2>2. UNCHANGED <<creator, owner, tokens, joining>>
      BY <1>6 DEF Ask, vars, launchVars
    <2>3. server = "core" => creator[s] # "idle" /\ Entitled(client, s)
      BY <1>b, <2>1 DEF StreamAuth, AccessInv
    <2> QED
      BY <2>1, <2>2, <2>3 DEF AccessInv, Entitled, ServerTypeOK
  <1>7. ASSUME NEW s \in Streams,
               \/ \E f \in Callers : Finish(s, f)
               \/ \E p \in Patchers : Patch(s, p)
               \/ \E k \in Killers : Kill(s, k)
               \/ Background(s)
        PROVE  AccessInv'
    BY <1>1, <1>7 DEF Finish, Patch, Kill, Background
  <1>8. ASSUME NEW t \in joining, JoinDecided(t) PROVE AccessInv'
    <2>1. tokens' \cup joining' \subseteq tokens \cup joining
      BY <1>8 DEF JoinDecided
    <2> QED
      BY <1>8, <1>a, <2>1, AccessUnchanged DEF JoinDecided
  <1>9. CASE StopBegins \/ StopStep \/ SuccessorStep
    BY <1>1, <1>9 DEF StopBegins, StopStep, StopVisits, StopRanged, ShutdownCore, Shutdown, Close,
                      SuccessorStep, SuccessorOpens, SuccessorListens
  <1>10. CASE MainReturns
    BY <1>10, <1>a, AccessUnchanged DEF MainReturns
  <1>11. CASE UNCHANGED serverVars
    BY <1>1, <1>11 DEF serverVars
  <1> QED
    BY <1>2, <1>3, <1>4, <1>5, <1>6, <1>7, <1>8, <1>9, <1>10, <1>11, CallerNames DEF ServerNext

\* Whoever has called NewStream for a stream is one of the clients, which ServerTypeOK
\* does not say and the tokens of the host need.
OwnerSettled == \A s \in Streams : creator[s] # "idle" => owner[s] \in Clients

ServerTypeInv == ServerTypeOK /\ OwnerSettled

\* What CreateAnswers and the other steps that create nothing do to OwnerSettled.
LEMMA OwnerKept ==
    ASSUME TypeOK, OwnerSettled, UNCHANGED owner,
           \/ UNCHANGED creator
           \/ Crash
           \/ \E s \in Streams : CreatorStep(s)
    PROVE  OwnerSettled'
  <1> USE DEF OwnerSettled, launchVars, processVars, killVars, patchVars
  <1>1. creator \in [Streams -> CreatorPC]
    BY DEF TypeOK
  <1>2. CASE UNCHANGED creator
    BY <1>2
  <1>3. CASE Crash
    BY <1>3 DEF Crash
  <1>4. ASSUME NEW s \in Streams, CreatorStep(s) PROVE OwnerSettled'
    <2>1. creator[s] # "idle" /\ \E pc : creator' = [creator EXCEPT ![s] = pc]
      <3>1. CASE Connected(s)
        BY <3>1 DEF Connected
      <3>2. CASE ConnectRetry(s)
        BY <3>2 DEF ConnectRetry
      <3>3. CASE GiveUp(s)
        BY <3>3 DEF GiveUp
      <3>4. CASE StoreRow(s)
        BY <3>4 DEF StoreRow
      <3>5. CASE StoreRowFails(s)
        BY <3>5 DEF StoreRowFails
      <3>6. CASE Aborted(s)
        BY <3>6 DEF Aborted
      <3>7. CASE Register(s)
        BY <3>7 DEF Register
      <3> QED
        BY <1>4, <3>1, <3>2, <3>3, <3>4, <3>5, <3>6, <3>7 DEF CreatorStep, CreatorRuns,
            CreatorCallsBolt
    <2> QED
      BY <1>1, <2>1
  <1> QED
    BY <1>2, <1>3, <1>4

LEMMA ServerTypeNext ==
    ASSUME TypeOK, RegistrationInv, ServerTypeInv, [ServerNext]_serverVars
    PROVE  ServerTypeInv'
  <1> USE DEF ServerTypeInv, ServerTypeOK, StopPC, SuccessorPC, Storages, stopVars, accessVars
  <1>a. ASSUME UNCHANGED creator PROVE UNCHANGED owner => OwnerSettled'
    BY <1>a, OwnerKept
  <1>1. ASSUME NEW s \in Streams, NEW c \in Clients, Create(s, c) PROVE ServerTypeInv'
    <2>1. owner' = [owner EXCEPT ![s] = c] /\ UNCHANGED <<stopVars, tokens, sent, joining>>
      BY <1>1 DEF Create
    <2>2. \E pc : creator' = [creator EXCEPT ![s] = pc]
      BY <1>1 DEF Create, Launch, LaunchFails
    <2>3. OwnerSettled'
      BY <2>1, <2>2 DEF OwnerSettled, TypeOK
    <2> QED
      BY <2>1, <2>3
  <1>2. ASSUME NEW s \in Streams, NEW c \in Clients, NewAuthToken(s, c) \/ Join(s, c)
        PROVE  ServerTypeInv'
    <2>1. HostToken(s, c) \in Token /\ ParticipantToken(s, c) \in Token
      BY DEF HostToken, ParticipantToken, Token
    <2>2. UNCHANGED <<creator, owner, sent, stopVars>>
      BY <1>2 DEF NewAuthToken, Join, vars, launchVars
    <2>3. /\ tokens' \subseteq tokens \cup {HostToken(s, c), ParticipantToken(s, c)}
          /\ joining' \subseteq joining \cup {ParticipantToken(s, c)}
      BY <1>2 DEF NewAuthToken, Join
    <2> QED
      BY <1>a, <2>1, <2>2, <2>3
  <1>3. ASSUME NEW s \in Streams, CreateAnswers(s) PROVE ServerTypeInv'
    <2>1. HostToken(s, owner[s]) \in Token
      BY <1>3 DEF CreateAnswers, Register, OwnerSettled, HostToken, Token
    <2>2. OwnerSettled'
      BY <1>3, OwnerKept DEF CreateAnswers, CreatorStep, CreatorRuns, CreatorCallsBolt
    <2> QED
      BY <1>3, <2>1, <2>2 DEF CreateAnswers
  <1>4. ASSUME NEW s \in Streams, NEW r \in Requests, NEW c \in Clients, Ask(s, r, c)
        PROVE  ServerTypeInv'
    <2>1. PICK server \in {"core", "api"}, client \in Clients \cup {NoClient} :
            sent' = [sent EXCEPT ![s][r] = [server |-> server, client |-> client]]
      BY <1>4 DEF Ask
    <2>2. UNCHANGED <<creator, owner, tokens, joining, stopVars>>
      BY <1>4 DEF Ask, vars, launchVars
    <2> QED
      BY <1>a, <2>1, <2>2
  <1>5. ASSUME NEW s \in Streams,
               \/ \E f \in Callers : Finish(s, f)
               \/ \E p \in Patchers : Patch(s, p)
               \/ \E k \in Killers : Kill(s, k)
        PROVE  ServerTypeInv'
    <2>1. UNCHANGED <<stopVars, accessVars>>
      BY <1>5 DEF Finish, Patch, Kill
    <2>2. UNCHANGED creator
      BY <1>5 DEF Finish, FinishStream, Patch, PatchLoad, PatchStep, PatchLookup, PatchStore,
         Kill, KillStep, KillRuns, KillCallsBolt, KillLookup, KillStop, KillDelete, KillLoad,
         KillStore, launchVars
    <2> QED
      BY <1>a, <2>1, <2>2
  <1>6. ASSUME NEW s \in Streams, Background(s) PROVE ServerTypeInv'
    <2>1. UNCHANGED <<stopVars, accessVars>>
      BY <1>6 DEF Background
    <2>2. CreatorStep(s) \/ UNCHANGED creator
      BY <1>6 DEF Background, CreatorStep, CreatorRuns, CreatorCallsBolt, AnnounceHost,
          ProcessExits, WaitReturns, Interrupt,
                  launchVars
    <2> QED
      BY <1>a, <2>1, <2>2, OwnerKept
  <1>7. CASE StopBegins
    <2>1. UNCHANGED <<creator, owner>>
      BY <1>7 DEF StopBegins, vars, launchVars
    <2> QED
      BY <1>7, <1>a, <2>1 DEF StopBegins, TypeOK
  <1>8. CASE StopStep
    <2>1. UNCHANGED <<creator, owner, found, exited, successor, accessVars>>
      BY <1>8 DEF StopStep, StopVisits, FinishStream, StopRanged, ShutdownCore, Shutdown, Close,
         vars, launchVars
    <2>2. stop' \in StopPC /\ serving' \subseteq serving /\ opened' \subseteq opened
      BY <1>8 DEF StopStep, StopVisits, StopRanged, ShutdownCore, Shutdown, Close
    <2> QED
      BY <1>a, <2>1, <2>2
  <1>9. CASE MainReturns
    <2>1. OwnerSettled'
      BY <1>9, OwnerKept DEF MainReturns
    <2> QED
      BY <1>9, <2>1 DEF MainReturns
  <1>10. ASSUME NEW t \in joining, JoinDecided(t) PROVE ServerTypeInv'
    <2>1. UNCHANGED <<creator, owner, sent, stopVars>>
      BY <1>10 DEF JoinDecided, vars, launchVars
    <2> QED
      BY <1>10, <1>a, <2>1 DEF JoinDecided
  <1>11. CASE SuccessorStep
    <2>1. UNCHANGED <<creator, owner, serving, stop, found, opened, exited, accessVars>>
      BY <1>11 DEF SuccessorStep, SuccessorOpens, SuccessorListens, vars, launchVars
    <2>2. successor' \in SuccessorPC
      BY <1>11 DEF SuccessorStep, SuccessorOpens, SuccessorListens
    <2> QED
      BY <1>a, <2>1, <2>2
  <1>12. CASE UNCHANGED serverVars
    BY <1>12, <1>a DEF serverVars, vars, launchVars
  <1> QED
    BY <1>1, <1>2, <1>3, <1>4, <1>5, <1>6, <1>7, <1>8, <1>9, <1>10, <1>11, <1>12, CallerNames
    DEF ServerNext

\* Every variable of Server keeps its type while the server is stopped.
THEOREM ServerTypeCorrect == ServerSpec => []ServerTypeOK
  <1>1. ServerInit => RegistrationInv
    BY DEF ServerInit, Init, RegistrationInv
  <1>2. ServerInit => ServerTypeInv
    <2> SUFFICES ASSUME ServerInit PROVE ServerTypeInv
      OBVIOUS
    <2>1. sent = [s \in Streams |-> [r \in Requests |-> NoRequest]]
      BY DEF ServerInit
    <2>2. NoRequest \in [server : {"none", "core", "api"}, client : Clients \cup {NoClient}]
      BY DEF NoRequest
    <2>3. OwnerSettled
      BY DEF ServerInit, Init, OwnerSettled
    <2>4. sent \in [Streams -> [Requests -> [server : {"none", "core", "api"},
                                            client : Clients \cup {NoClient}]]]
      BY <2>1, <2>2
    <2>5. "idle" \in StopPC /\ "opening stream" \in SuccessorPC
      BY DEF StopPC, SuccessorPC
    <2> QED
      BY <2>3, <2>4, <2>5 DEF ServerInit, ServerTypeInv, ServerTypeOK
  <1>3. ServerTypeInv => ServerTypeOK
    BY DEF ServerTypeInv
  <1> QED
    BY <1>1, <1>2, <1>3, ServerLifecycle, ServerStep, RegistrationNext, ServerTypeNext, TypeCorrect,
       PTL DEF ServerSpec

\* A request that finishes or patches a stream over the core server comes from the
\* client that created the stream or from one with the same subject, for any clients
\* and subjects and whatever tokens they have collected before the stream ended.
THEOREM HostActsCorrect == ServerSpec => []OnlyHostActs
  <1>1. ServerInit => RegistrationInv /\ AccessInv
    <2>1. ServerInit => RegistrationInv
      BY DEF ServerInit, Init, RegistrationInv
    <2> SUFFICES ASSUME ServerInit PROVE AccessInv
      BY <2>1
    <2>2. \A s \in Streams, r \in Requests : sent[s][r].server = "none"
      BY DEF ServerInit, NoRequest
    <2> QED
      BY <2>2 DEF ServerInit, AccessInv
  <1>2. AccessInv => OnlyHostActs
    BY DEF AccessInv, Entitled, OnlyHostActs
  <1> QED
    BY <1>1, <1>2, ServerLifecycle, ServerStep, RegistrationNext, AccessNext, TypeCorrect,
       ServerTypeCorrect, PTL DEF ServerSpec

-----------------------------------------------------------------------------
(* The next server.                                                        *)

\* What makes SuccessorFindsPorts inductive: Stop shuts the core server down, then the
\* API server, and only then closes a storage, and the next server gets past the first
\* storage only when one has been closed or the program has ended.
PortsFreedInv ==
    /\ serving \subseteq {"core", "api"}
    /\ stop \in {"draining core", "shutting api"} => "core" \notin serving
    /\ stop \in {"draining api", "closing avatar", "closing stream",
                "closing participant", "done"} => serving = {}
    /\ exited => serving = {}
    /\ opened # Storages => serving = {}
    /\ successor # "opening stream" => serving = {}
    /\ successor # "failed"

LEMMA PortsFreedNext ==
    ASSUME PortsFreedInv, ServerTypeOK, [ServerNext]_serverVars
    PROVE  PortsFreedInv'
  <1> USE DEF PortsFreedInv, ServerTypeOK, stopVars
  <1>1. CASE UNCHANGED stopVars
    BY <1>1
  <1>2. ASSUME NEW s \in Streams,
               \/ \E c \in Clients : Create(s, c) \/ NewAuthToken(s, c) \/ Join(s, c)
               \/ CreateAnswers(s)
               \/ \E r \in Requests, c \in Clients : Ask(s, r, c)
               \/ \E f \in Callers : Finish(s, f)
               \/ \E p \in Patchers : Patch(s, p)
               \/ \E k \in Killers : Kill(s, k)
               \/ Background(s)
        PROVE  UNCHANGED stopVars
    BY <1>2 DEF Create, NewAuthToken, Join, CreateAnswers, Finish, Patch, Ask, Kill, Background
  <1>3. CASE \E t \in joining : JoinDecided(t)
    BY <1>1, <1>3 DEF JoinDecided
  <1>4. CASE StopBegins
    BY <1>4 DEF StopBegins
  <1>5. CASE StopStep
    <2>1. CASE \E s \in Streams : StopVisits(s)
      BY <1>1, <2>1 DEF StopVisits
    <2>2. CASE StopRanged
      BY <2>2 DEF StopRanged
    <2>3. CASE Shutdown("core", "shutting core", "draining core", "shutting api")
      <3>1. /\ UNCHANGED <<opened, exited, successor>>
            /\ (serving' = serving \/ serving' = serving \ {"core"})
            /\ stop' \in {"draining core", "shutting api"} /\ "core" \notin serving'
        BY <2>3 DEF Shutdown
      <3> QED
        BY <3>1
    <2>4. CASE Shutdown("api", "shutting api", "draining api", "closing avatar")
      BY <2>4 DEF Shutdown
    <2>5. CASE Close("avatar", "closing avatar", "closing stream")
      BY <2>5 DEF Close
    <2>6. CASE Close("stream", "closing stream", "closing participant")
      BY <2>6 DEF Close
    <2>7. CASE Close("participant", "closing participant", "done")
      BY <2>7 DEF Close
    <2> QED
      BY <1>5, <2>1, <2>2, <2>3, <2>4, <2>5, <2>6, <2>7 DEF StopStep, ShutdownCore
  <1>6. CASE MainReturns
    BY <1>6 DEF MainReturns
  <1>7. CASE SuccessorStep
    <2>1. ASSUME NEW storage \in Storages, NEW before, NEW after, after # "failed",
                 SuccessorOpens(storage, before, after)
          PROVE  PortsFreedInv'
      <3>1. exited \/ opened # Storages
        BY <2>1 DEF SuccessorOpens, Unlocked
      <3> QED
        BY <2>1, <3>1 DEF SuccessorOpens
    <2>2. CASE SuccessorListens
      BY <2>2 DEF SuccessorListens
    <2> QED
      BY <1>7, <2>1, <2>2 DEF SuccessorStep, Storages
  <1>8. CASE UNCHANGED serverVars
    BY <1>1, <1>8 DEF serverVars
  <1> QED
    BY <1>1, <1>2, <1>3, <1>4, <1>5, <1>6, <1>7, <1>8, CallerNames DEF ServerNext

\* The next server on the same data folder finds its ports free whenever it gets to
\* bind them, wherever Stop stands or was cut off, for any streams and clients.
THEOREM SuccessorCorrect == ServerSpec => []SuccessorFindsPorts
  <1>1. ServerInit => PortsFreedInv
    BY DEF ServerInit, PortsFreedInv
  <1>2. PortsFreedInv => SuccessorFindsPorts
    BY DEF PortsFreedInv, SuccessorFindsPorts
  <1> QED
    BY <1>1, <1>2, PortsFreedNext, ServerTypeCorrect, PTL DEF ServerSpec

-----------------------------------------------------------------------------
(* What Stop leaves behind.                                                *)

\* What makes ClosedAfterRequests inductive: Stop goes on to the API server only when
\* the core server is drained, and to the storages only when both are.
DrainedInv ==
    /\ stop \in {"shutting api", "draining api"} => ~ Busy("core")
    /\ stop \in {"closing avatar", "closing stream", "closing participant", "done"}
         => ~ Busy("core") /\ ~ Busy("api")
    /\ opened # Storages => ~ Busy("core") /\ ~ Busy("api")

\* What StopFinishesStreams says of the record of a stream Stop has killed.
Ended(s) == row[s].status = "finished" \/ PatchedBehindStop(s)

\* What makes StopFinishesStreams inductive.  While Stop ranges, the storages are open
\* and the program does not end; so the kill it has begun for a stream is completed,
\* and a stream it has found leaves the map only after its process was stopped.
StopsInv ==
    /\ stop = "idle" => found = {}
    /\ stop \in {"idle", "ranging"} => opened = Storages /\ "core" \in serving
    /\ \A s \in found :
         /\ creator[s] = "created"
         /\ s \notin streams \/ stop \notin {"idle", "ranging"} => process[s] # "running"
    /\ \A s \in Streams :
         /\ stop = "idle" => kill[s][Signal] = "idle"
         /\ stop = "ranging" => kill[s][Signal] \in {"idle", "done"} \cup KillInFlight
         /\ stop \notin {"idle", "ranging"} => kill[s][Signal] \notin KillInFlight
         /\ kill[s][Signal] = "done" => Ended(s)

\* What an action does to the state of Stop.
LEMMA StopCases ==
    ASSUME [ServerNext]_serverVars
    PROVE  \/ UNCHANGED <<serving, stop, found, opened, exited>>
           \/ StopBegins
           \/ StopStep
           \/ MainReturns
  <1> USE DEF stopVars
  <1>1. ASSUME NEW s \in Streams,
               \/ \E c \in Clients : Create(s, c) \/ NewAuthToken(s, c) \/ Join(s, c)
               \/ CreateAnswers(s)
               \/ \E r \in Requests, c \in Clients : Ask(s, r, c)
               \/ \E f \in Callers : Finish(s, f)
               \/ \E p \in Patchers : Patch(s, p)
               \/ \E k \in Killers : Kill(s, k)
               \/ Background(s)
        PROVE  UNCHANGED stopVars
    BY <1>1 DEF Create, NewAuthToken, Join, CreateAnswers, Finish, Patch, Ask, Kill, Background
  <1>2. ASSUME (\E t \in joining : JoinDecided(t)) \/ SuccessorStep \/ UNCHANGED serverVars
        PROVE  UNCHANGED <<serving, stop, found, opened, exited>>
    BY <1>2 DEF JoinDecided, SuccessorStep, SuccessorOpens, SuccessorListens, serverVars
  <1> QED
    BY <1>1, <1>2, CallerNames DEF ServerNext

\* A http server that accepts no requests has no new ones to wait for.
LEMMA NoNewRequests ==
    ASSUME ServerTypeOK, [ServerNext]_serverVars
    PROVE  /\ "core" \notin serving => joining' \subseteq joining
           /\ \A s \in Streams, r \in Requests :
                sent'[s][r] = sent[s][r] \/ sent'[s][r].server \in serving
  <1> USE DEF accessVars
  <1>1. CASE UNCHANGED <<sent, joining>>
    BY <1>1
  <1>2. ASSUME NEW s \in Streams, NEW c \in Clients, Create(s, c) \/ NewAuthToken(s, c)
        PROVE  UNCHANGED <<sent, joining>>
    BY <1>2 DEF Create, NewAuthToken
  <1>3. ASSUME NEW s \in Streams, NEW c \in Clients, Join(s, c)
        PROVE  UNCHANGED sent /\ "core" \in serving
    BY <1>3 DEF Join
  <1>4. ASSUME NEW s \in Streams,
               \/ CreateAnswers(s)
               \/ \E f \in Callers : Finish(s, f)
               \/ \E p \in Patchers : Patch(s, p)
               \/ \E k \in Killers : Kill(s, k)
               \/ Background(s)
        PROVE  UNCHANGED <<sent, joining>>
    BY <1>4 DEF CreateAnswers, Finish, Patch, Kill, Background
  <1>5. ASSUME NEW s \in Streams, NEW r \in Requests, NEW c \in Clients, Ask(s, r, c)
        PROVE  /\ UNCHANGED joining
               /\ \A t \in Streams, q \in Requests :
                    sent'[t][q] = sent[t][q] \/ sent'[t][q].server \in serving
    <2>1. PICK server \in serving, client \in Clients \cup {NoClient} :
            sent' = [sent EXCEPT ![s][r] = [server |-> server, client |-> client]]
      BY <1>5 DEF Ask
    <2> QED
      BY <1>5, <2>1 DEF Ask, ServerTypeOK
  <1>6. ASSUME NEW t \in joining, JoinDecided(t) PROVE UNCHANGED sent /\ joining' \subseteq joining
    BY <1>6 DEF JoinDecided
  <1>7. CASE StopBegins \/ StopStep \/ SuccessorStep
    BY <1>1, <1>7 DEF StopBegins, StopStep, StopVisits, StopRanged, ShutdownCore, Shutdown, Close,
                      SuccessorStep, SuccessorOpens, SuccessorListens
  <1>8. CASE MainReturns
    BY <1>8 DEF MainReturns
  <1>9. CASE UNCHANGED serverVars
    BY <1>1, <1>9 DEF serverVars
  <1> QED
    BY <1>1, <1>2, <1>3, <1>4, <1>5, <1>6, <1>7, <1>8, <1>9, CallerNames DEF ServerNext

\* NewStream begins in the core server only.
LEMMA LaunchNeedsCore ==
    ASSUME TypeOK, [ServerNext]_serverVars, NEW s \in Streams,
           creator'[s] \in OwnedByCreator, creator[s] \notin OwnedByCreator
    PROVE  "core" \in serving
  <1> USE DEF OwnedByCreator, launchVars, processVars, killVars, patchVars
  <1>a. creator \in [Streams -> CreatorPC]
    BY DEF TypeOK
  <1>1. ASSUME UNCHANGED creator PROVE FALSE
    BY <1>1
  <1>2. ASSUME NEW t \in Streams, NEW c \in Clients, NewAuthToken(t, c) \/ Join(t, c)
        PROVE  FALSE
    BY <1>1, <1>2 DEF NewAuthToken, Join, vars
  <1>3. ASSUME NEW t \in Streams, CreateAnswers(t) PROVE FALSE
    BY <1>3, <1>a DEF CreateAnswers, Register
  <1>4. ASSUME NEW t \in Streams,
               \/ \E r \in Requests, c \in Clients : Ask(t, r, c)
               \/ \E f \in Callers : Finish(t, f)
               \/ \E p \in Patchers : Patch(t, p)
               \/ \E k \in Killers : Kill(t, k)
        PROVE  FALSE
    BY <1>1, <1>4 DEF Finish, FinishStream, Patch, PatchLoad, PatchStep, PatchLookup, PatchStore,
       Ask, Kill, KillStep, KillRuns, KillCallsBolt, KillLookup, KillStop, KillDelete, KillLoad,
       KillStore, vars
  <1>5. ASSUME NEW t \in Streams, Background(t) PROVE FALSE
    <2>1. CASE AnnounceHost(t) \/ ProcessExits(t) \/ WaitReturns(t) \/ Interrupt(t)
      BY <1>1, <2>1 DEF AnnounceHost, ProcessExits, WaitReturns, Interrupt
    <2>2. CASE Connected(t) \/ ConnectRetry(t) \/ GiveUp(t) \/ StoreRow(t)
      BY <2>2, <1>a DEF Connected, ConnectRetry, GiveUp, StoreRow
    <2> QED
      BY <1>5, <2>1, <2>2 DEF Background
  <1>6. ASSUME StopBegins \/ StopStep \/ SuccessorStep \/ \E t \in joining : JoinDecided(t)
        PROVE  FALSE
    BY <1>1, <1>6 DEF StopBegins, StopStep, StopVisits, FinishStream, StopRanged, ShutdownCore,
       Shutdown, Close, SuccessorStep, SuccessorOpens, SuccessorListens, JoinDecided, vars
  <1>7. ASSUME MainReturns PROVE FALSE
    BY <1>7 DEF MainReturns, Crash
  <1>8. ASSUME UNCHANGED serverVars PROVE FALSE
    BY <1>1, <1>8 DEF serverVars, vars
  <1>9. ASSUME NEW t \in Streams, NEW c \in Clients, Create(t, c) PROVE "core" \in serving
    BY <1>9 DEF Create
  <1> QED
    BY <1>2, <1>3, <1>4, <1>5, <1>6, <1>7, <1>8, <1>9, CallerNames DEF ServerNext

\* A FinishStream that has been answered, or cut off, stays so.
LEMMA AnsweredStays ==
    ASSUME TypeOK, [Next]_vars, NEW s \in Streams, NEW f \in Callers,
           kill[s][f] \notin {"idle"} \cup KillInFlight
    PROVE  kill'[s][f] \notin {"idle"} \cup KillInFlight
  <1> USE KillerNames, CallerNames DEF KillInFlight
  <1>1. CASE kill'[s][f] = kill[s][f]
    BY <1>1
  <1>2. CASE kill'[s][f] # kill[s][f]
    <2>1. ~ FinishStream(s, f) /\ ~ KillStep(s, f)
      BY DEF FinishStream, KillStep, KillRuns, KillCallsBolt, KillLookup, KillStop, KillDelete,
          KillLoad, KillStore
    <2>2. ~ Interrupt(s) /\ ~ StoreRowFails(s)
      BY <1>2, LifecycleAssumption DEF Interrupt, StoreRowFails, TypeOK
    <2>3. Crash
      BY <1>2, <2>1, <2>2, WhoKills
    <2> QED
      BY <1>2, <2>3 DEF Crash
  <1> QED
    BY <1>1, <1>2

\* So does a PatchStream.
LEMMA PatchedStays ==
    ASSUME TypeOK, [Next]_vars, NEW s \in Streams, NEW p \in Patchers,
           patch[s][p] \notin {"idle", "lookup", "store"}
    PROVE  patch'[s][p] \notin {"idle", "lookup", "store"}
  <1> USE DEF launchVars, processVars, killVars, patchVars
  <1>a. patch \in [Streams -> [Patchers -> PatchPC]]
    BY DEF TypeOK
  <1>1. CASE UNCHANGED patch
    BY <1>1
  <1>2. CASE Crash
    BY <1>2 DEF Crash
  <1>3. ASSUME NEW t \in Streams, NEW q \in Patchers, PatchLoad(t, q) \/ PatchStep(t, q)
        PROVE  patch'[s][p] = patch[s][p]
    <2>1. patch[t][q] \in {"idle", "lookup", "store"}
      BY <1>3 DEF PatchLoad, PatchStep, PatchLookup, PatchStore
    <2>2. \E pc : patch' = [patch EXCEPT ![t][q] = pc]
      BY <1>3 DEF PatchLoad, PatchStep, PatchLookup, PatchStore
    <2> QED
      BY <1>a, <2>1, <2>2
  <1>4. ASSUME NEW t \in Streams,
               \/ Launch(t) \/ LaunchFails(t) \/ CreatorStep(t) \/ AnnounceHost(t)
               \/ ProcessExits(t) \/ WaitReturns(t) \/ WaitFails(t) \/ Interrupt(t)
               \/ \E f \in Finishers : FinishStream(t, f)
        PROVE  UNCHANGED patch
    BY <1>4 DEF Launch, LaunchFails, CreatorStep, CreatorRuns, CreatorCallsBolt, Connected,
       ConnectRetry, GiveUp, StoreRow, StoreRowFails, Aborted, Register, AnnounceHost,
       ProcessExits, WaitReturns, WaitFails, Interrupt, FinishStream
  <1>5. ASSUME NEW t \in Streams, NEW k \in Killers, KillStep(t, k) PROVE UNCHANGED patch
    BY <1>5 DEF KillStep, KillRuns, KillCallsBolt, KillLookup, KillStop, KillDelete, KillLoad,
       KillStore
  <1>6. UNCHANGED vars => UNCHANGED patch
    BY DEF vars
  <1> QED
    BY <1>1, <1>2, <1>3, <1>4, <1>5, <1>6 DEF Next

\* A http server that listens no more and has no requests left stays idle.
LEMMA DrainedStays ==
    ASSUME TypeOK, ServerTypeOK, [ServerNext]_serverVars,
           NEW server \in {"core", "api"}, server \notin serving, ~ Busy(server)
    PROVE  ~ Busy(server)'
  <1>1. ASSUME NEW s \in Streams, NEW f \in Callers, sent'[s][f].server = server
        PROVE  kill'[s][f] \notin {"idle"} \cup KillInFlight
    <2>1. sent[s][f].server = server
      BY <1>1, NoNewRequests, CallerNames
    <2>2. kill[s][f] \notin {"idle"} \cup KillInFlight
      BY <2>1 DEF Busy
    <2> QED
      BY <2>2, ServerStep, AnsweredStays
  <1>2. ASSUME server = "core"
        PROVE  joining' = {} /\ \A s \in Streams : creator'[s] \notin OwnedByCreator
    <2>1. joining = {} /\ \A s \in Streams : creator[s] \notin OwnedByCreator
      BY <1>2 DEF Busy
    <2> QED
      BY <1>2, <2>1, NoNewRequests, LaunchNeedsCore
  <1>3. ASSUME NEW s \in Streams, NEW p \in Patchers, sent'[s][p].server = server
        PROVE  patch'[s][p] \notin {"idle", "lookup", "store"}
    <2>1. sent[s][p].server = server
      BY <1>3, NoNewRequests, CallerNames
    <2>2. patch[s][p] \notin {"idle", "lookup", "store"}
      BY <2>1 DEF Busy
    <2> QED
      BY <2>2, ServerStep, PatchedStays
  <1> QED
    BY <1>1, <1>2, <1>3 DEF Busy

LEMMA DrainedNext ==
    ASSUME TypeOK, ServerTypeOK, PortsFreedInv, DrainedInv, [ServerNext]_serverVars
    PROVE  DrainedInv'
  <1>1. "core" \notin serving /\ ~ Busy("core") => ~ Busy("core")'
    BY DrainedStays
  <1>2. "api" \notin serving /\ ~ Busy("api") => ~ Busy("api")'
    BY DrainedStays
  <1> USE DEF DrainedInv, PortsFreedInv
  <1>3. CASE UNCHANGED <<stop, opened>>
    BY <1>1, <1>2, <1>3
  <1>4. CASE StopBegins \/ StopRanged
    <2>1. UNCHANGED opened /\ stop' \in {"ranging", "shutting core"}
      BY <1>4 DEF StopBegins, StopRanged
    <2> QED
      BY <1>1, <1>2, <2>1
  <1>5. CASE StopStep
    <2>1. CASE \E s \in Streams : StopVisits(s)
      BY <1>3, <2>1 DEF StopVisits, stopVars
    <2>2. CASE Shutdown("core", "shutting core", "draining core", "shutting api")
      BY <1>1, <1>2, <2>2 DEF Shutdown
    <2>3. CASE Shutdown("api", "shutting api", "draining api", "closing avatar")
      BY <1>1, <1>2, <2>3 DEF Shutdown
    <2>4. CASE \/ Close("avatar", "closing avatar", "closing stream")
               \/ Close("stream", "closing stream", "closing participant")
               \/ Close("participant", "closing participant", "done")
      <3>1. /\ stop \in {"closing avatar", "closing stream", "closing participant"}
            /\ stop' \in {"closing stream", "closing participant", "done"}
        BY <2>4 DEF Close
      <3> QED
        BY <1>1, <1>2, <3>1
    <2> QED
      BY <1>4, <1>5, <2>1, <2>2, <2>3, <2>4 DEF StopStep, ShutdownCore
  <1>6. CASE MainReturns
    <2>1. UNCHANGED opened /\ (stop' = "lost" \/ stop' = stop)
      BY <1>6 DEF MainReturns
    <2> QED
      BY <1>1, <1>2, <2>1
  <1> QED
    BY <1>3, <1>4, <1>5, <1>6, StopCases

\* The storages are closed only after the last request that could use them: when one
\* is closed, both http servers have stopped listening and every NewStream,
\* FinishStream, PatchStream and waiting join they had accepted has ended.
THEOREM ClosedCorrect == ServerSpec => []ClosedAfterRequests
  <1>1. ServerInit => PortsFreedInv
    BY DEF ServerInit, PortsFreedInv
  <1>2. ServerInit => DrainedInv
    BY DEF ServerInit, DrainedInv
  <1>3. DrainedInv => ClosedAfterRequests
    BY DEF DrainedInv, ClosedAfterRequests
  <1> QED
    BY <1>1, <1>2, <1>3, ServerLifecycle, PortsFreedNext, DrainedNext, TypeCorrect,
       ServerTypeCorrect, PTL DEF ServerSpec

\* What the server does to one stream: it ends and takes the goroutines with it, or
\* one of the goroutines of the stream takes a step.
LEMMA ServerOwnStep ==
    ASSUME TypeOK, [ServerNext]_serverVars, NEW s \in Streams
    PROVE  MainReturns \/ StreamStep(s) \/ UNCHANGED At(s)
  <1>1. MainReturns \/ UNCHANGED vars \/ \E t \in Streams : StreamStep(t)
    <2>1. ASSUME NEW t \in Streams, NEW c \in Clients, Create(t, c) PROVE StreamStep(t)
      BY <2>1 DEF Create, StreamStep
    <2>2. ASSUME NEW t \in Streams, NEW c \in Clients, NewAuthToken(t, c) \/ Join(t, c)
          PROVE  UNCHANGED vars
      BY <2>2 DEF NewAuthToken, Join
    <2>3. ASSUME NEW t \in Streams, CreateAnswers(t) \/ Background(t) PROVE StreamStep(t)
      BY <2>3 DEF CreateAnswers, Background, CreatorStep, CreatorRuns, CreatorCallsBolt, StreamStep
    <2>4. ASSUME NEW t \in Streams, NEW f \in Callers, Finish(t, f) PROVE StreamStep(t)
      BY <2>4, CallerNames DEF Finish, StreamStep
    <2>5. ASSUME NEW t \in Streams, NEW r \in Requests, NEW c \in Clients, Ask(t, r, c)
          PROVE  UNCHANGED vars
      BY <2>5 DEF Ask
    <2>6. ASSUME NEW t \in Streams,
                 (\E k \in Killers : Kill(t, k)) \/ (\E p \in Patchers : Patch(t, p))
          PROVE  StreamStep(t)
      BY <2>6 DEF Kill, Patch, StreamStep
    <2>7. ASSUME NEW t \in Streams, StopVisits(t) PROVE StreamStep(t)
      BY <2>7, CallerNames DEF StopVisits, StreamStep
    <2>8. ASSUME \/ StopBegins
                 \/ StopStep /\ ~ \E t \in Streams : StopVisits(t)
                 \/ SuccessorStep
                 \/ \E t \in joining : JoinDecided(t)
                 \/ UNCHANGED serverVars
          PROVE  UNCHANGED vars
      BY <2>8 DEF StopBegins, StopStep, StopRanged, ShutdownCore, Shutdown, Close, SuccessorStep,
         SuccessorOpens, SuccessorListens, JoinDecided, serverVars
    <2> QED
      BY <2>1, <2>2, <2>3, <2>4, <2>5, <2>6, <2>7, <2>8, CallerNames DEF ServerNext, StopStep
  <1>2. UNCHANGED vars => UNCHANGED At(s)
    BY DEF vars, launchVars, processVars, killVars, patchVars, At
  <1> QED
    BY <1>1, <1>2, OtherStep

\* A created stream stays created.
LEMMA CreatedStays ==
    ASSUME TypeOK, [Next]_vars, NEW s \in Streams, creator[s] = "created"
    PROVE  creator'[s] = "created"
  <1> USE DEF launchVars, processVars, killVars, patchVars
  <1>1. CASE UNCHANGED At(s)
    BY <1>1 DEF At
  <1>2. CASE Crash
    BY <1>2 DEF Crash
  <1>3. ~ Launch(s) /\ ~ LaunchFails(s) /\ ~ CreatorStep(s)
    BY DEF Launch, LaunchFails, CreatorStep, CreatorRuns, CreatorCallsBolt, Connected,
        ConnectRetry, GiveUp, StoreRow,
       StoreRowFails, Aborted, Register
  <1>4. CASE \/ AnnounceHost(s) \/ ProcessExits(s) \/ WaitReturns(s) \/ WaitFails(s) \/ Interrupt(s)
             \/ (\E f \in Finishers : FinishStream(s, f))
             \/ \E p \in Patchers : PatchLoad(s, p) \/ PatchStep(s, p)
    BY <1>4 DEF AnnounceHost, ProcessExits, WaitReturns, WaitFails, Interrupt, FinishStream,
       PatchLoad, PatchStep, PatchLookup, PatchStore
  <1>5. CASE \E k \in Killers : KillStep(s, k)
    BY <1>5 DEF KillStep, KillRuns, KillCallsBolt, KillLookup, KillStop, KillDelete, KillLoad,
        KillStore
  <1> QED
    BY <1>1, <1>2, <1>3, <1>4, <1>5, OwnStep DEF StreamStep

\* The patches a copy of the row contains have been stored.
StoredPatches(s) == {p \in Patchers : patch[s][p] = "ok"}

EditsInv ==
    \A s \in Streams :
        /\ row[s].edits \subseteq StoredPatches(s)
        /\ \A k \in Killers : killCopy[s][k].edits \subseteq StoredPatches(s)
        /\ \A p \in Patchers : draft[s][p].edits \subseteq StoredPatches(s)

LEMMA EditsNext == ASSUME TypeOK, EditsInv, [Next]_vars PROVE EditsInv'
  <1> SUFFICES ASSUME NEW s \in Streams
               PROVE  /\ row'[s].edits \subseteq StoredPatches(s)'
                      /\ \A k \in Killers : killCopy'[s][k].edits \subseteq StoredPatches(s)'
                      /\ \A p \in Patchers : draft'[s][p].edits \subseteq StoredPatches(s)'
    BY DEF EditsInv
  <1> USE DEF launchVars, processVars, killVars, patchVars
  <1>a. /\ row \in [Streams -> Row] /\ killCopy \in [Streams -> [Killers -> Row]]
        /\ patch \in [Streams -> [Patchers -> PatchPC]]
        /\ draft \in [Streams -> [Patchers -> Row]]
    BY DEF TypeOK
  <1>b. /\ row[s].edits \subseteq StoredPatches(s)
        /\ \A k \in Killers : killCopy[s][k].edits \subseteq StoredPatches(s)
        /\ \A p \in Patchers : draft[s][p].edits \subseteq StoredPatches(s)
    BY DEF EditsInv
  <1>1. CASE UNCHANGED <<row[s], killCopy[s], patch[s], draft[s]>>
    BY <1>1, <1>b DEF StoredPatches
  <1>2. CASE Crash
    BY <1>2, <1>b DEF Crash, StoredPatches
  <1>3. CASE StoreRow(s)
    <2>1. row'[s].edits = {} /\ UNCHANGED <<killCopy, patch, draft>>
      BY <1>3, <1>a DEF StoreRow, NewRow
    <2> QED
      BY <2>1, <1>b DEF StoredPatches
  <1>4. ASSUME NEW k \in Killers, KillLoad(s, k)
        PROVE  /\ row'[s].edits \subseteq StoredPatches(s)'
               /\ \A j \in Killers : killCopy'[s][j].edits \subseteq StoredPatches(s)'
               /\ \A p \in Patchers : draft'[s][p].edits \subseteq StoredPatches(s)'
    <2>1. killCopy' = [killCopy EXCEPT ![s][k] = row[s]] /\ UNCHANGED <<row, patch, draft>>
      BY <1>4 DEF KillLoad
    <2> QED
      BY <2>1, <1>a, <1>b DEF StoredPatches
  <1>5. ASSUME NEW k \in Killers, KillStore(s, k)
        PROVE  /\ row'[s].edits \subseteq StoredPatches(s)'
               /\ UNCHANGED <<killCopy, patch, draft>>
    <2>1. row'[s].edits \in {row[s].edits, killCopy[s][k].edits}
      <3>1. killCopy[s][k] \in Row
        BY <1>a
      <3>2. Finished(killCopy[s][k], k).edits = killCopy[s][k].edits
        BY <3>1 DEF Finished, Row
      <3> QED
        BY <1>5, <1>a, <3>2 DEF KillStore
    <2>2. UNCHANGED <<killCopy, patch, draft>>
      BY <1>5 DEF KillStore
    <2> QED
      BY <2>1, <2>2, <1>b DEF StoredPatches
  <1>6. ASSUME NEW p \in Patchers, PatchLoad(s, p)
        PROVE  /\ UNCHANGED <<row, killCopy>> /\ StoredPatches(s)' = StoredPatches(s)
               /\ \A q \in Patchers : draft'[s][q].edits \subseteq StoredPatches(s)'
    <2>1. /\ draft' = [draft EXCEPT ![s][p] = row[s]] /\ UNCHANGED <<row, killCopy>>
          /\ patch[s][p] = "idle" /\ patch' = [patch EXCEPT ![s][p] = "lookup"]
      BY <1>6 DEF PatchLoad
    <2>2. StoredPatches(s)' = StoredPatches(s)
      BY <2>1, <1>a DEF StoredPatches
    <2> QED
      BY <2>1, <2>2, <1>a, <1>b
  <1>7. ASSUME NEW p \in Patchers, PatchLookup(s, p)
        PROVE  UNCHANGED <<row, killCopy, draft>> /\ StoredPatches(s)' = StoredPatches(s)
    BY <1>7, <1>a DEF PatchLookup, StoredPatches
  <1>8. ASSUME NEW p \in Patchers, PatchStore(s, p)
        PROVE  /\ UNCHANGED <<killCopy, draft>> /\ StoredPatches(s) \subseteq StoredPatches(s)'
               /\ row'[s].edits \subseteq StoredPatches(s)'
    <2>1. UNCHANGED <<killCopy, draft>> /\ StoredPatches(s) \subseteq StoredPatches(s)'
      BY <1>8, <1>a DEF PatchStore, StoredPatches
    <2>2. CASE row' = [row EXCEPT ![s] = Patched(draft[s][p], p)] /\ patch'[s][p] = "ok"
      <3>1. row'[s].edits = draft[s][p].edits \cup {p}
        BY <2>2, <1>a DEF Patched, Row
      <3> QED
        BY <2>1, <2>2, <3>1, <1>b DEF StoredPatches
    <2>3. CASE UNCHANGED row
      BY <2>1, <2>3, <1>b
    <2> QED
      BY <2>1, <2>2, <2>3, <1>8, <1>a DEF PatchStore
  <1>9. UNCHANGED At(s) => UNCHANGED <<row[s], killCopy[s], patch[s], draft[s]>>
    BY DEF At
  <1>10. ASSUME \/ Launch(s) \/ LaunchFails(s) \/ Connected(s) \/ ConnectRetry(s) \/ GiveUp(s)
                \/ StoreRowFails(s) \/ Aborted(s) \/ Register(s) \/ AnnounceHost(s)
                \/ ProcessExits(s) \/ WaitReturns(s) \/ WaitFails(s) \/ Interrupt(s)
                \/ \E f \in Finishers : FinishStream(s, f)
                \/ \E k \in Killers : KillRuns(s, k)
         PROVE  UNCHANGED <<row, killCopy, patch, draft>>
    BY <1>10 DEF Launch, LaunchFails, Connected, ConnectRetry, GiveUp, StoreRowFails, Aborted,
       Register, AnnounceHost, ProcessExits, WaitReturns, WaitFails, Interrupt, FinishStream,
       KillRuns, KillLookup, KillStop, KillDelete
  <1> QED
    BY <1>1, <1>2, <1>3, <1>4, <1>5, <1>6, <1>7, <1>8, <1>9, <1>10, <1>b, OwnStep
    DEF StreamStep, CreatorStep, CreatorRuns, CreatorCallsBolt, KillStep, KillCallsBolt,
        PatchStep, StoredPatches

\* The end Stop has written stays on the record, unless a patch is stored behind it.
LEMMA EndedStays ==
    ASSUME TypeOK, EditsInv, [Next]_vars, NEW s \in Streams, creator[s] = "created",
           kill[s][Signal] = "done", Ended(s)
    PROVE  Ended(s)'
  <1> USE DEF launchVars, processVars, killVars, patchVars
  <1>a. /\ row \in [Streams -> Row] /\ killCopy \in [Streams -> [Killers -> Row]]
        /\ patch \in [Streams -> [Patchers -> PatchPC]]
        /\ draft \in [Streams -> [Patchers -> Row]]
        /\ Signal \in Killers
    BY CallerNames, KillerNames DEF TypeOK
  <1>1. CASE UNCHANGED <<row[s], killCopy[s][Signal], patch[s], draft[s]>>
    BY <1>1 DEF Ended, PatchedBehindStop
  <1>2. CASE Crash
    BY <1>2 DEF Crash, Ended, PatchedBehindStop
  <1>3. ~ StoreRow(s)
    BY DEF StoreRow
  <1>4. ASSUME NEW k \in Killers, KillLoad(s, k)
        PROVE  UNCHANGED <<row[s], killCopy[s][Signal], patch[s], draft[s]>>
    BY <1>4, <1>a DEF KillLoad
  <1>5. ASSUME NEW k \in Killers, KillStore(s, k) PROVE Ended(s)'
    <2>1. CASE row' = [row EXCEPT ![s] = Finished(killCopy[s][k], k)]
      BY <2>1, <1>a DEF Finished, Row, Ended
    <2>2. CASE UNCHANGED row
      BY <1>1, <1>5, <2>2 DEF KillStore
    <2> QED
      BY <1>5, <2>1, <2>2 DEF KillStore
  <1>6. ASSUME NEW p \in Patchers, PatchLoad(s, p) PROVE Ended(s)'
    <2>1. /\ UNCHANGED <<row, killCopy>> /\ patch[s][p] = "idle"
          /\ \A q \in Patchers : q # p => patch'[s][q] = patch[s][q] /\ draft'[s][q] = draft[s][q]
      BY <1>6, <1>a DEF PatchLoad
    <2> QED
      BY <2>1 DEF Ended, PatchedBehindStop
  <1>7. ASSUME NEW p \in Patchers, PatchLookup(s, p) PROVE Ended(s)'
    <2>1. /\ UNCHANGED <<row, killCopy, draft>> /\ patch[s][p] = "lookup"
          /\ \A q \in Patchers : q # p => patch'[s][q] = patch[s][q]
      BY <1>7, <1>a DEF PatchLookup
    <2> QED
      BY <2>1 DEF Ended, PatchedBehindStop
  <1>8. ASSUME NEW p \in Patchers, PatchStore(s, p) PROVE Ended(s)'
    <2>1. /\ UNCHANGED <<killCopy, draft>> /\ patch[s][p] = "store"
          /\ \A q \in Patchers : q # p => patch'[s][q] = patch[s][q]
      BY <1>8, <1>a DEF PatchStore
    <2>2. CASE row' = [row EXCEPT ![s] = Patched(draft[s][p], p)] /\ patch'[s][p] = "ok"
      <3>1. p \notin killCopy[s][Signal].edits
        BY <2>1, <1>a DEF EditsInv, StoredPatches
      <3> QED
        BY <2>1, <2>2, <3>1, <1>a DEF Ended, PatchedBehindStop
    <2>3. CASE UNCHANGED row
      BY <2>1, <2>3 DEF Ended, PatchedBehindStop
    <2> QED
      BY <1>8, <1>a, <2>2, <2>3 DEF PatchStore
  <1>9. UNCHANGED At(s) => UNCHANGED <<row[s], killCopy[s][Signal], patch[s], draft[s]>>
    BY DEF At
  <1>10. ASSUME \/ Launch(s) \/ LaunchFails(s) \/ Connected(s) \/ ConnectRetry(s) \/ GiveUp(s)
                \/ StoreRowFails(s) \/ Aborted(s) \/ Register(s) \/ AnnounceHost(s)
                \/ ProcessExits(s) \/ WaitReturns(s) \/ WaitFails(s) \/ Interrupt(s)
                \/ \E f \in Finishers : FinishStream(s, f)
                \/ \E k \in Killers : KillRuns(s, k)
         PROVE  UNCHANGED <<row, killCopy, patch, draft>>
    BY <1>10 DEF Launch, LaunchFails, Connected, ConnectRetry, GiveUp, StoreRowFails, Aborted,
       Register, AnnounceHost, ProcessExits, WaitReturns, WaitFails, Interrupt, FinishStream,
       KillRuns, KillLookup, KillStop, KillDelete
  <1> QED
    BY <1>1, <1>2, <1>3, <1>4, <1>5, <1>6, <1>7, <1>8, <1>9, <1>10, OwnStep
    DEF StreamStep, CreatorStep, CreatorRuns, CreatorCallsBolt, KillStep, KillCallsBolt, PatchStep

\* Only Stop kills under its name.
LEMMA SignalMoves ==
    ASSUME TypeOK, [ServerNext]_serverVars, NEW s \in Streams, kill'[s][Signal] # kill[s][Signal]
    PROVE  MainReturns \/ StopVisits(s) \/ Kill(s, Signal)
  <1> USE DEF launchVars, processVars, killVars, patchVars
  <1>a. kill \in [Streams -> [Killers -> KillPC]]
    BY DEF TypeOK
  <1>b. Signal \in Killers /\ Signal # "listener"
    BY CallerNames, KillerNames, LifecycleAssumption
  <1>1. ASSUME UNCHANGED kill PROVE FALSE
    BY <1>1
  <1>2. ASSUME NEW t \in Streams, NEW k \in Killers, NEW pc, kill' = [kill EXCEPT ![t][k] = pc]
        PROVE  t = s /\ k = Signal
    BY <1>2, <1>a, <1>b
  <1>3. ASSUME NEW t \in Streams, NEW c \in Clients,
               Create(t, c) \/ NewAuthToken(t, c) \/ Join(t, c)
        PROVE  FALSE
    BY <1>1, <1>3 DEF Create, Launch, LaunchFails, NewAuthToken, Join, vars
  <1>4. ASSUME NEW t \in Streams, CreateAnswers(t) PROVE FALSE
    BY <1>1, <1>4 DEF CreateAnswers, Register
  <1>5. ASSUME NEW t \in Streams, NEW f \in Callers, Finish(t, f) PROVE FALSE
    <2>1. f \in Killers /\ f # Signal
      BY CallerNames, KillerNames DEF Callers
    <2> QED
      BY <1>2, <1>5, <2>1 DEF Finish, FinishStream
  <1>6. ASSUME NEW t \in Streams, NEW k \in Killers, Kill(t, k) PROVE Kill(s, Signal)
    <2>1. \E pc : kill' = [kill EXCEPT ![t][k] = pc]
      BY <1>6 DEF Kill, KillStep, KillRuns, KillCallsBolt, KillLookup, KillStop, KillDelete,
          KillLoad, KillStore
    <2>2. t = s /\ k = Signal
      BY <1>2, <2>1
    <2> QED
      BY <1>6, <2>2
  <1>7. ASSUME NEW t \in Streams, Background(t) PROVE FALSE
    <2>1. CASE Interrupt(t)
      BY <1>2, <1>b, <2>1, KillerNames DEF Interrupt
    <2>2. CASE ~ Interrupt(t)
      BY <1>1, <1>7, <2>2 DEF Background, Connected, ConnectRetry, GiveUp, StoreRow, AnnounceHost,
         ProcessExits, WaitReturns
    <2> QED
      BY <2>1, <2>2
  <1>8. ASSUME NEW t \in Streams, StopVisits(t) PROVE StopVisits(s)
    <2>1. t = s
      BY <1>2, <1>8, <1>b DEF StopVisits, FinishStream
    <2> QED
      BY <1>8, <2>1
  <1>9. ASSUME \/ StopBegins
               \/ StopStep /\ ~ \E t \in Streams : StopVisits(t)
               \/ SuccessorStep
               \/ \E t \in joining : JoinDecided(t)
               \/ UNCHANGED serverVars
               \/ \E t \in Streams, r \in Requests, c \in Clients : Ask(t, r, c)
               \/ \E t \in Streams, p \in Patchers : Patch(t, p)
        PROVE  FALSE
    BY <1>1, <1>9 DEF StopBegins, StopStep, StopRanged, ShutdownCore, Shutdown, Close,
       SuccessorStep, SuccessorOpens, SuccessorListens, JoinDecided, Ask, Patch, PatchLoad,
       PatchStep, PatchLookup, PatchStore, serverVars, vars
  <1> QED
    BY <1>3, <1>4, <1>5, <1>6, <1>7, <1>8, <1>9, CallerNames DEF ServerNext, StopStep

\* The kill of Stop itself: it is completed while Stop ranges.
LEMMA SignalNext ==
    ASSUME TypeOK, RegistrationInv, FinishInv, EditsInv, PortsFreedInv, StopsInv,
           [ServerNext]_serverVars, NEW s \in Streams
    PROVE  /\ stop' = "idle" => kill'[s][Signal] = "idle"
           /\ stop' = "ranging" => kill'[s][Signal] \in {"idle", "done"} \cup KillInFlight
           /\ stop' \notin {"idle", "ranging"} => kill'[s][Signal] \notin KillInFlight
           /\ kill'[s][Signal] = "done" => Ended(s)'
  <1> USE DEF KillInFlight
  <1>a. /\ Signal \in Killers /\ Signal \in Finishers
        /\ kill \in [Streams -> [Killers -> KillPC]]
        /\ row \in [Streams -> Row] /\ killCopy \in [Streams -> [Killers -> Row]]
    BY CallerNames, KillerNames DEF TypeOK
  <1>b. /\ stop = "idle" => kill[s][Signal] = "idle"
        /\ stop = "ranging" => kill[s][Signal] \in {"idle", "done"} \cup KillInFlight
        /\ stop \notin {"idle", "ranging"} => kill[s][Signal] \notin KillInFlight
        /\ kill[s][Signal] = "done" => Ended(s) /\ creator[s] = "created"
    BY <1>a DEF StopsInv, FinishInv
  <1>1. CASE kill'[s][Signal] = kill[s][Signal]
    <2>1. stop' = "idle" => stop = "idle"
      BY StopCases DEF StopBegins, StopStep, StopVisits, StopRanged, ShutdownCore, Shutdown, Close,
          MainReturns, stopVars
    <2>2. stop' = "ranging" => stop \in {"idle", "ranging"}
      BY StopCases DEF StopBegins, StopStep, StopVisits, StopRanged, ShutdownCore, Shutdown, Close,
          MainReturns, stopVars
    <2>3. stop' \notin {"idle", "ranging"} /\ stop \in {"idle",
        "ranging"} => kill[s][Signal] \notin KillInFlight
      <3>1. ~ MainReturns \/ stop \notin {"idle", "ranging"}
        BY DEF MainReturns, StopsInv
      <3>2. StopRanged => kill[s][Signal] \notin KillInFlight
        BY DEF StopRanged, StopKills
      <3> QED
        BY <3>1, <3>2, StopCases DEF StopBegins, StopStep, StopVisits, ShutdownCore, Shutdown,
           Close, stopVars
    <2>4. kill[s][Signal] = "done" => Ended(s)'
      BY <1>b, ServerStep, EndedStays
    <2> QED
      BY <1>1, <1>b, <2>1, <2>2, <2>3, <2>4
  <1>2. ASSUME kill'[s][Signal] # kill[s][Signal], MainReturns
        PROVE  kill'[s][Signal] = "lost" /\ stop' \notin {"idle", "ranging"}
    BY <1>2, <1>a DEF MainReturns, Crash
  <1>3. ASSUME StopVisits(s) PROVE kill'[s][Signal] = "lookup" /\ stop' = "ranging"
    BY <1>3, <1>a DEF StopVisits, FinishStream, stopVars
  <1>4. ASSUME Kill(s, Signal)
        PROVE  /\ stop' = "ranging"
               /\ kill'[s][Signal] \in {"done"} \cup KillInFlight
               /\ kill'[s][Signal] = "done" => row'[s].status = "finished"
    <2>1. kill[s][Signal] \in KillInFlight /\ KillStep(s, Signal) /\ UNCHANGED stop
      BY <1>4 DEF Kill, KillStep, KillRuns, KillCallsBolt, KillLookup, KillStop, KillDelete,
          KillLoad, KillStore, stopVars
    <2>2. stop = "ranging" /\ opened = Storages
      BY <1>b, <2>1 DEF StopsInv
    <2>3. kill'[s][Signal] \in {"done"} \cup KillInFlight
      BY <2>1, <1>a DEF KillStep, KillRuns, KillCallsBolt, KillLookup, KillStop, KillDelete,
          KillLoad, KillStore
    <2>4. row[s] # NoRow
      BY <1>a, <2>1 DEF FinishInv, RegistrationInv
    <2>5. kill[s][Signal] \in {"load", "store"} => ~ BoltFails(s, Signal)
      BY <1>4, <2>2, <2>4 DEF Kill, Storages
    <2>6. ASSUME kill'[s][Signal] = "done" PROVE row'[s].status = "finished"
      <3>1. ~ KillLoad(s, Signal)
        BY <2>4, <2>5, <2>6 DEF KillLoad, BoltFails
      <3>2. KillStore(s, Signal)
        BY <1>a, <2>1, <2>6, <3>1 DEF KillStep, KillRuns, KillCallsBolt, KillLookup, KillStop,
            KillDelete
      <3>3. row' # row
        BY <2>5, <3>2 DEF BoltFails, KillStore
      <3>4. row'[s] = Finished(killCopy[s][Signal], Signal) /\ killCopy[s][Signal] \in Row
        BY <1>a, <3>2, <3>3 DEF KillStore
      <3> QED
        BY <3>4 DEF Finished, Row
    <2> QED
      BY <2>1, <2>2, <2>3, <2>6
  <1> QED
    BY <1>1, <1>2, <1>3, <1>4, SignalMoves DEF Ended

\* A stream Stop has found: its process is stopped before it leaves the map, and
\* before Stop goes on.
LEMMA FoundNext ==
    ASSUME TypeOK, RegistrationInv, FinishInv, StopInv, ServerTypeOK, StopsInv,
           [ServerNext]_serverVars, NEW s \in found'
    PROVE  /\ creator'[s] = "created"
           /\ s \notin streams' \/ stop' \notin {"idle", "ranging"} => process'[s] # "running"
  <1>a. Signal \in Killers /\ Signal \in Finishers
    BY CallerNames, KillerNames
  <1>1. CASE StopBegins
    BY <1>1 DEF StopBegins, RegistrationInv, vars, launchVars
  <1>2. CASE ~ StopBegins
    <2>1. found' = found
      BY <1>2, StopCases DEF StopStep, StopVisits, StopRanged, ShutdownCore, Shutdown, Close,
         MainReturns, stopVars
    <2>2. s \in Streams /\ s \in found /\ creator[s] = "created"
      BY <2>1 DEF StopsInv, ServerTypeOK
    <2>3. creator'[s] = "created"
      BY <2>2, ServerStep, CreatedStays
    <2>4. process[s] # "running" => process'[s] # "running"
      BY <2>2, ServerStep, OnlyLaunchRuns DEF Launch
    <2>5. CASE s \notin streams \/ stop \notin {"idle", "ranging"}
      BY <2>2, <2>3, <2>4, <2>5 DEF StopsInv
    <2>6. ASSUME s \in streams, stop \in {"idle", "ranging"}, s \notin streams'
          PROVE  process[s] # "running"
      <3>1. ~ MainReturns
        BY <2>6 DEF MainReturns, StopsInv
      <3>2. StreamStep(s)
        BY <2>2, <2>6, <3>1, ServerOwnStep DEF At
      <3>3. PICK k \in Killers : KillDelete(s, k)
        <4> USE DEF launchVars, processVars, killVars, patchVars

        <4>1. ~ \/ Launch(s) \/ LaunchFails(s) \/ CreatorStep(s) \/ AnnounceHost(s)
                \/ ProcessExits(s) \/ WaitReturns(s) \/ WaitFails(s) \/ Interrupt(s)
                \/ \E f \in Finishers : FinishStream(s, f)
          BY <2>6 DEF Launch, LaunchFails, CreatorStep, CreatorRuns, CreatorCallsBolt, Connected,
              ConnectRetry, GiveUp, StoreRow,
             StoreRowFails, Aborted, Register, AnnounceHost, ProcessExits, WaitReturns, WaitFails,
             Interrupt, FinishStream
        <4>2. ~ \E p \in Patchers : PatchLoad(s, p) \/ PatchStep(s, p)
          BY <2>6 DEF PatchLoad, PatchStep, PatchLookup, PatchStore
        <4> QED
          BY <2>6, <3>2, <4>1, <4>2 DEF StreamStep, KillStep, KillRuns, KillCallsBolt,
              KillLookup, KillStop, KillLoad, KillStore
      <3> QED
        BY <2>2, <3>3 DEF KillDelete, StopInv
    <2>7. ASSUME s \in streams, stop \in {"idle", "ranging"}, stop' \notin {"idle", "ranging"}
          PROVE  process[s] # "running"
      <3>1. stop = "ranging"
        BY <2>2, <2>7 DEF StopsInv
      <3>2. StopRanged
        BY <1>2, <2>7, <3>1, StopCases
        DEF StopStep, StopVisits, ShutdownCore, Shutdown, Close, MainReturns, StopsInv, stopVars
      <3>3. kill[s][Signal] \notin KillInFlight \cup {"idle"}
        BY <2>2, <2>7, <3>2 DEF StopRanged, StopKills
      <3>4. kill[s][Signal] = "done"
        BY <2>2, <3>1, <3>3 DEF StopsInv
      <3> QED
        BY <1>a, <2>2, <3>4 DEF StopInv
    <2> QED
      BY <2>3, <2>4, <2>5, <2>6, <2>7
  <1> QED
    BY <1>1, <1>2

LEMMA StopsNext ==
    ASSUME TypeOK, RegistrationInv, FinishInv, StopInv, EditsInv, ServerTypeOK, PortsFreedInv,
           StopsInv, [ServerNext]_serverVars
    PROVE  StopsInv'
  <1>1. stop' = "idle" => found' = {}
    BY StopCases
    DEF StopsInv, StopBegins, StopStep, StopVisits, StopRanged, ShutdownCore, Shutdown, Close,
       MainReturns, stopVars
  <1>2. stop' \in {"idle", "ranging"} => opened' = Storages /\ "core" \in serving'
    BY StopCases
    DEF StopsInv, StopBegins, StopStep, StopVisits, StopRanged, ShutdownCore, Shutdown, Close,
       MainReturns, stopVars
  <1> QED
    BY <1>1, <1>2, SignalNext, FoundNext DEF StopsInv

\* Once Stop is through with the streams, no process of a stream it found runs, and
\* every end it has written is on the record, or a PatchStream has stored behind it,
\* whatever requests killed the same streams and wherever the program is cut off.
\* Without containers that survive their stop, which is the one failure the code only
\* logs.
THEOREM StopFinishesCorrect ==
    ASSUME "stop" \notin Faults PROVE ServerSpec => []StopFinishesStreams
  <1>1. ServerInit => RegistrationInv /\ FinishInv /\ StopInv /\ EditsInv /\ PortsFreedInv
    <2>1. ServerInit => Init
      BY DEF ServerInit
    <2>2. Init => RegistrationInv /\ StopInv
      BY KillerNames DEF Init, RegistrationInv, StopInv, KillInFlight
    <2>3. ServerInit => PortsFreedInv
      BY DEF ServerInit, PortsFreedInv
    <2>4. Init => EditsInv
      BY DEF Init, EditsInv, NoRow
    <2> QED
      BY <2>1, <2>2, <2>3, <2>4, FinishInit
  <1>2. ServerInit => StopsInv
    <2> SUFFICES ASSUME ServerInit PROVE StopsInv
      OBVIOUS
    <2>1. \A s \in Streams : kill[s][Signal] = "idle"
      BY CallerNames, KillerNames DEF ServerInit, Init
    <2> QED
      BY <2>1 DEF ServerInit, StopsInv, Storages
  <1>3. StopsInv /\ ServerTypeOK => StopFinishesStreams
    BY DEF StopsInv, ServerTypeOK, StopFinishesStreams, Ended
  <1>4. TypeOK /\ RegistrationInv /\ FinishInv /\ StopInv /\ [Next]_vars => StopInv'
    BY StopNext
  <1> QED
    BY <1>1, <1>2, <1>3, <1>4, ServerLifecycle, ServerStep, RegistrationNext, FinishNext, EditsNext,
       PortsFreedNext, StopsNext, TypeCorrect, ServerTypeCorrect, PTL DEF ServerSpec
=============================================================================
