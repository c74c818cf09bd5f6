---------------------------- MODULE StreamSettings ----------------------------
(***************************************************************************)
(* The settings of one stream, and the joins they decide about.            *)
(*                                                                         *)
(* createStream validates a request and NewStream records it; from then on *)
(* the row is loaded, changed and stored as a whole by PatchStream         *)
(* requests (handler/patch_stream_info.go, server/stream.go), which clients *)
(* may send at once, and by killStream at the end of the stream.  A join   *)
(* of Participants loads the settings that are in force when it arrives.   *)
(*                                                                         *)
(* A text is one of a few words: Bad stands for one that every rule but    *)
(* emptiness rejects, "letters" for one of a good length that is no code,  *)
(* and a field of a request that is a pointer is <<>> when it is not given *)
(* and <<v>> when it is.  One end of the stream is modelled; two that race *)
(* are in StreamLifecycle.                                                 *)
(***************************************************************************)
EXTENDS Participants, SequencesExt

CONSTANTS
    CreateRequests,  \* requests of clients to create the stream
    PatchRequests,   \* requests of clients to patch it
    Patchers         \* PatchStream requests under way

Bad == "bad"
Names == {"", Bad, "talk", "demo"}
CodeTexts == {"", Bad, "letters"} \cup Codes
JoinPolicyRequest == [policy : {"", Bad, "auto", "by_code", "host_resolve"}, code : CodeTexts]
Given(S) == {<<>>} \cup {<<v>> : v \in S}

CreateStreamRequest ==
    [name : Names, join : JoinPolicyRequest,
     launch : {"", Bad, "standalone_app", "docker_container"}, host : Names]
PatchStreamRequest ==
    [name : Given(Names), join : Given(JoinPolicyRequest), host : Given(Names)]

ASSUME SettingsAssumption ==
    /\ CreateRequests \subseteq CreateStreamRequest
    /\ PatchRequests \subseteq PatchStreamRequest
    /\ Codes \cap {"", Bad, "letters"} = {}
    /\ "kill" \notin Patchers

VARIABLES
    info,     \* the row of the stream
    created,  \* the row NewStream has stored (history)
    patch,    \* patch[p]: where PatchStream stands
    asked,    \* asked[p]: what the handler passes to PatchStream
    draft,    \* draft[w]: the row writer w has decoded
    end,      \* where killStream stands
    stored,   \* writers in the order of their Stores (history)
    exposed   \* writers that stored while another held a draft (history)

writeVars == <<info, patch, asked, draft, end, stored, exposed>>
settingsVars == <<vars, created, writeVars>>

Writers == Patchers \cup {"kill"}

-----------------------------------------------------------------------------
(* The rules of the validation package: a rule other than Required lets the *)
(* empty value pass.                                                        *)

Passes(v) == v # Bad
Required(v) == v # "" /\ Passes(v)
SixDigits(code) == Required(code) /\ code \in Codes

\* CreateStreamRequest.Validate
ValidCreate(r) ==
    /\ Required(r.name)
    /\ Required(r.join.policy)
    /\ Required(r.host)
    /\ r.join.policy = "by_code" => SixDigits(r.join.code)
    /\ Passes(r.launch)

ValidPatchNoCode(r) ==
    /\ r.name # <<>> => Passes(r.name[1])
    /\ r.join # <<>> => Passes(r.join[1].policy)
    /\ r.host # <<>> => r.join # <<>> /\ Passes(r.join[1].code)

ValidPatchNoPolicy(r) ==
    /\ r.name # <<>> => Passes(r.name[1])
    /\ r.join # <<>> /\ r.join[1].policy = "by_code" => SixDigits(r.join[1].code)
    /\ r.host # <<>> => r.join # <<>> /\ Passes(r.join[1].code)

\* PatchStreamRequest.Validate.  With a host it looks at the join code instead of
\* the name of the host, and panics where there is none.
ValidPatch(r) ==
    /\ r.name # <<>> => Passes(r.name[1])
    /\ r.join # <<>> => Passes(r.join[1].policy)
    /\ r.join # <<>> /\ r.join[1].policy = "by_code" => SixDigits(r.join[1].code)
    /\ r.host # <<>> => r.join # <<>> /\ Passes(r.join[1].code)

NoPatch == [name |-> <<>>, join |-> <<>>, host |-> <<>>]
NoCreate == [name |-> "", join |-> [policy |-> "", code |-> ""], launch |-> "", host |-> ""]

\* ParseJSONRequest, the requests a handler acts on: an empty body is the empty
\* request, and what does not parse or is not valid is answered and leaves no trace.
CreateRequestsParsed == {r \in CreateRequests \cup {NoCreate} : ValidCreate(r)}
PatchRequestsParsed == {r \in PatchRequests \cup {NoPatch} : ValidPatch(r)}

-----------------------------------------------------------------------------
Info == [name : Names, mode : {"standalone_app", "docker_container"},
         join : JoinPolicyRequest, host : Names, status : {"running", "finished"}]

CreatedNoMode(r) ==
    [name |-> r.name, mode |-> r.launch, join |-> r.join, host |-> r.host,
     status |-> "running"]

\* The row of a new stream; newStreamHandler knows two modes.
Created(r) ==
    [name |-> r.name,
     mode |-> IF r.launch = "" THEN "standalone_app" ELSE r.launch,
     join |-> r.join, host |-> r.host, status |-> "running"]

\* What a join goes by: the code counts under one policy only.
Effective(join_) ==
    [policy |-> join_.policy, code |-> IF join_.policy = "by_code" THEN join_.code ELSE ""]

SettingsTypeOK ==
    /\ info \in Info
    /\ created \in Info
    /\ patch \in [Patchers -> {"idle", "lookup", "store", "ok", "error", "panic"}]
    /\ asked \in [Patchers -> PatchStreamRequest]
    /\ draft \in [Writers -> Given(Info)]
    /\ end \in {"running", "load", "store", "done"}
    /\ stored \in Seq(Writers)
    /\ exposed \subseteq Writers

SettingsInit ==
    /\ Init
    /\ \E r \in CreateRequestsParsed : info = Created(r)
    /\ created = info
    /\ patch = [p \in Patchers |-> "idle"]
    /\ asked = [p \in Patchers |-> NoPatch]
    /\ draft = [w \in Writers |-> <<>>]
    /\ end = "running"
    /\ stored = <<>>
    /\ exposed = {}

-----------------------------------------------------------------------------
(* The writers of the row.                                                 *)

\* Load and Decode.
Loads(w) == draft' = [draft EXCEPT ![w] = <<info>>]

\* Store, over whatever the row holds by now.
Stores(w, new) ==
    /\ info' = new
    /\ draft' = [draft EXCEPT ![w] = <<>>]
    /\ stored' = Append(stored, w)
    /\ exposed' = IF \E v \in Writers \ {w} : draft[v] # <<>> THEN exposed \cup {w} ELSE exposed

\* The writer goes no further.
GivesUp(w) ==
    /\ draft' = [draft EXCEPT ![w] = <<>>]
    /\ UNCHANGED <<info, stored, exposed>>

\* patchStream asks whether its own new configuration has a host, which it never
\* has, and so never passes one on.
Config(r) == [r EXCEPT !.host = <<>>]

PatchArrives(p) ==
    /\ patch[p] = "idle"
    /\ \/ \E r \in PatchRequestsParsed :
             /\ asked' = [asked EXCEPT ![p] = Config(r)]
             /\ patch' = [patch EXCEPT ![p] = "lookup"]
             /\ Loads(p)
       \/ /\ \E r \in PatchRequests : r.host # <<>> /\ r.join = <<>>
          /\ patch' = [patch EXCEPT ![p] = "panic"]
          /\ UNCHANGED <<asked, draft>>
    /\ UNCHANGED <<vars, created, info, end, stored, exposed>>

\* The stream has to be in the map, and the row has to be decoded.
PatchLooksUp(p) ==
    /\ patch[p] = "lookup"
    /\ \/ /\ registered
          /\ patch' = [patch EXCEPT ![p] = "store"]
          /\ UNCHANGED <<info, draft, stored, exposed>>
       \/ /\ ~ registered \/ "decode" \in Faults
          /\ patch' = [patch EXCEPT ![p] = "error"]
          /\ GivesUp(p)
    /\ UNCHANGED <<vars, created, asked, end>>

PatchedFromCreated(row, r) ==
    [row EXCEPT !.name = IF r.name # <<>> THEN r.name[1] ELSE @,
                !.join = IF r.join # <<>> THEN r.join[1] ELSE created.join]

Patched(row, r) ==
    [row EXCEPT !.name = IF r.name # <<>> THEN r.name[1] ELSE @,
                !.join = IF r.join # <<>> THEN r.join[1] ELSE @]

PatchStores(p) ==
    /\ patch[p] = "store"
    /\ \/ /\ Stores(p, Patched(draft[p][1], asked[p]))
          /\ patch' = [patch EXCEPT ![p] = "ok"]
       \/ /\ "store" \in Faults
          /\ GivesUp(p)
          /\ patch' = [patch EXCEPT ![p] = "error"]
    /\ UNCHANGED <<vars, created, asked, end>>

PatchStep(p) == PatchLooksUp(p) \/ PatchStores(p)

\* killStream: out of the map, and then the end on the row.
KillDeletes ==
    /\ StreamEnds
    /\ end' = "load"
    /\ UNCHANGED <<created, info, patch, asked, draft, stored, exposed>>

KillLoads ==
    /\ end = "load"
    /\ \/ end' = "store" /\ Loads("kill")
       \/ "decode" \in Faults /\ end' = "done" /\ UNCHANGED draft
    /\ UNCHANGED <<vars, created, info, patch, asked, stored, exposed>>

KillStores ==
    /\ end = "store"
    /\ end' = "done"
    /\ \/ Stores("kill", [draft["kill"][1] EXCEPT !.status = "finished"])
       \/ "store" \in Faults /\ GivesUp("kill")
    /\ UNCHANGED <<vars, created, patch, asked>>

-----------------------------------------------------------------------------
(* joinStream, and the other requests of Participants.                     *)

\* ParticipantJoinRequest asks for a name; the code may be anything.
ValidJoin(r) == Required(r.name)

JoinRequested(j) ==
    /\ join[j] = "idle"
    /\ \/ /\ registered
          /\ \E code \in Codes \cup {""} :
                request' = [request EXCEPT ![j] = [code |-> code, settings |-> Effective(info.join)]]
          /\ join' = [join EXCEPT ![j] = "arriving"]
          /\ UNCHANGED outcome
       \/ /\ ~ registered \/ "decode" \in Faults
          /\ join' = [join EXCEPT ![j] = "left"]
          /\ outcome' = [outcome EXCEPT ![j] = "error"]
          /\ UNCHANGED request
    /\ UNCHANGED <<registered, pending, roster, copy, decideVars, listVars, rename, announceVars>>
    /\ UNCHANGED <<created, writeVars>>

ParticipantsStep ==
    /\ \/ \E j \in Joiners : JoinStep(j) \/ \E d \in Deciders : ReceiveDecision(d, j)
       \/ \E d \in Deciders : DecideStep(d)
       \/ \E l \in Listers : ListStep(l)
       \/ \E r \in Renamers, j \in Joiners : PatchParticipant(r, j)
       \/ \E a \in Announcements : Announce(a)
    /\ UNCHANGED <<created, writeVars>>

SettingsNext ==
    \/ \E j \in Joiners : JoinRequested(j)
    \/ ParticipantsStep
    \/ \E p \in Patchers : PatchArrives(p) \/ PatchStep(p)
    \/ KillDeletes
    \/ KillLoads
    \/ KillStores

SettingsSpec == SettingsInit /\ [][SettingsNext]_settingsVars

\* The fairness of Participants; nothing is claimed of patches and of the end.
FairSettingsSpec == SettingsSpec /\ Fairness

-----------------------------------------------------------------------------
(* Safety.                                                                 *)

\* A join goes by settings that a create or patch request has passed validation
\* with: the requests under way do what the requests of Participants do.
ImplementsParticipants == Spec

\* Whatever patches overlap, a stream that is joined by code has a code: the policy
\* of one request is never left with the code of another.
CodeIsSet == info.join.policy = "by_code" => info.join.code \in Codes

Fields == {"name", "join", "status"}

\* Whether a writer that has stored set the field, and to what.
Gave(w, f) == IF w = "kill" THEN f = "status" ELSE f # "status" /\ asked[w][f] # <<>>
Value(w, f) == IF w = "kill" THEN "finished" ELSE asked[w][f][1]

\* The i-th Store was the last one to set the field.
LastGiver(i, f) ==
    Gave(stored[i], f) /\ \A k \in DOMAIN stored : k > i => ~ Gave(stored[k], f)

UpToDate(row, f) ==
    /\ (\A i \in DOMAIN stored : ~ Gave(stored[i], f)) => row[f] = created[f]
    /\ \A i \in DOMAIN stored :
         LastGiver(i, f) /\ stored[i] \notin exposed => row[f] = Value(stored[i], f)

\* A field of the row is what the last writer that set it asked for, and as it was
\* created if none did, unless that writer stored while another one was at work on
\* a row it had loaded before: no update is lost for another reason.
LastWriteCounts == \A f \in Fields : UpToDate(info, f)
=============================================================================
