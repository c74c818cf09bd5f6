---------------------------- MODULE Participants ----------------------------
(***************************************************************************)
(* The participants of one running stream (server/participant.go).         *)
(*                                                                         *)
(* A join request waits in the sync.Map pendingParticipants of the stream's *)
(* module until the join policy, or the host, lets it in; it is then        *)
(* appended to the participants' record of the storage, announced to the    *)
(* stream by a goroutine, and leaves the map by the deferred Delete.  The   *)
(* host decides over an unbuffered channel that lives in the map's value.   *)
(* The handlers keep the stream's module once they have looked it up, so    *)
(* they go on after the stream has left Server.streams.                     *)
(***************************************************************************)
EXTENDS Naturals, FiniteSets

CONSTANTS
    Joiners,    \* JoinParticipant requests, which are also the participants' UUIDs
    Deciders,   \* DecideParticipantJoin requests
    Listers,    \* StreamParticipants requests
    Renamers,   \* PatchParticipant requests
    Codes,      \* join codes
    Faults      \* what may fail: "store" of the participants' record, "decode" of any

ASSUME ParticipantsAssumption == Faults \subseteq {"store", "decode"}

VARIABLES
    registered,  \* the stream is in Server.streams
    pending,     \* keys of pendingParticipants
    roster,      \* participants in the participants' record
    join,        \* join[j]: where JoinParticipant stands
    request,     \* request[j]: the join code offered and the settings loaded
    outcome,     \* outcome[j]: what JoinParticipant is going to answer
    copy,        \* copy[j]: the record j has decoded
    decide,      \* decide[d]: where DecideParticipantJoin stands
    decision,    \* decision[d]: whom the request is about and what it says
    list,        \* list[l]: where StreamParticipants stands
    result,      \* result[l]: the pending, then all the participants collected
    due,         \* due[l]: participants visible all the time since the listing began (history)
    rename,      \* rename[r]: the answer of PatchParticipant
    announcing,  \* goroutines that are about to call the stream
    announced    \* calls the stream has received

joinVars == <<join, request, outcome, copy>>
decideVars == <<decide, decision>>
listVars == <<list, result, due>>
announceVars == <<announcing, announced>>
vars == <<registered, pending, roster, joinVars, decideVars, listVars, rename,
          announceVars>>

-----------------------------------------------------------------------------
\* CreateStreamRequest and PatchStreamRequest validate the policy and, for by_code,
\* the code; a patch may leave the policy empty.
Settings == [policy : {"auto", "host_resolve", ""}, code : {""}]
              \cup [policy : {"by_code"}, code : Codes]

Requests == [code : Codes \cup {""}, settings : Settings]
NoRequest == [code |-> "", settings |-> [policy |-> "", code |-> ""]]
Decisions == [about : Joiners, allowed : BOOLEAN]
NoDecision == [about |-> "nobody", allowed |-> FALSE]
Announcements == {"new", "change"} \X Joiners

JoinPC == {"idle", "arriving", "deciding", "loading", "storing", "leaving", "left"}
Outcome == {"none", "joined", "denied", "error"}

TypeOK ==
    /\ registered \in BOOLEAN
    /\ pending \subseteq Joiners
    /\ roster \subseteq Joiners
    /\ join \in [Joiners -> JoinPC]
    /\ request \in [Joiners -> Requests]
    /\ outcome \in [Joiners -> Outcome]
    /\ \A j \in Joiners : join[j] \in {"leaving", "left"} => outcome[j] # "none"
    /\ copy \in [Joiners -> SUBSET Joiners]
    /\ decide \in [Deciders -> {"idle", "looking", "sending", "ok", "error"}]
    /\ decision \in [Deciders -> Decisions \cup {NoDecision}]
    /\ list \in [Listers -> {"idle", "reading", "done", "error"}]
    /\ result \in [Listers -> SUBSET Joiners]
    /\ due \in [Listers -> SUBSET Joiners]
    /\ rename \in [Renamers -> {"idle", "ok", "error"}]
    /\ announcing \subseteq Announcements
    /\ announced \subseteq Announcements

\* NewStream has registered the stream.
Init ==
    /\ registered = TRUE
    /\ pending = {}
    /\ roster = {}
    /\ join = [j \in Joiners |-> "idle"]
    /\ request = [j \in Joiners |-> NoRequest]
    /\ outcome = [j \in Joiners |-> "none"]
    /\ copy = [j \in Joiners |-> {}]
    /\ decide = [d \in Deciders |-> "idle"]
    /\ decision = [d \in Deciders |-> NoDecision]
    /\ list = [l \in Listers |-> "idle"]
    /\ result = [l \in Listers |-> {}]
    /\ due = [l \in Listers |-> {}]
    /\ rename = [r \in Renamers |-> "idle"]
    /\ announcing = {}
    /\ announced = {}

-----------------------------------------------------------------------------
\* Participants a client can see: waiting, or on the record.
Visible == pending \cup roster

\* Listings owe a participant only as long as it has been visible throughout.
StillDue == [l \in Listers |-> IF list[l] = "reading" THEN due[l] \cap Visible' ELSE due[l]]

-----------------------------------------------------------------------------
(* The stream around the participants.                                     *)

\* killStream deletes the module from the map.
StreamEnds ==
    /\ registered
    /\ registered' = FALSE
    /\ UNCHANGED <<pending, roster, joinVars, decideVars, listVars, rename, announceVars>>

-----------------------------------------------------------------------------
(* JoinParticipant.                                                        *)

\* The row and the module are read.  PatchStream changes the settings at any time,
\* so a request may load any of them.
JoinArrives(j) ==
    /\ join[j] = "idle"
    /\ \/ /\ registered
          /\ \E r \in Requests : request' = [request EXCEPT ![j] = r]
          /\ join' = [join EXCEPT ![j] = "arriving"]
          /\ UNCHANGED outcome
       \/ /\ ~ registered \/ "decode" \in Faults
          /\ join' = [join EXCEPT ![j] = "left"]
          /\ outcome' = [outcome EXCEPT ![j] = "error"]
          /\ UNCHANGED request
    /\ UNCHANGED <<registered, pending, roster, copy, decideVars, listVars, rename, announceVars>>

JoinPends(j) ==
    /\ join[j] = "arriving"
    /\ pending' = pending \cup {j}
    /\ join' = [join EXCEPT ![j] = "deciding"]
    /\ UNCHANGED <<registered, roster, request, outcome, copy, decideVars, listVars, rename, announceVars>>

\* The request goes on to the record, or is answered at once.
Admit(j) ==
    /\ join' = [join EXCEPT ![j] = "loading"]
    /\ outcome' = [outcome EXCEPT ![j] = "joined"]

Refuse(j, answer) ==
    /\ join' = [join EXCEPT ![j] = "leaving"]
    /\ outcome' = [outcome EXCEPT ![j] = answer]

ByPolicyMutant(j) ==
    /\ join[j] = "deciding"
    /\ \/ request[j].settings.policy \in {"auto", "by_code"} /\ Admit(j)
       \/ request[j].settings.policy = "" /\ Refuse(j, "error")
    /\ UNCHANGED <<registered, pending, roster, request, copy, decideVars, listVars, rename, announceVars>>

ByPolicyNoDefault(j) ==
    LET loaded == request[j].settings IN
    /\ join[j] = "deciding"
    /\ \/ loaded.policy = "auto" /\ Admit(j)
       \/ loaded.policy = "by_code" /\ loaded.code = request[j].code /\ Admit(j)
       \/ loaded.policy = "" /\ join' = [join EXCEPT ![j] = "leaving"] /\ UNCHANGED outcome
    /\ UNCHANGED <<registered, pending, roster, request, copy, decideVars, listVars, rename, announceVars>>

\* The loaded policy decides, unless it leaves the decision to the host.
ByPolicy(j) ==
    LET loaded == request[j].settings IN
    /\ join[j] = "deciding"
    /\ \/ loaded.policy = "auto" /\ Admit(j)
       \/ loaded.policy = "by_code" /\ loaded.code = request[j].code /\ Admit(j)
       \/ loaded.policy = "by_code" /\ loaded.code # request[j].code /\ Refuse(j, "error")
       \/ loaded.policy = "" /\ Refuse(j, "error")
    /\ UNCHANGED <<registered, pending, roster, request, copy, decideVars, listVars, rename, announceVars>>

\* The channel has no buffer: the deciding request and the waiting one meet.
ReceiveDecisionMutant(d, j) ==
    /\ decide[d] = "sending"
    /\ decision[d].about = j
    /\ decide' = [decide EXCEPT ![d] = "ok"]
    /\ IF join[j] = "deciding" /\ request[j].settings.policy = "host_resolve"
       THEN IF decision[d].allowed THEN Admit(j) ELSE Refuse(j, "denied")
       ELSE UNCHANGED <<join, outcome>>
    /\ UNCHANGED <<registered, pending, roster, request, copy, decision, listVars, rename, announceVars>>

ReceiveDecisionLost(d, j) ==
    /\ decide[d] = "sending"
    /\ decision[d].about = j
    /\ decide' = [decide EXCEPT ![d] = "ok"]
    /\ UNCHANGED <<registered, pending, roster, joinVars, decision, listVars, rename, announceVars>>

ReceiveDecision(d, j) ==
    /\ join[j] = "deciding"
    /\ request[j].settings.policy = "host_resolve"
    /\ decide[d] = "sending"
    /\ decision[d].about = j
    /\ IF decision[d].allowed THEN Admit(j) ELSE Refuse(j, "denied")
    /\ decide' = [decide EXCEPT ![d] = "ok"]
    /\ UNCHANGED <<registered, pending, roster, request, copy, decision, listVars, rename, announceVars>>

JoinLoads(j) ==
    /\ join[j] = "loading"
    /\ copy' = [copy EXCEPT ![j] = roster]
    /\ \/ join' = [join EXCEPT ![j] = "storing"] /\ UNCHANGED outcome
       \/ "decode" \in Faults /\ roster # {} /\ Refuse(j, "error")
    /\ UNCHANGED <<registered, pending, roster, request, decideVars, listVars, rename, announceVars>>

\* The decoded list is appended to and stored as a whole.
JoinStores(j) ==
    /\ join[j] = "storing"
    /\ \/ /\ roster' = copy[j] \cup {j}
          /\ announcing' = announcing \cup {<<"new", j>>}
          /\ join' = [join EXCEPT ![j] = "leaving"]
          /\ UNCHANGED outcome
       \/ /\ "store" \in Faults
          /\ Refuse(j, "error")
          /\ UNCHANGED <<roster, announcing>>
    /\ UNCHANGED <<registered, pending, request, copy, decideVars, list, result, rename, announced>>
    /\ due' = StillDue

\* The deferred Delete, and the answer.
JoinLeaves(j) ==
    /\ join[j] = "leaving"
    /\ pending' = pending \ {j}
    /\ join' = [join EXCEPT ![j] = "left"]
    /\ UNCHANGED <<registered, roster, request, outcome, copy, decideVars, list, result, rename, announceVars>>
    /\ due' = StillDue

\* The steps that call bolt, which may keep the caller waiting, and the others.
JoinCallsBolt(j) == JoinLoads(j) \/ JoinStores(j)
JoinRuns(j) == JoinPends(j) \/ ByPolicy(j) \/ JoinLeaves(j)

JoinStep(j) == JoinRuns(j) \/ JoinCallsBolt(j)

-----------------------------------------------------------------------------
(* DecideParticipantJoin.                                                  *)

Decide(d) ==
    /\ decide[d] = "idle"
    /\ decide' = [decide EXCEPT ![d] = IF registered THEN "looking" ELSE "error"]
    /\ UNCHANGED <<registered, pending, roster, joinVars, decision, listVars, rename, announceVars>>

\* The participant of the request is pending, or is nobody's.
DecideLooks(d) ==
    /\ decide[d] = "looking"
    /\ \/ /\ \E about \in pending, allowed \in BOOLEAN :
                decision' = [decision EXCEPT ![d] = [about |-> about, allowed |-> allowed]]
          /\ decide' = [decide EXCEPT ![d] = "sending"]
       \/ /\ decide' = [decide EXCEPT ![d] = "error"]
          /\ UNCHANGED decision
    /\ UNCHANGED <<registered, pending, roster, joinVars, listVars, rename, announceVars>>

DecideStep(d) == Decide(d) \/ DecideLooks(d)

-----------------------------------------------------------------------------
(* StreamParticipants.                                                     *)

\* Range begins: it will visit the keys present now.
ListBegins(l) ==
    /\ list[l] = "idle"
    /\ list' = [list EXCEPT ![l] = IF registered THEN "reading" ELSE "error"]
    /\ result' = [result EXCEPT ![l] = IF registered THEN pending ELSE {}]
    /\ due' = [due EXCEPT ![l] = IF registered THEN Visible ELSE {}]
    /\ UNCHANGED <<registered, pending, roster, joinVars, decideVars, rename, announceVars>>

\* Range is over and the record is read: of the keys deleted, or stored, since
\* Range began some have been visited and some have not.
ListEnds(l) ==
    LET changed == (result[l] \ pending) \cup (pending \ result[l]) IN
    /\ list[l] = "reading"
    /\ \/ \E visited \in SUBSET changed :
             /\ result' = [result EXCEPT ![l] = (@ \cap pending) \cup visited \cup roster]
             /\ list' = [list EXCEPT ![l] = "done"]
       \/ /\ "decode" \in Faults
          /\ roster # {}
          /\ list' = [list EXCEPT ![l] = "error"]
          /\ UNCHANGED result
    /\ UNCHANGED <<registered, pending, roster, joinVars, decideVars, due, rename, announceVars>>

ListStepSwapped(l) ==
    /\ \/ /\ list[l] = "idle"
          /\ list' = [list EXCEPT ![l] = IF registered THEN "reading" ELSE "error"]
          /\ result' = [result EXCEPT ![l] = IF registered THEN roster ELSE {}]
          /\ due' = [due EXCEPT ![l] = IF registered THEN Visible ELSE {}]
       \/ /\ list[l] = "reading"
          /\ list' = [list EXCEPT ![l] = "done"]
          /\ result' = [result EXCEPT ![l] = @ \cup pending]
          /\ UNCHANGED due
    /\ UNCHANGED <<registered, pending, roster, joinVars, decideVars, rename, announceVars>>

ListStep(l) == ListBegins(l) \/ ListEnds(l)

-----------------------------------------------------------------------------
(* PatchParticipant and the goroutines that call the stream.               *)

\* The patched participant is announced and answered; the record is not stored.
PatchParticipant(r, j) ==
    /\ rename[r] = "idle"
    /\ \/ /\ registered
          /\ j \in roster
          /\ rename' = [rename EXCEPT ![r] = "ok"]
          /\ announcing' = announcing \cup {<<"change", j>>}
       \/ /\ ~ registered \/ j \notin roster \/ "decode" \in Faults
          /\ rename' = [rename EXCEPT ![r] = "error"]
          /\ UNCHANGED announcing
    /\ UNCHANGED <<registered, pending, roster, joinVars, decideVars, listVars, announced>>

\* addNewParticipant and updateParticipantInfo; an error is only logged.
Announce(a) ==
    /\ a \in announcing
    /\ announcing' = announcing \ {a}
    /\ announced' = IF registered THEN announced \cup {a} ELSE announced
    /\ UNCHANGED <<registered, pending, roster, joinVars, decideVars, listVars, rename>>

-----------------------------------------------------------------------------
Next ==
    \/ StreamEnds
    \/ \E j \in Joiners :
        \/ JoinArrives(j)
        \/ JoinStep(j)
        \/ \E d \in Deciders : ReceiveDecision(d, j)
        \/ \E r \in Renamers : PatchParticipant(r, j)
    \/ \E d \in Deciders : DecideStep(d)
    \/ \E l \in Listers : ListStep(l)
    \/ \E a \in Announcements : Announce(a)

Spec == Init /\ [][Next]_vars

\* A goroutine that can take a step is scheduled.  Nothing is owed where it has called
\* bolt, which a backup that nobody reads blocks, or the stream program.
Fairness ==
    /\ \A j \in Joiners : WF_vars(JoinRuns(j))
    /\ \A j \in Joiners : WF_vars(\E d \in Deciders : ReceiveDecision(d, j))
    /\ \A d \in Deciders : WF_vars(DecideLooks(d))

FairSpec == Spec /\ Fairness

-----------------------------------------------------------------------------
(* Safety.                                                                 *)

\* What lets a request in: the settings it has loaded, or a decision of the host
\* that it has received.
Justified(j) ==
    LET loaded == request[j].settings IN
    \/ loaded.policy = "auto"
    \/ loaded.policy = "by_code" /\ loaded.code = request[j].code
    \/ /\ loaded.policy = "host_resolve"
       /\ \E d \in Deciders :
             decide[d] = "ok" /\ decision[d] = [about |-> j, allowed |-> TRUE]

\* Nobody is on the record, announced to the stream or answered with a token who
\* was not let in.
Admitted ==
    roster \cup {a[2] : a \in announcing \cup announced}
           \cup {j \in Joiners : join[j] = "left" /\ outcome[j] = "joined"}
AdmissionJustified == \A j \in Admitted : Justified(j)

\* A decision that was answered with success is the one the participant got: it
\* has not raced with another decision, and was not sent to one who had left.
DecisionCounts ==
    \A d \in Deciders :
        decide[d] = "ok" =>
            LET j == decision[d].about IN
            /\ outcome[j] \in IF decision[d].allowed THEN {"joined", "error"} ELSE {"denied"}
            /\ \A e \in Deciders \ {d} : decide[e] = "ok" => decision[e].about # j

\* A participant who was pending or on the record at every moment of a listing is
\* listed: one that moves from the map to the record is not missed in between,
\* whoever else is on the record.  (Who was refused, or overwritten by another join,
\* was not there at every moment.)
ListingComplete ==
    \A l \in Listers : list[l] = "done" => due[l] \subseteq result[l]

-----------------------------------------------------------------------------
(* Liveness.                                                               *)

\* No call of bolt for a join lasts for ever.
BoltReturns == \A j \in Joiners : WF_vars(JoinCallsBolt(j))

\* A join request that its policy decides, or that the host has sent a decision
\* to, is answered, provided that bolt returns.
JoinSettles ==
    BoltReturns =>
        \A j \in Joiners :
            /\ join[j] = "deciding"
            /\ \/ request[j].settings.policy # "host_resolve"
               \/ \E d \in Deciders : decide[d] = "sending" /\ decision[d].about = j
            ~> join[j] = "left"

-----------------------------------------------------------------------------
(* What the comments of the source promise and the code does not keep.     *)

\* "StreamParticipants returns list of stream participants": whoever has been
\* answered that he has joined stays on the record.
JoinedIsRecorded ==
    \A j \in Joiners : join[j] = "left" /\ outcome[j] = "joined" => j \in roster

\* "DecideParticipantJoin allows or denies participant to join the stream": the
\* request is answered.
DecisionReturns ==
    \A d \in Deciders : decide[d] = "sending" ~> decide[d] \in {"ok", "error"}
=============================================================================
