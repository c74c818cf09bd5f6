-------------------------- MODULE StreamSettingsProofs --------------------------
(* Theorems about StreamSettings for every set of requests, bodies and faults.  *)
EXTENDS StreamSettings, ParticipantsProofs, TLAPS

\* What passes validation: a policy the code knows, and a code where it is used.
ValidSettings ==
    {j \in JoinPolicyRequest : j.policy # Bad /\ (j.policy = "by_code" => j.code \in Codes)}

\* The settings of the row, of the rows writers have decoded, and of the requests the
\* patches go by.  A writer stores only behind its load.
JoinInv ==
    /\ info.join \in ValidSettings
    /\ asked \in [Patchers -> PatchStreamRequest]
    /\ draft \in [Writers -> Given(Info)]
    /\ info \in Info
    /\ \A p \in Patchers : asked[p].join # <<>> => asked[p].join[1] \in ValidSettings
    /\ \A w \in Writers : draft[w] # <<>> => draft[w][1].join \in ValidSettings
    /\ \A p \in Patchers : patch[p] \in {"lookup", "store"} => draft[p] # <<>>
    /\ end = "store" => draft["kill"] # <<>>
    /\ patch \in [Patchers -> {"idle", "lookup", "store", "ok", "error", "panic"}]

LEMMA CreatedIsValid ==
    ASSUME NEW r \in CreateRequestsParsed
    PROVE  Created(r) \in Info /\ Created(r).join \in ValidSettings
  <1>1. r \in CreateStreamRequest /\ ValidCreate(r)
    <2>1. ~ ValidCreate(NoCreate)
      BY DEF ValidCreate, NoCreate, Required
    <2> QED
      BY <2>1, SettingsAssumption DEF CreateRequestsParsed
  <1>2. r.join \in ValidSettings
    BY <1>1 DEF ValidSettings, ValidCreate, CreateStreamRequest, Required, Passes, SixDigits
  <1>3. r.launch # Bad
    BY <1>1 DEF ValidCreate, Passes
  <1> QED
    BY <1>1, <1>2, <1>3 DEF Created, Info, CreateStreamRequest

LEMMA PatchIsValid ==
    ASSUME NEW r \in PatchRequestsParsed
    PROVE  /\ Config(r) \in PatchStreamRequest
           /\ Config(r).join # <<>> => Config(r).join[1] \in ValidSettings
  <1>1. r \in PatchStreamRequest /\ ValidPatch(r)
    <2>1. NoPatch \in PatchStreamRequest
      BY DEF NoPatch, PatchStreamRequest, Given
    <2> QED
      BY <2>1, SettingsAssumption DEF PatchRequestsParsed
  <1>2. Config(r) \in PatchStreamRequest /\ Config(r).join = r.join
    BY <1>1 DEF Config, PatchStreamRequest, Given
  <1>3. ASSUME r.join # <<>> PROVE r.join[1] \in ValidSettings
    <2>1. PICK v \in JoinPolicyRequest : r.join = <<v>>
      BY <1>1, <1>3 DEF PatchStreamRequest, Given
    <2>2. r.join[1] = v
      BY <2>1
    <2> QED
      BY <1>1, <1>3, <2>1, <2>2 DEF ValidPatch, ValidSettings, Passes, SixDigits
  <1> QED
    BY <1>2, <1>3

LEMMA JoinInit == SettingsInit => JoinInv
  <1> SUFFICES ASSUME SettingsInit PROVE JoinInv
    OBVIOUS
  <1>1. info \in Info /\ info.join \in ValidSettings
    BY CreatedIsValid DEF SettingsInit
  <1>2. NoPatch \in PatchStreamRequest /\ NoPatch.join = <<>>
    BY DEF NoPatch, PatchStreamRequest, Given
  <1> QED
    BY <1>1, <1>2 DEF SettingsInit, JoinInv, Given

LEMMA PatchedIsValid ==
    ASSUME JoinInv, NEW p \in Patchers, patch[p] = "store"
    PROVE  LET new == Patched(draft[p][1], asked[p]) IN
               new \in Info /\ new.join \in ValidSettings
  <1>1. PICK row \in Info : draft[p] = <<row>>
    BY DEF JoinInv, Given, Writers
  <1>2. draft[p][1] = row /\ row.join \in ValidSettings
    BY <1>1 DEF JoinInv, Writers
  <1>3. asked[p] \in PatchStreamRequest
    BY DEF JoinInv
  <1>4. asked[p].name # <<>> => asked[p].name[1] \in Names
    BY <1>3 DEF PatchStreamRequest, Given
  <1>5. asked[p].join # <<>> => asked[p].join[1] \in ValidSettings
    BY DEF JoinInv
  <1>6. ValidSettings \subseteq JoinPolicyRequest
    BY DEF ValidSettings
  <1> QED
    BY <1>2, <1>4, <1>5, <1>6 DEF Patched, Info

LEMMA JoinNext == JoinInv /\ [SettingsNext]_settingsVars => JoinInv'
  <1> SUFFICES ASSUME JoinInv, [SettingsNext]_settingsVars PROVE JoinInv'
    OBVIOUS
  <1> USE DEF Writers
  <1>1. ASSUME UNCHANGED writeVars PROVE JoinInv'
    BY <1>1 DEF JoinInv, writeVars
  <1>2. ASSUME NEW p \in Patchers, PatchArrives(p) PROVE JoinInv'
    <2>1. CASE \E r \in PatchRequestsParsed :
                  /\ asked' = [asked EXCEPT ![p] = Config(r)]
                  /\ patch' = [patch EXCEPT ![p] = "lookup"]
                  /\ Loads(p)
      <3>1. PICK r \in PatchRequestsParsed :
                  /\ asked' = [asked EXCEPT ![p] = Config(r)]
                  /\ patch' = [patch EXCEPT ![p] = "lookup"]
                  /\ Loads(p)
        BY <2>1
      <3>2. /\ Config(r) \in PatchStreamRequest
            /\ Config(r).join # <<>> => Config(r).join[1] \in ValidSettings
        BY PatchIsValid
      <3>3. UNCHANGED <<info, end>>
        BY <1>2 DEF PatchArrives
      <3>4. <<info>> \in Given(Info) /\ <<info>> # <<>> /\ <<info>>[1] = info
        BY DEF JoinInv, Given
      <3> QED
        BY <3>1, <3>2, <3>3, <3>4 DEF JoinInv, Loads
    <2>2. CASE patch' = [patch EXCEPT ![p] = "panic"] /\ UNCHANGED <<asked, draft>>
      BY <1>2, <2>2 DEF PatchArrives, JoinInv
    <2> QED
      BY <1>2, <2>1, <2>2 DEF PatchArrives
  <1>3. ASSUME NEW p \in Patchers, PatchLooksUp(p) PROVE JoinInv'
    BY <1>3, SettingsAssumption DEF PatchLooksUp, JoinInv, GivesUp, Given
  <1>4. ASSUME NEW p \in Patchers, PatchStores(p) PROVE JoinInv'
    <2>1. /\ patch[p] = "store" /\ UNCHANGED <<asked, end>>
          /\ \/ patch' = [patch EXCEPT ![p] = "ok"] \/ patch' = [patch EXCEPT ![p] = "error"]
          /\ draft' = [draft EXCEPT ![p] = <<>>]
          /\ info' = info \/ info' = Patched(draft[p][1], asked[p])
      BY <1>4 DEF PatchStores, Stores, GivesUp
    <2>2. info' \in Info /\ info'.join \in ValidSettings
      BY <2>1, PatchedIsValid DEF JoinInv
    <2> QED
      BY <2>1, <2>2, SettingsAssumption DEF JoinInv, Given
  <1>5. ASSUME KillDeletes PROVE JoinInv'
    BY <1>5 DEF KillDeletes, JoinInv
  <1>6. ASSUME KillLoads PROVE JoinInv'
    <2>1. <<info>> \in Given(Info) /\ <<info>> # <<>> /\ <<info>>[1] = info
      BY DEF JoinInv, Given
    <2> QED
      BY <1>6, <2>1, SettingsAssumption DEF KillLoads, Loads, JoinInv
  <1>7. ASSUME KillStores PROVE JoinInv'
    <2>1. PICK row \in Info : draft["kill"] = <<row>>
      BY <1>7 DEF KillStores, JoinInv, Given
    <2>2. draft["kill"][1] = row /\ row.join \in ValidSettings
      BY <2>1 DEF JoinInv
    <2>3. LET new == [row EXCEPT !.status = "finished"] IN
              new \in Info /\ new.join \in ValidSettings
      BY <2>2 DEF Info
    <2>4. /\ info' = info \/ info' = [row EXCEPT !.status = "finished"]
          /\ draft' = [draft EXCEPT !["kill"] = <<>>]
          /\ end' = "done" /\ UNCHANGED <<patch, asked>>
      BY <1>7, <2>2 DEF KillStores, Stores, GivesUp
    <2>5. info' \in Info /\ info'.join \in ValidSettings
      BY <2>3, <2>4 DEF JoinInv
    <2> QED
      BY <2>4, <2>5, SettingsAssumption DEF JoinInv, Given
  <1>8. ASSUME (\E j \in Joiners : JoinRequested(j)) \/ ParticipantsStep \/ UNCHANGED settingsVars
        PROVE  UNCHANGED writeVars
    BY <1>8 DEF JoinRequested, ParticipantsStep, settingsVars
  <1> QED
    BY <1>1, <1>2, <1>3, <1>4, <1>5, <1>6, <1>7, <1>8 DEF SettingsNext, PatchStep

\* Whatever bodies the clients send and however their patches overlap, a stream that
\* is joined by code has a code that passed validation.
THEOREM CodeCorrect == SettingsSpec => []CodeIsSet
  <1>1. JoinInv => CodeIsSet
    BY DEF JoinInv, ValidSettings, CodeIsSet
  <1> QED
    BY JoinInit, JoinNext, <1>1, PTL DEF SettingsSpec

-----------------------------------------------------------------------------
(* The refinement.                                                         *)

LEMMA EffectiveIsSetting ==
    ASSUME NEW j \in ValidSettings
    PROVE  Effective(j) \in Settings
  BY DEF ValidSettings, JoinPolicyRequest, Effective, Settings, Bad

\* A step of the settings is a step of Participants, or touches the row only.
LEMMA SettingsStep == JoinInv /\ [SettingsNext]_settingsVars => [Next]_vars
  <1> SUFFICES ASSUME JoinInv, [SettingsNext]_settingsVars PROVE [Next]_vars
    OBVIOUS
  <1>1. ASSUME NEW j \in Joiners, JoinRequested(j) PROVE JoinArrives(j)
    <2>1. ASSUME NEW code \in Codes \cup {""}
          PROVE  [code |-> code, settings |-> Effective(info.join)] \in Requests
      BY EffectiveIsSetting DEF JoinInv, Requests
    <2> QED
      BY <1>1, <2>1 DEF JoinRequested, JoinArrives
  <1>2. ASSUME ParticipantsStep PROVE Next
    BY <1>2 DEF ParticipantsStep, Next
  <1>3. ASSUME KillDeletes PROVE StreamEnds
    BY <1>3 DEF KillDeletes
  <1>4. ASSUME \/ \E p \in Patchers : PatchArrives(p) \/ PatchStep(p)
               \/ KillLoads \/ KillStores \/ UNCHANGED settingsVars
        PROVE  UNCHANGED vars
    BY <1>4 DEF PatchArrives, PatchStep, PatchLooksUp, PatchStores, KillLoads, KillStores,
                settingsVars
  <1> QED
    BY <1>1, <1>2, <1>3, <1>4 DEF SettingsNext, Next

\* The joins of a stream whose settings are created and patched by requests do what
\* Participants says of them; what is proved there holds with the settings.
THEOREM ParticipantsImplemented == SettingsSpec => ImplementsParticipants
  <1>1. SettingsInit => Init
    BY DEF SettingsInit
  <1> QED
    BY JoinInit, JoinNext, SettingsStep, <1>1, PTL DEF SettingsSpec, ImplementsParticipants, Spec

\* So nobody joins a stream unjustified, by settings that a request has left in its row.
THEOREM AdmissionCorrectWithSettings == SettingsSpec => []AdmissionJustified
  BY ParticipantsImplemented, AdmissionCorrect DEF ImplementsParticipants

-----------------------------------------------------------------------------
(* Updates of the row.                                                     *)

\* What JoinInv does not say of the types: the histories and the end.
HistoryInv ==
    /\ created \in Info
    /\ end \in {"running", "load", "store", "done"}
    /\ stored \in Seq(Writers)
    /\ exposed \subseteq Writers

\* What makes LastWriteCounts inductive: every row a writer has decoded and not stored
\* yet is up to date as the row itself is, because whoever stores meanwhile is
\* exposed; and a writer has stored what it was asked for the first time.
UpdatesInv ==
    /\ \A f \in Fields : UpToDate(info, f)
    /\ \A w \in Writers : draft[w] # <<>> => \A f \in Fields : UpToDate(draft[w][1], f)
    /\ \A i \in DOMAIN stored : stored[i] \in Patchers => patch[stored[i]] = "ok"

LEMMA HistoryInit == SettingsInit => HistoryInv
  BY CreatedIsValid DEF SettingsInit, HistoryInv

LEMMA HistoryNext == HistoryInv /\ [SettingsNext]_settingsVars => HistoryInv'
  <1> SUFFICES ASSUME HistoryInv, [SettingsNext]_settingsVars PROVE HistoryInv'
    OBVIOUS
  <1> USE DEF HistoryInv
  <1>1. created' = created
    BY DEF SettingsNext, JoinRequested, ParticipantsStep, PatchArrives, PatchStep, PatchLooksUp,
           PatchStores, KillDeletes, KillLoads, KillStores, settingsVars
  <1>2. end' \in {end, "load", "store", "done"}
    BY DEF SettingsNext, JoinRequested, ParticipantsStep, PatchArrives, PatchStep, PatchLooksUp,
           PatchStores, KillDeletes, KillLoads, KillStores, settingsVars, writeVars
  <1>3. \/ UNCHANGED <<stored, exposed>>
        \/ \E w \in Writers : stored' = Append(stored, w) /\ exposed' \in {exposed, exposed \cup {w}}
    <2>1. ASSUME NEW p \in Patchers, PatchStores(p)
          PROVE  \/ UNCHANGED <<stored, exposed>>
                 \/ /\ stored' = Append(stored, p)
                    /\ exposed' \in {exposed, exposed \cup {p}}
      BY <2>1 DEF PatchStores, Stores, GivesUp
    <2>2. ASSUME KillStores
          PROVE  \/ UNCHANGED <<stored, exposed>>
                 \/ /\ stored' = Append(stored, "kill")
                    /\ exposed' \in {exposed, exposed \cup {"kill"}}
      BY <2>2 DEF KillStores, Stores, GivesUp
    <2>3. ASSUME \/ (\E j \in Joiners : JoinRequested(j)) \/ ParticipantsStep \/ UNCHANGED settingsVars
                 \/ (\E p \in Patchers : PatchArrives(p) \/ PatchLooksUp(p))
                 \/ KillDeletes \/ KillLoads
          PROVE  UNCHANGED <<stored, exposed>>
      BY <2>3 DEF JoinRequested, ParticipantsStep, PatchArrives, PatchLooksUp, GivesUp, KillDeletes,
         KillLoads, settingsVars, writeVars
    <2> QED
      BY <2>1, <2>2, <2>3 DEF SettingsNext, PatchStep, Writers
  <1> QED
    BY <1>1, <1>2, <1>3

\* Every variable of StreamSettings keeps its type.
THEOREM SettingsTypeCorrect == SettingsSpec => []SettingsTypeOK
  <1>1. JoinInv /\ HistoryInv => SettingsTypeOK
    BY DEF JoinInv, HistoryInv, SettingsTypeOK
  <1> QED
    BY JoinInit, JoinNext, HistoryInit, HistoryNext, <1>1, PTL DEF SettingsSpec

\* The Store of a writer: its own fields are new, the other ones are as up to date as
\* the row it has decoded, and whoever holds a row besides it has been overtaken.
LEMMA StoresUpToDate ==
    ASSUME HistoryInv, UpdatesInv, draft \in [Writers -> Given(Info)],
           NEW w \in Writers, draft[w] # <<>>, NEW new, Stores(w, new), UNCHANGED <<created, asked>>,
           \A f \in Fields : new[f] = IF Gave(w, f) THEN Value(w, f) ELSE draft[w][1][f]
    PROVE  /\ \A f \in Fields : UpToDate(info, f)'
           /\ \A v \in Writers : draft'[v] # <<>> => \A f \in Fields : UpToDate(draft[v][1], f)'
  <1>1. /\ info' = new /\ stored' = Append(stored, w) /\ exposed \subseteq exposed'
        /\ draft' = [draft EXCEPT ![w] = <<>>]
    BY DEF Stores
  <1>2. PICK n \in Nat :
          /\ DOMAIN stored = 1 .. n /\ DOMAIN stored' = 1 .. (n + 1)
          /\ stored'[n + 1] = w /\ \A i \in 1 .. n : stored'[i] = stored[i]
    <2>1. stored \in Seq(Writers)
      BY DEF HistoryInv
    <2>2. Len(stored) \in Nat /\ DOMAIN stored = 1 .. Len(stored)
      BY <2>1
    <2>3. /\ DOMAIN stored' = 1 .. (Len(stored) + 1) /\ stored'[Len(stored) + 1] = w
          /\ \A i \in 1 .. Len(stored) : stored'[i] = stored[i]
      BY <1>1, <2>1
    <2> QED
      BY <2>2, <2>3
  <1>3. \A v, f : (Gave(v, f)' <=> Gave(v, f)) /\ Value(v, f)' = Value(v, f)
    BY DEF Gave, Value
  <1>4. ASSUME NEW f \in Fields PROVE UpToDate(info, f)'
    <2>1. UpToDate(draft[w][1], f)
      BY DEF UpdatesInv
    <2>2. info'[f] = IF Gave(w, f) THEN Value(w, f) ELSE draft[w][1][f]
      BY <1>1
    <2> QED
      BY <1>1, <1>2, <1>3, <2>1, <2>2 DEF UpToDate, LastGiver
  <1>5. ASSUME NEW v \in Writers, draft'[v] # <<>>, NEW f \in Fields PROVE UpToDate(draft[v][1], f)'
    <2>1. v # w /\ draft'[v] = draft[v] /\ draft[v] # <<>>
      BY <1>1, <1>5
    <2>2. w \in exposed'
      BY <2>1 DEF Stores
    <2>3. UpToDate(draft[v][1], f)
      BY <2>1 DEF UpdatesInv
    <2> QED
      BY <1>1, <1>2, <1>3, <2>1, <2>2, <2>3 DEF UpToDate, LastGiver
  <1> QED
    BY <1>4, <1>5

\* A step without a Store: what the writers that have stored were asked for stays, and
\* a row that is decoded now is the one in the bucket.
LEMMA NoStoreUpToDate ==
    ASSUME HistoryInv, UpdatesInv, UNCHANGED <<info, created, stored, exposed>>,
           draft \in [Writers -> Given(Info)],
           \A w \in Writers : draft'[w] \in {draft[w], <<>>, <<info>>},
           \A p \in Patchers : patch[p] = "ok" => patch'[p] = "ok" /\ asked'[p] = asked[p]
    PROVE  UpdatesInv'
  <1>1. \A i \in DOMAIN stored : stored[i] \in Patchers =>
            patch'[stored[i]] = "ok" /\ asked'[stored[i]] = asked[stored[i]]
    BY DEF UpdatesInv
  <1>2. \A i \in DOMAIN stored : stored[i] \in Patchers \/ stored[i] = "kill"
    <2>1. stored \in Seq(Patchers \cup {"kill"})
      BY DEF HistoryInv, Writers
    <2> QED
      BY <2>1
  <1>3. \A i \in DOMAIN stored : \A f :
            (Gave(stored[i], f)' <=> Gave(stored[i], f)) /\ Value(stored[i], f)' = Value(stored[i], f)
    BY <1>1, <1>2 DEF Gave, Value
  <1>4. \A row, f : UpToDate(row, f) <=>
           /\ (\A i \in DOMAIN stored' : ~ Gave(stored[i], f)') => row[f] = created'[f]
           /\ \A i \in DOMAIN stored' :
                LastGiver(i, f)' /\ stored'[i] \notin exposed' => row[f] = Value(stored[i], f)'
    BY <1>3 DEF UpToDate, LastGiver
  <1>5. ASSUME NEW f \in Fields PROVE UpToDate(info, f)'
    <2>1. UpToDate(info, f)
      BY DEF UpdatesInv
    <2> QED
      BY <1>4, <2>1 DEF UpToDate
  <1>6. ASSUME NEW w \in Writers, draft'[w] # <<>>, NEW f \in Fields PROVE UpToDate(draft[w][1], f)'
    <2>1. \/ draft'[w] = draft[w] /\ draft[w] # <<>>
          \/ draft'[w] = <<info>>
      BY <1>6
    <2>2. UpToDate(draft'[w][1], f)
      BY <2>1 DEF UpdatesInv
    <2> QED
      BY <1>4, <2>2 DEF UpToDate
  <1>7. \A i \in DOMAIN stored' : stored'[i] \in Patchers => patch'[stored'[i]] = "ok"
    BY <1>1
  <1> QED
    BY <1>5, <1>6, <1>7 DEF UpdatesInv

LEMMA UpdatesInit == SettingsInit => UpdatesInv
  BY DEF SettingsInit, UpdatesInv, UpToDate

\* The new last element of the order of the Stores is the writer.
LEMMA StoredIsOk ==
    ASSUME HistoryInv, UpdatesInv, NEW w \in Writers, stored' = Append(stored, w),
           w \in Patchers => patch'[w] = "ok",
           \A p \in Patchers : patch[p] = "ok" => patch'[p] = "ok"
    PROVE  \A i \in DOMAIN stored' : stored'[i] \in Patchers => patch'[stored'[i]] = "ok"
  <1>1. stored \in Seq(Writers)
    BY DEF HistoryInv
  <1>2. \A i \in DOMAIN stored' : stored'[i] = w \/ (i \in DOMAIN stored /\ stored'[i] = stored[i])
    BY <1>1
  <1> QED
    BY <1>2 DEF UpdatesInv

LEMMA UpdatesNext ==
    JoinInv /\ HistoryInv /\ UpdatesInv /\ [SettingsNext]_settingsVars => UpdatesInv'
  <1> SUFFICES ASSUME JoinInv, HistoryInv, UpdatesInv, [SettingsNext]_settingsVars PROVE UpdatesInv'
    OBVIOUS
  <1>0. /\ draft \in [Writers -> Given(Info)] /\ asked \in [Patchers -> PatchStreamRequest]
        /\ patch \in [Patchers -> {"idle", "lookup", "store", "ok", "error", "panic"}]
    BY DEF JoinInv
  <1>1. ASSUME NEW p \in Patchers, PatchArrives(p) PROVE UpdatesInv'
    <2>1. /\ UNCHANGED <<info, created, stored, exposed>> /\ patch[p] = "idle"
          /\ \A q \in Patchers \ {p} : patch'[q] = patch[q] /\ asked'[q] = asked[q]
          /\ \A w \in Writers : draft'[w] \in {draft[w], <<info>>}
      BY <1>0, <1>1 DEF PatchArrives, Loads
    <2> QED
      BY <1>0, <2>1, NoStoreUpToDate
  <1>2. ASSUME NEW p \in Patchers, PatchLooksUp(p) PROVE UpdatesInv'
    <2>1. /\ UNCHANGED <<info, created, stored, exposed, asked>> /\ patch[p] = "lookup"
          /\ \A q \in Patchers \ {p} : patch'[q] = patch[q]
          /\ \A w \in Writers : draft'[w] \in {draft[w], <<>>}
      BY <1>0, <1>2 DEF PatchLooksUp, GivesUp
    <2> QED
      BY <1>0, <2>1, NoStoreUpToDate
  <1>3. ASSUME NEW p \in Patchers, PatchStores(p) PROVE UpdatesInv'
    <2>1. CASE GivesUp(p)
      <3>1. /\ UNCHANGED <<info, created, stored, exposed, asked>> /\ patch[p] = "store"
            /\ \A q \in Patchers \ {p} : patch'[q] = patch[q]
            /\ \A w \in Writers : draft'[w] \in {draft[w], <<>>}
        BY <1>0, <1>3, <2>1 DEF PatchStores, GivesUp
      <3> QED
        BY <1>0, <3>1, NoStoreUpToDate
    <2>2. CASE Stores(p, Patched(draft[p][1], asked[p])) /\ patch' = [patch EXCEPT ![p] = "ok"]
      <3> DEFINE new == Patched(draft[p][1], asked[p])
      <3>1. patch[p] = "store" /\ UNCHANGED <<created, asked>> /\ p \in Writers
        BY <1>3 DEF PatchStores, Writers
      <3>2. draft[p] # <<>> /\ draft[p][1] \in Info
        BY <3>1 DEF JoinInv, Given
      <3>3. ASSUME NEW f \in Fields
            PROVE  new[f] = IF Gave(p, f) THEN Value(p, f) ELSE draft[p][1][f]
        BY <3>2, SettingsAssumption DEF Fields, Gave, Value, Patched, Info
      <3>4. Stores(p, new)
        BY <2>2
      <3>5. /\ \A f \in Fields : UpToDate(info, f)'
            /\ \A v \in Writers : draft'[v] # <<>> => \A f \in Fields : UpToDate(draft[v][1], f)'
        <4> HIDE DEF new
        <4> QED
          BY <1>0, <3>1, <3>2, <3>3, <3>4, StoresUpToDate
      <3>6. \A i \in DOMAIN stored' : stored'[i] \in Patchers => patch'[stored'[i]] = "ok"
        <4>1. stored' = Append(stored, p)
          BY <2>2 DEF Stores
        <4>2. patch'[p] = "ok" /\ \A q \in Patchers : patch[q] = "ok" => patch'[q] = "ok"
          BY <1>0, <2>2
        <4> QED
          BY <3>1, <4>1, <4>2, StoredIsOk
      <3> QED
        BY <3>5, <3>6 DEF UpdatesInv
    <2> QED
      BY <1>3, <2>1, <2>2 DEF PatchStores
  <1>4. ASSUME KillLoads PROVE UpdatesInv'
    <2>1. /\ UNCHANGED <<info, created, stored, exposed, asked, patch>>
          /\ \A w \in Writers : draft'[w] \in {draft[w], <<info>>}
      BY <1>0, <1>4 DEF KillLoads, Loads
    <2> QED
      BY <1>0, <2>1, NoStoreUpToDate
  <1>5. ASSUME KillStores PROVE UpdatesInv'
    <2>1. CASE GivesUp("kill")
      <3>1. /\ UNCHANGED <<info, created, stored, exposed, asked, patch>>
            /\ \A w \in Writers : draft'[w] \in {draft[w], <<>>}
        BY <1>0, <1>5, <2>1 DEF KillStores, GivesUp
      <3> QED
        BY <1>0, <3>1, NoStoreUpToDate
    <2>2. CASE Stores("kill", [draft["kill"][1] EXCEPT !.status = "finished"])
      <3> DEFINE new == [draft["kill"][1] EXCEPT !.status = "finished"]
      <3>1. end = "store" /\ UNCHANGED <<created, asked, patch>> /\ "kill" \in Writers
        BY <1>5 DEF KillStores, Writers
      <3>2. draft["kill"] # <<>> /\ draft["kill"][1] \in Info
        BY <3>1 DEF JoinInv, Given
      <3>3. ASSUME NEW f \in Fields
            PROVE  new[f] = IF Gave("kill", f) THEN Value("kill", f) ELSE draft["kill"][1][f]
        BY <3>2 DEF Fields, Gave, Value, Info
      <3>4. Stores("kill", new)
        BY <2>2
      <3>5. /\ \A f \in Fields : UpToDate(info, f)'
            /\ \A v \in Writers : draft'[v] # <<>> => \A f \in Fields : UpToDate(draft[v][1], f)'
        <4> HIDE DEF new
        <4> QED
          BY <1>0, <3>1, <3>2, <3>3, <3>4, StoresUpToDate
      <3>6. \A i \in DOMAIN stored' : stored'[i] \in Patchers => patch'[stored'[i]] = "ok"
        <4>1. stored' = Append(stored, "kill")
          BY <2>2 DEF Stores
        <4> QED
          BY <3>1, <4>1, StoredIsOk, SettingsAssumption
      <3> QED
        BY <3>5, <3>6 DEF UpdatesInv
    <2> QED
      BY <1>5, <2>1, <2>2 DEF KillStores
  <1>6. ASSUME \/ (\E j \in Joiners : JoinRequested(j)) \/ ParticipantsStep \/ KillDeletes
               \/ UNCHANGED settingsVars
        PROVE  UpdatesInv'
    <2>1. UNCHANGED <<info, created, stored, exposed, asked, patch, draft>>
      BY <1>6 DEF JoinRequested, ParticipantsStep, KillDeletes, settingsVars, writeVars
    <2> QED
      BY <1>0, <2>1, NoStoreUpToDate
  <1> QED
    BY <1>1, <1>2, <1>3, <1>4, <1>5, <1>6 DEF SettingsNext, PatchStep

\* However patches and the end of the stream overlap, a field of the row is what the
\* last writer that set it asked for, unless it overtook a writer on an older row.
THEOREM LastWriteCorrect == SettingsSpec => []LastWriteCounts
  <1>1. UpdatesInv => LastWriteCounts
    BY DEF UpdatesInv, LastWriteCounts
  <1> QED
    BY JoinInit, JoinNext, HistoryInit, HistoryNext, UpdatesInit, UpdatesNext, <1>1, PTL
    DEF SettingsSpec
=============================================================================
