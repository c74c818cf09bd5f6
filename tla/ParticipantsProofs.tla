--------------------------- MODULE ParticipantsProofs ---------------------------
(* Theorems about Participants for every set of requests, codes and faults.     *)
EXTENDS Participants, TLAPS

\* A request that goes on to the record has been let in.
OutcomeSettled ==
    \A j \in Joiners : join[j] \in {"loading", "storing"} => outcome[j] = "joined"

TypeInv == TypeOK /\ OutcomeSettled

LEMMA TypeInit == Init => TypeInv
  <1>1. NoRequest \in Requests
    BY DEF NoRequest, Requests, Settings
  <1> QED
    BY <1>1 DEF Init, TypeInv, TypeOK, OutcomeSettled, JoinPC, Outcome

LEMMA JoinTypes ==
    ASSUME TypeInv, NEW j \in Joiners,
           JoinArrives(j) \/ JoinStep(j) \/ \E d \in Deciders : ReceiveDecision(d, j)
    PROVE  TypeInv'
  <1> USE DEF TypeInv, TypeOK, OutcomeSettled, joinVars, decideVars, listVars, announceVars,
              JoinPC, Outcome
  <1>0. ASSUME due' = StillDue PROVE due' \in [Listers -> SUBSET Joiners]
    BY <1>0 DEF StillDue
  <1>1. CASE JoinArrives(j)
    <2>1. request' \in [Joiners -> Requests]
      BY <1>1 DEF JoinArrives
    <2> QED
      BY <1>1, <2>1 DEF JoinArrives
  <1>2. CASE JoinPends(j)
    BY <1>2 DEF JoinPends
  <1>3. CASE ByPolicy(j)
    <2>1. Admit(j) \/ Refuse(j, "error")
      BY <1>3 DEF ByPolicy
    <2>2. UNCHANGED <<registered, pending, roster, request, copy, decide, decision, list,
                      result, due, rename, announcing, announced>>
      BY <1>3 DEF ByPolicy
    <2> QED
      BY <2>1, <2>2 DEF Admit, Refuse
  <1>4. CASE \E d \in Deciders : ReceiveDecision(d, j)
    <2>1. PICK d \in Deciders : ReceiveDecision(d, j)
      BY <1>4
    <2>2. Admit(j) \/ Refuse(j, "denied")
      BY <2>1 DEF ReceiveDecision
    <2> QED
      BY <2>1, <2>2 DEF ReceiveDecision, Admit, Refuse
  <1>5. CASE JoinLoads(j)
    BY <1>5 DEF JoinLoads, Refuse
  <1>6. CASE JoinStores(j)
    <2>1. announcing' \subseteq Announcements /\ roster' \subseteq Joiners
      BY <1>6 DEF JoinStores, Announcements
    <2>2. due' \in [Listers -> SUBSET Joiners]
      BY <1>0, <1>6 DEF JoinStores
    <2> QED
      BY <1>6, <2>1, <2>2 DEF JoinStores, Refuse
  <1>7. CASE JoinLeaves(j)
    <2>1. due' \in [Listers -> SUBSET Joiners]
      BY <1>0, <1>7 DEF JoinLeaves
    <2> QED
      BY <1>7, <2>1 DEF JoinLeaves
  <1> QED
    BY <1>1, <1>2, <1>3, <1>4, <1>5, <1>6, <1>7 DEF JoinStep, JoinRuns, JoinCallsBolt

LEMMA TypeNext == TypeInv /\ [Next]_vars => TypeInv'
  <1> SUFFICES ASSUME TypeInv, [Next]_vars PROVE TypeInv'
    OBVIOUS
  <1> USE DEF TypeInv, TypeOK, OutcomeSettled, joinVars, decideVars, listVars, announceVars
  <1>1. ASSUME NEW j \in Joiners,
               JoinArrives(j) \/ JoinStep(j) \/ \E d \in Deciders : ReceiveDecision(d, j)
        PROVE  TypeInv'
    BY <1>1, JoinTypes
  <1>2. ASSUME NEW j \in Joiners, NEW r \in Renamers, PatchParticipant(r, j) PROVE TypeInv'
    <2>1. announcing' \subseteq Announcements
      BY <1>2 DEF PatchParticipant, Announcements
    <2> QED
      BY <1>2, <2>1 DEF PatchParticipant
  <1>3. ASSUME NEW d \in Deciders, DecideStep(d) PROVE TypeInv'
    <2>1. decision' \in [Deciders -> Decisions \cup {NoDecision}]
      BY <1>3 DEF DecideStep, Decide, DecideLooks, Decisions
    <2> QED
      BY <1>3, <2>1 DEF DecideStep, Decide, DecideLooks
  <1>4. ASSUME NEW l \in Listers, ListStep(l) PROVE TypeInv'
    <2>1. CASE ListBegins(l)
      BY <2>1 DEF ListBegins, Visible
    <2>2. CASE ListEnds(l)
      <3>1. result' \in [Listers -> SUBSET Joiners]
        BY <2>2 DEF ListEnds
      <3> QED
        BY <2>2, <3>1 DEF ListEnds
    <2> QED
      BY <1>4, <2>1, <2>2 DEF ListStep
  <1>5. ASSUME NEW a \in Announcements, Announce(a) PROVE TypeInv'
    BY <1>5 DEF Announce
  <1>6. CASE StreamEnds
    BY <1>6 DEF StreamEnds
  <1>7. CASE UNCHANGED vars
    BY <1>7 DEF vars
  <1> QED
    BY <1>1, <1>2, <1>3, <1>4, <1>5, <1>6, <1>7 DEF Next

\* Every variable keeps its type, and no request is answered without an outcome.
THEOREM ParticipantsTypeCorrect == Spec => []TypeOK
  <1>1. TypeInv => TypeOK
    BY DEF TypeInv
  <1> QED
    BY TypeInit, TypeNext, <1>1, PTL DEF Spec

-----------------------------------------------------------------------------
(* Admissions and decisions.                                               *)

\* Requests that have been let in, by the settings they loaded or by the host.
LetIn == {j \in Joiners : join[j] \notin {"idle", "arriving", "deciding"} /\ Justified(j)}

\* Whoever is on the record, in the copy of it that a join has decoded, announced, or
\* going to be answered with a token has been let in.
OnlyLetIn ==
    /\ roster \subseteq LetIn
    /\ \A j \in Joiners : copy[j] \subseteq LetIn
    /\ \A a \in announcing \cup announced : a[2] \in LetIn
    /\ \A j \in Joiners : outcome[j] = "joined" => j \in LetIn

\* A decision that was received was the only one, and its participant is decided.
OneDecision ==
    \A d \in Deciders :
        /\ decide[d] \in {"sending", "ok"} => decision[d] \in Decisions
        /\ decide[d] = "ok" =>
               /\ join[decision[d].about] \notin {"idle", "arriving", "deciding"}
               /\ outcome[decision[d].about] \in
                      IF decision[d].allowed THEN {"joined", "error"} ELSE {"denied"}
               /\ \A e \in Deciders \ {d} :
                      decide[e] = "ok" => decision[e].about # decision[d].about

AdmitInv == TypeInv /\ OnlyLetIn /\ OneDecision

LEMMA AdmitInit == Init => AdmitInv
  BY TypeInit DEF Init, AdmitInv, OnlyLetIn, OneDecision

\* Who has been let in stays let in.
LEMMA LetInStays ==
    ASSUME AdmitInv, Next
    PROVE  LetIn \subseteq LetIn'
  <1> SUFFICES ASSUME NEW j \in LetIn PROVE j \in LetIn'
    OBVIOUS
  <1> USE DEF LetIn
  <1>1. j \in Joiners /\ join[j] \notin {"idle", "arriving", "deciding"} /\ Justified(j)
    OBVIOUS
  <1>2. request'[j] = request[j] /\ join'[j] \notin {"idle", "arriving", "deciding"}
    <2> USE DEF AdmitInv, TypeInv, TypeOK, joinVars
    <2>1. ASSUME NEW k \in Joiners, JoinArrives(k) PROVE <1>2
      BY <2>1, <1>1 DEF JoinArrives
    <2>2. ASSUME NEW k \in Joiners,
                 JoinStep(k) \/ \E d \in Deciders : ReceiveDecision(d, k)
          PROVE  <1>2
      BY <2>2, <1>1 DEF JoinStep, JoinRuns, JoinCallsBolt, JoinPends, ByPolicy, JoinLoads,
         JoinStores, JoinLeaves, ReceiveDecision, Admit, Refuse
    <2>3. ASSUME UNCHANGED <<join, request>> PROVE <1>2
      BY <2>3, <1>1
    <2> QED
      BY <2>1, <2>2, <2>3 DEF Next, StreamEnds, PatchParticipant, DecideStep, Decide, DecideLooks,
                              ListStep, ListBegins, ListEnds, Announce
  <1>3. ASSUME NEW d \in Deciders, decide[d] = "ok"
        PROVE  decide'[d] = "ok" /\ decision'[d] = decision[d]
    <2>. /\ decide \in [Deciders -> {"idle", "looking", "sending", "ok", "error"}]
         /\ decision \in [Deciders -> Decisions \cup {NoDecision}]
      BY DEF AdmitInv, TypeInv, TypeOK
    <2> USE DEF decideVars
    <2>1. ASSUME NEW e \in Deciders, DecideStep(e)
          PROVE  decide'[d] = "ok" /\ decision'[d] = decision[d]
      BY <2>1, <1>3 DEF DecideStep, Decide, DecideLooks
    <2>2. ASSUME NEW e \in Deciders, NEW k \in Joiners, ReceiveDecision(e, k)
          PROVE  decide'[d] = "ok" /\ decision'[d] = decision[d]
      BY <2>2, <1>3 DEF ReceiveDecision
    <2>3. ASSUME UNCHANGED decideVars PROVE decide'[d] = "ok" /\ decision'[d] = decision[d]
      BY <2>3, <1>3
    <2>4. ASSUME NEW k \in Joiners, JoinArrives(k) \/ JoinStep(k) PROVE UNCHANGED decideVars
      BY <2>4 DEF JoinArrives, JoinStep, JoinRuns, JoinCallsBolt, JoinPends, ByPolicy, JoinLoads,
                  JoinStores, JoinLeaves
    <2>5. ASSUME \/ StreamEnds
                 \/ \E k \in Joiners, r \in Renamers : PatchParticipant(r, k)
                 \/ \E l \in Listers : ListStep(l)
                 \/ \E a \in Announcements : Announce(a)
          PROVE  UNCHANGED decideVars
      BY <2>5 DEF StreamEnds, PatchParticipant, ListStep, ListBegins, ListEnds, Announce
    <2> QED
      BY <2>1, <2>2, <2>3, <2>4, <2>5 DEF Next
  <1> QED
    BY <1>1, <1>2, <1>3 DEF Justified

LEMMA OnlyLetInNext ==
    ASSUME AdmitInv, Next
    PROVE  OnlyLetIn'
  <1> USE DEF OnlyLetIn
  <1>1. LetIn \subseteq LetIn'
    BY LetInStays
  <1>2. TypeInv'
    BY TypeNext DEF AdmitInv
  <1> USE DEF AdmitInv
  <1>3. ASSUME UNCHANGED <<roster, copy, announceVars, outcome>> PROVE OnlyLetIn'
    BY <1>1, <1>3 DEF announceVars
  <1>4. ASSUME NEW j \in Joiners, JoinArrives(j) PROVE OnlyLetIn'
    <2>1. UNCHANGED <<roster, copy, announceVars>>
      BY <1>4 DEF JoinArrives
    <2>2. \A k \in Joiners : outcome'[k] = "joined" => outcome[k] = "joined"
      BY <1>4 DEF JoinArrives, TypeInv, TypeOK
    <2> QED
      BY <1>1, <2>1, <2>2 DEF announceVars
  <1>5. ASSUME NEW j \in Joiners, ByPolicy(j) PROVE OnlyLetIn'
    <2>1. UNCHANGED <<roster, copy, request, announceVars>>
      BY <1>5 DEF ByPolicy
    <2>2. CASE Admit(j)
      <3>1. j \in LetIn'
        BY <1>5, <2>2 DEF ByPolicy, Admit, Refuse, LetIn, Justified, TypeInv, TypeOK
      <3>2. \A k \in Joiners \ {j} : outcome'[k] = outcome[k]
        BY <2>2 DEF Admit, TypeInv, TypeOK
      <3> QED
        BY <1>1, <2>1, <3>1, <3>2 DEF announceVars
    <2>3. CASE Refuse(j, "error")
      <3>1. \A k \in Joiners : outcome'[k] = "joined" => outcome[k] = "joined"
        BY <2>3 DEF Refuse, TypeInv, TypeOK
      <3> QED
        BY <1>1, <2>1, <3>1 DEF announceVars
    <2> QED
      BY <1>5, <2>2, <2>3 DEF ByPolicy
  <1>6. ASSUME NEW j \in Joiners, NEW d \in Deciders, ReceiveDecision(d, j) PROVE OnlyLetIn'
    <2>1. UNCHANGED <<roster, copy, request, decision, announceVars>>
      BY <1>6 DEF ReceiveDecision
    <2>2. CASE decision[d].allowed
      <3>1. decision[d] = [about |-> j, allowed |-> TRUE]
        BY <1>6, <2>2 DEF ReceiveDecision, OneDecision, Decisions
      <3>2. j \in LetIn'
        <4>1. request'[j].settings.policy = "host_resolve"
          BY <1>6, <2>1 DEF ReceiveDecision
        <4>2. decide'[d] = "ok" /\ decision'[d] = [about |-> j, allowed |-> TRUE]
          BY <1>6, <2>1, <3>1 DEF ReceiveDecision, TypeInv, TypeOK
        <4>3. join'[j] = "loading"
          BY <1>6, <2>2 DEF ReceiveDecision, Admit, TypeInv, TypeOK
        <4> QED
          BY <4>1, <4>2, <4>3 DEF LetIn, Justified
      <3>3. \A k \in Joiners \ {j} : outcome'[k] = outcome[k]
        BY <1>6, <2>2 DEF ReceiveDecision, Admit, TypeInv, TypeOK
      <3> QED
        BY <1>1, <2>1, <3>2, <3>3 DEF announceVars
    <2>3. CASE ~ decision[d].allowed
      <3>1. \A k \in Joiners : outcome'[k] = "joined" => outcome[k] = "joined"
        BY <1>6, <2>3 DEF ReceiveDecision, Refuse, TypeInv, TypeOK
      <3> QED
        BY <1>1, <2>1, <3>1 DEF announceVars
    <2> QED
      BY <2>2, <2>3
  <1>7. ASSUME NEW j \in Joiners, JoinLoads(j) PROVE OnlyLetIn'
    <2>1. UNCHANGED <<roster, announceVars>>
      BY <1>7 DEF JoinLoads
    <2>2. \A k \in Joiners : copy'[k] = copy[k] \/ copy'[k] = roster
      BY <1>7 DEF JoinLoads, TypeInv, TypeOK
    <2>3. \A k \in Joiners : outcome'[k] = "joined" => outcome[k] = "joined"
      BY <1>7 DEF JoinLoads, Refuse, TypeInv, TypeOK
    <2> QED
      BY <1>1, <2>1, <2>2, <2>3 DEF announceVars
  <1>8. ASSUME NEW j \in Joiners, JoinStores(j) PROVE OnlyLetIn'
    <2>1. j \in LetIn /\ copy[j] \subseteq LetIn
      BY <1>8 DEF JoinStores, TypeInv, OutcomeSettled
    <2>2. roster' \subseteq roster \cup copy[j] \cup {j}
      BY <1>8 DEF JoinStores
    <2>3. \A a \in announcing' \cup announced' : a \in announcing \cup announced \/ a[2] = j
      BY <1>8 DEF JoinStores
    <2>4. /\ UNCHANGED copy
          /\ \A k \in Joiners : outcome'[k] = "joined" => outcome[k] = "joined"
      BY <1>8 DEF JoinStores, Refuse, TypeInv, TypeOK
    <2> QED
      BY <1>1, <2>1, <2>2, <2>3, <2>4
  <1>9. ASSUME NEW j \in Joiners, NEW r \in Renamers, PatchParticipant(r, j) PROVE OnlyLetIn'
    <2>1. UNCHANGED <<roster, copy, outcome>>
      BY <1>9 DEF PatchParticipant, joinVars
    <2>2. \A a \in announcing' \cup announced' :
              a \in announcing \cup announced \/ (a[2] = j /\ j \in roster)
      BY <1>9 DEF PatchParticipant
    <2> QED
      BY <1>1, <2>1, <2>2
  <1>10. ASSUME NEW a \in Announcements, Announce(a) PROVE OnlyLetIn'
    <2>1. UNCHANGED <<roster, copy, outcome>>
      BY <1>10 DEF Announce, joinVars
    <2>2. announcing' \cup announced' \subseteq announcing \cup announced
      BY <1>10 DEF Announce
    <2> QED
      BY <1>1, <2>1, <2>2
  <1>11. ASSUME NEW j \in Joiners, JoinPends(j) \/ JoinLeaves(j)
         PROVE  UNCHANGED <<roster, copy, announceVars, outcome>>
    BY <1>11 DEF JoinPends, JoinLeaves
  <1>12. ASSUME \/ StreamEnds
                \/ \E d \in Deciders : DecideStep(d)
                \/ \E l \in Listers : ListStep(l)
         PROVE  UNCHANGED <<roster, copy, announceVars, outcome>>
    BY <1>12 DEF StreamEnds, DecideStep, Decide, DecideLooks, ListStep, ListBegins, ListEnds,
       joinVars
  <1> QED
    BY <1>3, <1>4, <1>5, <1>6, <1>7, <1>8, <1>9, <1>10, <1>11, <1>12
       DEF Next, JoinStep, JoinRuns, JoinCallsBolt

\* A join moves on and its outcome changes once it is let in only to an error.
LEMMA JoinMoves ==
    ASSUME TypeInv, NEW j \in Joiners, JoinArrives(j) \/ JoinStep(j)
    PROVE  \E pc \in JoinPC, o \in Outcome :
              /\ join' = [join EXCEPT ![j] = pc] /\ outcome' = [outcome EXCEPT ![j] = o]
              /\ join[j] \notin {"idle", "arriving", "deciding"} =>
                     /\ pc \notin {"idle", "arriving", "deciding"}
                     /\ o = outcome[j] \/ (outcome[j] = "joined" /\ o = "error")
  <1> DEFINE
        Moves(pc, o) ==
            /\ join' = [join EXCEPT ![j] = pc] /\ outcome' = [outcome EXCEPT ![j] = o]
            /\ join[j] \notin {"idle", "arriving", "deciding"} =>
                   /\ pc \notin {"idle", "arriving", "deciding"}
                   /\ o = outcome[j] \/ (outcome[j] = "joined" /\ o = "error")
  <1>1. /\ outcome = [outcome EXCEPT ![j] = outcome[j]]
        /\ outcome[j] \in Outcome
        /\ join[j] \in {"loading", "storing"} => outcome[j] = "joined"
    BY DEF TypeInv, TypeOK, OutcomeSettled
  <1>2. CASE JoinArrives(j)
    <2>1. Moves("arriving", outcome[j]) \/ Moves("left", "error")
      BY <1>1, <1>2 DEF JoinArrives
    <2> QED
      BY <1>1, <2>1 DEF JoinPC, Outcome
  <1>3. CASE JoinPends(j) \/ JoinLeaves(j)
    <2>1. Moves("deciding", outcome[j]) \/ Moves("left", outcome[j])
      BY <1>1, <1>3 DEF JoinPends, JoinLeaves
    <2> QED
      BY <1>1, <2>1 DEF JoinPC
  <1>4. CASE ByPolicy(j)
    <2>1. Moves("loading", "joined") \/ Moves("leaving", "error")
      BY <1>4 DEF ByPolicy, Admit, Refuse
    <2> QED
      BY <2>1 DEF JoinPC, Outcome
  <1>5. CASE JoinLoads(j) \/ JoinStores(j)
    <2>1. \/ Moves("storing", outcome[j]) \/ Moves("leaving", outcome[j])
          \/ Moves("leaving", "error")
      BY <1>1, <1>5 DEF JoinLoads, JoinStores, Refuse
    <2> QED
      BY <1>1, <2>1 DEF JoinPC, Outcome
  <1> QED
    BY <1>2, <1>3, <1>4, <1>5 DEF JoinStep, JoinRuns, JoinCallsBolt

LEMMA OneDecisionNext ==
    ASSUME AdmitInv, Next
    PROVE  OneDecision'
  <1> USE DEF AdmitInv, OneDecision
  <1>1. ASSUME UNCHANGED <<join, outcome, decideVars>> PROVE OneDecision'
    BY <1>1 DEF decideVars
  <1>2. ASSUME NEW d \in Deciders, DecideStep(d) PROVE OneDecision'
    <2>1. UNCHANGED <<join, outcome>> /\ decide[d] \in {"idle", "looking"}
          /\ decide'[d] \in {"looking", "sending", "error"}
      BY <1>2 DEF DecideStep, Decide, DecideLooks, joinVars, TypeInv, TypeOK
    <2>2. \A e \in Deciders \ {d} : decide'[e] = decide[e] /\ decision'[e] = decision[e]
      BY <1>2 DEF DecideStep, Decide, DecideLooks, TypeInv, TypeOK
    <2>3. decide'[d] = "sending" => decision'[d] \in Decisions
      BY <1>2 DEF DecideStep, Decide, DecideLooks, Decisions, TypeInv, TypeOK
    <2> QED
      BY <2>1, <2>2, <2>3
  <1>3. ASSUME NEW j \in Joiners, NEW d \in Deciders, ReceiveDecision(d, j) PROVE OneDecision'
    <2>1. /\ UNCHANGED decision /\ decision[d].about = j /\ decision[d] \in Decisions
          /\ decide[d] = "sending" /\ decide'[d] = "ok" /\ join[j] = "deciding"
          /\ \A e \in Deciders \ {d} : decide'[e] = decide[e]
          /\ \A k \in Joiners \ {j} : join'[k] = join[k] /\ outcome'[k] = outcome[k]
      BY <1>3 DEF ReceiveDecision, Admit, Refuse, TypeInv, TypeOK
    <2>2. /\ join'[j] \in {"loading", "leaving"}
          /\ outcome'[j] = IF decision[d].allowed THEN "joined" ELSE "denied"
      BY <1>3 DEF ReceiveDecision, Admit, Refuse, TypeInv, TypeOK
    <2>3. \A e \in Deciders \ {d} : decide[e] = "ok" => decision[e].about \in Joiners \ {j}
      BY <2>1 DEF Decisions
    <2> QED
      BY <2>1, <2>2, <2>3
  <1>4. ASSUME NEW j \in Joiners, JoinArrives(j) \/ JoinStep(j) PROVE OneDecision'
    <2>1. UNCHANGED decideVars
      BY <1>4 DEF JoinArrives, JoinStep, JoinRuns, JoinCallsBolt, JoinPends, ByPolicy, JoinLoads,
                  JoinStores, JoinLeaves
    <2>2. \E pc \in JoinPC, o \in Outcome :
              /\ join' = [join EXCEPT ![j] = pc] /\ outcome' = [outcome EXCEPT ![j] = o]
              /\ join[j] \notin {"idle", "arriving", "deciding"} =>
                     /\ pc \notin {"idle", "arriving", "deciding"}
                     /\ o = outcome[j] \/ (outcome[j] = "joined" /\ o = "error")
      BY <1>4, JoinMoves DEF AdmitInv
    <2>3. /\ \A k \in Joiners \ {j} : join'[k] = join[k] /\ outcome'[k] = outcome[k]
          /\ join[j] \notin {"idle", "arriving", "deciding"} =>
                 /\ join'[j] \notin {"idle", "arriving", "deciding"}
                 /\ outcome'[j] = outcome[j] \/ (outcome[j] = "joined" /\ outcome'[j] = "error")
      BY <2>2 DEF TypeInv, TypeOK
    <2>4. ASSUME NEW d \in Deciders, decide[d] = "ok"
          PROVE  LET k == decision[d].about IN
                     /\ join'[k] \notin {"idle", "arriving", "deciding"}
                     /\ outcome'[k] \in IF decision[d].allowed THEN {"joined", "error"} ELSE {"denied"}
      <3>1. decision[d] \in Decisions /\ decision[d].about \in Joiners
        BY <2>4 DEF Decisions
      <3>2. CASE decision[d].about = j
        BY <2>3, <2>4, <3>2
      <3>3. CASE decision[d].about # j
        BY <2>3, <2>4, <3>1, <3>3
      <3> QED
        BY <3>2, <3>3
    <2> QED
      BY <2>1, <2>4 DEF decideVars
  <1>5. ASSUME \/ StreamEnds
               \/ \E j \in Joiners, r \in Renamers : PatchParticipant(r, j)
               \/ \E l \in Listers : ListStep(l)
               \/ \E a \in Announcements : Announce(a)
        PROVE  UNCHANGED <<join, outcome, decideVars>>
    BY <1>5 DEF StreamEnds, PatchParticipant, ListStep, ListBegins, ListEnds, Announce, joinVars
  <1> QED
    BY <1>1, <1>2, <1>3, <1>4, <1>5 DEF Next

LEMMA AdmitNext == AdmitInv /\ [Next]_vars => AdmitInv'
  <1>1. ASSUME AdmitInv, Next PROVE AdmitInv'
    BY <1>1, TypeNext, OnlyLetInNext, OneDecisionNext DEF AdmitInv
  <1>2. ASSUME AdmitInv, UNCHANGED vars PROVE AdmitInv'
    <2>1. TypeInv'
      BY <1>2, TypeNext DEF AdmitInv
    <2>2. LetIn' = LetIn
      BY <1>2 DEF LetIn, Justified, vars, joinVars, decideVars
    <2>3. OnlyLetIn'
      BY <1>2, <2>2 DEF AdmitInv, OnlyLetIn, vars, joinVars, announceVars
    <2>4. OneDecision'
      BY <1>2 DEF AdmitInv, OneDecision, vars, joinVars, decideVars
    <2> QED
      BY <2>1, <2>3, <2>4 DEF AdmitInv
  <1> QED
    BY <1>1, <1>2

\* JoinParticipant lets nobody in without the settings it has loaded or the host
\* saying so: nobody else is on the record, announced or given a token.
THEOREM AdmissionCorrect == Spec => []AdmissionJustified
  <1>1. AdmitInv => AdmissionJustified
    BY DEF AdmitInv, OnlyLetIn, LetIn, AdmissionJustified, Admitted
  <1> QED
    BY AdmitInit, AdmitNext, <1>1, PTL DEF Spec

\* A decision DecideParticipantJoin has answered with success is the one the
\* participant got, however many decisions race.
THEOREM DecisionCorrect == Spec => []DecisionCounts
  <1>1. AdmitInv => DecisionCounts
    BY DEF AdmitInv, OneDecision, DecisionCounts
  <1> QED
    BY AdmitInit, AdmitNext, <1>1, PTL DEF Spec

-----------------------------------------------------------------------------
(* Listings.                                                               *)

Over(j) == join[j] \in {"leaving", "left"}

\* A listing reads the pending map first and the record then.  Whom it owes is in one
\* of the two, and has been seen in the map by Range if it is there: a participant
\* enters the map before it enters the record, and does not come back.
ListInv ==
    /\ TypeInv
    /\ \A j \in Joiners :
          /\ j \in pending => join[j] \notin {"idle", "arriving", "left"}
          /\ j \in roster => Over(j)
          /\ \A k \in Joiners : k \in copy[j] => Over(k)
    /\ \A l \in Listers :
          /\ list[l] = "reading" => due[l] \subseteq Visible /\ due[l] \cap pending \subseteq result[l]
          /\ list[l] = "done" => due[l] \subseteq result[l]

LEMMA ListInit == Init => ListInv
  BY TypeInit DEF Init, ListInv, Over

\* What a step that takes participants out of sight leaves of the listings' duties.
LEMMA DueShrinks ==
    ASSUME TypeInv, due' = StillDue, UNCHANGED <<list, result>>, pending' \subseteq pending,
           NEW l \in Listers,
           list[l] = "reading" => due[l] \cap pending \subseteq result[l],
           list[l] = "done" => due[l] \subseteq result[l]
    PROVE  /\ list'[l] = "reading" =>
                  due'[l] \subseteq Visible' /\ due'[l] \cap pending' \subseteq result'[l]
           /\ list'[l] = "done" => due'[l] \subseteq result'[l]
  <1>1. due'[l] = IF list[l] = "reading" THEN due[l] \cap Visible' ELSE due[l]
    BY DEF StillDue
  <1> QED
    BY <1>1

LEMMA ListNext == ListInv /\ [Next]_vars => ListInv'
  <1> SUFFICES ASSUME ListInv, [Next]_vars PROVE ListInv'
    OBVIOUS
  <1>0. TypeInv'
    BY TypeNext DEF ListInv
  <1> USE DEF ListInv, Over
  <1>1. ASSUME UNCHANGED <<pending, roster, joinVars, listVars>> PROVE ListInv'
    BY <1>0, <1>1 DEF joinVars, listVars, Visible
  <1>2. ASSUME NEW j \in Joiners, JoinArrives(j) PROVE ListInv'
    <2>1. UNCHANGED <<pending, roster, copy, listVars>> /\ join[j] = "idle"
      BY <1>2 DEF JoinArrives
    <2>2. /\ join'[j] \in {"arriving", "left"}
          /\ \A k \in Joiners \ {j} : join'[k] = join[k]
      BY <1>2 DEF JoinArrives, TypeInv, TypeOK
    <2> QED
      BY <1>0, <2>1, <2>2 DEF listVars, Visible
  <1>3. ASSUME NEW j \in Joiners,
               ByPolicy(j) \/ JoinLoads(j) \/ \E d \in Deciders : ReceiveDecision(d, j)
        PROVE  ListInv'
    <2>1. UNCHANGED <<pending, roster, listVars>> /\ join[j] \in {"deciding", "loading"}
      BY <1>3 DEF ByPolicy, JoinLoads, ReceiveDecision
    <2>2. /\ join'[j] \in {"loading", "storing", "leaving"}
          /\ \A k \in Joiners \ {j} : join'[k] = join[k]
      <3>1. \E pc \in {"loading", "storing", "leaving"} : join' = [join EXCEPT ![j] = pc]
        BY <1>3 DEF ByPolicy, JoinLoads, ReceiveDecision, Admit, Refuse
      <3> QED
        BY <3>1 DEF TypeInv, TypeOK
    <2>3. \A k \in Joiners : copy'[k] = copy[k] \/ copy'[k] = roster
      <3>1. UNCHANGED copy \/ copy' = [copy EXCEPT ![j] = roster]
        BY <1>3 DEF ByPolicy, JoinLoads, ReceiveDecision
      <3> QED
        BY <3>1 DEF TypeInv, TypeOK
    <2>4. \A k \in Joiners : Over(k) => Over(k)'
      BY <2>1, <2>2
    <2> QED
      BY <1>0, <2>1, <2>2, <2>3, <2>4 DEF listVars, Visible
  <1>4. ASSUME NEW j \in Joiners, JoinPends(j) PROVE ListInv'
    <2>1. /\ UNCHANGED <<roster, copy, listVars>> /\ pending' = pending \cup {j}
          /\ join[j] = "arriving" /\ join'[j] = "deciding"
          /\ \A k \in Joiners \ {j} : join'[k] = join[k]
      BY <1>4 DEF JoinPends, TypeInv, TypeOK
    <2>2. j \notin Visible
      BY <2>1 DEF Visible
    <2> QED
      BY <1>0, <2>1, <2>2 DEF listVars, Visible
  <1>5. ASSUME NEW j \in Joiners, JoinStores(j) PROVE ListInv'
    <2>1. /\ UNCHANGED <<pending, copy>> /\ join[j] = "storing" /\ join'[j] = "leaving"
          /\ \A k \in Joiners \ {j} : join'[k] = join[k]
      BY <1>5 DEF JoinStores, Refuse, TypeInv, TypeOK
    <2>2. roster' = copy[j] \cup {j} \/ roster' = roster
      BY <1>5 DEF JoinStores
    <2>3. \A k \in Joiners : k \in roster' => Over(k)'
      BY <2>1, <2>2
    <2>4. due' = StillDue /\ UNCHANGED <<list, result>>
      BY <1>5 DEF JoinStores
    <2> QED
      BY <1>0, <2>1, <2>3, <2>4, DueShrinks
  <1>6. ASSUME NEW j \in Joiners, JoinLeaves(j) PROVE ListInv'
    <2>1. /\ UNCHANGED <<roster, copy>> /\ pending' = pending \ {j}
          /\ join[j] = "leaving" /\ join'[j] = "left"
          /\ \A k \in Joiners \ {j} : join'[k] = join[k]
      BY <1>6 DEF JoinLeaves, TypeInv, TypeOK
    <2>2. due' = StillDue /\ UNCHANGED <<list, result>>
      BY <1>6 DEF JoinLeaves
    <2> QED
      BY <1>0, <2>1, <2>2, DueShrinks
  <1>7. ASSUME NEW l \in Listers, ListBegins(l) PROVE ListInv'
    <2>1. UNCHANGED <<pending, roster, joinVars>> /\ list[l] = "idle"
      BY <1>7 DEF ListBegins
    <2>2. \A m \in Listers \ {l} :
              list'[m] = list[m] /\ result'[m] = result[m] /\ due'[m] = due[m]
      BY <1>7 DEF ListBegins, TypeInv, TypeOK
    <2>3. /\ list'[l] \in {"reading", "error"}
          /\ list'[l] = "reading" => result'[l] = pending /\ due'[l] = Visible
      BY <1>7 DEF ListBegins, TypeInv, TypeOK
    <2> QED
      BY <1>0, <2>1, <2>2, <2>3 DEF joinVars, Visible
  <1>8. ASSUME NEW l \in Listers, ListEnds(l) PROVE ListInv'
    <2>1. UNCHANGED <<pending, roster, joinVars, due>> /\ list[l] = "reading"
      BY <1>8 DEF ListEnds
    <2>2. \A m \in Listers \ {l} : list'[m] = list[m] /\ result'[m] = result[m]
      BY <1>8 DEF ListEnds, TypeInv, TypeOK
    <2>3. \/ list'[l] = "error"
          \/ list'[l] = "done" /\ (result[l] \cap pending) \cup roster \subseteq result'[l]
      BY <1>8 DEF ListEnds, TypeInv, TypeOK
    <2> QED
      BY <1>0, <2>1, <2>2, <2>3 DEF joinVars, Visible
  <1>9. ASSUME \/ StreamEnds
               \/ \E j \in Joiners, r \in Renamers : PatchParticipant(r, j)
               \/ \E d \in Deciders : DecideStep(d)
               \/ \E a \in Announcements : Announce(a)
               \/ UNCHANGED vars
        PROVE  UNCHANGED <<pending, roster, joinVars, listVars>>
    BY <1>9 DEF StreamEnds, PatchParticipant, DecideStep, Decide, DecideLooks, Announce, vars
  <1> QED
    BY <1>1, <1>2, <1>3, <1>4, <1>5, <1>6, <1>7, <1>8, <1>9
       DEF Next, JoinStep, JoinRuns, JoinCallsBolt, ListStep

\* StreamParticipants shows everybody who was waiting or on the record at every moment
\* while it read the one and the other, also next to others who have long been recorded.
THEOREM ListingCorrect == Spec => []ListingComplete
  <1>1. ListInv => ListingComplete
    BY DEF ListInv, ListingComplete
  <1> QED
    BY ListInit, ListNext, <1>1, PTL DEF Spec

=============================================================================
