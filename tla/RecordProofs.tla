----------------------------- MODULE RecordProofs -----------------------------
(***************************************************************************)
(* Proofs about parts that MCRecords composes: Teams, for any users, teams *)
(* and requests; TeamSecrets, for any files, names and PUTs; LaunchRequest,*)
(* for any launches and any writes that fail; SshKeys, for any calls;      *)
(* TeamProviders, for any providers, names and requests; and JobCache, for *)
(* any number of requests and writes.                                      *)
(***************************************************************************)
EXTENDS Teams, TeamSecrets, SshKeys, TeamProviders, LaunchRequest, JobCache, TLAPS

\* Team t has a member, or has lost its last one.
HadMembers(t) == Members(t) # {} \/ t \in emptied

\* An invitation or a request is about team t.
Touched(t) ==
    \/ \E i \in Invites : inv[i].status # "free" /\ inv[i].team = t
    \/ \E r \in TeamRequests : /\ ask[r] # NoRequest /\ ask[r].team = t
                               /\ ask[r].op \notin {"create", "home", "own"}

TouchedHadMembers == \A t \in TeamIds : Touched(t) => HadMembers(t)

\* The write of request q leaves an owner, or nobody.
KeepsOwner(q) ==
    /\ q.op = "leave" =>
          \/ \E u \in Users \ {q.by} : role[q.team][u] = "owner"
          \/ q.whom \in Members(q.team) \ {q.by}
          \/ Members(q.team) \subseteq {q.by}
    /\ q.op \in {"remove", "setRole"} /\ q.as # "owner" =>
          \E u \in Users \ {q.whom} : role[q.team][u] = "owner"

ChecksHold ==
    \A r \in TeamRequests :
        ask[r] # NoRequest /\ ask[r].team \notin crossed \cup emptied => KeepsOwner(ask[r])

TeamsIInv == TeamsTypeOK /\ HasOwner /\ TouchedHadMembers /\ ChecksHold

LEMMA InitTeams == TeamsInit => TeamsIInv
  <1> SUFFICES ASSUME TeamsInit PROVE TeamsIInv
    OBVIOUS
  <1>1. TeamsTypeOK
    <2>1. name \in [TeamIds -> Users \cup {"none", "plain"}]
      BY DEF TeamsInit
    <2>2. role \in [TeamIds -> [Users -> Roles \cup {"none"}]]
      <3>1. CASE role = [t \in TeamIds |-> [u \in Users |-> "none"]]
        BY <3>1
      <3>2. ASSUME NEW u \in Users, NEW t \in TeamIds,
                   NEW rs \in [Users \ {u} -> Roles \cup {"none"}],
                   role = [x \in TeamIds |-> [v \in Users |->
                              IF x # t THEN "none" ELSE IF v = u THEN "owner" ELSE rs[v]]]
            PROVE  role \in [TeamIds -> [Users -> Roles \cup {"none"}]]
        <4>1. \A x \in TeamIds, v \in Users :
                 (IF x # t THEN "none" ELSE IF v = u THEN "owner" ELSE rs[v])
                     \in Roles \cup {"none"}
          BY DEF Roles
        <4> QED  BY <3>2, <4>1
      <3> QED
        <4>1. \/ role = [t \in TeamIds |-> [u \in Users |-> "none"]]
              \/ \E u \in Users, t \in TeamIds : \E rs \in [Users \ {u} -> Roles \cup {"none"}] :
                    role = [x \in TeamIds |-> [v \in Users |->
                              IF x # t THEN "none" ELSE IF v = u THEN "owner" ELSE rs[v]]]
          BY Zenon DEF TeamsInit
        <4> QED  BY <3>1, <3>2, <4>1, Zenon
    <2>3. inv \in [Invites -> Invitations] /\ \A i \in Invites : inv[i].status = "free"
      BY DEF TeamsInit, Invitations, InvitationStatus, Open, Roles
    <2>4. made \in 0..MaxRequests /\ aged \in 0..MaxAged
      BY TeamsAssumption DEF TeamsInit
    <2> QED  BY <2>1, <2>2, <2>3, <2>4 DEF TeamsInit, TeamsTypeOK
  <1>2. HasOwner
    <2>1. CASE role = [t \in TeamIds |-> [u \in Users |-> "none"]]
      BY <2>1 DEF HasOwner, Members
    <2>2. ASSUME NEW u \in Users, NEW t \in TeamIds,
                 NEW rs \in [Users \ {u} -> Roles \cup {"none"}],
                 role = [x \in TeamIds |-> [v \in Users |->
                            IF x # t THEN "none" ELSE IF v = u THEN "owner" ELSE rs[v]]]
          PROVE  HasOwner
      <3>1. role[t][u] = "owner" /\ \A x \in TeamIds \ {t}, v \in Users : role[x][v] = "none"
        BY <2>2
      <3> QED  BY <3>1 DEF HasOwner, Members, Owners
    <2> QED
      <3>1. \/ role = [t \in TeamIds |-> [u \in Users |-> "none"]]
            \/ \E u \in Users, t \in TeamIds : \E rs \in [Users \ {u} -> Roles \cup {"none"}] :
                  role = [x \in TeamIds |-> [v \in Users |->
                            IF x # t THEN "none" ELSE IF v = u THEN "owner" ELSE rs[v]]]
        BY Zenon DEF TeamsInit
      <3> QED  BY <2>1, <2>2, <3>1, Zenon
  <1>3. TouchedHadMembers
    BY DEF TeamsInit, TouchedHadMembers, Touched
  <1>4. ChecksHold
    BY DEF TeamsInit, ChecksHold
  <1> QED  BY <1>1, <1>2, <1>3, <1>4 DEF TeamsIInv

-----------------------------------------------------------------------------
(* Types. *)

\* What a request that is under way says; the invitation it names is in use.
AskedShape(q) ==
    /\ q \in Asked
    /\ q.op \in {"remove", "setRole"} => q.as \in Roles \cup {"none"}
    /\ q.op \in {"join", "invite"} => q.as \in Roles
    /\ q.op = "invite" => q.whom \in Users
    /\ q.op = "settle" => q.as \in Outcomes
    /\ q.op \in {"join", "mail", "settle"} => q.inv \in Invites

AskedOK(q) ==
    AskedShape(q) /\ (q.op \in {"join", "mail", "settle"} => inv[q.inv].status # "free")

LEMMA AskedIsOK ==
    ASSUME TeamsTypeOK, NEW r \in TeamRequests, ask[r] # NoRequest
    PROVE  AskedOK(ask[r])
  BY DEF TeamsTypeOK, AskedOK, AskedShape

\* Invitations stay used, and each request that is there after the step is OK.
LEMMA TypesKept ==
    ASSUME TeamsTypeOK,
           name' \in [TeamIds -> Users \cup {"none", "plain"}],
           role' \in [TeamIds -> [Users -> Roles \cup {"none"}]],
           inv' \in [Invites -> Invitations],
           \A i \in Invites :
              inv'[i].status # "free" => inv'[i].team \in TeamIds /\ inv'[i].to \in Users,
           \A i \in Invites : inv[i].status # "free" => inv'[i].status # "free",
           NEW r \in TeamRequests, NEW q,
           ask' = [ask EXCEPT ![r] = q] \/ ask' = ask,
           \/ q = NoRequest
           \/ AskedShape(q) /\ (q.op \in {"join", "mail", "settle"} => inv'[q.inv].status # "free"),
           made' \in 0..MaxRequests, aged' \in 0..MaxAged,
           crossed' \subseteq TeamIds, emptied' \subseteq TeamIds
    PROVE  TeamsTypeOK'
  <1>1. ask' \in [TeamRequests -> Asked \cup {NoRequest}]
    BY DEF TeamsTypeOK, AskedShape
  <1>2. ASSUME NEW s \in TeamRequests, ask'[s] # NoRequest 
        PROVE  /\ AskedShape(ask'[s])
               /\ ask'[s].op \in {"join", "mail", "settle"} => inv'[ask'[s].inv].status # "free"
    BY <1>2, AskedIsOK DEF TeamsTypeOK, AskedOK, AskedShape
  <1> QED  BY <1>1, <1>2 DEF TeamsTypeOK, AskedShape

LEMMA BeginTypes ==
    ASSUME TeamsTypeOK, NEW r \in TeamRequests, NEW q, AskedOK(q), Begin(r, q)
    PROVE  TeamsTypeOK'
  <1>1. made' \in 0..MaxRequests
    BY TeamsAssumption DEF Begin, TeamsTypeOK
  <1>2. AskedShape(q) /\ (q.op \in {"join", "mail", "settle"} => inv'[q.inv].status # "free")
    BY DEF AskedOK, Begin, teamRows
  <1> QED  BY <1>1, <1>2, TypesKept DEF Begin, TeamsTypeOK, teamRows, teamHist

-----------------------------------------------------------------------------
(* Requests begin. *)

\* A request that is typed, is about a team that had members, and has checked
\* that its team keeps an owner.
LEMMA BeginKeeps ==
    ASSUME TeamsIInv, NEW r \in TeamRequests, NEW q, AskedOK(q), Begin(r, q),
           q.op \in {"create", "home", "own"} \/ HadMembers(q.team),
           KeepsOwner(q) \/ q.team \in crossed \cup emptied
    PROVE  TeamsIInv'
  <1> USE DEF TeamsIInv
  <1>1. TeamsTypeOK'
    BY BeginTypes
  <1>2. role' = role /\ inv' = inv /\ crossed' = crossed /\ emptied' = emptied
    BY DEF Begin, teamRows, teamHist
  <1>3. HasOwner'
    BY <1>2 DEF HasOwner, Members, Owners
  <1>4. \A s \in TeamRequests : ask'[s] = ask[s] \/ ask'[s] = q
    BY DEF Begin, TeamsTypeOK
  <1>5. TouchedHadMembers'
    <2> SUFFICES ASSUME NEW t \in TeamIds, Touched(t)' PROVE HadMembers(t)'
      BY DEF TouchedHadMembers
    <2>1. Touched(t) \/ HadMembers(t)
      BY <1>2, <1>4 DEF Touched
    <2>2. HadMembers(t)
      BY <2>1 DEF TouchedHadMembers
    <2> QED  BY <1>2, <2>2 DEF HadMembers, Members
  <1>6. ChecksHold'
    <2> SUFFICES ASSUME NEW s \in TeamRequests, ask'[s] # NoRequest,
                        ask'[s].team \notin crossed \cup emptied
                 PROVE  KeepsOwner(ask[s])'
      BY <1>2 DEF ChecksHold
    <2>1. KeepsOwner(ask'[s])
      BY <1>4 DEF ChecksHold
    <2> QED  BY <1>2, <2>1 DEF KeepsOwner, Members
  <1> QED  BY <1>1, <1>3, <1>5, <1>6

\* The fields of a request.
LEMMA FieldsOf ==
    ASSUME NEW op, NEW u, NEW t, NEW v, NEW a, NEW i, NEW q, q = TeamRequest(op, u, t, v, a, i)
    PROVE  /\ q.op = op /\ q.by = u /\ q.team = t
           /\ q.whom = v /\ q.as = a /\ q.inv = i
  BY DEF TeamRequest

LEMMA AskLeaveKeeps ==
    ASSUME TeamsIInv, NEW r \in TeamRequests, NEW u \in Users, NEW t \in TeamIds,
           AskLeave(r, u, t)
    PROVE  TeamsIInv'
  <1> USE DEF TeamsIInv
  <1>1. PICK heir \in IF Owners(t) = {u} /\ Members(t) # {u} THEN Members(t) \ {u}
                      ELSE {Nobody} :
           Begin(r, TeamRequest("leave", u, t, heir, "owner", Nobody))
    BY DEF AskLeave
  <1> DEFINE q == TeamRequest("leave", u, t, heir, "owner", Nobody)
  <1>2. AskedOK(q)
    <2>1. heir \in Users \cup {Nobody}
      BY <1>1 DEF Members
    <2> QED  BY <2>1 DEF AskedOK, AskedShape, Asked, TeamRequest, TakesRole, Roles, Outcomes
  <1>3. u \in Members(t) /\ HadMembers(t)
    BY DEF AskLeave, HadMembers, Members
  <1>4. KeepsOwner(q) \/ t \in crossed \cup emptied
    <2>1. CASE Owners(t) = {u} /\ Members(t) # {u}
      BY <1>1, <2>1, FieldsOf DEF KeepsOwner
    <2>2. CASE Owners(t) = {u} /\ Members(t) = {u}
      BY <2>2, FieldsOf DEF KeepsOwner
    <2>3. CASE Owners(t) # {u} /\ Owners(t) # {}
      <3>1. PICK o \in Users \ {u} : role[t][o] = "owner"
        BY <2>3 DEF Owners
      <3> QED  BY <3>1, FieldsOf DEF KeepsOwner
    <2>4. CASE Owners(t) = {}
      BY <1>3, <2>4 DEF HasOwner
    <2> QED  BY <2>1, <2>2, <2>3, <2>4
  <1> QED  BY <1>1, <1>2, <1>3, <1>4, BeginKeeps, FieldsOf

\* A user other than v owns t.
LEMMA AnotherOwner ==
    ASSUME NEW t \in TeamIds, NEW u \in Users, NEW v \in Users,
           role[t][u] = "owner", Owners(t) # {v}
    PROVE  \E o \in Users \ {v} : role[t][o] = "owner"
  BY DEF Owners

LEMMA AskOfOwnerKeeps ==
    ASSUME TeamsIInv, NEW r \in TeamRequests, NEW u \in Users, NEW t \in TeamIds,
           \/ AskDelete(r, u, t)
           \/ \E v \in Users : \/ AskRemove(r, u, t, v)
                               \/ \E a \in Roles : AskSetRole(r, u, t, v, a) \/ AskInvite(r, u, t, v, a)
    PROVE  TeamsIInv'
  <1>1. HadMembers(t)
    BY DEF AskDelete, AskRemove, AskSetRole, AskInvite, HadMembers, Members
  <1>2. CASE AskDelete(r, u, t)
    <2> DEFINE q == TeamRequest("delete", u, t, Nobody, "none", Nobody)
    <2>1. AskedOK(q)
      BY DEF AskedOK, AskedShape, Asked, TeamRequest, TakesRole, Roles, Outcomes
    <2>2. KeepsOwner(q)
      BY FieldsOf DEF KeepsOwner
    <2> QED  BY <1>1, <1>2, <2>1, <2>2, BeginKeeps, FieldsOf DEF AskDelete
  <1>3. ASSUME NEW v \in Users, AskRemove(r, u, t, v) PROVE TeamsIInv'
    <2> DEFINE q == TeamRequest("remove", u, t, v, "none", Nobody)
    <2>1. AskedOK(q)
      BY DEF AskedOK, AskedShape, Asked, TeamRequest, TakesRole, Roles, Outcomes
    <2>2. KeepsOwner(q)
      BY <1>3, AnotherOwner, FieldsOf DEF KeepsOwner, AskRemove
    <2> QED  BY <1>1, <1>3, <2>1, <2>2, BeginKeeps, FieldsOf DEF AskRemove
  <1>4. ASSUME NEW v \in Users, NEW a \in Roles, AskSetRole(r, u, t, v, a) PROVE TeamsIInv'
    <2> DEFINE q == TeamRequest("setRole", u, t, v, a, Nobody)
    <2>1. AskedOK(q)
      BY DEF AskedOK, AskedShape, Asked, TeamRequest, TakesRole, Roles, Outcomes
    <2>2. KeepsOwner(q)
      BY <1>4, AnotherOwner, FieldsOf DEF KeepsOwner, AskSetRole, Roles
    <2> QED  BY <1>1, <1>4, <2>1, <2>2, BeginKeeps, FieldsOf DEF AskSetRole
  <1>5. ASSUME NEW v \in Users, NEW a \in Roles, AskInvite(r, u, t, v, a) PROVE TeamsIInv'
    <2> DEFINE q == TeamRequest("invite", u, t, v, a, Nobody)
    <2>1. AskedOK(q)
      BY DEF AskedOK, AskedShape, Asked, TeamRequest, TakesRole, Roles, Outcomes
    <2>2. KeepsOwner(q)
      BY FieldsOf DEF KeepsOwner
    <2> QED  BY <1>1, <1>5, <2>1, <2>2, BeginKeeps, FieldsOf DEF AskInvite
  <1> QED  BY <1>2, <1>3, <1>4, <1>5

LEMMA AskOfUserKeeps ==
    ASSUME TeamsIInv, NEW r \in TeamRequests, NEW u \in Users,
           AskCreate(r, u) \/ AskHome(r, u)
    PROVE  TeamsIInv'
  <1>1. PICK op \in {"create", "home"}, t \in TeamIds :
           Begin(r, TeamRequest(op, u, t, Nobody, "owner", Nobody))
    BY DEF AskCreate, AskHome
  <1> DEFINE q == TeamRequest(op, u, t, Nobody, "owner", Nobody)
  <1>2. AskedOK(q)
    BY DEF AskedOK, AskedShape, Asked, TeamRequest, TakesRole, Roles, Outcomes
  <1>3. KeepsOwner(q)
    BY FieldsOf DEF KeepsOwner
  <1> QED  BY <1>1, <1>2, <1>3, BeginKeeps, FieldsOf

LEMMA AskOfInvitedKeeps ==
    ASSUME TeamsIInv, NEW r \in TeamRequests, NEW i \in Invites,
           AskAccept(r, i) \/ AskSettle(r, i)
    PROVE  TeamsIInv'
  <1> USE DEF TeamsIInv
  <1>1. inv[i].status # "free" /\ inv[i].team \in TeamIds /\ inv[i].to \in Users
    BY DEF AskAccept, AskSettle, Open, TeamsTypeOK
  <1>2. HadMembers(inv[i].team)
    BY <1>1 DEF TouchedHadMembers, Touched
  <1>3. inv[i].role \in Roles
    BY DEF TeamsTypeOK, Invitations
  <1>4. PICK op \in {"join", "settle"}, u \in Users, v \in Users, a \in Roles \cup Outcomes :
           /\ op = "join" => a \in Roles
           /\ op = "settle" => a \in Outcomes
           /\ Begin(r, TeamRequest(op, u, inv[i].team, v, a, i))
    <2>1. CASE AskAccept(r, i)
      BY <1>1, <1>3, <2>1 DEF AskAccept
    <2>2. CASE AskSettle(r, i)
      BY <1>1, <2>2 DEF AskSettle, Outcomes
    <2> QED  BY <2>1, <2>2
  <1> DEFINE q == TeamRequest(op, u, inv[i].team, v, a, i)
  <1>5. AskedOK(q)
    BY <1>1, <1>4 DEF AskedOK, AskedShape, Asked, TeamRequest, TakesRole, Outcomes
  <1>6. KeepsOwner(q)
    BY FieldsOf DEF KeepsOwner
  <1> QED  BY <1>2, <1>4, <1>5, <1>6, BeginKeeps, FieldsOf

LEMMA AsksKeep ==
    ASSUME TeamsIInv, NEW r \in TeamRequests, Asks(r)
    PROVE  TeamsIInv'
  BY AskLeaveKeeps, AskOfOwnerKeeps, AskOfUserKeeps, AskOfInvitedKeeps DEF Asks

-----------------------------------------------------------------------------
(* Writes. *)

\* What is left of a request when it is done, or goes on to another step.
LEMMA AskAfter ==
    ASSUME TeamsTypeOK, NEW r \in TeamRequests, ask[r] # NoRequest
    PROVE  /\ Done(r) => \A s \in TeamRequests : ask'[s] = IF s = r THEN NoRequest ELSE ask[s]
           /\ \A op : Then(r, op) =>
                 \A s \in TeamRequests : ask'[s] = IF s = r THEN [ask[r] EXCEPT !.op = op] ELSE ask[s]
  BY DEF Done, Then, TeamsTypeOK

\* A step that writes no role.  The invitations it opens are to teams that had
\* members, and what it leaves of a request has no role to take away.
LEMMA QuietKeeps ==
    ASSUME TeamsIInv, TeamsTypeOK', role' = role, crossed' = crossed, emptied' = emptied,
           \A i \in Invites :
              inv'[i].status # "free" =>
                 \/ inv[i].status # "free" /\ inv'[i].team = inv[i].team
                 \/ HadMembers(inv'[i].team),
           \A r \in TeamRequests :
              \/ ask'[r] = ask[r] \/ ask'[r] = NoRequest
              \/ /\ ask'[r].op \notin TakesRole
                 /\ ask'[r].op \in {"create", "home", "own"} \/ HadMembers(ask'[r].team)
    PROVE  TeamsIInv'
  <1> USE DEF TeamsIInv
  <1>1. HasOwner'
    BY DEF HasOwner, Members, Owners
  <1>2. TouchedHadMembers'
    <2> SUFFICES ASSUME NEW t \in TeamIds, Touched(t)' PROVE HadMembers(t)'
      BY DEF TouchedHadMembers
    <2>1. Touched(t) \/ HadMembers(t)
      BY DEF Touched
    <2>2. HadMembers(t)
      BY <2>1 DEF TouchedHadMembers
    <2> QED  BY <2>2 DEF HadMembers, Members
  <1>3. ChecksHold'
    <2> SUFFICES ASSUME NEW s \in TeamRequests, ask'[s] # NoRequest,
                        ask'[s].team \notin crossed \cup emptied
                 PROVE  KeepsOwner(ask[s])'
      BY DEF ChecksHold
    <2>1. KeepsOwner(ask'[s])
      BY DEF ChecksHold, KeepsOwner, TakesRole
    <2> QED  BY <2>1 DEF KeepsOwner, Members
  <1> QED  BY <1>1, <1>2, <1>3

\* The roles of team t become rs: it keeps an owner, or has nobody left, or is one
\* of the two exceptions; and no request that takes a role away is left out.
LEMMA RewriteKeeps ==
    ASSUME TeamsIInv, TeamsTypeOK', NEW r \in TeamRequests, NEW t \in TeamIds,
           NEW rs \in [Users -> Roles \cup {"none"}], Rewrite(t, rs),
           crossed \subseteq crossed',
           \A i \in Invites :
              inv'[i].status # "free" =>
                 inv[i].status # "free" /\ inv'[i].team = inv[i].team,
           \A s \in TeamRequests \ {r} : ask'[s] = ask[s],
           \/ ask'[r] = NoRequest
           \/ /\ ask'[r].op \notin TakesRole
              /\ HadMembers(ask'[r].team),
           \/ \E u \in Users : rs[u] = "owner"
           \/ \A u \in Users : rs[u] = "none"
           \/ t \in crossed' \cup emptied',
           \/ \A s \in TeamRequests \ {r} :
                 ask[s] # NoRequest /\ ask[s].team = t => ask[s].op \notin TakesRole
           \/ t \in crossed' \cup emptied'
           \/ \A s \in TeamRequests \ {r} :
                 ask[s] # NoRequest /\ ask[s].team = t /\ KeepsOwner(ask[s]) => KeepsOwner(ask[s])'
    PROVE  TeamsIInv'
  <1> USE DEF TeamsIInv
  <1>1. /\ \A x \in TeamIds \ {t}, u \in Users : role'[x][u] = role[x][u]
        /\ \A u \in Users : role'[t][u] = rs[u]
        /\ emptied \subseteq emptied'
        /\ Members(t) # {} /\ (\A u \in Users : rs[u] = "none") => t \in emptied'
    BY DEF Rewrite, TeamsTypeOK
  <1>2. HasOwner'
    <2> SUFFICES ASSUME NEW x \in TeamIds, Members(x)' # {}, Owners(x)' = {}
                 PROVE  x \in crossed' \cup emptied'
      BY DEF HasOwner
    <2>1. CASE x = t
      BY <1>1, <2>1 DEF Members, Owners
    <2>2. CASE x # t
      <3>1. Members(x) # {} /\ Owners(x) = {}
        BY <1>1, <2>2 DEF Members, Owners
      <3> QED  BY <1>1, <3>1 DEF HasOwner
    <2> QED  BY <2>1, <2>2
  <1>3. ASSUME NEW x \in TeamIds, HadMembers(x) PROVE HadMembers(x)'
    <2>1. CASE x = t
      BY <1>1, <1>3, <2>1 DEF HadMembers, Members
    <2>2. CASE x # t
      BY <1>1, <1>3, <2>2 DEF HadMembers, Members
    <2> QED  BY <2>1, <2>2
  <1>4. TouchedHadMembers'
    <2> SUFFICES ASSUME NEW x \in TeamIds, Touched(x)' PROVE HadMembers(x)'
      BY DEF TouchedHadMembers
    <2>1. Touched(x) \/ HadMembers(x)
      BY DEF Touched
    <2>2. HadMembers(x)
      BY <2>1 DEF TouchedHadMembers
    <2> QED  BY <1>3, <2>2
  <1>5. ChecksHold'
    <2> SUFFICES ASSUME NEW s \in TeamRequests, ask'[s] # NoRequest,
                        ask'[s].team \notin crossed' \cup emptied'
                 PROVE  KeepsOwner(ask[s])'
      BY DEF ChecksHold
    <2>1. CASE s = r
      BY <2>1 DEF KeepsOwner, TakesRole
    <2>2. CASE s # r
      <3>1. ask'[s] = ask[s] /\ KeepsOwner(ask[s]) /\ ask[s].team \in TeamIds
        BY <1>1, <2>2, AskedIsOK DEF ChecksHold, AskedOK, AskedShape, Asked
      <3>2. CASE ask[s].team # t
        <4> DEFINE q == ask[s]
        <4>1. /\ \A u \in Users : role'[q.team][u] = role[q.team][u]
              /\ Members(q.team)' = Members(q.team)
          BY <1>1, <3>1, <3>2 DEF Members
        <4>2. KeepsOwner(q) /\ q' = q
          BY <3>1
        <4>3. KeepsOwner(q)'
          <5> HIDE DEF q
          <5> QED  BY <4>1, <4>2 DEF KeepsOwner
        <4> QED  BY <4>3
      <3>3. CASE ask[s].team = t
        BY <2>2, <3>1, <3>3 DEF KeepsOwner, TakesRole
      <3> QED  BY <3>2, <3>3
    <2> QED  BY <2>1, <2>2
  <1> QED  BY <1>2, <1>4, <1>5

LEMMA CrossingFlags ==
    ASSUME NEW r \in TeamRequests, NEW t \in TeamIds, Crossing(r, t)
    PROVE  /\ crossed \subseteq crossed' /\ crossed' \subseteq crossed \cup {t}
           /\ \/ t \in crossed'
              \/ \A s \in TeamRequests \ {r} :
                    ask[s] # NoRequest /\ ask[s].team = t => ask[s].op \notin TakesRole
  BY DEF Crossing

LEMMA RewriteTypes ==
    ASSUME TeamsTypeOK, NEW t \in TeamIds, NEW rs \in [Users -> Roles \cup {"none"}],
           Rewrite(t, rs)
    PROVE  role' \in [TeamIds -> [Users -> Roles \cup {"none"}]] /\ emptied' \subseteq TeamIds
  BY DEF Rewrite, TeamsTypeOK

LEMMA UpdatedRoles ==
    ASSUME NEW rs \in [Users -> Roles \cup {"none"}], NEW v, NEW a \in Roles \cup {"none"}
    PROVE  /\ Updated(rs, v, a) \in [Users -> Roles \cup {"none"}]
           /\ \A u \in Users : u # v => Updated(rs, v, a)[u] = rs[u]
           /\ v \in Users /\ rs[v] # "none" => Updated(rs, v, a)[v] = a
           /\ v \in Users /\ rs[v] = "none" => Updated(rs, v, a)[v] = "none"
  BY DEF Updated

LEMMA WriteLeaveKeeps ==
    ASSUME TeamsIInv, NEW r \in TeamRequests, WriteLeave(r)
    PROVE  TeamsIInv'
  <1> USE DEF TeamsIInv
  <1> DEFINE q == ask[r]
             t == q.team
             rs == [Updated(role[t], q.whom, "owner") EXCEPT ![q.by] = "none"]
  <1>1. AskedOK(q) /\ t \in TeamIds /\ q.by \in Users /\ q # NoRequest /\ q.op = "leave"
    BY AskedIsOK DEF WriteLeave, AskedOK, AskedShape, Asked
  <1>2. role[t] \in [Users -> Roles \cup {"none"}] /\ "owner" \in Roles
    BY <1>1 DEF TeamsTypeOK, Roles
  <1>3. /\ rs \in [Users -> Roles \cup {"none"}]
        /\ rs[q.by] = "none"
        /\ \A u \in Users \ {q.by} : rs[u] = Updated(role[t], q.whom, "owner")[u]
    BY <1>1, <1>2, UpdatedRoles
  <1>4. /\ Rewrite(t, rs) /\ Crossing(r, t) /\ inv' = inv
        /\ \A s \in TeamRequests : ask'[s] = IF s = r THEN NoRequest ELSE ask[s]
    BY <1>1, AskAfter DEF WriteLeave
  <1>5. TeamsTypeOK'
    <2> HIDE DEF rs
    <2>1. /\ role' \in [TeamIds -> [Users -> Roles \cup {"none"}]]
          /\ emptied' \subseteq TeamIds /\ crossed' \subseteq TeamIds
      BY <1>1, <1>3, <1>4, RewriteTypes, CrossingFlags DEF TeamsTypeOK
    <2> QED  BY <1>4, <2>1, TypesKept DEF WriteLeave, Done, TeamsTypeOK
  <1>6. \/ \E u \in Users : rs[u] = "owner"
        \/ \A u \in Users : rs[u] = "none"
        \/ t \in crossed' \cup emptied'
    <2>1. CASE t \in crossed \cup emptied
      BY <1>1, <1>4, <2>1, CrossingFlags DEF Rewrite
    <2>2. CASE \E u \in Users \ {q.by} : role[t][u] = "owner"
      <3>1. PICK u \in Users \ {q.by} : role[t][u] = "owner"
        BY <2>2
      <3>2. rs[u] = "owner"
        BY <1>2, <1>3, <3>1, UpdatedRoles
      <3> QED  BY <3>2
    <2>3. CASE q.whom \in Members(t) \ {q.by}
      <3>1. rs[q.whom] = "owner"
        BY <1>2, <1>3, <2>3, UpdatedRoles DEF Members
      <3> QED  BY <2>3, <3>1 DEF Members
    <2>4. CASE Members(t) \subseteq {q.by}
      <3>1. ASSUME NEW u \in Users \ {q.by} PROVE rs[u] = "none"
        <4>1. role[t][u] = "none"
          BY <2>4 DEF Members
        <4> QED  BY <1>2, <1>3, <4>1, UpdatedRoles
      <3> QED  BY <1>3, <3>1
    <2> QED  BY <1>1, <2>1, <2>2, <2>3, <2>4 DEF ChecksHold, KeepsOwner
  <1> HIDE DEF rs
  <1> QED  BY <1>1, <1>3, <1>4, <1>5, <1>6, CrossingFlags, RewriteKeeps

LEMMA WriteRoleKeeps ==
    ASSUME TeamsIInv, NEW r \in TeamRequests, WriteRole(r)
    PROVE  TeamsIInv'
  <1> USE DEF TeamsIInv
  <1> DEFINE q == ask[r]
             t == q.team
             rs == Updated(role[t], q.whom, q.as)
  <1>1. /\ AskedOK(q) /\ t \in TeamIds /\ q # NoRequest /\ q.op \in {"remove", "setRole"}
        /\ q.as \in Roles \cup {"none"}
    BY AskedIsOK DEF WriteRole, AskedOK, AskedShape, Asked
  <1>2. role[t] \in [Users -> Roles \cup {"none"}]
    BY <1>1 DEF TeamsTypeOK
  <1>3. rs \in [Users -> Roles \cup {"none"}]
    BY <1>1, <1>2, UpdatedRoles
  <1>4. /\ Rewrite(t, rs) /\ Crossing(r, t) /\ inv' = inv
        /\ \A s \in TeamRequests : ask'[s] = IF s = r THEN NoRequest ELSE ask[s]
    BY <1>1, AskAfter DEF WriteRole
  <1>5. TeamsTypeOK'
    BY <1>1, <1>3, <1>4, RewriteTypes, CrossingFlags, TypesKept DEF WriteRole, Done, TeamsTypeOK
  <1>6. \/ \E u \in Users : rs[u] = "owner"
        \/ \A u \in Users : rs[u] = "none"
        \/ t \in crossed' \cup emptied'
    <2>1. CASE t \in crossed \cup emptied
      BY <1>1, <1>4, <2>1, CrossingFlags DEF Rewrite
    <2>2. CASE t \notin crossed \cup emptied /\ q.as # "owner"
      <3>1. PICK u \in Users \ {q.whom} : role[t][u] = "owner"
        BY <1>1, <2>2 DEF ChecksHold, KeepsOwner
      <3> QED  BY <1>1, <1>2, <3>1, UpdatedRoles
    <2>3. CASE t \notin crossed \cup emptied /\ q.as = "owner"
      <3>1. CASE Members(t) = {}
        BY <1>1, <1>2, <3>1, UpdatedRoles DEF Members
      <3>2. CASE Members(t) # {}
        <4>1. PICK u \in Users : role[t][u] = "owner"
          BY <1>1, <2>3, <3>2 DEF HasOwner, Owners
        <4>2. rs[u] = "owner"
          BY <1>1, <1>2, <2>3, <4>1, UpdatedRoles
        <4> QED  BY <4>2
      <3> QED  BY <3>1, <3>2
    <2> QED  BY <2>1, <2>2, <2>3
  <1> HIDE DEF rs
  <1> QED  BY <1>1, <1>3, <1>4, <1>5, <1>6, CrossingFlags, RewriteKeeps

LEMMA WriteDeleteKeeps ==
    ASSUME TeamsIInv, NEW r \in TeamRequests, WriteDelete(r)
    PROVE  TeamsIInv'
  <1> USE DEF TeamsIInv
  <1> DEFINE q == ask[r]
             t == q.team
             rs == [u \in Users |-> "none"]
  <1>1. AskedOK(q) /\ t \in TeamIds
    BY AskedIsOK DEF WriteDelete, AskedOK, AskedShape, Asked
  <1>2. rs \in [Users -> Roles \cup {"none"}] /\ \A u \in Users : rs[u] = "none"
    OBVIOUS
  <1>3. /\ Rewrite(t, rs) /\ crossed' = crossed
        /\ \A s \in TeamRequests : ask'[s] = IF s = r THEN NoRequest ELSE ask[s]
    BY <1>1, AskAfter DEF WriteDelete
  <1>4. /\ inv' \in [Invites -> Invitations]
        /\ \A i \in Invites : /\ inv'[i].team = inv[i].team /\ inv'[i].to = inv[i].to
                              /\ inv'[i].status # "free" <=> inv[i].status # "free"
    BY DEF WriteDelete, TeamsTypeOK, Invitations, InvitationStatus
  <1>5. TeamsTypeOK'
    BY <1>1, <1>2, <1>3, <1>4, RewriteTypes, TypesKept DEF WriteDelete, Done, TeamsTypeOK
  <1>6. \/ t \in emptied'
        \/ \A s \in TeamRequests \ {r} :
              ask[s] # NoRequest /\ ask[s].team = t /\ KeepsOwner(ask[s]) => KeepsOwner(ask[s])'
    <2>1. CASE Members(t) # {}
      BY <1>2, <1>3, <2>1 DEF Rewrite
    <2>2. CASE Members(t) = {}
      <3>1. \A u \in Users : role[t][u] = "none"
        BY <2>2 DEF Members
      <3>2. \A u \in Users : role'[t][u] = "none"
        BY <1>1, <1>3 DEF Rewrite, TeamsTypeOK
      <3> QED
        <4> SUFFICES ASSUME NEW s \in TeamRequests \ {r}, ask[s].team = t, KeepsOwner(ask[s])
                     PROVE  KeepsOwner(ask[s])'
          OBVIOUS
        <4> DEFINE p == ask[s]
        <4>1. p' = p /\ p.team = t
          BY <1>3, Zenon
        <4>2. KeepsOwner(p)'
          <5>1. Members(p.team)' = Members(p.team)
            BY <3>1, <3>2, <4>1 DEF Members
          <5>2. \A u \in Users : role'[p.team][u] = role[p.team][u]
            BY <3>1, <3>2, <4>1
          <5>3. KeepsOwner(p)
            OBVIOUS
          <5> HIDE DEF p
          <5> QED  BY <4>1, <5>1, <5>2, <5>3 DEF KeepsOwner
        <4> QED  BY <4>2
    <2> QED  BY <2>1, <2>2
  <1> HIDE DEF rs
  <1> QED  BY <1>1, <1>2, <1>3, <1>4, <1>5, <1>6, RewriteKeeps

LEMMA WriteOwnerKeeps ==
    ASSUME TeamsIInv, NEW r \in TeamRequests, WriteOwner(r)
    PROVE  TeamsIInv'
  <1> USE DEF TeamsIInv
  <1> DEFINE q == ask[r]
             t == q.team
             rs == [role[t] EXCEPT ![q.by] = "owner"]
  <1>1. AskedOK(q) /\ t \in TeamIds /\ q.by \in Users
    BY AskedIsOK DEF WriteOwner, AskedOK, AskedShape, Asked
  <1>2. /\ rs \in [Users -> Roles \cup {"none"}] /\ rs[q.by] = "owner"
        /\ \A u \in Users \ {q.by} : rs[u] = role[t][u]
    BY <1>1 DEF TeamsTypeOK, Roles
  <1>3. /\ Rewrite(t, rs) /\ crossed' = crossed /\ inv' = inv
        /\ \A s \in TeamRequests : ask'[s] = IF s = r THEN NoRequest ELSE ask[s]
    BY <1>1, AskAfter DEF WriteOwner
  <1>4. TeamsTypeOK'
    BY <1>1, <1>2, <1>3, RewriteTypes, TypesKept DEF WriteOwner, Done, TeamsTypeOK
  <1>5. ASSUME NEW s \in TeamRequests \ {r}, ask[s].team = t, KeepsOwner(ask[s])
        PROVE  KeepsOwner(ask[s])'
    <2> DEFINE p == ask[s]
    <2>1. p' = p /\ p.team = t /\ KeepsOwner(p)
      BY <1>3, <1>5
    <2>2. /\ role'[t][q.by] = "owner"
          /\ \A u \in Users \ {q.by} : role'[t][u] = role[t][u]
      BY <1>1, <1>2, <1>3 DEF Rewrite, TeamsTypeOK
    <2>3. KeepsOwner(p)'
      <3> HIDE DEF p
      <3> QED  BY <1>1, <2>1, <2>2 DEF KeepsOwner, Members
    <2> QED  BY <2>3
  <1> HIDE DEF rs
  <1> QED  BY <1>1, <1>2, <1>3, <1>4, <1>5, RewriteKeeps

LEMMA WriteJoinKeeps ==
    ASSUME TeamsIInv, NEW r \in TeamRequests, WriteJoin(r)
    PROVE  TeamsIInv'
  <1> USE DEF TeamsIInv
  <1> DEFINE q == ask[r]
             t == q.team
             rs == [role[t] EXCEPT ![q.by] = q.as]
             p == [q EXCEPT !.op = "settle", !.as = "accepted"]
  <1>1. /\ AskedOK(q) /\ t \in TeamIds /\ q.by \in Users /\ q.as \in Roles
        /\ q # NoRequest /\ q.op = "join"
    BY AskedIsOK DEF WriteJoin, AskedOK, AskedShape, Asked
  <1>2. HadMembers(t)
    BY <1>1 DEF TouchedHadMembers, Touched
  <1>3. CASE role[t][q.by] # "none"
    <2>1. /\ \A s \in TeamRequests : ask'[s] = IF s = r THEN NoRequest ELSE ask[s]
          /\ UNCHANGED <<name, role, inv, made, aged, crossed, emptied>>
      BY <1>1, <1>3, AskAfter DEF WriteJoin
    <2>2. TeamsTypeOK'
      BY <1>3, <2>1, TypesKept DEF WriteJoin, Done, TeamsTypeOK
    <2> QED  BY <2>1, <2>2, QuietKeeps
  <1>4. CASE role[t][q.by] = "none"
    <2>1. /\ rs \in [Users -> Roles \cup {"none"}]
          /\ \A u \in Users \ {q.by} : rs[u] = role[t][u]
      BY <1>1 DEF TeamsTypeOK
    <2>2. Rewrite(t, rs) /\ Crossing(r, t) /\ inv' = inv /\ ask' = [ask EXCEPT ![r] = p]
      BY <1>4, Zenon DEF WriteJoin
    <2>3. AskedOK(p) /\ p.op = "settle" /\ p.team = t
      BY <1>1 DEF AskedOK, AskedShape, Asked, TakesRole, Outcomes
    <2>4. TeamsTypeOK'
      <3>1. role' \in [TeamIds -> [Users -> Roles \cup {"none"}]] /\ emptied' \subseteq TeamIds
        BY <1>1, <2>1, <2>2, RewriteTypes
      <3>2. crossed' \subseteq TeamIds
        BY <1>1, <2>2, CrossingFlags DEF TeamsTypeOK
      <3>3. name' = name /\ made' = made /\ aged' = aged
        BY DEF WriteJoin
      <3>4. AskedShape(p) /\ inv'[p.inv].status # "free"
        BY <1>1, <2>2, <2>3 DEF AskedOK
      <3> HIDE DEF p
      <3> QED  BY <2>2, <3>1, <3>2, <3>3, <3>4, TypesKept DEF TeamsTypeOK
    <2>5. (\E u \in Users : rs[u] = "owner") \/ t \in crossed' \cup emptied'
      <3>1. CASE t \in crossed \cup emptied
        BY <1>1, <2>2, <3>1, CrossingFlags DEF Rewrite
      <3>2. CASE t \notin crossed \cup emptied
        <4>1. PICK u \in Users : role[t][u] = "owner"
          BY <1>1, <1>2, <3>2 DEF HadMembers, HasOwner, Owners
        <4>2. rs[u] = "owner"
          BY <1>4, <2>1, <4>1
        <4> QED  BY <4>2
      <3> QED  BY <3>1, <3>2
    <2>6. /\ ask'[r] = p /\ \A s \in TeamRequests \ {r} : ask'[s] = ask[s]
          /\ ask'[r].op \notin TakesRole /\ HadMembers(ask'[r].team)
      BY <1>2, <2>2, <2>3 DEF TakesRole, TeamsTypeOK
    <2> HIDE DEF rs, p
    <2> QED  BY <1>1, <2>1, <2>2, <2>4, <2>5, <2>6, CrossingFlags, RewriteKeeps
  <1> QED  BY <1>3, <1>4

\* A step that writes no role and that leaves of request r only q.
LEMMA QuietAskKeeps ==
    ASSUME TeamsIInv, NEW r \in TeamRequests, NEW q, ask' = [ask EXCEPT ![r] = q],
           \/ q = NoRequest
           \/ AskedShape(q) /\ (q.op \in {"join", "mail", "settle"} => inv'[q.inv].status # "free"),
           q = NoRequest \/ q.op \in {"own", "mail"},
           q # NoRequest /\ q.op = "mail" => HadMembers(q.team),
           name' \in [TeamIds -> Users \cup {"none", "plain"}],
           inv' \in [Invites -> Invitations],
           \A i \in Invites :
              inv'[i].status # "free" => inv'[i].team \in TeamIds /\ inv'[i].to \in Users,
           \A i \in Invites : inv[i].status # "free" =>
              inv'[i].status # "free" /\ inv'[i].team = inv[i].team,
           \A i \in Invites : inv'[i].status # "free" =>
              inv[i].status # "free" \/ HadMembers(inv'[i].team),
           UNCHANGED <<role, made, aged, teamHist>>
    PROVE  TeamsIInv'
  <1>1. TeamsTypeOK
    BY DEF TeamsIInv
  <1>2. role' = role /\ crossed' = crossed /\ emptied' = emptied
    BY DEF teamHist
  <1>3. TeamsTypeOK'
    BY <1>1, <1>2, TypesKept DEF TeamsTypeOK
  <1>4. \A s \in TeamRequests :
           \/ ask'[s] = ask[s] \/ ask'[s] = NoRequest
           \/ /\ ask'[s].op \notin TakesRole
              /\ ask'[s].op \in {"create", "home", "own"} \/ HadMembers(ask'[s].team)
    BY <1>1 DEF TeamsTypeOK, TakesRole
  <1> QED  BY <1>2, <1>3, <1>4, QuietKeeps

LEMMA WriteTeamKeeps ==
    ASSUME TeamsIInv, NEW r \in TeamRequests, WriteTeam(r)
    PROVE  TeamsIInv'
  <1>1. TeamsTypeOK /\ AskedOK(ask[r]) /\ ask[r].by \in Users /\ ask[r].team \in TeamIds
    BY AskedIsOK DEF WriteTeam, AskedOK, AskedShape, Asked, TeamsIInv
  <1>2. PICK q \in {NoRequest, [ask[r] EXCEPT !.op = "own"]} : ask' = [ask EXCEPT ![r] = q]
    BY DEF WriteTeam, Done, Then
  <1>3. q = NoRequest \/ (AskedOK(q) /\ q.op = "own")
    BY <1>1, <1>2 DEF AskedOK, AskedShape, Asked
  <1>4. name' \in [TeamIds -> Users \cup {"none", "plain"}]
    <2>1. name' = name \/ \E n \in {"plain", ask[r].by} : name' = [name EXCEPT ![ask[r].team] = n]
      BY DEF WriteTeam
    <2> QED  BY <1>1, <2>1 DEF TeamsTypeOK
  <1>5. inv' = inv /\ UNCHANGED <<role, made, aged, teamHist>>
    BY DEF WriteTeam
  <1> HIDE DEF TeamsIInv
  <1> QED  BY <1>1, <1>2, <1>3, <1>4, <1>5, QuietAskKeeps DEF TeamsTypeOK, AskedOK

LEMMA InvitationsKeep ==
    ASSUME TeamsIInv, NEW r \in TeamRequests, WriteInvite(r) \/ SendInvite(r) \/ WriteSettled(r)
    PROVE  TeamsIInv'
  <1>1. TeamsTypeOK /\ ask[r] # NoRequest /\ AskedOK(ask[r]) /\ ask[r].team \in TeamIds
    BY AskedIsOK DEF WriteInvite, SendInvite, WriteSettled, AskedOK, AskedShape, Asked, TeamsIInv
  <1>2. ask[r].op = "invite" => HadMembers(ask[r].team)
    BY <1>1 DEF TouchedHadMembers, Touched, TeamsIInv
  <1>3. CASE WriteInvite(r)
    <2>1. PICK i \in Invites :
             /\ inv[i].status = "free"
             /\ inv' = [inv EXCEPT ![i] = [team |-> ask[r].team, to |-> ask[r].whom,
                                           role |-> ask[r].as, status |-> "pending"]]
             /\ ask' = [ask EXCEPT ![r].op = "mail", ![r].inv = i]
      BY <1>3 DEF WriteInvite
    <2> DEFINE q == [ask[r] EXCEPT !.op = "mail", !.inv = i]
    <2>2. ask[r].op = "invite" /\ ask[r].as \in Roles /\ ask[r].whom \in Users
      BY <1>1, <1>3 DEF WriteInvite, AskedOK, AskedShape
    <2>3. ask' = [ask EXCEPT ![r] = q]
      BY <2>1, Zenon
    <2>4. inv' \in [Invites -> Invitations] /\ inv'[i].status # "free"
      BY <1>1, <2>1, <2>2 DEF TeamsTypeOK, Invitations, InvitationStatus, Open
    <2>5. /\ AskedShape(q) /\ q.op = "mail" /\ q.team = ask[r].team
          /\ inv'[q.inv].status # "free"
      BY <1>1, <2>4 DEF AskedOK, AskedShape, Asked
    <2>6. \A x \in Invites :
             /\ inv'[x].status # "free" => inv'[x].team \in TeamIds /\ inv'[x].to \in Users
             /\ inv[x].status # "free" => inv'[x] = inv[x]
             /\ inv'[x].status # "free" => inv[x].status # "free" \/ HadMembers(inv'[x].team)
      BY <1>1, <1>2, <2>1, <2>2 DEF TeamsTypeOK
    <2>7. /\ name' \in [TeamIds -> Users \cup {"none", "plain"}]
          /\ UNCHANGED <<role, made, aged, teamHist>>
      BY <1>1, <1>3 DEF WriteInvite, TeamsTypeOK
    <2>8. HadMembers(q.team)
      BY <1>2, <2>2, <2>5
    <2>9. AskedShape(q) /\ (q.op \in {"join", "mail", "settle"} => inv'[q.inv].status # "free")
      BY <2>5
    <2>10. \A x \in Invites : inv[x].status # "free" =>
              inv'[x].status # "free" /\ inv'[x].team = inv[x].team
      BY <2>6
    <2> HIDE DEF q
    <2> QED  BY <2>3, <2>4, <2>5, <2>6, <2>7, <2>8, <2>9, <2>10, QuietAskKeeps
  <1>4. CASE SendInvite(r) \/ WriteSettled(r)
    <2>1. /\ ask' = [ask EXCEPT ![r] = NoRequest]
          /\ UNCHANGED <<name, role, made, aged, teamHist>>
      BY <1>4 DEF SendInvite, WriteSettled, Done
    <2>2. \/ inv' = inv
          \/ \E s \in {"deleted"} \cup Outcomes : inv' = [inv EXCEPT ![ask[r].inv].status = s]
      BY <1>1, <1>4 DEF SendInvite, WriteSettled, AskedOK, AskedShape
    <2>3. ask[r].inv \in Invites /\ inv[ask[r].inv].status # "free"
      BY <1>1, <1>4 DEF SendInvite, WriteSettled, AskedOK, AskedShape
    <2>4. /\ inv' \in [Invites -> Invitations]
          /\ \A i \in Invites : /\ inv'[i].team = inv[i].team /\ inv'[i].to = inv[i].to
                                /\ inv'[i].status # "free" <=> inv[i].status # "free"
      BY <1>1, <2>2, <2>3 DEF TeamsTypeOK, Invitations, InvitationStatus, Outcomes
    <2> HIDE DEF TeamsIInv
    <2> QED  BY <1>1, <2>1, <2>4, QuietAskKeeps DEF TeamsTypeOK
  <1> QED  BY <1>3, <1>4

\* The steps outside the requests under way, and the end of the server.
LEMMA OthersKeep ==
    ASSUME TeamsIInv,
           \/ \E r \in TeamRequests : Drop(r)
           \/ \E i \in Invites : Renew(i) \/ Expire(i) \/ AcceptAgain(i) \/ Age(i)
           \/ \E u \in Users, t \in TeamIds : Rename(u, t)
    PROVE  TeamsIInv'
  <1>1. TeamsTypeOK
    BY DEF TeamsIInv
  <1>2. ASSUME NEW r \in TeamRequests, Drop(r) PROVE TeamsIInv'
    <2>1. /\ ask' = [ask EXCEPT ![r] = NoRequest] /\ name' = name /\ inv' = inv
          /\ UNCHANGED <<role, made, aged, teamHist>>
      BY <1>2 DEF Drop, Done, teamRows
    <2> HIDE DEF TeamsIInv
    <2> QED  BY <1>1, <2>1, QuietAskKeeps DEF TeamsTypeOK
  <1>3. ASSUME NEW i \in Invites, Renew(i) \/ Expire(i) \/ AcceptAgain(i) \/ Age(i)
        PROVE  TeamsIInv'
    <2>1. PICK s \in {"pending", "expired", "accepted", "stale"} : SetInvite(i, s)
      BY <1>3 DEF Renew, Expire, AcceptAgain, Age
    <2>2. inv[i].status # "free"
      BY <1>3 DEF Renew, Expire, AcceptAgain, Age
    <2>3. /\ inv' \in [Invites -> Invitations]
          /\ \A x \in Invites : /\ inv'[x].team = inv[x].team /\ inv'[x].to = inv[x].to
                                /\ inv'[x].status # "free" <=> inv[x].status # "free"
      BY <1>1, <2>1, <2>2 DEF SetInvite, TeamsTypeOK, Invitations, InvitationStatus, Open
    <2>4. made' \in 0..MaxRequests /\ aged' \in 0..MaxAged
      BY <1>1, <1>3, TeamsAssumption DEF Renew, Expire, AcceptAgain, Age, TeamsTypeOK
    <2>5. name' = name /\ role' = role /\ ask' = ask /\ crossed' = crossed /\ emptied' = emptied
      BY <2>1 DEF SetInvite, teamHist
    <2>6. TeamsTypeOK'
      BY <1>1, <2>3, <2>4, <2>5 DEF TeamsTypeOK
    <2> QED  BY <2>3, <2>5, <2>6, QuietKeeps
  <1>4. ASSUME NEW u \in Users, NEW t \in TeamIds, Rename(u, t) PROVE TeamsIInv'
    <2>1. /\ role' = role /\ inv' = inv /\ ask' = ask /\ aged' = aged
          /\ crossed' = crossed /\ emptied' = emptied
      BY <1>4 DEF Rename, teamHist
    <2>2. name' \in [TeamIds -> Users \cup {"none", "plain"}] /\ made' \in 0..MaxRequests
      BY <1>1, <1>4, TeamsAssumption DEF Rename, TeamsTypeOK
    <2>3. TeamsTypeOK'
      BY <1>1, <2>1, <2>2 DEF TeamsTypeOK
    <2> QED  BY <2>1, <2>3, QuietKeeps
  <1> QED  BY <1>2, <1>3, <1>4

LEMMA TeamsNextKeeps == TeamsIInv /\ [TeamsNext]_teamVars => TeamsIInv'
  <1> SUFFICES ASSUME TeamsIInv, [TeamsNext]_teamVars PROVE TeamsIInv'
    OBVIOUS
  <1>1. CASE TeamsNext
    BY <1>1, AsksKeep, WriteLeaveKeeps, WriteRoleKeeps, WriteDeleteKeeps, WriteTeamKeeps,
       WriteOwnerKeeps, WriteJoinKeeps, InvitationsKeep, OthersKeep DEF TeamsNext, Writes
  <1>2. CASE UNCHANGED teamVars
    <2>1. UNCHANGED <<name, role, inv, ask, made, aged, crossed, emptied>>
      BY <1>2 DEF teamVars, teamRows, teamHist
    <2>2. TeamsTypeOK'
      BY <2>1 DEF TeamsIInv, TeamsTypeOK
    <2> QED  BY <2>1, <2>2, QuietKeeps
  <1> QED  BY <1>1, <1>2

\* The rows and the requests of the teams keep their types.
THEOREM TeamsKeepTypes == TeamsSpec => []TeamsTypeOK
  <1>1. TeamsIInv => TeamsTypeOK
    BY DEF TeamsIInv
  <1> QED  BY <1>1, InitTeams, TeamsNextKeeps, PTL DEF TeamsSpec

\* Whatever users and requests there are, a team with members has an owner, but
\* for the two exceptions that HasOwner names (team_service.py).
THEOREM TeamsHaveOwners == TeamsSpec => []HasOwner
  <1>1. TeamsIInv => HasOwner
    BY DEF TeamsIInv
  <1> QED  BY <1>1, InitTeams, TeamsNextKeeps, PTL DEF TeamsSpec

-----------------------------------------------------------------------------
(* Secrets. *)

\* What the file has, and what every PUT under way will write, agrees with the
\* special secrets that were set, unless two PUTs wrote the file together.  An
\* emptied file says nothing until it is written.
FilesAgree ==
    \A f \in Files \ mixed : file[f].state # "empty" => file[f].names \cap Special = want[f]

PutsAgree ==
    \A w \in Writers :
        put[w] # NoWrite /\ put[w].file \notin mixed =>
            put[w].names \cap Special = put[w].want

SecretsIInv == SecretsTypeOK /\ FilesAgree /\ PutsAgree

LEMMA InitSecrets == SecretsInit => SecretsIInv
  BY SecretsAssumption DEF SecretsInit, SecretsIInv, SecretsTypeOK, FilesAgree, PutsAgree

\* A PUT that starts with names that agree with what it wants.
LEMMA BeginKeepsIInv ==
    ASSUME SecretsIInv, NEW w \in Writers, NEW f \in Files,
           NEW new \in SUBSET SecretNames, NEW wanted \in SUBSET Special,
           BeginPut(w, f, new, wanted),
           f \notin mixed => new \cap Special = wanted
    PROVE  SecretsIInv'
  <1> DEFINE q == [file |-> f, names |-> new, want |-> wanted, step |-> "open"]
  <1>1. q \in Puts /\ put' = [put EXCEPT ![w] = q]
    BY DEF Puts, BeginPut
  <1>2. puts' \in 0..MaxPuts
    BY SecretsAssumption DEF BeginPut, SecretsIInv, SecretsTypeOK
  <1>3. SecretsTypeOK'
    BY <1>1, <1>2 DEF SecretsIInv, SecretsTypeOK, BeginPut
  <1>4. FilesAgree'
    BY DEF SecretsIInv, FilesAgree, BeginPut
  <1>5. PutsAgree'
    <2> SUFFICES ASSUME NEW x \in Writers, put'[x] # NoWrite, put'[x].file \notin mixed
                 PROVE  put'[x].names \cap Special = put'[x].want
      BY DEF PutsAgree, BeginPut
    <2>1. CASE x = w
      BY <1>1, <2>1 DEF SecretsIInv, SecretsTypeOK
    <2>2. CASE x # w
      BY <1>1, <2>2 DEF SecretsIInv, SecretsTypeOK, PutsAgree
    <2> QED  BY <2>1, <2>2
  <1> QED  BY <1>3, <1>4, <1>5 DEF SecretsIInv

\* A file that is not empty is as FilesAgree says, and those that PUTs read are.
LEMMA ReadAgrees ==
    ASSUME SecretsIInv, NEW f \in Files, file[f].state # "empty", f \notin mixed
    PROVE  file[f].names \cap Special = want[f]
  BY DEF SecretsIInv, FilesAgree

LEMMA AskKeepsIInv ==
    ASSUME SecretsIInv, NEW w \in Writers, NEW f \in Files,
           \/ \E names \in SUBSET Regular : PutRegular(w, f, names)
           \/ \E s \in Special : SetSpecial(w, f, s) \/ ClearSpecial(w, f, s)
    PROVE  SecretsIInv'
  <1>1. file[f].names \in SUBSET SecretNames /\ want[f] \in SUBSET Special
    BY DEF SecretsIInv, SecretsTypeOK
  <1>2. ASSUME NEW names \in SUBSET Regular, PutRegular(w, f, names) PROVE SecretsIInv'
    <2>1. names \cup (file[f].names \cap Special) \in SUBSET SecretNames
      BY <1>1 DEF SecretNames
    <2>2. file[f].state # "empty"
      BY <1>2 DEF PutRegular, BeginPut
    <2>3. f \notin mixed => (names \cup (file[f].names \cap Special)) \cap Special = want[f]
      BY <2>2, ReadAgrees, SecretsAssumption
    <2> QED  BY <1>1, <1>2, <2>1, <2>3, BeginKeepsIInv DEF PutRegular
  <1>3. ASSUME NEW s \in Special, SetSpecial(w, f, s) PROVE SecretsIInv'
    <2>1. /\ file[f].names \cup {s} \in SUBSET SecretNames
          /\ want[f] \cup {s} \in SUBSET Special
      BY <1>1 DEF SecretNames
    <2>2. file[f].state # "empty"
      BY <1>3 DEF SetSpecial, BeginPut
    <2>3. f \notin mixed => (file[f].names \cup {s}) \cap Special = want[f] \cup {s}
      BY <2>2, ReadAgrees
    <2> QED  BY <1>3, <2>1, <2>3, BeginKeepsIInv DEF SetSpecial
  <1>4. ASSUME NEW s \in Special, ClearSpecial(w, f, s) PROVE SecretsIInv'
    <2>1. /\ file[f].names \ {s} \in SUBSET SecretNames
          /\ want[f] \ {s} \in SUBSET Special
      BY <1>1
    <2>2. file[f].state # "empty"
      BY <1>4 DEF ClearSpecial, BeginPut
    <2>3. f \notin mixed => (file[f].names \ {s}) \cap Special = want[f] \ {s}
      BY <2>2, ReadAgrees
    <2> QED  BY <1>4, <2>1, <2>3, BeginKeepsIInv DEF ClearSpecial
  <1> QED  BY <1>2, <1>3, <1>4

\* Opening empties the file: nothing is said of it.
LEMMA OpenKeepsIInv ==
    ASSUME SecretsIInv, NEW w \in Writers, OpenFile(w)
    PROVE  SecretsIInv'
  <1>1. put[w] \in Puts
    BY DEF OpenFile, SecretsIInv, SecretsTypeOK
  <1>2. /\ file' = [file EXCEPT ![put[w].file] = [state |-> "empty", names |-> {}]]
        /\ put' = [put EXCEPT ![w] = [put[w] EXCEPT !.step = "write"]]
        /\ UNCHANGED <<puts, want, mixed>>
    BY DEF OpenFile
  <1>3. [put[w] EXCEPT !.step = "write"] \in Puts
    BY <1>1 DEF Puts
  <1>4. SecretsTypeOK'
    BY <1>1, <1>2, <1>3 DEF SecretsIInv, SecretsTypeOK, Puts
  <1>5. FilesAgree'
    BY <1>1, <1>2 DEF SecretsIInv, SecretsTypeOK, FilesAgree, Puts
  <1>6. PutsAgree'
    <2> SUFFICES ASSUME NEW x \in Writers, put'[x] # NoWrite, put'[x].file \notin mixed
                 PROVE  put'[x].names \cap Special = put'[x].want
      BY <1>2 DEF PutsAgree
    <2>1. CASE x = w
      <3>1. /\ put'[x].names = put[w].names /\ put'[x].want = put[w].want
            /\ put'[x].file = put[w].file
        BY <1>1, <1>2, <2>1 DEF Puts, SecretsIInv, SecretsTypeOK
      <3>2. put[w] # NoWrite
        BY DEF OpenFile
      <3> QED  BY <3>1, <3>2 DEF SecretsIInv, PutsAgree
    <2>2. CASE x # w
      BY <1>2, <2>2 DEF SecretsIInv, SecretsTypeOK, PutsAgree
    <2> QED  BY <2>1, <2>2
  <1> QED  BY <1>4, <1>5, <1>6 DEF SecretsIInv

\* The file becomes what the PUT agreed with; a PUT still under way on the same
\* file makes it one that two wrote.
LEMMA WriteKeepsIInv ==
    ASSUME SecretsIInv, NEW w \in Writers, WriteFile(w)
    PROVE  SecretsIInv'
  <1> DEFINE q == put[w]
  <1>1. q \in Puts /\ q # NoWrite
    BY DEF WriteFile, SecretsIInv, SecretsTypeOK
  <1>2. /\ file' = [file EXCEPT ![q.file] = [state |-> "whole", names |-> q.names]]
        /\ want' = [want EXCEPT ![q.file] = q.want]
        /\ put' = [put EXCEPT ![w] = NoWrite]
        /\ puts' = puts
        /\ mixed \subseteq mixed' /\ mixed' \subseteq mixed \cup {q.file}
    BY DEF WriteFile
  <1>3. SecretsTypeOK'
    BY <1>1, <1>2 DEF SecretsIInv, SecretsTypeOK, Puts
  <1>4. FilesAgree'
    <2> SUFFICES ASSUME NEW f \in Files \ mixed', file'[f].state # "empty"
                 PROVE  file'[f].names \cap Special = want'[f]
      BY DEF FilesAgree
    <2>1. f \notin mixed
      BY <1>2
    <2>2. CASE f = q.file
      BY <1>1, <1>2, <2>1, <2>2 DEF SecretsIInv, SecretsTypeOK, PutsAgree
    <2>3. CASE f # q.file
      BY <1>2, <2>1, <2>3 DEF SecretsIInv, SecretsTypeOK, FilesAgree
    <2> QED  BY <2>2, <2>3
  <1>5. PutsAgree'
    <2> SUFFICES ASSUME NEW x \in Writers, put'[x] # NoWrite, put'[x].file \notin mixed'
                 PROVE  put'[x].names \cap Special = put'[x].want
      BY DEF PutsAgree
    <2>1. x # w /\ put'[x] = put[x]
      BY <1>2 DEF SecretsIInv, SecretsTypeOK
    <2> QED  BY <1>2, <2>1 DEF SecretsIInv, PutsAgree
  <1> QED  BY <1>3, <1>4, <1>5 DEF SecretsIInv

LEMMA SecretsFollow == SecretsIInv /\ [SecretsNext]_secretVars => SecretsIInv'
  <1> SUFFICES ASSUME SecretsIInv, [SecretsNext]_secretVars PROVE SecretsIInv'
    OBVIOUS
  <1>1. ASSUME NEW w \in Writers, CutPut(w) PROVE SecretsIInv'
    BY <1>1 DEF CutPut, SecretsIInv, SecretsTypeOK, FilesAgree, PutsAgree
  <1>2. CASE UNCHANGED secretVars
    BY <1>2 DEF secretVars, SecretsIInv, SecretsTypeOK, FilesAgree, PutsAgree
  <1> QED
    BY <1>1, <1>2, AskKeepsIInv, OpenKeepsIInv, WriteKeepsIInv DEF SecretsNext

-----------------------------------------------------------------------------
\* Files, PUTs and histories keep their types, for any files and secrets.
THEOREM SecretsKeepTypes == SecretsSpec => []SecretsTypeOK
  <1>1. SecretsIInv => SecretsTypeOK
    BY DEF SecretsIInv
  <1> QED  BY InitSecrets, SecretsFollow, <1>1, PTL DEF SecretsSpec

\* No PUT of the regular secrets loses a special one or brings one back, for any
\* number of PUTs, unless two wrote one file at the same time.
THEOREM SecretsSurvive == SecretsSpec => []SpecialsSurvive
  <1>1. SecretsIInv => SpecialsSurvive
    BY DEF SecretsIInv, FilesAgree, SpecialsSurvive
  <1> QED  BY InitSecrets, SecretsFollow, <1>1, PTL DEF SecretsSpec

-----------------------------------------------------------------------------
(* Launch requests. *)

Known(l) == {"provider", "cluster"} \subseteq record[l]

\* Only a launch with minutes has a hold, and the write that stores its cluster
\* stores its hold too.
HoldIsWritten ==
    \A l \in Launches :
        /\ hold[l] = "held" => req[l].minutes
        /\ req[l].kind = "resume" => ~ req[l].minutes
        /\ "cluster" \in record[l] /\ req[l].minutes => "hold" \in record[l]

\* From the write of the record on, the record leads to the machine or a write of
\* it failed; a remote launch is only taken up when the record is there.
KnownOnTheWay ==
    \A l \in Launches :
        /\ at[l] \in {"command", "queue", "row", "item", "launch"} => Known(l) \/ l \in lost
        /\ at[l] = "launch" /\ req[l].kind = "remote" => Known(l)
        /\ at[l] = "row" => req[l].kind = "remote"
        /\ at[l] = "item" => req[l].kind = "local"

MachineIsKnown ==
    \A l \in machine : Known(l) \/ (l \in lost /\ req[l].kind # "remote")

LaunchIInv == LaunchTypeOK /\ HoldIsWritten /\ KnownOnTheWay /\ MachineIsKnown

LEMMA InitLaunches == LaunchInit => LaunchIInv
  BY DEF LaunchInit, LaunchIInv, LaunchTypeOK, Points, Fields, Kinds, HoldIsWritten,
         KnownOnTheWay, MachineIsKnown

\* Only the launch itself moves, its record grows, and so do the failed writes.
Moves(l) ==
    /\ UNCHANGED <<provider, req>>
    /\ at' \in [Launches -> Points] /\ state' \in [Launches -> {"none", "LIVE", "FAILED"}]
    /\ hold' \in [Launches -> {"none", "held", "released"}]
    /\ record' \in [Launches -> SUBSET Fields] /\ lost' \subseteq Launches
    /\ lost \subseteq lost'
    /\ \A x \in Launches \ {l} : /\ at'[x] = at[x] /\ record'[x] = record[x]
                                 /\ hold'[x] = hold[x]
    /\ record[l] \subseteq record'[l]
    /\ machine \subseteq machine' /\ machine' \subseteq machine \cup {l}

\* The facts about one launch, as it moves.
Good(l) ==
    /\ hold[l] = "held" => req[l].minutes
    /\ "cluster" \in record[l] /\ req[l].minutes => "hold" \in record[l]
    /\ at[l] \in {"command", "queue", "row", "item", "launch"} => Known(l) \/ l \in lost
    /\ at[l] = "launch" /\ req[l].kind = "remote" => Known(l)
    /\ at[l] = "row" => req[l].kind = "remote"
    /\ at[l] = "item" => req[l].kind = "local"
    /\ l \in machine => Known(l) \/ (l \in lost /\ req[l].kind # "remote")

LEMMA MoveKeepsIInv ==
    ASSUME LaunchIInv, NEW l \in Launches, Moves(l), Good(l)'
    PROVE  LaunchIInv'
  <1>1. LaunchTypeOK'
    BY DEF Moves, LaunchIInv, LaunchTypeOK
  <1>2. ASSUME NEW x \in Launches, x # l
        PROVE  /\ at'[x] = at[x] /\ record'[x] = record[x] /\ hold'[x] = hold[x]
               /\ x \in lost => x \in lost'
               /\ x \in machine' => x \in machine
               /\ req' = req
    BY <1>2 DEF Moves
  <1>3. HoldIsWritten'
    BY <1>2 DEF Moves, LaunchIInv, HoldIsWritten, Good
  <1>4. KnownOnTheWay'
    BY <1>2 DEF LaunchIInv, KnownOnTheWay, Good, Known
  <1>5. MachineIsKnown'
    BY <1>1, <1>2 DEF LaunchIInv, MachineIsKnown, Good, Known, LaunchTypeOK
  <1> QED  BY <1>1, <1>3, <1>4, <1>5 DEF LaunchIInv

LEMMA IInvIsGood == ASSUME LaunchIInv, NEW l \in Launches PROVE Good(l)
  BY DEF LaunchIInv, HoldIsWritten, KnownOnTheWay, MachineIsKnown, Good

-----------------------------------------------------------------------------
LEMMA AdmitKeepsIInv ==
    ASSUME LaunchIInv, NEW l \in Launches, Admit(l) \/ CreateJob(l) \/ HoldMinutes(l)
    PROVE  LaunchIInv'
  <1>1. Moves(l)
    BY DEF Admit, CreateJob, HoldMinutes, Move, Moves, LaunchIInv, LaunchTypeOK, Points
  <1>2. Good(l)'
    BY IInvIsGood DEF Admit, CreateJob, HoldMinutes, Move, Good, Known, LaunchIInv, LaunchTypeOK
  <1> QED  BY <1>1, <1>2, MoveKeepsIInv

\* A write, failed or not, only adds to the record of its launch.
LEMMA WriteRecordAdds ==
    ASSUME LaunchIInv, NEW l \in Launches, NEW fields \in SUBSET Fields, WriteRecord(l, fields)
    PROVE  /\ record' \in [Launches -> SUBSET Fields]
           /\ lost' \subseteq Launches /\ lost \subseteq lost'
           /\ \A x \in Launches \ {l} : record'[x] = record[x]
           /\ record[l] \subseteq record'[l]
  <1>1. record \in [Launches -> SUBSET Fields] /\ lost \subseteq Launches
    BY DEF LaunchIInv, LaunchTypeOK
  <1>2. CASE record' = [record EXCEPT ![l] = @ \cup fields] /\ UNCHANGED lost
    BY <1>1, <1>2
  <1>3. CASE lost' = lost \cup {l} /\ UNCHANGED record
    BY <1>1, <1>3
  <1> QED  BY <1>2, <1>3 DEF WriteRecord

LEMMA CopyFieldsKeepsIInv ==
    ASSUME LaunchIInv, NEW l \in Launches, CopyFields(l)
    PROVE  LaunchIInv'
  <1>1. Moves(l)
    <2>1. CASE at[l] = "fields" /\ GiveUp(l, FALSE) /\ UNCHANGED <<provider, req, record, machine, lost>>
      BY <2>1 DEF GiveUp, Moves, LaunchIInv, LaunchTypeOK, Points
    <2>2. CASE /\ Move(l, "fields", "build") /\ WriteRecord(l, {"provider"})
               /\ UNCHANGED <<provider, req, state, hold, machine>>
      <3>1. {"provider"} \in SUBSET Fields
        BY DEF Fields
      <3> QED  BY <2>2, <3>1, WriteRecordAdds DEF Move, Moves, LaunchIInv, LaunchTypeOK, Points
    <2> QED  BY <2>1, <2>2 DEF CopyFields
  <1>2. Good(l)'
    BY IInvIsGood DEF CopyFields, GiveUp, WriteRecord, Move, Good, Known, LaunchIInv, LaunchTypeOK
  <1> QED  BY <1>1, <1>2, MoveKeepsIInv

LEMMA BuildKeepsIInv ==
    ASSUME LaunchIInv, NEW l \in Launches, Build(l) \/ BuildResumed(l)
    PROVE  LaunchIInv'
  <1>1. PICK next \in {"command", "launch"},
             fields \in SUBSET Fields :
            /\ Written(l, next, fields)
            /\ {"provider", "cluster"} \subseteq fields
            /\ req[l].minutes => "hold" \in fields
            /\ next = "launch" => req[l].kind = "resume"
    BY DEF Build, BuildResumed, Fields, LaunchIInv, HoldIsWritten
  <1>2. Moves(l)
    <2>1. CASE /\ Move(l, "build", next) /\ WriteRecord(l, fields)
               /\ UNCHANGED <<provider, req, state, hold, machine>>
      BY <2>1, WriteRecordAdds DEF Move, Moves, LaunchIInv, LaunchTypeOK, Points
    <2>2. CASE /\ Move(l, "build", "over")
               /\ UNCHANGED <<provider, req, state, record, hold, machine, lost>>
      BY <2>2 DEF Move, Moves, LaunchIInv, LaunchTypeOK, Points
    <2> QED  BY <1>1, <2>1, <2>2 DEF Written
  <1>3. Good(l)'
    BY <1>1, IInvIsGood DEF Written, WriteRecord, Move, Good, Known, LaunchIInv, LaunchTypeOK
  <1> QED  BY <1>2, <1>3, MoveKeepsIInv

LEMMA QueueKeepsIInv ==
    ASSUME LaunchIInv, NEW l \in Launches, CheckCommand(l) \/ Queue(l) \/ TakeUp(l)
    PROVE  LaunchIInv'
  <1>1. CASE CheckCommand(l)
    <2>1. Moves(l)
      BY <1>1 DEF CheckCommand, WriteRecord, Move, Moves, LaunchIInv, LaunchTypeOK, Points, Fields
    <2>2. Good(l)'
      BY <1>1, IInvIsGood DEF CheckCommand, WriteRecord, Move, Good, Known, LaunchIInv, LaunchTypeOK
    <2> QED  BY <2>1, <2>2, MoveKeepsIInv
  <1>2. CASE Queue(l)
    <2>1. Moves(l)
      BY <1>2 DEF Queue, Move, Moves, LaunchIInv, LaunchTypeOK, Points
    <2>2. Good(l)'
      BY <1>2, IInvIsGood DEF Queue, Move, Good, Known, LaunchIInv, LaunchTypeOK
    <2> QED  BY <2>1, <2>2, MoveKeepsIInv
  <1>3. CASE TakeUp(l)
    <2>1. Moves(l)
      BY <1>3 DEF TakeUp, GiveUp, Move, Moves, LaunchIInv, LaunchTypeOK, Points
    <2>2. Good(l)'
      BY <1>3, IInvIsGood DEF TakeUp, Reconstructs, GiveUp, Move, Good, Known, LaunchIInv, LaunchTypeOK
    <2> QED  BY <2>1, <2>2, MoveKeepsIInv
  <1> QED  BY <1>1, <1>2, <1>3

LEMMA CallKeepsIInv ==
    ASSUME LaunchIInv, NEW l \in Launches, CallProvider(l) \/ CallResumed(l)
    PROVE  LaunchIInv'
  <1>1. Launched(l) \/ \E release \in BOOLEAN : NotLaunched(l, release)
    BY DEF CallProvider, CallResumed
  <1>2. Moves(l)
    BY <1>1 DEF Launched, NotLaunched, GiveUp, Move, Moves, LaunchIInv, LaunchTypeOK, Points
  <1>3. Good(l)'
    BY <1>1, IInvIsGood DEF Launched, NotLaunched, GiveUp, Move, Good, Known, LaunchIInv, LaunchTypeOK
  <1> QED  BY <1>2, <1>3, MoveKeepsIInv

LEMMA LaunchesFollow == LaunchIInv /\ [LaunchNext]_launchVars => LaunchIInv'
  <1> SUFFICES ASSUME LaunchIInv, [LaunchNext]_launchVars PROVE LaunchIInv'
    OBVIOUS
  <1>1. CASE ChangeProvider
    BY <1>1 DEF ChangeProvider, LaunchIInv, LaunchTypeOK, HoldIsWritten, KnownOnTheWay,
                MachineIsKnown, Known
  <1>2. CASE CutLaunches
    BY <1>2 DEF CutLaunches, LaunchIInv, LaunchTypeOK, Points, HoldIsWritten, KnownOnTheWay,
                MachineIsKnown, Known
  <1>3. CASE UNCHANGED launchVars
    BY <1>3 DEF launchVars, LaunchIInv, LaunchTypeOK, HoldIsWritten, KnownOnTheWay,
                MachineIsKnown, Known
  <1> QED
    BY <1>1, <1>2, <1>3, AdmitKeepsIInv, CopyFieldsKeepsIInv, BuildKeepsIInv,
       QueueKeepsIInv, CallKeepsIInv DEF LaunchNext

-----------------------------------------------------------------------------
\* Positions, records, holds and machines keep their types, for any launches.
THEOREM LaunchKeepsTypes == LaunchSpec => []LaunchTypeOK
  <1>1. LaunchIInv => LaunchTypeOK
    BY DEF LaunchIInv
  <1> QED  BY InitLaunches, LaunchesFollow, <1>1, PTL DEF LaunchSpec

\* A machine that a provider has taken is found by the record of its job, for any
\* number of launches and whatever writes fail: always for a remote launch, and
\* unless a write failed for a local or a resumed one.
THEOREM LaunchesAreRecorded == LaunchSpec => []LaunchIsRecorded
  <1>1. LaunchIInv => LaunchIsRecorded
    BY DEF LaunchIInv, LaunchTypeOK, HoldIsWritten, MachineIsKnown, Known, LaunchIsRecorded
  <1> QED  BY InitLaunches, LaunchesFollow, <1>1, PTL DEF LaunchSpec
-----------------------------------------------------------------------------
(* The SSH keys of a team. *)

\* What a call under way knows of status.json, of its files and of the machines,
\* as long as nothing was muddled: ...
Fits(q, cur, priv, pub, mach) ==
    \* ... it works on the current key, ...
    /\ q.step \in {"check", "private", "fillPrivate", "public", "fillPublic", "rename", "take"}
           => q.key = cur
    /\ q.step \in {"rm", "rmPub", "unset"} => q.old = cur /\ cur \in Keys
    /\ q.step \in {"saving", "renaming"} => cur = Torn
    \* ... no machine has a key that is about to be replaced, removed or made, ...
    /\ q.step \in {"save", "saving", "rmPub", "unset", "private", "fillPrivate", "public",
                   "fillPublic"} => mach = {}
    /\ q.step = "save" => cur # Torn /\ (cur \in Keys => priv[cur] = 0 /\ pub[cur] = 0)
    /\ q.step = "renaming" => \A p \in mach : priv[q.key] = p /\ pub[q.key] = p
    \* ... and files go, and come, private key first.
    /\ q.step \in {"rmPub", "unset"} => priv[q.old] = 0
    /\ q.step = "unset" => pub[q.old] = 0
    /\ q.step \in {"private", "fillPrivate", "public", "fillPublic"} => q.pair > 1
    /\ q.step = "private" => priv[q.key] = 0 \/ pub[q.key] = 0
    /\ q.step \in {"fillPrivate", "public"} => pub[q.key] = 0
    /\ q.step \in {"public", "fillPublic"} => priv[q.key] = q.pair
    /\ q.step = "fillPublic" => pub[q.key] = 1
    /\ q.step = "take" /\ q.want = "public" => priv[q.key] # 0 /\ pub[q.key] # 0

CallsFit ==
    \A c \in Callers : call[c] # NoCall => Fits(call[c], current, private, public, machines)

\* Nobody starts while status.json is empty.
TornAlone ==
    \A c \in Callers : At(c, "saving") \/ At(c, "renaming") =>
        \A d \in Callers \ {c} : call[d] = NoCall

\* The files of k are being removed.
Going(k) == \E c \in Callers : At(c, "rmPub") /\ call[c].old = k

\* A public key is that of the private key beside it, or empty.
PairsMatch ==
    \A k \in Keys : public[k] # 0 =>
        Going(k) \/ (private[k] > 1 /\ (public[k] = 1 \/ public[k] = private[k]))

\* Machines have the current key.
MachinesHaveCurrent ==
    \A p \in machines :
        \/ current \in Keys /\ private[current] = p /\ public[current] = p
        \/ current = Torn /\ \E k \in Keys : private[k] = p

KeysInv == muddled \/ (CallsFit /\ TornAlone /\ PairsMatch /\ MachinesHaveCurrent)

\* Call c goes on as q, or ends.
CallBecomes(c, q) == call' = [call EXCEPT ![c] = q]

LEMMA KeysStart == KeysInit => KeysTypeOK /\ KeysInv
  <1>1. KeysInit => KeysTypeOK
    <2> SUFFICES ASSUME KeysInit PROVE KeysTypeOK
      OBVIOUS
    <2>1. call \in [Callers -> CallShapes \cup {NoCall}]
      BY DEF KeysInit
    <2>2. private \in [Keys -> 0..pairs] /\ public \in [Keys -> 0..pairs] /\ pairs \in Nat \ {0}
      BY DEF KeysInit, Absent, Blank
    <2>3. current \in Keys \cup {NoKey, Torn} /\ muddled \in BOOLEAN /\ machines \subseteq 2..pairs
      BY DEF KeysInit
    <2>4. calls \in 0..MaxCalls
      BY KeysAssumption DEF KeysInit
    <2> QED  BY <2>1, <2>2, <2>3, <2>4 DEF KeysTypeOK
  <1>2. KeysInit => KeysInv
    BY DEF KeysInit, KeysInv, CallsFit, TornAlone, PairsMatch, MachinesHaveCurrent, At, Absent
  <1> QED  BY <1>1, <1>2

LEMMA IsCall == ASSUME KeysTypeOK, NEW q \in CallShapes PROVE q # NoCall
  BY KeysAssumption DEF CallShapes, KeysTypeOK

LEMMA StartIs ==
    ASSUME KeysTypeOK, NEW c \in Callers, NEW q, Start(c, q)
    PROVE  CallBecomes(c, q) /\ calls' \in 0..MaxCalls /\ call[c] = NoCall
  BY KeysAssumption DEF KeysTypeOK, Start, CallBecomes

\* A call that goes to step s is otherwise the same.
LEMMA GoToIs ==
    ASSUME KeysTypeOK, NEW c \in Callers, call[c] # NoCall, NEW s \in CallSteps, GoTo(c, s)
    PROVE  \E q \in CallShapes :
               /\ CallBecomes(c, q) /\ q.step = s /\ q.key = call[c].key /\ q.old = call[c].old
               /\ q.want = call[c].want /\ q.pair = call[c].pair
  <1> DEFINE q == [call[c] EXCEPT !.step = s]
  <1>1. call[c] \in CallShapes
    BY DEF KeysTypeOK
  <1>2. /\ q \in CallShapes /\ q.step = s /\ q.key = call[c].key /\ q.old = call[c].old
        /\ q.want = call[c].want /\ q.pair = call[c].pair
    BY <1>1 DEF CallShapes
  <1>3. CallBecomes(c, q)
    BY DEF GoTo, Go, CallBecomes
  <1> HIDE DEF q
  <1> QED  BY <1>2, <1>3

LEMMA CallIs ==
    ASSUME KeysTypeOK, NEW s \in CallSteps, NEW k \in Keys, NEW o \in Keys \cup {NoKey},
           NEW w \in Purposes
    PROVE  /\ Call(s, k, o, w) \in CallShapes /\ Call(s, k, o, w).step = s
           /\ Call(s, k, o, w).key = k /\ Call(s, k, o, w).old = o /\ Call(s, k, o, w).want = w
  <1>1. Call(s, k, o, w) \in CallShapes
    BY DEF Call, CallShapes, KeysTypeOK, Blank
  <1> QED  BY <1>1 DEF Call

\* A pair more, and calls that hold one of them.
LEMMA ShapesGrow ==
    ASSUME KeysTypeOK, pairs' \in {pairs, pairs + 1}, NEW c \in Callers, NEW q,
           q \in CallShapes' \cup {NoCall}, CallBecomes(c, q)
    PROVE  call' \in [Callers -> CallShapes' \cup {NoCall}]
  <1>1. CallShapes \subseteq CallShapes'
    BY DEF KeysTypeOK, CallShapes
  <1> QED  BY <1>1 DEF KeysTypeOK, CallBecomes

LEMMA KeysTypesFollow ==
    ASSUME KeysTypeOK, pairs' = pairs, calls' \in 0..MaxCalls,
           current' \in Keys \cup {NoKey, Torn}, muddled' \in BOOLEAN,
           private' \in [Keys -> 0..pairs], public' \in [Keys -> 0..pairs],
           machines' \subseteq 2..pairs,
           NEW c \in Callers, NEW q \in CallShapes \cup {NoCall}, CallBecomes(c, q)
    PROVE  KeysTypeOK'
  <1>1. q \in CallShapes' \cup {NoCall}
    BY DEF CallShapes
  <1>2. call' \in [Callers -> CallShapes' \cup {NoCall}]
    BY <1>1, ShapesGrow
  <1> QED  BY <1>2 DEF KeysTypeOK

LEMMA CallsAre ==
    ASSUME KeysTypeOK, NEW c \in Callers, NEW q, CallBecomes(c, q)
    PROVE  call'[c] = q /\ \A d \in Callers \ {c} : call'[d] = call[d]
  BY DEF KeysTypeOK, CallBecomes

\* A call starts, goes on or ends, and no file changes.
LEMMA FilesStay ==
    ASSUME KeysTypeOK, KeysInv, NEW c \in Callers, NEW q, CallBecomes(c, q),
           UNCHANGED <<keyFiles, machines, muddled>>, ~ At(c, "rmPub"),
           ~ muddled /\ q # NoCall =>
               /\ Fits(q, current, private, public, machines)
               /\ current # Torn /\ q.step \notin {"saving", "renaming"}
    PROVE  KeysInv'
  <1> SUFFICES ASSUME ~ muddled PROVE (CallsFit /\ TornAlone /\ PairsMatch /\ MachinesHaveCurrent)'
    BY DEF KeysInv
  <1>1. CallsFit /\ TornAlone /\ PairsMatch /\ MachinesHaveCurrent
    BY DEF KeysInv
  <1>2. call'[c] = q /\ \A d \in Callers \ {c} : call'[d] = call[d]
    BY CallsAre
  <1>3. UNCHANGED <<current, private, public, machines>>
    BY DEF keyFiles
  <1>4. CallsFit'
    BY <1>1, <1>2, <1>3 DEF CallsFit
  <1>5. TornAlone'
    <2>1. CASE q = NoCall
      BY <1>1, <1>2, <2>1 DEF TornAlone, At
    <2>2. CASE q # NoCall
      <3>1. \A d \in Callers : ~ At(d, "saving") /\ ~ At(d, "renaming")
        BY <1>1, <2>2 DEF CallsFit, Fits, At
      <3> QED  BY <1>2, <2>2, <3>1 DEF TornAlone, At
    <2> QED  BY <2>1, <2>2
  <1>6. PairsMatch'
    <2>1. \A x \in Keys : Going(x) => Going(x)'
      BY <1>2 DEF Going, At
    <2> QED  BY <1>1, <1>3, <2>1 DEF PairsMatch
  <1>7. MachinesHaveCurrent'
    BY <1>1, <1>3 DEF MachinesHaveCurrent
  <1> QED  BY <1>4, <1>5, <1>6, <1>7

\* In a step that touches files and muddles nothing, no other call is under way.
LEMMA Alone ==
    ASSUME KeysTypeOK, KeysInv, NEW c \in Callers, Touches(c), ~ muddled', call[c] # NoCall
    PROVE  /\ ~ muddled /\ \A d \in Callers \ {c} : call[d] = NoCall
           /\ CallsFit /\ PairsMatch /\ MachinesHaveCurrent
           /\ Fits(call[c], current, private, public, machines)
  BY DEF Touches, Shares, KeysInv, CallsFit

LEMMA FilesChange ==
    ASSUME KeysTypeOK, NEW c \in Callers, NEW q, CallBecomes(c, q), Touches(c),
           \A d \in Callers \ {c} : call[d] = NoCall,
           q # NoCall => Fits(q, current', private', public', machines'),
           PairsMatch', MachinesHaveCurrent'
    PROVE  KeysInv'
  <1>1. call'[c] = q /\ \A d \in Callers \ {c} : call'[d] = NoCall
    BY CallsAre
  <1>2. CallsFit'
    BY <1>1 DEF CallsFit
  <1>3. TornAlone'
    BY <1>1 DEF TornAlone, At
  <1> QED  BY <1>2, <1>3 DEF KeysInv

\* The steps that start a call.
LEMMA StartsKeep ==
    ASSUME KeysTypeOK, KeysInv, NEW c \in Callers, NEW q \in CallShapes, Start(c, q),
           UNCHANGED <<keyFiles, pairs, machines, muddled>>,
           \/ current \in Keys /\ q.step = "check" /\ q.key = current
           \/ current \in Keys /\ q.step = "rename" /\ q.key = current
           \/ current \in Keys /\ q.step = "take" /\ q.key = current /\ q.want = "show"
           \/ current \in Keys /\ q.step = "rm" /\ q.old = current
           \/ current = NoKey /\ q.step = "save"
    PROVE  KeysTypeOK' /\ KeysInv'
  <1>1. CallBecomes(c, q) /\ calls' \in 0..MaxCalls /\ call[c] = NoCall
    BY StartIs
  <1>2. KeysTypeOK'
    BY <1>1, KeysTypesFollow DEF KeysTypeOK, keyFiles
  <1>3. current # Torn /\ q.step \notin {"saving", "renaming"}
    BY KeysAssumption
  <1>4. current = NoKey => current \notin Keys
    BY KeysAssumption
  <1>5. ~ muddled /\ current = NoKey => machines = {}
    BY <1>3, <1>4 DEF KeysInv, MachinesHaveCurrent
  <1>6. ~ muddled => Fits(q, current, private, public, machines)
    BY <1>3, <1>4, <1>5 DEF Fits
  <1>7. KeysInv'
    BY <1>1, <1>3, <1>6, FilesStay DEF At
  <1> QED  BY <1>2, <1>7

LEMMA CallsBegin ==
    ASSUME KeysTypeOK, KeysInv, NEW c \in Callers,
           \/ \E w \in {"public", "private"} : Need(c, w)
           \/ ShowKey(c) \/ CreateKey(c) \/ DeleteKey(c) \/ RenameKey(c)
    PROVE  KeysTypeOK' /\ KeysInv'
  <1>1. ASSUME NEW w \in {"public", "private"}, Need(c, w) PROVE KeysTypeOK' /\ KeysInv'
    <2>1. UNCHANGED <<keyFiles, pairs, machines, muddled>>
      BY <1>1 DEF Need
    <2>2. CASE current \in Keys /\ Start(c, Call("check", current, NoKey, w))
      <3>1. PICK q \in CallShapes : q = Call("check", current, NoKey, w) /\ q.step = "check" /\ q.key = current
        BY <2>2 DEF Call, CallShapes, CallSteps, Purposes, KeysTypeOK, Blank
      <3> QED  BY <2>1, <2>2, <3>1, StartsKeep
    <2>3. ASSUME NEW k \in Keys, current = NoKey, Start(c, Call("save", k, NoKey, w))
          PROVE  KeysTypeOK' /\ KeysInv'
      <3>1. PICK q \in CallShapes : q = Call("save", k, NoKey, w) /\ q.step = "save"
        <4>1. Call("save", k, NoKey, w) \in CallShapes
          BY DEF Call, CallShapes, CallSteps, Purposes, KeysTypeOK, Blank
        <4> QED  BY <4>1 DEF Call
      <3> QED  BY <2>1, <2>3, <3>1, StartsKeep
    <2> QED  BY <1>1, <2>2, <2>3 DEF Need
  <1>2. CASE ShowKey(c)
    <2>1. /\ current \in Keys /\ Start(c, Call("take", current, NoKey, "show"))
          /\ UNCHANGED <<keyFiles, pairs, machines, muddled>>
      BY <1>2 DEF ShowKey
    <2>2. PICK q \in CallShapes : /\ q = Call("take", current, NoKey, "show") /\ q.step = "take"
                                  /\ q.key = current /\ q.want = "show"
      BY <2>1 DEF Call, CallShapes, CallSteps, Purposes, KeysTypeOK, Blank
    <2> QED  BY <2>1, <2>2, StartsKeep
  <1>3. CASE CreateKey(c)
    <2>1. current \in Keys \cup {NoKey} /\ UNCHANGED <<keyFiles, pairs, machines, muddled>>
      BY <1>3 DEF CreateKey, KeysTypeOK
    <2>2. PICK k \in Keys : Start(c, Call(IF current = NoKey THEN "save" ELSE "rm", k, current, "create"))
      BY <1>3 DEF CreateKey
    <2>3. CASE current = NoKey
      <3>1. PICK q \in CallShapes : q = Call("save", k, current, "create") /\ q.step = "save"
        <4>1. Call("save", k, current, "create") \in CallShapes
          BY <2>1 DEF Call, CallShapes, CallSteps, Purposes, KeysTypeOK, Blank
        <4> QED  BY <4>1 DEF Call
      <3>2. Start(c, q)
        BY <2>2, <2>3, <3>1
      <3> QED  BY <2>1, <2>3, <3>1, <3>2, StartsKeep
    <2>4. CASE current # NoKey
      <3>1. PICK q \in CallShapes : q = Call("rm", k, current, "create") /\ q.step = "rm" /\ q.old = current
        <4>1. Call("rm", k, current, "create") \in CallShapes
          BY <2>1 DEF Call, CallShapes, CallSteps, Purposes, KeysTypeOK, Blank
        <4> QED  BY <4>1 DEF Call
      <3>2. Start(c, q)
        BY <2>2, <2>4, <3>1
      <3> QED  BY <2>1, <2>4, <3>1, <3>2, StartsKeep
    <2> QED  BY <2>3, <2>4
  <1>4. CASE DeleteKey(c)
    <2>1. /\ current \in Keys /\ Start(c, Call("rm", current, current, "delete"))
          /\ UNCHANGED <<keyFiles, pairs, machines, muddled>>
      BY <1>4 DEF DeleteKey
    <2>2. PICK q \in CallShapes : q = Call("rm", current, current, "delete") /\ q.step = "rm" /\ q.old = current
      BY <2>1 DEF Call, CallShapes, CallSteps, Purposes, KeysTypeOK, Blank
    <2> QED  BY <2>1, <2>2, StartsKeep
  <1>5. CASE RenameKey(c)
    <2>1. /\ current \in Keys /\ Start(c, Call("rename", current, NoKey, "rename"))
          /\ UNCHANGED <<keyFiles, pairs, machines, muddled>>
      BY <1>5 DEF RenameKey
    <2>2. PICK q \in CallShapes : q = Call("rename", current, NoKey, "rename") /\ q.step = "rename" /\ q.key = current
      BY <2>1 DEF Call, CallShapes, CallSteps, Purposes, KeysTypeOK, Blank
    <2> QED  BY <2>1, <2>2, StartsKeep
  <1> QED  BY <1>1, <1>2, <1>3, <1>4, <1>5

\* Types after a step that touches files.
LEMMA TouchTypes ==
    ASSUME KeysTypeOK, NEW c \in Callers, Touches(c), NEW q \in CallShapes \cup {NoCall},
           CallBecomes(c, q), current' \in Keys \cup {NoKey, Torn},
           NEW k \in Keys, NEW n \in 0..pairs,
           private' \in {private, [private EXCEPT ![k] = n]},
           public' \in {public, [public EXCEPT ![k] = n]},
           machines' \in {machines, {}}
    PROVE  KeysTypeOK'
  <1>1. private' \in [Keys -> 0..pairs] /\ public' \in [Keys -> 0..pairs]
    BY DEF KeysTypeOK
  <1>2. pairs' = pairs /\ calls' \in 0..MaxCalls /\ muddled' \in BOOLEAN /\ machines' \subseteq 2..pairs
    BY DEF Touches, KeysTypeOK
  <1> QED  BY <1>1, <1>2, KeysTypesFollow

\* The steps that remove the files of a key.
LEMMA RemoveKeeps ==
    ASSUME KeysTypeOK, KeysInv, NEW c \in Callers,
           RemovePrivate(c) \/ RemovePublic(c) \/ Unset(c)
    PROVE  KeysTypeOK' /\ KeysInv'
  <1>0. {"rmPub", "save", "unset"} \subseteq CallSteps /\ 0 \in 0..pairs /\ NoKey \in Keys \cup {NoKey, Torn}
    BY DEF CallSteps, KeysTypeOK
  <1>1. CASE RemovePrivate(c)
    <2>1. /\ At(c, "rm") /\ private' = [private EXCEPT ![call[c].old] = 0] /\ machines' = {}
          /\ GoTo(c, "rmPub") /\ Touches(c) /\ UNCHANGED <<current, public>>
      BY <1>1 DEF RemovePrivate, Absent
    <2>2. PICK q \in CallShapes : CallBecomes(c, q) /\ q.step = "rmPub" /\ q.old = call[c].old
      BY <1>0, <2>1, GoToIs DEF At
    <2>3. ASSUME ~ muddled' PROVE KeysInv'
      <3>1. /\ \A d \in Callers \ {c} : call[d] = NoCall
            /\ PairsMatch /\ call[c].old = current /\ current \in Keys
        BY <2>1, <2>3, Alone DEF At, Fits
      <3>2. private'[current] = 0 /\ \A x \in Keys \ {current} : private'[x] = private[x]
        BY <2>1, <3>1 DEF KeysTypeOK
      <3>3. Fits(q, current', private', public', machines')
        BY <2>1, <2>2, <3>1, <3>2 DEF Fits
      <3>4. call'[c] = q
        BY <2>2, CallsAre
      <3>5. Going(current)'
        <4>1. q # NoCall
          BY <2>2, IsCall
        <4>2. current' = current
          BY <2>1
        <4> QED  BY <2>2, <3>1, <3>4, <4>1, <4>2 DEF Going, At
      <3>6. \A x \in Keys : ~ Going(x)
        BY <2>1, <3>1 DEF Going, At
      <3>7. PairsMatch'
        BY <2>1, <3>1, <3>2, <3>5, <3>6 DEF PairsMatch
      <3>8. MachinesHaveCurrent'
        BY <2>1 DEF MachinesHaveCurrent
      <3> QED  BY <2>1, <2>2, <3>1, <3>3, <3>7, <3>8, FilesChange
    <2>4. CASE call[c].old \in Keys
      BY <1>0, <2>1, <2>2, <2>3, <2>4, TouchTypes DEF KeysInv, KeysTypeOK
    <2>5. CASE call[c].old \notin Keys
      <3>1. private' = private
        BY <2>1, <2>5 DEF KeysTypeOK
      <3>2. call[c].key \in Keys
        BY <2>1 DEF At, KeysTypeOK, CallShapes
      <3> QED  BY <1>0, <2>1, <2>2, <2>3, <3>1, <3>2, TouchTypes DEF KeysInv, KeysTypeOK
    <2> QED  BY <2>4, <2>5
  <1>2. CASE RemovePublic(c)
    <2>1. /\ At(c, "rmPub") /\ public' = [public EXCEPT ![call[c].old] = 0]
          /\ Touches(c) /\ UNCHANGED <<current, private, machines>>
      BY <1>2 DEF RemovePublic, Absent
    <2>2. PICK q \in CallShapes : CallBecomes(c, q) /\ q.step \in {"save", "unset"} /\ q.old = call[c].old
      BY <1>0, <1>2, <2>1, GoToIs DEF RemovePublic, At
    <2>3. ASSUME ~ muddled' PROVE KeysInv'
      <3>1. /\ \A d \in Callers \ {c} : call[d] = NoCall
            /\ PairsMatch /\ call[c].old = current /\ current \in Keys /\ machines = {}
            /\ private[current] = 0
        BY <2>1, <2>3, Alone DEF At, Fits
      <3>2. public'[current] = 0 /\ \A x \in Keys \ {current} : public'[x] = public[x]
        BY <2>1, <3>1 DEF KeysTypeOK
      <3>3. Fits(q, current', private', public', machines')
        BY <2>1, <2>2, <3>1, <3>2, KeysAssumption DEF Fits
      <3>4. \A x \in Keys \ {current} : ~ Going(x)
        BY <2>1, <3>1 DEF Going, At
      <3>5. PairsMatch'
        BY <2>1, <3>1, <3>2, <3>4 DEF PairsMatch
      <3>6. MachinesHaveCurrent'
        BY <2>1, <3>1 DEF MachinesHaveCurrent
      <3> QED  BY <2>1, <2>2, <3>1, <3>3, <3>5, <3>6, FilesChange
    <2>4. CASE call[c].old \in Keys
      BY <1>0, <2>1, <2>2, <2>3, <2>4, TouchTypes DEF KeysInv, KeysTypeOK
    <2>5. CASE call[c].old \notin Keys
      <3>1. public' = public
        BY <2>1, <2>5 DEF KeysTypeOK
      <3>2. call[c].key \in Keys
        BY <2>1 DEF At, KeysTypeOK, CallShapes
      <3> QED  BY <1>0, <2>1, <2>2, <2>3, <3>1, <3>2, TouchTypes DEF KeysInv, KeysTypeOK
    <2> QED  BY <2>4, <2>5
  <1>3. CASE Unset(c)
    <2>1. /\ At(c, "unset") /\ current' = NoKey /\ CallBecomes(c, NoCall)
          /\ Touches(c) /\ UNCHANGED <<private, public, machines>>
      BY <1>3 DEF Unset, End, CallBecomes
    <2>2. call[c].key \in Keys
      BY <2>1 DEF At, KeysTypeOK, CallShapes
    <2>3. ASSUME ~ muddled' PROVE KeysInv'
      <3>1. (\A d \in Callers \ {c} : call[d] = NoCall) /\ PairsMatch /\ machines = {}
        BY <2>1, <2>3, Alone DEF At, Fits
      <3>2. \A x \in Keys : ~ Going(x)
        BY <2>1, <3>1 DEF Going, At
      <3>3. PairsMatch' /\ MachinesHaveCurrent'
        BY <2>1, <3>1, <3>2 DEF PairsMatch, MachinesHaveCurrent
      <3> QED  BY <2>1, <3>1, <3>3, FilesChange
    <2> QED  BY <1>0, <2>1, <2>2, <2>3, TouchTypes DEF KeysInv
  <1> QED  BY <1>1, <1>2, <1>3

\* The steps that write status.json.
LEMMA SaveKeeps ==
    ASSUME KeysTypeOK, KeysInv, NEW c \in Callers, EmptyStatus(c) \/ Save(c) \/ WriteName(c)
    PROVE  KeysTypeOK' /\ KeysInv'
  <1>0. /\ {"saving", "renaming", "check"} \subseteq CallSteps /\ 0 \in 0..pairs
        /\ Torn \in Keys \cup {NoKey, Torn}
    BY DEF CallSteps, KeysTypeOK
  <1>1. call[c] # NoCall /\ call[c].key \in Keys
    BY DEF EmptyStatus, Save, WriteName, At, KeysTypeOK, CallShapes
  <1>2. CASE EmptyStatus(c)
    <2>1. /\ At(c, "save") \/ At(c, "rename")
          /\ current' = Torn
          /\ Touches(c) /\ UNCHANGED <<private, public, machines>>
      BY <1>2 DEF EmptyStatus
    <2>2. PICK q \in CallShapes : /\ CallBecomes(c, q) /\ q.key = call[c].key
                                  /\ q.step = (IF At(c, "save") THEN "saving" ELSE "renaming")
      <3>1. CASE At(c, "save") /\ GoTo(c, "saving")
        BY <1>0, <1>1, <3>1, GoToIs
      <3>2. CASE At(c, "rename") /\ GoTo(c, "renaming")
        BY <1>0, <1>1, <3>2, GoToIs DEF At
      <3> QED  BY <1>2, <3>1, <3>2 DEF EmptyStatus
    <2>3. ASSUME ~ muddled' PROVE KeysInv'
      <3>1. /\ \A d \in Callers \ {c} : call[d] = NoCall
            /\ PairsMatch /\ MachinesHaveCurrent /\ Fits(call[c], current, private, public, machines)
        BY <1>1, <2>1, <2>3, Alone
      <3>2. \A x \in Keys : ~ Going(x)
        BY <2>1, <3>1 DEF Going, At
      <3>3. PairsMatch'
        BY <2>1, <3>1, <3>2 DEF PairsMatch
      <3>4. CASE At(c, "save")
        <4>1. machines = {}
          BY <3>1, <3>4 DEF At, Fits
        <4>2. Fits(q, current', private', public', machines') /\ MachinesHaveCurrent'
          BY <2>1, <2>2, <3>4, <4>1 DEF Fits, MachinesHaveCurrent
        <4> QED  BY <2>1, <2>2, <3>1, <3>3, <4>2, FilesChange
      <3>5. CASE ~ At(c, "save")
        <4>1. call[c].key = current /\ current # Torn
          BY <1>1, <2>1, <3>1, <3>5, KeysAssumption DEF At, Fits
        <4>2. \A p \in machines : private[call[c].key] = p /\ public[call[c].key] = p
          BY <3>1, <4>1 DEF MachinesHaveCurrent
        <4>3. Fits(q, current', private', public', machines')
          BY <2>1, <2>2, <3>5, <4>2 DEF Fits
        <4>4. MachinesHaveCurrent'
          BY <1>1, <2>1, <4>2 DEF MachinesHaveCurrent
        <4> QED  BY <2>1, <2>2, <3>1, <3>3, <4>3, <4>4, FilesChange
      <3> QED  BY <3>4, <3>5
    <2> QED  BY <1>0, <1>1, <2>1, <2>2, <2>3, TouchTypes DEF KeysInv
  <1>3. CASE Save(c)
    <2>1. /\ At(c, "saving") /\ current' = call[c].key
          /\ GoTo(c, "check") /\ Touches(c) /\ UNCHANGED <<private, public, machines>>
      BY <1>3 DEF Save
    <2>2. PICK q \in CallShapes : CallBecomes(c, q) /\ q.step = "check" /\ q.key = call[c].key
      BY <1>0, <1>1, <2>1, GoToIs
    <2>3. ASSUME ~ muddled' PROVE KeysInv'
      <3>1. (\A d \in Callers \ {c} : call[d] = NoCall) /\ PairsMatch /\ machines = {}
        BY <1>1, <2>1, <2>3, Alone DEF At, Fits
      <3>2. \A x \in Keys : ~ Going(x)
        BY <2>1, <3>1 DEF Going, At
      <3>3. PairsMatch' /\ MachinesHaveCurrent'
        BY <2>1, <3>1, <3>2 DEF PairsMatch, MachinesHaveCurrent
      <3>4. Fits(q, current', private', public', machines')
        BY <2>1, <2>2 DEF Fits
      <3> QED  BY <2>1, <2>2, <3>1, <3>3, <3>4, FilesChange
    <2> QED  BY <1>0, <1>1, <2>1, <2>2, <2>3, TouchTypes DEF KeysInv
  <1>4. CASE WriteName(c)
    <2>1. /\ At(c, "renaming") /\ current' = call[c].key /\ CallBecomes(c, NoCall)
          /\ Touches(c) /\ UNCHANGED <<private, public, machines>>
      BY <1>4 DEF WriteName, End, CallBecomes
    <2>2. ASSUME ~ muddled' PROVE KeysInv'
      <3>1. /\ \A d \in Callers \ {c} : call[d] = NoCall
            /\ PairsMatch /\ \A p \in machines : private[call[c].key] = p /\ public[call[c].key] = p
        BY <1>1, <2>1, <2>2, Alone DEF At, Fits
      <3>2. \A x \in Keys : ~ Going(x)
        BY <2>1, <3>1 DEF Going, At
      <3>3. PairsMatch' /\ MachinesHaveCurrent'
        BY <1>1, <2>1, <3>1, <3>2 DEF PairsMatch, MachinesHaveCurrent
      <3> QED  BY <2>1, <3>1, <3>3, FilesChange
    <2> QED  BY <1>0, <1>1, <2>1, <2>2, TouchTypes DEF KeysInv
  <1> QED  BY <1>2, <1>3, <1>4

\* Whether the files are there is decided, and maybe a pair generated.
LEMMA CheckKeeps ==
    ASSUME KeysTypeOK, KeysInv, NEW c \in Callers, Check(c)
    PROVE  KeysTypeOK' /\ KeysInv'
  <1>1. /\ At(c, "check") /\ call[c] # NoCall /\ call[c] \in CallShapes /\ call[c].key \in Keys
        /\ UNCHANGED <<keyFiles, calls, machines, muddled>>
    BY DEF Check, At, KeysTypeOK, CallShapes
  <1>2. ~ muddled => call[c].key = current /\ current # Torn
    BY <1>1, KeysAssumption DEF KeysInv, CallsFit, Fits, At
  <1>3. CASE Made(call[c].key) /\ GoTo(c, "take") /\ UNCHANGED pairs
    <2>1. PICK q \in CallShapes : CallBecomes(c, q) /\ q.step = "take" /\ q.key = call[c].key
      BY <1>1, <1>3, GoToIs DEF CallSteps
    <2>2. KeysTypeOK'
      BY <1>1, <1>3, <2>1, KeysTypesFollow DEF KeysTypeOK, keyFiles
    <2>3. ~ muddled => Fits(q, current, private, public, machines)
      BY <1>2, <1>3, <2>1 DEF Fits, Made, Absent
    <2>4. KeysInv'
      BY <1>1, <1>2, <2>1, <2>3, FilesStay DEF At
    <2> QED  BY <2>2, <2>4
  <1>4. CASE ~ Made(call[c].key)
    <2>1. pairs' = pairs + 1 /\ Go(c, [call[c] EXCEPT !.step = "private", !.pair = pairs + 1])
      BY <1>4 DEF Check
    <2>2. PICK q : q = [call[c] EXCEPT !.step = "private", !.pair = pairs + 1]
      OBVIOUS
    <2>3. q = [step |-> "private", key |-> call[c].key, old |-> call[c].old,
               want |-> call[c].want, pair |-> pairs + 1]
      BY <1>1, <2>2 DEF CallShapes
    <2>4. CallBecomes(c, q)
      BY <2>1, <2>2 DEF Go, CallBecomes
    <2>5. pairs + 1 \in 1..pairs' /\ pairs + 1 > 1
      BY <2>1 DEF KeysTypeOK
    <2>6. q \in CallShapes'
      BY <1>1, <2>3, <2>5 DEF CallShapes, CallSteps
    <2>7. KeysTypeOK'
      <3>1. 0..pairs \subseteq 0..pairs' /\ 2..pairs \subseteq 2..pairs' /\ pairs' \in Nat \ {0}
        BY <2>1 DEF KeysTypeOK
      <3>2. call' \in [Callers -> CallShapes' \cup {NoCall}]
        BY <2>1, <2>4, <2>6, ShapesGrow
      <3>3. private' \in [Keys -> 0..pairs'] /\ public' \in [Keys -> 0..pairs']
        BY <1>1, <3>1 DEF KeysTypeOK, keyFiles
      <3>4. machines' \subseteq 2..pairs'
        BY <1>1, <3>1 DEF KeysTypeOK
      <3> QED  BY <1>1, <3>1, <3>2, <3>3, <3>4 DEF KeysTypeOK, keyFiles
    <2>8. ~ muddled => Fits(q, current, private, public, machines)
      <3> SUFFICES ASSUME ~ muddled PROVE Fits(q, current, private, public, machines)
        OBVIOUS
      <3>1. private[current] = 0 \/ public[current] = 0
        BY <1>2, <1>4 DEF Made, Absent
      <3>2. \A p \in machines : p # 0
        BY DEF KeysTypeOK
      <3>3. machines = {}
        BY <1>1, <1>2, <3>1, <3>2 DEF KeysInv, MachinesHaveCurrent
      <3> QED  BY <1>2, <2>3, <2>5, <3>1, <3>3 DEF Fits
    <2>9. q.step \notin {"saving", "renaming"} /\ ~ At(c, "rmPub")
      BY <1>1, <2>3 DEF At
    <2>10. KeysInv'
      BY <1>1, <1>2, <2>4, <2>8, <2>9, FilesStay
    <2> QED  BY <2>7, <2>10
  <1> QED  BY <1>3, <1>4 DEF Check

\* The steps that write the two files of a pair.
LEMMA GenerateKeeps ==
    ASSUME KeysTypeOK, KeysInv, NEW c \in Callers,
           EmptyPrivate(c) \/ WritePrivate(c) \/ EmptyPublic(c) \/ WritePublic(c)
    PROVE  KeysTypeOK' /\ KeysInv'
  <1>0. {"fillPrivate", "public", "fillPublic", "take"} \subseteq CallSteps
    BY DEF CallSteps
  <1>1. /\ call[c] # NoCall /\ call[c].key \in Keys /\ call[c].pair \in 0..pairs /\ 1 \in 0..pairs
        /\ current' = current /\ current \in Keys \cup {NoKey, Torn} /\ machines' = machines /\ Touches(c)
    BY DEF EmptyPrivate, WritePrivate, EmptyPublic, WritePublic, At, KeysTypeOK, CallShapes
  <1>2. ~ muddled' =>
            /\ \A d \in Callers \ {c} : call[d] = NoCall
            /\ PairsMatch /\ Fits(call[c], current, private, public, machines)
    BY <1>1, Alone
  <1>3. ASSUME ~ muddled', machines = {} PROVE MachinesHaveCurrent'
    BY <1>1, <1>3 DEF MachinesHaveCurrent
  <1>4. ASSUME ~ muddled', ~ At(c, "rmPub") PROVE \A x \in Keys : ~ Going(x)
    BY <1>2, <1>4 DEF Going, At
  <1>5. CASE EmptyPrivate(c)
    <2>1. /\ At(c, "private") /\ private' = [private EXCEPT ![call[c].key] = 1]
          /\ GoTo(c, "fillPrivate") /\ public' = public
      BY <1>5 DEF EmptyPrivate, Blank
    <2>2. PICK q \in CallShapes : /\ CallBecomes(c, q) /\ q.step = "fillPrivate"
                                  /\ q.key = call[c].key /\ q.pair = call[c].pair
      BY <1>0, <1>1, <2>1, GoToIs
    <2>3. ASSUME ~ muddled' PROVE KeysInv'
      <3>1. /\ call[c].key = current /\ machines = {} /\ call[c].pair > 1
            /\ private[call[c].key] = 0 \/ public[call[c].key] = 0
        BY <1>2, <2>1, <2>3 DEF At, Fits
      <3>2. \A x \in Keys : ~ Going(x)
        BY <1>4, <2>1, <2>3 DEF At
      <3>3. public[call[c].key] = 0
        BY <1>1, <1>2, <2>3, <3>1, <3>2 DEF PairsMatch
      <3>4. Fits(q, current', private', public', machines')
        BY <1>1, <2>1, <2>2, <3>1, <3>3 DEF Fits
      <3>5. PairsMatch'
        <4>1. \A x \in Keys : x # call[c].key => private'[x] = private[x]
          BY <2>1 DEF KeysTypeOK
        <4> QED  BY <1>2, <2>1, <2>3, <3>2, <3>3, <4>1 DEF PairsMatch
      <3> QED  BY <1>1, <1>2, <1>3, <2>2, <2>3, <3>1, <3>4, <3>5, FilesChange
    <2> QED  BY <1>1, <2>1, <2>2, <2>3, TouchTypes DEF KeysInv
  <1>6. CASE WritePrivate(c)
    <2>1. /\ At(c, "fillPrivate") /\ private' = [private EXCEPT ![call[c].key] = call[c].pair]
          /\ GoTo(c, "public") /\ public' = public
      BY <1>6 DEF WritePrivate
    <2>2. PICK q \in CallShapes : /\ CallBecomes(c, q) /\ q.step = "public"
                                  /\ q.key = call[c].key /\ q.pair = call[c].pair
      BY <1>0, <1>1, <2>1, GoToIs
    <2>3. ASSUME ~ muddled' PROVE KeysInv'
      <3>1. /\ call[c].key = current /\ machines = {} /\ call[c].pair > 1
            /\ public[call[c].key] = 0
        BY <1>2, <2>1, <2>3 DEF At, Fits
      <3>2. \A x \in Keys : ~ Going(x)
        BY <1>4, <2>1, <2>3 DEF At
      <3>3. /\ private'[call[c].key] = call[c].pair
            /\ \A x \in Keys : x # call[c].key => private'[x] = private[x]
        BY <1>1, <2>1 DEF KeysTypeOK
      <3>4. Fits(q, current', private', public', machines')
        BY <1>1, <2>1, <2>2, <3>1, <3>3 DEF Fits
      <3>5. PairsMatch'
        BY <1>2, <2>1, <2>3, <3>1, <3>2, <3>3 DEF PairsMatch
      <3> QED  BY <1>1, <1>2, <1>3, <2>2, <2>3, <3>1, <3>4, <3>5, FilesChange
    <2> QED  BY <1>1, <2>1, <2>2, <2>3, TouchTypes DEF KeysInv
  <1>7. CASE EmptyPublic(c)
    <2>1. /\ At(c, "public") /\ public' = [public EXCEPT ![call[c].key] = 1]
          /\ GoTo(c, "fillPublic") /\ private' = private
      BY <1>7 DEF EmptyPublic, Blank
    <2>2. PICK q \in CallShapes : /\ CallBecomes(c, q) /\ q.step = "fillPublic"
                                  /\ q.key = call[c].key /\ q.pair = call[c].pair
      BY <1>0, <1>1, <2>1, GoToIs
    <2>3. ASSUME ~ muddled' PROVE KeysInv'
      <3>1. /\ call[c].key = current /\ machines = {} /\ call[c].pair > 1
            /\ private[call[c].key] = call[c].pair
        BY <1>2, <2>1, <2>3 DEF At, Fits
      <3>2. \A x \in Keys : ~ Going(x)
        BY <1>4, <2>1, <2>3 DEF At
      <3>3. /\ public'[call[c].key] = 1
            /\ \A x \in Keys : x # call[c].key => public'[x] = public[x]
        BY <1>1, <2>1 DEF KeysTypeOK
      <3>4. Fits(q, current', private', public', machines')
        BY <1>1, <2>1, <2>2, <3>1, <3>3 DEF Fits
      <3>5. PairsMatch'
        BY <1>2, <2>1, <2>3, <3>1, <3>2, <3>3 DEF PairsMatch
      <3> QED  BY <1>1, <1>2, <1>3, <2>2, <2>3, <3>1, <3>4, <3>5, FilesChange
    <2> QED  BY <1>1, <2>1, <2>2, <2>3, TouchTypes DEF KeysInv
  <1>8. CASE WritePublic(c)
    <2>1. /\ At(c, "fillPublic") /\ public' = [public EXCEPT ![call[c].key] = call[c].pair]
          /\ GoTo(c, "take") /\ private' = private
      BY <1>8 DEF WritePublic
    <2>2. PICK q \in CallShapes : /\ CallBecomes(c, q) /\ q.step = "take"
                                  /\ q.key = call[c].key /\ q.pair = call[c].pair
      BY <1>0, <1>1, <2>1, GoToIs
    <2>3. ASSUME ~ muddled' PROVE KeysInv'
      <3>1. /\ call[c].key = current /\ machines = {} /\ call[c].pair > 1
            /\ private[call[c].key] = call[c].pair
        BY <1>2, <2>1, <2>3 DEF At, Fits
      <3>2. \A x \in Keys : ~ Going(x)
        BY <1>4, <2>1, <2>3 DEF At
      <3>3. /\ public'[call[c].key] = call[c].pair
            /\ \A x \in Keys : x # call[c].key => public'[x] = public[x]
        BY <1>1, <2>1 DEF KeysTypeOK
      <3>4. Fits(q, current', private', public', machines')
        BY <1>1, <2>1, <2>2, <3>1, <3>3 DEF Fits
      <3>5. PairsMatch'
        BY <1>2, <2>1, <2>3, <3>1, <3>2, <3>3 DEF PairsMatch
      <3> QED  BY <1>1, <1>2, <1>3, <2>2, <2>3, <3>1, <3>4, <3>5, FilesChange
    <2> QED  BY <1>1, <2>1, <2>2, <2>3, TouchTypes DEF KeysInv
  <1> QED  BY <1>5, <1>6, <1>7, <1>8

\* A machine is given the public key: nobody was about to change it.
LEMMA MachineKeeps ==
    ASSUME KeysTypeOK, KeysInv, NEW c \in Callers, At(c, "take"), Wants(c, "public"),
           current \in Keys, public[current] \notin {0, 1}, CallBecomes(c, NoCall),
           machines' = machines \cup {public[current]}, UNCHANGED <<keyFiles, muddled>>
    PROVE  KeysInv'
  <1> SUFFICES ASSUME ~ muddled PROVE (CallsFit /\ TornAlone /\ PairsMatch /\ MachinesHaveCurrent)'
    BY DEF KeysInv
  <1>1. CallsFit /\ TornAlone /\ PairsMatch /\ MachinesHaveCurrent
    BY DEF KeysInv
  <1>2. call'[c] = NoCall /\ \A d \in Callers \ {c} : call'[d] = call[d]
    BY CallsAre
  <1>3. UNCHANGED <<current, private, public>>
    BY DEF keyFiles
  <1>4. private[current] # 0 /\ current # Torn
    BY <1>1, KeysAssumption DEF At, Wants, CallsFit, Fits
  <1>5. \A d \in Callers : call[d] # NoCall =>
            call[d].step \notin {"save", "saving", "renaming", "rmPub", "unset", "private",
                                 "fillPrivate", "public", "fillPublic"}
    <2> SUFFICES ASSUME NEW d \in Callers, call[d] # NoCall,
                        Fits(call[d], current, private, public, machines)
                 PROVE  call[d].step \notin {"save", "saving", "renaming", "rmPub", "unset",
                            "private", "fillPrivate", "public", "fillPublic"}
      BY <1>1 DEF CallsFit
    <2> QED  BY <1>4 DEF Fits
  <1>6. CallsFit'
    <2> SUFFICES ASSUME NEW d \in Callers \ {c}, call[d] # NoCall
                 PROVE  Fits(call[d], current, private, public, machines')
      BY <1>2, <1>3 DEF CallsFit
    <2>1. Fits(call[d], current, private, public, machines)
      BY <1>1 DEF CallsFit
    <2>2. call[d].step \notin {"save", "saving", "renaming", "rmPub", "unset", "private",
                               "fillPrivate", "public", "fillPublic"}
      BY <1>5
    <2> QED  BY <2>1, <2>2 DEF Fits
  <1>7. TornAlone'
    BY <1>1, <1>2 DEF TornAlone, At
  <1>8. \A x \in Keys : ~ Going(x)
    BY <1>5 DEF Going, At
  <1>9. PairsMatch'
    BY <1>1, <1>3, <1>8 DEF PairsMatch
  <1>10. private[current] = public[current]
    BY <1>1, <1>8 DEF PairsMatch
  <1>11. MachinesHaveCurrent'
    BY <1>1, <1>3, <1>4, <1>10 DEF MachinesHaveCurrent
  <1> QED  BY <1>6, <1>7, <1>9, <1>11

LEMMA EndKeeps ==
    ASSUME KeysTypeOK, KeysInv, NEW c \in Callers, TakePublic(c) \/ EndTake(c) \/ CutCall(c)
    PROVE  KeysTypeOK' /\ KeysInv'
  <1>1. CASE TakePublic(c)
    <2>1. At(c, "take") /\ current \in Keys /\ UNCHANGED <<keyFiles, calls, pairs, muddled>>
      BY <1>1 DEF TakePublic
    <2>2. public[current] \in 0..pairs /\ pairs \in Nat /\ machines \subseteq 2..pairs
      BY <2>1 DEF KeysTypeOK
    <2>3. CASE public[current] \notin {0, 1} /\ CallBecomes(c, NoCall) /\ Wants(c, "public")
                 /\ machines' = machines \cup {public[current]}
      <3>1. machines' \subseteq 2..pairs
        <4>1. public[current] \in 2..pairs
          BY <2>2, <2>3
        <4> QED  BY <2>2, <2>3, <4>1
      <3>2. KeysTypeOK'
        BY <2>1, <2>3, <3>1, KeysTypesFollow DEF KeysTypeOK, keyFiles
      <3>3. KeysInv'
        BY <2>1, <2>3, MachineKeeps
      <3> QED  BY <3>2, <3>3
    <2>4. CASE CallBecomes(c, NoCall) /\ machines' = machines
      <3>1. KeysTypeOK'
        BY <2>1, <2>2, <2>4, KeysTypesFollow DEF KeysTypeOK, keyFiles
      <3>2. KeysInv'
        BY <2>1, <2>4, FilesStay DEF At
      <3> QED  BY <3>1, <3>2
    <2>5. CASE Go(c, Call("check", current, NoKey, call[c].want)) /\ machines' = machines
      <3>1. call[c].want \in Purposes
        BY <2>1 DEF At, KeysTypeOK, CallShapes
      <3>2. PICK q \in CallShapes : /\ q = Call("check", current, NoKey, call[c].want)
                                    /\ q.step = "check" /\ q.key = current
        BY <2>1, <3>1, CallIs DEF CallSteps
      <3>3. CallBecomes(c, q)
        BY <2>5, <3>2 DEF Go, CallBecomes
      <3>4. KeysTypeOK'
        BY <2>1, <2>2, <2>5, <3>3, KeysTypesFollow DEF KeysTypeOK, keyFiles
      <3>5. Fits(q, current, private, public, machines) /\ current # Torn
        BY <2>1, <3>2, KeysAssumption DEF Fits
      <3>6. KeysInv'
        BY <2>1, <2>5, <3>2, <3>3, <3>5, FilesStay DEF At
      <3> QED  BY <3>4, <3>6
    <2>6. End(c) => CallBecomes(c, NoCall)
      BY DEF End, CallBecomes
    <2> QED  BY <1>1, <2>3, <2>4, <2>5, <2>6 DEF TakePublic, Absent, Blank
  <1>2. CASE EndTake(c)
    <2>1. At(c, "take") /\ CallBecomes(c, NoCall) /\ UNCHANGED <<keyFiles, calls, pairs, machines, muddled>>
      BY <1>2 DEF EndTake, End, CallBecomes
    <2>2. KeysTypeOK'
      BY <2>1, KeysTypesFollow DEF KeysTypeOK, keyFiles
    <2>3. KeysInv'
      BY <2>1, FilesStay DEF At
    <2> QED  BY <2>2, <2>3
  <1>3. CASE CutCall(c)
    <2>1. /\ CallBecomes(c, NoCall) /\ UNCHANGED <<keyFiles, calls, pairs, machines>>
          /\ muddled' = (muddled \/ At(c, "rmPub"))
      BY <1>3 DEF CutCall, End, CallBecomes
    <2>2. muddled' \in BOOLEAN
      BY <2>1
    <2>3. KeysTypeOK'
      BY <2>1, <2>2, KeysTypesFollow DEF KeysTypeOK, keyFiles
    <2>4. CASE At(c, "rmPub")
      BY <2>1, <2>3, <2>4 DEF KeysInv
    <2>5. CASE ~ At(c, "rmPub")
      <3>1. muddled' = muddled
        BY <2>1, <2>5 DEF KeysTypeOK
      <3>2. KeysInv'
        BY <2>1, <2>5, <3>1, FilesStay
      <3> QED  BY <2>3, <3>2
    <2> QED  BY <2>4, <2>5
  <1> QED  BY <1>1, <1>2, <1>3

LEMMA StepKeys ==
    ASSUME KeysTypeOK, KeysInv, [KeysNext]_keyVars PROVE KeysTypeOK' /\ KeysInv'
  <1>1. CASE UNCHANGED keyVars
    BY <1>1 DEF keyVars, keyFiles, KeysTypeOK, KeysInv, CallsFit, TornAlone, PairsMatch, Going,
                MachinesHaveCurrent, At, CallShapes
  <1>2. ASSUME NEW c \in Callers,
               \/ \E w \in {"public", "private"} : Need(c, w)
               \/ ShowKey(c) \/ CreateKey(c) \/ DeleteKey(c) \/ RenameKey(c)
        PROVE  KeysTypeOK' /\ KeysInv'
    BY <1>2, CallsBegin
  <1>3. ASSUME NEW c \in Callers, RemovePrivate(c) \/ RemovePublic(c) \/ Unset(c)
        PROVE  KeysTypeOK' /\ KeysInv'
    BY <1>3, RemoveKeeps
  <1>4. ASSUME NEW c \in Callers, EmptyStatus(c) \/ Save(c) \/ WriteName(c)
        PROVE  KeysTypeOK' /\ KeysInv'
    BY <1>4, SaveKeeps
  <1>5. ASSUME NEW c \in Callers, Check(c) PROVE KeysTypeOK' /\ KeysInv'
    BY <1>5, CheckKeeps
  <1>6. ASSUME NEW c \in Callers,
               EmptyPrivate(c) \/ WritePrivate(c) \/ EmptyPublic(c) \/ WritePublic(c)
        PROVE  KeysTypeOK' /\ KeysInv'
    BY <1>6, GenerateKeeps
  <1>7. ASSUME NEW c \in Callers, TakePublic(c) \/ EndTake(c) \/ CutCall(c)
        PROVE  KeysTypeOK' /\ KeysInv'
    BY <1>7, EndKeeps
  <1> QED  BY ONLY <1>1, <1>2, <1>3, <1>4, <1>5, <1>6, <1>7, [KeysNext]_keyVars DEF KeysNext

\* The key files, the calls and the history stay what they are meant to be, and a
\* call names a key and a pair that was generated (ssh_key_service.py).
THEOREM KeysKeepTypes == KeysSpec => []KeysTypeOK
  BY KeysStart, StepKeys, PTL DEF KeysSpec

\* Whatever calls come, are cut between any two steps or find the key replaced: as
\* long as no file was written while another call was under way, and no removal
\* was cut between its two files, the private key of the team opens every machine
\* that was given a public one, or is at least still there when status.json was
\* left empty (create_ssh_key, delete_ssh_key, update_ssh_key, save_status,
\* generate_ssh_key_pair, get_org_ssh_public_key).
THEOREM MachinesStayOpen == KeysSpec => []MachinesOpen
  <1>1. KeysInv => MachinesOpen
    BY KeysAssumption DEF KeysInv, MachinesHaveCurrent, MachinesOpen
  <1> QED  BY KeysStart, StepKeys, <1>1, PTL DEF KeysSpec

-----------------------------------------------------------------------------
(* The providers of a team. *)

\* What is in use is taken.
IdsTaken ==
    /\ Has \subseteq taken
    /\ \A e \in Edits : Doing(e, "insert") \/ Doing(e, "start") => edit[e].id \in taken

OnlyRowsPatched == \A p \in Providers \ Has : patched[p] = {}

\* What request q read is still so.
ReadHolds(q) ==
    /\ q.op \in {"insert", "start"} => q.id \notin Has /\ ~ q.row.default
    /\ q.op = "insert" => \A p \in Has : row[p].name # q.row.name
    /\ q.op = "start" => q.row.name = Local /\ q.row.type = "local"
    /\ q.op = "profile" => patched[q.id] = {}
    /\ q.op = "found" /\ q.id \in Has => patched[q.id] \subseteq q.row.config
    /\ q.op = "patch" /\ q.id \in Has =>
          /\ row[q.id] = q.old /\ q.row.type = q.old.type
          /\ q.row.name # q.old.name => \A p \in Has \ {q.id} : row[p].name # q.row.name

ReadsHold == \A e \in Edits : edit[e] # NoEdit => ReadHolds(edit[e])

RowsAgree == OneDefault /\ DistinctNames /\ SettingsKept

ProvidersIInv == IdsTaken /\ OnlyRowsPatched /\ (overlapped \/ (RowsAgree /\ ReadsHold))

\* Request e goes on as q, or ends.
EditBecomes(e, q) == edit' = [edit EXCEPT ![e] = q]

LEMMA InitProviders == ProvidersInit => ProvidersTypeOK /\ ProvidersIInv
  <1> SUFFICES ASSUME ProvidersInit PROVE ProvidersTypeOK /\ ProvidersIInv
    OBVIOUS
  <1>1. row \in [Providers -> Rows \cup {NoRow}] /\ taken \subseteq Providers
    BY DEF ProvidersInit
  <1>2. patched \in [Providers -> SUBSET Settings] /\ overlapped \in BOOLEAN
    BY DEF ProvidersInit
  <1>7. edits \in 0..MaxEdits
    BY ProvidersAssumption DEF ProvidersInit
  <1>3. ProvidersTypeOK
    BY <1>1, <1>2, <1>7 DEF ProvidersTypeOK, ProvidersInit
  <1>4. Has \subseteq taken /\ \A p, q \in Has : p = q
    BY DEF ProvidersInit, Has
  <1>5. \A e \in Edits : edit[e] = NoEdit
    BY DEF ProvidersInit
  <1>6. \A p \in Providers : patched[p] = {}
    BY DEF ProvidersInit
  <1> QED
    BY <1>3, <1>4, <1>5, <1>6 DEF ProvidersIInv, IdsTaken, OnlyRowsPatched, RowsAgree, OneDefault,
       DistinctNames, SettingsKept, ReadsHold, Doing, Has

LEMMA ProvTypesFollow ==
    ASSUME ProvidersTypeOK, row' \in [Providers -> Rows \cup {NoRow}], taken' \subseteq Providers,
           edits' \in 0..MaxEdits, patched' \in [Providers -> SUBSET Settings],
           overlapped' \in BOOLEAN, NEW e \in Edits, NEW q \in EditShapes \cup {NoEdit},
           EditBecomes(e, q)
    PROVE  ProvidersTypeOK'
  BY DEF ProvidersTypeOK, EditBecomes

\* What a row in use is.
LEMMA RowsOfHas == ASSUME ProvidersTypeOK, NEW p \in Has PROVE row[p] \in Rows
  BY DEF ProvidersTypeOK, Has

\* Requests that stay or end, one of them begun or gone on.
LEMMA OneEdit ==
    ASSUME ProvidersTypeOK, NEW e \in Edits, NEW q, EditBecomes(e, q)
    PROVE  edit'[e] = q /\ \A f \in Edits \ {e} : edit'[f] = edit[f]
  BY DEF ProvidersTypeOK, EditBecomes

LEMMA ReadsFollow ==
    ASSUME \A f \in Edits : \A r : r = edit'[f] /\ r # NoEdit => ReadHolds(r)'
    PROVE  ReadsHold'
  BY DEF ReadsHold, ReadHolds, Has

\* A step that leaves the rows alone.
LEMMA ReadKeeps ==
    ASSUME ProvidersTypeOK, ProvidersIInv, UNCHANGED <<row, patched, overlapped>>, taken \subseteq taken',
           NEW e \in Edits, NEW q, EditBecomes(e, q),
           q = NoEdit \/ ((overlapped \/ ReadHolds(q)) /\ (q.op \in {"insert", "start"} => q.id \in taken'))
    PROVE  ProvidersIInv'
  <1>1. edit'[e] = q /\ \A f \in Edits \ {e} : edit'[f] = edit[f]
    BY OneEdit
  <1>2. Has' = Has
    BY DEF Has
  <1>3. IdsTaken'
    BY <1>1, <1>2 DEF ProvidersIInv, IdsTaken, Doing
  <1>4. OnlyRowsPatched'
    BY <1>2 DEF ProvidersIInv, OnlyRowsPatched
  <1>5. \A r : ReadHolds(r)' <=> ReadHolds(r)
    BY <1>2 DEF ReadHolds
  <1>6. ~ overlapped => ReadsHold'
    <2> SUFFICES ASSUME ~ overlapped, NEW f \in Edits, NEW r, r = edit'[f], r # NoEdit
                 PROVE  ReadHolds(r)'
      BY ReadsFollow
    <2> QED  BY <1>1, <1>5 DEF ProvidersIInv, ReadsHold
  <1>7. ~ overlapped => RowsAgree'
    BY <1>2 DEF ProvidersIInv, RowsAgree, OneDefault, DistinctNames, SettingsKept
  <1> QED  BY <1>3, <1>4, <1>6, <1>7 DEF ProvidersIInv

\* A write that comes between the read and the write of nobody.
LEMMA NobodyElse ==
    ASSUME ProvidersTypeOK, NEW e \in Edits, Crossed(e), ~ overlapped'
    PROVE  ~ overlapped /\ \A f \in Edits \ {e} : edit[f] = NoEdit \/ edit[f].op = "setup"
  BY DEF Crossed

\* Such a write ends, or goes on as q.
LEMMA WriteReads ==
    ASSUME ProvidersTypeOK, NEW e \in Edits, NEW q, EditBecomes(e, q), Crossed(e), ~ overlapped',
           q = NoEdit \/ ReadHolds(q)'
    PROVE  ReadsHold'
  <1> SUFFICES ASSUME NEW f \in Edits, NEW r, r = edit'[f], r # NoEdit PROVE ReadHolds(r)'
    BY ReadsFollow
  <1>1. CASE f = e
    BY <1>1, OneEdit
  <1>2. CASE f # e
    <2>1. r.op = "setup"
      BY <1>2, OneEdit, NobodyElse
    <2> QED  BY <2>1 DEF ReadHolds
  <1> QED  BY <1>1, <1>2

LEMMA WriteIds ==
    ASSUME ProvidersTypeOK, ProvidersIInv, NEW e \in Edits, NEW q, EditBecomes(e, q),
           q = NoEdit \/ q.op \notin {"insert", "start"}, UNCHANGED taken, Has' \subseteq taken
    PROVE  IdsTaken'
  BY OneEdit DEF ProvidersIInv, IdsTaken, Doing

\* A name that nobody else has, or one of a local provider.
LEMMA NamesStay ==
    ASSUME ProvidersTypeOK, DistinctNames, NEW p \in Providers, NEW r \in Rows,
           row' = [row EXCEPT ![p] = r],
           \/ p \in Has /\ r.name = row[p].name /\ r.type = row[p].type
           \/ \A x \in Has \ {p} : row[x].name # r.name
           \/ r.name = Local /\ r.type = "local"
    PROVE  DistinctNames'
  <1>1. row'[p] = r /\ \A x \in Providers \ {p} : row'[x] = row[x]
    BY DEF ProvidersTypeOK
  <1>2. Has' = Has \cup {p}
    BY <1>1, ProvidersAssumption DEF Has
  <1>3. SUFFICES ASSUME NEW x \in Has', NEW y \in Has', row'[x].name = row'[y].name, x # y
                 PROVE  \E z \in {x, y} : row'[z].type = "local" /\ row'[z].name = Local
    BY DEF DistinctNames
  <1>4. CASE x # p /\ y # p
    BY <1>1, <1>2, <1>3, <1>4 DEF DistinctNames, Has
  <1>5. ASSUME NEW z \in {x, y}, z # p, p \in {x, y}
        PROVE  \E w \in {x, y} : row'[w].type = "local" /\ row'[w].name = Local
    <2>1. row'[z] = row[z] /\ row[z].name = r.name /\ z \in Has
      BY <1>1, <1>2, <1>3, <1>5 DEF Has
    <2>2. \/ r.name = Local /\ r.type = "local"
          \/ p \in Has /\ r.name = row[p].name /\ r.type = row[p].type
      BY <1>5, <2>1
    <2>3. CASE r.name = Local /\ r.type = "local"
      BY <1>1, <1>5, <2>3
    <2>4. CASE p \in Has /\ r.name = row[p].name /\ r.type = row[p].type
      <3>1. row[p].name = row[z].name /\ p # z
        BY <1>5, <2>1, <2>4
      <3>2. \E w \in {p, z} : row[w].type = "local" /\ row[w].name = Local
        BY <2>1, <2>4, <3>1 DEF DistinctNames
      <3> QED  BY <1>1, <1>5, <2>1, <2>4, <3>2
    <2> QED  BY <2>2, <2>3, <2>4
  <1> QED  BY <1>3, <1>4, <1>5

LEMMA InsertKeeps ==
    ASSUME ProvidersTypeOK, ProvidersIInv, NEW e \in Edits, InsertRow(e)
    PROVE  ProvidersTypeOK' /\ ProvidersIInv'
  <1>1. PICK q : q = edit[e]
    OBVIOUS
  <1>2. /\ q \in EditShapes /\ q.op \in {"insert", "start"} /\ q # NoEdit
        /\ row' = [row EXCEPT ![q.id] = q.row] /\ Crossed(e) /\ UNCHANGED <<taken, edits, patched>>
    BY <1>1 DEF InsertRow, Doing, ProvidersTypeOK
  <1>3. q \in [op : {"insert", "start", "profile", "setup", "found"}, id : Providers, row : Rows]
    BY <1>2 DEF EditShapes
  <1>4. PICK r : /\ EditBecomes(e, r)
                 /\ r = NoEdit \/ r = [q EXCEPT !.op = "setup"] \/ r = [q EXCEPT !.op = "profile"]
    BY <1>1 DEF InsertRow, EndEdit, EditBecomes
  <1>5. r \in EditShapes \cup {NoEdit} /\ (r = NoEdit \/ (r.op \in {"setup", "profile"} /\ r.id = q.id))
    BY <1>3, <1>4 DEF EditShapes
  <1>6. row' \in [Providers -> Rows \cup {NoRow}]
    BY <1>2, <1>3 DEF ProvidersTypeOK
  <1>7. ProvidersTypeOK'
    <2>1. overlapped' \in BOOLEAN
      BY <1>2 DEF ProvidersTypeOK, Crossed
    <2> QED  BY <1>2, <1>4, <1>5, <1>6, <2>1, ProvTypesFollow DEF ProvidersTypeOK
  <1>8. Has' = Has \cup {q.id} /\ row'[q.id] = q.row /\ \A x \in Providers \ {q.id} : row'[x] = row[x]
    BY <1>2, <1>3, ProvidersAssumption DEF Has, ProvidersTypeOK
  <1>9. IdsTaken'
    <2>1. q.id \in taken
      BY <1>1, <1>2 DEF ProvidersIInv, IdsTaken, Doing
    <2> QED  BY <1>2, <1>4, <1>5, <1>8, <2>1, WriteIds DEF ProvidersIInv, IdsTaken
  <1>10. OnlyRowsPatched'
    BY <1>2, <1>8 DEF ProvidersIInv, OnlyRowsPatched
  <1>11. ASSUME ~ overlapped' PROVE RowsAgree' /\ ReadsHold'
    <2>1. ~ overlapped /\ RowsAgree /\ ReadHolds(q)
      BY <1>1, <1>2, <1>11, NobodyElse DEF ProvidersIInv, ReadsHold
    <2>2. q.id \notin Has /\ ~ q.row.default /\ patched[q.id] = {}
      BY <1>2, <1>3, <2>1 DEF ReadHolds, ProvidersIInv, OnlyRowsPatched
    <2>3. OneDefault'
      BY <1>8, <2>1, <2>2 DEF RowsAgree, OneDefault, Has
    <2>4. DistinctNames'
      <3>1. q.op = "insert" => \A x \in Has \ {q.id} : row[x].name # q.row.name
        BY <2>1 DEF ReadHolds
      <3>2. q.op = "start" => q.row.name = Local /\ q.row.type = "local"
        BY <2>1 DEF ReadHolds
      <3> QED  BY <1>2, <1>3, <2>1, <3>1, <3>2, NamesStay DEF RowsAgree
    <2>5. SettingsKept'
      BY <1>2, <1>8, <2>1, <2>2 DEF RowsAgree, SettingsKept, Has
    <2>6. r = NoEdit \/ ReadHolds(r)'
      BY <1>2, <1>5, <2>2 DEF ReadHolds
    <2> QED  BY <1>2, <1>4, <1>11, <2>3, <2>4, <2>5, <2>6, WriteReads DEF RowsAgree
  <1> QED  BY <1>7, <1>9, <1>10, <1>11 DEF ProvidersIInv

\* The config of a row is written, with what was patched.
LEMMA ConfigKeeps ==
    ASSUME ProvidersTypeOK, ProvidersIInv, NEW e \in Edits, NEW q \in EditShapes,
           q = edit[e], q # NoEdit, NEW s \in Settings, q.op \in {"profile", "found"},
           row' = IF q.id \in Has
                  THEN [row EXCEPT ![q.id].config = q.row.config \cup {s}] ELSE row,
           EndEdit(e), Crossed(e), UNCHANGED <<taken, edits, patched>>
    PROVE  ProvidersTypeOK' /\ ProvidersIInv'
  <1>1. q \in [op : {"insert", "start", "profile", "setup", "found"}, id : Providers, row : Rows]
    BY DEF EditShapes
  <1>2. EditBecomes(e, NoEdit)
    BY DEF EndEdit, EditBecomes
  <1>3. PICK r : q.id \in Has => r = [row[q.id] EXCEPT !.config = q.row.config \cup {s}]
    OBVIOUS
  <1>4. q.id \in Has => /\ r \in Rows /\ r.name = row[q.id].name /\ r.type = row[q.id].type
                        /\ r.default = row[q.id].default /\ r.config = q.row.config \cup {s}
                        /\ row' = [row EXCEPT ![q.id] = r]
    <2>1. q.id \in Has => row[q.id] \in Rows
      BY RowsOfHas
    <2>2. q.row.config \cup {s} \in SUBSET Settings
      BY <1>1 DEF Rows
    <2>3. q.id \in Has => r = [name |-> row[q.id].name, type |-> row[q.id].type,
              config |-> q.row.config \cup {s}, disabled |-> row[q.id].disabled,
              default |-> row[q.id].default]
      BY <1>3, <2>1 DEF Rows
    <2>4. q.id \in Has => r \in Rows
      BY <2>1, <2>2, <2>3 DEF Rows
    <2> QED  BY <1>1, <1>3, <2>3, <2>4 DEF ProvidersTypeOK
  <1>5. row' \in [Providers -> Rows \cup {NoRow}]
    BY <1>1, <1>4 DEF ProvidersTypeOK
  <1>6. ProvidersTypeOK'
    <2>1. overlapped' \in BOOLEAN
      BY DEF ProvidersTypeOK, Crossed
    <2> QED  BY <1>2, <1>5, <2>1, ProvTypesFollow DEF ProvidersTypeOK
  <1>7. \A x \in Providers : (x = q.id /\ x \in Has) \/ row'[x] = row[x]
    BY <1>1, <1>4 DEF ProvidersTypeOK
  <1>8. q.id \in Has => row'[q.id] = r
    BY <1>1, <1>4 DEF ProvidersTypeOK
  <1>9. Has' = Has
    BY <1>4, <1>7, <1>8, ProvidersAssumption DEF Has
  <1>10. IdsTaken' /\ OnlyRowsPatched'
    BY <1>2, <1>9, WriteIds DEF ProvidersIInv, IdsTaken, OnlyRowsPatched
  <1>11. ASSUME ~ overlapped' PROVE RowsAgree' /\ ReadsHold'
    <2>1. ~ overlapped /\ RowsAgree /\ ReadHolds(q)
      BY <1>11, NobodyElse DEF ProvidersIInv, ReadsHold
    <2>2. OneDefault'
      BY <1>4, <1>7, <1>8, <1>9, <2>1 DEF RowsAgree, OneDefault, Has
    <2>3. DistinctNames'
      <3>1. CASE q.id \in Has
        BY <1>1, <1>4, <2>1, <3>1, NamesStay DEF RowsAgree
      <3>2. CASE q.id \notin Has
        BY <1>9, <2>1, <3>2 DEF RowsAgree, DistinctNames
      <3> QED  BY <3>1, <3>2
    <2>4. q.id \in Has => patched[q.id] \subseteq q.row.config
      BY <2>1 DEF ReadHolds
    <2>5. SettingsKept'
      <3> SUFFICES ASSUME NEW x \in Has PROVE patched[x] \subseteq row'[x].config
        BY <1>9 DEF SettingsKept
      <3>1. x \in Providers /\ patched[x] \subseteq row[x].config
        BY <2>1 DEF RowsAgree, SettingsKept, Has
      <3> QED  BY <1>4, <1>7, <1>8, <2>4, <3>1
    <2> QED  BY <1>2, <1>11, <2>2, <2>3, <2>5, WriteReads DEF RowsAgree
  <1> QED  BY <1>6, <1>10, <1>11 DEF ProvidersIInv

LEMMA PatchKeeps ==
    ASSUME ProvidersTypeOK, ProvidersIInv, NEW e \in Edits, WritePatch(e)
    PROVE  ProvidersTypeOK' /\ ProvidersIInv'
  <1>1. PICK q : q = edit[e]
    OBVIOUS
  <1>2. q \in EditShapes /\ q.op = "patch" /\ q # NoEdit /\ Crossed(e) /\ UNCHANGED <<taken, edits>>
    BY <1>1 DEF WritePatch, Doing, ProvidersTypeOK
  <1>3. q \in [op : {"patch"}, id : Providers, row : Rows, old : Rows]
    BY <1>2 DEF EditShapes
  <1>4. EditBecomes(e, NoEdit)
    BY DEF WritePatch, EndEdit, EditBecomes
  <1>5. patched' = [patched EXCEPT ![q.id] = IF q.id \in Has THEN q.row.config ELSE patched[q.id]]
    BY <1>1 DEF WritePatch
  <1>6. PICK r : r = [name |-> IF q.row.name = q.old.name THEN row[q.id].name ELSE q.row.name,
                      type |-> row[q.id].type,
                      config |-> IF q.row.config = q.old.config THEN row[q.id].config
                                 ELSE q.row.config,
                      disabled |-> IF q.row.disabled = q.old.disabled THEN row[q.id].disabled
                                   ELSE q.row.disabled,
                      default |-> IF q.row.default = q.old.default THEN row[q.id].default
                                  ELSE q.row.default]
    OBVIOUS
  <1>7. row' = [p \in Providers |->
                   IF p \notin Has THEN NoRow
                   ELSE IF p = q.id THEN r
                   ELSE IF q.row.default THEN [row[p] EXCEPT !.default = FALSE] ELSE row[p]]
    BY <1>1, <1>6 DEF WritePatch
  <1>8. q.id \in Has => r \in Rows
    BY <1>3, <1>6, RowsOfHas DEF Rows
  <1>9. \A p \in Has \ {q.id} :
            /\ row'[p] \in Rows /\ row'[p].name = row[p].name /\ row'[p].type = row[p].type
            /\ row'[p].config = row[p].config
            /\ IF q.row.default THEN ~ row'[p].default ELSE row'[p] = row[p]
    <2> SUFFICES ASSUME NEW p \in Has, p # q.id
                 PROVE /\ row'[p] \in Rows /\ row'[p].name = row[p].name /\ row'[p].type = row[p].type
                       /\ row'[p].config = row[p].config
                       /\ IF q.row.default THEN ~ row'[p].default ELSE row'[p] = row[p]
      OBVIOUS
    <2>1. row[p] \in Rows /\ p \in Providers
      BY RowsOfHas DEF Has
    <2>2. row'[p] = IF q.row.default THEN [row[p] EXCEPT !.default = FALSE] ELSE row[p]
      BY <1>7, <2>1
    <2> QED  BY <2>1, <2>2 DEF Rows
  <1>10. q.id \in Has => row'[q.id] = r
    BY <1>3, <1>7
  <1>11. \A p \in Providers \ Has : row'[p] = NoRow /\ row[p] = NoRow
    BY <1>7 DEF Has
  <1>12. Has' = Has
    BY <1>8, <1>9, <1>10, <1>11, ProvidersAssumption DEF Has
  <1>13. ProvidersTypeOK'
    <2>1. row' \in [Providers -> Rows \cup {NoRow}]
      <3>1. \A p \in Providers : row'[p] \in Rows \cup {NoRow}
        BY <1>8, <1>9, <1>10, <1>11
      <3> QED  BY <1>7, <3>1
    <2>2. patched' \in [Providers -> SUBSET Settings]
      BY <1>3, <1>5 DEF ProvidersTypeOK, Rows
    <2>3. overlapped' \in BOOLEAN
      BY <1>2 DEF ProvidersTypeOK, Crossed
    <2> QED  BY <1>2, <1>4, <2>1, <2>2, <2>3, ProvTypesFollow DEF ProvidersTypeOK
  <1>14. /\ \A p \in Providers \ {q.id} : patched'[p] = patched[p]
         /\ patched'[q.id] = IF q.id \in Has THEN q.row.config ELSE patched[q.id]
    BY <1>3, <1>5 DEF ProvidersTypeOK
  <1>15. IdsTaken' /\ OnlyRowsPatched'
    <2>1. IdsTaken'
      BY <1>2, <1>4, <1>12, WriteIds DEF ProvidersIInv, IdsTaken
    <2>2. OnlyRowsPatched'
      BY <1>12, <1>14 DEF ProvidersIInv, OnlyRowsPatched
    <2> QED  BY <2>1, <2>2
  <1>16. ASSUME ~ overlapped' PROVE RowsAgree' /\ ReadsHold'
    <2>1. ~ overlapped /\ RowsAgree /\ ReadHolds(q)
      BY <1>1, <1>2, <1>16, NobodyElse DEF ProvidersIInv, ReadsHold
    <2>2. q.id \in Has => /\ row[q.id] = q.old /\ q.row.type = q.old.type
                          /\ q.row.name # q.old.name => \A p \in Has \ {q.id} : row[p].name # q.row.name
      BY <1>2, <2>1 DEF ReadHolds
    <2>3. q.id \in Has => /\ r.name = q.row.name /\ r.config = q.row.config
                          /\ r.default = q.row.default /\ r.type = row[q.id].type
      BY <1>6, <2>2
    <2>4. OneDefault'
      <3> SUFFICES ASSUME NEW x \in Has, NEW y \in Has, row'[x].default, row'[y].default, x # y
                   PROVE  FALSE
        BY <1>12 DEF OneDefault
      <3>1. CASE q.row.default /\ q.id \in Has
        BY <1>9, <3>1
      <3>2. CASE q.row.default /\ q.id \notin Has
        BY <1>9, <3>2
      <3>3. CASE ~ q.row.default
        <4>1. x # q.id /\ y # q.id
          BY <1>10, <2>3, <3>3
        <4> QED  BY <1>9, <2>1, <3>3, <4>1 DEF RowsAgree, OneDefault
      <3> QED  BY <3>1, <3>2, <3>3
    <2>5. DistinctNames'
      <3> SUFFICES ASSUME NEW x \in Has, NEW y \in Has, row'[x].name = row'[y].name, x # y
                   PROVE  \E z \in {x, y} : row'[z].type = "local" /\ row'[z].name = Local
        BY <1>12 DEF DistinctNames
      <3>1. CASE \A z \in {x, y} : row'[z].name = row[z].name /\ row'[z].type = row[z].type
        BY <2>1, <3>1 DEF RowsAgree, DistinctNames
      <3>2. ASSUME NEW z \in {x, y}, z # q.id, q.id \in {x, y}, q.row.name # q.old.name PROVE FALSE
        <4>1. row[z].name # q.row.name /\ z \in Has /\ q.id \in Has
          BY <2>2, <3>2
        <4>2. row'[z].name = row[z].name /\ row'[q.id].name = q.row.name
          BY <1>9, <1>10, <2>3, <3>2, <4>1
        <4>3. row'[z].name = row'[q.id].name
          BY <3>2
        <4> QED  BY <4>1, <4>2, <4>3
      <3>3. \A z \in {x, y} : z = q.id /\ q.row.name = q.old.name =>
                row'[z].name = row[z].name /\ row'[z].type = row[z].type
        BY <1>10, <2>2, <2>3
      <3>4. \A z \in {x, y} : z # q.id => row'[z].name = row[z].name /\ row'[z].type = row[z].type
        BY <1>9
      <3> QED  BY <3>1, <3>2, <3>3, <3>4
    <2>6. SettingsKept'
      <3> SUFFICES ASSUME NEW x \in Has PROVE patched'[x] \subseteq row'[x].config
        BY <1>12 DEF SettingsKept
      <3>1. CASE x = q.id
        BY <1>10, <1>14, <2>3, <3>1
      <3>2. CASE x # q.id
        BY <1>9, <1>14, <2>1, <3>2 DEF RowsAgree, SettingsKept, Has
      <3> QED  BY <3>1, <3>2
    <2> QED  BY <1>2, <1>4, <1>16, <2>4, <2>5, <2>6, WriteReads DEF RowsAgree
  <1> QED  BY <1>13, <1>15, <1>16 DEF ProvidersIInv

LEMMA DeleteKeeps ==
    ASSUME ProvidersTypeOK, ProvidersIInv, NEW p \in Providers, DeleteRow(p)
    PROVE  ProvidersTypeOK' /\ ProvidersIInv'
  <1>1. /\ row' = [row EXCEPT ![p] = NoRow] /\ patched' = [patched EXCEPT ![p] = {}]
        /\ UNCHANGED <<taken, edit, overlapped>> /\ edits' = edits + 1 /\ edits < MaxEdits
    BY DEF DeleteRow
  <1>2. ProvidersTypeOK'
    BY <1>1, ProvidersAssumption DEF ProvidersTypeOK
  <1>3. /\ Has' = Has \ {p} /\ \A x \in Providers \ {p} : row'[x] = row[x] /\ patched'[x] = patched[x]
        /\ patched'[p] = {}
    BY <1>1 DEF ProvidersTypeOK, Has
  <1>4. IdsTaken'
    BY <1>1, <1>3 DEF ProvidersIInv, IdsTaken, Doing
  <1>5. OnlyRowsPatched'
    BY <1>3 DEF ProvidersIInv, OnlyRowsPatched
  <1>6. ASSUME ~ overlapped PROVE RowsAgree' /\ ReadsHold'
    <2>1. RowsAgree /\ ReadsHold
      BY <1>6 DEF ProvidersIInv
    <2>2. \A x \in Has' : x \in Has /\ row'[x] = row[x] /\ patched'[x] = patched[x]
      BY <1>3 DEF Has
    <2>3. OneDefault' /\ DistinctNames' /\ SettingsKept'
      BY <2>1, <2>2 DEF RowsAgree, OneDefault, DistinctNames, SettingsKept
    <2>4. ReadsHold'
      <3> SUFFICES ASSUME NEW f \in Edits, NEW r, r = edit'[f], r # NoEdit PROVE ReadHolds(r)'
        BY ReadsFollow
      <3>1. ReadHolds(r) /\ r \in EditShapes
        BY <1>1, <2>1 DEF ReadsHold, ProvidersTypeOK
      <3>2. r.id \in Providers
        BY <3>1 DEF EditShapes
      <3>3. patched'[r.id] = patched[r.id] \/ patched'[r.id] = {}
        BY <1>3, <3>2
      <3> QED  BY <1>3, <2>2, <3>1, <3>2, <3>3 DEF ReadHolds
    <2> QED  BY <2>3, <2>4 DEF RowsAgree
  <1> QED  BY <1>1, <1>2, <1>4, <1>5, <1>6 DEF ProvidersIInv

\* A request begins.
LEMMA BeginEditKeeps ==
    ASSUME ProvidersTypeOK, ProvidersIInv, NEW e \in Edits, NEW q \in EditShapes, BeginEdit(e, q),
           taken \subseteq taken', taken' \subseteq Providers,
           overlapped \/ ReadHolds(q), q.op \in {"insert", "start"} => q.id \in taken'
    PROVE  ProvidersTypeOK' /\ ProvidersIInv'
  <1>1. EditBecomes(e, q) /\ UNCHANGED <<row, patched, overlapped>> /\ edits' \in 0..MaxEdits
    BY ProvidersAssumption DEF BeginEdit, EditBecomes, ProvidersTypeOK
  <1>2. ProvidersTypeOK'
    BY <1>1, ProvTypesFollow DEF ProvidersTypeOK
  <1> QED  BY <1>1, <1>2, ReadKeeps

LEMMA InsertIs ==
    ASSUME NEW op \in {"insert", "start"}, NEW p \in Providers, NEW n \in ProviderNames,
           NEW type \in Types, NEW config \in SUBSET Settings
    PROVE  LET q == Insert(op, p, n, type, config) IN
               /\ q \in EditShapes /\ q.op = op /\ q.id = p /\ ~ q.row.default
               /\ q.row.name = n /\ q.row.type = type
  <1>1. [name |-> n, type |-> type, config |-> config, disabled |-> FALSE, default |-> FALSE] \in Rows
    BY DEF Rows
  <1> QED  BY <1>1 DEF Insert, EditShapes

LEMMA AsksKeepProviders ==
    ASSUME ProvidersTypeOK, ProvidersIInv, NEW e \in Edits,
           \/ \E n \in ProviderNames, type \in Types : AskProvider(e, n, type)
           \/ AskLocal(e)
           \/ \E p \in Providers, n \in ProviderNames, more, disabled, default \in BOOLEAN :
                 AskPatch(e, p, n, more, disabled, default)
    PROVE  ProvidersTypeOK' /\ ProvidersIInv'
  <1>1. ASSUME NEW n \in ProviderNames, NEW type \in Types, AskProvider(e, n, type)
        PROVE  ProvidersTypeOK' /\ ProvidersIInv'
    <2>1. PICK p \in Providers \ taken : /\ BeginEdit(e, Insert("insert", p, n, type, {"user"}))
                                         /\ taken' = taken \cup {p}
      BY <1>1 DEF AskProvider
    <2>2. PICK q : q = Insert("insert", p, n, type, {"user"})
      OBVIOUS
    <2>3. /\ q \in EditShapes /\ q.op = "insert" /\ q.id = p /\ ~ q.row.default /\ q.row.name = n
      BY <2>2, InsertIs DEF Settings
    <2>4. ReadHolds(q)
      BY <1>1, <2>1, <2>3 DEF ReadHolds, AskProvider, ProvidersIInv, IdsTaken
    <2> QED  BY <2>1, <2>2, <2>3, <2>4, BeginEditKeeps DEF ProvidersTypeOK
  <1>2. ASSUME AskLocal(e) PROVE ProvidersTypeOK' /\ ProvidersIInv'
    <2>1. PICK p \in Providers \ taken : /\ BeginEdit(e, Insert("start", p, Local, "local", {"found"}))
                                         /\ taken' = taken \cup {p}
      BY <1>2 DEF AskLocal
    <2>2. PICK q : q = Insert("start", p, Local, "local", {"found"})
      OBVIOUS
    <2>3. /\ q \in EditShapes /\ q.op = "start" /\ q.id = p /\ ~ q.row.default
          /\ q.row.name = Local /\ q.row.type = "local"
      BY <2>2, InsertIs, ProvidersAssumption DEF Settings, Types
    <2>4. ReadHolds(q)
      BY <2>1, <2>3 DEF ReadHolds, ProvidersIInv, IdsTaken
    <2> QED  BY <2>1, <2>2, <2>3, <2>4, BeginEditKeeps DEF ProvidersTypeOK
  <1>3. ASSUME NEW p \in Providers, NEW n \in ProviderNames, NEW more \in BOOLEAN,
               NEW disabled \in BOOLEAN, NEW default \in BOOLEAN,
               AskPatch(e, p, n, more, disabled, default)
        PROVE  ProvidersTypeOK' /\ ProvidersIInv'
    <2>1. /\ p \in Has /\ row[p] \in Rows /\ UNCHANGED taken
          /\ n # row[p].name => \A x \in Has \ {p} : row[x].name # n
      BY <1>3, RowsOfHas DEF AskPatch
    <2>2. PICK config : config = IF more THEN row[p].config \cup {"more"} ELSE row[p].config
      OBVIOUS
    <2>3. PICK r : r = [row[p] EXCEPT !.name = n, !.config = config, !.disabled = disabled,
                                      !.default = default]
      OBVIOUS
    <2>4. PICK q : q = [op |-> "patch", id |-> p, row |-> r, old |-> row[p]]
      OBVIOUS
    <2>5. BeginEdit(e, q)
      BY <1>3, <2>2, <2>3, <2>4 DEF AskPatch
    <2>6. config \in SUBSET Settings
      BY <2>1, <2>2 DEF Rows, Settings
    <2>7. r = [name |-> n, type |-> row[p].type, config |-> config, disabled |-> disabled,
               default |-> default]
      BY <2>1, <2>3 DEF Rows
    <2>8. r \in Rows
      BY <2>1, <2>6, <2>7 DEF Rows
    <2>9. q \in EditShapes
      BY <2>1, <2>4, <2>8 DEF EditShapes
    <2>10. ReadHolds(q)
      BY <2>1, <2>4, <2>7 DEF ReadHolds
    <2>11. q.op = "patch"
      BY <2>4
    <2> QED  BY <2>1, <2>5, <2>9, <2>10, <2>11, BeginEditKeeps DEF ProvidersTypeOK
  <1> QED  BY <1>1, <1>2, <1>3

LEMMA SetupKeeps ==
    ASSUME ProvidersTypeOK, ProvidersIInv, NEW e \in Edits, ReadForSetup(e) \/ CutEdit(e)
    PROVE  ProvidersTypeOK' /\ ProvidersIInv'
  <1>1. UNCHANGED <<row, taken, edits, patched, overlapped>>
    BY DEF ReadForSetup, CutEdit
  <1>2. CASE EditBecomes(e, NoEdit)
    <2>1. ProvidersTypeOK'
      BY <1>1, <1>2, ProvTypesFollow DEF ProvidersTypeOK
    <2> QED  BY <1>1, <1>2, <2>1, ReadKeeps
  <1>3. ASSUME NEW q, q = [op |-> "found", id |-> edit[e].id, row |-> row[edit[e].id]],
               EditBecomes(e, q), edit[e].id \in Has
        PROVE  ProvidersTypeOK' /\ ProvidersIInv'
    <2>1. q.op = "found" /\ q.id \in Has /\ q.row = row[q.id] /\ q.row \in Rows
      BY <1>3, RowsOfHas
    <2>2. q \in EditShapes
      BY <1>3, <2>1 DEF EditShapes, Has
    <2>3. overlapped \/ ReadHolds(q)
      BY <2>1 DEF ReadHolds, ProvidersIInv, RowsAgree, SettingsKept
    <2>4. ProvidersTypeOK'
      BY <1>1, <1>3, <2>2, ProvTypesFollow DEF ProvidersTypeOK
    <2> QED  BY <1>1, <1>3, <2>1, <2>3, <2>4, ReadKeeps
  <1> QED  BY <1>2, <1>3 DEF ReadForSetup, CutEdit, EndEdit, EditBecomes

LEMMA ProvidersFollow ==
    ProvidersTypeOK /\ ProvidersIInv /\ [ProvidersNext]_provVars => ProvidersTypeOK' /\ ProvidersIInv'
  <1> SUFFICES ASSUME ProvidersTypeOK, ProvidersIInv, [ProvidersNext]_provVars
               PROVE  ProvidersTypeOK' /\ ProvidersIInv'
    OBVIOUS
  <1>1. CASE UNCHANGED provVars
    BY <1>1 DEF provVars, ProvidersTypeOK, ProvidersIInv, IdsTaken, OnlyRowsPatched, RowsAgree,
       OneDefault, DistinctNames, SettingsKept, ReadsHold, ReadHolds, Doing, Has
  <1>2. ASSUME NEW e \in Edits, AddProfile(e) PROVE ProvidersTypeOK' /\ ProvidersIInv'
    <2>1. PICK q : q = edit[e]
      OBVIOUS
    <2>2. /\ q \in EditShapes /\ q # NoEdit /\ q.op = "profile" /\ "profile" \in Settings
      BY <1>2, <2>1 DEF AddProfile, Doing, ProvidersTypeOK, Settings
    <2>3. row' = IF q.id \in Has
                 THEN [row EXCEPT ![q.id].config = q.row.config \cup {"profile"}] ELSE row
      BY <1>2, <2>1 DEF AddProfile
    <2>4. EndEdit(e) /\ Crossed(e) /\ UNCHANGED <<taken, edits, patched>>
      BY <1>2 DEF AddProfile
    <2> QED  BY <2>1, <2>2, <2>3, <2>4, ConfigKeeps
  <1>3. ASSUME NEW e \in Edits, WriteFound(e) PROVE ProvidersTypeOK' /\ ProvidersIInv'
    <2>1. PICK q : q = edit[e]
      OBVIOUS
    <2>2. /\ q \in EditShapes /\ q # NoEdit /\ q.op = "found" /\ "found" \in Settings
      BY <1>3, <2>1 DEF WriteFound, Doing, ProvidersTypeOK, Settings
    <2>3. row' = IF q.id \in Has
                 THEN [row EXCEPT ![q.id].config = q.row.config \cup {"found"}] ELSE row
      BY <1>3, <2>1 DEF WriteFound
    <2>4. EndEdit(e) /\ Crossed(e) /\ UNCHANGED <<taken, edits, patched>>
      BY <1>3 DEF WriteFound
    <2> QED  BY <2>1, <2>2, <2>3, <2>4, ConfigKeeps
  <1> QED
    BY <1>1, <1>2, <1>3, InsertKeeps, PatchKeeps, DeleteKeeps, AsksKeepProviders, SetupKeeps
       DEF ProvidersNext

\* Rows, requests under way and what was patched keep their types: a setup writes
\* back the row it read, a patch the columns it changed (provider_service.py,
\* team_provider_endpoints.py).
THEOREM ProvidersKeepTypes == ProvidersSpec => []ProvidersTypeOK
  BY InitProviders, ProvidersFollow, PTL DEF ProvidersSpec

\* For any providers, names and requests: as long as no write comes between the
\* read and the write of another, a team has one default provider at most, no two
\* of one name, and the settings that were patched, also through the setup that
\* ends minutes after it began (update_team_provider, delete_provider_for_team,
\* the setup of the local provider).
THEOREM ProvidersStayAgreed == ProvidersSpec => []ProvidersAgree
  <1>1. ProvidersIInv => ProvidersAgree
    BY DEF ProvidersIInv, RowsAgree, ProvidersAgree
  <1> QED  BY InitProviders, ProvidersFollow, <1>1, PTL DEF ProvidersSpec

-----------------------------------------------------------------------------
(* The job cache. *)

\* A record somebody kept is not newer than the disk.
NotNewer(v) == v # NoEntry => /\ v.writes <= disk.writes
                              /\ v.writes = disk.writes => v = disk

\* What requests hold on the way to the cache is as old as what is cached.
HeldLagsBehind == \A r \in Requests : NotNewer(val[r])

\* Once an edit has settled, no request brings an earlier record.
HeldIsCurrent == settled => \A r \in Requests : Holding(r) => val[r] = disk

CacheInv == /\ TypeOK
        /\ CacheLagsBehind
        /\ HeldLagsBehind
        /\ UndisturbedEditIsSeen
        /\ HeldIsCurrent

-----------------------------------------------------------------------------

LEMMA InitCache == Init => CacheInv
  <1> SUFFICES ASSUME Init PROVE CacheInv
    OBVIOUS
  <1>1. disk \in Records
    BY CacheAssumption DEF Init, Records, Statuses
  <1> QED
    BY <1>1 DEF Init, CacheInv, TypeOK, CacheLagsBehind, HeldLagsBehind, NotNewer,
                UndisturbedEditIsSeen, HeldIsCurrent, Holding

\* A write makes every record that was kept an earlier one.
LEMMA WriteAges ==
    ASSUME CacheInv, NEW s \in Statuses, WriteDisk(s)
    PROVE  /\ disk' \in Records
           /\ \A v \in Records \cup {NoEntry} : NotNewer(v) => NotNewer(v)'
  <1>1. disk \in Records /\ disk.writes \in 0..MaxWrites
    BY DEF CacheInv, TypeOK, Records
  <1>2. disk' = [status |-> s, writes |-> disk.writes + 1] /\ disk.writes < MaxWrites
    BY DEF WriteDisk
  <1>3. disk' \in Records /\ disk'.writes = disk.writes + 1
    BY <1>1, <1>2, CacheAssumption DEF Records
  <1>4. ASSUME NEW v \in Records \cup {NoEntry}, NotNewer(v)
        PROVE  NotNewer(v)'
    <2>1. v.writes \in Nat
      BY DEF Records, NoEntry
    <2>2. v # NoEntry => v.writes < disk'.writes
      BY <1>1, <1>3, <1>4, <2>1 DEF NotNewer
    <2>3. disk'.writes \in Nat
      BY <1>1, <1>3
    <2> QED  BY <2>1, <2>2, <2>3 DEF NotNewer
  <1> QED  BY <1>3, <1>4

\* A request that writes and goes on without holding a record.
LEMMA CacheWriteKeeps ==
    ASSUME CacheInv, NEW s \in Statuses, WriteDisk(s),
           UNCHANGED <<cache, val>>,
           pc' \in [Requests -> {"idle", "fill", "drop", "reread"}],
           \A r \in Requests : Holding(r)' <=> Holding(r)
    PROVE  CacheInv'
  <1>1. disk' \in Records
    BY WriteAges
  <1>2. cache \in Records \cup {NoEntry} /\ val \in [Requests -> Records \cup {NoEntry}]
    BY DEF CacheInv, TypeOK
  <1>3. settled' = FALSE
    BY DEF WriteDisk
  <1>4. TypeOK'
    BY <1>1, <1>2, <1>3 DEF CacheInv, TypeOK
  <1>5. CacheLagsBehind'
    <2>1. NotNewer(cache)
      BY DEF CacheInv, CacheLagsBehind, NotNewer
    <2>2. \A v \in Records \cup {NoEntry} : NotNewer(v) => NotNewer(v)'
      BY WriteAges
    <2>3. cache' = cache
      OBVIOUS
    <2> QED  BY <1>2, <2>1, <2>2, <2>3 DEF CacheLagsBehind, NotNewer
  <1>6. HeldLagsBehind'
    <2>1. \A v \in Records \cup {NoEntry} : NotNewer(v) => NotNewer(v)'
      BY WriteAges
    <2>2. val' = val
      OBVIOUS
    <2> QED  BY <1>2, <2>1, <2>2 DEF CacheInv, HeldLagsBehind, NotNewer
  <1>7. UndisturbedEditIsSeen' /\ HeldIsCurrent'
    BY <1>3 DEF UndisturbedEditIsSeen, HeldIsCurrent
  <1> QED  BY <1>4, <1>5, <1>6, <1>7 DEF CacheInv

\* A request that reads the record on disk and will fill the cache with it.
LEMMA CacheReadKeeps ==
    ASSUME CacheInv, NEW r \in Requests, NEW from, from # "fill", pc[r] = from,
           pc' = [pc EXCEPT ![r] = "fill"],
           val' = [val EXCEPT ![r] = disk],
           UNCHANGED <<disk, cache, settled>>
    PROVE  CacheInv'
  <1>1. disk \in Records /\ disk # NoEntry
    BY DEF CacheInv, TypeOK, Records, Statuses, NoEntry
  <1>2. \A q \in Requests : /\ q # r => pc'[q] = pc[q] /\ val'[q] = val[q]
                            /\ q = r => pc'[q] = "fill" /\ val'[q] = disk
    BY DEF CacheInv, TypeOK
  <1>3. TypeOK'
    <2>1. /\ pc' \in [Requests -> {"idle", "fill", "drop", "reread"}]
          /\ val' \in [Requests -> Records \cup {NoEntry}]
      BY <1>1 DEF CacheInv, TypeOK
    <2>2. \A q \in Requests : val'[q] # NoEntry <=> Holding(q)'
      BY <1>1, <1>2 DEF CacheInv, TypeOK, Holding
    <2> QED  BY <2>1, <2>2 DEF CacheInv, TypeOK
  <1>4. CacheLagsBehind' /\ UndisturbedEditIsSeen'
    BY DEF CacheInv, CacheLagsBehind, UndisturbedEditIsSeen
  <1>5. HeldLagsBehind'
    <2>1. disk.writes <= disk.writes
      BY <1>1 DEF Records
    <2> QED  BY <1>2, <2>1 DEF CacheInv, HeldLagsBehind, NotNewer
  <1>6. HeldIsCurrent'
    BY <1>2 DEF CacheInv, HeldIsCurrent, Holding
  <1> QED  BY <1>3, <1>4, <1>5, <1>6 DEF CacheInv

LEMMA StepCache == CacheInv /\ [Next]_vars => CacheInv'
  <1> SUFFICES ASSUME CacheInv, [Next]_vars PROVE CacheInv'
    OBVIOUS
  <1> USE DEF CacheInv, TypeOK, CacheLagsBehind, HeldLagsBehind, NotNewer,
              UndisturbedEditIsSeen, HeldIsCurrent, Holding, Goto
  <1>0. disk # NoEntry
    BY DEF Records, Statuses, NoEntry
  <1>1. ASSUME NEW r \in Requests, ReadMiss(r) PROVE CacheInv'
    BY ONLY <1>1, CacheInv, CacheReadKeeps DEF ReadMiss, Goto
  <1>2. ASSUME NEW r \in Requests, Fill(r) PROVE CacheInv'
    BY <1>0, <1>2 DEF Fill
  <1>3. ASSUME NEW r \in Requests, Edit(r) PROVE CacheInv'
    <2>1. disk.status \in Statuses
      BY DEF Records
    <2>2. /\ pc' \in [Requests -> {"idle", "fill", "drop", "reread"}]
          /\ \A q \in Requests : Holding(q)' <=> Holding(q)
      BY <1>3 DEF Edit
    <2> QED  BY ONLY <1>3, <2>1, <2>2, CacheInv, CacheWriteKeeps DEF Edit
  <1>4. ASSUME NEW r \in Requests, Delete(r) PROVE CacheInv'
    <2>1. "DELETED" \in Statuses
      BY DEF Statuses
    <2>2. /\ pc' \in [Requests -> {"idle", "fill", "drop", "reread"}]
          /\ \A q \in Requests : Holding(q)' <=> Holding(q)
      BY <1>4 DEF Delete
    <2> QED  BY ONLY <1>4, <2>1, <2>2, CacheInv, CacheWriteKeeps DEF Delete
  <1>5. ASSUME NEW r \in Requests, Invalidate(r) PROVE CacheInv'
    BY <1>0, <1>5 DEF Invalidate
  <1>6. ASSUME NEW r \in Requests, Reread(r) PROVE CacheInv'
    BY ONLY <1>6, CacheInv, CacheReadKeeps DEF Reread, Goto
  <1>7. ASSUME NEW r \in Requests, NEW s \in Statuses, SetStatus(r, s) PROVE CacheInv'
    <2>1. /\ pc' \in [Requests -> {"idle", "fill", "drop", "reread"}]
          /\ \A q \in Requests : Holding(q)' <=> Holding(q)
      BY <1>7 DEF SetStatus
    <2>2. CASE WriteDisk(s)
      BY ONLY <1>7, <2>1, <2>2, CacheInv, CacheWriteKeeps DEF SetStatus
    <2>3. CASE UNCHANGED <<disk, settled>>
      BY <1>7, <2>1, <2>3 DEF SetStatus
    <2> QED  BY <1>7, <2>2, <2>3 DEF SetStatus
  <1>8. ASSUME NEW s \in Statuses, JobWrites(s) PROVE CacheInv'
    BY <1>8, CacheWriteKeeps DEF JobWrites
  <1>9. CASE UNCHANGED vars
    BY <1>9 DEF vars
  <1> QED
    BY <1>1, <1>2, <1>3, <1>4, <1>5, <1>6, <1>7, <1>8, <1>9
    DEF Next, Request, Statuses

-----------------------------------------------------------------------------

THEOREM CacheInvHolds == Spec => []CacheInv
  BY InitCache, StepCache, PTL DEF Spec

\* The records on disk, in the cache and in flight keep their form, and only a
\* request about to fill the cache holds one.
THEOREM CacheTypeOK == Spec => []TypeOK
  BY CacheInvHolds, PTL DEF CacheInv

\* An edit or delete that dropped the entry with no earlier record in flight is
\* what every later reader sees until the next write.
THEOREM CacheUndisturbedEdit == Spec => []UndisturbedEditIsSeen
  BY CacheInvHolds, PTL DEF CacheInv

\* The cache is never ahead of the disk, and differs from it only by writes
\* that came later.
THEOREM CacheLags == Spec => []CacheLagsBehind
  BY CacheInvHolds, PTL DEF CacheInv
=============================================================================
