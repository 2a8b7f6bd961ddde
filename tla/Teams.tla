-------------------------------- MODULE Teams --------------------------------
(***************************************************************************)
(* Teams, roles and invitations                                            *)
(* (backend/transformerlab/services/team_service.py, db/team.py and the    *)
(* routes over them).                                                      *)
(*                                                                         *)
(* A request checks who asks and reads the rows it decides from; then it   *)
(* writes and commits.  Nothing is locked, so another request may commit   *)
(* between.  The reads of one request are taken together.                  *)
(***************************************************************************)
EXTENDS Naturals, FiniteSets

CONSTANTS
    Users, TeamIds, Invites,
    TeamRequests,  \* requests that can be under way at a time
    NoRequest, Nobody,
    TeamCap,       \* TFL_MAX_TEAMS_PER_USER
    MaxRequests,   \* bound on the requests made
    MaxAged        \* bound on the invitations that reach their expires_at

ASSUME TeamsAssumption == /\ TeamCap \in Nat \ {0}
                          /\ MaxRequests \in Nat /\ MaxAged \in Nat

VARIABLES
    name,          \* name[t]: "none", "plain", or the user whose "<user>'s Team" it is
    role,          \* role[t][u]: UserTeam row
    inv,           \* inv[i]: TeamInvitation row
    ask,           \* ask[r]: a request between its reads and its last write
    made, aged,    \* bounded counters
    crossed,       \* history: teams whose roles changed while a request that takes
                   \* one away was under way
    emptied        \* history: teams that have lost their last member

teamRows == <<name, role, inv>>
teamHist == <<crossed, emptied>>
teamVars == <<teamRows, ask, made, aged, teamHist>>

Roles == {"member", "owner"}
Open  == {"pending", "stale"}       \* PENDING, before and after expires_at
InvitationStatus == Open \cup {"free", "accepted", "rejected", "expired",
                               "cancelled", "deleted"}

Members(t) == {u \in Users : role[t][u] # "none"}
Owners(t)  == {u \in Users : role[t][u] = "owner"}
TeamsOf(u) == {t \in TeamIds : role[t][u] # "none"}

\* _is_personal_team: by the name the team has now.
Personal(u, t) == name[t] = u

\* The open invitations of v to t.
OpenFor(t, v) == {i \in Invites : inv[i].status \in Open /\ inv[i].team = t /\ inv[i].to = v}

-----------------------------------------------------------------------------
(* Requests. *)

TeamRequest(op, u, t, v, a, i) ==
    [op |-> op, by |-> u, team |-> t, whom |-> v, as |-> a, inv |-> i]

TakesRole == {"leave", "remove", "setRole"}

\* No team yet, or one, with an owner.
TeamsInit ==
    /\ \/ /\ name = [t \in TeamIds |-> "none"]
          /\ role = [t \in TeamIds |-> [u \in Users |-> "none"]]
       \/ \E u \in Users, t \in TeamIds :
             /\ name = [x \in TeamIds |-> IF x = t THEN "plain" ELSE "none"]
             /\ \E rs \in [Users \ {u} -> Roles \cup {"none"}] :
                   role = [x \in TeamIds |-> [v \in Users |->
                              IF x # t THEN "none" ELSE IF v = u THEN "owner" ELSE rs[v]]]
    /\ inv = [i \in Invites |-> [team |-> Nobody, to |-> Nobody,
                                 role |-> "member", status |-> "free"]]
    /\ ask = [r \in TeamRequests |-> NoRequest]
    /\ made = 0 /\ aged = 0
    /\ crossed = {} /\ emptied = {}

\* A request has passed its checks and has still to write.
Begin(r, q) ==
    /\ ask[r] = NoRequest /\ made < MaxRequests
    /\ ask' = [ask EXCEPT ![r] = q]
    /\ made' = made + 1
    /\ UNCHANGED <<teamRows, aged, teamHist>>

Done(r) == ask' = [ask EXCEPT ![r] = NoRequest]
Then(r, op) == ask' = [ask EXCEPT ![r].op = op]

\* leave_team: the only owner names the next member as owner.
AskLeave(r, u, t) ==
    /\ role[t][u] # "none" /\ ~ Personal(u, t)
    /\ \E heir \in IF Owners(t) = {u} /\ Members(t) # {u} THEN Members(t) \ {u} ELSE {Nobody} :
          Begin(r, TeamRequest("leave", u, t, heir, "owner", Nobody))

\* Mutant: owners are removed like members.
AskRemoveAny(r, u, t, v) ==
    /\ role[t][u] = "owner" /\ role[t][v] # "none"
    /\ Begin(r, TeamRequest("remove", u, t, v, "none", Nobody))

\* remove_member: not the last owner.
AskRemove(r, u, t, v) ==
    /\ role[t][u] = "owner" /\ role[t][v] # "none"
    /\ Owners(t) # {v}
    /\ Begin(r, TeamRequest("remove", u, t, v, "none", Nobody))

\* update_member_role: the last owner stays owner.
AskSetRole(r, u, t, v, a) ==
    /\ role[t][u] = "owner" /\ role[t][v] # "none"
    /\ a = "member" => Owners(t) # {v}
    /\ Begin(r, TeamRequest("setRole", u, t, v, a, Nobody))

\* delete_team: neither a personal team nor the user's last one.
AskDelete(r, u, t) ==
    /\ role[t][u] = "owner" /\ ~ Personal(u, t)
    /\ Cardinality(TeamsOf(u)) > 1
    /\ Begin(r, TeamRequest("delete", u, t, Nobody, "none", Nobody))

\* create_team, under the cap on owned teams that are not personal.
AskCreate(r, u) ==
    /\ Cardinality({t \in TeamIds : role[t][u] = "owner" /\ ~ Personal(u, t)}) < TeamCap
    /\ \E t \in TeamIds : Begin(r, TeamRequest("create", u, t, Nobody, "owner", Nobody))

\* GET /users/me/teams of a user without a team, who gets a personal one.
AskHome(r, u) ==
    /\ TeamsOf(u) = {}
    /\ \E t \in TeamIds : Begin(r, TeamRequest("home", u, t, Nobody, "owner", Nobody))

\* invite_member, for a user with no open invitation.  With one see Renew; with
\* two the query fails.
AskInvite(r, u, t, v, a) ==
    /\ role[t][u] = "owner" /\ role[t][v] = "none"
    /\ OpenFor(t, v) = {}
    /\ Begin(r, TeamRequest("invite", u, t, v, a, Nobody))

\* accept_invitation, by token or id, of one who is not a member yet.
AskAccept(r, i) ==
    LET u == inv[i].to  t == inv[i].team IN
    /\ inv[i].status = "pending" /\ role[t][u] = "none"
    /\ Begin(r, TeamRequest("join", u, t, u, inv[i].role, i))

\* cancel_invitation by an owner, reject_invitation by the one invited.
AskSettle(r, i) ==
    /\ inv[i].status \in Open
    /\ \E u \in Users :
          \/ u \in Owners(inv[i].team)
             /\ Begin(r, TeamRequest("settle", u, inv[i].team, u, "cancelled", i))
          \/ u = inv[i].to
             /\ Begin(r, TeamRequest("settle", u, inv[i].team, u, "rejected", i))

-----------------------------------------------------------------------------
(* Writes. *)

\* The rows of team t become rs.
Rewrite(t, rs) ==
    /\ role' = [role EXCEPT ![t] = rs]
    /\ emptied' = IF Members(t) # {} /\ \A u \in Users : rs[u] = "none"
                  THEN emptied \cup {t} ELSE emptied

\* Another request has read the roles of t and will take one away.
Crossing(r, t) ==
    crossed' = IF \E s \in TeamRequests \ {r} :
                     ask[s] # NoRequest /\ ask[s].op \in TakesRole /\ ask[s].team = t
               THEN crossed \cup {t} ELSE crossed

\* An UPDATE reaches the row only when it is still there.
Updated(rs, v, a) == IF v \in Users /\ rs[v] # "none" THEN [rs EXCEPT ![v] = a] ELSE rs

WriteLeave(r) ==
    LET q == ask[r] IN
    /\ q # NoRequest /\ q.op = "leave"
    /\ Rewrite(q.team, [Updated(role[q.team], q.whom, "owner") EXCEPT ![q.by] = "none"])
    /\ Crossing(r, q.team) /\ Done(r)
    /\ UNCHANGED <<name, inv, made, aged>>

\* remove_member and update_member_role.
WriteRole(r) ==
    LET q == ask[r] IN
    /\ q # NoRequest /\ q.op \in {"remove", "setRole"}
    /\ Rewrite(q.team, Updated(role[q.team], q.whom, q.as))
    /\ Crossing(r, q.team) /\ Done(r)
    /\ UNCHANGED <<name, inv, made, aged>>

\* The members and the invitations go; the team and what it has stay.
WriteDelete(r) ==
    LET q == ask[r] IN
    /\ q # NoRequest /\ q.op = "delete"
    /\ Rewrite(q.team, [u \in Users |-> "none"])
    /\ inv' = [i \in Invites |->
                  IF inv[i].team = q.team /\ inv[i].status # "free"
                  THEN [inv[i] EXCEPT !.status = "deleted"] ELSE inv[i]]
    /\ Done(r)
    /\ UNCHANGED <<name, made, aged, crossed>>

\* insert_team commits the team before anybody is its member.
WriteTeam(r) ==
    LET q == ask[r] IN
    /\ q # NoRequest /\ q.op \in {"create", "home"}
    /\ \/ name[q.team] # "none" /\ Done(r) /\ UNCHANGED name    \* no id left to model
       \/ /\ name[q.team] = "none"
          /\ \E n \in IF q.op = "home" THEN {q.by} ELSE {"plain", q.by} :
                name' = [name EXCEPT ![q.team] = n]
          /\ Then(r, "own")
    /\ UNCHANGED <<role, inv, made, aged, teamHist>>

\* add_user_to_team: the creator owns the team.
WriteOwner(r) ==
    LET q == ask[r] IN
    /\ q # NoRequest /\ q.op = "own"
    /\ Rewrite(q.team, [role[q.team] EXCEPT ![q.by] = "owner"])
    /\ Done(r)
    /\ UNCHANGED <<name, inv, made, aged, crossed>>

\* The invitation is committed; then the mail is sent, or refuses the address.
WriteInvite(r) ==
    LET q == ask[r] IN
    /\ q # NoRequest /\ q.op = "invite"
    /\ \E i \in Invites :
          /\ inv[i].status = "free"
          /\ inv' = [inv EXCEPT ![i] = [team |-> q.team, to |-> q.whom, role |-> q.as,
                                        status |-> "pending"]]
          /\ ask' = [ask EXCEPT ![r].op = "mail", ![r].inv = i]
    /\ UNCHANGED <<name, role, made, aged, teamHist>>

SendInvite(r) ==
    LET q == ask[r] IN
    /\ q # NoRequest /\ q.op = "mail"
    /\ Done(r)
    /\ \/ UNCHANGED inv
       \/ inv' = [inv EXCEPT ![q.inv].status = "deleted"]
    /\ UNCHANGED <<name, role, made, aged, teamHist>>

\* add_user_to_team; a row that is there already refuses it.
WriteJoin(r) ==
    LET q == ask[r] IN
    /\ q # NoRequest /\ q.op = "join"
    /\ \/ /\ role[q.team][q.by] # "none"
          /\ Done(r) /\ UNCHANGED <<role, emptied, crossed>>
       \/ /\ role[q.team][q.by] = "none"
          /\ Rewrite(q.team, [role[q.team] EXCEPT ![q.by] = q.as])
          /\ Crossing(r, q.team)
          /\ ask' = [ask EXCEPT ![r].op = "settle", ![r].as = "accepted"]
    /\ UNCHANGED <<name, inv, made, aged>>

\* The last commit of accept, reject and cancel, whatever the row says by then.
WriteSettled(r) ==
    LET q == ask[r] IN
    /\ q # NoRequest /\ q.op = "settle"
    /\ inv' = IF inv[q.inv].status = "deleted" THEN inv
              ELSE [inv EXCEPT ![q.inv].status = q.as]
    /\ Done(r)
    /\ UNCHANGED <<name, role, made, aged, teamHist>>

-----------------------------------------------------------------------------
(* Requests with one statement, and time. *)

SetInvite(i, s) ==
    /\ inv' = [inv EXCEPT ![i].status = s]
    /\ UNCHANGED <<name, role, ask, teamHist>>

\* An open invitation is sent again; one past its date gets a new one.
Renew(i) ==
    /\ inv[i].status = "stale" /\ made < MaxRequests
    /\ Owners(inv[i].team) # {} /\ role[inv[i].team][inv[i].to] = "none"
    /\ OpenFor(inv[i].team, inv[i].to) = {i}
    /\ made' = made + 1
    /\ SetInvite(i, "pending") /\ UNCHANGED aged

\* Whoever looks at an invitation past its date marks it: the lists, the lookup
\* by token, and accept_invitation.
Expire(i) ==
    /\ inv[i].status = "stale"
    /\ SetInvite(i, "expired") /\ UNCHANGED <<made, aged>>

\* A member accepts: the invitation is only settled.
AcceptAgain(i) ==
    /\ inv[i].status = "pending" /\ role[inv[i].team][inv[i].to] # "none"
    /\ SetInvite(i, "accepted") /\ UNCHANGED <<made, aged>>

Age(i) ==
    /\ inv[i].status = "pending" /\ aged < MaxAged
    /\ aged' = aged + 1
    /\ SetInvite(i, "stale") /\ UNCHANGED made

\* update_team: a personal team may lose its name, any team may get one.
Rename(u, t) ==
    /\ u \in Owners(t) /\ made < MaxRequests
    /\ \E n \in {"plain"} \cup Users : n # name[t] /\ name' = [name EXCEPT ![t] = n]
    /\ made' = made + 1
    /\ UNCHANGED <<role, inv, ask, aged, teamHist>>

-----------------------------------------------------------------------------
Asks(r) ==
    \/ \E u \in Users, t \in TeamIds :
          \/ AskLeave(r, u, t) \/ AskDelete(r, u, t)
          \/ \E v \in Users : \/ AskRemove(r, u, t, v)
                              \/ \E a \in Roles : \/ AskSetRole(r, u, t, v, a)
                                                  \/ AskInvite(r, u, t, v, a)
    \/ \E u \in Users : AskCreate(r, u) \/ AskHome(r, u)
    \/ \E i \in Invites : AskAccept(r, i) \/ AskSettle(r, i)

Writes(r) == \/ WriteLeave(r) \/ WriteRole(r) \/ WriteDelete(r)
             \/ WriteTeam(r) \/ WriteOwner(r)
             \/ WriteInvite(r) \/ SendInvite(r) \/ WriteJoin(r) \/ WriteSettled(r)

\* The server stops: what a request has committed stays.
Drop(r) ==
    /\ ask[r] # NoRequest /\ Done(r)
    /\ UNCHANGED <<teamRows, made, aged, teamHist>>

TeamsNext ==
    \/ \E r \in TeamRequests : Asks(r) \/ Writes(r) \/ Drop(r)
    \/ \E i \in Invites : Renew(i) \/ Expire(i) \/ AcceptAgain(i) \/ Age(i)
    \/ \E u \in Users, t \in TeamIds : Rename(u, t)

TeamsSpec == TeamsInit /\ [][TeamsNext]_teamVars

-----------------------------------------------------------------------------
(* Properties. *)

Invitations == [team : TeamIds \cup {Nobody}, to : Users \cup {Nobody},
                role : Roles, status : InvitationStatus]

Outcomes == {"accepted", "rejected", "cancelled"}

Asked == [op : TakesRole \cup {"delete", "create", "home", "own", "invite", "mail",
                               "join", "settle"},
          by : Users, team : TeamIds, whom : Users \cup {Nobody},
          as : Roles \cup {"none"} \cup Outcomes, inv : Invites \cup {Nobody}]

TeamsTypeOK ==
    /\ name \in [TeamIds -> Users \cup {"none", "plain"}]
    /\ role \in [TeamIds -> [Users -> Roles \cup {"none"}]]
    /\ inv \in [Invites -> Invitations]
    /\ \A i \in Invites :
          inv[i].status # "free" => inv[i].team \in TeamIds /\ inv[i].to \in Users
    /\ ask \in [TeamRequests -> Asked \cup {NoRequest}]
    /\ \A r \in TeamRequests : ask[r] # NoRequest =>
          /\ ask[r].op \in {"remove", "setRole"} => ask[r].as \in Roles \cup {"none"}
          /\ ask[r].op \in {"join", "invite"} => ask[r].as \in Roles
          /\ ask[r].op = "invite" => ask[r].whom \in Users
          /\ ask[r].op = "settle" => ask[r].as \in Outcomes
          /\ ask[r].op \in {"join", "mail", "settle"} =>
                ask[r].inv \in Invites /\ inv[ask[r].inv].status # "free"
    /\ made \in 0..MaxRequests /\ aged \in 0..MaxAged
    /\ crossed \subseteq TeamIds /\ emptied \subseteq TeamIds

\* A team with members has an owner, through leaves, removals, changes of role,
\* invitations accepted late and deletions.  Two things break it: a role that
\* changes between the reads and the write of a request that takes one away, and
\* an invitation that outlives the last member of its team.
HasOwner ==
    \A t \in TeamIds : Members(t) # {} /\ Owners(t) = {} => t \in crossed \cup emptied
=============================================================================
