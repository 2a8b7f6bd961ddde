------------------------------ MODULE MCRecords ------------------------------
(* What the server keeps for a team: its members, secrets, keys and providers,  *)
(* the records of the launches they ask for, and the cache of those records.    *)
(* The six parts share no state that the properties are about, so the initial   *)
(* states choose one of them to run; the others stay in one initial state.      *)
(* A run ends where the key files are muddled or two writes of the providers    *)
(* have crossed: MachinesOpen and ProvidersAgree say nothing of what follows.   *)
EXTENDS Teams, TeamSecrets, SshKeys, TeamProviders, LaunchRequest, JobCache, TLC

CONSTANTS u1, u2, u3,  \* users, requests on a record
          a1, a2,      \* teams, providers, launches
          b1, b2,      \* invitations, keys
          r1, r2       \* what is under way: requests, writes, calls, edits

MCUsers     == {u1, u2, u3}
MCTeams     == {a1, a2}
MCProviders == {a1, a2}
MCLaunches  == {a1, a2}
MCInvites   == {b1, b2}
MCKeys      == {b1, b2}
MCRequests  == {r1, r2}
MCTerminal  == {"COMPLETE"}

\* Few sets of values, shared by the parts, keep the group small; there is no
\* liveness property.
MCSymmetry == UNION {Permutations(S) : S \in {MCUsers, MCTeams, MCRequests}}

VARIABLE area

Areas == {"teams", "secrets", "keys", "providers", "launches", "cache"}

MCInit ==
    /\ area \in Areas
    /\ TeamsInit /\ (area # "teams" => \A t \in TeamIds : name[t] = "none")
    /\ SecretsInit
    /\ KeysInit
    /\ ProvidersInit /\ (area # "providers" => taken = {})
    /\ LaunchInit /\ (area # "launches" =>
           req = [l \in Launches |-> [kind |-> "remote", minutes |-> FALSE, command |-> TRUE]])
    /\ Init

MCNext ==
    /\ UNCHANGED area
    /\ \/ area = "teams" /\ TeamsNext
          /\ UNCHANGED <<secretVars, keyVars, provVars, launchVars, vars>>
       \/ area = "secrets" /\ SecretsNext
          /\ UNCHANGED <<teamVars, keyVars, provVars, launchVars, vars>>
       \/ area = "keys" /\ ~ muddled /\ KeysNext
          /\ UNCHANGED <<teamVars, secretVars, provVars, launchVars, vars>>
       \/ area = "providers" /\ ~ overlapped /\ ProvidersNext
          /\ UNCHANGED <<teamVars, secretVars, keyVars, launchVars, vars>>
       \/ area = "launches" /\ LaunchNext
          /\ UNCHANGED <<teamVars, secretVars, keyVars, provVars, vars>>
       \/ area = "cache" /\ Next
          /\ UNCHANGED <<teamVars, secretVars, keyVars, provVars, launchVars>>

MCSpec ==
    MCInit /\ [][MCNext]_<<area, teamVars, secretVars, keyVars, provVars, launchVars, vars>>
=============================================================================
