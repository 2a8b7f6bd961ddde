--------------------------- MODULE TeamProviders ---------------------------
(***************************************************************************)
(* The compute providers of a team (services/provider_service.py,          *)
(* services/compute_provider/team_provider_endpoints.py).                  *)
(*                                                                         *)
(* A request reads the rows it decides from and commits later; no          *)
(* constraint of the database keeps names apart or defaults single.  The   *)
(* local provider made at a start is set up in the background, and its row *)
(* is updated when that ends.  A config is the set of the settings in it.  *)
(***************************************************************************)
EXTENDS Naturals

CONSTANTS
    Providers,     \* ids still unused
    ProviderNames,
    Local,         \* the name of the local provider a team starts with
    Edits,         \* requests and setups that can be under way at a time
    NoEdit, NoRow,
    MaxEdits       \* bound on the requests made

VARIABLES
    row,           \* row[p]: the row of p, or NoRow
    taken,         \* ids used
    edit,          \* edit[e]: what an unfinished request has still to write
    edits,
    patched,       \* history: patched[p]: settings that a PATCH gave p
    overlapped     \* history: two writes decided from the same rows

provVars == <<row, taken, edit, edits, patched, overlapped>>

\* "user": given in a request; "profile": made up for a cloud after the insert;
\* "found": the accelerators detected.
Settings == {"user", "more", "profile", "found"}
Types    == {"local", "cloud", "plain"}
Rows     == [name : ProviderNames, type : Types, config : SUBSET Settings,
             disabled : BOOLEAN, default : BOOLEAN]

ASSUME ProvidersAssumption ==
    Local \in ProviderNames /\ NoRow \notin Rows /\ MaxEdits \in Nat

Has == {p \in Providers : row[p] # NoRow}

\* No provider yet, or one, which may be the default.
ProvidersInit ==
    /\ \/ row = [p \in Providers |-> NoRow] /\ taken = {}
       \/ \E p \in Providers, r \in Rows :
             /\ r.config = {"user"} /\ ~ r.disabled
             /\ row = [x \in Providers |-> IF x = p THEN r ELSE NoRow]
             /\ taken = {p}
    /\ edit = [e \in Edits |-> NoEdit]
    /\ edits = 0
    /\ patched = [p \in Providers |-> {}]
    /\ overlapped = FALSE

\* A request has read the rows and will write.
BeginEdit(e, q) ==
    /\ edit[e] = NoEdit /\ edits < MaxEdits
    /\ edit' = [edit EXCEPT ![e] = q]
    /\ edits' = edits + 1
    /\ UNCHANGED <<row, patched, overlapped>>

EndEdit(e) == edit' = [edit EXCEPT ![e] = NoEdit]
Doing(e, op) == edit[e] # NoEdit /\ edit[e].op = op

\* Somebody else is between its read and its write.
Crossed(e) == overlapped' = (overlapped \/ \E f \in Edits \ {e} :
                  edit[f] # NoEdit /\ edit[f].op # "setup")

-----------------------------------------------------------------------------
(* Requests. *)

Insert(op, p, n, type, config) ==
    [op |-> op, id |-> p,
     row |-> [name |-> n, type |-> type, config |-> config,
              disabled |-> FALSE, default |-> FALSE]]

\* create_provider_for_team: a name of its own in the team.
AskProvider(e, n, type) ==
    /\ \A p \in Has : row[p].name # n
    /\ \E p \in Providers \ taken :
          /\ BeginEdit(e, Insert("insert", p, n, type, {"user"}))
          /\ taken' = taken \cup {p}

\* initialize_team_local_provider, by every process that starts: one local
\* provider, whatever its name; whether the name is free is not asked.
AskLocal(e) ==
    /\ \A p \in Has : row[p].type # "local"
    /\ \E p \in Providers \ taken :
          /\ BeginEdit(e, Insert("start", p, Local, "local", {"found"}))
          /\ taken' = taken \cup {p}

\* create_team_provider inserts the row.  A cloud gets its profile in a second
\* commit; the provider made at a start updates its row when it is set up (the
\* setup of one that a user made leaves the row alone).
InsertRow(e) ==
    LET q == edit[e] IN
    /\ Doing(e, "insert") \/ Doing(e, "start")
    /\ row' = [row EXCEPT ![q.id] = q.row]
    /\ \/ q.op = "start" /\ edit' = [edit EXCEPT ![e].op = "setup"]
       \/ q.row.type = "cloud" /\ edit' = [edit EXCEPT ![e].op = "profile"]
       \/ q.op = "insert" /\ q.row.type # "cloud" /\ EndEdit(e)
    /\ Crossed(e)
    /\ UNCHANGED <<taken, edits, patched>>

\* The config as it was inserted, and the profile; a row that is gone refuses it.
AddProfile(e) ==
    LET q == edit[e] IN
    /\ Doing(e, "profile")
    /\ row' = IF q.id \in Has
              THEN [row EXCEPT ![q.id].config = q.row.config \cup {"profile"}] ELSE row
    /\ EndEdit(e) /\ Crossed(e)
    /\ UNCHANGED <<taken, edits, patched>>

\* Mutant: the setup ends with the config of the row it was started for.
ReadForSetupOld(e) ==
    LET q == edit[e] IN
    /\ Doing(e, "setup")
    /\ IF q.id \in Has THEN edit' = [edit EXCEPT ![e].op = "found"] ELSE EndEdit(e)
    /\ UNCHANGED <<row, taken, edits, patched, overlapped>>

\* The setup has ended; the row is read again and may be gone.
ReadForSetup(e) ==
    LET q == edit[e] IN
    /\ Doing(e, "setup")
    /\ IF q.id \in Has
       THEN edit' = [edit EXCEPT ![e] = [op |-> "found", id |-> q.id, row |-> row[q.id]]]
       ELSE EndEdit(e)
    /\ UNCHANGED <<row, taken, edits, patched, overlapped>>

WriteFound(e) ==
    LET q == edit[e] IN
    /\ Doing(e, "found")
    /\ row' = IF q.id \in Has
              THEN [row EXCEPT ![q.id].config = q.row.config \cup {"found"}] ELSE row
    /\ EndEdit(e) /\ Crossed(e)
    /\ UNCHANGED <<taken, edits, patched>>

\* update_provider_for_team reads its row, and the others when the name changes.
\* The new config is merged over the one read; the routes that take credentials
\* write theirs the same way.
AskPatch(e, p, n, more, disabled, default) ==
    /\ p \in Has
    /\ n # row[p].name => \A x \in Has \ {p} : row[x].name # n
    /\ LET config == IF more THEN row[p].config \cup {"more"} ELSE row[p].config IN
       BeginEdit(e, [op |-> "patch", id |-> p,
                     row |-> [row[p] EXCEPT !.name = n, !.config = config,
                                            !.disabled = disabled, !.default = default],
                     old |-> row[p]])
    /\ UNCHANGED taken

\* update_team_provider: a new default clears the others; the columns that
\* differ from what was read are written.
WritePatch(e) ==
    LET q == edit[e]
        Column(x, new, old) == IF new = old THEN x ELSE new
        Patched(r) == [name |-> Column(r.name, q.row.name, q.old.name),
                       type |-> r.type,
                       config |-> Column(r.config, q.row.config, q.old.config),
                       disabled |-> Column(r.disabled, q.row.disabled, q.old.disabled),
                       default |-> Column(r.default, q.row.default, q.old.default)]
    IN
    /\ Doing(e, "patch")
    /\ row' = [p \in Providers |->
                  IF p \notin Has THEN NoRow
                  ELSE IF p = q.id THEN Patched(row[p])
                  ELSE IF q.row.default THEN [row[p] EXCEPT !.default = FALSE] ELSE row[p]]
    /\ patched' = [patched EXCEPT ![q.id] = IF q.id \in Has THEN q.row.config ELSE @]
    /\ EndEdit(e) /\ Crossed(e)
    /\ UNCHANGED <<taken, edits>>

\* delete_provider_for_team.  Jobs, settings and a default that name it stay.
DeleteRow(p) ==
    /\ p \in Has /\ edits < MaxEdits
    /\ row' = [row EXCEPT ![p] = NoRow]
    /\ patched' = [patched EXCEPT ![p] = {}]
    /\ edits' = edits + 1
    /\ UNCHANGED <<taken, edit, overlapped>>

\* The server stops, or a setup fails.
CutEdit(e) ==
    /\ edit[e] # NoEdit /\ EndEdit(e)
    /\ UNCHANGED <<row, taken, edits, patched, overlapped>>

ProvidersNext ==
    \/ \E e \in Edits :
          \/ \E n \in ProviderNames, type \in Types : AskProvider(e, n, type)
          \/ AskLocal(e) \/ InsertRow(e) \/ AddProfile(e)
          \/ ReadForSetup(e) \/ WriteFound(e)
          \/ \E p \in Providers, n \in ProviderNames, more, disabled, default \in BOOLEAN :
                AskPatch(e, p, n, more, disabled, default)
          \/ WritePatch(e) \/ CutEdit(e)
    \/ \E p \in Providers : DeleteRow(p)

ProvidersSpec == ProvidersInit /\ [][ProvidersNext]_provVars

-----------------------------------------------------------------------------
\* get_default_team_provider: of the enabled ones.
Default == {p \in Has : row[p].default /\ ~ row[p].disabled}

EditShapes ==
    [op : {"insert", "start", "profile", "setup", "found"}, id : Providers, row : Rows]
        \cup [op : {"patch"}, id : Providers, row : Rows, old : Rows]

ProvidersTypeOK ==
    /\ row \in [Providers -> Rows \cup {NoRow}]
    /\ edit \in [Edits -> EditShapes \cup {NoEdit}]
    /\ taken \subseteq Providers /\ edits \in 0..MaxEdits
    /\ patched \in [Providers -> SUBSET Settings]
    /\ overlapped \in BOOLEAN

OneDefault == \A p, q \in Has : row[p].default /\ row[q].default => p = q

\* A local provider made at a start takes its name all the same.
DistinctNames ==
    \A p, q \in Has : row[p].name = row[q].name =>
        p = q \/ \E x \in {p, q} : row[x].type = "local" /\ row[x].name = Local

SettingsKept == \A p \in Has : patched[p] \subseteq row[p].config

\* A team has one default provider at most, no two of one name, and a setting
\* once patched stays, also through the background setup that writes the same
\* row minutes later.  It holds as long as no write comes between the read and
\* the write of another: nothing else keeps the rows apart.
ProvidersAgree ==
    overlapped \/ (OneDefault /\ DistinctNames /\ SettingsKept)
=============================================================================
