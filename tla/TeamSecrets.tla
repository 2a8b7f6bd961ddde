---------------------------- MODULE TeamSecrets ----------------------------
(***************************************************************************)
(* The secrets files of a team and of a user (team_service.py, the secret  *)
(* routes of routers/auth.py, shared/secret_utils.py).                     *)
(*                                                                         *)
(* A file holds the regular secrets, which one route replaces as a whole,  *)
(* and the special ones (tokens for GitHub, Hugging Face, ...), which      *)
(* another route sets one by one.  Both read the file, open it for         *)
(* writing, which empties it, and write it; nothing is locked.             *)
(***************************************************************************)
EXTENDS Naturals

CONSTANTS
    Files,         \* the team's file, the user's file
    Special,       \* SPECIAL_SECRET_TYPES
    Regular,       \* other names
    Writers,       \* PUTs that can be under way at a time
    NoWrite,
    MaxPuts        \* bound on the PUTs made

ASSUME SecretsAssumption == Special \cap Regular = {} /\ MaxPuts \in Nat

VARIABLES
    file,          \* file[f]: state "none", "empty" or "whole", and its names
    put,           \* put[w]: a PUT between its read and the end of its write
    puts,
    want,          \* history: want[f]: special secrets set and not removed
    mixed          \* history: files that two PUTs wrote at the same time

secretVars == <<file, put, puts, want, mixed>>

SecretNames == Special \cup Regular

SecretsInit ==
    /\ file = [f \in Files |-> [state |-> "none", names |-> {}]]
    /\ put = [w \in Writers |-> NoWrite]
    /\ puts = 0
    /\ want = [f \in Files |-> {}]
    /\ mixed = {}

\* The read of a PUT; an empty file does not parse, and the PUT fails with 500.
BeginPut(w, f, new, wanted) ==
    /\ put[w] = NoWrite /\ puts < MaxPuts
    /\ file[f].state # "empty"
    /\ put' = [put EXCEPT ![w] = [file |-> f, names |-> new, want |-> wanted, step |-> "open"]]
    /\ puts' = puts + 1
    /\ UNCHANGED <<file, want, mixed>>

\* Mutant: the file becomes what the request says.
PutRegularPlain(w, f, names) == BeginPut(w, f, names, want[f])

\* set_team_secrets, set_user_secrets: special names are refused, and those in
\* the file are kept.
PutRegular(w, f, names) ==
    BeginPut(w, f, names \cup (file[f].names \cap Special), want[f])

\* set_team_special_secret, set_github_pat, set_user_special_secret.
SetSpecial(w, f, s) ==
    BeginPut(w, f, file[f].names \cup {s}, want[f] \cup {s})

\* The same with an empty value.
ClearSpecial(w, f, s) ==
    BeginPut(w, f, file[f].names \ {s}, want[f] \ {s})

\* Opening for writing empties the file.
OpenFile(w) ==
    LET q == put[w] IN
    /\ q # NoWrite /\ q.step = "open"
    /\ file' = [file EXCEPT ![q.file] = [state |-> "empty", names |-> {}]]
    /\ put' = [put EXCEPT ![w].step = "write"]
    /\ UNCHANGED <<puts, want, mixed>>

WriteFile(w) ==
    LET q == put[w] IN
    /\ q # NoWrite /\ q.step = "write"
    /\ file' = [file EXCEPT ![q.file] = [state |-> "whole", names |-> q.names]]
    /\ want' = [want EXCEPT ![q.file] = q.want]
    /\ mixed' = IF \E x \in Writers \ {w} : put[x] # NoWrite /\ put[x].file = q.file
                THEN mixed \cup {q.file} ELSE mixed
    /\ put' = [put EXCEPT ![w] = NoWrite]
    /\ UNCHANGED puts

\* The server stops, or the disk is full: an emptied file stays empty.
CutPut(w) ==
    /\ put[w] # NoWrite
    /\ put' = [put EXCEPT ![w] = NoWrite]
    /\ UNCHANGED <<file, puts, want, mixed>>

SecretsNext ==
    \E w \in Writers :
        \/ \E f \in Files : \/ \E names \in SUBSET Regular : PutRegular(w, f, names)
                            \/ \E s \in Special : SetSpecial(w, f, s) \/ ClearSpecial(w, f, s)
        \/ OpenFile(w) \/ WriteFile(w) \/ CutPut(w)

SecretsSpec == SecretsInit /\ [][SecretsNext]_secretVars

-----------------------------------------------------------------------------
\* load_team_secrets: both files, the user's over the team's; one that does not
\* parse counts as having no secrets.
Loaded == UNION {file[f].names : f \in Files}

\* find_missing_secrets_for_template_launch.
Missing(referenced) == referenced \ Loaded

Puts == [file : Files, names : SUBSET SecretNames, want : SUBSET Special,
         step : {"open", "write"}]

SecretsTypeOK ==
    /\ file \in [Files -> [state : {"none", "empty", "whole"}, names : SUBSET SecretNames]]
    /\ put \in [Writers -> Puts \cup {NoWrite}]
    /\ want \in [Files -> SUBSET Special]
    /\ mixed \subseteq Files /\ puts \in 0..MaxPuts

\* A special secret is neither lost to a PUT of the regular ones, nor brought
\* back by one after it was removed, unless two PUTs wrote the file at the same
\* time; an interrupted PUT loses the whole file, never a part of it.
SpecialsSurvive ==
    \A f \in Files \ mixed : file[f].state = "whole" => file[f].names \cap Special = want[f]
=============================================================================
