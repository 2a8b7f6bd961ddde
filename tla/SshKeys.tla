------------------------------ MODULE SshKeys ------------------------------
(***************************************************************************)
(* The SSH key pair of a team (services/ssh_key_service.py).  status.json  *)
(* names the current key; its two files are made when they are first       *)
(* needed.  Launches give the public key to machines, downloads and log    *)
(* readers take the private one.  Nothing is locked, and every file is     *)
(* emptied when it is opened and written after that.  A pair is the number *)
(* of the generation that made it, from 2.                                 *)
(***************************************************************************)
EXTENDS Naturals

CONSTANTS
    Keys,          \* uuids still unused
    NoKey, Torn,   \* status.json is not there, or empty
    Callers, NoCall,
    MaxCalls       \* bound on the calls made

CallSteps == {"check", "rm", "rmPub", "save", "saving", "unset", "rename", "renaming",
              "private", "fillPrivate", "public", "fillPublic", "take"}
Purposes  == {"public", "private", "show", "create", "delete", "rename"}

ASSUME KeysAssumption ==
    /\ NoKey \notin Keys /\ Torn \notin Keys /\ NoKey # Torn /\ MaxCalls \in Nat
    /\ NoCall \notin [step : CallSteps, key : Keys, old : Keys \cup {NoKey},
                      want : Purposes, pair : Nat]

VARIABLES
    current,       \* key_id in status.json, NoKey or Torn
    private, public,   \* private[k], public[k]: what is in the file
    call,          \* call[c]: what an unfinished call has still to do
    used, calls, pairs,
    machines,      \* history: pairs whose public key machines of the team have
    muddled        \* history: a file was written or removed while another call was
                   \* under way, or a removal was cut between the two files

keyFiles == <<current, private, public>>
keyVars  == <<keyFiles, call, used, calls, pairs, machines, muddled>>

\* What a key file holds but for a pair.
Absent == 0
Blank  == 1

KeysInit ==
    /\ current = NoKey
    /\ private = [k \in Keys |-> Absent]
    /\ public = [k \in Keys |-> Absent]
    /\ call = [c \in Callers |-> NoCall]
    /\ used = {} /\ calls = 0 /\ pairs = Blank
    /\ machines = {} /\ muddled = FALSE

\* Both files exist.
Made(k) == private[k] # Absent /\ public[k] # Absent

\* A call: the next thing to do, its key, the key it replaces, what it is for and
\* the pair it has generated.
Call(step, k, old, want) ==
    [step |-> step, key |-> k, old |-> old, want |-> want, pair |-> Blank]

Start(c, q) ==
    /\ call[c] = NoCall /\ calls < MaxCalls
    /\ call' = [call EXCEPT ![c] = q]
    /\ calls' = calls + 1

Go(c, q)    == call' = [call EXCEPT ![c] = q]
GoTo(c, s)  == Go(c, [call[c] EXCEPT !.step = s])
End(c)      == call' = [call EXCEPT ![c] = NoCall]
At(c, s)    == call[c] # NoCall /\ call[c].step = s
Wants(c, w) == call[c] # NoCall /\ call[c].want = w

\* Another call is under way.
Shares(c) == \E d \in Callers \ {c} : call[d] # NoCall

\* A step that writes or removes a file.
Touches(c) == muddled' = (muddled \/ Shares(c)) /\ UNCHANGED <<used, calls, pairs>>

-----------------------------------------------------------------------------
(* Every call reads status.json first; load_status raises on an empty one. *)

\* get_or_create_org_ssh_key_pair: for a launch, which then takes the public key,
\* or for a reader of the private one.
Need(c, want) ==
    /\ \/ /\ current \in Keys
          /\ Start(c, Call("check", current, NoKey, want)) /\ UNCHANGED used
       \/ /\ current = NoKey
          /\ \E k \in Keys \ used : /\ Start(c, Call("save", k, NoKey, want))
                                    /\ used' = used \cup {k}
    /\ UNCHANGED <<keyFiles, pairs, machines, muddled>>

\* get_org_ssh_public_key, to show the key to a user.
ShowKey(c) ==
    /\ current \in Keys
    /\ Start(c, Call("take", current, NoKey, "show"))
    /\ UNCHANGED <<keyFiles, used, pairs, machines, muddled>>

\* create_ssh_key: the files of the old key go first.
CreateKey(c) ==
    /\ current # Torn
    /\ \E k \in Keys \ used :
           /\ Start(c, Call(IF current = NoKey THEN "save" ELSE "rm", k, current, "create"))
           /\ used' = used \cup {k}
    /\ UNCHANGED <<keyFiles, pairs, machines, muddled>>

\* delete_ssh_key: the files, then status.json.
DeleteKey(c) ==
    /\ current \in Keys
    /\ Start(c, Call("rm", current, current, "delete"))
    /\ UNCHANGED <<keyFiles, used, pairs, machines, muddled>>

\* update_ssh_key.
RenameKey(c) ==
    /\ current \in Keys
    /\ Start(c, Call("rename", current, NoKey, "rename"))
    /\ UNCHANGED <<keyFiles, used, pairs, machines, muddled>>

-----------------------------------------------------------------------------
(* Removing the files of a key. *)

RemovePrivate(c) ==
    /\ At(c, "rm")
    /\ private' = [private EXCEPT ![call[c].old] = Absent]
    /\ machines' = {}
    /\ GoTo(c, "rmPub") /\ Touches(c)
    /\ UNCHANGED <<current, public>>

RemovePublic(c) ==
    /\ At(c, "rmPub")
    /\ public' = [public EXCEPT ![call[c].old] = Absent]
    /\ GoTo(c, IF Wants(c, "create") THEN "save" ELSE "unset") /\ Touches(c)
    /\ UNCHANGED <<current, private, machines>>

Unset(c) ==
    /\ At(c, "unset")
    /\ current' = NoKey
    /\ End(c) /\ Touches(c)
    /\ UNCHANGED <<private, public, machines>>

-----------------------------------------------------------------------------
(* Writing status.json: save_status empties it, and fills it. *)

EmptyStatus(c) ==
    /\ \/ At(c, "save") /\ GoTo(c, "saving")
       \/ At(c, "rename") /\ GoTo(c, "renaming")
    /\ current' = Torn
    /\ Touches(c)
    /\ UNCHANGED <<private, public, machines>>

Save(c) ==
    /\ At(c, "saving")
    /\ current' = call[c].key
    /\ GoTo(c, "check") /\ Touches(c)
    /\ UNCHANGED <<private, public, machines>>

WriteName(c) ==
    /\ At(c, "renaming")
    /\ current' = call[c].key
    /\ End(c) /\ Touches(c)
    /\ UNCHANGED <<private, public, machines>>

-----------------------------------------------------------------------------
(* Generating a pair: two files, each emptied and then written. *)

\* Both files are there, or a pair is generated.
Check(c) ==
    /\ At(c, "check")
    /\ \/ Made(call[c].key) /\ GoTo(c, "take") /\ UNCHANGED pairs
       \/ /\ ~ Made(call[c].key)
          /\ pairs' = pairs + 1
          /\ Go(c, [call[c] EXCEPT !.step = "private", !.pair = pairs + 1])
    /\ UNCHANGED <<keyFiles, used, calls, machines, muddled>>

\* Mutant: a private key that is there is kept.
KeepPrivate(c) ==
    /\ At(c, "private")
    /\ IF private[call[c].key] = Absent
       THEN private' = [private EXCEPT ![call[c].key] = Blank] /\ GoTo(c, "fillPrivate")
       ELSE UNCHANGED private /\ GoTo(c, "public")
    /\ Touches(c)
    /\ UNCHANGED <<current, public, machines>>

EmptyPrivate(c) ==
    /\ At(c, "private")
    /\ private' = [private EXCEPT ![call[c].key] = Blank]
    /\ GoTo(c, "fillPrivate") /\ Touches(c)
    /\ UNCHANGED <<current, public, machines>>

WritePrivate(c) ==
    /\ At(c, "fillPrivate")
    /\ private' = [private EXCEPT ![call[c].key] = call[c].pair]
    /\ GoTo(c, "public") /\ Touches(c)
    /\ UNCHANGED <<current, public, machines>>

EmptyPublic(c) ==
    /\ At(c, "public")
    /\ public' = [public EXCEPT ![call[c].key] = Blank]
    /\ GoTo(c, "fillPublic") /\ Touches(c)
    /\ UNCHANGED <<current, private, machines>>

WritePublic(c) ==
    /\ At(c, "fillPublic")
    /\ public' = [public EXCEPT ![call[c].key] = call[c].pair]
    /\ GoTo(c, "take") /\ Touches(c)
    /\ UNCHANGED <<current, private, machines>>

-----------------------------------------------------------------------------
(* The end of a call. *)

\* get_org_ssh_public_key reads status.json again: the key may be another one by
\* now, or gone.  A file that is missing is generated; one that is empty is
\* refused.  A call that changes status.json between this and the read of the file
\* muddles both, so one step stands for the two reads.
TakePublic(c) ==
    /\ At(c, "take") /\ current \in Keys
    /\ \/ /\ public[current] \notin {Absent, Blank}
          /\ machines' = IF Wants(c, "public") THEN machines \cup {public[current]} ELSE machines
          /\ End(c)
       \/ /\ public[current] = Absent
          /\ Go(c, Call("check", current, NoKey, call[c].want)) /\ UNCHANGED machines
    /\ Wants(c, "public") \/ Wants(c, "show")
    /\ UNCHANGED <<keyFiles, used, calls, pairs, muddled>>

\* It ends without a key for a machine: it was not for one, or it raised.
EndTake(c) ==
    /\ At(c, "take")
    /\ \/ ~ Wants(c, "public") /\ ~ Wants(c, "show")
       \/ current \notin Keys
       \/ current \in Keys /\ public[current] = Blank
    /\ End(c)
    /\ UNCHANGED <<keyFiles, used, calls, pairs, machines, muddled>>

\* The server stops.
CutCall(c) ==
    /\ call[c] # NoCall /\ End(c)
    /\ muddled' = (muddled \/ At(c, "rmPub"))
    /\ UNCHANGED <<keyFiles, used, calls, pairs, machines>>

KeysNext ==
    \E c \in Callers :
        \/ \E want \in {"public", "private"} : Need(c, want)
        \/ ShowKey(c) \/ CreateKey(c) \/ DeleteKey(c) \/ RenameKey(c)
        \/ RemovePrivate(c) \/ RemovePublic(c) \/ Unset(c)
        \/ EmptyStatus(c) \/ Save(c) \/ WriteName(c) \/ Check(c)
        \/ EmptyPrivate(c) \/ WritePrivate(c) \/ EmptyPublic(c) \/ WritePublic(c)
        \/ TakePublic(c) \/ EndTake(c) \/ CutCall(c)

-----------------------------------------------------------------------------
KeysSpec == KeysInit /\ [][KeysNext]_keyVars

CallShapes ==
    [step : CallSteps, key : Keys, old : Keys \cup {NoKey}, want : Purposes, pair : 1..pairs]

KeysTypeOK ==
    /\ pairs \in Nat \ {0} /\ call \in [Callers -> CallShapes \cup {NoCall}]
    /\ current \in Keys \cup {NoKey, Torn}
    /\ private \in [Keys -> 0..pairs] /\ public \in [Keys -> 0..pairs]
    /\ machines \subseteq 2..pairs
    /\ muddled \in BOOLEAN /\ calls \in 0..MaxCalls

\* The private key that the team gets opens every machine launched since the key
\* was last replaced or deleted, also where a generation was cut between any two
\* of its steps and generated again.  A write of status.json that is cut leaves it
\* empty, and no call reads it again: then at least the private key is still
\* somewhere in the directory.  It holds as long as nothing was muddled: two first
\* launches may each give their machine a key, and keep one; and after a removal
\* cut between its two files, a generation cut between its own leaves the public
\* key of one pair beside the private key of another, and launches go on.
MachinesOpen ==
    ~ muddled =>
        \A p \in machines :
            IF current = Torn THEN \E k \in Keys : private[k] = p
                              ELSE current # NoKey /\ private[current] = p
=============================================================================
