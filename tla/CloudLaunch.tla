---------------------------- MODULE CloudLaunch ----------------------------
(***************************************************************************)
(* A team's launches on a cloud provider                                   *)
(* (backend/transformerlab/compute_providers/): launch_cluster,            *)
(* stop_cluster and the end of the machine.                                *)
(*                                                                         *)
(* The remote queue runs several launches of a provider at once, each in a *)
(* thread of its own with a provider object of its own.  A launch first    *)
(* looks for the resources all launches of the team share (security group, *)
(* key pair, role, network) and creates what it misses, then creates its   *)
(* machine, on Azure after the machine's own address and interface.  Every *)
(* call may fail, or do its work and lose its answer, and the server may   *)
(* stop between two calls: nothing of this is written down.                *)
(***************************************************************************)
EXTENDS ProviderAnswers, Sequences

CONSTANTS
    Launches,    \* one cluster name each
    Kinds,       \* the provider types considered
    Stoppable,   \* the clusters users ask to stop
    Attempts,    \* _IAM_PROPAGATION_RETRIES, or the number of fallback images
    MaxFaults,   \* bounds the calls that fail or lose their answer
    MaxCuts      \* bounds the launches the server abandons by stopping

CloudKinds == {"AWS", "AZURE", "GCP", "NEBIUS", "LAMBDA", "RUNPOD", "VASTAI",
               "SKYPILOT", "SLURM", "DSTACK"}

ASSUME CloudAssumption == /\ Kinds \subseteq CloudKinds
                          /\ Stoppable \subseteq Launches
                          /\ Attempts \in Nat \ {0}
                          /\ MaxFaults \in Nat /\ MaxCuts \in Nat

VARIABLES
    kind,    \* the provider's type
    have,    \* the shared resources that exist in the team's account
    at,      \* at[l]: where launch l is
    todo,    \* todo[l]: the steps on shared resources it has still to make
    tries,   \* tries[l]: attempts at the machine that failed
    own,     \* own[l]: "ip", "nic": what exists for this cluster only (Azure)
    inst,    \* inst[l]: the machine of l; "gone" is gone or going
    mute,    \* machines that cannot delete themselves
    stop,    \* stop[l]: where the request to stop l is, or what it answered
    undeleted, \* clusters of which a delete call failed
    made,    \* history: made[l] machines were created, or asked for, for l
    hurt,    \* history: launches that overlapped another, or had a failing call
    blind,   \* history: clusters whose stop did not look whether it ended a machine
    faults, cuts

launchVars == <<at, todo, tries>>
history    == <<made, hurt, blind>>
counters   == <<faults, cuts>>
vars       == <<kind, have, launchVars, own, inst, mute, stop, undeleted, history,
                counters>>

-----------------------------------------------------------------------------
(* The shared resources of a team, in the order they are looked at. *)

Look(r) == [op |-> "look", on |-> r]   \* plan what is missing
Make(r) == [op |-> "make", on |-> r]   \* raises when r is already there
Put(r)  == [op |-> "put",  on |-> r]   \* creates or updates r
Read(r) == [op |-> "read", on |-> r]   \* may find none, and raise

AwsShared == <<Look("group"), Look("key"), Read("image"), Look("role"),
               Put("policy"), Look("profile")>>

AzureShared == <<Put("resourceGroup"), Look("nsg"), Look("vnet")>>

GcpShared == <<Look("firewall")>>

\* The subnets are also listed before the networks: one that is there then is
\* there afterwards.
NebiusShared == <<Look("network"), Look("subnet")>>

\* A region with capacity, or the one of the attached file systems, then the key.
LambdaShared == <<Read("capacity"), Look("key")>>

\* The cheapest offer for the accelerators.
VastShared == <<Read("offer")>>

Shared == CASE kind = "AWS" -> AwsShared       [] kind = "AZURE" -> AzureShared
            [] kind = "GCP" -> GcpShared       [] kind = "NEBIUS" -> NebiusShared
            [] kind = "LAMBDA" -> LambdaShared [] kind = "VASTAI" -> VastShared
            [] OTHER -> <<>>

\* "It exists already" is no error for these.
Tolerated == {"nsg", "vnet", "firewall", "network"}

\* Mutant: the role is attached whether the profile has it or not.
AwsProfileBlind == IF "profile" \in have THEN <<Make("attached")>>
                   ELSE <<Make("profile"), Make("attached")>>

\* Mutant: a profile that exists is taken for one that has the role.
AwsProfileOnce == IF "profile" \in have THEN <<>>
                  ELSE <<Make("profile"), Make("attached")>>

\* The profile and the role in it are read at once.
AwsProfile == IF "attached" \in have THEN <<>>
              ELSE IF "profile" \in have THEN <<Make("attached")>>
              ELSE <<Make("profile"), Make("attached")>>

\* The ingress rule belongs to the creation of the group.
AwsGroup == IF "group" \in have THEN <<>> ELSE <<Make("group"), Make("rule")>>

\* What is to be done after looking for r.
Plan(r) == CASE r = "profile" -> AwsProfile
             [] r = "group"   -> AwsGroup
             [] OTHER -> IF r \in have THEN <<>>
                         ELSE IF r \in Tolerated THEN <<Put(r)>> ELSE <<Make(r)>>

-----------------------------------------------------------------------------

Init ==
    /\ kind \in Kinds
    /\ have = {}
    /\ at = [l \in Launches |-> "new"]
    /\ todo = [l \in Launches |-> <<>>]
    /\ tries = [l \in Launches |-> 0]
    /\ own = [l \in Launches |-> {}]
    /\ inst = [l \in Launches |-> "none"]
    /\ mute = {}
    /\ stop = [l \in Launches |-> "none"]
    /\ undeleted = {}
    /\ made = [l \in Launches |-> 0]
    /\ hurt = {} /\ blind = {}
    /\ faults = 0 /\ cuts = 0

Running(l) == at[l] \notin {"new", "done", "failed", "cut"}

\* The launch of l goes on to a.  A call that did not answer counts as a fault.
Goes(l, a) == at' = [at EXCEPT ![l] = a]

Answered(ok) == IF ok THEN UNCHANGED faults
                ELSE faults < MaxFaults /\ faults' = faults + 1

HurtUnless(l, ok) == hurt' = IF ok THEN hurt ELSE hurt \cup {l}

\* Where an exception leads.  From the address on, Azure cleans up.
Thrown(l) == IF kind = "AZURE" /\ todo[l] = <<>> THEN "undoNic" ELSE "failed"

Begin(l) ==
    /\ at[l] = "new"
    /\ Goes(l, "prepare")
    /\ todo' = [todo EXCEPT ![l] = Shared]
    /\ LET others == {m \in Launches : Running(m)}
       IN  hurt' = IF others = {} THEN hurt ELSE hurt \cup others \cup {l}
    /\ UNCHANGED <<kind, have, tries, own, inst, mute, stop, undeleted, made, blind, counters>>

LookFor(l) ==
    /\ at[l] = "prepare" /\ todo[l] # <<>> /\ Head(todo[l]).op \in {"look", "read"}
    /\ todo' = [todo EXCEPT ![l] =
           IF Head(@).op = "look" THEN Plan(Head(@).on) \o Tail(@) ELSE Tail(@)]
    /\ UNCHANGED <<kind, have, at, tries, own, inst, mute, stop, undeleted, history,
                   counters>>

\* A shared resource is created.
Supply(l, ok) ==
    /\ at[l] = "prepare" /\ todo[l] # <<>>
    /\ LET s == Head(todo[l]) IN
         /\ s.op = "put" \/ (s.op = "make" /\ s.on \notin have)
         /\ have' = have \cup {s.on}
    /\ Goes(l, IF ok THEN "prepare" ELSE "failed")
    /\ todo' = [todo EXCEPT ![l] = IF ok THEN Tail(@) ELSE <<>>]
    /\ Answered(ok) /\ HurtUnless(l, ok)
    /\ UNCHANGED <<kind, tries, own, inst, mute, stop, undeleted, made, blind, cuts>>

\* Another launch was faster: the provider refuses a second one.
Refused(l) ==
    /\ at[l] = "prepare" /\ todo[l] # <<>>
    /\ Head(todo[l]).op = "make" /\ Head(todo[l]).on \in have
    /\ Goes(l, "failed")
    /\ todo' = [todo EXCEPT ![l] = <<>>]
    /\ UNCHANGED <<kind, have, tries, own, inst, mute, stop, undeleted, history,
                   counters>>

-----------------------------------------------------------------------------
(* Azure: the address and the interface of the machine. *)

MakeIp(l, ok) ==
    /\ kind = "AZURE" /\ at[l] = "prepare" /\ todo[l] = <<>>
    /\ own' = [own EXCEPT ![l] = @ \cup {"ip"}]
    /\ Goes(l, IF ok THEN "ip" ELSE Thrown(l))
    /\ Answered(ok) /\ HurtUnless(l, ok)
    /\ UNCHANGED <<kind, have, todo, tries, inst, mute, stop, undeleted, made, blind, cuts>>

MakeNic(l, ok) ==
    /\ at[l] = "ip" /\ "ip" \in own[l]
    /\ own' = [own EXCEPT ![l] = @ \cup {"nic"}]
    /\ Goes(l, IF ok THEN "nic" ELSE Thrown(l))
    /\ Answered(ok) /\ HurtUnless(l, ok)
    /\ UNCHANGED <<kind, have, todo, tries, inst, mute, stop, undeleted, made, blind, cuts>>

\* There is a machine of l.
Holds(l) == inst[l] \in {"up", "idle", "off", "broken"}

\* The next call refers to what a stop or the end of the machine took away, or
\* to the name of a machine that is there with another image.
Undercut(l) ==
    /\ \/ at[l] = "ip" /\ "ip" \notin own[l]
       \/ at[l] = "nic" /\ ("nic" \notin own[l] \/ Holds(l))
    /\ Goes(l, Thrown(l))
    /\ UNCHANGED <<kind, have, todo, tries, own, inst, mute, stop, undeleted, history,
                   counters>>

\* An interface cannot be deleted while a machine has it, nor an address while
\* an interface has it.
WithoutNic(l) == IF Holds(l) THEN own[l] ELSE own[l] \ {"nic"}
WithoutIp(l)  == IF "nic" \in own[l] THEN own[l] ELSE own[l] \ {"ip"}

\* A delete that fails is only logged.
Deleted(l, ok, rest) ==
    /\ own' = [own EXCEPT ![l] = IF ok THEN rest ELSE @]
    /\ undeleted' = IF ok THEN undeleted ELSE undeleted \cup {l}

\* Mutant: the address is released before the interface that holds it.
UndoNicLast(l, ok) ==
    /\ at[l] = "undoNic"
    /\ Deleted(l, ok, WithoutIp(l))
    /\ Goes(l, "undoIp")
    /\ UNCHANGED <<kind, have, todo, tries, inst, mute, stop, history,
                   counters>>

UndoNic(l, ok) ==
    /\ at[l] = "undoNic"
    /\ Deleted(l, ok, WithoutNic(l))
    /\ Goes(l, "undoIp")
    /\ UNCHANGED <<kind, have, todo, tries, inst, mute, stop, history,
                   counters>>

UndoIp(l, ok) ==
    /\ at[l] = "undoIp"
    /\ Deleted(l, ok, WithoutIp(l))
    /\ Goes(l, "failed")
    /\ UNCHANGED <<kind, have, todo, tries, inst, mute, stop, history,
                   counters>>

-----------------------------------------------------------------------------
(* The machine. *)

Ready(l) == IF kind = "AZURE" THEN at[l] = "nic" /\ "nic" \in own[l]
                              ELSE at[l] \in {"prepare", "resend"} /\ todo[l] = <<>>

\* The machine is created, or asked for: i is what the answer stands for.
Creates(l, ok, i) ==
    /\ Ready(l)
    /\ inst' = [inst EXCEPT ![l] = i]
    /\ made' = [made EXCEPT ![l] = @ + 1]
    /\ Goes(l, IF ok THEN "done" ELSE Thrown(l))
    /\ Answered(ok) /\ HurtUnless(l, ok)
    /\ UNCHANGED <<kind, have, todo, tries, own, stop, undeleted, blind, cuts>>

RunEc2(l, ok) == kind = "AWS" /\ Creates(l, ok, "up") /\ UNCHANGED mute

\* Azure: an error that speaks of an image, and many others do, leads to the next
\* image, whatever has become of the machine.
NextImage(l) == /\ tries[l] + 1 < Attempts
                /\ tries' = [tries EXCEPT ![l] = @ + 1]
                /\ UNCHANGED at

\* The machine is put under the cluster's name: one that has the name already is
\* the one that is meant.
PutVm(l, ok, i) ==
    /\ kind = "AZURE" /\ Ready(l)
    /\ inst' = [inst EXCEPT ![l] = i]
    /\ made' = [made EXCEPT ![l] = IF Holds(l) THEN @ ELSE @ + 1]
    /\ \/ Goes(l, IF ok THEN "done" ELSE Thrown(l)) /\ UNCHANGED tries
       \/ ~ ok /\ NextImage(l)
    /\ Answered(ok) /\ HurtUnless(l, ok)
    /\ UNCHANGED <<kind, have, todo, own, stop, undeleted, blind, cuts>>

\* The machine's right to delete itself is granted when the call has answered; a
\* refusal is only logged.  One whose command has ended does not try again.
CreateVm(l, ok) ==
    /\ PutVm(l, ok, IF inst[l] = "idle" THEN "idle" ELSE "up")
    /\ mute' = mute \cup {l} \/ (ok /\ inst[l] # "idle" /\ mute' = mute \ {l})

\* The answer is an operation still to be carried out.  Without a service
\* account the machine gets no token to delete itself with.
InsertGce(l, ok) ==
    kind = "GCP" /\ Creates(l, ok, "asked") /\ mute' \in {mute, mute \cup {l}}

\* Mutant: an attempt whose outcome is not known is made again.
CreateNamedAgain(l, ok) ==
    /\ kind \in {"NEBIUS", "LAMBDA", "RUNPOD", "VASTAI"} /\ Ready(l)
    /\ inst' = [inst EXCEPT ![l] = "up"]
    /\ made' = [made EXCEPT ![l] = @ + 1]
    /\ Goes(l, IF ok THEN "done" ELSE at[l])
    /\ Answered(ok) /\ HurtUnless(l, ok)
    /\ UNCHANGED <<kind, have, todo, tries, own, stop, undeleted, blind, cuts, mute>>

\* One request under the cluster's name; its id may be missing from the answer.
CreateNamed(l, ok) ==
    /\ kind \in {"NEBIUS", "LAMBDA", "RUNPOD", "VASTAI"}
    /\ Creates(l, ok, "up") /\ UNCHANGED mute

\* The SkyPilot server answers with the id of a request it has only queued.  On a
\* cluster that is there it runs the command again.
Queued(l) == IF Holds(l) THEN "up" ELSE "asked"

RequestSky(l, ok) ==
    kind = "SKYPILOT" /\ Creates(l, ok, Queued(l)) /\ UNCHANGED mute

\* The SDK's call raised something else than a connection error or a time-out:
\* the request is sent once more by hand, taken the first time or not.
SdkRaises(l, taken) ==
    /\ kind = "SKYPILOT" /\ Ready(l) /\ at[l] = "prepare"
    /\ inst' = [inst EXCEPT ![l] = IF taken THEN "asked" ELSE @]
    /\ made' = [made EXCEPT ![l] = IF taken THEN @ + 1 ELSE @]
    /\ Goes(l, "resend")
    /\ Answered(~ taken) /\ HurtUnless(l, ~ taken)
    /\ UNCHANGED <<kind, have, todo, tries, own, mute, stop, undeleted, blind, cuts>>

SubmitRun(l, ok) == kind = "DSTACK" /\ Creates(l, ok, "asked") /\ UNCHANGED mute

\* Over SSH the exit status of sbatch is not looked at: a job it refused is
\* reported as submitted.
SubmitSlurm(l, ok) ==
    /\ kind = "SLURM" /\ UNCHANGED mute
    /\ \/ Creates(l, ok, "asked")
       \/ /\ ok /\ Ready(l) /\ Goes(l, "done")
          /\ UNCHANGED <<kind, have, todo, tries, own, inst, stop, undeleted, history,
                         counters>>

Create(l, ok) ==
    \/ RunEc2(l, ok) \/ CreateVm(l, ok) \/ InsertGce(l, ok) \/ CreateNamed(l, ok)
    \/ RequestSky(l, ok) \/ SubmitRun(l, ok) \/ SubmitSlurm(l, ok)

\* A queued request is carried out, or turns out to be impossible.
Provision(l) ==
    /\ inst[l] = "asked"
    /\ inst' \in {[inst EXCEPT ![l] = i] : i \in {"up", "gone"}}
    /\ UNCHANGED <<kind, have, launchVars, own, mute, stop, undeleted, history, counters>>

\* AWS does not know the profile yet; Azure or GCP not the image.
TryAgain(l) ==
    /\ Ready(l) /\ kind \in {"AWS", "AZURE", "GCP"}
    /\ tries[l] + 1 < Attempts
    /\ tries' = [tries EXCEPT ![l] = @ + 1]
    /\ UNCHANGED <<kind, have, at, todo, own, inst, mute, stop, undeleted, history,
                   counters>>

\* Azure keeps a machine whose creation failed, in the state "failed".
CreateBreaks(l) ==
    /\ inst[l] \in {"none", "broken"} /\ PutVm(l, FALSE, "broken")
    /\ UNCHANGED mute

\* Any call may fail without having done anything.
Raise(l) ==
    /\ Running(l) /\ at[l] \notin {"undoNic", "undoIp"}
    /\ Goes(l, Thrown(l))
    /\ todo' = [todo EXCEPT ![l] = <<>>]
    /\ Answered(FALSE) /\ HurtUnless(l, FALSE)
    /\ UNCHANGED <<kind, have, tries, own, inst, mute, stop, undeleted, made, blind, cuts>>

\* The server stops: no exception handler of the launch runs.
Cut(l) ==
    /\ Running(l) /\ cuts < MaxCuts
    /\ Goes(l, "cut")
    /\ todo' = [todo EXCEPT ![l] = <<>>]
    /\ cuts' = cuts + 1
    /\ hurt' = hurt \cup {l}
    /\ UNCHANGED <<kind, have, tries, own, inst, mute, stop, undeleted, made, blind, faults>>

-----------------------------------------------------------------------------
(* The end of the machine. *)

\* What a machine needs to delete itself when its command has ended.
MayEnd(l) == /\ kind = "AWS" => {"policy", "attached"} \subseteq have
             /\ l \notin mute

\* The machine is gone, and with it the interface it was given.
Leaves(l) == /\ inst' = [inst EXCEPT ![l] = "gone"]
             /\ own' = [own EXCEPT ![l] = @ \ {"nic"}]

Stays(l, i) == inst' = [inst EXCEPT ![l] = i] /\ UNCHANGED own

\* The exit trap of the machine's script.  When its own call fails the machine
\* stays; on Nebius and Lambda it is shut down at least.
Finish(l) ==
    /\ inst[l] = "up"
    /\ \/ MayEnd(l) /\ Leaves(l) /\ UNCHANGED <<mute, faults>>
       \/ ~ MayEnd(l) /\ Stays(l, "idle") /\ UNCHANGED <<mute, faults>>
       \/ /\ MayEnd(l) /\ Answered(FALSE) /\ mute' = mute \cup {l}
          /\ Stays(l, IF kind \in {"NEBIUS", "LAMBDA"} THEN "off" ELSE "idle")
    /\ UNCHANGED <<kind, have, launchVars, stop, undeleted, history, cuts>>

SpotKinds == {"SKYPILOT", "NEBIUS", "AWS", "GCP", "AZURE", "DSTACK", "RUNPOD"}

\* A spot machine is reclaimed: some clouds delete it, others stop it.
Evict(l) ==
    /\ inst[l] = "up" /\ kind \in SpotKinds
    /\ IF kind \in {"GCP", "NEBIUS", "RUNPOD"} THEN Stays(l, "off") ELSE Leaves(l)
    /\ UNCHANGED <<kind, have, launchVars, mute, stop, undeleted, history, counters>>

Replies(l, s) == stop' = [stop EXCEPT ![l] = s]

ByName == {"AWS", "GCP", "NEBIUS", "LAMBDA", "RUNPOD", "VASTAI"}

\* Mutant: nothing to stop is taken for success.
StopByNameEasy(l) ==
    /\ stop[l] = "none" /\ kind \in ByName
    /\ \/ Holds(l) /\ Leaves(l) /\ Replies(l, "success")
       \/ /\ Replies(l, IF Holds(l) THEN "error" ELSE "success")
          /\ UNCHANGED <<inst, own>>
    /\ UNCHANGED <<kind, have, launchVars, mute, undeleted, history, counters>>

\* The machine is searched by the name of its cluster, and deleted; none, or a
\* failing call, is an error.
StopByName(l) ==
    /\ stop[l] = "none" /\ kind \in ByName
    /\ \/ Holds(l) /\ Leaves(l) /\ Replies(l, "success")
       \/ Replies(l, "error") /\ UNCHANGED <<inst, own>>
    /\ UNCHANGED <<kind, have, launchVars, mute, undeleted, history, counters>>

\* SkyPilot tears the cluster down and the result of the request is waited for.
\* A result that cannot be decoded is success, failed and cancelled requests
\* included; without the id of the request it is "initiated".
StopSky(l) ==
    /\ stop[l] = "none" /\ kind = "SKYPILOT"
    /\ \/ (Holds(l) \/ inst[l] = "asked") /\ Leaves(l) /\ UNCHANGED blind
          /\ \E r \in {"success", "error", "initiated"} : Replies(l, r)
       \/ /\ UNCHANGED <<inst, own>>
          /\ \/ Replies(l, "success") /\ blind' = blind \cup {l}
             \/ (\E r \in {"error", "initiated"} : Replies(l, r)) /\ UNCHANGED blind
    /\ UNCHANGED <<kind, have, launchVars, mute, undeleted, made, hurt, counters>>

\* dstack stops the run wherever it is; none is an error.
StopRun(l) ==
    /\ stop[l] = "none" /\ kind = "DSTACK"
    /\ \/ (Holds(l) \/ inst[l] = "asked") /\ Leaves(l) /\ Replies(l, "success")
       \/ Replies(l, "error") /\ UNCHANGED <<inst, own>>
    /\ UNCHANGED <<kind, have, launchVars, mute, undeleted, history, counters>>

\* Slurm clusters are managed elsewhere.
StopSlurm(l) ==
    /\ stop[l] = "none" /\ kind = "SLURM"
    /\ Replies(l, "success") /\ blind' = blind \cup {l}
    /\ UNCHANGED <<kind, have, launchVars, own, inst, mute, undeleted, made, hurt, counters>>

\* Azure deletes without looking; what is not there needs no deleting.
StopAzure(l) ==
    /\ stop[l] = "none" /\ kind = "AZURE"
    /\ \/ Holds(l) /\ Leaves(l) /\ Replies(l, "nic") /\ UNCHANGED blind
       \/ ~ Holds(l) /\ Replies(l, "nic") /\ UNCHANGED <<inst, own>> /\ blind' = blind \cup {l}
       \/ Replies(l, "error") /\ UNCHANGED <<inst, own, blind>>
    /\ hurt' = hurt \cup {l}
    /\ UNCHANGED <<kind, have, launchVars, mute, undeleted, made, counters>>

StopNic(l, ok) ==
    /\ stop[l] = "nic"
    /\ Deleted(l, ok, WithoutNic(l)) /\ Replies(l, "ip")
    /\ UNCHANGED <<kind, have, launchVars, inst, mute, history, counters>>

StopIp(l, ok) ==
    /\ stop[l] = "ip"
    /\ Deleted(l, ok, WithoutIp(l)) /\ Replies(l, "success")
    /\ UNCHANGED <<kind, have, launchVars, inst, mute, history, counters>>

-----------------------------------------------------------------------------

Launch(l) ==
    \/ LookFor(l) \/ Refused(l) \/ Undercut(l)
    \/ TryAgain(l) \/ CreateBreaks(l) \/ Raise(l)
    \/ \E ok \in BOOLEAN :
          \/ Supply(l, ok) \/ SdkRaises(l, ok) \/ MakeIp(l, ok) \/ MakeNic(l, ok)
          \/ Create(l, ok) \/ UndoNic(l, ok) \/ UndoIp(l, ok)

Stop(l) ==
    /\ l \in Stoppable
    /\ \/ StopByName(l) \/ StopSky(l) \/ StopRun(l) \/ StopSlurm(l) \/ StopAzure(l)
       \/ \E ok \in BOOLEAN : StopNic(l, ok) \/ StopIp(l, ok)

Next == \E l \in Launches : \/ Begin(l) \/ Launch(l) \/ Cut(l) \/ Stop(l)
                            \/ Provision(l) \/ Finish(l) \/ Evict(l)

\* A launch runs in a thread of its own, and every provider call has a timeout.
Fairness == \A l \in Launches : WF_vars(Launch(l))

Spec == Init /\ [][Next]_vars /\ Fairness

-----------------------------------------------------------------------------
(* Properties. *)

Resources == {"group", "rule", "key", "role", "policy", "profile", "attached",
              "resourceGroup", "nsg", "vnet", "firewall", "network", "subnet"}

Steps == [op : {"look", "make", "put"}, on : Resources]
             \cup [op : {"read"}, on : {"image", "capacity", "offer"}]

TypeOK ==
    /\ kind \in Kinds
    /\ have \subseteq Resources
    /\ at \in [Launches -> {"new", "prepare", "ip", "nic", "resend", "undoNic",
                            "undoIp", "done", "failed", "cut"}]
    /\ todo \in [Launches -> Seq(Steps)]
    /\ \A l \in Launches : todo[l] # <<>> => at[l] = "prepare"
    /\ made \in [Launches -> Nat]
    /\ tries \in [Launches -> 0..(Attempts - 1)]
    /\ own \in [Launches -> SUBSET {"ip", "nic"}]
    /\ inst \in [Launches -> {"none", "asked", "up", "idle", "off", "broken",
                              "gone"}]
    /\ stop \in [Launches -> {"none", "nic", "ip", "error", "initiated",
                              "success"}]
    /\ "rule" \in have => "group" \in have
    /\ "attached" \in have => {"role", "policy", "profile"} \subseteq have
    /\ faults \in 0..MaxFaults /\ cuts \in 0..MaxCuts
    /\ mute \cup undeleted \cup hurt \cup blind \subseteq Launches

\* However many attempts a launch makes and whatever answers it loses, it never
\* creates a second machine under its name.  Only the SkyPilot server may be asked
\* twice, when its first answer was an error.
OneMachine ==
    \A l \in Launches :
        made[l] <= IF kind = "SKYPILOT" /\ l \in hurt THEN 2 ELSE 1

\* A machine whose command has ended only stays when its own call failed, Azure
\* refused it the right or GCP gave it no account: never because an earlier
\* launch of the team stopped half way through the role, policy and profile.
EndsItself == \A l \in Launches : inst[l] = "idle" => l \in mute

\* A launch that failed and has no machine leaves no address or interface,
\* unless the provider refused to delete them.
FailureIsClean ==
    \A l \in Launches :
        at[l] = "failed" /\ inst[l] = "none" /\ l \notin undeleted => own[l] = {}

\* A launch that has the account to itself and whose calls all answer is not
\* refused, whatever earlier launches left there when they failed or were cut.
LeftoversDoNotBlock == \A l \in Launches : at[l] = "failed" => l \in hurt

\* A launch that failed is forgotten: it keeps nothing of its own, and what it
\* left of the team's does not stand in the way of the next.
FailuresAreForgotten == FailureIsClean /\ LeftoversDoNotBlock

\* A stop that reports success has ended the machine for good, also while the
\* launch goes on to its next attempt.  It has not if it could not tell: Slurm's
\* does nothing, Azure's does not look whether there is a machine, SkyPilot's may
\* not read the result.  And a SkyPilot request sent twice may be carried out twice.
StopIsFinal ==
    \A l \in Launches :
        stop[l] = "success" /\ inst[l] = "up" => l \in blind \/ made[l] > 1

\* What get_cluster_status may say of the machine of l.  The others are not
\* asked for the state of a machine.
Asked == ClusterKinds \cup {"DSTACK"}
Says(l) ==
    CASE inst[l] \in {"up", "idle"} ->
             Shown(kind, Alive) \cup IF kind \in Swallows THEN {Missing} ELSE {}
      [] inst[l] = "broken" -> Shown(kind, Broken)
      [] inst[l] = "off" -> Shown(kind, Off)
      [] inst[l] \in {"none", "asked"} -> {IfGone(kind)}
      [] OTHER -> Shown(kind, Ending) \cup {IfGone(kind)}

\* The status worker takes a machine for ended exactly when it is: it reads
\* every state a provider has for a machine that is going, and none of those
\* it has for one that runs, as over or missing.
AnswersAsPolled ==
    kind \in Asked =>
        \A l \in Launches :
            LET over == Ended \cup {{"completed"}, {"failed"}, {"cancelled"}}
                absent == {Missing, IfGone(kind)}
            IN  IF inst[l] \in {"up", "idle"}
                THEN /\ Says(l) \cap over = {}
                     /\ kind \notin Swallows => Says(l) \cap absent = {}
                ELSE Says(l) \subseteq over \cup absent

\* Every launch ends, refused, failed or with a machine.
LaunchEnds == \A l \in Launches : Running(l) ~> ~ Running(l)
=============================================================================
