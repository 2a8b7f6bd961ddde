-------------------------- MODULE ProviderAnswers --------------------------
(***************************************************************************)
(* What the compute providers answer about the resource of a job           *)
(* (get_cluster_status and list_jobs in                                    *)
(* backend/transformerlab/compute_providers/).                             *)
(*                                                                         *)
(* An answer is the set of states it reports: that of the cluster, or those *)
(* of the jobs in the cluster's queue.  {} is "Pod not found", "Instance   *)
(* not found", "ResourceNotFound", "No pid file" or an empty queue,        *)
(* whatever cluster state comes with the message.  AWS reports a missing   *)
(* instance as UNKNOWN, without a message.  INIT and UP are both "up":     *)
(* nobody tells them apart.                                                *)
(***************************************************************************)
EXTENDS Naturals, FiniteSets

ClusterKinds == {"LOCAL", "RUNPOD", "AWS", "NEBIUS", "AZURE", "GCP", "VASTAI",
                 "LAMBDA"}
QueueKinds   == {"SKYPILOT", "SLURM", "DSTACK"}

Missing == {}
Unknown == {"unknown"}
ClusterAnswers == {{s} : s \in {"up", "unknown", "down", "failed", "stopped"}}
QueueAnswers   == SUBSET {"active", "completed", "failed", "cancelled"}

\* Answers that say the resource is over.
Ended == {{"down"}, {"failed"}, {"stopped"}}

IfGone(k) == IF k = "AWS" THEN Unknown ELSE Missing

-----------------------------------------------------------------------------
(* The providers' own names for the states of a machine. *)

AwsStates == [pending |-> "up", running |-> "up", stopping |-> "stopped",
              stopped |-> "stopped", shuttingDown |-> "down", terminated |-> "down"]

\* The power state of a virtual machine, or while it has none the state of its
\* provisioning.
AzureStates == [starting |-> "up", running |-> "up", stopping |-> "stopped",
                stopped |-> "stopped", deallocating |-> "down",
                deallocated |-> "down", creating |-> "up", updating |-> "up",
                deleting |-> "down", failed |-> "failed", succeeded |-> "up"]

GcpStates == [provisioning |-> "up", staging |-> "up", running |-> "up",
              stopping |-> "stopped", suspending |-> "stopped",
              suspended |-> "stopped", terminated |-> "down"]

NebiusStates == [creating |-> "up", starting |-> "up", running |-> "up",
                 updating |-> "up", stopping |-> "stopped", stopped |-> "stopped",
                 deleting |-> "down", deleted |-> "down", failed |-> "failed",
                 error |-> "failed"]

LambdaStates == [active |-> "up", booting |-> "up", unhealthy |-> "failed",
                 terminating |-> "stopped", terminated |-> "down"]

\* Mutant: a pod that is shutting down has no state of its own.
RunpodStatesNoTerminating ==
    [running |-> "up", stopped |-> "stopped", terminated |-> "down",
     terminating |-> "unknown", creating |-> "up", failed |-> "failed",
     restarting |-> "up"]

RunpodStates == [running |-> "up", stopped |-> "stopped", terminated |-> "down",
                 terminating |-> "stopped", creating |-> "up",
                 failed |-> "failed", restarting |-> "up"]

VastStates == [running |-> "up", loading |-> "up", stopped |-> "stopped",
               exited |-> "down", failed |-> "failed"]

DstackStates == [pending |-> "active", submitted |-> "active",
                 provisioning |-> "active", running |-> "active",
                 terminating |-> "cancelled", terminated |-> "completed",
                 done |-> "completed", failed |-> "failed"]

States(k) == CASE k = "AWS"    -> AwsStates    [] k = "AZURE"  -> AzureStates
               [] k = "GCP"    -> GcpStates    [] k = "NEBIUS" -> NebiusStates
               [] k = "LAMBDA" -> LambdaStates [] k = "RUNPOD" -> RunpodStates
               [] k = "VASTAI" -> VastStates   [] k = "DSTACK" -> DstackStates

\* The states of a machine that runs, of one that was ended and is still
\* listed, of one whose creation failed half way, and of one that is shut down.
Alive == {"pending", "creating", "provisioning", "staging", "starting",
          "booting", "loading", "running", "restarting", "active", "updating",
          "succeeded", "submitted"}
Ending == {"shuttingDown", "terminating", "terminated", "deleting", "deleted",
           "exited", "done"}
Broken == {"failed"}
Off == {"stopped", "terminated"}

\* The providers whose search swallows its own errors: an instance that is
\* there is "not found".
Swallows == {"RUNPOD", "VASTAI", "LAMBDA", "DSTACK"}

\* The answers of provider k about a machine in one of the given states.
Shown(k, names) == {{States(k)[n]} : n \in names \cap DOMAIN States(k)}
=============================================================================
