------------------------------ MODULE MCSchedulers ------------------------------
(***************************************************************************)
(* The deploy and the patch schedulers when passes die and machine records *)
(* are deleted or merged.  They are threads of their own with tables of    *)
(* their own, and each looks up no command but its own, so a behaviour     *)
(* here is of one of them beside the other that stands still.              *)
(*                                                                         *)
(* A patch run is explored in parts, each with all of the scheduler, the   *)
(* agent and the heartbeats, and with bounds on the rest.                  *)
(***************************************************************************)
EXTENDS Deployment, PatchRun, TLC

VARIABLE part

OwnDeployVars == <<tableVars, worldVars, sched, ops, retries, madeFor>>
OwnPatchVars == <<patchTables, patchPass, beat, patchAgents, patchHistory>>
schedulerVars == <<deployVars, OwnPatchVars, part>>

Alike == Permutations(Update) \cup Permutations(Beat)

\* Bounds, of the state a step leads to.
OneBeat == Cardinality({b \in Beat : beat'[b] # NoBeat}) <= 1
OneUpdate == \A m \in Machine :
    /\ Cardinality({u \in Update : items'[m][u] # "none"}) <= 1
    /\ Cardinality(Update \ lacks'[m]) <= 1
OneMachine == \A m \in Old : patching'[m].status = "none"
NobodyMeddles == run' # "cancelled" /\ rearmed' = 0
NoPassDies == patchPass' = NoPass => patchPass.pc \in {"idle", "dispatch"}
Never(op) == \A o \in leaving' : o[1] # op

PatchPart ==
    CASE part = "updates" -> OneBeat /\ OneMachine /\ unsure' = {} /\ NoPassDies
      [] part = "beats"   -> OneUpdate /\ OneMachine /\ unsure' = {}
      [] part = "deletes" -> OneUpdate /\ OneBeat /\ OneMachine /\ NobodyMeddles /\ Never("rename")
      [] part = "merges"  -> /\ OneUpdate /\ OneBeat /\ NobodyMeddles /\ Never("forget") /\ NoPassDies
                             /\ UNCHANGED lacks /\ (UNCHANGED unsure \/ leaving' # leaving)

SchedulersInit ==
    /\ Init /\ PatchInit
    /\ part \in {"deployments", "updates", "beats", "deletes", "merges"}

SchedulersNext ==
    \/ part = "deployments" /\ FaultyNext /\ UNCHANGED <<OwnPatchVars, part>>
    \/ part # "deployments" /\ PatchNext /\ PatchPart /\ UNCHANGED <<OwnDeployVars, part>>

SchedulersSpec == SchedulersInit /\ [][SchedulersNext]_schedulerVars
=============================================================================
