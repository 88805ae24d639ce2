--------------------------------- MODULE MCRig ---------------------------------
(***************************************************************************)
(* TLC instances of Rig.                                                   *)
(***************************************************************************)
EXTENDS Rig, TLC

CONSTANTS a1, a2, h1, h2

\* Every step a process can die at, or fail a ledger command at.
AllSteps ==
    {"try", "checkout", "session", "tidy", "check", "show", "match", "land", "landed", "skip",
     "repair", "create", "confirm", "close_task", "close_rest",
     "claim", "heartbeat", "submit", "lease_expired", "release", "provider_stopped",
     "verify_passed", "verify_blocked", "verify_failed", "merged", "merge_failed", "cancel",
     "operator_retry", "escalate",
     "Unclaim", "OpenMergeBead", "OpenIncidentBead", "CloseTaskBead", "CloseVerifyBead",
     "CloseMergeBeads"}

\* All but the steps between a write of the task and a command nothing repeats, the lease of
\* a claim already won, and an operator's request half done.
RepairedSteps ==
    {"try", "checkout", "session", "tidy", "check", "show", "match", "land", "landed", "skip",
     "repair", "create",
     "heartbeat", "submit", "lease_expired", "release", "provider_stopped",
     "verify_passed", "verify_blocked", "verify_failed", "merged", "merge_failed", "cancel",
     "escalate", "OpenMergeBead", "CloseMergeBeads"}

\* The claim is won in the ledger and the lease is not written yet.
ClaimStep == {"claim"}

Nowhere == {}

\* Workers differ in nothing but their names.
Interchangeable == Permutations(Agents)
=============================================================================
