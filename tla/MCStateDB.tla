----------------------------- MODULE MCStateDB -----------------------------
(* Instances of StateDB for TLC. *)
EXTENDS StateDB

CONSTANTS a1, a2, c1, t1, t2

AllOps == {"Prepare", "Get", "CreateAccount", "SetNonce", "AddBalance", "SubBalance", "ChargeGas",
           "SetCode", "Suicide", "AddLog", "SetState", "IntermediateRoot", "Snapshot",
           "RevertToSnapshot", "Commit", "CommitFails"}
\* What a revert does undo for the accounts there were.
UndoneOps == AllOps \ {"SubBalance", "SetState", "CommitFails", "IntermediateRoot"}

\* What the executor does to a block that it rolls back.
RootOps == {"AddBalance", "IntermediateRoot", "Snapshot", "RevertToSnapshot"}

\* The invariants do not read the history, and no action does.
NoHistory == <<st, journalVars, revision, nextRevisionId, txHash, loopVars, panicked>>
=============================================================================
