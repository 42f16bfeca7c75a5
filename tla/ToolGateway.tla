----------------------------- MODULE ToolGateway -----------------------------
(***************************************************************************)
(* The agent's tools (tool-gateway/index.ts): each call of a batch gets a  *)
(* capability of its own, which execute() checks before it does anything.  *)
(* A batch is a sequence of calls; a capability is named by its run and    *)
(* its place in the batch, since ids are never used again.                 *)
(*                                                                         *)
(* A call is the name of its tool, or of the recipe for run_recipe.  What  *)
(* a tool returns is data; that it refuses, ends or is killed is not.      *)
(***************************************************************************)
EXTENDS Naturals, Sequences, FiniteSets

CONSTANTS
    Runs,          \* runs of the agent: each has a gateway of its own
    MaxCalls,      \* bound: calls in a batch
    Batches        \* the batches of calls the model may ask for

ASSUME MaxCallsAssumption == MaxCalls \in Nat \ {0}
ASSUME BatchesAssumption == \A batch \in Batches : DOMAIN batch \in {1..n : n \in 1..MaxCalls}

VARIABLES
    calls,         \* the batch of a run
    caps,          \* capabilities: the calls of the batch that have one
    running,       \* calls under way in execute()
    effects        \* history: calls of the batch that were let through the checks

gatewayVars == <<calls, caps, running, effects>>

Places == 1..MaxCalls
Batch(r) == DOMAIN calls[r]

\* RECIPES: those that only look, or that a repetition does not hurt.
IdempotentRecipes ==
    {"echo", "node_version", "git_status", "git_diff", "git_log", "git_show",
     "list_dir", "pnpm_typecheck"}
Recipes ==
    IdempotentRecipes \cup {"pnpm_test", "pnpm_build", "pnpm_install", "interactive_echo"}

Tools ==
    {"workspace.read", "workspace.apply_patch", "terminal.pty_start",
     "terminal.pty_write", "terminal.pty_read", "terminal.pty_kill"}

Supported(call) == call \in Tools \cup Recipes \cup {"unknown_recipe"}

\* The effect an issued capability has.  A recipe nobody knows is NON_IDEMPOTENT.
Effect(call) ==
    CASE call \in {"workspace.read", "terminal.pty_read"} -> "READ_ONLY"
      [] call \in IdempotentRecipes -> "IDEMPOTENT"
      [] OTHER -> "NON_IDEMPOTENT"

GatewayInit ==
    /\ calls = [r \in Runs |-> <<>>]
    /\ caps = [r \in Runs |-> {}]
    /\ running = [r \in Runs |-> {}]
    /\ effects = [r \in Runs |-> {}]

\* A new batch: what was issued for the last one is never presented again.
NewBatch(r, batch) ==
    /\ calls' = [calls EXCEPT ![r] = batch]
    /\ caps' = [caps EXCEPT ![r] = {}]
    /\ effects' = [effects EXCEPT ![r] = {}]
    /\ UNCHANGED running

Issue(r, i) ==
    /\ caps' = [caps EXCEPT ![r] = @ \cup {i}]
    /\ UNCHANGED <<calls, running, effects>>

Revoke(r, i) ==
    /\ caps' = [caps EXCEPT ![r] = @ \ {i}]
    /\ UNCHANGED <<calls, running, effects>>

\* execute() of the calls C.  Without a capability it does nothing; one may also
\* have expired, and the arguments may be malformed or name no allowed recipe.
Execute(r, C) ==
    /\ \E ok \in SUBSET (C \cap caps[r]) :
          effects' = [effects EXCEPT ![r] = @ \cup ok]
    /\ running' = [running EXCEPT ![r] = C]
    /\ UNCHANGED <<calls, caps>>

\* A tool answers.  Files are read and written; a recipe ends by itself, at its wall
\* time, at too much output or when the run is aborted, by SIGTERM and then SIGKILL.
ToolEnds(r, i) ==
    /\ i \in running[r]
    /\ running' = [running EXCEPT ![r] = @ \ {i}]
    /\ UNCHANGED <<calls, caps, effects>>

\* The gateway of a run that is over is garbage.
Drop(R) ==
    /\ calls' = [r \in Runs |-> IF r \in R THEN <<>> ELSE calls[r]]
    /\ caps' = [r \in Runs |-> IF r \in R THEN {} ELSE caps[r]]
    /\ running' = [r \in Runs |-> IF r \in R THEN {} ELSE running[r]]
    /\ effects' = [r \in Runs |-> IF r \in R THEN {} ELSE effects[r]]

\* Every variable of the gateway has its type.
GatewayTypeOK ==
    /\ calls \in [Runs -> Batches \cup {<<>>}]
    /\ caps \in [Runs -> SUBSET Places] /\ running \in [Runs -> SUBSET Places]
    /\ effects \in [Runs -> SUBSET Places]
    /\ \A r \in Runs : caps[r] \cup effects[r] \cup running[r] \subseteq Batch(r)
==============================================================================
