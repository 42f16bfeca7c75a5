--------------------------- MODULE MCAgentRuntime ---------------------------
(* Small instances of AgentRuntime; runs are model values.                   *)
EXTENDS AgentRuntime, TLC

\* Reads that run together, changes that run one by one, and no tool at all.
SmallBatches ==
    {<<"workspace.read", "echo">>,
     <<"workspace.apply_patch", "terminal.pty_start">>,
     <<"no.tool">>}
=============================================================================
