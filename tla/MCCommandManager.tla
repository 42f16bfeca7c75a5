-------------------------- MODULE MCCommandManager --------------------------
(* Small instances of CommandManager; runs and terminals are model values.    *)
EXTENDS CommandManager, TLC
=============================================================================
