------------------------------- MODULE MCHub -------------------------------
(* The Hub with its callers.  Links are numbered in the order in which they *)
(* are created, which already identifies states that differ in names only. *)
EXTENDS HubTasks
=============================================================================
