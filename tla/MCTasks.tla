------------------------------- MODULE MCTasks -------------------------------
(* The instance of Tasks that TLC checks: the tasks of main.c.             *)
EXTENDS Tasks

CONSTANTS k_thread_a, k_thread_b, u_prog_a, u_prog_b

(* In the order in which main creates them.                                *)
AsInMain == <<k_thread_a, u_prog_a, u_prog_b, k_thread_b>>
=============================================================================
