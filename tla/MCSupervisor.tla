---------------------------- MODULE MCSupervisor ----------------------------
(* Three ids: the agent, a worker thread or child of it, and a process that  *)
(* is not the agent's.  A map of two keys fills up during the run.           *)
EXTENDS Supervisor
=============================================================================
