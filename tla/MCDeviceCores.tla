---- MODULE MCDeviceCores ----
(***************************************************************************)
(* Three launches.  On one cluster a task on the whole cluster and one on  *)
(* its AIC: the AIC gets four ids, so they wrap around the reserved ones.  *)
(* On two clusters a batch of two tasks with a block too many: one task    *)
(* goes back, and the orchestrator thread takes a cluster over while       *)
(* blocks run and wait.  And one task of two blocks whose kernels may      *)
(* outlast the wait for the core's exit.                                   *)
(***************************************************************************)
EXTENDS DeviceCores

AllLaunches ==
    {[clusters |-> 1, tasks |-> <<[shape |-> "MIX", blocks |-> 1], [shape |-> "AIC", blocks |-> 3]>>, slow |-> {}],
     [clusters |-> 2, tasks |-> <<[shape |-> "AIC", blocks |-> 2], [shape |-> "AIC", blocks |-> 1]>>, slow |-> {}],
     [clusters |-> 1, tasks |-> <<[shape |-> "AIC", blocks |-> 2]>>, slow |-> {0}]}
====
