----------------------------- MODULE MCLiveness -----------------------------
(***************************************************************************)
(* The parts that owe progress, side by side: the scheduler, the I/O back  *)
(* ends and the operator.  A behaviour exercises one of them, chosen at    *)
(* the start, with the fairness of that part.                              *)
(***************************************************************************)
EXTENDS Scheduler, AsyncIo, MCOperator

VARIABLE part

MCInit ==
    /\ part \in {"scheduler", "io", "operator"}
    /\ Init /\ IoInit /\ OperatorInit

MCNext ==
    /\ UNCHANGED part
    /\ \/ part = "scheduler" /\ Next /\ UNCHANGED <<ioVars, operatorVars>>
       \/ part = "io" /\ IoNext /\ UNCHANGED <<vars, operatorVars>>
       \/ part = "operator" /\ OperatorNext /\ UNCHANGED <<vars, ioVars>>

MCFairness ==
    /\ \A p \in Submitters : WF_vars(part = "scheduler" /\ SubmitStep(p))
    /\ \A s \in Shards : WF_vars(part = "scheduler" /\ WorkerStep(s))
    /\ \A c \in Closers : WF_vars(part = "scheduler" /\ CloseStep(c))
    /\ WF_ioVars(part = "io" /\ Poll)
    /\ \A t \in Tokens : WF_ioVars(part = "io" /\ Handle(t))
    /\ \A o \in Operators :
          /\ WF_operatorVars(part = "operator" /\ WatchEvent(o))
          /\ WF_operatorVars(part = "operator" /\ Reconcile(o))
          /\ WF_operatorVars(part = "operator" /\ ReconcileStep(o))
    /\ WF_operatorVars(part = "operator" /\ StartPod)

MCSpec == MCInit /\ [][MCNext]_<<part, vars, ioVars, operatorVars>> /\ MCFairness
=============================================================================
