---------------------------- MODULE MCDispatcher ----------------------------
(* Small instances of Dispatcher for TLC.                                    *)
EXTENDS DispatcherRefinement, TLC

CONSTANTS t1, t2, t3

MCThreads == {t1, t2, t3}

\* A high thread and two that share a lower priority.
MCMixedPriority == t1 :> 2 @@ t2 :> 1 @@ t3 :> 1
MCEqualPriority == t1 :> 1 @@ t2 :> 1 @@ t3 :> 1

MCMutantLimit == -1
=============================================================================
