------------------------- MODULE MCDispatcherExports -------------------------
(* Small instances of DispatcherExports for TLC.                             *)
EXTENDS DispatcherExports, TLC

CONSTANTS t1, t2, t3

MCThreads == {t1, t2, t3}
MCMixedPriority == t1 :> 2 @@ t2 :> 1 @@ t3 :> 1
MCMutantLimit == -1

MCBaseIncrements == {-1, 1}

MCAll == ExportNames
=============================================================================
