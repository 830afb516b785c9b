----------------------------- MODULE MCStructures -----------------------------
(***************************************************************************)
(* The sequential structures of the I/O and memory managers side by side:  *)
(* a behaviour is one of the device queue, of the VAD tree, of the system  *)
(* memory allocator, of the pool or of the file system cache, while the    *)
(* others stay as they begin.                                              *)
(***************************************************************************)
EXTENDS DeviceQueue, VadTree, SystemMemory, Pool, FscCache

VARIABLE part \* which of them this behaviour is about

MCVars == <<dqVars, vadVars, smVars, poolVars, fscVars, part>>

MCInit ==
    /\ DqInit /\ VadInit /\ SmInit /\ PoolInit /\ FscInit
    /\ part \in {"device queue", "address space", "system memory", "pool", "file system cache"}

MCNext ==
    /\ UNCHANGED part
    /\ \/ part = "device queue" /\ DqNext /\ UNCHANGED <<vadVars, smVars, poolVars, fscVars>>
       \/ part = "address space" /\ VadNext /\ UNCHANGED <<dqVars, smVars, poolVars, fscVars>>
       \/ part = "system memory" /\ SmNext /\ UNCHANGED <<dqVars, vadVars, poolVars, fscVars>>
       \/ part = "pool" /\ PoolNext /\ UNCHANGED <<dqVars, vadVars, smVars, fscVars>>
       \/ part = "file system cache" /\ FscNext /\ UNCHANGED <<dqVars, vadVars, smVars, poolVars>>

MCSpec == MCInit /\ [][MCNext]_MCVars
=============================================================================
