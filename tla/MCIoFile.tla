------------------------------- MODULE MCIoFile -------------------------------
(* A small instance of IoFile for TLC.                                       *)
EXTENDS IoFile, TLC

\* A writer that lets nobody delete, somebody who may delete and shares
\* everything, an open without rights.  The first two exclude each other, for a
\* different reason in each order.
MCAsked ==
    {[access |-> {"write"}, shared |-> {"read", "write"}],
     [access |-> {"read", "delete"}, shared |-> Rights],
     [access |-> {}, shared |-> {}]}

MCSymmetry == Permutations(Threads) \union Permutations(Files)
=============================================================================
