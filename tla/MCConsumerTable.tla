--------------------------- MODULE MCConsumerTable ---------------------------
(* Small instances of ConsumerTable for TLC.                               *)
EXTENDS ConsumerTable, TLC

\* Receiver threads are interchangeable: no operator tells them apart.
ConnSymmetry == Permutations(Conns)

==============================================================================
