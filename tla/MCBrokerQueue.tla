---------------------------- MODULE MCBrokerQueue -----------------------------
(* Small instances of BrokerQueue for TLC.                                 *)
EXTENDS BrokerQueue, TLC

\* The files of a deposit are interchangeable.
NameSymmetry == Permutations(Name)

===============================================================================
