----------------------------- MODULE ClientLedger -----------------------------
(***************************************************************************)
(* What the import pipeline promises to its clients, with no file, queue   *)
(* directory, retry or database session in sight: a client submits         *)
(* deposits, every deposit is pending until it is settled, and the         *)
(* client's ledger (its PostgreSQL schema) only ever takes the contents of *)
(* a pending deposit that is not older than the one it already holds.      *)
(***************************************************************************)
EXTENDS Naturals

CONSTANTS
  Client,    \* the client names
  MaxStamp   \* bound on the number of deposits

VARIABLES
  pending,   \* the deposits accepted and not yet settled
  issued,    \* how many deposits have been accepted
  ledger     \* for each client, the stamp of the deposit its schema holds

lvars == <<pending, issued, ledger>>

LInit ==
  /\ pending = {}
  /\ issued = 0
  /\ ledger = [c \in Client |-> 0]

\* A client's deposit is accepted, under a stamp later than all before it.
Submit(c) ==
  /\ issued < MaxStamp
  /\ issued' = issued + 1
  /\ pending' = pending \cup {<<c, issued + 1>>}
  /\ UNCHANGED ledger

\* The schema of the client takes the deposit: never one older than its own.
Ingest(d) ==
  /\ d \in pending
  /\ ledger[d[1]] <= d[2]
  /\ ledger' = [ledger EXCEPT ![d[1]] = d[2]]
  /\ UNCHANGED <<pending, issued>>

\* The deposit is accepted or rejected for good: it is never looked at again.
Settle(d) ==
  /\ d \in pending
  /\ pending' = pending \ {d}
  /\ UNCHANGED <<issued, ledger>>

LNext ==
  \/ \E c \in Client : Submit(c)
  \/ \E d \in pending : Ingest(d) \/ Settle(d)

LSpec == LInit /\ [][LNext]_lvars

===============================================================================
