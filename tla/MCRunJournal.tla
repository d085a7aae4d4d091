----------------------------- MODULE MCRunJournal -----------------------------
(* Small instances of RunJournal for TLC.                                  *)
EXTENDS RunJournal
===============================================================================
