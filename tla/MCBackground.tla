---------------------------- MODULE MCBackground ----------------------------
(***************************************************************************)
(* The two jobs beside the answers: the audit worker, with more requests   *)
(* than connections and than places in its queue; and the scheduled        *)
(* reports, over small configurations: none; one report twice; two         *)
(* recipients; a client or an entry not valid before the next client; no   *)
(* recipient, no report; an entry that is not a dictionary.                *)
(***************************************************************************)
EXTENDS AuditTrail, ScheduledReports

Wanted(report) == [report |-> report, valid |-> TRUE]
Wrong(report) == [report |-> report, valid |-> FALSE]
Client(recipients, entries) == [valid |-> TRUE, recipients |-> recipients, entries |-> entries]
Invalid == [valid |-> FALSE, recipients |-> <<"m1">>, entries |-> <<Wanted("balance")>>]

MCConfigurations ==
  {<<>>,
   <<Client(<<"m1">>, <<Wanted("balance"), Wanted("balance")>>)>>,
   <<Client(<<"m1", "m2">>, <<Wanted("balance")>>)>>,
   <<Client(<<"m1">>, <<Wanted("balance")>>), Client(<<"m2">>, <<Wanted("conso")>>)>>,
   <<Invalid, Client(<<"m1">>, <<Wrong("visite"), Wanted("conso")>>)>>,
   <<Client(<<>>, <<Wanted("conso")>>), Client(<<"m1">>, <<>>)>>,
   <<Client(<<"m1">>, <<Wanted("malformed")>>), Client(<<"m1">>, <<Wanted("conso")>>)>>}

\* They share nothing: the audit worker has the behaviours without a
\* configuration, the reports have the others.
Audits == config = <<>>
MCInit == AuditInit /\ ReportsInit
MCNext ==
  \/ Audits /\ AuditNext /\ UNCHANGED reportVars
  \/ ~Audits /\ ReportsNext /\ UNCHANGED auditVars
MCSpec ==
  /\ MCInit /\ [][MCNext]_<<auditVars, reportVars>>
  /\ (Audits => AuditFairness) /\ (~Audits => ReportsFairness)
=============================================================================
