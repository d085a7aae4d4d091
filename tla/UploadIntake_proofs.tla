-------------------------- MODULE UploadIntake_proofs --------------------------
(***************************************************************************)
(* Proof that the versions of a file reach the queue in the order the      *)
(* client sent them, for any number of files, deposits, folders and        *)
(* restarts, whatever the client does: each version in a later folder than *)
(* the versions before it. Then, of a client that waits until its deposit  *)
(* is taken, that no deposit is mixed with another, and that what is       *)
(* archived as a success was judged on a whole deposit.                    *)
(***************************************************************************)
EXTENDS UploadIntake, FiniteSetTheorems, FunctionTheorems, TLAPS

(* The inductive invariant.                                                *)

\* The variables the order depends on have their types.
OrderTypes ==
  /\ loc \in [File -> Where]
  /\ folder \in [File -> Nat]
  /\ folders \in Nat

\* No file is in a folder not made yet, and one that has not left the upload
\* directory is in none.
FolderInv ==
  \A f \in File :
    /\ folder[f] <= folders
    /\ loc[f] \in {"client", "upload"} => folder[f] = 0

\* When a version has been sent, the versions before it have been too, and none
\* of them is in the upload directory any more.
VersionInv ==
  \A n \in Expected, v, w \in 1..MaxDeposit :
    v < w /\ loc[<<w, n>>] # "client" => loc[<<v, n>>] \notin {"client", "upload"}

\* A name is moved at most once into the folder that is being filled.
ListingInv ==
  pc = "moving" => \A f \in File : folder[f] = folders => f[2] \notin listing

\* Where the files of a folder go that is being archived.
StatusInv == pc = "settling" => status \in {"archives", "error"}

\* The folder being filled has been made.
MovingInv == pc = "moving" => folders # 0

IntakeInv ==
  OrderTypes /\ StatusInv /\ MovingInv /\ FolderInv /\ VersionInv /\ ListingInv /\ NewerVersionLater

-------------------------------------------------------------------------------
\* The n-th version of an expected file is a file.
LEMMA VersionIsFile ==
  ASSUME NEW n \in Expected, NEW v \in 1..MaxDeposit
  PROVE  /\ <<v, n>> \in File /\ <<v, n>>[1] = v /\ <<v, n>>[2] = n
  BY DEF File

\* At the start nothing has been sent.
LEMMA InitIntake == Init => IntakeInv
  BY IntakeConstants, VersionIsFile
  DEF Init, IntakeInv, OrderTypes, StatusInv, MovingInv, FolderInv, VersionInv, ListingInv,
      NewerVersionLater, Where

\* A step that leaves the files, the folders and the listing of a move alone
\* leaves the order alone.
LEMMA UntouchedOrder ==
  ASSUME IntakeInv, StatusInv', UNCHANGED <<loc, folder, folders>>,
         pc' = "moving" => UNCHANGED <<pc, listing>>
  PROVE  IntakeInv'
  BY DEF IntakeInv, OrderTypes, MovingInv, FolderInv, VersionInv, ListingInv,
         NewerVersionLater

\* A step that takes files out of the upload directory or the queue for good,
\* without giving any a folder, leaves the order alone.
LEMMA SettledOrder ==
  ASSUME IntakeInv, StatusInv', NEW S \in SUBSET File, NEW d \in Where \ {"client", "upload"},
         loc' = [f \in File |-> IF f \in S THEN d ELSE loc[f]],
         \A f \in S : loc[f] # "client",
         UNCHANGED <<folder, folders>>,
         pc' = "moving" => UNCHANGED <<pc, listing>>
  PROVE  IntakeInv'
  <1>1. OrderTypes' BY DEF IntakeInv, OrderTypes
  <1>2. \A f \in File : loc'[f] = loc[f] \/ (loc'[f] = d /\ loc[f] # "client")
    OBVIOUS
  <1>3. FolderInv'  BY <1>2 DEF IntakeInv, FolderInv
  <1>4. VersionInv' BY <1>2, VersionIsFile DEF IntakeInv, VersionInv
  <1>5. ListingInv' BY DEF IntakeInv, ListingInv
  <1>6. NewerVersionLater' /\ MovingInv' BY DEF IntakeInv, NewerVersionLater, MovingInv
  <1> QED BY <1>1, <1>3, <1>4, <1>5, <1>6 DEF IntakeInv

\* The client may send a version only after the one before, which it replaces
\* if it is still there.
LEMMA SendOrder ==
  ASSUME IntakeInv, NEW f \in File, Send(f)
  PROVE  IntakeInv'
  <1> USE DEF Send
  <1>1. OrderTypes'
    BY DEF IntakeInv, OrderTypes, Where, broker
  <1>2. \A g \in File : \/ loc'[g] = loc[g] /\ ~(loc[g] = "upload" /\ g[2] = f[2])
                        \/ g = f /\ loc'[g] = "upload"
                        \/ loc[g] = "upload" /\ loc'[g] = "replaced"
    BY DEF IntakeInv, OrderTypes, Named, Uploaded
  <1>3. FolderInv'
    BY <1>2 DEF IntakeInv, FolderInv, OrderTypes, broker
  <1>4. VersionInv'
    <2> SUFFICES ASSUME NEW n \in Expected, NEW v \in 1..MaxDeposit,
                        NEW w \in 1..MaxDeposit,
                        v < w, loc'[<<w, n>>] # "client"
                 PROVE  loc'[<<v, n>>] \notin {"client", "upload"}
      BY DEF VersionInv
    <2>1. <<v, n>> \in File /\ <<w, n>> \in File /\ MaxDeposit \in Nat
      BY VersionIsFile, IntakeConstants
    <2>2. CASE f = <<w, n>>
      <3>1. f[1] = w /\ f[2] = n /\ w - 1 \in 1..MaxDeposit /\ v <= w - 1
        BY <2>1, <2>2
      <3>2. Sent(w - 1)
        BY <3>1, <2>1
      <3>3. loc[<<w - 1, n>>] # "client"
        BY <3>2 DEF Sent
      <3>4. loc[<<v, n>>] # "client"
        BY <3>1, <3>3, <2>1 DEF IntakeInv, VersionInv
      <3>5. <<v, n>> # f /\ <<v, n>>[2] = f[2]
        BY <2>2, <3>1, <2>1
      <3> QED BY <3>4, <3>5, <2>1, <1>2
    <2>3. CASE f # <<w, n>>
      <3>1. loc[<<w, n>>] # "client"
        BY <2>3, <2>1, <1>2
      <3>2. loc[<<v, n>>] \notin {"client", "upload"}
        BY <3>1 DEF IntakeInv, VersionInv
      <3>3. <<v, n>> # f
        BY <3>2
      <3> QED BY <3>2, <3>3, <2>1, <1>2
    <2> QED BY <2>2, <2>3
  <1>5. ListingInv' BY DEF IntakeInv, ListingInv, broker
  <1>6. NewerVersionLater' /\ StatusInv' /\ MovingInv'
    BY DEF IntakeInv, NewerVersionLater, StatusInv, MovingInv, broker
  <1> QED BY <1>1, <1>3, <1>4, <1>5, <1>6 DEF IntakeInv

\* A new folder is later than every folder a file is in.
LEMMA StartOrder ==
  ASSUME IntakeInv, StartEnqueue
  PROVE  IntakeInv'
  BY DEF IntakeInv, StartEnqueue, OrderTypes, StatusInv, MovingInv, FolderInv, VersionInv, ListingInv,
         NewerVersionLater, files

\* The version that is moved is the newest sent, and no other version of its
\* name is in the folder being filled.
LEMMA MoveOrder ==
  ASSUME IntakeInv, NEW n \in AnyName, Move(n)
  PROVE  IntakeInv'
  <1> USE DEF Move
  <1>1. OrderTypes' BY DEF IntakeInv, OrderTypes, Where, broker
  <1>2. \A f \in File :
          \/ /\ loc[f] = "upload" /\ f[2] = n
             /\ loc'[f] = "queue" /\ folder'[f] = folders
          \/ /\ ~(loc[f] = "upload" /\ f[2] = n)
             /\ loc'[f] = loc[f] /\ folder'[f] = folder[f]
    BY DEF IntakeInv, OrderTypes, Named, Uploaded
  <1>3. folders' = folders /\ folders \in Nat
    BY DEF broker, IntakeInv, OrderTypes
  <1>4. FolderInv' BY <1>2, <1>3 DEF IntakeInv, FolderInv, OrderTypes
  <1>5. VersionInv' BY <1>2, VersionIsFile DEF IntakeInv, VersionInv
  <1>6. ListingInv' BY <1>2, <1>3 DEF IntakeInv, ListingInv
  <1>7. NewerVersionLater'
    <2> SUFFICES ASSUME NEW m \in Expected, NEW v \in 1..MaxDeposit,
                        NEW w \in 1..MaxDeposit, v < w,
                        folder'[<<v, m>>] > 0, folder'[<<w, m>>] > 0
                 PROVE  folder'[<<v, m>>] < folder'[<<w, m>>]
      BY DEF NewerVersionLater
    <2>1. /\ <<v, m>> \in File /\ <<v, m>>[2] = m
          /\ <<w, m>> \in File /\ <<w, m>>[2] = m
      BY VersionIsFile
    <2>2. loc[<<w, m>>] # "client"
      BY <1>2, <2>1 DEF IntakeInv, FolderInv
    <2>3. loc[<<v, m>>] # "upload" /\ folder'[<<v, m>>] = folder[<<v, m>>]
      BY <1>2, <2>1, <2>2 DEF IntakeInv, VersionInv
    <2>4. CASE loc[<<w, m>>] = "upload" /\ m = n
      <3>1. folder'[<<w, m>>] = folders
        BY <1>2, <2>1, <2>4
      <3>2. folder[<<v, m>>] <= folders /\ folder[<<v, m>>] # folders
        BY <2>1, <2>4 DEF IntakeInv, FolderInv, ListingInv
      <3>3. folder[<<v, m>>] \in Nat
        BY <2>1 DEF IntakeInv, OrderTypes
      <3> QED BY <3>1, <3>2, <3>3, <2>3, <1>3
    <2>5. CASE ~(loc[<<w, m>>] = "upload" /\ m = n)
      <3>1. folder'[<<w, m>>] = folder[<<w, m>>]
        BY <1>2, <2>1, <2>5
      <3> QED BY <3>1, <2>3 DEF IntakeInv, NewerVersionLater
    <2> QED BY <2>4, <2>5
  <1>8. StatusInv' /\ MovingInv' BY DEF IntakeInv, StatusInv, MovingInv, broker
  <1> QED BY <1>1, <1>4, <1>5, <1>6, <1>7, <1>8 DEF IntakeInv

\* Every step of the client, of time and of the process preserves the order.
LEMMA NextIntake == IntakeInv /\ [Next]_vars => IntakeInv'
  <1> SUFFICES ASSUME IntakeInv, [Next]_vars PROVE IntakeInv'
    OBVIOUS
  <1> USE DEF StatusInv
  <1>0. StatusInv BY DEF IntakeInv
  <1>1. CASE Watch
    BY <1>1, UntouchedOrder DEF Watch, Look, files, broker
  <1>2. CASE StartEnqueue
    BY <1>2, StartOrder
  <1>3. CASE EndEnqueue
    BY <1>3, UntouchedOrder DEF EndEnqueue, files, broker
  <1>4. CASE \E n \in AnyName : Move(n)
    BY <1>4, MoveOrder
  <1>5. CASE StartReject \/ EndReject \/ WriteReport
    BY <1>5, UntouchedOrder DEF StartReject, EndReject, WriteReport, files, broker
  <1>6. CASE \E n \in AnyName : MoveToError(n)
    <2>1. PICK n \in AnyName : MoveToError(n) BY <1>6
    <2>2. Named(n) \in SUBSET File /\ \A f \in Named(n) : loc[f] # "client"
      BY DEF Named, Uploaded
    <2>3. pc' = "archiving" /\ UNCHANGED <<folder, folders>>
      BY <2>1 DEF MoveToError, broker
    <2> QED BY <2>1, <2>2, <2>3, SettledOrder DEF MoveToError, Where
  <1>7. CASE Worker
    <2>1. CASE \E k \in queued, d \in {"archives", "error"} : Judge(k, d)
      BY <2>1, UntouchedOrder DEF Judge, files, broker
    <2>2. CASE \E k \in queued, n \in AnyName : Archive(k, n)
      <3>1. PICK k \in queued, n \in AnyName : Archive(k, n) BY <2>2
      <3> DEFINE S == {f \in InFolder(k) : f[2] = n}
      <3>2. S \in SUBSET File /\ \A f \in S : loc[f] # "client"
        BY DEF InFolder
      <3>3. /\ pc' = "settling" /\ UNCHANGED <<folder, folders, pc, status>>
            /\ status \in Where \ {"client", "upload"}
        BY <3>1, <1>0 DEF Archive, broker, Where
      <3>4. loc' = [f \in File |-> IF f \in S THEN status ELSE loc[f]]
        BY <3>1 DEF Archive
      <3> QED BY <3>2, <3>3, <3>4, <1>0, SettledOrder
    <2>3. CASE \E k \in queued : EndArchive(k)
      BY <2>3, UntouchedOrder DEF EndArchive, AfterArchive, files
    <2>4. CASE \E k \in queued : Eject(k)
      <3>1. PICK k \in queued : Eject(k) BY <2>4
      <3>2. InFolder(k) \in SUBSET File /\ \A f \in InFolder(k) : loc[f] # "client"
        BY DEF InFolder
      <3> QED BY <3>1, <3>2, SettledOrder DEF Eject, Where
    <2>5. CASE MoveFails
      BY <2>5, UntouchedOrder DEF MoveFails, AfterArchive, files, broker
    <2> QED BY <1>7, <2>1, <2>2, <2>3, <2>4, <2>5 DEF Worker
  <1>8. CASE Finish \/ GiveUp
    BY <1>0, <1>8, UntouchedOrder DEF Finish, GiveUp, broker
  <1>9. CASE \E f \in File : Send(f)
    BY <1>9, SendOrder
  <1>10. CASE Tick
    BY <1>0, <1>10, UntouchedOrder DEF Tick, broker
  <1>11. CASE Crash
    BY <1>11, UntouchedOrder DEF Crash, files, broker
  <1>12. CASE UNCHANGED vars
    BY <1>0, <1>12, UntouchedOrder DEF vars, files, broker
  <1> QED
    BY <1>1, <1>2, <1>3, <1>4, <1>5, <1>6, <1>7, <1>8, <1>9, <1>10, <1>11, <1>12
    DEF Next, Process, Enqueue, Reject, ClientStep

\* Of two versions of a file that both reached the queue, the newer is in a
\* later folder, whatever the client, time and the restarts do.
THEOREM VersionsKeepOrder == Spec => []NewerVersionLater
  <1>1. IntakeInv => NewerVersionLater BY DEF IntakeInv
  <1> QED BY <1>1, InitIntake, NextIntake, PTL DEF Spec

-------------------------------------------------------------------------------
(* A client that sends its files one deposit after the other, the expected *)
(* files alone. Hidden files are counted and stay behind, a stray one may  *)
(* still be in the upload directory when a crash ends a move: then a file  *)
(* that is being sent may be taken.                                        *)

PatientClient == Patient /\ Stray = {} /\ Hidden = {}

\* What the client may be sending, and the ages that count.
PatientTypes ==
  /\ xfer \in File \cup {NoFile}
  /\ age \in [File -> Age]
  /\ queued \subseteq Nat

\* The upload directory holds files of one deposit; they are whole but for the
\* one being sent, which is never old enough.
OneDepositInv ==
  \A f \in Uploaded :
    /\ \A g \in Uploaded : f[1] = g[1]
    /\ f \in done \/ (f = xfer /\ age[f] = 0)

\* From the verdict to the last move, the deposit that is taken is whole and
\* there is nothing more of it to send.
Taken == pc = "ready" \/ (pc = "moving" /\ listing # {})
TakenInv ==
  /\ Taken => Uploaded # {} /\ \A f \in Uploaded : f \in done /\ Sent(f[1])
  /\ pc = "moving" => listing \subseteq Names(Uploaded)

\* The files of a folder, wherever they are by now, are whole and of one
\* deposit, which is the deposit in the upload directory as long as the folder
\* is being filled.
FolderOfOneInv ==
  \A f \in File :
    /\ loc[f] = "queue" => folder[f] # 0
    /\ folder[f] # 0 =>
         /\ f \in done
         /\ \A g \in File : folder[g] = folder[f] => f[1] = g[1]
         /\ (folder[f] = folders /\ pc = "moving" /\ listing # {})
              => \A g \in Uploaded : f[1] = g[1]

PatientInv == PatientTypes /\ OneDepositInv /\ TakenInv /\ FolderOfOneInv

\* What is in the upload directory, or in a folder, is a set of files; a file
\* of an expected name is a version of it when there are no other names.
LEMMA PatientFiles ==
  ASSUME PatientClient, NEW f \in File
  PROVE  /\ f[1] \in 1..MaxDeposit /\ f[2] \in Expected /\ f = <<f[1], f[2]>>
  BY DEF PatientClient, File, Extra

LEMMA InitPatient == PatientClient /\ Init => PatientInv
  <1> SUFFICES ASSUME PatientClient, Init PROVE PatientInv
    OBVIOUS
  <1>1. Uploaded = {} /\ \A f \in File : loc[f] = "client"
    BY DEF Init, Uploaded
  <1>2. PatientTypes
    BY DEF Init, PatientTypes, Age
  <1>3. OneDepositInv /\ TakenInv /\ FolderOfOneInv
    BY <1>1 DEF Init, OneDepositInv, TakenInv, Taken, FolderOfOneInv
  <1> QED BY <1>2, <1>3 DEF PatientInv

\* Steps that leave the files where they are, and judge nothing.
LEMMA StillPatient ==
  ASSUME PatientInv, UNCHANGED <<loc, folder, folders, done>>, PatientTypes', OneDepositInv',
         \/ UNCHANGED <<pc, listing>>
         \/ pc' \notin {"ready", "moving"}
  PROVE  PatientInv'
  <1>1. TakenInv'
    BY DEF PatientInv, TakenInv, Taken, Uploaded, Sent, Names
  <1>2. FolderOfOneInv'
    BY DEF PatientInv, FolderOfOneInv, Uploaded, InFolder
  <1> QED BY <1>1, <1>2 DEF PatientInv

\* As many files as there are names, all of one deposit and each once: all of it.
LEMMA FullDeposit ==
  ASSUME PatientClient, PatientInv, OrderTypes, Cardinality(Uploaded) = Wanted, Uploaded # {}
  PROVE  \A f \in Uploaded : Sent(f[1])
  <1> SUFFICES ASSUME NEW f \in Uploaded PROVE Sent(f[1])
    OBVIOUS
  <1> DEFINE v == f[1]
             nameOf == [g \in Uploaded |-> g[2]]
  <1>1. v \in 1..MaxDeposit /\ \A g \in Uploaded : g \in File /\ g = <<v, g[2]>> /\ g[2] \in Expected
    BY PatientFiles DEF PatientInv, OneDepositInv, Uploaded
  <1>2. nameOf \in Injection(Uploaded, Expected)
    BY <1>1 DEF Injection, IsInjective
  <1>3. IsFiniteSet(Expected) /\ Cardinality(Uploaded) = Cardinality(Expected)
    BY IntakeConstants DEF Wanted
  <1>4. nameOf \in Surjection(Uploaded, Expected)
    BY <1>2, <1>3, FS_Injection
  <1>5. \A n \in Expected : \E g \in Uploaded : g = <<v, n>>
    BY <1>1, <1>4 DEF Surjection
  <1> QED BY <1>5 DEF Sent, Uploaded

LEMMA LookPatient ==
  ASSUME PatientClient, PatientInv, OrderTypes, NEW s, Look(s)
  PROVE  PatientInv'
  <1>1. UNCHANGED <<loc, folder, folders, done, age, xfer, queued, listing>> /\ Verdict(s)
        /\ pc' = IF s = "READY" THEN "ready" ELSE "reject"
    BY DEF Look, files, broker
  <1>2. PatientTypes' /\ OneDepositInv'
    BY <1>1 DEF PatientInv, PatientTypes, OneDepositInv, Uploaded
  <1>3. CASE s # "READY"
    BY <1>1, <1>2, <1>3, StillPatient
  <1>4. CASE s = "READY"
    <2>1. Uploaded # {} /\ Stable /\ Cardinality(Uploaded) = Wanted
      BY <1>1, <1>4 DEF Verdict
    <2>2. \A f \in Uploaded : f \in done /\ Sent(f[1])
      BY <2>1, FullDeposit DEF Stable, PatientInv, OneDepositInv
    <2>3. TakenInv'
      BY <1>1, <1>4, <2>1, <2>2 DEF TakenInv, Uploaded, Sent
    <2>4. FolderOfOneInv'
      BY <1>1, <1>4 DEF PatientInv, FolderOfOneInv, Uploaded
    <2> QED BY <1>2, <2>3, <2>4 DEF PatientInv
  <1> QED BY <1>3, <1>4

\* The folder is new: there is nothing in it yet.
LEMMA StartPatient ==
  ASSUME PatientClient, PatientInv, OrderTypes, FolderInv, StartEnqueue
  PROVE  PatientInv'
  <1>1. /\ UNCHANGED <<loc, folder, done, age, xfer>> /\ pc = "ready" /\ pc' = "moving"
        /\ folders' = folders + 1 /\ queued' = queued \cup {folders + 1}
        /\ listing' = Names(Uploaded)
    BY DEF StartEnqueue, files, ListVisible, PatientClient
  <1>2. PatientTypes' /\ OneDepositInv'
    BY <1>1 DEF PatientInv, PatientTypes, OneDepositInv, Uploaded, OrderTypes
  <1>3. TakenInv'
    BY <1>1 DEF PatientInv, TakenInv, Taken, Uploaded, Sent, Names
  <1>4. \A f \in File : folder[f] # folders'
    BY <1>1 DEF FolderInv, OrderTypes
  <1>5. FolderOfOneInv'
    BY <1>1, <1>4 DEF PatientInv, FolderOfOneInv, Uploaded
  <1> QED BY <1>2, <1>3, <1>5 DEF PatientInv

\* What is moved is of the deposit that is being taken.
LEMMA MovePatient ==
  ASSUME PatientClient, PatientInv, OrderTypes, MovingInv, NEW n \in AnyName, Move(n)
  PROVE  PatientInv'
  <1>1. /\ pc = "moving" /\ pc' = pc /\ n \in listing /\ listing' = listing \ {n}
        /\ UNCHANGED <<done, xfer, queued, folders>> /\ age' = Forget(Named(n))
    BY DEF Move, broker
  <1>2. \A f \in File :
          \/ /\ f \in Uploaded /\ f[2] = n /\ f \notin Uploaded'
             /\ loc'[f] = "queue" /\ folder'[f] = folders
          \/ /\ ~(f \in Uploaded /\ f[2] = n) /\ (f \in Uploaded' <=> f \in Uploaded)
             /\ loc'[f] = loc[f] /\ folder'[f] = folder[f]
    BY DEF Move, OrderTypes, Named, Uploaded
  <1>3. Uploaded' = {f \in Uploaded : f[2] # n}
    BY <1>2 DEF Uploaded
  <1>4. PatientTypes'
    BY <1>1 DEF PatientInv, PatientTypes, Forget, Age
  <1>5. OneDepositInv'
    <2>1. \A f \in Uploaded' : age'[f] = age[f]
      BY <1>1, <1>3 DEF Forget, Named, Uploaded
    <2> QED BY <1>1, <1>3, <2>1 DEF PatientInv, OneDepositInv
  <1>6. \A f, g \in Uploaded : f[1] = g[1] /\ f \in done /\ Sent(f[1])
    BY <1>1 DEF PatientInv, OneDepositInv, TakenInv, Taken
  <1>7. listing' \subseteq Names(Uploaded')
    BY <1>1, <1>3 DEF PatientInv, TakenInv, Names
  <1>8. TakenInv'
    <2>1. \A f \in Uploaded : Sent(f[1])'
      <3>1. \A f \in File : loc[f] # "client" => loc'[f] # "client"
        BY <1>2
      <3>2. \A f \in Uploaded : f[1] \in 1..MaxDeposit
        BY PatientFiles DEF Uploaded
      <3> QED BY <1>6, <3>1, <3>2, VersionIsFile DEF Sent
    <2>2. listing' # {} => Uploaded' # {}
      BY <1>7 DEF Names
    <2> QED BY <1>1, <1>3, <1>6, <1>7, <2>1, <2>2 DEF TakenInv, Taken
  <1>9. FolderOfOneInv'
    <2> SUFFICES ASSUME NEW f \in File
                 PROVE  /\ loc'[f] = "queue" => folder'[f] # 0
                        /\ folder'[f] # 0 =>
                             /\ f \in done
                             /\ \A g \in File : folder'[g] = folder'[f] => f[1] = g[1]
                             /\ folder'[f] = folders => \A g \in Uploaded' : f[1] = g[1]
      BY <1>1 DEF FolderOfOneInv
    <2>1. \A g \in File, h \in Uploaded : folder[g] # 0 /\ folder[g] = folders => g[1] = h[1]
      BY <1>1 DEF PatientInv, FolderOfOneInv
    <2>2. \A g, h \in File : folder[g] # 0 /\ folder[g] = folder[h] => g[1] = h[1]
      BY DEF PatientInv, FolderOfOneInv
    <2>3. (loc[f] = "queue" => folder[f] # 0) /\ (folder[f] # 0 => f \in done)
      BY DEF PatientInv, FolderOfOneInv
    <2>4. folders # 0
      BY <1>1 DEF MovingInv
    <2> QED BY <1>2, <1>3, <1>6, <2>1, <2>2, <2>3, <2>4
  <1> QED BY <1>4, <1>5, <1>8, <1>9 DEF PatientInv

\* Files that leave the upload directory, or the queue: rejected, or settled.
LEMMA LeavingPatient ==
  ASSUME PatientClient, PatientInv, OrderTypes, NEW S \in SUBSET File, NEW d \in {"archives", "error"},
         loc' = [f \in File |-> IF f \in S THEN d ELSE loc[f]],
         \A f \in S : loc[f] \in {"upload", "queue"},
         UNCHANGED <<folder, folders, done, xfer>>, PatientTypes',
         \A f \in Uploaded' : age'[f] = age[f],
         pc' = pc, pc \notin {"ready", "moving"}
  PROVE  PatientInv'
  <1>1. \A f \in File : loc'[f] \in {"upload", "queue"} => loc'[f] = loc[f]
    OBVIOUS
  <1>2. Uploaded' \subseteq Uploaded
    BY <1>1 DEF Uploaded
  <1>3. OneDepositInv' /\ TakenInv'
    BY <1>2 DEF PatientInv, OneDepositInv, TakenInv, Taken
  <1>4. FolderOfOneInv'
    BY <1>1 DEF PatientInv, FolderOfOneInv
  <1> QED BY <1>3, <1>4 DEF PatientInv

LEMMA RejectPatient ==
  ASSUME PatientClient, PatientInv, OrderTypes, NEW n \in AnyName, MoveToError(n)
  PROVE  PatientInv'
  <1>1. /\ pc = "archiving" /\ pc' = pc /\ age' = Forget(Named(n))
        /\ UNCHANGED <<folder, folders, queued, done, xfer>>
        /\ loc' = [f \in File |-> IF f \in Named(n) THEN "error" ELSE loc[f]]
    BY DEF MoveToError, broker
  <1>2. Named(n) \in SUBSET File /\ \A f \in Named(n) : loc[f] = "upload"
    BY DEF Named, Uploaded
  <1>3. PatientTypes'
    BY <1>1 DEF PatientInv, PatientTypes, Forget, Age
  <1>4. \A f \in Uploaded' : age'[f] = age[f]
    BY <1>1, <1>2 DEF Forget, Uploaded
  <1> QED BY <1>1, <1>2, <1>3, <1>4, LeavingPatient

\* The worker moves files of a folder, and forgets folders.
LEMMA WorkerPatient ==
  ASSUME PatientClient, PatientInv, OrderTypes, StatusInv, Worker
  PROVE  PatientInv'
  <1>1. CASE \/ \E k \in queued, d \in {"archives", "error"} : Judge(k, d)
             \/ \E k \in queued : EndArchive(k)
             \/ MoveFails
    <2>1. /\ UNCHANGED <<loc, folder, folders, done, age, xfer>> /\ queued' \subseteq queued
          /\ pc' \notin {"ready", "moving"}
      BY <1>1 DEF Judge, EndArchive, MoveFails, AfterArchive, files, broker
    <2>2. PatientTypes' /\ OneDepositInv'
      BY <2>1 DEF PatientInv, PatientTypes, OneDepositInv, Uploaded
    <2> QED BY <2>1, <2>2, StillPatient
  <1>2. CASE \E k \in queued, n \in AnyName : Archive(k, n)
    <2>1. PICK k \in queued, n \in AnyName : Archive(k, n)
      BY <1>2
    <2> DEFINE S == {f \in InFolder(k) : f[2] = n}
    <2>2. S \in SUBSET File /\ \A f \in S : loc[f] = "queue"
      BY DEF InFolder
    <2>3. /\ pc = "settling" /\ pc' = pc /\ status \in {"archives", "error"}
          /\ UNCHANGED <<folder, folders, done, xfer, age, queued>>
          /\ loc' = [f \in File |-> IF f \in S THEN status ELSE loc[f]]
      BY <2>1 DEF Archive, broker, StatusInv
    <2>4. PatientTypes'
      BY <2>3 DEF PatientInv, PatientTypes
    <2> QED BY <2>2, <2>3, <2>4, LeavingPatient
  <1>3. CASE \E k \in queued : Eject(k)
    <2>1. PICK k \in queued : Eject(k)
      BY <1>3
    <2>2. InFolder(k) \in SUBSET File /\ \A f \in InFolder(k) : loc[f] = "queue"
      BY DEF InFolder
    <2>3. /\ pc = "scan" /\ pc' = pc /\ queued' \subseteq queued
          /\ UNCHANGED <<folder, folders, done, xfer, age>>
          /\ loc' = [f \in File |-> IF f \in InFolder(k) THEN "error" ELSE loc[f]]
      BY <2>1 DEF Eject
    <2>4. PatientTypes'
      BY <2>3 DEF PatientInv, PatientTypes
    <2> QED BY <2>2, <2>3, <2>4, LeavingPatient
  <1> QED BY <1>1, <1>2, <1>3 DEF Worker

\* The client sends a file of the deposit that is there, or the first of another
\* when nothing is; so nothing while a deposit is being taken.
LEMMA SendPatient ==
  ASSUME PatientClient, PatientInv, OrderTypes, NEW f \in File, Send(f)
  PROVE  PatientInv'
  <1>1. /\ loc[f] = "client" /\ Uploaded \subseteq {g \in File : g[1] = f[1]}
        /\ xfer = NoFile /\ xfer' = f /\ age' = Forget({f} \cup Named(f[2]))
        /\ UNCHANGED <<folder, folders, done, queued, pc, listing>>
    BY DEF Send, PatientClient, broker
  <1>2. Named(f[2]) = {}
    <2>1. \A g \in Uploaded : g[1] = f[1] /\ g # f
      BY <1>1 DEF Uploaded
    <2>2. \A g \in Uploaded : g \in File
      BY DEF Uploaded
    <2>3. \A g \in File : g = <<g[1], g[2]>>
      BY PatientFiles
    <2> QED BY <2>1, <2>2, <2>3 DEF Named
  <1>3. loc' = [g \in File |-> IF g = f THEN "upload" ELSE loc[g]]
    BY <1>2 DEF Send
  <1>4. Uploaded' = Uploaded \cup {f} /\ f \notin Uploaded /\ NoFile \notin File
    <2>1. NoFile \notin File
      BY PatientFiles, IntakeConstants DEF NoFile
    <2> QED BY <2>1, <1>1, <1>3 DEF Uploaded
  <1>5. PatientTypes'
    BY <1>1 DEF PatientInv, PatientTypes, Forget, Age
  <1>6. OneDepositInv'
    <2>1. \A g \in Uploaded : g \in done
      BY <1>1, <1>4 DEF PatientInv, OneDepositInv, Uploaded
    <2>2. age'[f] = 0
      BY <1>1 DEF Forget
    <2> QED BY <1>1, <1>4, <2>1, <2>2 DEF OneDepositInv
  <1>7. ~Taken
    <2> SUFFICES ASSUME Taken PROVE FALSE
      OBVIOUS
    <2>1. PICK g \in Uploaded : Sent(g[1])
      BY DEF PatientInv, TakenInv
    <2>2. Sent(f[1]) /\ f[2] \in Expected /\ f = <<f[1], f[2]>>
      BY <2>1, <1>1, PatientFiles
    <2> QED BY <2>2, <1>1 DEF Sent
  <1>8. TakenInv'
    BY <1>1, <1>4, <1>7 DEF PatientInv, TakenInv, Taken, Names
  <1>9. FolderOfOneInv'
    <2>1. \A g \in File : loc'[g] = "queue" <=> loc[g] = "queue"
      BY <1>1, <1>3
    <2> QED BY <2>1, <1>1, <1>7 DEF PatientInv, FolderOfOneInv, Taken
  <1> QED BY <1>5, <1>6, <1>8, <1>9 DEF PatientInv

\* The end of a file, and time.
LEMMA SendingPatient ==
  ASSUME PatientClient, PatientInv, OrderTypes, Finish \/ Tick
  PROVE  PatientInv'
  <1>1. /\ UNCHANGED <<loc, folder, folders, queued, pc, listing>> /\ Uploaded' = Uploaded
        /\ done \subseteq done'
    BY DEF Finish, Tick, broker, Uploaded
  <1>2. PatientTypes'
    BY <1>1 DEF PatientInv, PatientTypes, Finish, Tick, Forget, Age
  <1>3. OneDepositInv'
    <2>1. CASE Finish
      BY <1>1, <2>1 DEF Finish, PatientInv, OneDepositInv
    <2>2. CASE Tick
      <3>1. done' = done /\ xfer' = xfer /\ \A f \in Uploaded : f = xfer => age'[f] = age[f]
        BY <2>2 DEF Tick, PatientClient, Uploaded
      <3> QED BY <1>1, <3>1 DEF PatientInv, OneDepositInv
    <2> QED BY <2>1, <2>2
  <1>4. TakenInv'
    BY <1>1 DEF PatientInv, TakenInv, Taken, Names, Sent
  <1>5. FolderOfOneInv'
    BY <1>1 DEF PatientInv, FolderOfOneInv
  <1> QED BY <1>2, <1>3, <1>4, <1>5 DEF PatientInv

LEMMA NextPatient == PatientClient /\ IntakeInv /\ PatientInv /\ [Next]_vars => PatientInv'
  <1> SUFFICES ASSUME PatientClient, OrderTypes, StatusInv, FolderInv, MovingInv, PatientInv,
                      [Next]_vars
               PROVE  PatientInv'
    BY DEF IntakeInv
  <1>1. CASE Watch
    BY <1>1, LookPatient DEF Watch
  <1>2. CASE StartEnqueue
    BY <1>2, StartPatient
  <1>3. CASE \E n \in AnyName : Move(n)
    BY <1>3, MovePatient
  <1>4. CASE \E n \in AnyName : MoveToError(n)
    BY <1>4, RejectPatient
  <1>5. CASE Worker
    BY <1>5, WorkerPatient
  <1>6. CASE \E f \in File : Send(f)
    BY <1>6, SendPatient
  <1>7. CASE Finish \/ Tick
    BY <1>7, SendingPatient
  <1>8. CASE EndEnqueue \/ StartReject \/ EndReject \/ WriteReport \/ Crash \/ UNCHANGED vars
    <2>1. /\ UNCHANGED <<loc, folder, folders, done, age, xfer, queued>>
          /\ UNCHANGED <<pc, listing>> \/ pc' \notin {"ready", "moving"}
      BY <1>8 DEF EndEnqueue, StartReject, EndReject, WriteReport, Crash, vars, files, broker
    <2>2. PatientTypes' /\ OneDepositInv'
      BY <2>1 DEF PatientInv, PatientTypes, OneDepositInv, Uploaded
    <2> QED BY <2>1, <2>2, StillPatient
  <1>9. CASE GiveUp
    BY <1>9 DEF GiveUp, PatientClient
  <1> QED
    BY <1>1, <1>2, <1>3, <1>4, <1>5, <1>6, <1>7, <1>8, <1>9
    DEF Next, Process, Enqueue, Reject, ClientStep

\* Of a client that sends one deposit after the other, whatever the restarts: a
\* folder validate_files accepts holds one deposit, all of its files complete.
THEOREM DepositsStayWhole == PatientClient /\ Spec => []ValidFolderIsOneDeposit
  <1> SUFFICES ASSUME PatientClient
               PROVE  Spec => []ValidFolderIsOneDeposit
    OBVIOUS
  <1>1. Init => PatientInv
    BY InitPatient
  <1>2. IntakeInv /\ PatientInv /\ [Next]_vars => PatientInv'
    BY NextPatient
  <1>3. PatientInv => ValidFolderIsOneDeposit
    BY DEF PatientInv, FolderOfOneInv, InFolder, ValidFolderIsOneDeposit
  <1> QED BY <1>1, <1>2, <1>3, InitIntake, NextIntake, PTL DEF Spec

-------------------------------------------------------------------------------
(* What is archived as a success.                                          *)

\* The files of the folder that is being archived are still listed; of a
\* success, every name is there, in the folder or already in archives/.
SettlingInv ==
  pc = "settling" =>
    \A k \in queued : IsOldest(k) =>
      /\ Names(InFolder(k)) \subseteq listing
      /\ status = "archives" =>
           \A n \in Expected : \E f \in File :
             f[2] = n /\ folder[f] = k /\ loc[f] \in {"queue", "archives"}

WholeInv == SettlingInv /\ SuccessIsWhole

\* Only one folder is the oldest.
LEMMA OneOldest ==
  ASSUME PatientInv, NEW j, NEW k, IsOldest(j), IsOldest(k)
  PROVE  j = k
  BY DEF IsOldest, PatientInv, PatientTypes

LEMMA InitWhole == Init => WholeInv
  BY VersionIsFile DEF Init, WholeInv, SettlingInv, SuccessIsWhole

\* A success stays whole when nothing enters archives/, the folders of the files
\* in it are kept, and what leaves the queue is refused after a cut.
LEMMA KeptWhole ==
  ASSUME SuccessIsWhole, cut \subseteq cut', Succeeding \subseteq Succeeding' \cup cut',
         \A f \in File :
           /\ loc'[f] = "archives" <=> loc[f] = "archives"
           /\ loc[f] \in {"archives", "queue", "error"} => folder'[f] = folder[f]
           /\ loc[f] = "error" => loc'[f] = "error"
           /\ loc[f] = "queue" => \/ loc'[f] = "queue"
                                  \/ loc'[f] = "error" /\ folder[f] \notin Succeeding
  PROVE  SuccessIsWhole'
  <1> SUFFICES ASSUME NEW v \in 1..MaxDeposit, NEW n \in Expected, NEW m \in Expected,
                      loc'[<<v, n>>] = "archives"
               PROVE  /\ folder'[<<v, m>>] = folder'[<<v, n>>]
                      /\ \/ loc'[<<v, m>>] = "archives"
                         \/ loc'[<<v, m>>] = "queue" /\ folder'[<<v, n>>] \in Succeeding'
                         \/ loc'[<<v, m>>] \in {"queue", "error"} /\ folder'[<<v, n>>] \in cut'
    BY DEF SuccessIsWhole
  <1>1. <<v, m>> \in File /\ <<v, n>> \in File
    BY VersionIsFile
  <1>2. loc[<<v, n>>] = "archives"
    BY <1>1
  <1>3. /\ folder[<<v, m>>] = folder[<<v, n>>]
        /\ \/ loc[<<v, m>>] = "archives"
           \/ loc[<<v, m>>] = "queue" /\ folder[<<v, n>>] \in Succeeding
           \/ loc[<<v, m>>] \in {"queue", "error"} /\ folder[<<v, n>>] \in cut
    BY <1>2 DEF SuccessIsWhole
  <1> QED BY <1>1, <1>2, <1>3

\* Steps outside the settling of a folder, and those that leave it as it is.
LEMMA StillSettling ==
  ASSUME SettlingInv,
         pc' = "settling" => UNCHANGED <<pc, queued, listing, status>>,
         \A f \in File : loc[f] \in {"queue", "archives"} => loc'[f] = loc[f] /\ folder'[f] = folder[f],
         \A f \in File : loc'[f] = "queue" => loc[f] = "queue" \/ pc' # "settling"
  PROVE  SettlingInv'
  <1> SUFFICES ASSUME pc' = "settling", NEW k \in queued, IsOldest(k)
               PROVE  /\ Names(InFolder(k))' \subseteq listing
                      /\ status = "archives" =>
                           \A n \in Expected : \E f \in File :
                             f[2] = n /\ folder'[f] = k /\ loc'[f] \in {"queue", "archives"}
    BY DEF SettlingInv, IsOldest
  <1>1. /\ Names(InFolder(k)) \subseteq listing
        /\ status = "archives" =>
             \A n \in Expected : \E f \in File :
               f[2] = n /\ folder[f] = k /\ loc[f] \in {"queue", "archives"}
    BY DEF SettlingInv
  <1>2. InFolder(k)' \subseteq InFolder(k)
    BY DEF InFolder
  <1> QED BY <1>1, <1>2 DEF Names

\* The steps of the client, the watcher and the move into the queue.
LEMMA OutsideWhole ==
  ASSUME WholeInv, OrderTypes, StatusInv,
         \/ Watch \/ Enqueue \/ Reject \/ ClientStep \/ Tick \/ Crash
         \/ UNCHANGED vars
  PROVE  WholeInv'
  <1>1. \/ /\ UNCHANGED <<pc, queued, listing, status, cut>>
        \/ /\ pc # "settling" /\ pc' # "settling" /\ UNCHANGED cut
        \/ /\ pc' # "settling" /\ cut' = cut \cup Succeeding /\ UNCHANGED <<loc, folder>>
    BY DEF Watch, Look, Enqueue, StartEnqueue, Move, EndEnqueue, Reject, StartReject, MoveToError,
           EndReject, WriteReport, ClientStep, Send, Finish, GiveUp, Tick, Crash, vars, files,
           broker
  <1>2. cut \subseteq cut' /\ Succeeding \subseteq Succeeding' \cup cut'
    BY <1>1 DEF Succeeding, IsOldest
  <1>3. \A f \in File :
          \/ loc'[f] = loc[f] /\ folder'[f] = folder[f]
          \/ /\ loc[f] \in {"client", "upload"} /\ loc'[f] \in {"upload", "replaced", "queue", "error"}
             /\ loc'[f] = "queue" => pc' = "moving"
    <2>1. CASE \E n \in AnyName : Move(n)
      BY <2>1 DEF Move, OrderTypes, Named, Uploaded
    <2>2. CASE \E n \in AnyName : MoveToError(n)
      BY <2>2 DEF MoveToError, OrderTypes, Named, Uploaded
    <2>3. CASE \E f \in File : Send(f)
      BY <2>3 DEF Send, OrderTypes, Named, Uploaded
    <2>4. CASE UNCHANGED <<loc, folder>>
      BY <2>4
    <2> QED
      BY <2>1, <2>2, <2>3, <2>4
      DEF Watch, Look, Enqueue, StartEnqueue, EndEnqueue, Reject, StartReject,
          EndReject, WriteReport, ClientStep, Finish, GiveUp, Tick, Crash, vars, files
  <1>4. SuccessIsWhole'
    BY <1>2, <1>3, KeptWhole DEF WholeInv
  <1>5. SettlingInv'
    BY <1>1, <1>3, StillSettling DEF WholeInv
  <1> QED BY <1>4, <1>5 DEF WholeInv

\* A folder that is judged a success holds every name.
LEMMA JudgeWhole ==
  ASSUME WholeInv, PatientInv, NEW k \in queued, NEW d \in {"archives", "error"}, Judge(k, d)
  PROVE  WholeInv'
  <1>1. /\ pc = "scan" /\ pc' = "settling" /\ IsOldest(k) /\ status' = d
        /\ d = "archives" => ValidNames(k) /\ listing' = Names(InFolder(k))
        /\ listing' = Names(InFolder(k)) /\ UNCHANGED <<loc, folder, queued, cut>>
    BY DEF Judge, files, broker
  <1>2. SuccessIsWhole'
    <2>1. Succeeding = {}
      BY <1>1 DEF Succeeding
    <2> QED BY <1>1, <2>1, KeptWhole DEF WholeInv
  <1>3. SettlingInv'
    <2> SUFFICES ASSUME NEW j \in queued, IsOldest(j)
                 PROVE  /\ Names(InFolder(j)) \subseteq listing'
                        /\ d = "archives" =>
                             \A n \in Expected : \E f \in File :
                               f[2] = n /\ folder[f] = j /\ loc[f] \in {"queue", "archives"}
      BY <1>1 DEF SettlingInv, IsOldest, Names, InFolder
    <2>1. j = k
      BY <1>1, OneOldest
    <2>2. d = "archives" => Names(InFolder(k)) = Expected
      BY <1>1 DEF ValidNames
    <2> QED BY <1>1, <2>1, <2>2 DEF Names, InFolder
  <1> QED BY <1>2, <1>3 DEF WholeInv

\* The next file of a success: its deposit is all in the folder or in archives/.
LEMMA ArchiveWhole ==
  ASSUME PatientClient, WholeInv, PatientInv, OrderTypes, StatusInv,
         NEW k \in queued, NEW n \in AnyName, Archive(k, n)
  PROVE  WholeInv'
  <1>1. /\ pc = "settling" /\ IsOldest(k) /\ status \in {"archives", "error"}
        /\ UNCHANGED <<folder, queued, pc, status, cut>> /\ listing' = listing \ {n}
        /\ \A f \in File : \/ loc[f] = "queue" /\ folder[f] = k /\ f[2] = n /\ loc'[f] = status
                           \/ ~(f \in InFolder(k) /\ f[2] = n) /\ loc'[f] = loc[f]
    BY DEF Archive, StatusInv, broker, InFolder
  <1>2. \A f \in File : f \in InFolder(k) <=> loc[f] = "queue" /\ folder[f] = k
    BY DEF InFolder
  <1>3. /\ Names(InFolder(k)) \subseteq listing
        /\ status = "archives" =>
             \A m \in Expected : \E f \in File :
               f[2] = m /\ folder[f] = k /\ loc[f] \in {"queue", "archives"}
    BY <1>1 DEF WholeInv, SettlingInv
  <1>4. SettlingInv'
    <2> SUFFICES ASSUME NEW j \in queued, IsOldest(j)
                 PROVE  /\ Names(InFolder(j))' \subseteq listing'
                        /\ status = "archives" =>
                             \A m \in Expected : \E f \in File :
                               f[2] = m /\ folder[f] = j /\ loc'[f] \in {"queue", "archives"}
      BY <1>1 DEF SettlingInv, IsOldest
    <2>1. j = k
      BY <1>1, OneOldest
    <2>2. InFolder(k)' = {f \in InFolder(k) : f[2] # n}
      BY <1>1, <1>2 DEF InFolder
    <2>3. Names(InFolder(k))' \subseteq listing'
      BY <1>1, <1>3, <2>2 DEF Names
    <2> QED BY <1>1, <1>3, <2>1, <2>3
  <1>5. CASE status = "error"
    <2>1. Succeeding = {}
      BY <1>5 DEF Succeeding
    <2>2. \A f \in File : \/ loc'[f] = loc[f]
                          \/ loc[f] = "queue" /\ loc'[f] = "error"
      BY <1>1, <1>5
    <2>3. SuccessIsWhole'
      BY <1>1, <2>1, <2>2, KeptWhole DEF WholeInv
    <2> QED BY <1>4, <2>3 DEF WholeInv
  <1>6. CASE status = "archives"
    <2>1. k \in Succeeding'
      BY <1>1, <1>6 DEF Succeeding, IsOldest
    <2>2. Succeeding' = Succeeding
      BY <1>1 DEF Succeeding, IsOldest
    <2>3. SuccessIsWhole'
      <3> SUFFICES ASSUME NEW v \in 1..MaxDeposit, NEW a \in Expected, NEW b \in Expected,
                          loc'[<<v, a>>] = "archives"
                   PROVE  /\ folder[<<v, b>>] = folder[<<v, a>>]
                          /\ \/ loc'[<<v, b>>] = "archives"
                             \/ loc'[<<v, b>>] = "queue" /\ folder[<<v, a>>] \in Succeeding'
                             \/ loc'[<<v, b>>] \in {"queue", "error"} /\ folder[<<v, a>>] \in cut'
        BY <1>1 DEF SuccessIsWhole
      <3>1. <<v, a>> \in File /\ <<v, b>> \in File /\ <<v, a>>[1] = v
        BY VersionIsFile
      <3>2. CASE loc[<<v, a>>] = "archives"
        <4>1. /\ folder[<<v, b>>] = folder[<<v, a>>]
              /\ \/ loc[<<v, b>>] = "archives"
                 \/ loc[<<v, b>>] = "queue" /\ folder[<<v, a>>] \in Succeeding
                 \/ loc[<<v, b>>] \in {"queue", "error"} /\ folder[<<v, a>>] \in cut
          BY <3>2 DEF WholeInv, SuccessIsWhole
        <4>2. loc'[<<v, b>>] = loc[<<v, b>>] \/ loc'[<<v, b>>] = "archives"
          BY <1>1, <1>6, <3>1
        <4> QED BY <1>1, <2>2, <4>1, <4>2
      <3>3. CASE loc[<<v, a>>] # "archives"
        <4>1. folder[<<v, a>>] = k /\ loc[<<v, a>>] = "queue"
          BY <1>1, <3>1, <3>3
        <4>2. PICK f \in File : f[2] = b /\ folder[f] = k /\ loc[f] \in {"queue", "archives"}
          BY <1>3, <1>6
        <4>3. f[1] = v
          BY <3>1, <4>1, <4>2 DEF PatientInv, FolderOfOneInv
        <4>4. f = <<v, b>>
          BY <4>2, <4>3, PatientFiles
        <4>5. loc'[f] \in {"queue", "archives"}
          BY <1>1, <1>6, <4>2
        <4> QED BY <2>1, <4>1, <4>2, <4>4, <4>5
      <3> QED BY <3>2, <3>3
    <2> QED BY <1>4, <2>3 DEF WholeInv
  <1> QED BY <1>1, <1>5, <1>6

\* The folder is removed when it is empty; a failed move cuts a success in two.
LEMMA EndWhole ==
  ASSUME WholeInv, PatientInv, (\E k \in queued : EndArchive(k)) \/ MoveFails
  PROVE  WholeInv'
  <1>1. pc = "settling" /\ pc' # "settling" /\ UNCHANGED <<loc, folder>> /\ cut \subseteq cut'
    BY DEF EndArchive, MoveFails, AfterArchive, files
  <1>2. SettlingInv'
    BY <1>1 DEF SettlingInv
  <1>3. CASE MoveFails
    <2>1. cut' = cut \cup Succeeding
      BY <1>3 DEF MoveFails
    <2>2. SuccessIsWhole'
      BY <1>1, <2>1, KeptWhole DEF WholeInv
    <2> QED BY <1>2, <2>2 DEF WholeInv
  <1>4. CASE \E k \in queued : EndArchive(k)
    <2>1. PICK k \in queued : EndArchive(k)
      BY <1>4
    <2>2. listing = {} /\ IsOldest(k) /\ cut' = cut
      BY <2>1 DEF EndArchive
    <2>3. InFolder(k) = {}
      BY <1>1, <2>2 DEF WholeInv, SettlingInv, Names
    <2>4. Succeeding \subseteq {k}
      BY <2>2, OneOldest DEF Succeeding
    <2>5. \A f \in File : ~(loc[f] = "queue" /\ folder[f] \in Succeeding)
      BY <2>3, <2>4 DEF InFolder
    <2>6. SuccessIsWhole'
      <3> SUFFICES ASSUME NEW v \in 1..MaxDeposit, NEW n \in Expected, NEW m \in Expected,
                          loc[<<v, n>>] = "archives"
                   PROVE  /\ folder[<<v, m>>] = folder[<<v, n>>]
                          /\ \/ loc[<<v, m>>] = "archives"
                             \/ loc[<<v, m>>] \in {"queue", "error"} /\ folder[<<v, n>>] \in cut
        BY <1>1, <2>2 DEF SuccessIsWhole
      <3>1. <<v, m>> \in File
        BY VersionIsFile
      <3> QED BY <2>5, <3>1 DEF WholeInv, SuccessIsWhole
    <2> QED BY <1>2, <2>6 DEF WholeInv
  <1> QED BY <1>3, <1>4

\* A folder is ejected whole, between two settlings.
LEMMA EjectWhole ==
  ASSUME WholeInv, OrderTypes, NEW k \in queued, Eject(k)
  PROVE  WholeInv'
  <1>1. /\ pc = "scan" /\ pc' = "scan" /\ UNCHANGED <<folder, cut>>
        /\ \A f \in File : \/ loc'[f] = loc[f]
                           \/ loc[f] = "queue" /\ loc'[f] = "error"
    BY DEF Eject, InFolder
  <1>2. Succeeding = {}
    BY <1>1 DEF Succeeding
  <1>3. SuccessIsWhole'
    BY <1>1, <1>2, KeptWhole DEF WholeInv
  <1> QED BY <1>1, <1>3 DEF WholeInv, SettlingInv

LEMMA NextWhole ==
  PatientClient /\ IntakeInv /\ PatientInv /\ WholeInv /\ [Next]_vars => WholeInv'
  <1> SUFFICES ASSUME PatientClient, OrderTypes, StatusInv, PatientInv, WholeInv, [Next]_vars
               PROVE  WholeInv'
    BY DEF IntakeInv
  <1>1. CASE Worker
    BY <1>1, JudgeWhole, ArchiveWhole, EndWhole, EjectWhole DEF Worker
  <1>2. CASE ~Worker
    BY <1>2, OutsideWhole DEF Next, Process
  <1> QED BY <1>1, <1>2

\* Of such a client, what is archived as a success was judged on the whole
\* deposit, and only a death or a failed move in the middle leaves the rest of
\* it behind.
THEOREM SuccessesStayWhole == PatientClient /\ Spec => []SuccessIsWhole
  <1> SUFFICES ASSUME PatientClient
               PROVE  Spec => []SuccessIsWhole
    OBVIOUS
  <1>1. Init => PatientInv
    BY InitPatient
  <1>2. IntakeInv /\ PatientInv /\ [Next]_vars => PatientInv'
    BY NextPatient
  <1>3. IntakeInv /\ PatientInv /\ WholeInv /\ [Next]_vars => WholeInv'
    BY NextWhole
  <1>4. WholeInv => SuccessIsWhole
    BY DEF WholeInv
  <1> QED BY <1>1, <1>2, <1>3, <1>4, InitWhole, InitIntake, NextIntake, PTL DEF Spec

===============================================================================
