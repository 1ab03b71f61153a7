------------------------- MODULE SelfUpdate_proofs -------------------------
(***************************************************************************)
(* Proofs about SelfUpdate, for any number of processes, versions and      *)
(* deaths.  What holds whatever is trampled on is PlaceInv: the place of a *)
(* transaction's updater says where its command is and what its own files  *)
(* are.  While nothing was trampled on, the state names the only active    *)
(* transaction (JournalInv), so that no other process touches the target,  *)
(* and the place of its updater tells what the target is (FileInv).  While *)
(* no process dies either, somebody has still to deal with every file that *)
(* lies beside the target (TidyInv) and with a missing target (WholeInv).  *)
(***************************************************************************)
EXTENDS SelfUpdate, TLAPS

-----------------------------------------------------------------------------
(* The inductive invariant *)

PlaceAt(t) ==
    /\ upc[t] # "none" => pc[t] \in {"exit", "over"}
    /\ pc[t] \in {"publish", "spawn"} \/ upc[t] \in {"waiting", "move", "install"}
           => staged[t] = want[t]
    /\ pc[t] \in {"publish", "spawn"} \/ upc[t] # "none" => want[t] # NoFile
    /\ upc[t] \in {"none", "waiting", "move"} => backup[t] = NoFile
    /\ upc[t] = "record" => outcome[t] \in Results
    /\ pc[t] \in {"remove", "resolve", "publish", "spawn"} \/ upc[t] # "none"
           => read[t] = NoState \/ read[t].status # "pending"

PlaceInv == \A t \in Upgrades : PlaceAt(t)

\* What a command removes had not been pending when it was read.
ReadInv ==
    \A c \in Commands :
        pc[c] = "remove" => read[c] # NoState /\ read[c].status # "pending"

\* From its publication to the end of its updater.
Active(t) == pc[t] = "spawn" \/ upc[t] \notin {"none", "over"}

ActiveInv ==
    \A t \in Upgrades : Active(t) => journal = [id |-> t, status |-> "pending"]

DoneInv == journal # NoState /\ ~Pending => upc[journal.id] = "over"

ShownInv ==
    \A t \in Upgrades :
        /\ shown[t] \in {0, 1}
        /\ shown[t] = 1 => upc[t] = "over" /\ (journal # NoState => journal.id # t)

JournalInv == ActiveInv /\ DoneInv /\ ShownInv

\* What the files are at each place of the updater.
FileAt(t) ==
    /\ upc[t] = "move" => target = before
    /\ upc[t] \in {"install", "restore"} => target = NoFile
    /\ upc[t] \in {"install", "verify", "clean", "undo", "restore"} => backup[t] = before
    /\ upc[t] \in {"verify", "clean"} => target = want[t]
    /\ upc[t] = "restore" => before # NoFile
    /\ upc[t] = "record" =>
          /\ outcome[t] \in {"succeeded", "warned"} => target = want[t]
          /\ outcome[t] \in {"failed", "not started"} => target = before

FileInv == \A t \in Upgrades : FileAt(t)

\* An updater that has found no target does not hold the only backup.
SpareInv ==
    \A t \in Upgrades :
        Working(t) /\ before = NoFile => \E s \in Upgrades \ {t} : backup[s] # NoFile

Untrampled == JournalInv /\ FileInv /\ SpareInv /\ ResultIsTrue /\ BinarySurvives

UpdateInv ==
    /\ UpdateTypeOK
    /\ PlaceInv
    /\ ReadInv
    /\ ~trampled => Untrampled

\* Types.
LEMMA TypeStep ==
    ASSUME UpdateTypeOK, PlaceInv, UpdateNext
    PROVE  UpdateTypeOK'
<1> USE DEF Commands, Goes, Updates, fileVars, commandVars, updaterVars
<1>1. ASSUME NEW c \in Commands, CommandStep(c) \/ CommandDies(c)
      PROVE  UpdateTypeOK'
    <2>1. CASE Start(c)
        BY <2>1, UpdateAssumption
        DEF Start, UpdateTypeOK, Journals, Results, PlaceInv, PlaceAt, Pending
    <2>2. CASE ReadState(c)
        <3>1. target' \in Versions \cup {NoFile}
            BY <2>2 DEF ReadState, Consumed, UpdateTypeOK
        <3>2. before' \in Versions \cup {NoFile}
            BY <2>2 DEF ReadState, Consumed, UpdateTypeOK
        <3>3. staged' \in [Upgrades -> Versions \cup {NoFile}]
            BY <2>2 DEF ReadState, Consumed, UpdateTypeOK
        <3>4. backup' \in [Upgrades -> Versions \cup {NoFile}]
            BY <2>2 DEF ReadState, Consumed, UpdateTypeOK
        <3>5. journal' \in Journals \cup {NoState}
            BY <2>2 DEF ReadState, Consumed, UpdateTypeOK, Journals
        <3>6. trampled' \in BOOLEAN
            BY <2>2 DEF ReadState, Consumed, UpdateTypeOK
        <3>7. pc' \in [Commands -> {"off", "read", "remove", "resolve", "publish", "spawn",
                                    "exit", "over"}]
            BY <2>2 DEF ReadState, Consumed, UpdateTypeOK
        <3>8. passes' \in [Commands -> {0, 1}]
            BY <2>2 DEF ReadState, Consumed, UpdateTypeOK
        <3>9. runs' \in [Commands -> Versions \cup {NoFile}] /\ deaths' \in Nat
            BY <2>2 DEF ReadState, Consumed, UpdateTypeOK
        <3>10. read' \in [Commands -> Journals \cup {NoState}]
            BY <2>2 DEF ReadState, Consumed, UpdateTypeOK
        <3>11. want' \in [Upgrades -> Versions \cup {NoFile}]
            BY <2>2 DEF ReadState, Consumed, UpdateTypeOK
        <3>12. outcome' \in [Upgrades -> Results \cup {"none"}]
            BY <2>2 DEF ReadState, Consumed, UpdateTypeOK, Results
        <3>13. upc' \in [Upgrades -> {"none", "waiting", "move", "install", "verify", "clean",
                                      "undo", "restore", "record", "over"}]
            BY <2>2 DEF ReadState, Consumed, UpdateTypeOK
        <3>14. shown' \in [Upgrades -> Nat]
            BY <2>2 DEF ReadState, Consumed, UpdateTypeOK
        <3>15. QED
            BY <3>1, <3>2, <3>3, <3>4, <3>5, <3>6, <3>7, <3>8, <3>9, <3>10,
                <3>11, <3>12, <3>13, <3>14
            DEF UpdateTypeOK
    <2>3. CASE RemoveState(c)
        <3>1. target' \in Versions \cup {NoFile}
            BY <2>3 DEF RemoveState, Consumed, UpdateTypeOK
        <3>2. before' \in Versions \cup {NoFile}
            BY <2>3 DEF RemoveState, Consumed, UpdateTypeOK
        <3>3. staged' \in [Upgrades -> Versions \cup {NoFile}]
            BY <2>3 DEF RemoveState, Consumed, UpdateTypeOK
        <3>4. backup' \in [Upgrades -> Versions \cup {NoFile}]
            BY <2>3 DEF RemoveState, Consumed, UpdateTypeOK
        <3>5. journal' \in Journals \cup {NoState}
            BY <2>3 DEF RemoveState, Consumed, UpdateTypeOK, Journals
        <3>6. trampled' \in BOOLEAN
            BY <2>3 DEF RemoveState, Consumed, UpdateTypeOK
        <3>7. pc' \in [Commands -> {"off", "read", "remove", "resolve", "publish", "spawn",
                                    "exit", "over"}]
            BY <2>3 DEF RemoveState, Consumed, UpdateTypeOK
        <3>8. passes' \in [Commands -> {0, 1}]
            BY <2>3 DEF RemoveState, Consumed, UpdateTypeOK
        <3>9. runs' \in [Commands -> Versions \cup {NoFile}] /\ deaths' \in Nat
            BY <2>3 DEF RemoveState, Consumed, UpdateTypeOK
        <3>10. read' \in [Commands -> Journals \cup {NoState}]
            BY <2>3 DEF RemoveState, Consumed, UpdateTypeOK
        <3>11. want' \in [Upgrades -> Versions \cup {NoFile}]
            BY <2>3 DEF RemoveState, Consumed, UpdateTypeOK
        <3>12. outcome' \in [Upgrades -> Results \cup {"none"}]
            BY <2>3 DEF RemoveState, Consumed, UpdateTypeOK, Results
        <3>13. upc' \in [Upgrades -> {"none", "waiting", "move", "install", "verify", "clean",
                                      "undo", "restore", "record", "over"}]
            BY <2>3 DEF RemoveState, Consumed, UpdateTypeOK
        <3>14. shown' \in [Upgrades -> Nat]
            BY <2>3 DEF RemoveState, Consumed, UpdateTypeOK
        <3>15. QED
            BY <3>1, <3>2, <3>3, <3>4, <3>5, <3>6, <3>7, <3>8, <3>9, <3>10,
                <3>11, <3>12, <3>13, <3>14
            DEF UpdateTypeOK
    <2>4. CASE RemoveFails(c)
        BY <2>4, UpdateAssumption
        DEF RemoveFails, UpdateTypeOK, Journals, Results, PlaceInv, PlaceAt,
            Pending
    <2>5. CASE CommandDies(c)
        <3>1. target' \in Versions \cup {NoFile}
            BY <2>5 DEF CommandDies, UpdateTypeOK
        <3>2. before' \in Versions \cup {NoFile}
            BY <2>5 DEF CommandDies, UpdateTypeOK
        <3>3. staged' \in [Upgrades -> Versions \cup {NoFile}]
            BY <2>5 DEF CommandDies, UpdateTypeOK
        <3>4. backup' \in [Upgrades -> Versions \cup {NoFile}]
            BY <2>5 DEF CommandDies, UpdateTypeOK
        <3>5. journal' \in Journals \cup {NoState}
            BY <2>5 DEF CommandDies, UpdateTypeOK, Journals
        <3>6. trampled' \in BOOLEAN
            BY <2>5 DEF CommandDies, UpdateTypeOK
        <3>7. pc' \in [Commands -> {"off", "read", "remove", "resolve", "publish", "spawn",
                                    "exit", "over"}]
            BY <2>5 DEF CommandDies, UpdateTypeOK
        <3>8. passes' \in [Commands -> {0, 1}]
            BY <2>5 DEF CommandDies, UpdateTypeOK
        <3>9. runs' \in [Commands -> Versions \cup {NoFile}] /\ deaths' \in Nat
            BY <2>5 DEF CommandDies, UpdateTypeOK
        <3>10. read' \in [Commands -> Journals \cup {NoState}]
            BY <2>5 DEF CommandDies, UpdateTypeOK
        <3>11. want' \in [Upgrades -> Versions \cup {NoFile}]
            BY <2>5 DEF CommandDies, UpdateTypeOK
        <3>12. outcome' \in [Upgrades -> Results \cup {"none"}]
            BY <2>5 DEF CommandDies, UpdateTypeOK, Results
        <3>13. upc' \in [Upgrades -> {"none", "waiting", "move", "install", "verify", "clean",
                                      "undo", "restore", "record", "over"}]
            BY <2>5 DEF CommandDies, UpdateTypeOK
        <3>14. shown' \in [Upgrades -> Nat]
            BY <2>5 DEF CommandDies, UpdateTypeOK
        <3>15. QED
            BY <3>1, <3>2, <3>3, <3>4, <3>5, <3>6, <3>7, <3>8, <3>9, <3>10,
                <3>11, <3>12, <3>13, <3>14
            DEF UpdateTypeOK
    <2>6. QED
        BY <1>1, <2>1, <2>2, <2>3, <2>4, <2>5 DEF CommandStep
<1>2. ASSUME NEW c \in Upgrades, UpgradeStep(c)
      PROVE  UpdateTypeOK'
    <2>1. CASE Download(c)
        <3>1. target' \in Versions \cup {NoFile}
            BY <2>1 DEF Download, UpdateTypeOK
        <3>2. before' \in Versions \cup {NoFile}
            BY <2>1 DEF Download, UpdateTypeOK
        <3>3. staged' \in [Upgrades -> Versions \cup {NoFile}]
            BY <2>1 DEF Download, UpdateTypeOK
        <3>4. backup' \in [Upgrades -> Versions \cup {NoFile}]
            BY <2>1 DEF Download, UpdateTypeOK
        <3>5. journal' \in Journals \cup {NoState}
            BY <2>1 DEF Download, UpdateTypeOK, Journals
        <3>6. trampled' \in BOOLEAN
            BY <2>1 DEF Download, UpdateTypeOK
        <3>7. pc' \in [Commands -> {"off", "read", "remove", "resolve", "publish", "spawn",
                                    "exit", "over"}]
            BY <2>1 DEF Download, UpdateTypeOK
        <3>8. passes' \in [Commands -> {0, 1}]
            BY <2>1 DEF Download, UpdateTypeOK
        <3>9. runs' \in [Commands -> Versions \cup {NoFile}] /\ deaths' \in Nat
            BY <2>1 DEF Download, UpdateTypeOK
        <3>10. read' \in [Commands -> Journals \cup {NoState}]
            BY <2>1 DEF Download, UpdateTypeOK
        <3>11. want' \in [Upgrades -> Versions \cup {NoFile}]
            BY <2>1 DEF Download, UpdateTypeOK
        <3>12. outcome' \in [Upgrades -> Results \cup {"none"}]
            BY <2>1 DEF Download, UpdateTypeOK, Results
        <3>13. upc' \in [Upgrades -> {"none", "waiting", "move", "install", "verify", "clean",
                                      "undo", "restore", "record", "over"}]
            BY <2>1 DEF Download, UpdateTypeOK
        <3>14. shown' \in [Upgrades -> Nat]
            BY <2>1 DEF Download, UpdateTypeOK
        <3>15. QED
            BY <3>1, <3>2, <3>3, <3>4, <3>5, <3>6, <3>7, <3>8, <3>9, <3>10,
                <3>11, <3>12, <3>13, <3>14
            DEF UpdateTypeOK
    <2>2. CASE NoDownload(c)
        BY <2>2, UpdateAssumption
        DEF NoDownload, UpdateTypeOK, Journals, Results, PlaceInv, PlaceAt,
            Pending
    <2>3. CASE PublishPending(c)
        BY <2>3, UpdateAssumption
        DEF PublishPending, Writes, Tramples, UpdateTypeOK, Journals, Results,
            PlaceInv, PlaceAt, Pending
    <2>4. CASE PublishFails(c)
        <3>1. target' \in Versions \cup {NoFile}
            BY <2>4 DEF PublishFails, DiscardsCandidate, Writes, Tramples, UpdateTypeOK
        <3>2. before' \in Versions \cup {NoFile}
            BY <2>4 DEF PublishFails, DiscardsCandidate, Writes, Tramples, UpdateTypeOK
        <3>3. staged' \in [Upgrades -> Versions \cup {NoFile}]
            BY <2>4 DEF PublishFails, DiscardsCandidate, Writes, Tramples, UpdateTypeOK
        <3>4. backup' \in [Upgrades -> Versions \cup {NoFile}]
            BY <2>4 DEF PublishFails, DiscardsCandidate, Writes, Tramples, UpdateTypeOK
        <3>5. journal' \in Journals \cup {NoState}
            BY <2>4
            DEF PublishFails, DiscardsCandidate, Writes, Tramples, UpdateTypeOK,
                Journals
        <3>6. trampled' \in BOOLEAN
            BY <2>4 DEF PublishFails, DiscardsCandidate, Writes, Tramples, UpdateTypeOK
        <3>7. pc' \in [Commands -> {"off", "read", "remove", "resolve", "publish", "spawn",
                                    "exit", "over"}]
            BY <2>4 DEF PublishFails, DiscardsCandidate, Writes, Tramples, UpdateTypeOK
        <3>8. passes' \in [Commands -> {0, 1}]
            BY <2>4 DEF PublishFails, DiscardsCandidate, Writes, Tramples, UpdateTypeOK
        <3>9. runs' \in [Commands -> Versions \cup {NoFile}] /\ deaths' \in Nat
            BY <2>4 DEF PublishFails, DiscardsCandidate, Writes, Tramples, UpdateTypeOK
        <3>10. read' \in [Commands -> Journals \cup {NoState}]
            BY <2>4 DEF PublishFails, DiscardsCandidate, Writes, Tramples, UpdateTypeOK
        <3>11. want' \in [Upgrades -> Versions \cup {NoFile}]
            BY <2>4 DEF PublishFails, DiscardsCandidate, Writes, Tramples, UpdateTypeOK
        <3>12. outcome' \in [Upgrades -> Results \cup {"none"}]
            BY <2>4
            DEF PublishFails, DiscardsCandidate, Writes, Tramples, UpdateTypeOK,
                Results
        <3>13. upc' \in [Upgrades -> {"none", "waiting", "move", "install", "verify", "clean",
                                      "undo", "restore", "record", "over"}]
            BY <2>4 DEF PublishFails, DiscardsCandidate, Writes, Tramples, UpdateTypeOK
        <3>14. shown' \in [Upgrades -> Nat]
            BY <2>4 DEF PublishFails, DiscardsCandidate, Writes, Tramples, UpdateTypeOK
        <3>15. QED
            BY <3>1, <3>2, <3>3, <3>4, <3>5, <3>6, <3>7, <3>8, <3>9, <3>10,
                <3>11, <3>12, <3>13, <3>14
            DEF UpdateTypeOK
    <2>5. CASE Spawn(c)
        BY <2>5, UpdateAssumption
        DEF Spawn, UpdateTypeOK, Journals, Results, PlaceInv, PlaceAt, Pending
    <2>6. CASE SpawnFails(c)
        BY <2>6, UpdateAssumption
        DEF SpawnFails, DiscardsCandidate, Tramples, UpdateTypeOK, Journals, Results,
            PlaceInv,
            PlaceAt, Pending
    <2>7. CASE Exit(c)
        BY <2>7, UpdateAssumption
        DEF Exit, UpdateTypeOK, Journals, Results, PlaceInv, PlaceAt, Pending
    <2>8. QED
        BY <1>2, <2>1, <2>2, <2>3, <2>4, <2>5, <2>6, <2>7 DEF UpgradeStep
<1>3. ASSUME NEW d \in Upgrades, UpdaterStep(d) \/ UpdaterDies(d)
      PROVE  UpdateTypeOK'
    <2>1. CASE ParentGone(d)
        BY <2>1, UpdateAssumption
        DEF ParentGone, UpdateTypeOK, Journals, Results, PlaceInv, PlaceAt,
            Pending
    <2>2. CASE ParentStays(d)
        BY <2>2, UpdateAssumption
        DEF ParentStays, UpdateTypeOK, Journals, Results, PlaceInv, PlaceAt,
            Pending
    <2>3. CASE Move(d)
        BY <2>3, UpdateAssumption
        DEF Move, UpdateTypeOK, Journals, Results, PlaceInv, PlaceAt, Pending
    <2>4. CASE MoveFails(d)
        BY <2>4, UpdateAssumption
        DEF MoveFails, UpdateTypeOK, Journals, Results, PlaceInv, PlaceAt,
            Pending
    <2>5. CASE Install(d)
        BY <2>5, UpdateAssumption
        DEF Install, UpdateTypeOK, Journals, Results, PlaceInv, PlaceAt, Pending
    <2>6. CASE Rejected(d)
        BY <2>6, UpdateAssumption
        DEF Rejected, UpdateTypeOK, Journals, Results, PlaceInv, PlaceAt,
            Pending
    <2>7. CASE Verified(d)
        BY <2>7, UpdateAssumption
        DEF Verified, UpdateTypeOK, Journals, Results, PlaceInv, PlaceAt,
            Pending
    <2>8. CASE Clean(d)
        <3>1. backup' \in [Upgrades -> Versions \cup {NoFile}]
            BY <2>8 DEF Clean, UpdateTypeOK
        <3>2. outcome' \in [Upgrades -> Results \cup {"none"}]
            BY <2>8 DEF Clean, UpdateTypeOK, Results
        <3>3. upc' = [upc EXCEPT ![d] = "record"]
            BY <2>8 DEF Clean
        <3>4. QED
            BY <2>8, <3>1, <3>2, <3>3 DEF Clean, UpdateTypeOK
    <2>9. CASE Undo(d)
        BY <2>9, UpdateAssumption
        DEF Undo, UpdateTypeOK, Journals, Results, PlaceInv, PlaceAt, Pending
    <2>10. CASE Restore(d)
        BY <2>10, UpdateAssumption
        DEF Restore, UpdateTypeOK, Journals, Results, PlaceInv, PlaceAt, Pending
    <2>11. CASE RollbackFails(d)
        <3>1. target' \in Versions \cup {NoFile}
            <4>1. CASE UNCHANGED <<target, backup>>
                BY <4>1 DEF UpdateTypeOK
            <4>2. CASE target' = backup[d]
                BY <4>2 DEF UpdateTypeOK
            <4>3. QED
                BY <2>11, <4>1, <4>2 DEF RollbackFails
        <3>2. before' \in Versions \cup {NoFile}
            BY <2>11 DEF RollbackFails, UpdateTypeOK
        <3>3. staged' \in [Upgrades -> Versions \cup {NoFile}]
            BY <2>11 DEF RollbackFails, UpdateTypeOK
        <3>4. backup' \in [Upgrades -> Versions \cup {NoFile}]
            BY <2>11 DEF RollbackFails, UpdateTypeOK
        <3>5. journal' \in Journals \cup {NoState}
            BY <2>11 DEF RollbackFails, UpdateTypeOK, Journals
        <3>6. trampled' \in BOOLEAN
            BY <2>11 DEF RollbackFails, UpdateTypeOK
        <3>7. pc' \in [Commands -> {"off", "read", "remove", "resolve", "publish", "spawn",
                                    "exit", "over"}]
            BY <2>11 DEF RollbackFails, UpdateTypeOK
        <3>8. passes' \in [Commands -> {0, 1}]
            BY <2>11 DEF RollbackFails, UpdateTypeOK
        <3>9. runs' \in [Commands -> Versions \cup {NoFile}] /\ deaths' \in Nat
            BY <2>11 DEF RollbackFails, UpdateTypeOK
        <3>10. read' \in [Commands -> Journals \cup {NoState}]
            BY <2>11 DEF RollbackFails, UpdateTypeOK
        <3>11. want' \in [Upgrades -> Versions \cup {NoFile}]
            BY <2>11 DEF RollbackFails, UpdateTypeOK
        <3>12. outcome' \in [Upgrades -> Results \cup {"none"}]
            BY <2>11 DEF RollbackFails, UpdateTypeOK, Results
        <3>13. upc' \in [Upgrades -> {"none", "waiting", "move", "install", "verify", "clean",
                                      "undo", "restore", "record", "over"}]
            BY <2>11 DEF RollbackFails, UpdateTypeOK
        <3>14. shown' \in [Upgrades -> Nat]
            BY <2>11 DEF RollbackFails, UpdateTypeOK
        <3>15. QED
            BY <3>1, <3>2, <3>3, <3>4, <3>5, <3>6, <3>7, <3>8, <3>9, <3>10,
                <3>11, <3>12, <3>13, <3>14
            DEF UpdateTypeOK
    <2>12. CASE Record(d)
        BY <2>12, UpdateAssumption
        DEF Record, DiscardsCandidate, Writes, Tramples, UpdateTypeOK, Journals,
            Results, PlaceInv,
            PlaceAt, Pending
    <2>13. CASE RecordFails(d)
        BY <2>13, UpdateAssumption
        DEF RecordFails, DiscardsCandidate, UpdateTypeOK, Journals, Results,
            PlaceInv, PlaceAt,
            Pending
    <2>14. CASE UpdaterDies(d)
        <3>1. target' \in Versions \cup {NoFile}
            BY <2>14 DEF UpdaterDies, UpdateTypeOK
        <3>2. before' \in Versions \cup {NoFile}
            BY <2>14 DEF UpdaterDies, UpdateTypeOK
        <3>3. staged' \in [Upgrades -> Versions \cup {NoFile}]
            BY <2>14 DEF UpdaterDies, UpdateTypeOK
        <3>4. backup' \in [Upgrades -> Versions \cup {NoFile}]
            BY <2>14 DEF UpdaterDies, UpdateTypeOK
        <3>5. journal' \in Journals \cup {NoState}
            BY <2>14 DEF UpdaterDies, UpdateTypeOK, Journals
        <3>6. trampled' \in BOOLEAN
            BY <2>14 DEF UpdaterDies, UpdateTypeOK
        <3>7. pc' \in [Commands -> {"off", "read", "remove", "resolve", "publish", "spawn",
                                    "exit", "over"}]
            BY <2>14 DEF UpdaterDies, UpdateTypeOK
        <3>8. passes' \in [Commands -> {0, 1}]
            BY <2>14 DEF UpdaterDies, UpdateTypeOK
        <3>9. runs' \in [Commands -> Versions \cup {NoFile}] /\ deaths' \in Nat
            BY <2>14 DEF UpdaterDies, UpdateTypeOK
        <3>10. read' \in [Commands -> Journals \cup {NoState}]
            BY <2>14 DEF UpdaterDies, UpdateTypeOK
        <3>11. want' \in [Upgrades -> Versions \cup {NoFile}]
            BY <2>14 DEF UpdaterDies, UpdateTypeOK
        <3>12. outcome' \in [Upgrades -> Results \cup {"none"}]
            BY <2>14 DEF UpdaterDies, UpdateTypeOK, Results
        <3>13. upc' \in [Upgrades -> {"none", "waiting", "move", "install", "verify", "clean",
                                      "undo", "restore", "record", "over"}]
            BY <2>14 DEF UpdaterDies, UpdateTypeOK
        <3>14. shown' \in [Upgrades -> Nat]
            BY <2>14 DEF UpdaterDies, UpdateTypeOK
        <3>15. QED
            BY <3>1, <3>2, <3>3, <3>4, <3>5, <3>6, <3>7, <3>8, <3>9, <3>10,
                <3>11, <3>12, <3>13, <3>14
            DEF UpdateTypeOK
    <2>15. QED
        BY <1>3, <2>1, <2>2, <2>3, <2>4, <2>5, <2>6, <2>7, <2>8, <2>9, <2>10,
            <2>11, <2>12, <2>13, <2>14
        DEF UpdaterStep
<1>4. QED
    BY <1>1, <1>2, <1>3 DEF UpdateNext

\* Nobody else moves an updater, nor touches the files of its own.
LEMMA PlaceStep ==
    ASSUME UpdateTypeOK, PlaceInv, UpdateNext
    PROVE  PlaceInv'
<1> USE DEF Commands, Goes, Updates, fileVars, commandVars, updaterVars
<1>1. ASSUME NEW c \in Commands, CommandStep(c) \/ CommandDies(c)
      PROVE  PlaceInv'
    <2>1. CASE Start(c)
        BY <2>1, UpdateAssumption
        DEF Start, UpdateTypeOK, PlaceInv, PlaceAt, Results, Pending
    <2>2. CASE ReadState(c)
        <3> SUFFICES ASSUME NEW t \in Upgrades PROVE PlaceAt(t)'
            BY DEF PlaceInv, PlaceAt
        <3>1. upc'[t] # "none" => pc'[t] \in {"exit", "over"}
            BY <2>2, UpdateAssumption
            DEF ReadState, Consumed, UpdateTypeOK, PlaceInv, PlaceAt
        <3>2. pc'[t] \in {"publish", "spawn"} \/ upc'[t] \in {"waiting", "move", "install"}
                   => staged'[t] = want'[t]
            BY <2>2, UpdateAssumption
            DEF ReadState, Consumed, UpdateTypeOK, PlaceInv, PlaceAt
        <3>3. pc'[t] \in {"publish", "spawn"} \/ upc'[t] # "none" => want'[t] # NoFile
            BY <2>2, UpdateAssumption
            DEF ReadState, Consumed, UpdateTypeOK, PlaceInv, PlaceAt
        <3>4. upc'[t] \in {"none", "waiting", "move"} => backup'[t] = NoFile
            BY <2>2, UpdateAssumption
            DEF ReadState, Consumed, UpdateTypeOK, PlaceInv, PlaceAt
        <3>5. upc'[t] = "record" => outcome'[t] \in Results
            BY <2>2, UpdateAssumption
            DEF ReadState, Consumed, UpdateTypeOK, PlaceInv, PlaceAt, Results
        <3>6. pc'[t] \in {"remove", "resolve", "publish", "spawn"} \/ upc'[t] # "none"
                   => read'[t] = NoState \/ read'[t].status # "pending"
            BY <2>2, UpdateAssumption
            DEF ReadState, Consumed, UpdateTypeOK, PlaceInv, PlaceAt, Pending
        <3>7. QED
            BY <3>1, <3>2, <3>3, <3>4, <3>5, <3>6 DEF PlaceAt
    <2>3. CASE RemoveState(c)
        BY <2>3, UpdateAssumption
        DEF RemoveState, Consumed, UpdateTypeOK, PlaceInv, PlaceAt, Results,
            Pending
    <2>4. CASE RemoveFails(c)
        BY <2>4, UpdateAssumption
        DEF RemoveFails, UpdateTypeOK, PlaceInv, PlaceAt, Results, Pending
    <2>5. CASE CommandDies(c)
        BY <2>5, UpdateAssumption
        DEF CommandDies, UpdateTypeOK, PlaceInv, PlaceAt, Results, Pending
    <2>6. QED
        BY <1>1, <2>1, <2>2, <2>3, <2>4, <2>5 DEF CommandStep
<1>2. ASSUME NEW c \in Upgrades, UpgradeStep(c)
      PROVE  PlaceInv'
    <2>1. CASE Download(c)
        <3> SUFFICES ASSUME NEW t \in Upgrades PROVE PlaceAt(t)'
            BY DEF PlaceInv, PlaceAt
        <3>1. upc'[t] # "none" => pc'[t] \in {"exit", "over"}
            BY <2>1, UpdateAssumption
            DEF Download, UpdateTypeOK, PlaceInv, PlaceAt
        <3>2. pc'[t] \in {"publish", "spawn"} \/ upc'[t] \in {"waiting", "move", "install"}
                   => staged'[t] = want'[t]
            BY <2>1, UpdateAssumption
            DEF Download, UpdateTypeOK, PlaceInv, PlaceAt
        <3>3. pc'[t] \in {"publish", "spawn"} \/ upc'[t] # "none" => want'[t] # NoFile
            BY <2>1, UpdateAssumption
            DEF Download, UpdateTypeOK, PlaceInv, PlaceAt
        <3>4. upc'[t] \in {"none", "waiting", "move"} => backup'[t] = NoFile
            BY <2>1, UpdateAssumption
            DEF Download, UpdateTypeOK, PlaceInv, PlaceAt
        <3>5. upc'[t] = "record" => outcome'[t] \in Results
            BY <2>1, UpdateAssumption
            DEF Download, UpdateTypeOK, PlaceInv, PlaceAt, Results
        <3>6. pc'[t] \in {"remove", "resolve", "publish", "spawn"} \/ upc'[t] # "none"
                   => read'[t] = NoState \/ read'[t].status # "pending"
            BY <2>1, UpdateAssumption
            DEF Download, UpdateTypeOK, PlaceInv, PlaceAt, Pending
        <3>7. QED
            BY <3>1, <3>2, <3>3, <3>4, <3>5, <3>6 DEF PlaceAt
    <2>2. CASE NoDownload(c)
        BY <2>2, UpdateAssumption
        DEF NoDownload, UpdateTypeOK, PlaceInv, PlaceAt, Results, Pending
    <2>3. CASE PublishPending(c)
        BY <2>3, UpdateAssumption
        DEF PublishPending, Writes, Tramples, UpdateTypeOK, PlaceInv, PlaceAt,
            Results, Pending
    <2>4. CASE PublishFails(c)
        BY <2>4, UpdateAssumption
        DEF PublishFails, DiscardsCandidate, Writes, Tramples, UpdateTypeOK,
            PlaceInv, PlaceAt,
            Results, Pending
    <2>5. CASE Spawn(c)
        BY <2>5, UpdateAssumption
        DEF Spawn, UpdateTypeOK, PlaceInv, PlaceAt, Results, Pending
    <2>6. CASE SpawnFails(c)
        BY <2>6, UpdateAssumption
        DEF SpawnFails, DiscardsCandidate, Tramples, UpdateTypeOK, PlaceInv, PlaceAt,
            Results,
            Pending
    <2>7. CASE Exit(c)
        BY <2>7, UpdateAssumption
        DEF Exit, UpdateTypeOK, PlaceInv, PlaceAt, Results, Pending
    <2>8. QED
        BY <1>2, <2>1, <2>2, <2>3, <2>4, <2>5, <2>6, <2>7 DEF UpgradeStep
<1>3. ASSUME NEW d \in Upgrades, UpdaterStep(d) \/ UpdaterDies(d)
      PROVE  PlaceInv'
    <2>1. CASE ParentGone(d)
        BY <2>1, UpdateAssumption
        DEF ParentGone, UpdateTypeOK, PlaceInv, PlaceAt, Results, Pending
    <2>2. CASE ParentStays(d)
        BY <2>2, UpdateAssumption
        DEF ParentStays, UpdateTypeOK, PlaceInv, PlaceAt, Results, Pending
    <2>3. CASE Move(d)
        <3> SUFFICES ASSUME NEW t \in Upgrades PROVE PlaceAt(t)'
            BY DEF PlaceInv, PlaceAt
        <3>1. upc'[t] # "none" => pc'[t] \in {"exit", "over"}
            BY <2>3, UpdateAssumption DEF Move, UpdateTypeOK, PlaceInv, PlaceAt
        <3>2. pc'[t] \in {"publish", "spawn"} \/ upc'[t] \in {"waiting", "move", "install"}
                   => staged'[t] = want'[t]
            BY <2>3, UpdateAssumption DEF Move, UpdateTypeOK, PlaceInv, PlaceAt
        <3>3. pc'[t] \in {"publish", "spawn"} \/ upc'[t] # "none" => want'[t] # NoFile
            BY <2>3, UpdateAssumption DEF Move, UpdateTypeOK, PlaceInv, PlaceAt
        <3>4. upc'[t] \in {"none", "waiting", "move"} => backup'[t] = NoFile
            BY <2>3, UpdateAssumption DEF Move, UpdateTypeOK, PlaceInv, PlaceAt
        <3>5. upc'[t] = "record" => outcome'[t] \in Results
            BY <2>3, UpdateAssumption
            DEF Move, UpdateTypeOK, PlaceInv, PlaceAt, Results
        <3>6. pc'[t] \in {"remove", "resolve", "publish", "spawn"} \/ upc'[t] # "none"
                   => read'[t] = NoState \/ read'[t].status # "pending"
            BY <2>3, UpdateAssumption
            DEF Move, UpdateTypeOK, PlaceInv, PlaceAt, Pending
        <3>7. QED
            BY <3>1, <3>2, <3>3, <3>4, <3>5, <3>6 DEF PlaceAt
    <2>4. CASE MoveFails(d)
        BY <2>4, UpdateAssumption
        DEF MoveFails, UpdateTypeOK, PlaceInv, PlaceAt, Results, Pending
    <2>5. CASE Install(d)
        BY <2>5, UpdateAssumption
        DEF Install, UpdateTypeOK, PlaceInv, PlaceAt, Results, Pending
    <2>6. CASE Rejected(d)
        BY <2>6, UpdateAssumption
        DEF Rejected, UpdateTypeOK, PlaceInv, PlaceAt, Results, Pending
    <2>7. CASE Verified(d)
        BY <2>7, UpdateAssumption
        DEF Verified, UpdateTypeOK, PlaceInv, PlaceAt, Results, Pending
    <2>8. CASE Clean(d)
        <3> SUFFICES ASSUME NEW t \in Upgrades PROVE PlaceAt(t)'
            BY DEF PlaceInv, PlaceAt
        <3>1. upc'[t] # "none" => pc'[t] \in {"exit", "over"}
            BY <2>8, UpdateAssumption DEF Clean, UpdateTypeOK, PlaceInv, PlaceAt
        <3>2. pc'[t] \in {"publish", "spawn"} \/ upc'[t] \in {"waiting", "move", "install"}
                   => staged'[t] = want'[t]
            BY <2>8, UpdateAssumption DEF Clean, UpdateTypeOK, PlaceInv, PlaceAt
        <3>3. pc'[t] \in {"publish", "spawn"} \/ upc'[t] # "none" => want'[t] # NoFile
            BY <2>8, UpdateAssumption DEF Clean, UpdateTypeOK, PlaceInv, PlaceAt
        <3>4. upc'[t] \in {"none", "waiting", "move"} => backup'[t] = NoFile
            BY <2>8, UpdateAssumption DEF Clean, UpdateTypeOK, PlaceInv, PlaceAt
        <3>5. upc'[t] = "record" => outcome'[t] \in Results
            BY <2>8, UpdateAssumption
            DEF Clean, UpdateTypeOK, PlaceInv, PlaceAt, Results
        <3>6. pc'[t] \in {"remove", "resolve", "publish", "spawn"} \/ upc'[t] # "none"
                   => read'[t] = NoState \/ read'[t].status # "pending"
            BY <2>8, UpdateAssumption
            DEF Clean, UpdateTypeOK, PlaceInv, PlaceAt, Pending
        <3>7. QED
            BY <3>1, <3>2, <3>3, <3>4, <3>5, <3>6 DEF PlaceAt
    <2>9. CASE Undo(d)
        <3> SUFFICES ASSUME NEW t \in Upgrades PROVE PlaceAt(t)'
            BY DEF PlaceInv, PlaceAt
        <3>1. upc'[t] # "none" => pc'[t] \in {"exit", "over"}
            BY <2>9, UpdateAssumption DEF Undo, UpdateTypeOK, PlaceInv, PlaceAt
        <3>2. pc'[t] \in {"publish", "spawn"} \/ upc'[t] \in {"waiting", "move", "install"}
                   => staged'[t] = want'[t]
            BY <2>9, UpdateAssumption DEF Undo, UpdateTypeOK, PlaceInv, PlaceAt
        <3>3. pc'[t] \in {"publish", "spawn"} \/ upc'[t] # "none" => want'[t] # NoFile
            BY <2>9, UpdateAssumption DEF Undo, UpdateTypeOK, PlaceInv, PlaceAt
        <3>4. upc'[t] \in {"none", "waiting", "move"} => backup'[t] = NoFile
            BY <2>9, UpdateAssumption DEF Undo, UpdateTypeOK, PlaceInv, PlaceAt
        <3>5. upc'[t] = "record" => outcome'[t] \in Results
            BY <2>9, UpdateAssumption
            DEF Undo, UpdateTypeOK, PlaceInv, PlaceAt, Results
        <3>6. pc'[t] \in {"remove", "resolve", "publish", "spawn"} \/ upc'[t] # "none"
                   => read'[t] = NoState \/ read'[t].status # "pending"
            BY <2>9, UpdateAssumption
            DEF Undo, UpdateTypeOK, PlaceInv, PlaceAt, Pending
        <3>7. QED
            BY <3>1, <3>2, <3>3, <3>4, <3>5, <3>6 DEF PlaceAt
    <2>10. CASE Restore(d)
        BY <2>10, UpdateAssumption
        DEF Restore, UpdateTypeOK, PlaceInv, PlaceAt, Results, Pending
    <2>11. CASE RollbackFails(d)
        BY <2>11, UpdateAssumption
        DEF RollbackFails, UpdateTypeOK, PlaceInv, PlaceAt, Results, Pending
    <2>12. CASE Record(d)
        BY <2>12, UpdateAssumption
        DEF Record, DiscardsCandidate, Writes, Tramples, UpdateTypeOK, PlaceInv,
            PlaceAt, Results,
            Pending
    <2>13. CASE RecordFails(d)
        BY <2>13, UpdateAssumption
        DEF RecordFails, DiscardsCandidate, UpdateTypeOK, PlaceInv, PlaceAt, Results,
            Pending
    <2>14. CASE UpdaterDies(d)
        BY <2>14, UpdateAssumption
        DEF UpdaterDies, UpdateTypeOK, PlaceInv, PlaceAt, Results, Pending
    <2>15. QED
        BY <1>3, <2>1, <2>2, <2>3, <2>4, <2>5, <2>6, <2>7, <2>8, <2>9, <2>10,
            <2>11, <2>12, <2>13, <2>14
        DEF UpdaterStep
<1>4. QED
    BY <1>1, <1>2, <1>3 DEF UpdateNext

\* A command goes on to remove only what it has read as completed.
LEMMA ReadStep ==
    ASSUME UpdateTypeOK, ReadInv, UpdateNext
    PROVE  ReadInv'
<1> USE DEF Commands, Goes, Updates, fileVars, commandVars, updaterVars
<1>1. ASSUME NEW c \in Commands, CommandStep(c) \/ CommandDies(c)
      PROVE  ReadInv'
    <2>1. CASE Start(c)
        BY <2>1 DEF Start, UpdateTypeOK, ReadInv, Pending
    <2>2. CASE ReadState(c)
        BY <2>2 DEF ReadState, Consumed, UpdateTypeOK, ReadInv, Pending
    <2>3. CASE RemoveState(c)
        BY <2>3 DEF RemoveState, Consumed, UpdateTypeOK, ReadInv, Pending
    <2>4. CASE RemoveFails(c)
        BY <2>4 DEF RemoveFails, UpdateTypeOK, ReadInv, Pending
    <2>5. CASE CommandDies(c)
        BY <2>5 DEF CommandDies, UpdateTypeOK, ReadInv, Pending
    <2>6. QED
        BY <1>1, <2>1, <2>2, <2>3, <2>4, <2>5 DEF CommandStep
<1>2. ASSUME NEW c \in Upgrades, UpgradeStep(c)
      PROVE  ReadInv'
    <2>1. CASE Download(c)
        BY <2>1 DEF Download, UpdateTypeOK, ReadInv, Pending
    <2>2. CASE NoDownload(c)
        BY <2>2 DEF NoDownload, UpdateTypeOK, ReadInv, Pending
    <2>3. CASE PublishPending(c)
        BY <2>3
        DEF PublishPending, Writes, Tramples, UpdateTypeOK, ReadInv, Pending
    <2>4. CASE PublishFails(c)
        BY <2>4
        DEF PublishFails, DiscardsCandidate, Writes, Tramples, UpdateTypeOK, ReadInv,
            Pending
    <2>5. CASE Spawn(c)
        BY <2>5 DEF Spawn, UpdateTypeOK, ReadInv, Pending
    <2>6. CASE SpawnFails(c)
        BY <2>6
        DEF SpawnFails, DiscardsCandidate, Tramples, UpdateTypeOK, ReadInv, Pending
    <2>7. CASE Exit(c)
        BY <2>7 DEF Exit, UpdateTypeOK, ReadInv, Pending
    <2>8. QED
        BY <1>2, <2>1, <2>2, <2>3, <2>4, <2>5, <2>6, <2>7 DEF UpgradeStep
<1>3. ASSUME NEW d \in Upgrades, UpdaterStep(d) \/ UpdaterDies(d)
      PROVE  ReadInv'
    <2>1. CASE ParentGone(d)
        BY <2>1 DEF ParentGone, UpdateTypeOK, ReadInv, Pending
    <2>2. CASE ParentStays(d)
        BY <2>2 DEF ParentStays, UpdateTypeOK, ReadInv, Pending
    <2>3. CASE Move(d)
        BY <2>3 DEF Move, UpdateTypeOK, ReadInv, Pending
    <2>4. CASE MoveFails(d)
        BY <2>4 DEF MoveFails, UpdateTypeOK, ReadInv, Pending
    <2>5. CASE Install(d)
        BY <2>5 DEF Install, UpdateTypeOK, ReadInv, Pending
    <2>6. CASE Rejected(d)
        BY <2>6 DEF Rejected, UpdateTypeOK, ReadInv, Pending
    <2>7. CASE Verified(d)
        BY <2>7 DEF Verified, UpdateTypeOK, ReadInv, Pending
    <2>8. CASE Clean(d)
        BY <2>8 DEF Clean, UpdateTypeOK, ReadInv, Pending
    <2>9. CASE Undo(d)
        BY <2>9 DEF Undo, UpdateTypeOK, ReadInv, Pending
    <2>10. CASE Restore(d)
        BY <2>10 DEF Restore, UpdateTypeOK, ReadInv, Pending
    <2>11. CASE RollbackFails(d)
        BY <2>11 DEF RollbackFails, UpdateTypeOK, ReadInv, Pending
    <2>12. CASE Record(d)
        BY <2>12
        DEF Record, DiscardsCandidate, Writes, Tramples, UpdateTypeOK, ReadInv,
            Pending
    <2>13. CASE RecordFails(d)
        BY <2>13 DEF RecordFails, DiscardsCandidate, UpdateTypeOK, ReadInv, Pending
    <2>14. CASE UpdaterDies(d)
        BY <2>14 DEF UpdaterDies, UpdateTypeOK, ReadInv, Pending
    <2>15. QED
        BY <1>3, <2>1, <2>2, <2>3, <2>4, <2>5, <2>6, <2>7, <2>8, <2>9, <2>10,
            <2>11, <2>12, <2>13, <2>14
        DEF UpdaterStep
<1>4. QED
    BY <1>1, <1>2, <1>3 DEF UpdateNext

\* What was trampled on stays so.
LEMMA TrampledStays ==
    ASSUME UpdateTypeOK, trampled, UpdateNext
    PROVE  trampled'
<1> USE DEF Commands, Goes, Updates, fileVars, commandVars, updaterVars
<1>1. ASSUME NEW c \in Commands, CommandStep(c) \/ CommandDies(c)
      PROVE  trampled'
    <2>1. CASE Start(c)
        BY <2>1 DEF Start, UpdateTypeOK
    <2>2. CASE ReadState(c)
        BY <2>2 DEF ReadState, Consumed, UpdateTypeOK
    <2>3. CASE RemoveState(c)
        BY <2>3 DEF RemoveState, Consumed, UpdateTypeOK
    <2>4. CASE RemoveFails(c)
        BY <2>4 DEF RemoveFails, UpdateTypeOK
    <2>5. CASE CommandDies(c)
        BY <2>5 DEF CommandDies, UpdateTypeOK
    <2>6. QED
        BY <1>1, <2>1, <2>2, <2>3, <2>4, <2>5 DEF CommandStep
<1>2. ASSUME NEW c \in Upgrades, UpgradeStep(c)
      PROVE  trampled'
    <2>1. CASE Download(c)
        BY <2>1 DEF Download, UpdateTypeOK
    <2>2. CASE NoDownload(c)
        BY <2>2 DEF NoDownload, UpdateTypeOK
    <2>3. CASE PublishPending(c)
        BY <2>3 DEF PublishPending, Writes, Tramples, UpdateTypeOK
    <2>4. CASE PublishFails(c)
        BY <2>4 DEF PublishFails, DiscardsCandidate, Writes, Tramples, UpdateTypeOK
    <2>5. CASE Spawn(c)
        BY <2>5 DEF Spawn, UpdateTypeOK
    <2>6. CASE SpawnFails(c)
        BY <2>6 DEF SpawnFails, DiscardsCandidate, Tramples, UpdateTypeOK
    <2>7. CASE Exit(c)
        BY <2>7 DEF Exit, UpdateTypeOK
    <2>8. QED
        BY <1>2, <2>1, <2>2, <2>3, <2>4, <2>5, <2>6, <2>7 DEF UpgradeStep
<1>3. ASSUME NEW d \in Upgrades, UpdaterStep(d) \/ UpdaterDies(d)
      PROVE  trampled'
    <2>1. CASE ParentGone(d)
        BY <2>1 DEF ParentGone, UpdateTypeOK
    <2>2. CASE ParentStays(d)
        BY <2>2 DEF ParentStays, UpdateTypeOK
    <2>3. CASE Move(d)
        BY <2>3 DEF Move, UpdateTypeOK
    <2>4. CASE MoveFails(d)
        BY <2>4 DEF MoveFails, UpdateTypeOK
    <2>5. CASE Install(d)
        BY <2>5 DEF Install, UpdateTypeOK
    <2>6. CASE Rejected(d)
        BY <2>6 DEF Rejected, UpdateTypeOK
    <2>7. CASE Verified(d)
        BY <2>7 DEF Verified, UpdateTypeOK
    <2>8. CASE Clean(d)
        BY <2>8 DEF Clean, UpdateTypeOK
    <2>9. CASE Undo(d)
        BY <2>9 DEF Undo, UpdateTypeOK
    <2>10. CASE Restore(d)
        BY <2>10 DEF Restore, UpdateTypeOK
    <2>11. CASE RollbackFails(d)
        BY <2>11 DEF RollbackFails, UpdateTypeOK
    <2>12. CASE Record(d)
        BY <2>12 DEF Record, DiscardsCandidate, Writes, Tramples, UpdateTypeOK
    <2>13. CASE RecordFails(d)
        BY <2>13 DEF RecordFails, DiscardsCandidate, UpdateTypeOK
    <2>14. CASE UpdaterDies(d)
        BY <2>14 DEF UpdaterDies, UpdateTypeOK
    <2>15. QED
        BY <1>3, <2>1, <2>2, <2>3, <2>4, <2>5, <2>6, <2>7, <2>8, <2>9, <2>10,
            <2>11, <2>12, <2>13, <2>14
        DEF UpdaterStep
<1>4. QED
    BY <1>1, <1>2, <1>3 DEF UpdateNext

\* An updater that goes on, or ends without a record, changes nothing here.
LEMMA UpdaterGoesOn ==
    ASSUME UpdateTypeOK, JournalInv, NEW d \in Upgrades, upc[d] \notin {"none", "over"},
           NEW x, Updates(d, x), pc' = pc, journal' = journal, shown' = shown
    PROVE  JournalInv'
<1> USE DEF Updates
<1>1. journal = [id |-> d, status |-> "pending"]
    BY DEF JournalInv, ActiveInv, Active
<1>2. ActiveInv'
    <2> SUFFICES ASSUME NEW t \in Upgrades, Active(t)'
                 PROVE  journal' = [id |-> t, status |-> "pending"]
        BY DEF ActiveInv
    <2>1. CASE t = d
        BY <1>1, <2>1
    <2>2. CASE t # d
        BY <2>2 DEF JournalInv, ActiveInv, Active, UpdateTypeOK
    <2>3. QED
        BY <2>1, <2>2
<1>3. DoneInv'
    BY <1>1 DEF DoneInv, Pending
<1>4. ShownInv'
    BY DEF JournalInv, ShownInv, UpdateTypeOK
<1>5. QED
    BY <1>2, <1>3, <1>4 DEF JournalInv

\* The state names the only active transaction.
LEMMA JournalStep ==
    ASSUME UpdateTypeOK, PlaceInv, ReadInv, ~trampled, JournalInv, ~trampled',
        UpdateNext
    PROVE  JournalInv'
<1> USE DEF Commands, Goes, Updates, fileVars, commandVars, updaterVars
<1>1. ASSUME NEW c \in Commands, CommandStep(c) \/ CommandDies(c)
      PROVE  JournalInv'
    <2>1. CASE Start(c)
        BY <2>1, UpdateAssumption, JournalAssumption
        DEF Start, UpdateTypeOK, PlaceInv, PlaceAt, JournalInv, ActiveInv,
            DoneInv, ShownInv, Active, Journals, Results, Pending
    <2>2. CASE ReadState(c)
        <3>1. ASSUME NEW t \in Upgrades, Active(t)'
              PROVE  journal' = [id |-> t, status |-> "pending"]
            BY <2>2, <3>1, UpdateAssumption, JournalAssumption
            DEF ReadState, Consumed, Active, JournalInv, ActiveInv, PlaceInv,
                PlaceAt, Pending, UpdateTypeOK
        <3>2. DoneInv'
            BY <2>2, UpdateAssumption, JournalAssumption
            DEF ReadState, Consumed, JournalInv, DoneInv, PlaceInv, PlaceAt, Pending,
                UpdateTypeOK, Results, Journals
        <3>3. ASSUME NEW t \in Upgrades
              PROVE  /\ shown'[t] \in {0, 1}
                     /\ shown'[t] = 1 => upc'[t] = "over" /\ (journal' # NoState => journal'.id # t)
            BY <2>2, UpdateAssumption, JournalAssumption
            DEF ReadState, Consumed, JournalInv, ShownInv, DoneInv, PlaceInv,
                PlaceAt, Pending, UpdateTypeOK, Journals
        <3>4. QED
            BY <3>1, <3>2, <3>3 DEF JournalInv, ActiveInv, ShownInv
    <2>3. CASE RemoveState(c)
        <3>0. ~Pending
            BY <2>3 DEF RemoveState, ReadInv, Pending
        <3>1. ASSUME NEW t \in Upgrades, Active(t)'
              PROVE  journal' = [id |-> t, status |-> "pending"]
            <4>1. Active(t)
                BY <2>3, <3>1 DEF RemoveState, Consumed, Active, UpdateTypeOK
            <4>2. QED
                BY <3>0, <4>1, JournalAssumption
                DEF JournalInv, ActiveInv, Pending, Journals
        <3>2. DoneInv'
            BY <2>3, UpdateAssumption, JournalAssumption
            DEF RemoveState, Consumed, JournalInv, DoneInv, PlaceInv, PlaceAt,
                Pending, UpdateTypeOK, Results, Journals
        <3>3. ASSUME NEW t \in Upgrades
              PROVE  /\ shown'[t] \in {0, 1}
                     /\ shown'[t] = 1 => upc'[t] = "over" /\ (journal' # NoState => journal'.id # t)
            <4>1. CASE journal = NoState
                BY <2>3, <4>1 DEF RemoveState, JournalInv, ShownInv
            <4>2. CASE journal # NoState
                <5>1. /\ journal = read[c]
                      /\ upc[journal.id] = "over"
                      /\ journal.id \in Upgrades
                    BY <2>3, <3>0, <4>2
                    DEF RemoveState, JournalInv, DoneInv, UpdateTypeOK, Journals
                <5>2. shown[journal.id] = 0
                    BY <4>2, <5>1 DEF JournalInv, ShownInv
                <5>3. QED
                    BY <2>3, <4>2, <5>1, <5>2
                    DEF RemoveState, JournalInv, ShownInv, UpdateTypeOK
            <4>3. QED
                BY <4>1, <4>2
        <3>4. QED
            BY <3>1, <3>2, <3>3 DEF JournalInv, ActiveInv, ShownInv
    <2>4. CASE RemoveFails(c)
        BY <2>4, UpdateAssumption, JournalAssumption
        DEF RemoveFails, UpdateTypeOK, PlaceInv, PlaceAt, JournalInv, ActiveInv,
            DoneInv, ShownInv, Active, Journals, Results, Pending
    <2>5. CASE CommandDies(c)
        BY <2>5, UpdateAssumption, JournalAssumption
        DEF CommandDies, UpdateTypeOK, PlaceInv, PlaceAt, JournalInv, ActiveInv,
            DoneInv, ShownInv, Active, Journals, Results, Pending
    <2>6. QED
        BY <1>1, <2>1, <2>2, <2>3, <2>4, <2>5 DEF CommandStep
<1>2. ASSUME NEW c \in Upgrades, UpgradeStep(c)
      PROVE  JournalInv'
    <2>1. CASE Download(c)
        BY <2>1, UpdateAssumption, JournalAssumption
        DEF Download, UpdateTypeOK, PlaceInv, PlaceAt, JournalInv, ActiveInv,
            DoneInv, ShownInv, Active, Journals, Results, Pending
    <2>2. CASE NoDownload(c)
        BY <2>2, UpdateAssumption, JournalAssumption
        DEF NoDownload, UpdateTypeOK, PlaceInv, PlaceAt, JournalInv, ActiveInv,
            DoneInv, ShownInv, Active, Journals, Results, Pending
    <2>3. CASE PublishPending(c)
        <3>1. ASSUME NEW t \in Upgrades, Active(t)'
              PROVE  journal' = [id |-> t, status |-> "pending"]
            <4>1. read[c] = NoState \/ read[c].status # "pending"
                BY <2>3 DEF PublishPending, PlaceInv, PlaceAt
            <4>2. ASSUME t # c PROVE FALSE
                <5>1. Active(t)
                    BY <2>3, <3>1, <4>2 DEF PublishPending, Active, UpdateTypeOK
                <5>2. journal = [id |-> t, status |-> "pending"]
                    BY <5>1 DEF JournalInv, ActiveInv
                <5>3. journal # NoState
                    BY <5>2, JournalAssumption DEF Journals
                <5>4. journal.id = t /\ journal.status = "pending"
                    BY <5>2
                <5>5. journal # read[c]
                    BY <4>1, <5>3, <5>4
                <5>6. trampled'
                    BY <2>3, <4>2, <5>3, <5>4, <5>5
                    DEF PublishPending, Writes, Tramples, Pending
                <5>7. QED
                    BY <5>6
            <4>3. QED
                BY <2>3, <4>2 DEF PublishPending, Writes
        <3>2. DoneInv'
            BY <2>3, UpdateAssumption, JournalAssumption
            DEF PublishPending, Writes, Tramples, JournalInv, DoneInv, PlaceInv,
                PlaceAt, Pending, UpdateTypeOK, Results, Journals
        <3>3. ASSUME NEW t \in Upgrades
              PROVE  /\ shown'[t] \in {0, 1}
                     /\ shown'[t] = 1 => upc'[t] = "over" /\ (journal' # NoState => journal'.id # t)
            BY <2>3, UpdateAssumption, JournalAssumption
            DEF PublishPending, Writes, Tramples, JournalInv, ShownInv, DoneInv,
                PlaceInv, PlaceAt, Pending, UpdateTypeOK, Journals
        <3>4. QED
            BY <3>1, <3>2, <3>3 DEF JournalInv, ActiveInv, ShownInv
    <2>4. CASE PublishFails(c)
        <3>0. CASE UNCHANGED <<journal, trampled>>
            BY <2>4, <3>0, UpdateAssumption
            DEF PublishFails, DiscardsCandidate, JournalInv, ActiveInv, DoneInv,
                ShownInv, Active, Pending, UpdateTypeOK
        <3> SUFFICES ASSUME Writes(c, "pending") PROVE JournalInv'
            BY <2>4, <3>0 DEF PublishFails
        <3>1. ASSUME NEW t \in Upgrades, Active(t)'
              PROVE  journal' = [id |-> t, status |-> "pending"]
            <4>1. read[c] = NoState \/ read[c].status # "pending"
                BY <2>4 DEF PublishFails, DiscardsCandidate, PlaceInv, PlaceAt
            <4>2. ASSUME t # c PROVE FALSE
                <5>1. Active(t)
                    BY <2>4, <3>1, <4>2
                    DEF PublishFails, DiscardsCandidate, Active, UpdateTypeOK
                <5>2. journal = [id |-> t, status |-> "pending"]
                    BY <5>1 DEF JournalInv, ActiveInv
                <5>3. journal # NoState
                    BY <5>2, JournalAssumption DEF Journals
                <5>4. journal.id = t /\ journal.status = "pending"
                    BY <5>2
                <5>5. journal # read[c]
                    BY <4>1, <5>3, <5>4
                <5>6. trampled'
                    BY <2>4, <4>2, <5>3, <5>4, <5>5
                    DEF PublishFails, DiscardsCandidate, Writes, Tramples, Pending
                <5>7. QED
                    BY <5>6
            <4>3. QED
                BY <2>4, <3>1, <4>2
                DEF PublishFails, DiscardsCandidate, Active, PlaceInv, PlaceAt,
                    UpdateTypeOK
        <3>2. DoneInv'
            BY <2>4, UpdateAssumption, JournalAssumption
            DEF PublishFails, DiscardsCandidate, Writes, Tramples, JournalInv,
                DoneInv, PlaceInv, PlaceAt, Pending, UpdateTypeOK, Results, Journals
        <3>3. ASSUME NEW t \in Upgrades
              PROVE  /\ shown'[t] \in {0, 1}
                     /\ shown'[t] = 1 => upc'[t] = "over" /\ (journal' # NoState => journal'.id # t)
            BY <2>4, UpdateAssumption, JournalAssumption
            DEF PublishFails, DiscardsCandidate, Writes, Tramples, JournalInv,
                ShownInv, DoneInv, PlaceInv, PlaceAt, Pending, UpdateTypeOK, Journals
        <3>4. QED
            BY <3>1, <3>2, <3>3 DEF JournalInv, ActiveInv, ShownInv
    <2>5. CASE Spawn(c)
        <3>1. ASSUME NEW t \in Upgrades, Active(t)'
              PROVE  journal' = [id |-> t, status |-> "pending"]
            BY <2>5, <3>1, UpdateAssumption, JournalAssumption
            DEF Spawn, Active, JournalInv, ActiveInv, PlaceInv, PlaceAt, Pending,
                UpdateTypeOK
        <3>2. DoneInv'
            BY <2>5, UpdateAssumption, JournalAssumption
            DEF Spawn, JournalInv, DoneInv, PlaceInv, PlaceAt, Pending, UpdateTypeOK,
                Results, Journals
        <3>3. ASSUME NEW t \in Upgrades
              PROVE  /\ shown'[t] \in {0, 1}
                     /\ shown'[t] = 1 => upc'[t] = "over" /\ (journal' # NoState => journal'.id # t)
            BY <2>5, UpdateAssumption, JournalAssumption
            DEF Spawn, JournalInv, ShownInv, DoneInv, PlaceInv, PlaceAt, Pending,
                UpdateTypeOK, Journals
        <3>4. QED
            BY <3>1, <3>2, <3>3 DEF JournalInv, ActiveInv, ShownInv
    <2>6. CASE SpawnFails(c)
        <3>1. ASSUME NEW t \in Upgrades, Active(t)'
              PROVE  journal' = [id |-> t, status |-> "pending"]
            BY <2>6, <3>1, UpdateAssumption, JournalAssumption
            DEF SpawnFails, DiscardsCandidate, Tramples, Active, JournalInv,
                ActiveInv, PlaceInv, PlaceAt, Pending, UpdateTypeOK
        <3>2. DoneInv'
            BY <2>6, UpdateAssumption, JournalAssumption
            DEF SpawnFails, DiscardsCandidate, Tramples, JournalInv, DoneInv,
                PlaceInv, PlaceAt, Pending, UpdateTypeOK, Results, Journals
        <3>3. ASSUME NEW t \in Upgrades
              PROVE  /\ shown'[t] \in {0, 1}
                     /\ shown'[t] = 1 => upc'[t] = "over" /\ (journal' # NoState => journal'.id # t)
            BY <2>6, UpdateAssumption, JournalAssumption
            DEF SpawnFails, DiscardsCandidate, Tramples, JournalInv, ShownInv,
                DoneInv, PlaceInv, PlaceAt, Pending, UpdateTypeOK, Journals
        <3>4. QED
            BY <3>1, <3>2, <3>3 DEF JournalInv, ActiveInv, ShownInv
    <2>7. CASE Exit(c)
        BY <2>7, UpdateAssumption, JournalAssumption
        DEF Exit, UpdateTypeOK, PlaceInv, PlaceAt, JournalInv, ActiveInv,
            DoneInv, ShownInv, Active, Journals, Results, Pending
    <2>8. QED
        BY <1>2, <2>1, <2>2, <2>3, <2>4, <2>5, <2>6, <2>7 DEF UpgradeStep
<1>3. ASSUME NEW d \in Upgrades, UpdaterStep(d) \/ UpdaterDies(d)
      PROVE  JournalInv'
    <2>1. CASE ParentGone(d)
        BY <2>1, UpdaterGoesOn DEF ParentGone
    <2>2. CASE ParentStays(d)
        BY <2>2, UpdaterGoesOn DEF ParentStays
    <2>3. CASE Move(d)
        BY <2>3, UpdaterGoesOn DEF Move
    <2>4. CASE MoveFails(d)
        BY <2>4, UpdaterGoesOn DEF MoveFails
    <2>5. CASE Install(d)
        BY <2>5, UpdaterGoesOn DEF Install
    <2>6. CASE Rejected(d)
        BY <2>6, UpdaterGoesOn DEF Rejected
    <2>7. CASE Verified(d)
        BY <2>7, UpdaterGoesOn DEF Verified
    <2>8. CASE Clean(d)
        BY <2>8, UpdaterGoesOn DEF Clean
    <2>9. CASE Undo(d)
        BY <2>9, UpdaterGoesOn DEF Undo
    <2>10. CASE Restore(d)
        BY <2>10, UpdaterGoesOn DEF Restore
    <2>11. CASE RollbackFails(d)
        BY <2>11, UpdaterGoesOn DEF RollbackFails
    <2>12. CASE Record(d)
        <3>1. ASSUME NEW t \in Upgrades, Active(t)'
              PROVE  journal' = [id |-> t, status |-> "pending"]
            BY <2>12, <3>1, UpdateAssumption, JournalAssumption
            DEF Record, DiscardsCandidate, Writes, Tramples, Active, JournalInv,
                ActiveInv, PlaceInv, PlaceAt, Pending, UpdateTypeOK
        <3>2. DoneInv'
            BY <2>12, UpdateAssumption, JournalAssumption
            DEF Record, DiscardsCandidate, Writes, Tramples, JournalInv, DoneInv,
                PlaceInv, PlaceAt, Pending, UpdateTypeOK, Results, Journals
        <3>3. ASSUME NEW t \in Upgrades
              PROVE  /\ shown'[t] \in {0, 1}
                     /\ shown'[t] = 1 => upc'[t] = "over" /\ (journal' # NoState => journal'.id # t)
            BY <2>12, UpdateAssumption, JournalAssumption
            DEF Record, DiscardsCandidate, Writes, Tramples, JournalInv, ShownInv,
                DoneInv, PlaceInv, PlaceAt, Pending, UpdateTypeOK, Journals
        <3>4. QED
            BY <3>1, <3>2, <3>3 DEF JournalInv, ActiveInv, ShownInv
    <2>13. CASE RecordFails(d)
        BY <2>13, UpdaterGoesOn DEF RecordFails
    <2>14. CASE UpdaterDies(d)
        BY <2>14, UpdaterGoesOn DEF UpdaterDies
    <2>15. QED
        BY <1>3, <2>1, <2>2, <2>3, <2>4, <2>5, <2>6, <2>7, <2>8, <2>9, <2>10,
            <2>11, <2>12, <2>13, <2>14
        DEF UpdaterStep
<1>4. QED
    BY <1>1, <1>2, <1>3 DEF UpdateNext

-----------------------------------------------------------------------------
(* The files, while nothing was trampled on *)

\* While one transaction is active, no other is.
LEMMA OthersIdle ==
    ASSUME UpdateTypeOK, JournalInv, NEW d \in Upgrades, Active(d)
    PROVE  \A t \in Upgrades \ {d} : upc[t] \in {"none", "over"}
<1> SUFFICES ASSUME NEW t \in Upgrades \ {d}, Active(t) PROVE FALSE
    BY DEF Active
<1>1. journal.id = t /\ journal.id = d
    BY DEF JournalInv, ActiveInv
<1>2. QED
    BY <1>1

\* Only the active transaction touches the target and its backup.
LEMMA FileStep ==
    ASSUME UpdateTypeOK, PlaceInv, JournalInv, FileInv, UpdateNext
    PROVE  FileInv'
<1> USE DEF Commands, Goes, Updates, fileVars, commandVars, updaterVars
<1>1. ASSUME NEW c \in Commands, CommandStep(c) \/ CommandDies(c)
      PROVE  FileInv'
    <2>1. CASE Start(c)
        BY <2>1 DEF Start, UpdateTypeOK, PlaceInv, PlaceAt, FileInv, FileAt
    <2>2. CASE ReadState(c)
        BY <2>2
        DEF ReadState, Consumed, UpdateTypeOK, PlaceInv, PlaceAt, FileInv,
            FileAt
    <2>3. CASE RemoveState(c)
        BY <2>3
        DEF RemoveState, Consumed, UpdateTypeOK, PlaceInv, PlaceAt, FileInv,
            FileAt
    <2>4. CASE RemoveFails(c)
        BY <2>4
        DEF RemoveFails, UpdateTypeOK, PlaceInv, PlaceAt, FileInv, FileAt
    <2>5. CASE CommandDies(c)
        BY <2>5
        DEF CommandDies, UpdateTypeOK, PlaceInv, PlaceAt, FileInv, FileAt
    <2>6. QED
        BY <1>1, <2>1, <2>2, <2>3, <2>4, <2>5 DEF CommandStep
<1>2. ASSUME NEW c \in Upgrades, UpgradeStep(c)
      PROVE  FileInv'
    <2>1. CASE Download(c)
        BY <2>1 DEF Download, UpdateTypeOK, PlaceInv, PlaceAt, FileInv, FileAt
    <2>2. CASE NoDownload(c)
        BY <2>2 DEF NoDownload, UpdateTypeOK, PlaceInv, PlaceAt, FileInv, FileAt
    <2>3. CASE PublishPending(c)
        BY <2>3
        DEF PublishPending, Writes, Tramples, UpdateTypeOK, PlaceInv, PlaceAt,
            FileInv, FileAt
    <2>4. CASE PublishFails(c)
        BY <2>4
        DEF PublishFails, DiscardsCandidate, Writes, Tramples, UpdateTypeOK,
            PlaceInv, PlaceAt,
            FileInv, FileAt
    <2>5. CASE Spawn(c)
        BY <2>5 DEF Spawn, UpdateTypeOK, PlaceInv, PlaceAt, FileInv, FileAt
    <2>6. CASE SpawnFails(c)
        BY <2>6
        DEF SpawnFails, DiscardsCandidate, Tramples, UpdateTypeOK, PlaceInv, PlaceAt,
            FileInv,
            FileAt
    <2>7. CASE Exit(c)
        BY <2>7 DEF Exit, UpdateTypeOK, PlaceInv, PlaceAt, FileInv, FileAt
    <2>8. QED
        BY <1>2, <2>1, <2>2, <2>3, <2>4, <2>5, <2>6, <2>7 DEF UpgradeStep
<1>3. ASSUME NEW d \in Upgrades, UpdaterStep(d) \/ UpdaterDies(d)
      PROVE  FileInv'
    <2>1. CASE ParentGone(d)
        <3>1. \A t \in Upgrades \ {d} : upc'[t] \in {"none", "over"}
            BY <2>1, OthersIdle DEF ParentGone, Active, UpdateTypeOK
        <3>2. FileAt(d)'
            BY <2>1, UpdateAssumption
            DEF ParentGone, FileInv, FileAt, PlaceInv, PlaceAt, UpdateTypeOK,
                Results
        <3>3. QED
            BY <3>1, <3>2 DEF FileInv, FileAt
    <2>2. CASE ParentStays(d)
        <3>1. \A t \in Upgrades \ {d} : upc'[t] \in {"none", "over"}
            BY <2>2, OthersIdle DEF ParentStays, Active, UpdateTypeOK
        <3>2. FileAt(d)'
            BY <2>2, UpdateAssumption
            DEF ParentStays, FileInv, FileAt, PlaceInv, PlaceAt, UpdateTypeOK,
                Results
        <3>3. QED
            BY <3>1, <3>2 DEF FileInv, FileAt
    <2>3. CASE Move(d)
        <3>1. \A t \in Upgrades \ {d} : upc'[t] \in {"none", "over"}
            BY <2>3, OthersIdle DEF Move, Active, UpdateTypeOK
        <3>2. FileAt(d)'
            BY <2>3, UpdateAssumption
            DEF Move, FileInv, FileAt, PlaceInv, PlaceAt, UpdateTypeOK, Results
        <3>3. QED
            BY <3>1, <3>2 DEF FileInv, FileAt
    <2>4. CASE MoveFails(d)
        <3>1. \A t \in Upgrades \ {d} : upc'[t] \in {"none", "over"}
            BY <2>4, OthersIdle DEF MoveFails, Active, UpdateTypeOK
        <3>2. FileAt(d)'
            BY <2>4, UpdateAssumption
            DEF MoveFails, FileInv, FileAt, PlaceInv, PlaceAt, UpdateTypeOK,
                Results
        <3>3. QED
            BY <3>1, <3>2 DEF FileInv, FileAt
    <2>5. CASE Install(d)
        <3>1. \A t \in Upgrades \ {d} : upc'[t] \in {"none", "over"}
            BY <2>5, OthersIdle DEF Install, Active, UpdateTypeOK
        <3>2. FileAt(d)'
            BY <2>5, UpdateAssumption
            DEF Install, FileInv, FileAt, PlaceInv, PlaceAt, UpdateTypeOK,
                Results
        <3>3. QED
            BY <3>1, <3>2 DEF FileInv, FileAt
    <2>6. CASE Rejected(d)
        <3>1. \A t \in Upgrades \ {d} : upc'[t] \in {"none", "over"}
            BY <2>6, OthersIdle DEF Rejected, Active, UpdateTypeOK
        <3>2. FileAt(d)'
            BY <2>6, UpdateAssumption
            DEF Rejected, FileInv, FileAt, PlaceInv, PlaceAt, UpdateTypeOK,
                Results
        <3>3. QED
            BY <3>1, <3>2 DEF FileInv, FileAt
    <2>7. CASE Verified(d)
        <3>1. \A t \in Upgrades \ {d} : upc'[t] \in {"none", "over"}
            BY <2>7, OthersIdle DEF Verified, Active, UpdateTypeOK
        <3>2. FileAt(d)'
            BY <2>7, UpdateAssumption
            DEF Verified, FileInv, FileAt, PlaceInv, PlaceAt, UpdateTypeOK,
                Results
        <3>3. QED
            BY <3>1, <3>2 DEF FileInv, FileAt
    <2>8. CASE Clean(d)
        <3>1. \A t \in Upgrades \ {d} : upc'[t] \in {"none", "over"}
            BY <2>8, OthersIdle DEF Clean, Active, UpdateTypeOK
        <3>2. FileAt(d)'
            BY <2>8, UpdateAssumption
            DEF Clean, FileInv, FileAt, PlaceInv, PlaceAt, UpdateTypeOK, Results
        <3>3. QED
            BY <3>1, <3>2 DEF FileInv, FileAt
    <2>9. CASE Undo(d)
        <3>1. \A t \in Upgrades \ {d} : upc'[t] \in {"none", "over"}
            BY <2>9, OthersIdle DEF Undo, Active, UpdateTypeOK
        <3>2. FileAt(d)'
            BY <2>9, UpdateAssumption
            DEF Undo, FileInv, FileAt, PlaceInv, PlaceAt, UpdateTypeOK, Results
        <3>3. QED
            BY <3>1, <3>2 DEF FileInv, FileAt
    <2>10. CASE Restore(d)
        <3>1. \A t \in Upgrades \ {d} : upc'[t] \in {"none", "over"}
            BY <2>10, OthersIdle DEF Restore, Active, UpdateTypeOK
        <3>2. FileAt(d)'
            BY <2>10, UpdateAssumption
            DEF Restore, FileInv, FileAt, PlaceInv, PlaceAt, UpdateTypeOK,
                Results
        <3>3. QED
            BY <3>1, <3>2 DEF FileInv, FileAt
    <2>11. CASE RollbackFails(d)
        <3>1. \A t \in Upgrades \ {d} : upc'[t] \in {"none", "over"}
            BY <2>11, OthersIdle DEF RollbackFails, Active, UpdateTypeOK
        <3>2. FileAt(d)'
            BY <2>11, UpdateAssumption
            DEF RollbackFails, FileInv, FileAt, PlaceInv, PlaceAt, UpdateTypeOK,
                Results
        <3>3. QED
            BY <3>1, <3>2 DEF FileInv, FileAt
    <2>12. CASE Record(d)
        <3>1. \A t \in Upgrades \ {d} : upc'[t] \in {"none", "over"}
            BY <2>12, OthersIdle DEF Record, DiscardsCandidate, Active, UpdateTypeOK
        <3>2. FileAt(d)'
            BY <2>12, UpdateAssumption
            DEF Record, DiscardsCandidate, FileInv, FileAt, PlaceInv, PlaceAt,
                UpdateTypeOK,
                Results
        <3>3. QED
            BY <3>1, <3>2 DEF FileInv, FileAt
    <2>13. CASE RecordFails(d)
        <3>1. \A t \in Upgrades \ {d} : upc'[t] \in {"none", "over"}
            BY <2>13, OthersIdle
            DEF RecordFails, DiscardsCandidate, Active, UpdateTypeOK
        <3>2. FileAt(d)'
            BY <2>13, UpdateAssumption
            DEF RecordFails, DiscardsCandidate, FileInv, FileAt, PlaceInv, PlaceAt,
                UpdateTypeOK,
                Results
        <3>3. QED
            BY <3>1, <3>2 DEF FileInv, FileAt
    <2>14. CASE UpdaterDies(d)
        <3>1. \A t \in Upgrades \ {d} : upc'[t] \in {"none", "over"}
            BY <2>14, OthersIdle DEF UpdaterDies, Active, UpdateTypeOK
        <3>2. FileAt(d)'
            BY <2>14, UpdateAssumption
            DEF UpdaterDies, FileInv, FileAt, PlaceInv, PlaceAt, UpdateTypeOK,
                Results
        <3>3. QED
            BY <3>1, <3>2 DEF FileInv, FileAt
    <2>15. QED
        BY <1>3, <2>1, <2>2, <2>3, <2>4, <2>5, <2>6, <2>7, <2>8, <2>9, <2>10,
            <2>11, <2>12, <2>13, <2>14
        DEF UpdaterStep
<1>4. QED
    BY <1>1, <1>2, <1>3 DEF UpdateNext

\* Until the state is taken away, what it says stays true.
LEMMA ResultStep ==
    ASSUME UpdateTypeOK, PlaceInv, ~trampled, JournalInv, FileInv, ResultIsTrue,
        UpdateNext
    PROVE  ResultIsTrue'
<1> USE DEF Commands, Goes, Updates, fileVars, commandVars, updaterVars
<1>1. ASSUME NEW c \in Commands, CommandStep(c) \/ CommandDies(c)
      PROVE  ResultIsTrue'
    <2>1. CASE Start(c)
        BY <2>1, JournalAssumption
        DEF Start, UpdateTypeOK, PlaceInv, PlaceAt, JournalInv, DoneInv,
            FileInv, FileAt, ResultIsTrue, Journals, Pending
    <2>2. CASE ReadState(c)
        BY <2>2, JournalAssumption
        DEF ReadState, Consumed, UpdateTypeOK, PlaceInv, PlaceAt, JournalInv,
            DoneInv, FileInv, FileAt, ResultIsTrue, Journals, Pending
    <2>3. CASE RemoveState(c)
        BY <2>3, JournalAssumption
        DEF RemoveState, Consumed, UpdateTypeOK, PlaceInv, PlaceAt, JournalInv,
            DoneInv, FileInv, FileAt, ResultIsTrue, Journals, Pending
    <2>4. CASE RemoveFails(c)
        BY <2>4, JournalAssumption
        DEF RemoveFails, UpdateTypeOK, PlaceInv, PlaceAt, JournalInv, DoneInv,
            FileInv, FileAt, ResultIsTrue, Journals, Pending
    <2>5. CASE CommandDies(c)
        BY <2>5, JournalAssumption
        DEF CommandDies, UpdateTypeOK, PlaceInv, PlaceAt, JournalInv, DoneInv,
            FileInv, FileAt, ResultIsTrue, Journals, Pending
    <2>6. QED
        BY <1>1, <2>1, <2>2, <2>3, <2>4, <2>5 DEF CommandStep
<1>2. ASSUME NEW c \in Upgrades, UpgradeStep(c)
      PROVE  ResultIsTrue'
    <2>1. CASE Download(c)
        BY <2>1, JournalAssumption
        DEF Download, UpdateTypeOK, PlaceInv, PlaceAt, JournalInv, DoneInv,
            FileInv, FileAt, ResultIsTrue, Journals, Pending
    <2>2. CASE NoDownload(c)
        BY <2>2, JournalAssumption
        DEF NoDownload, UpdateTypeOK, PlaceInv, PlaceAt, JournalInv, DoneInv,
            FileInv, FileAt, ResultIsTrue, Journals, Pending
    <2>3. CASE PublishPending(c)
        BY <2>3, JournalAssumption
        DEF PublishPending, Writes, Tramples, UpdateTypeOK, PlaceInv, PlaceAt,
            JournalInv, DoneInv, FileInv, FileAt, ResultIsTrue, Journals,
            Pending
    <2>4. CASE PublishFails(c)
        <3>1. CASE UNCHANGED <<journal, trampled>>
            BY <2>4, <3>1 DEF PublishFails, DiscardsCandidate, ResultIsTrue
        <3>2. CASE Writes(c, "pending")
            BY <2>4, <3>2 DEF Writes, ResultIsTrue
        <3>3. QED
            BY <2>4, <3>1, <3>2 DEF PublishFails
    <2>5. CASE Spawn(c)
        BY <2>5, JournalAssumption
        DEF Spawn, UpdateTypeOK, PlaceInv, PlaceAt, JournalInv, DoneInv,
            FileInv, FileAt, ResultIsTrue, Journals, Pending
    <2>6. CASE SpawnFails(c)
        BY <2>6, JournalAssumption
        DEF SpawnFails, DiscardsCandidate, Tramples, UpdateTypeOK, PlaceInv, PlaceAt,
            JournalInv,
            DoneInv, FileInv, FileAt, ResultIsTrue, Journals, Pending
    <2>7. CASE Exit(c)
        BY <2>7, JournalAssumption
        DEF Exit, UpdateTypeOK, PlaceInv, PlaceAt, JournalInv, DoneInv, FileInv,
            FileAt, ResultIsTrue, Journals, Pending
    <2>8. QED
        BY <1>2, <2>1, <2>2, <2>3, <2>4, <2>5, <2>6, <2>7 DEF UpgradeStep
<1>3. ASSUME NEW d \in Upgrades, UpdaterStep(d) \/ UpdaterDies(d)
      PROVE  ResultIsTrue'
    <2>1. CASE ParentGone(d)
        <3>1. journal' = [id |-> d, status |-> "pending"]
            BY <2>1 DEF ParentGone, JournalInv, ActiveInv, Active
        <3>2. QED
            BY <3>1 DEF ResultIsTrue
    <2>2. CASE ParentStays(d)
        <3>1. journal' = [id |-> d, status |-> "pending"]
            BY <2>2 DEF ParentStays, JournalInv, ActiveInv, Active
        <3>2. QED
            BY <3>1 DEF ResultIsTrue
    <2>3. CASE Move(d)
        <3>1. journal' = [id |-> d, status |-> "pending"]
            BY <2>3 DEF Move, JournalInv, ActiveInv, Active
        <3>2. QED
            BY <3>1 DEF ResultIsTrue
    <2>4. CASE MoveFails(d)
        <3>1. journal' = [id |-> d, status |-> "pending"]
            BY <2>4 DEF MoveFails, JournalInv, ActiveInv, Active
        <3>2. QED
            BY <3>1 DEF ResultIsTrue
    <2>5. CASE Install(d)
        <3>1. journal' = [id |-> d, status |-> "pending"]
            BY <2>5 DEF Install, JournalInv, ActiveInv, Active
        <3>2. QED
            BY <3>1 DEF ResultIsTrue
    <2>6. CASE Rejected(d)
        <3>1. journal' = [id |-> d, status |-> "pending"]
            BY <2>6 DEF Rejected, JournalInv, ActiveInv, Active
        <3>2. QED
            BY <3>1 DEF ResultIsTrue
    <2>7. CASE Verified(d)
        <3>1. journal' = [id |-> d, status |-> "pending"]
            BY <2>7 DEF Verified, JournalInv, ActiveInv, Active
        <3>2. QED
            BY <3>1 DEF ResultIsTrue
    <2>8. CASE Clean(d)
        <3>1. journal' = [id |-> d, status |-> "pending"]
            BY <2>8 DEF Clean, JournalInv, ActiveInv, Active
        <3>2. QED
            BY <3>1 DEF ResultIsTrue
    <2>9. CASE Undo(d)
        <3>1. journal' = [id |-> d, status |-> "pending"]
            BY <2>9 DEF Undo, JournalInv, ActiveInv, Active
        <3>2. QED
            BY <3>1 DEF ResultIsTrue
    <2>10. CASE Restore(d)
        <3>1. journal' = [id |-> d, status |-> "pending"]
            BY <2>10 DEF Restore, JournalInv, ActiveInv, Active
        <3>2. QED
            BY <3>1 DEF ResultIsTrue
    <2>11. CASE RollbackFails(d)
        <3>1. journal' = [id |-> d, status |-> "pending"]
            BY <2>11 DEF RollbackFails, JournalInv, ActiveInv, Active
        <3>2. QED
            BY <3>1 DEF ResultIsTrue
    <2>12. CASE Record(d)
        BY <2>12, JournalAssumption
        DEF Record, DiscardsCandidate, Writes, Tramples, UpdateTypeOK, PlaceInv,
            PlaceAt,
            JournalInv, DoneInv, FileInv, FileAt, ResultIsTrue, Journals,
            Pending
    <2>13. CASE RecordFails(d)
        <3>1. journal' = [id |-> d, status |-> "pending"]
            BY <2>13 DEF RecordFails, DiscardsCandidate, JournalInv, ActiveInv, Active
        <3>2. QED
            BY <3>1 DEF ResultIsTrue
    <2>14. CASE UpdaterDies(d)
        <3>1. journal' = [id |-> d, status |-> "pending"]
            BY <2>14 DEF UpdaterDies, JournalInv, ActiveInv, Active
        <3>2. QED
            BY <3>1 DEF ResultIsTrue
    <2>15. QED
        BY <1>3, <2>1, <2>2, <2>3, <2>4, <2>5, <2>6, <2>7, <2>8, <2>9, <2>10,
            <2>11, <2>12, <2>13, <2>14
        DEF UpdaterStep
<1>4. QED
    BY <1>1, <1>2, <1>3 DEF UpdateNext

\* A binary is left.
LEMMA SurviveStep ==
    ASSUME UpdateTypeOK, PlaceInv, ~trampled, FileInv, SpareInv, BinarySurvives,
        UpdateNext
    PROVE  BinarySurvives'
<1> USE DEF Commands, Goes, Updates, fileVars, commandVars, updaterVars
<1>1. ASSUME NEW c \in Commands, CommandStep(c) \/ CommandDies(c)
      PROVE  BinarySurvives'
    <2>1. CASE Start(c)
        BY <2>1 DEF Start, BinarySurvives
    <2>2. CASE ReadState(c)
        BY <2>2 DEF ReadState, Consumed, BinarySurvives
    <2>3. CASE RemoveState(c)
        BY <2>3 DEF RemoveState, Consumed, BinarySurvives
    <2>4. CASE RemoveFails(c)
        BY <2>4 DEF RemoveFails, BinarySurvives
    <2>5. CASE CommandDies(c)
        BY <2>5 DEF CommandDies, BinarySurvives
    <2>6. QED
        BY <1>1, <2>1, <2>2, <2>3, <2>4, <2>5 DEF CommandStep
<1>2. ASSUME NEW c \in Upgrades, UpgradeStep(c)
      PROVE  BinarySurvives'
    <2>1. CASE Download(c)
        BY <2>1 DEF Download, BinarySurvives
    <2>2. CASE NoDownload(c)
        BY <2>2 DEF NoDownload, BinarySurvives
    <2>3. CASE PublishPending(c)
        BY <2>3 DEF PublishPending, Writes, Tramples, BinarySurvives
    <2>4. CASE PublishFails(c)
        BY <2>4 DEF PublishFails, DiscardsCandidate, Writes, Tramples, BinarySurvives
    <2>5. CASE Spawn(c)
        BY <2>5 DEF Spawn, BinarySurvives
    <2>6. CASE SpawnFails(c)
        BY <2>6 DEF SpawnFails, DiscardsCandidate, Tramples, BinarySurvives
    <2>7. CASE Exit(c)
        BY <2>7 DEF Exit, BinarySurvives
    <2>8. QED
        BY <1>2, <2>1, <2>2, <2>3, <2>4, <2>5, <2>6, <2>7 DEF UpgradeStep
<1>3. ASSUME NEW d \in Upgrades, UpdaterStep(d) \/ UpdaterDies(d)
      PROVE  BinarySurvives'
    <2>1. CASE ParentGone(d)
        BY <2>1 DEF ParentGone, BinarySurvives
    <2>2. CASE ParentStays(d)
        BY <2>2 DEF ParentStays, BinarySurvives
    <2>3. CASE Move(d)
        <3>1. CASE target' # NoFile
            BY <3>1 DEF BinarySurvives
        <3>2. CASE target' = NoFile
            <4>1. \E s \in Upgrades : backup'[s] # NoFile
                BY <2>3, <3>2, UpdateAssumption
                DEF Move, FileInv, FileAt, PlaceInv, PlaceAt, SpareInv, Working,
                    UpdateTypeOK
            <4>2. QED
                BY <4>1 DEF BinarySurvives
        <3>3. QED
            BY <3>1, <3>2
    <2>4. CASE MoveFails(d)
        BY <2>4 DEF MoveFails, BinarySurvives
    <2>5. CASE Install(d)
        <3>1. CASE target' # NoFile
            BY <3>1 DEF BinarySurvives
        <3>2. CASE target' = NoFile
            <4>1. \E s \in Upgrades : backup'[s] # NoFile
                BY <2>5, <3>2, UpdateAssumption
                DEF Install, FileInv, FileAt, PlaceInv, PlaceAt, SpareInv,
                    Working, UpdateTypeOK
            <4>2. QED
                BY <4>1 DEF BinarySurvives
        <3>3. QED
            BY <3>1, <3>2
    <2>6. CASE Rejected(d)
        BY <2>6 DEF Rejected, BinarySurvives
    <2>7. CASE Verified(d)
        BY <2>7 DEF Verified, BinarySurvives
    <2>8. CASE Clean(d)
        <3>1. target # NoFile
            BY <2>8 DEF Clean, FileInv, FileAt, PlaceInv, PlaceAt
        <3>2. QED
            BY <2>8, <3>1 DEF Clean, BinarySurvives
    <2>9. CASE Undo(d)
        <3>1. CASE target' # NoFile
            BY <3>1 DEF BinarySurvives
        <3>2. CASE target' = NoFile
            <4>1. \E s \in Upgrades : backup'[s] # NoFile
                BY <2>9, <3>2, UpdateAssumption
                DEF Undo, FileInv, FileAt, PlaceInv, PlaceAt, SpareInv, Working,
                    UpdateTypeOK
            <4>2. QED
                BY <4>1 DEF BinarySurvives
        <3>3. QED
            BY <3>1, <3>2
    <2>10. CASE Restore(d)
        <3>1. CASE target' # NoFile
            BY <3>1 DEF BinarySurvives
        <3>2. CASE target' = NoFile
            <4>1. \E s \in Upgrades : backup'[s] # NoFile
                BY <2>10, <3>2, UpdateAssumption
                DEF Restore, FileInv, FileAt, PlaceInv, PlaceAt, SpareInv,
                    Working, UpdateTypeOK
            <4>2. QED
                BY <4>1 DEF BinarySurvives
        <3>3. QED
            BY <3>1, <3>2
    <2>11. CASE RollbackFails(d)
        <3>1. CASE UNCHANGED <<target, backup>>
            BY <3>1 DEF BinarySurvives
        <3>2. CASE upc[d] = "restore" /\ target' = backup[d]
            BY <3>2 DEF FileInv, FileAt, BinarySurvives
        <3>3. QED
            BY <2>11, <3>1, <3>2 DEF RollbackFails
    <2>12. CASE Record(d)
        BY <2>12 DEF Record, DiscardsCandidate, Writes, Tramples, BinarySurvives
    <2>13. CASE RecordFails(d)
        BY <2>13 DEF RecordFails, DiscardsCandidate, BinarySurvives
    <2>14. CASE UpdaterDies(d)
        BY <2>14 DEF UpdaterDies, BinarySurvives
    <2>15. QED
        BY <1>3, <2>1, <2>2, <2>3, <2>4, <2>5, <2>6, <2>7, <2>8, <2>9, <2>10,
            <2>11, <2>12, <2>13, <2>14
        DEF UpdaterStep
<1>4. QED
    BY <1>1, <1>2, <1>3 DEF UpdateNext

\* Nobody else takes the other backup away.
LEMMA SpareStep ==
    ASSUME UpdateTypeOK, PlaceInv, ~trampled, JournalInv, SpareInv, BinarySurvives,
        UpdateNext
    PROVE  SpareInv'
<1> USE DEF Commands, Goes, Updates, fileVars, commandVars, updaterVars
<1>1. ASSUME NEW c \in Commands, CommandStep(c) \/ CommandDies(c)
      PROVE  SpareInv'
    <2>1. CASE Start(c)
        BY <2>1 DEF Start, SpareInv, Working, UpdateTypeOK
    <2>2. CASE ReadState(c)
        BY <2>2 DEF ReadState, Consumed, SpareInv, Working, UpdateTypeOK
    <2>3. CASE RemoveState(c)
        BY <2>3 DEF RemoveState, Consumed, SpareInv, Working, UpdateTypeOK
    <2>4. CASE RemoveFails(c)
        BY <2>4 DEF RemoveFails, SpareInv, Working, UpdateTypeOK
    <2>5. CASE CommandDies(c)
        BY <2>5 DEF CommandDies, SpareInv, Working, UpdateTypeOK
    <2>6. QED
        BY <1>1, <2>1, <2>2, <2>3, <2>4, <2>5 DEF CommandStep
<1>2. ASSUME NEW c \in Upgrades, UpgradeStep(c)
      PROVE  SpareInv'
    <2>1. CASE Download(c)
        BY <2>1 DEF Download, SpareInv, Working, UpdateTypeOK
    <2>2. CASE NoDownload(c)
        BY <2>2 DEF NoDownload, SpareInv, Working, UpdateTypeOK
    <2>3. CASE PublishPending(c)
        BY <2>3
        DEF PublishPending, Writes, Tramples, SpareInv, Working, UpdateTypeOK
    <2>4. CASE PublishFails(c)
        BY <2>4
        DEF PublishFails, DiscardsCandidate, Writes, Tramples, SpareInv, Working,
            UpdateTypeOK
    <2>5. CASE Spawn(c)
        BY <2>5 DEF Spawn, SpareInv, Working, UpdateTypeOK
    <2>6. CASE SpawnFails(c)
        BY <2>6
        DEF SpawnFails, DiscardsCandidate, Tramples, SpareInv, Working, UpdateTypeOK
    <2>7. CASE Exit(c)
        BY <2>7 DEF Exit, SpareInv, Working, UpdateTypeOK
    <2>8. QED
        BY <1>2, <2>1, <2>2, <2>3, <2>4, <2>5, <2>6, <2>7 DEF UpgradeStep
<1>3. ASSUME NEW d \in Upgrades, UpdaterStep(d) \/ UpdaterDies(d)
      PROVE  SpareInv'
    <2>1. CASE ParentGone(d)
        <3>1. \A t \in Upgrades \ {d} : ~Working(t)'
            BY <2>1, OthersIdle DEF ParentGone, Active, Working, UpdateTypeOK
        <3>2. ASSUME Working(d)', before' = NoFile
              PROVE  \E s \in Upgrades \ {d} : backup'[s] # NoFile
            BY <2>1, <3>2
            DEF ParentGone, SpareInv, BinarySurvives, Working, PlaceInv,
                PlaceAt, UpdateTypeOK
        <3>3. QED
            BY <3>1, <3>2 DEF SpareInv
    <2>2. CASE ParentStays(d)
        <3>1. \A t \in Upgrades \ {d} : ~Working(t)'
            BY <2>2, OthersIdle DEF ParentStays, Active, Working, UpdateTypeOK
        <3>2. ASSUME Working(d)', before' = NoFile
              PROVE  \E s \in Upgrades \ {d} : backup'[s] # NoFile
            BY <2>2, <3>2
            DEF ParentStays, SpareInv, BinarySurvives, Working, PlaceInv,
                PlaceAt, UpdateTypeOK
        <3>3. QED
            BY <3>1, <3>2 DEF SpareInv
    <2>3. CASE Move(d)
        <3>1. \A t \in Upgrades \ {d} : ~Working(t)'
            BY <2>3, OthersIdle DEF Move, Active, Working, UpdateTypeOK
        <3>2. ASSUME Working(d)', before' = NoFile
              PROVE  \E s \in Upgrades \ {d} : backup'[s] # NoFile
            BY <2>3, <3>2
            DEF Move, SpareInv, BinarySurvives, Working, PlaceInv, PlaceAt,
                UpdateTypeOK
        <3>3. QED
            BY <3>1, <3>2 DEF SpareInv
    <2>4. CASE MoveFails(d)
        <3>1. \A t \in Upgrades \ {d} : ~Working(t)'
            BY <2>4, OthersIdle DEF MoveFails, Active, Working, UpdateTypeOK
        <3>2. ASSUME Working(d)', before' = NoFile
              PROVE  \E s \in Upgrades \ {d} : backup'[s] # NoFile
            BY <2>4, <3>2
            DEF MoveFails, SpareInv, BinarySurvives, Working, PlaceInv, PlaceAt,
                UpdateTypeOK
        <3>3. QED
            BY <3>1, <3>2 DEF SpareInv
    <2>5. CASE Install(d)
        <3>1. \A t \in Upgrades \ {d} : ~Working(t)'
            BY <2>5, OthersIdle DEF Install, Active, Working, UpdateTypeOK
        <3>2. ASSUME Working(d)', before' = NoFile
              PROVE  \E s \in Upgrades \ {d} : backup'[s] # NoFile
            BY <2>5, <3>2
            DEF Install, SpareInv, BinarySurvives, Working, PlaceInv, PlaceAt,
                UpdateTypeOK
        <3>3. QED
            BY <3>1, <3>2 DEF SpareInv
    <2>6. CASE Rejected(d)
        <3>1. \A t \in Upgrades \ {d} : ~Working(t)'
            BY <2>6, OthersIdle DEF Rejected, Active, Working, UpdateTypeOK
        <3>2. ASSUME Working(d)', before' = NoFile
              PROVE  \E s \in Upgrades \ {d} : backup'[s] # NoFile
            BY <2>6, <3>2
            DEF Rejected, SpareInv, BinarySurvives, Working, PlaceInv, PlaceAt,
                UpdateTypeOK
        <3>3. QED
            BY <3>1, <3>2 DEF SpareInv
    <2>7. CASE Verified(d)
        <3>1. \A t \in Upgrades \ {d} : ~Working(t)'
            BY <2>7, OthersIdle DEF Verified, Active, Working, UpdateTypeOK
        <3>2. ASSUME Working(d)', before' = NoFile
              PROVE  \E s \in Upgrades \ {d} : backup'[s] # NoFile
            BY <2>7, <3>2
            DEF Verified, SpareInv, BinarySurvives, Working, PlaceInv, PlaceAt,
                UpdateTypeOK
        <3>3. QED
            BY <3>1, <3>2 DEF SpareInv
    <2>8. CASE Clean(d)
        <3>1. \A t \in Upgrades \ {d} : ~Working(t)'
            BY <2>8, OthersIdle DEF Clean, Active, Working, UpdateTypeOK
        <3>2. ASSUME Working(d)', before' = NoFile
              PROVE  \E s \in Upgrades \ {d} : backup'[s] # NoFile
            BY <2>8, <3>2
            DEF Clean, SpareInv, BinarySurvives, Working, PlaceInv, PlaceAt,
                UpdateTypeOK
        <3>3. QED
            BY <3>1, <3>2 DEF SpareInv
    <2>9. CASE Undo(d)
        <3>1. \A t \in Upgrades \ {d} : ~Working(t)'
            BY <2>9, OthersIdle DEF Undo, Active, Working, UpdateTypeOK
        <3>2. ASSUME Working(d)', before' = NoFile
              PROVE  \E s \in Upgrades \ {d} : backup'[s] # NoFile
            BY <2>9, <3>2
            DEF Undo, SpareInv, BinarySurvives, Working, PlaceInv, PlaceAt,
                UpdateTypeOK
        <3>3. QED
            BY <3>1, <3>2 DEF SpareInv
    <2>10. CASE Restore(d)
        <3>1. \A t \in Upgrades \ {d} : ~Working(t)'
            BY <2>10, OthersIdle DEF Restore, Active, Working, UpdateTypeOK
        <3>2. ASSUME Working(d)', before' = NoFile
              PROVE  \E s \in Upgrades \ {d} : backup'[s] # NoFile
            BY <2>10, <3>2
            DEF Restore, SpareInv, BinarySurvives, Working, PlaceInv, PlaceAt,
                UpdateTypeOK
        <3>3. QED
            BY <3>1, <3>2 DEF SpareInv
    <2>11. CASE RollbackFails(d)
        <3>1. \A t \in Upgrades \ {d} : ~Working(t)'
            BY <2>11, OthersIdle
            DEF RollbackFails, Active, Working, UpdateTypeOK
        <3>2. ASSUME Working(d)', before' = NoFile
              PROVE  \E s \in Upgrades \ {d} : backup'[s] # NoFile
            <4>1. PICK s \in Upgrades \ {d} : backup[s] # NoFile
                BY <2>11, <3>2 DEF RollbackFails, SpareInv, Working
            <4>2. backup'[s] = backup[s]
                BY <2>11 DEF RollbackFails, UpdateTypeOK
            <4>3. QED
                BY <4>1, <4>2
        <3>3. QED
            BY <3>1, <3>2 DEF SpareInv
    <2>12. CASE Record(d)
        <3>1. \A t \in Upgrades \ {d} : ~Working(t)'
            BY <2>12, OthersIdle
            DEF Record, DiscardsCandidate, Active, Working, UpdateTypeOK
        <3>2. ASSUME Working(d)', before' = NoFile
              PROVE  \E s \in Upgrades \ {d} : backup'[s] # NoFile
            BY <2>12, <3>2
            DEF Record, DiscardsCandidate, SpareInv, BinarySurvives, Working,
                PlaceInv, PlaceAt,
                UpdateTypeOK
        <3>3. QED
            BY <3>1, <3>2 DEF SpareInv
    <2>13. CASE RecordFails(d)
        <3>1. \A t \in Upgrades \ {d} : ~Working(t)'
            BY <2>13, OthersIdle
            DEF RecordFails, DiscardsCandidate, Active, Working, UpdateTypeOK
        <3>2. ASSUME Working(d)', before' = NoFile
              PROVE  \E s \in Upgrades \ {d} : backup'[s] # NoFile
            BY <2>13, <3>2
            DEF RecordFails, DiscardsCandidate, SpareInv, BinarySurvives, Working,
                PlaceInv,
                PlaceAt, UpdateTypeOK
        <3>3. QED
            BY <3>1, <3>2 DEF SpareInv
    <2>14. CASE UpdaterDies(d)
        <3>1. \A t \in Upgrades \ {d} : ~Working(t)'
            BY <2>14, OthersIdle DEF UpdaterDies, Active, Working, UpdateTypeOK
        <3>2. ASSUME Working(d)', before' = NoFile
              PROVE  \E s \in Upgrades \ {d} : backup'[s] # NoFile
            BY <2>14, <3>2
            DEF UpdaterDies, SpareInv, BinarySurvives, Working, PlaceInv,
                PlaceAt, UpdateTypeOK
        <3>3. QED
            BY <3>1, <3>2 DEF SpareInv
    <2>15. QED
        BY <1>3, <2>1, <2>2, <2>3, <2>4, <2>5, <2>6, <2>7, <2>8, <2>9, <2>10,
            <2>11, <2>12, <2>13, <2>14
        DEF UpdaterStep
<1>4. QED
    BY <1>1, <1>2, <1>3 DEF UpdateNext

-----------------------------------------------------------------------------
(* The invariant, and the theorems *)

LEMMA UpdateInitInv == UpdateInit => UpdateInv
<1> SUFFICES ASSUME UpdateInit PROVE UpdateInv
    OBVIOUS
<1> USE DEF UpdateInit
<1>1. UpdateTypeOK
    BY UpdateAssumption DEF UpdateTypeOK
<1>2. PlaceInv /\ ReadInv
    BY DEF PlaceInv, PlaceAt, ReadInv, Commands
<1>3. JournalInv
    BY DEF JournalInv, ActiveInv, DoneInv, ShownInv, Active, Commands
<1>4. FileInv /\ SpareInv
    BY DEF FileInv, FileAt, SpareInv, Working
<1>5. ResultIsTrue /\ BinarySurvives
    BY UpdateAssumption DEF ResultIsTrue, BinarySurvives
<1>6. QED
    BY <1>1, <1>2, <1>3, <1>4, <1>5 DEF UpdateInv, Untrampled

LEMMA UpdateStepInv == UpdateInv /\ [UpdateNext]_updateVars => UpdateInv'
<1> SUFFICES ASSUME UpdateInv, [UpdateNext]_updateVars PROVE UpdateInv'
    OBVIOUS
<1>1. CASE UpdateNext
    <2>1. UpdateTypeOK' /\ PlaceInv' /\ ReadInv'
        BY <1>1, TypeStep, PlaceStep, ReadStep DEF UpdateInv
    <2>2. ASSUME ~trampled' PROVE Untrampled'
        <3>1. ~trampled
            BY <1>1, <2>2, TrampledStays DEF UpdateInv
        <3>2. Untrampled
            BY <3>1 DEF UpdateInv
        <3>3. JournalInv'
            BY <1>1, <2>2, <3>1, <3>2, JournalStep DEF UpdateInv, Untrampled
        <3>4. FileInv' /\ SpareInv'
            BY <1>1, <3>1, <3>2, FileStep, SpareStep DEF UpdateInv, Untrampled
        <3>5. ResultIsTrue' /\ BinarySurvives'
            BY <1>1, <3>1, <3>2, ResultStep, SurviveStep
            DEF UpdateInv, Untrampled
        <3>6. QED
            BY <3>3, <3>4, <3>5 DEF Untrampled
    <2>3. QED
        BY <2>1, <2>2 DEF UpdateInv
<1>2. CASE UNCHANGED updateVars
    <2> USE <1>2 DEF updateVars, fileVars, commandVars, updaterVars
    <2>1. UpdateTypeOK' /\ PlaceInv' /\ ReadInv'
        BY DEF UpdateInv, UpdateTypeOK, PlaceInv, PlaceAt, ReadInv
    <2>2. JournalInv => JournalInv'
        BY DEF JournalInv, ActiveInv, DoneInv, ShownInv, Active, Pending
    <2>3. FileInv /\ SpareInv => FileInv' /\ SpareInv'
        BY DEF FileInv, FileAt, SpareInv, Working
    <2>4. ResultIsTrue /\ BinarySurvives => ResultIsTrue' /\ BinarySurvives'
        BY DEF ResultIsTrue, BinarySurvives
    <2>5. QED
        BY <2>1, <2>2, <2>3, <2>4 DEF UpdateInv, Untrampled
<1>3. QED
    BY <1>1, <1>2

LEMMA UpdateInvariance == UpdateSpec => []UpdateInv
BY UpdateInitInv, UpdateStepInv, PTL DEF UpdateSpec

\* Every reachable state is well typed.
THEOREM UpdateTypes == UpdateSpec => []UpdateTypeOK
<1>1. UpdateInv => UpdateTypeOK
    BY DEF UpdateInv
<1>2. QED
    BY <1>1, UpdateInvariance, PTL

(***************************************************************************)
(* The pending state lets one updater work at a time, as long as nobody    *)
(* writes or removes a state that he has not seen.                         *)
(***************************************************************************)
THEOREM OneUpdaterWorks == UpdateSpec => []OneAtATime
<1>1. UpdateInv => OneAtATime
    <2> SUFFICES ASSUME UpdateInv, ~trampled, NEW t \in Upgrades, NEW s \in Upgrades,
                        Working(t), Working(s)
                 PROVE  t = s
        BY DEF OneAtATime
    <2>1. Active(t) /\ JournalInv
        BY DEF UpdateInv, Untrampled, Active, Working
    <2>2. QED
        BY <2>1, OthersIdle DEF UpdateInv, Working
<1>2. QED
    BY <1>1, UpdateInvariance, PTL

\* Then, too, the state tells what has happened to the target.
THEOREM ResultIsReported == UpdateSpec => []ResultIsTrue
<1>1. UpdateInv => ResultIsTrue
    BY DEF UpdateInv, Untrampled, ResultIsTrue
<1>2. QED
    BY <1>1, UpdateInvariance, PTL

\* And whatever fails or dies between two renames, a binary is left.
THEOREM SomeBinarySurvives == UpdateSpec => []BinarySurvives
<1>1. UpdateInv => BinarySurvives
    BY DEF UpdateInv, Untrampled, BinarySurvives
<1>2. QED
    BY <1>1, UpdateInvariance, PTL

\* However many commands read one result, at most one of them shows it.
THEOREM ResultIsShownOnce == UpdateSpec => []ShownOnce
<1>1. UpdateInv => ShownOnce
    <2> SUFFICES ASSUME UpdateInv, ~trampled, NEW t \in Upgrades PROVE shown[t] <= 1
        BY DEF ShownOnce
    <2>1. shown[t] \in {0, 1}
        BY DEF UpdateInv, Untrampled, JournalInv, ShownInv
    <2>2. QED
        BY <2>1
<1>2. QED
    BY <1>1, UpdateInvariance, PTL

-----------------------------------------------------------------------------
(* What is left behind *)

\* While nobody has died: who has still to deal with the files of a
\* transaction.
TidyAt(t) ==
    backup[t] # NoFile =>
        \/ upc[t] \in {"install", "verify", "clean", "undo", "restore"}
        \/ upc[t] \in {"record", "over"} /\ outcome[t] \in {"warned", "rollback failed"}

\* Whoever dies: a candidate that was installed is not left as well.
UsedAt(t) ==
    /\ upc[t] = "none" => outcome[t] = "none"
    /\ upc[t] \in {"verify", "clean"} \/ outcome[t] \in {"succeeded", "warned"} =>
          staged[t] = NoFile

TidyInv ==
    /\ deaths = 0 => \A t \in Upgrades : TidyAt(t)
    /\ \A t \in Upgrades : UsedAt(t)

\* A rollback has failed, which the code reports and gives up on.
Broken ==
    \E t \in Upgrades : upc[t] \in {"record", "over"} /\ outcome[t] = "rollback failed"

\* The target is missing only between two renames of one updater.
Whole ==
    /\ target = NoFile =>
          Broken \/ \E t \in Upgrades : upc[t] \in {"install", "undo", "restore"}
    /\ \A t \in Upgrades : Working(t) /\ before = NoFile => Broken

WholeInv == deaths = 0 /\ ~trampled => Whole

LEMMA TidyStep ==
    ASSUME UpdateInv, TidyInv, UpdateNext
    PROVE  TidyInv'
<1> USE DEF Commands, Goes, Updates, fileVars, commandVars, updaterVars
<1>1. ASSUME NEW c \in Commands, CommandStep(c) \/ CommandDies(c)
      PROVE  TidyInv'
    <2>1. CASE Start(c)
        BY <2>1
        DEF Start, TidyInv, TidyAt, UsedAt, UpdateInv, UpdateTypeOK, PlaceInv,
            PlaceAt
    <2>2. CASE ReadState(c)
        BY <2>2
        DEF ReadState, Consumed, TidyInv, TidyAt, UsedAt, UpdateInv, UpdateTypeOK,
            PlaceInv,
            PlaceAt
    <2>3. CASE RemoveState(c)
        BY <2>3
        DEF RemoveState, Consumed, TidyInv, TidyAt, UsedAt, UpdateInv, UpdateTypeOK,
            PlaceInv, PlaceAt
    <2>4. CASE RemoveFails(c)
        BY <2>4
        DEF RemoveFails, TidyInv, TidyAt, UsedAt, UpdateInv, UpdateTypeOK, PlaceInv,
            PlaceAt
    <2>5. CASE CommandDies(c)
        <3>1. deaths' # 0
            BY <2>5 DEF CommandDies, UpdateInv, UpdateTypeOK
        <3>2. \A t \in Upgrades : UsedAt(t)'
            BY <2>5 DEF CommandDies, TidyInv, UsedAt, UpdateInv, UpdateTypeOK
        <3>3. QED
            BY <3>1, <3>2 DEF TidyInv
    <2>6. QED
        BY <1>1, <2>1, <2>2, <2>3, <2>4, <2>5 DEF CommandStep
<1>2. ASSUME NEW c \in Upgrades, UpgradeStep(c)
      PROVE  TidyInv'
    <2>1. CASE Download(c)
        BY <2>1
        DEF Download, TidyInv, TidyAt, UsedAt, UpdateInv, UpdateTypeOK, PlaceInv,
            PlaceAt
    <2>2. CASE NoDownload(c)
        BY <2>2
        DEF NoDownload, TidyInv, TidyAt, UsedAt, UpdateInv, UpdateTypeOK, PlaceInv,
            PlaceAt
    <2>3. CASE PublishPending(c)
        BY <2>3
        DEF PublishPending, Writes, Tramples, TidyInv, TidyAt, UsedAt, UpdateInv,
            UpdateTypeOK, PlaceInv, PlaceAt
    <2>4. CASE PublishFails(c)
        BY <2>4
        DEF PublishFails, DiscardsCandidate, Writes, Tramples, TidyInv, TidyAt,
            UsedAt, UpdateInv,
            UpdateTypeOK, PlaceInv, PlaceAt
    <2>5. CASE Spawn(c)
        BY <2>5
        DEF Spawn, TidyInv, TidyAt, UsedAt, UpdateInv, UpdateTypeOK, PlaceInv,
            PlaceAt
    <2>6. CASE SpawnFails(c)
        BY <2>6
        DEF SpawnFails, DiscardsCandidate, Tramples, TidyInv, TidyAt, UsedAt,
            UpdateInv, UpdateTypeOK,
            PlaceInv, PlaceAt
    <2>7. CASE Exit(c)
        BY <2>7
        DEF Exit, TidyInv, TidyAt, UsedAt, UpdateInv, UpdateTypeOK, PlaceInv, PlaceAt
    <2>8. QED
        BY <1>2, <2>1, <2>2, <2>3, <2>4, <2>5, <2>6, <2>7 DEF UpgradeStep
<1>3. ASSUME NEW c \in Upgrades, UpdaterStep(c) \/ UpdaterDies(c)
      PROVE  TidyInv'
    <2>1. CASE ParentGone(c)
        BY <2>1
        DEF ParentGone, TidyInv, TidyAt, UsedAt, UpdateInv, UpdateTypeOK, PlaceInv,
            PlaceAt
    <2>2. CASE ParentStays(c)
        BY <2>2
        DEF ParentStays, TidyInv, TidyAt, UsedAt, UpdateInv, UpdateTypeOK, PlaceInv,
            PlaceAt
    <2>3. CASE Move(c)
        BY <2>3
        DEF Move, TidyInv, TidyAt, UsedAt, UpdateInv, UpdateTypeOK, PlaceInv, PlaceAt
    <2>4. CASE MoveFails(c)
        BY <2>4
        DEF MoveFails, TidyInv, TidyAt, UsedAt, UpdateInv, UpdateTypeOK, PlaceInv,
            PlaceAt
    <2>5. CASE Install(c)
        BY <2>5
        DEF Install, TidyInv, TidyAt, UsedAt, UpdateInv, UpdateTypeOK, PlaceInv, PlaceAt
    <2>6. CASE Rejected(c)
        BY <2>6
        DEF Rejected, TidyInv, TidyAt, UsedAt, UpdateInv, UpdateTypeOK, PlaceInv,
            PlaceAt
    <2>7. CASE Verified(c)
        BY <2>7
        DEF Verified, TidyInv, TidyAt, UsedAt, UpdateInv, UpdateTypeOK, PlaceInv,
            PlaceAt
    <2>8. CASE Clean(c)
        <3>1. \A t \in Upgrades : UsedAt(t)'
            BY <2>8 DEF Clean, TidyInv, UsedAt, UpdateInv, UpdateTypeOK
        <3>2. deaths = 0 => \A t \in Upgrades : TidyAt(t)'
            BY <2>8 DEF Clean, TidyInv, TidyAt, UpdateInv, UpdateTypeOK
        <3>3. deaths' = deaths
            BY <2>8 DEF Clean
        <3>4. QED
            BY <3>1, <3>2, <3>3 DEF TidyInv
    <2>9. CASE Undo(c)
        <3>1. \A t \in Upgrades : UsedAt(t)'
            BY <2>9 DEF Undo, TidyInv, UsedAt, UpdateInv, UpdateTypeOK
        <3>2. deaths = 0 => \A t \in Upgrades : TidyAt(t)'
            BY <2>9 DEF Undo, TidyInv, TidyAt, UpdateInv, UpdateTypeOK
        <3>3. deaths' = deaths
            BY <2>9 DEF Undo
        <3>4. QED
            BY <3>1, <3>2, <3>3 DEF TidyInv
    <2>10. CASE Restore(c)
        BY <2>10
        DEF Restore, TidyInv, TidyAt, UsedAt, UpdateInv, UpdateTypeOK, PlaceInv, PlaceAt
    <2>11. CASE RollbackFails(c)
        BY <2>11
        DEF RollbackFails, TidyInv, TidyAt, UsedAt, UpdateInv, UpdateTypeOK, PlaceInv,
            PlaceAt
    <2>12. CASE Record(c)
        BY <2>12
        DEF Record, DiscardsCandidate, Writes, Tramples, TidyInv, TidyAt, UsedAt,
            UpdateInv, UpdateTypeOK,
            PlaceInv, PlaceAt
    <2>13. CASE RecordFails(c)
        BY <2>13
        DEF RecordFails, DiscardsCandidate, TidyInv, TidyAt, UsedAt, UpdateInv,
            UpdateTypeOK, PlaceInv, PlaceAt
    <2>14. CASE UpdaterDies(c)
        <3>1. deaths' # 0
            BY <2>14 DEF UpdaterDies, UpdateInv, UpdateTypeOK
        <3>2. \A t \in Upgrades : UsedAt(t)'
            BY <2>14 DEF UpdaterDies, TidyInv, UsedAt, UpdateInv, UpdateTypeOK
        <3>3. QED
            BY <3>1, <3>2 DEF TidyInv
    <2>15. QED
        BY <1>3, <2>1, <2>2, <2>3, <2>4, <2>5, <2>6, <2>7, <2>8, <2>9, <2>10, <2>11,
            <2>12, <2>13, <2>14
        DEF UpdaterStep
<1>4. QED
    BY <1>1, <1>2, <1>3 DEF UpdateNext

LEMMA WholeStep ==
    ASSUME UpdateInv, WholeInv, UpdateNext
    PROVE  WholeInv'
<1> SUFFICES ASSUME deaths' = 0, ~trampled' PROVE Whole'
    BY DEF WholeInv
<1> USE DEF Commands, Goes, Updates, fileVars, commandVars, updaterVars
<1>a. ~trampled /\ Untrampled
    BY TrampledStays DEF UpdateInv
<1>b. deaths = 0
    <2>1. deaths' = deaths \/ deaths' = deaths + 1
        BY DEF UpdateNext, CommandStep, UpgradeStep, UpdaterStep, Start, ReadState,
            RemoveState, RemoveFails, CommandDies, Download, NoDownload,
            PublishPending, PublishFails, Spawn, SpawnFails, Exit, ParentGone,
            ParentStays, Move, MoveFails, Install, Rejected, Verified, Clean, Undo,
            Restore, RollbackFails, Record, RecordFails, UpdaterDies
    <2>2. QED
        BY <2>1 DEF UpdateInv, UpdateTypeOK
<1>c. Whole
    BY <1>a, <1>b DEF WholeInv
<1>1. ASSUME NEW c \in Commands, CommandStep(c) \/ CommandDies(c)
      PROVE  Whole'
    <2>1. CASE Start(c)
        BY <2>1, <1>c DEF Start, Whole, Broken, Working, UpdateInv, UpdateTypeOK
    <2>2. CASE ReadState(c)
        BY <2>2, <1>c
        DEF ReadState, Consumed, Whole, Broken, Working, UpdateInv, UpdateTypeOK
    <2>3. CASE RemoveState(c)
        BY <2>3, <1>c
        DEF RemoveState, Consumed, Whole, Broken, Working, UpdateInv, UpdateTypeOK
    <2>4. CASE RemoveFails(c)
        BY <2>4, <1>c DEF RemoveFails, Whole, Broken, Working, UpdateInv, UpdateTypeOK
    <2>5. CASE CommandDies(c)
        BY <2>5, <1>b DEF CommandDies
    <2>6. QED
        BY <1>1, <2>1, <2>2, <2>3, <2>4, <2>5 DEF CommandStep
<1>2. ASSUME NEW c \in Upgrades, UpgradeStep(c)
      PROVE  Whole'
    <2>1. CASE Download(c)
        BY <2>1, <1>c DEF Download, Whole, Broken, Working, UpdateInv, UpdateTypeOK
    <2>2. CASE NoDownload(c)
        BY <2>2, <1>c DEF NoDownload, Whole, Broken, Working, UpdateInv, UpdateTypeOK
    <2>3. CASE PublishPending(c)
        BY <2>3, <1>c
        DEF PublishPending, Writes, Tramples, Whole, Broken, Working, UpdateInv,
            UpdateTypeOK
    <2>4. CASE PublishFails(c)
        BY <2>4, <1>c
        DEF PublishFails, DiscardsCandidate, Writes, Tramples, Whole, Broken,
            Working, UpdateInv,
            UpdateTypeOK
    <2>5. CASE Spawn(c)
        BY <2>5, <1>c
        DEF Spawn, Whole, Broken, Working, UpdateInv, UpdateTypeOK, PlaceInv, PlaceAt
    <2>6. CASE SpawnFails(c)
        BY <2>6, <1>c
        DEF SpawnFails, DiscardsCandidate, Tramples, Whole, Broken, Working,
            UpdateInv, UpdateTypeOK
    <2>7. CASE Exit(c)
        BY <2>7, <1>c DEF Exit, Whole, Broken, Working, UpdateInv, UpdateTypeOK
    <2>8. QED
        BY <1>2, <2>1, <2>2, <2>3, <2>4, <2>5, <2>6, <2>7 DEF UpgradeStep
<1>3. ASSUME NEW c \in Upgrades, UpdaterStep(c) \/ UpdaterDies(c)
      PROVE  Whole'
    <2>a. \A t \in Upgrades \ {c} : upc[t] \in {"none", "over"}
        <3>1. Active(c)
            BY <1>3
            DEF UpdaterStep, UpdaterDies, ParentGone, ParentStays, Move, MoveFails,
                Install, Rejected, Verified, Clean, Undo, Restore, RollbackFails,
                Record, RecordFails, Active
        <3>2. QED
            BY <3>1, <1>a, OthersIdle DEF Active, UpdateInv, Untrampled
    <2>1. CASE ParentGone(c)
        BY <2>1, <2>a, <1>a, <1>c
        DEF ParentGone, Whole, Broken, Working, UpdateInv, UpdateTypeOK, PlaceInv,
            PlaceAt, Untrampled, FileInv, FileAt
    <2>2. CASE ParentStays(c)
        BY <2>2, <2>a, <1>a, <1>c
        DEF ParentStays, Whole, Broken, Working, UpdateInv, UpdateTypeOK, PlaceInv,
            PlaceAt, Untrampled, FileInv, FileAt
    <2>3. CASE Move(c)
        BY <2>3, <2>a, <1>a, <1>c
        DEF Move, Whole, Broken, Working, UpdateInv, UpdateTypeOK, PlaceInv,
            PlaceAt, Untrampled, FileInv, FileAt
    <2>4. CASE MoveFails(c)
        BY <2>4, <2>a, <1>a, <1>c
        DEF MoveFails, Whole, Broken, Working, UpdateInv, UpdateTypeOK, PlaceInv,
            PlaceAt, Untrampled, FileInv, FileAt
    <2>5. CASE Install(c)
        BY <2>5, <2>a, <1>a, <1>c
        DEF Install, Whole, Broken, Working, UpdateInv, UpdateTypeOK, PlaceInv,
            PlaceAt, Untrampled, FileInv, FileAt
    <2>6. CASE Rejected(c)
        BY <2>6, <2>a, <1>a, <1>c
        DEF Rejected, Whole, Broken, Working, UpdateInv, UpdateTypeOK, PlaceInv,
            PlaceAt, Untrampled, FileInv, FileAt
    <2>7. CASE Verified(c)
        BY <2>7, <2>a, <1>a, <1>c
        DEF Verified, Whole, Broken, Working, UpdateInv, UpdateTypeOK, PlaceInv,
            PlaceAt, Untrampled, FileInv, FileAt
    <2>8. CASE Clean(c)
        BY <2>8, <2>a, <1>a, <1>c
        DEF Clean, Whole, Broken, Working, UpdateInv, UpdateTypeOK, PlaceInv,
            PlaceAt, Untrampled, FileInv, FileAt
    <2>9. CASE Undo(c)
        BY <2>9, <2>a, <1>a, <1>c
        DEF Undo, Whole, Broken, Working, UpdateInv, UpdateTypeOK, PlaceInv,
            PlaceAt, Untrampled, FileInv, FileAt
    <2>10. CASE Restore(c)
        BY <2>10, <2>a, <1>a, <1>c
        DEF Restore, Whole, Broken, Working, UpdateInv, UpdateTypeOK, PlaceInv,
            PlaceAt, Untrampled, FileInv, FileAt
    <2>11. CASE RollbackFails(c)
        BY <2>11, <2>a, <1>a, <1>c
        DEF RollbackFails, Whole, Broken, Working, UpdateInv, UpdateTypeOK,
            PlaceInv, PlaceAt, Untrampled, FileInv, FileAt
    <2>12. CASE Record(c)
        BY <2>12, <2>a, <1>a, <1>c
        DEF Record, DiscardsCandidate, Writes, Tramples, Whole, Broken, Working,
            UpdateInv,
            UpdateTypeOK, PlaceInv, PlaceAt, Untrampled, FileInv, FileAt
    <2>13. CASE RecordFails(c)
        BY <2>13, <2>a, <1>a, <1>c
        DEF RecordFails, DiscardsCandidate, Whole, Broken, Working, UpdateInv,
            UpdateTypeOK, PlaceInv,
            PlaceAt, Untrampled, FileInv, FileAt
    <2>14. CASE UpdaterDies(c)
        BY <2>14, <1>b DEF UpdaterDies
    <2>15. QED
        BY <1>3, <2>1, <2>2, <2>3, <2>4, <2>5, <2>6, <2>7, <2>8, <2>9, <2>10, <2>11,
            <2>12, <2>13, <2>14
        DEF UpdaterStep
<1>4. QED
    BY <1>1, <1>2, <1>3 DEF UpdateNext

LEMMA TidyInvariance == UpdateSpec => [](UpdateInv /\ TidyInv /\ WholeInv)
<1>1. UpdateInit => TidyInv /\ WholeInv
    BY UpdateAssumption
    DEF UpdateInit, TidyInv, TidyAt, UsedAt, WholeInv, Whole, Working
<1>2. UpdateInv /\ TidyInv /\ WholeInv /\ [UpdateNext]_updateVars => TidyInv' /\ WholeInv'
    <2> SUFFICES ASSUME UpdateInv, TidyInv, WholeInv, [UpdateNext]_updateVars
                 PROVE  TidyInv' /\ WholeInv'
        OBVIOUS
    <2>1. CASE UpdateNext
        BY <2>1, TidyStep, WholeStep
    <2>2. CASE UNCHANGED updateVars
        BY <2>2
        DEF updateVars, fileVars, commandVars, updaterVars, TidyInv, TidyAt, UsedAt,
            WholeInv,
            Whole, Broken, Working
    <2>3. QED
        BY <2>1, <2>2
<1>3. QED
    BY <1>1, <1>2, UpdateInvariance, PTL DEF UpdateSpec

(***************************************************************************)
(* No previous binary is forgotten: as long as no process dies, a          *)
(* transaction that is over leaves its backup only where its outcome says  *)
(* so, as a cleanup warning or as a failed rollback.  And an update that   *)
(* succeeded has used its candidate up.  (A failed one may leave the       *)
(* candidate, and says nothing: the code discards that error.)             *)
(***************************************************************************)
NoBackupIsForgotten ==
    \A t \in Upgrades :
        /\ deaths = 0 /\ upc[t] = "over" /\ backup[t] # NoFile =>
              outcome[t] \in {"warned", "rollback failed"}
        /\ outcome[t] \in {"succeeded", "warned"} => staged[t] = NoFile

(***************************************************************************)
(* As long as no process dies and no state is trampled on, the target is   *)
(* missing only while an updater is at work, or after a rollback that has  *)
(* failed.                                                                 *)
(***************************************************************************)
BinaryStaysInPlace ==
    deaths = 0 /\ ~trampled /\ target = NoFile =>
        \E t \in Upgrades : Working(t) \/ outcome[t] = "rollback failed"

\* However the steps of the processes interleave, and whatever fails, a backup
\* that stays is one that its transaction owns up to.
THEOREM UpdatesTidyUp == UpdateSpec => []NoBackupIsForgotten
<1>1. UpdateInv /\ TidyInv => NoBackupIsForgotten
    BY DEF UpdateInv, PlaceInv, PlaceAt, TidyInv, TidyAt, UsedAt, NoBackupIsForgotten
<1>2. QED
    BY <1>1, TidyInvariance, PTL

\* And the binary that the user starts is in its place between updates.
THEOREM TargetIsThere == UpdateSpec => []BinaryStaysInPlace
<1>1. WholeInv => BinaryStaysInPlace
    BY DEF WholeInv, Whole, Broken, Working, BinaryStaysInPlace
<1>2. QED
    BY <1>1, TidyInvariance, PTL

=============================================================================
