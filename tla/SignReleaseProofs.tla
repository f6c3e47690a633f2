--------------------------- MODULE SignReleaseProofs ---------------------------
(***************************************************************************)
(* Proofs about SignRelease, for any number of runs and container keys,    *)
(* any faults, any overlap and any number of changes of the inputs.        *)
(*                                                                         *)
(* A release is what its run took, and how far the run had come when it    *)
(* took it, so the inductive invariant follows the order of sign_release:  *)
(* what the run has established from each step on, and what the directory  *)
(* holds.  Once a directory has the release's name nothing of it changes,  *)
(* whatever becomes of the run, so both are also said of a release.        *)
(***************************************************************************)
EXTENDS SignRelease, TLAPS

\* The steps from one of them on, up to the return of sign_release.
FromPublish     == {"publish", "renamed", "done"}
FromSyncStaging == {"syncstaging"} \cup FromPublish
FromSums        == {"sums"} \cup FromSyncStaging
FromReport      == {"report"} \cup FromSums
FromRmRuntime   == {"rmruntime"} \cup FromReport
FromUnsealed    == {"unsealed"} \cup FromRmRuntime
FromExported    == {"exported", "unseal"} \cup FromUnsealed
FromExport      == {"export"} \cup FromExported
FromRunImg      == {"runimg", "checkimg"} \cup FromExport
FromRunOta      == {"runota", "otaed", "checkota"} \cup FromRunImg
FromCheckSigned == {"checksigned"} \cup FromRunOta
FromSigned      == {"signed"} \cup FromCheckSigned
FromHelperOpen  == {"helperopen", "helpersign", "helpercheck"} \cup FromSigned
FromOpenPem     == {"openpem", "exportpem", "checkpem"} \cup FromHelperOpen
FromManifest    == {"manifest", "compare"} \cup FromOpenPem
FromSealed      == {"sealed"} \cup FromManifest
FromSeal        == {"seal"} \cup FromSealed

\* The run has come that far, or its directory is the release.
Past(r, steps) == pc[r] \in steps \/ place[r] = "dest"

\* The snapshots go through the record, the archive and the container keys.
Reading(r) == pc[r] \in {"open", "copy", "check"}
AtKeys(r)  == Reading(r) /\ cur[r] \in Containers

-----------------------------------------------------------------------------
(* The inductive invariant.                                                *)

\* The steps at which a run's directory need not have its staging name.
Elsewhere == {"idle", "mkdtemp", "cleanup", "renamed"} \cup Ended

PlaceInv(r) ==
    /\ place[r] \in placeOnDisk[r]
    /\ "dest" \in placeOnDisk[r] => place[r] = "dest"
    /\ pc[r] \in {"idle", "mkdtemp", "refused"} => place[r] = "none" /\ placeOnDisk[r] = {"none"}
    /\ pc[r] \notin Elsewhere => place[r] = "staging"
    /\ pc[r] \in {"renamed", "done"} => place[r] = "dest"
    /\ pc[r] = "cleanup" => place[r] # "none"
    /\ pc[r] = "done" => placeOnDisk[r] = {"dest"}

\* The copied keys are read-only while the steps of their context run.
SealInv(r) ==
    /\ pc[r] \in {"idle"} \cup BeforeTry \cup Snapshots \cup FromUnsealed => ~sealed[r]
    /\ pc[r] = "cleanup" /\ "interrupt" \notin Faults => ~sealed[r]

\* The entries, and the disk, that Publish needs.
Settled(r) == \A n \in Entries :
    IF n \in Parts THEN file[r][n] = "synced" /\ onDisk[r][n] = {TRUE}
                   ELSE file[r][n] = "none" /\ onDisk[r][n] = {FALSE}

\* The steps from which on a part is complete.
CompleteFrom == [signed |-> FromRunOta, ota |-> FromRunImg, img |-> FromExport,
                 public |-> FromExported, report |-> FromSums, sums |-> FromSyncStaging]

TreeInv(r) ==
    /\ pc[r] \in {"idle", "mkdtemp", "refused", "staged"} => file[r]["runtime"] = "none"
    /\ pc[r] \in FromReport => file[r]["runtime"] = "none"
    /\ pc[r] = "failed" => file[r]["runtime"] \in {"none", "unsure"}
    /\ \A n \in Parts : pc[r] \in CompleteFrom[n] => file[r][n] = "synced"
    /\ pc[r] = "publish" \/ Released(r) => Settled(r)
    /\ "interrupt" \notin Faults => pc[r] # "stuck"

\* What was read through a descriptor is no older than what was opened; the
\* paths only move on.
HeldInv(r) ==
    /\ \A i \in Inputs : pinned[r][i] <= gen[i] /\ instant[r][i] <= gen[i]
    /\ pc[r] = "check" => used[r][cur[r]] \in Held(r, cur[r])
    /\ pc[r] = "checkpem" => used[r]["pem"] \in Held(r, "pem")
    /\ pc[r] = "helpercheck" => signer[r] \in Held(r, "pem")
    /\ pc[r] \in {"helpersign", "helpercheck"} \cup FromSigned => used[r]["helper"] \in Held(r, "helper")

\* What was copied is what was opened, once it was compared.
CopyInv(r) ==
    /\ Reading(r) => cur[r] \in {"provenance", "target"} \cup Containers
    /\ pc[r] \in {"idle", "mkdtemp", "staged"} => cur[r] = "provenance"
    /\ AtKeys(r) => cur[r] \in todo[r] /\ todo[r] \subseteq Containers
    /\ (Reading(r) /\ cur[r] # "provenance") \/ Past(r, {"provenance", "helper"} \cup FromSeal) =>
         used[r]["provenance"] = pinned[r]["provenance"]
    /\ AtKeys(r) \/ Past(r, {"provenance", "helper"} \cup FromSeal) =>
         used[r]["target"] = pinned[r]["target"]
    /\ AtKeys(r) => \A i \in Containers \ todo[r] : used[r][i] = pinned[r][i]
    /\ Past(r, FromSeal) => \A i \in Containers : used[r][i] = pinned[r][i]

\* What the moment of the last pin says of an input, once that was compared again.
AtInstant(r, i) == used[r][i] = instant[r][i]

InstantInv(r) ==
    /\ Past(r, FromSealed) => \A i \in Pinned : pinned[r][i] <= instant[r][i]
    /\ pc[r] \in DOMAIN Rechecks => \A i \in Rechecks[pc[r]] \ todo[r] : AtInstant(r, i)
    /\ Past(r, FromManifest) => \A i \in Containers : AtInstant(r, i)
    /\ Past(r, FromCheckSigned) => AtInstant(r, "target") /\ AtInstant(r, "helper")
    /\ Past(r, FromRmRuntime) => AtInstant(r, "provenance")

\* What the record, the manifest and the exported key were compared with.
AcceptInv(r) ==
    /\ AtKeys(r) \/ Past(r, {"helper"} \cup FromSeal) => used[r]["target"] = used[r]["provenance"]
    /\ Past(r, FromOpenPem) => \A i \in Certificates : used[r][i] = used[r]["manifest"]
    /\ Past(r, FromHelperOpen) => used[r]["pem"] = pinned[r]["pem"]
    /\ Past(r, FromSigned) => signer[r] = pinned[r]["pem"]

OneRelease == \A r, s \in Runs : Released(r) /\ Released(s) => r = s

DirInv  == OneRelease /\ \A r \in Runs : PlaceInv(r) /\ SealInv(r) /\ TreeInv(r)
DataInv == \A r \in Runs : HeldInv(r) /\ CopyInv(r) /\ InstantInv(r) /\ AcceptInv(r)

IInv == TypeOK /\ DirInv /\ DataInv

-----------------------------------------------------------------------------
(* Type correctness.                                                       *)

\* The container keys are inputs of their own, and there is one at least.
LEMMA KeysAreInputs ==
    /\ Containers # {}
    /\ \A i \in Containers : i \in Inputs /\ i \in Pinned
                             /\ i \notin {"provenance", "target", "helper", "manifest", "avbpub", "pem"}
    /\ {"provenance", "target", "helper", "manifest", "avbpub", "pem"} \subseteq Inputs
    /\ Certificates \subseteq Containers
  BY SignContainersAssumption, SignCertificatesAssumption DEF Inputs, Singles, Pinned

\* What a read through a descriptor returns is a generation.
LEMMA HeldAreGens ==
    ASSUME TypeOK, NEW r \in Runs, NEW i \in Inputs
    PROVE  Held(r, i) \subseteq Gens
  BY SignGenAssumption DEF TypeOK, Held, Gens

\* The initial state is typed.
LEMMA TypeInit == Init => TypeOK
  BY SignGenAssumption, KeysAreInputs DEF Init, TypeOK, First, Gens, FileStates, Places

\* Putting an entry keeps file and onDisk typed.
LEMMA TypePut ==
    ASSUME TypeOK, NEW r \in Runs, NEW n \in Entries, NEW content \in FileStates, Put(r, n, content)
    PROVE  file' \in [Runs -> [Entries -> FileStates]] /\ onDisk' \in [Runs -> [Entries -> SUBSET BOOLEAN]]
  <1>1. file' \in [Runs -> [Entries -> FileStates]]
    BY DEF TypeOK, Put
  <1>2. onDisk[r] \in [Entries -> SUBSET BOOLEAN] /\ onDisk[r][n] \cup {content # "none"} \in SUBSET BOOLEAN
    BY DEF TypeOK
  <1>3. onDisk' = [onDisk EXCEPT ![r] = [onDisk[r] EXCEPT ![n] = onDisk[r][n] \cup {content # "none"}]]
    BY DEF TypeOK, Put
  <1> QED
    BY <1>1, <1>2, <1>3 DEF TypeOK

\* The next comparison keeps pc and todo typed.
LEMMA TypeRecheck ==
    ASSUME TypeOK, NEW r \in Runs, NEW round \in DOMAIN Rechecks, Recheck(r, round)
    PROVE  pc' \in [Runs -> {"idle"} \cup Live \cup Ended] /\ todo' \in [Runs -> SUBSET Inputs]
  <1>1. Rechecks[round] \in SUBSET Inputs
    BY KeysAreInputs DEF Rechecks, Rechecked
  <1> QED
    BY <1>1 DEF TypeOK, Recheck, Goto, Live, InTry

\* Moving a directory keeps its place typed.
LEMMA TypeMoveTo ==
    ASSUME TypeOK, NEW r \in Runs, NEW p \in Places, MoveTo(r, p)
    PROVE  place' \in [Runs -> Places] /\ placeOnDisk' \in [Runs -> SUBSET Places]
  BY DEF TypeOK, MoveTo

\* Every step of a run keeps the types.
LEMMA TypeStep == ASSUME TypeOK, NEW r \in Runs, Step(r) PROVE TypeOK'
  <1> DEFINE PC == {"idle"} \cup Live \cup Ended
  <1>0. /\ InTry \cup BeforeTry \cup Handling \cup Ended \subseteq PC
        /\ \A step \in PC : Goto(r, step) => pc' \in [Runs -> PC]
        /\ Raise(r) => pc' \in [Runs -> PC]
    <2>1. InTry \cup BeforeTry \cup Handling \cup Ended \subseteq PC
      BY DEF Live
    <2>2. \A step \in PC : Goto(r, step) => pc' \in [Runs -> PC]
      BY DEF TypeOK, Goto
    <2>3. {"unwind", "cleanup"} \subseteq PC
      BY <2>1 DEF Handling
    <2>4. Raise(r) => \E step \in {"unwind", "cleanup"} : Goto(r, step)
      BY DEF Raise
    <2> QED
      BY <2>1, <2>2, <2>3, <2>4
  <1> USE DEF reading, tree, where
  <1>1. CASE MakeStaging(r) \/ MakeRuntime(r)
    BY <1>1, <1>0, TypeMoveTo, TypePut DEF TypeOK, MakeStaging, MakeRuntime, Places, FileStates, Entries, BeforeTry, InTry, Snapshots
  <1>2. CASE OpenInput(r) \/ OpenPrivateKey(r)
    <2>1. \E i \in Inputs : \E g \in Gens : pinned' = [pinned EXCEPT ![r][i] = g]
      BY <1>2, KeysAreInputs DEF TypeOK, OpenInput, OpenPrivateKey
    <2>2. pinned' \in [Runs -> [Inputs -> Gens]]
      BY <2>1 DEF TypeOK
    <2> QED
      BY <1>2, <1>0, <2>2 DEF TypeOK, OpenInput, OpenPrivateKey, InTry, Snapshots, Signing
  <1>3. CASE CopyInput(r) \/ ExportPublicPem(r) \/ HelperOpens(r)
    <2>1. \E i \in Inputs : \E g \in Gens : used' = [used EXCEPT ![r][i] = g]
      BY <1>3, KeysAreInputs, HeldAreGens DEF TypeOK, CopyInput, ExportPublicPem, HelperOpens
    <2>2. used' \in [Runs -> [Inputs -> Gens]]
      BY <2>1 DEF TypeOK
    <2> QED
      BY <1>3, <1>0, <2>2 DEF TypeOK, CopyInput, ExportPublicPem, HelperOpens, InTry, Snapshots, Signing
  <1>18. CASE HelperSigns(r)
    BY <1>18, <1>0, KeysAreInputs, HeldAreGens DEF TypeOK, HelperSigns, InTry, Signing
  <1>4. CASE CheckInput(r)
    <2>1. pc' \in [Runs -> PC]
      BY <1>4, <1>0 DEF CheckInput, InTry, Snapshots
    <2>2. todo' \in [Runs -> SUBSET Inputs]
      BY <1>4 DEF TypeOK, CheckInput
    <2>3. cur' \in [Runs -> Inputs]
      BY <1>4, <2>2, KeysAreInputs DEF TypeOK, CheckInput
    <2> QED
      BY <1>4, <2>1, <2>2, <2>3 DEF TypeOK, CheckInput
  <1>5. CASE ValidateProvenance(r) \/ CompareManifest(r) \/ CheckPrivateKey(r)
    BY <1>5, <1>0 DEF TypeOK, ValidateProvenance, CompareManifest, CheckPrivateKey, InTry, Snapshots, Signing
  <1>6. CASE PinHelper(r)
    BY <1>6, <1>0, KeysAreInputs DEF TypeOK, PinHelper, InTry, Snapshots
  <1>7. CASE Seal(r) \/ Unseal(r) \/ Unwind(r)
    <2>1. sealed' \in [Runs -> BOOLEAN] /\ instant' \in [Runs -> [Inputs -> Gens]]
      <3>1. \E b \in BOOLEAN : sealed' = [sealed EXCEPT ![r] = b]
        BY <1>7 DEF Seal, Unseal, Unwind
      <3>2. sealed' \in [Runs -> BOOLEAN]
        BY <3>1 DEF TypeOK
      <3>3. instant' = [instant EXCEPT ![r] = gen] \/ instant' = instant
        BY <1>7 DEF Seal, Unseal, Unwind
      <3>4. instant' \in [Runs -> [Inputs -> Gens]]
        BY <3>3 DEF TypeOK
      <3> QED
        BY <3>2, <3>4
    <2>2. pc' \in [Runs -> PC] /\ todo' \in [Runs -> SUBSET Inputs]
      BY <1>7, <1>0, TypeRecheck DEF TypeOK, Seal, Unseal, Unwind, Rechecks, Handling
    <2> QED
      BY <1>7, <2>1, <2>2 DEF TypeOK, Seal, Unseal, Unwind
  <1>8. CASE CompareOriginal(r)
    BY <1>8, <1>0 DEF TypeOK, CompareOriginal, Rechecks, FollowedBy, InTry, Signing, Finishing
  <1>9. CASE ReadManifest(r)
    BY <1>9, <1>0, KeysAreInputs DEF TypeOK, ReadManifest, InTry, Signing
  <1>10. CASE HelperRevalidates(r) \/ RunOta(r)
    BY <1>10, <1>0, TypePut, TypeRecheck DEF TypeOK, HelperRevalidates, RunOta, Rechecks, FileStates, Entries, Parts
  <1>11. CASE CheckSigned(r) \/ CheckOta(r) \/ RunImg(r) \/ CheckImg(r)
    BY <1>11, <1>0, TypePut DEF TypeOK, CheckSigned, CheckOta, RunImg, CheckImg, InTry, Signing, FileStates, Entries, Parts
  <1>12. CASE ExportBundle(r)
    BY <1>12, <1>0, TypePut, TypeRecheck, KeysAreInputs DEF TypeOK, ExportBundle, Rechecks, FileStates, Entries, Parts
  <1>13. CASE RemoveRuntime(r) \/ WriteReport(r) \/ WriteChecksums(r)
    BY <1>13, <1>0, TypePut DEF TypeOK, RemoveRuntime, WriteReport, WriteChecksums, InTry, Finishing, FileStates, Entries, Parts
  <1>14. CASE SyncStaging(r)
    <2>1. onDisk' \in [Runs -> [Entries -> SUBSET BOOLEAN]]
      BY <1>14 DEF TypeOK, SyncStaging
    <2> QED
      BY <1>14, <1>0, <2>1 DEF TypeOK, SyncStaging, InTry, Finishing
  <1>15. CASE Publish(r)
    BY <1>15, <1>0, TypeMoveTo DEF TypeOK, Publish, Places, InTry, Finishing
  <1>16. CASE Acknowledge(r)
    BY <1>16, <1>0 DEF TypeOK, Acknowledge, SyncParent, Ended
  <1>17. CASE Cleanup(r)
    <2>1. file' \in [Runs -> [Entries -> FileStates]]
      <3>1. [n \in Entries |-> "none"] \in [Entries -> FileStates]
        BY DEF FileStates
      <3>2. UNCHANGED file \/ file' = [file EXCEPT ![r] = [n \in Entries |-> "none"]]
        BY <1>17, Zenon DEF Cleanup, tree
      <3> QED
        BY <3>1, <3>2 DEF TypeOK
    <2>2. \A n \in Entries : onDisk[r][n] \cup {FALSE} \in SUBSET BOOLEAN
      BY DEF TypeOK
    <2>3. [n \in Entries |-> onDisk[r][n] \cup {FALSE}] \in [Entries -> SUBSET BOOLEAN]
      BY <2>2
    <2>4. UNCHANGED onDisk \/ onDisk' = [onDisk EXCEPT ![r] = [n \in Entries |-> onDisk[r][n] \cup {FALSE}]]
      BY <1>17, Zenon DEF Cleanup
    <2>5. onDisk' \in [Runs -> [Entries -> SUBSET BOOLEAN]]
      BY <2>3, <2>4 DEF TypeOK
    <2> QED
      BY <1>17, <1>0, <2>1, <2>5, TypeMoveTo DEF TypeOK, Cleanup, Places, Ended
  <1> QED
    BY <1>1, <1>2, <1>3, <1>18, <1>4, <1>5, <1>6, <1>7, <1>8, <1>9, <1>10, <1>11, <1>12, <1>13,
       <1>14, <1>15, <1>16, <1>17 DEF Step

\* Every step of the system keeps the types.
LEMMA TypeNext == TypeOK /\ [Next]_vars => TypeOK'
  <1> SUFFICES ASSUME TypeOK, [Next]_vars PROVE TypeOK'
    OBVIOUS
  <1> USE DEF reading, tree, where
  <1>1. ASSUME NEW r \in Runs, Begin(r) PROVE TypeOK'
    BY <1>1 DEF TypeOK, Begin, Goto, Live, BeforeTry, Ended
  <1>2. ASSUME NEW r \in Runs, Step(r) PROVE TypeOK'
    BY <1>2, TypeStep
  <1>3. ASSUME NEW r \in Runs, Interrupt(r) PROVE TypeOK'
    BY <1>3 DEF TypeOK, Interrupt, Goto, Raise, Live, Handling, Ended
  <1>4. ASSUME NEW r \in Runs, Crash(r) PROVE TypeOK'
    BY <1>4 DEF TypeOK, Crash, Goto, Ended
  <1>5. CASE PowerLoss
    <2>1. \A r \in Runs : \A n \in Entries : AfterLoss(r, n) \in FileStates
      BY DEF AfterLoss, FileStates
    <2>2. file' \in [Runs -> [Entries -> FileStates]]
      BY <1>5, <2>1 DEF PowerLoss, FileStates
    <2>3. pc' \in [Runs -> {"idle"} \cup Live \cup Ended]
      BY <1>5 DEF TypeOK, PowerLoss, Ended
    <2> QED
      BY <1>5, <2>2, <2>3 DEF TypeOK, PowerLoss
  <1>6. ASSUME NEW i \in Inputs, Change(i) PROVE TypeOK'
    <2>1. gen[i] + 1 \in Gens
      BY <1>6, SignGenAssumption DEF TypeOK, Change, Gens
    <2> QED
      BY <1>6, <2>1 DEF TypeOK, Change
  <1>7. CASE UNCHANGED vars
    BY <1>7 DEF TypeOK, vars
  <1> QED
    BY <1>1, <1>2, <1>3, <1>4, <1>5, <1>6, <1>7 DEF Next, Finished

\* Every variable keeps its type, whatever the inputs, the runs and the faults.
THEOREM TypeCorrect == Spec => []TypeOK
  BY TypeInit, TypeNext, PTL DEF Spec

-----------------------------------------------------------------------------
(* What the parts of an action change.                                     *)

\* Goto sets the step of one run.
LEMMA GotoEffect ==
    ASSUME TypeOK, NEW r \in Runs, NEW step, Goto(r, step)
    PROVE  pc'[r] = step /\ \A s \in Runs \ {r} : pc'[s] = pc[s]
  BY DEF TypeOK, Goto

\* An exception leads to the handler, through the finally clause if that is still to come.
LEMMA RaiseEffect ==
    ASSUME TypeOK, NEW r \in Runs, Raise(r)
    PROVE  /\ pc'[r] = IF sealed[r] THEN "unwind" ELSE "cleanup"
           /\ \A s \in Runs \ {r} : pc'[s] = pc[s]
  BY DEF TypeOK, Raise, Goto

\* A comparison starts with all its inputs.
LEMMA RecheckEffect ==
    ASSUME TypeOK, NEW r \in Runs, NEW round, Recheck(r, round)
    PROVE  /\ pc'[r] = round /\ todo'[r] = Rechecks[round]
           /\ \A s \in Runs \ {r} : pc'[s] = pc[s] /\ todo'[s] = todo[s]
  BY DEF TypeOK, Recheck, Goto

\* MoveTo sets the place of one run and adds it to those on disk.
LEMMA MoveToEffect ==
    ASSUME TypeOK, NEW r \in Runs, NEW p, MoveTo(r, p)
    PROVE  /\ place'[r] = p /\ placeOnDisk'[r] = placeOnDisk[r] \cup {p}
           /\ \A s \in Runs \ {r} : place'[s] = place[s] /\ placeOnDisk'[s] = placeOnDisk[s]
  BY DEF TypeOK, MoveTo

\* Put sets one entry of one run.
LEMMA PutEffect ==
    ASSUME TypeOK, NEW r \in Runs, NEW n, NEW content, Put(r, n, content)
    PROVE  /\ \A m \in Entries : file'[r][m] = IF m = n THEN content ELSE file[r][m]
           /\ \A s \in Runs \ {r} : file'[s] = file[s] /\ onDisk'[s] = onDisk[s]
  <1>1. file' = [file EXCEPT ![r][n] = content]
    BY DEF Put
  <1>2. \A s \in Runs \ {r} : onDisk'[s] = onDisk[s]
    BY DEF Put, TypeOK
  <1> QED
    BY <1>1, <1>2 DEF TypeOK

\* The steps of the comparisons, by name.
LEMMA RoundsAre ==
    /\ DOMAIN Rechecks = {"sealed", "signed", "otaed", "exported", "unsealed"}
    /\ Rechecks["sealed"] = Containers /\ FollowedBy["sealed"] = "manifest"
    /\ Rechecks["signed"] = Rechecked /\ FollowedBy["signed"] = "checksigned"
    /\ Rechecks["otaed"] = Containers /\ FollowedBy["otaed"] = "checkota"
    /\ Rechecks["exported"] = Rechecked /\ FollowedBy["exported"] = "unseal"
    /\ Rechecks["unsealed"] = {"provenance"} /\ FollowedBy["unsealed"] = "rmruntime"
  BY DEF Rechecks, FollowedBy

-----------------------------------------------------------------------------
(* Where the directories are.                                              *)

\* The steps that move no directory are taken in staging, and lead to others
\* in staging or to the handler.
LEMMA StepInStaging ==
    ASSUME TypeOK, NEW r \in Runs, Step(r),
           ~MakeStaging(r), ~Publish(r), ~Acknowledge(r), ~Cleanup(r)
    PROVE  UNCHANGED where /\ pc[r] \notin Elsewhere /\ pc'[r] \notin Elsewhere \ {"cleanup"}
  <1> USE DEF Elsewhere, Ended, where
  <1>1. CASE MakeRuntime(r) \/ OpenInput(r) \/ CopyInput(r) \/ PinHelper(r)
    BY <1>1, GotoEffect DEF MakeRuntime, OpenInput, CopyInput, PinHelper
  <1>2. CASE CheckInput(r) \/ ValidateProvenance(r) \/ CompareManifest(r) \/ CheckPrivateKey(r) \/ HelperOpens(r)
    BY <1>2, GotoEffect, RaiseEffect DEF CheckInput, ValidateProvenance, CompareManifest, CheckPrivateKey, HelperOpens
  <1>3. CASE CompareOriginal(r)
    BY <1>3, GotoEffect, RaiseEffect, RoundsAre DEF CompareOriginal
  <1>4. CASE Seal(r) \/ HelperRevalidates(r) \/ RunOta(r) \/ ExportBundle(r) \/ Unseal(r)
    BY <1>4, RecheckEffect, RaiseEffect DEF Seal, HelperRevalidates, RunOta, ExportBundle, Unseal
  <1>5. CASE ReadManifest(r) \/ OpenPrivateKey(r) \/ ExportPublicPem(r) \/ HelperSigns(r)
    BY <1>5, GotoEffect DEF ReadManifest, OpenPrivateKey, ExportPublicPem, HelperSigns
  <1>6. CASE CheckSigned(r) \/ CheckOta(r) \/ RunImg(r) \/ CheckImg(r)
    BY <1>6, GotoEffect DEF CheckSigned, CheckOta, RunImg, CheckImg
  <1>7. CASE RemoveRuntime(r) \/ WriteReport(r) \/ WriteChecksums(r) \/ SyncStaging(r) \/ Unwind(r)
    BY <1>7, GotoEffect DEF RemoveRuntime, WriteReport, WriteChecksums, SyncStaging, Unwind
  <1> QED
    BY <1>1, <1>2, <1>3, <1>4, <1>5, <1>6, <1>7 DEF Step

\* What the handler does with the directory.
LEMMA CleanupEffect ==
    ASSUME TypeOK, NEW r \in Runs, Cleanup(r)
    PROVE  /\ pc[r] = "cleanup" /\ UNCHANGED sealed
           /\ \/ place[r] # "staging" /\ pc'[r] = "failed" /\ UNCHANGED <<tree, where>>
              \/ place[r] = "staging" /\ sealed[r] /\ pc'[r] = "stuck" /\ UNCHANGED <<tree, where>>
              \/ /\ place[r] = "staging" /\ pc'[r] = "failed"
                 /\ place'[r] = "none" /\ placeOnDisk'[r] = placeOnDisk[r] \cup {"none"}
                 /\ \A n \in Entries : file'[r][n] = "none"
  <1>1. CASE place[r] # "staging" \/ sealed[r]
    BY <1>1, GotoEffect DEF Cleanup
  <1>2. CASE place[r] = "staging" /\ ~sealed[r]
    <2>1. Goto(r, "failed") /\ MoveTo(r, "none") /\ pc[r] = "cleanup" /\ UNCHANGED sealed
      BY <1>2 DEF Cleanup
    <2>2. file' = [file EXCEPT ![r] = [n \in Entries |-> "none"]]
      BY <1>2, Zenon DEF Cleanup
    <2>3. \A n \in Entries : file'[r][n] = "none"
      BY <2>2 DEF TypeOK
    <2> QED
      BY <1>2, <2>1, <2>3, GotoEffect, MoveToEffect
  <1> QED
    BY <1>1, <1>2

\* Where run r's directory is, after a step of its own.
LEMMA StepPlace ==
    ASSUME TypeOK, NEW r \in Runs, PlaceInv(r), Step(r)
    PROVE  /\ PlaceInv(r)'
           /\ place'[r] = "dest" => \/ place[r] = "dest"
                                    \/ \A s \in Runs : place[s] # "dest"
  <1> USE DEF Elsewhere, Ended, PlaceInv
  <1>1. CASE ~MakeStaging(r) /\ ~Publish(r) /\ ~Acknowledge(r) /\ ~Cleanup(r)
    BY <1>1, StepInStaging DEF where
  <1>2. CASE MakeStaging(r) \/ Cleanup(r)
    <2>1. CASE MakeStaging(r)
      BY <2>1, GotoEffect, MoveToEffect DEF MakeStaging
    <2>2. CASE Cleanup(r)
      BY <2>2, CleanupEffect DEF where
    <2> QED
      BY <1>2, <2>1, <2>2
  <1>3. CASE Publish(r)
    BY <1>3, GotoEffect, RaiseEffect, MoveToEffect DEF Publish, where
  <1>4. CASE Acknowledge(r)
    BY <1>4, GotoEffect DEF Acknowledge, SyncParent
  <1> QED
    BY <1>1, <1>2, <1>3, <1>4

\* Who else a step of run r touches: at most where the disk has their directories.
LEMMA StepTouchesOnly ==
    ASSUME TypeOK, NEW r \in Runs, Step(r), NEW s \in Runs \ {r}
    PROVE  /\ gen' = gen
           /\ pc'[s] = pc[s] /\ cur'[s] = cur[s] /\ todo'[s] = todo[s]
           /\ pinned'[s] = pinned[s] /\ used'[s] = used[s] /\ signer'[s] = signer[s] /\ instant'[s] = instant[s]
           /\ sealed'[s] = sealed[s] /\ file'[s] = file[s] /\ onDisk'[s] = onDisk[s] /\ place'[s] = place[s]
           /\ placeOnDisk'[s] = placeOnDisk[s] \/ placeOnDisk'[s] = {place[s]}
  <1> USE DEF TypeOK, Goto, Raise, Recheck, Put, MoveTo, reading, tree, where
  <1>1. CASE MakeRuntime(r) \/ OpenInput(r) \/ CopyInput(r) \/ PinHelper(r)
    BY <1>1 DEF MakeRuntime, OpenInput, CopyInput, PinHelper
  <1>2. CASE CheckInput(r) \/ ValidateProvenance(r) \/ CompareManifest(r) \/ CheckPrivateKey(r) \/ HelperOpens(r)
    BY <1>2 DEF CheckInput, ValidateProvenance, CompareManifest, CheckPrivateKey, HelperOpens
  <1>3. CASE CompareOriginal(r)
    BY <1>3 DEF CompareOriginal
  <1>4. CASE Seal(r) \/ HelperRevalidates(r) \/ RunOta(r) \/ ExportBundle(r) \/ Unseal(r)
    BY <1>4 DEF Seal, HelperRevalidates, RunOta, ExportBundle, Unseal
  <1>5. CASE ReadManifest(r) \/ OpenPrivateKey(r) \/ ExportPublicPem(r) \/ HelperSigns(r)
    BY <1>5 DEF ReadManifest, OpenPrivateKey, ExportPublicPem, HelperSigns
  <1>6. CASE CheckSigned(r) \/ CheckOta(r) \/ RunImg(r) \/ CheckImg(r)
    BY <1>6 DEF CheckSigned, CheckOta, RunImg, CheckImg
  <1>7. CASE RemoveRuntime(r) \/ WriteReport(r) \/ WriteChecksums(r) \/ SyncStaging(r) \/ Unwind(r)
    BY <1>7 DEF RemoveRuntime, WriteReport, WriteChecksums, SyncStaging, Unwind
  <1>8. CASE MakeStaging(r) \/ Publish(r)
    BY <1>8 DEF MakeStaging, Publish
  <1>9. CASE Acknowledge(r)
    BY <1>9 DEF Acknowledge, SyncParent
  <1>10. CASE Cleanup(r)
    <2>1. UNCHANGED <<gen, reading, sealed>> /\ \E step \in {"failed", "stuck"} : pc' = [pc EXCEPT ![r] = step]
      BY ONLY <1>10 DEF Cleanup, Goto
    <2>2. file'[s] = file[s] /\ onDisk'[s] = onDisk[s]
      <3>1. file' = file \/ \E f : file' = [file EXCEPT ![r] = f]
        BY ONLY <1>10 DEF Cleanup, tree
      <3>2. onDisk' = onDisk \/ \E d : onDisk' = [onDisk EXCEPT ![r] = d]
        BY ONLY <1>10 DEF Cleanup, tree
      <3> QED
        BY <3>1, <3>2 DEF TypeOK
    <2>3. place'[s] = place[s] /\ placeOnDisk'[s] = placeOnDisk[s]
      <3>1. UNCHANGED where \/ MoveTo(r, "none")
        BY ONLY <1>10 DEF Cleanup
      <3> QED
        BY <3>1 DEF TypeOK, MoveTo, where
    <2> QED
      BY <2>1, <2>2, <2>3 DEF TypeOK, reading
  <1> QED
    BY <1>1, <1>2, <1>3, <1>4, <1>5, <1>6, <1>7, <1>8, <1>9, <1>10 DEF Step

\* A run whose state a step leaves alone keeps its part of the invariant.
LEMMA Untouched ==
    ASSUME NEW s \in Runs, PlaceInv(s), SealInv(s), TreeInv(s), HeldInv(s), CopyInv(s), InstantInv(s), AcceptInv(s),
           gen' = gen,
           pc'[s] = pc[s], cur'[s] = cur[s], todo'[s] = todo[s],
           pinned'[s] = pinned[s], used'[s] = used[s], signer'[s] = signer[s], instant'[s] = instant[s],
           sealed'[s] = sealed[s], file'[s] = file[s], onDisk'[s] = onDisk[s], place'[s] = place[s],
           placeOnDisk'[s] = placeOnDisk[s] \/ placeOnDisk'[s] = {place[s]}
    PROVE  /\ PlaceInv(s)' /\ SealInv(s)' /\ TreeInv(s)'
           /\ HeldInv(s)' /\ CopyInv(s)' /\ InstantInv(s)' /\ AcceptInv(s)'
  <1>1. PlaceInv(s)' /\ SealInv(s)'
    BY DEF PlaceInv, SealInv
  <1>2. TreeInv(s)'
    BY DEF TreeInv, Settled, Released
  <1>3. HeldInv(s)'
    BY DEF HeldInv, Held
  <1>4. CopyInv(s)'
    BY DEF CopyInv, Past, AtKeys, Reading
  <1>5. InstantInv(s)' /\ AcceptInv(s)'
    BY DEF InstantInv, AcceptInv, AtInstant, Past, AtKeys, Reading
  <1> QED
    BY <1>1, <1>2, <1>3, <1>4, <1>5

-----------------------------------------------------------------------------
(* What the directory holds.                                               *)

\* The copied keys of run r, after a step of its own.
LEMMA StepSeal == ASSUME TypeOK, NEW r \in Runs, SealInv(r), Step(r) PROVE SealInv(r)'
  <1> USE DEF SealInv, BeforeTry, Snapshots, FromUnsealed, FromRmRuntime, FromReport, FromSums, FromSyncStaging, FromPublish
  <1>1. CASE MakeRuntime(r) \/ OpenInput(r) \/ CopyInput(r) \/ PinHelper(r)
    BY <1>1, GotoEffect DEF MakeRuntime, OpenInput, CopyInput, PinHelper
  <1>2. CASE CheckInput(r) \/ ValidateProvenance(r) \/ CompareManifest(r) \/ CheckPrivateKey(r) \/ HelperOpens(r)
    BY <1>2, GotoEffect, RaiseEffect DEF CheckInput, ValidateProvenance, CompareManifest, CheckPrivateKey, HelperOpens
  <1>3. CASE CompareOriginal(r)
    BY <1>3, GotoEffect, RaiseEffect, RoundsAre DEF CompareOriginal
  <1>4. CASE Seal(r) \/ HelperRevalidates(r) \/ RunOta(r) \/ ExportBundle(r)
    BY <1>4, RecheckEffect, RaiseEffect DEF Seal, HelperRevalidates, RunOta, ExportBundle
  <1>5. CASE Unseal(r) \/ Unwind(r)
    BY <1>5, RecheckEffect, GotoEffect DEF Unseal, Unwind, TypeOK
  <1>6. CASE ReadManifest(r) \/ OpenPrivateKey(r) \/ ExportPublicPem(r) \/ HelperSigns(r)
    BY <1>6, GotoEffect DEF ReadManifest, OpenPrivateKey, ExportPublicPem, HelperSigns
  <1>7. CASE CheckSigned(r) \/ CheckOta(r) \/ RunImg(r) \/ CheckImg(r)
    BY <1>7, GotoEffect DEF CheckSigned, CheckOta, RunImg, CheckImg
  <1>8. CASE RemoveRuntime(r) \/ WriteReport(r) \/ WriteChecksums(r) \/ SyncStaging(r)
    BY <1>8, GotoEffect DEF RemoveRuntime, WriteReport, WriteChecksums, SyncStaging
  <1>9. CASE MakeStaging(r) \/ Publish(r) \/ Acknowledge(r)
    BY <1>9, GotoEffect, RaiseEffect DEF MakeStaging, Publish, Acknowledge
  <1>10. CASE Cleanup(r)
    BY <1>10, CleanupEffect
  <1> QED
    BY <1>1, <1>2, <1>3, <1>4, <1>5, <1>6, <1>7, <1>8, <1>9, <1>10 DEF Step

\* What has to be complete at a step, part by part.
CompleteAt(step, files) ==
    /\ step \in FromRunOta      => files["signed"] = "synced"
    /\ step \in FromRunImg      => files["ota"] = "synced"
    /\ step \in FromExport      => files["img"] = "synced"
    /\ step \in FromExported    => files["public"] = "synced"
    /\ step \in FromSums        => files["report"] = "synced"
    /\ step \in FromSyncStaging => files["sums"] = "synced"

\* The same, as the invariant says it.
LEMMA CompleteIs ==
    ASSUME NEW step, NEW files
    PROVE  CompleteAt(step, files) <=> \A n \in Parts : step \in CompleteFrom[n] => files[n] = "synced"
  BY DEF CompleteAt, CompleteFrom, Parts

\* A step that leaves the entries alone and leads to no later part of the path.
LEMMA TreeKept ==
    ASSUME NEW r \in Runs, TreeInv(r), UNCHANGED tree, place'[r] = "dest" => place[r] = "dest",
           pc'[r] \in {"idle", "mkdtemp", "refused", "staged"} => pc[r] \in {"idle", "mkdtemp", "refused", "staged"},
           pc'[r] \in FromReport => pc[r] \in FromReport,
           CompleteAt(pc[r], file[r]) => CompleteAt(pc'[r], file[r]),
           pc'[r] # "publish", pc'[r] # "failed", "interrupt" \notin Faults => pc'[r] # "stuck"
    PROVE  TreeInv(r)'
  <1>1. CompleteAt(pc[r], file[r])
    BY CompleteIs DEF TreeInv
  <1>2. \A n \in Parts : pc'[r] \in CompleteFrom[n] => file'[r][n] = "synced"
    BY <1>1, CompleteIs DEF tree
  <1> QED
    BY <1>2 DEF TreeInv, tree, Settled, Released

\* A step that puts an entry of a directory in staging.
LEMMA TreePut ==
    ASSUME TypeOK, NEW r \in Runs, TreeInv(r), NEW n \in Entries, NEW content, Put(r, n, content),
           place[r] = "staging", UNCHANGED where, CompleteAt(pc'[r], file'[r]),
           pc'[r] \notin {"idle", "mkdtemp", "refused", "staged", "publish", "failed", "stuck"},
           pc'[r] \in FromReport => IF n = "runtime" THEN content = "none" ELSE pc[r] \in FromReport
    PROVE  TreeInv(r)'
  <1>1. \A m \in Parts : pc'[r] \in CompleteFrom[m] => file'[r][m] = "synced"
    BY CompleteIs
  <1>2. pc'[r] \in FromReport => file'[r]["runtime"] = "none"
    BY PutEffect DEF TreeInv, Entries
  <1> QED
    BY <1>1, <1>2 DEF TreeInv, Released, where

\* What run r's directory holds, after a step of its own.
LEMMA StepTree ==
    ASSUME TypeOK, NEW r \in Runs, PlaceInv(r), SealInv(r), TreeInv(r), Step(r)
    PROVE  TreeInv(r)'
  <1>0. place'[r] = "dest" => place[r] = "dest" \/ Publish(r)
    <2>1. CASE ~MakeStaging(r) /\ ~Publish(r) /\ ~Acknowledge(r) /\ ~Cleanup(r)
      BY <2>1, StepInStaging DEF where
    <2>2. CASE MakeStaging(r) \/ Acknowledge(r)
      BY <2>2, MoveToEffect DEF MakeStaging, Acknowledge
    <2>3. CASE Cleanup(r)
      BY <2>3, CleanupEffect DEF where
    <2> QED
      BY <2>1, <2>2, <2>3
  <1>00. CompleteAt(pc[r], file[r])
    BY CompleteIs DEF TreeInv
  <1> USE DEF CompleteAt, FromRunOta, FromRunImg, FromExport, FromExported, FromUnsealed, FromRmRuntime, FromReport,
              FromSums, FromSyncStaging, FromPublish
  <1>1. CASE OpenInput(r) \/ CopyInput(r) \/ PinHelper(r) \/ ReadManifest(r) \/ OpenPrivateKey(r) \/ ExportPublicPem(r)
             \/ HelperSigns(r) \/ Unwind(r)
    BY <1>0, <1>1, GotoEffect, TreeKept DEF OpenInput, CopyInput, PinHelper, ReadManifest, OpenPrivateKey, ExportPublicPem, HelperSigns, Unwind, Publish
  <1>2. CASE CheckInput(r) \/ ValidateProvenance(r) \/ CompareManifest(r) \/ CheckPrivateKey(r) \/ HelperOpens(r)
    BY <1>0, <1>2, GotoEffect, RaiseEffect, TreeKept DEF CheckInput, ValidateProvenance, CompareManifest, CheckPrivateKey, HelperOpens, Publish
  <1>3. CASE CompareOriginal(r)
    BY <1>0, <1>3, GotoEffect, RaiseEffect, RoundsAre, TreeKept DEF CompareOriginal, Publish
  <1>4. CASE Seal(r) \/ Unseal(r)
    BY <1>0, <1>4, RecheckEffect, TreeKept DEF Seal, Unseal, Publish
  <1>5. CASE MakeStaging(r)
    BY <1>0, <1>5, GotoEffect, TreeKept DEF MakeStaging, Publish
  <1>6. CASE Acknowledge(r)
    BY <1>0, <1>6, GotoEffect, TreeKept DEF Acknowledge, Publish
  <1>7. CASE MakeRuntime(r) \/ RemoveRuntime(r) \/ WriteReport(r) \/ WriteChecksums(r)
    <2>1. place[r] = "staging" /\ UNCHANGED where
      BY <1>7 DEF PlaceInv, Elsewhere, Ended, MakeRuntime, RemoveRuntime, WriteReport, WriteChecksums
    <2>2. CASE MakeRuntime(r) \/ RemoveRuntime(r)
      BY <1>00, <2>1, <2>2, GotoEffect, PutEffect, TreePut DEF MakeRuntime, RemoveRuntime, Entries, Parts
    <2>3. CASE WriteReport(r) \/ WriteChecksums(r)
      BY <1>00, <2>1, <2>3, GotoEffect, PutEffect, TreePut DEF WriteReport, WriteChecksums, Entries, Parts
    <2> QED
      BY <1>7, <2>2, <2>3
  <1>8. CASE CheckSigned(r) \/ CheckOta(r) \/ RunImg(r) \/ CheckImg(r)
    <2>1. place[r] = "staging" /\ UNCHANGED where
      BY <1>8 DEF PlaceInv, Elsewhere, Ended, CheckSigned, CheckOta, RunImg, CheckImg
    <2> QED
      BY <1>00, <1>8, <2>1, GotoEffect, PutEffect, TreePut DEF CheckSigned, CheckOta, RunImg, CheckImg, Entries, Parts
  <1>9. CASE RunOta(r) \/ ExportBundle(r)
    <2>1. place[r] = "staging" /\ UNCHANGED where
      BY <1>9 DEF PlaceInv, Elsewhere, Ended, RunOta, ExportBundle
    <2> QED
      BY <1>00, <1>9, <2>1, RecheckEffect, PutEffect, TreePut DEF RunOta, ExportBundle, Entries, Parts
  <1>10. CASE HelperRevalidates(r)
    <2>1. place[r] = "staging" /\ UNCHANGED where
      BY <1>10 DEF PlaceInv, Elsewhere, Ended, HelperRevalidates
    <2>2. CASE ~Unchanged(r, "pem")
      BY <1>0, <1>10, <2>2, RaiseEffect, TreeKept DEF HelperRevalidates, Publish
    <2>3. CASE Unchanged(r, "pem")
      BY <1>10, <2>1, <2>3, RecheckEffect, PutEffect, TreePut DEF HelperRevalidates, Entries, Parts
    <2> QED
      BY <2>2, <2>3
  <1>11. CASE SyncStaging(r)
    <2>1. /\ pc[r] = "syncstaging" /\ pc'[r] = "publish" /\ UNCHANGED file
          /\ \A n \in Entries : onDisk'[r][n] = {file[r][n] # "none"}
      BY <1>11, GotoEffect DEF SyncStaging, TypeOK
    <2>2. file[r]["runtime"] = "none" /\ \A n \in Parts : file[r][n] = "synced"
      BY <1>00, <2>1 DEF TreeInv, Parts
    <2>3. Settled(r)'
      BY <2>1, <2>2 DEF Settled, Entries, Parts
    <2>4. \A n \in Parts : file'[r][n] = "synced"
      BY <2>1, <2>2
    <2> QED
      BY <2>1, <2>2, <2>3, <2>4 DEF TreeInv
  <1>12. CASE Publish(r)
    <2>1. pc[r] = "publish" /\ pc'[r] \in {"renamed", "unwind", "cleanup"} /\ UNCHANGED tree
      BY <1>12, GotoEffect, RaiseEffect DEF Publish
    <2>2. Settled(r)' /\ file'[r]["runtime"] = "none" /\ CompleteAt(pc'[r], file'[r])
      BY <1>00, <2>1 DEF TreeInv, Settled, tree
    <2>3. \A m \in Parts : pc'[r] \in CompleteFrom[m] => file'[r][m] = "synced"
      BY <2>2, CompleteIs
    <2> QED
      BY <2>1, <2>2, <2>3 DEF TreeInv
  <1>13. CASE Cleanup(r)
    <2>1. pc[r] = "cleanup" /\ pc'[r] \in {"failed", "stuck"}
      BY <1>13, CleanupEffect
    <2>2. pc'[r] = "failed" => file'[r]["runtime"] = "none"
      <3>1. CASE place[r] = "staging"
        BY <1>13, <3>1, CleanupEffect DEF Entries
      <3>2. CASE place[r] # "staging"
        <4>1. Settled(r) /\ UNCHANGED tree
          BY <1>13, <2>1, <3>2, CleanupEffect DEF PlaceInv, TypeOK, Places, TreeInv, Released
        <4> QED
          BY <4>1 DEF tree, Settled, Entries, Parts
      <3> QED
        BY <3>1, <3>2
    <2>3. place'[r] = "dest" => Settled(r)'
      <3>1. place'[r] = "dest" => place[r] = "dest"
        BY <1>0, <2>1 DEF Publish
      <3>2. place[r] = "dest" => Settled(r) /\ UNCHANGED tree
        BY <1>13, CleanupEffect DEF TreeInv, Released
      <3> QED
        BY <3>1, <3>2 DEF Settled, tree
    <2>4. "interrupt" \notin Faults => pc'[r] # "stuck"
      BY <1>13, CleanupEffect DEF SealInv
    <2>5. CompleteAt(pc'[r], file'[r])
      BY <2>1
    <2>6. \A m \in Parts : pc'[r] \in CompleteFrom[m] => file'[r][m] = "synced"
      BY <2>5, CompleteIs
    <2> QED
      BY <2>1, <2>2, <2>3, <2>4, <2>6 DEF TreeInv, Released
  <1> QED
    BY <1>1, <1>2, <1>3, <1>4, <1>5, <1>6, <1>7, <1>8, <1>9, <1>10, <1>11, <1>12, <1>13 DEF Step

-----------------------------------------------------------------------------
(* What the run has read.                                                  *)

\* Taking an input, or pinning one, is noted for one run and one input.
LEMMA UsedEffect ==
    ASSUME TypeOK, NEW r \in Runs, NEW i \in Inputs, NEW g, used' = [used EXCEPT ![r][i] = g]
    PROVE  used'[r][i] = g /\ \A j \in Inputs \ {i} : used'[r][j] = used[r][j]
  BY DEF TypeOK

\* The same for the generation that was opened.
LEMMA PinnedEffect ==
    ASSUME TypeOK, NEW r \in Runs, NEW i \in Inputs, NEW g, pinned' = [pinned EXCEPT ![r][i] = g]
    PROVE  pinned'[r][i] = g /\ \A j \in Inputs \ {i} : pinned'[r][j] = pinned[r][j]
  BY DEF TypeOK

\* What is compared and found unchanged was read at the generation it was opened at.
LEMMA HeldUnchanged ==
    ASSUME TypeOK, NEW r \in Runs, NEW i \in Inputs, Unchanged(r, i), NEW g \in Held(r, i)
    PROVE  g = pinned[r][i]
  BY SignGenAssumption DEF TypeOK, Held, Unchanged, Gens

\* The steps that take no generation of anything.
LEMMA NothingTaken ==
    ASSUME NEW r \in Runs, Step(r),
           ~OpenInput(r), ~CopyInput(r), ~PinHelper(r), ~Seal(r), ~ReadManifest(r), ~OpenPrivateKey(r),
           ~ExportPublicPem(r), ~HelperOpens(r), ~HelperSigns(r), ~ExportBundle(r)
    PROVE  UNCHANGED <<pinned, used, signer, instant>>
  BY DEF Step, MakeStaging, MakeRuntime, CheckInput, ValidateProvenance, CompareOriginal, CompareManifest,
         CheckPrivateKey, HelperRevalidates, CheckSigned, RunOta, CheckOta, RunImg, CheckImg, Unseal, RemoveRuntime,
         WriteReport, WriteChecksums, SyncStaging, Publish, Acknowledge, Unwind, Cleanup, reading

\* No step of a run changes the inputs.
LEMMA InputsStay == ASSUME NEW r \in Runs, Step(r) PROVE gen' = gen
  BY DEF Step, MakeStaging, MakeRuntime, OpenInput, CopyInput, CheckInput, ValidateProvenance, PinHelper, Seal,
         CompareOriginal, ReadManifest, CompareManifest, OpenPrivateKey, ExportPublicPem, CheckPrivateKey, HelperOpens,
         HelperSigns, HelperRevalidates, CheckSigned, RunOta, CheckOta, RunImg, CheckImg, ExportBundle, Unseal,
         RemoveRuntime, WriteReport, WriteChecksums, SyncStaging, Publish, Acknowledge, Unwind, Cleanup

\* What run r has read through its descriptors, after a step of its own.
LEMMA StepHeld == ASSUME TypeOK, NEW r \in Runs, HeldInv(r), Step(r) PROVE HeldInv(r)'
  <1>0. gen' = gen
    BY InputsStay
  <1>00. \A i \in Inputs : gen[i] \in Nat /\ gen[i] <= gen[i] /\ pinned[r][i] \in Nat
    BY SignGenAssumption DEF TypeOK, Gens
  <1> USE DEF FromSigned, FromCheckSigned, FromRunOta, FromRunImg, FromExport, FromExported, FromUnsealed,
              FromRmRuntime, FromReport, FromSums, FromSyncStaging, FromPublish
  <1>1. CASE OpenInput(r) \/ PinHelper(r) \/ OpenPrivateKey(r)
    <2>1. PICK i \in Inputs : pinned' = [pinned EXCEPT ![r][i] = gen[i]]
      BY <1>1, KeysAreInputs DEF TypeOK, OpenInput, PinHelper, OpenPrivateKey
    <2>2. \A j \in Inputs : pinned'[r][j] <= gen[j]
      BY <1>00, <2>1, PinnedEffect DEF HeldInv
    <2>3. pc'[r] \in {"copy", "open", "exportpem"} /\ UNCHANGED instant
      BY <1>1, GotoEffect DEF OpenInput, PinHelper, OpenPrivateKey
    <2> QED
      BY <1>0, <2>2, <2>3 DEF HeldInv
  <1>2. CASE CopyInput(r)
    <2>1. PICK g \in Held(r, cur[r]) : used' = [used EXCEPT ![r][cur[r]] = g]
      BY <1>2 DEF CopyInput
    <2>2. cur[r] \in Inputs
      BY DEF TypeOK
    <2>4. used'[r][cur[r]] = g
      BY ONLY TypeOK, <2>1, <2>2 DEF TypeOK
    <2>5. Goto(r, "check") /\ UNCHANGED <<cur, pinned, instant>>
      BY <1>2 DEF CopyInput
    <2>6. used'[r][cur[r]] \in Held(r, cur[r])
      BY <2>1, <2>4
    <2>3. pc'[r] = "check" /\ UNCHANGED <<cur, pinned, instant>> /\ used'[r][cur[r]] \in Held(r, cur[r])
      BY <2>5, <2>6, GotoEffect
    <2> QED
      BY <1>0, <2>3 DEF HeldInv, Held
  <1>3. CASE Seal(r)
    <2>1. pc'[r] = "sealed" /\ instant'[r] = gen /\ UNCHANGED pinned
      BY <1>3, RecheckEffect DEF Seal, TypeOK
    <2> QED
      BY <1>0, <1>00, <2>1 DEF HeldInv
  <1>4. CASE ReadManifest(r)
    BY <1>0, <1>4, GotoEffect DEF ReadManifest, HeldInv
  <1>5. CASE ExportPublicPem(r)
    <2>1. PICK g \in Held(r, "pem") : used' = [used EXCEPT ![r]["pem"] = g]
      BY <1>5 DEF ExportPublicPem
    <2>3. used'[r]["pem"] = g
      BY <2>1, KeysAreInputs, UsedEffect
    <2>2. pc'[r] = "checkpem" /\ UNCHANGED <<pinned, instant>> /\ used'[r]["pem"] \in Held(r, "pem")
      BY <1>5, <2>3, GotoEffect DEF ExportPublicPem
    <2> QED
      BY <1>0, <2>2 DEF HeldInv, Held
  <1>6. CASE HelperOpens(r)
    <2>1. PICK g \in Held(r, "helper") : used' = [used EXCEPT ![r]["helper"] = g]
      BY <1>6 DEF HelperOpens
    <2>4. used'[r]["helper"] = g
      BY <2>1, KeysAreInputs, UsedEffect
    <2>2. UNCHANGED <<pinned, instant>> /\ used'[r]["helper"] \in Held(r, "helper")
      BY <1>6, <2>4 DEF HelperOpens
    <2>3. pc'[r] \in {"helpersign", "unwind", "cleanup"}
      BY <1>6, GotoEffect, RaiseEffect DEF HelperOpens
    <2> QED
      BY <1>0, <2>2, <2>3 DEF HeldInv, Held
  <1>7. CASE HelperSigns(r)
    <2>1. pc[r] = "helpersign" /\ pc'[r] = "helpercheck" /\ UNCHANGED <<pinned, used, instant>>
      BY <1>7, GotoEffect DEF HelperSigns
    <2>2. signer'[r] \in Held(r, "pem")
      BY <1>7 DEF HelperSigns, TypeOK
    <2> QED
      BY <1>0, <2>1, <2>2 DEF HeldInv, Held
  <1>8. CASE ExportBundle(r)
    <2>1. pc[r] = "export" /\ pc'[r] = "exported" /\ UNCHANGED <<pinned, instant>>
      BY <1>8, RecheckEffect DEF ExportBundle
    <2>2. used'[r]["helper"] = used[r]["helper"]
      BY <1>8, KeysAreInputs, UsedEffect DEF ExportBundle
    <2> QED
      BY <1>0, <2>1, <2>2 DEF HeldInv, Held
  <1>9. CASE ~(OpenInput(r) \/ CopyInput(r) \/ PinHelper(r) \/ Seal(r) \/ ReadManifest(r) \/ OpenPrivateKey(r)
               \/ ExportPublicPem(r) \/ HelperOpens(r) \/ HelperSigns(r) \/ ExportBundle(r))
    <2>1. UNCHANGED <<pinned, used, signer, instant>>
      BY <1>9, NothingTaken
    <2>2. /\ pc'[r] \notin {"check", "checkpem", "helpercheck"}
          /\ pc'[r] \in {"helpersign", "helpercheck"} \cup FromSigned => pc[r] \in {"helpersign", "helpercheck"} \cup FromSigned
      <3>1. CASE MakeStaging(r) \/ MakeRuntime(r) \/ Unseal(r) \/ RunOta(r) \/ Unwind(r) \/ Cleanup(r)
        BY <3>1, GotoEffect, RecheckEffect, CleanupEffect DEF MakeStaging, MakeRuntime, Unseal, RunOta, Unwind
      <3>2. CASE CheckInput(r) \/ ValidateProvenance(r) \/ CompareManifest(r) \/ CheckPrivateKey(r) \/ HelperRevalidates(r)
        BY <3>2, GotoEffect, RaiseEffect, RecheckEffect DEF CheckInput, ValidateProvenance, CompareManifest, CheckPrivateKey, HelperRevalidates
      <3>3. CASE CompareOriginal(r)
        BY <3>3, GotoEffect, RaiseEffect, RoundsAre DEF CompareOriginal
      <3>4. CASE CheckSigned(r) \/ CheckOta(r) \/ RunImg(r) \/ CheckImg(r)
        BY <3>4, GotoEffect DEF CheckSigned, CheckOta, RunImg, CheckImg
      <3>5. CASE RemoveRuntime(r) \/ WriteReport(r) \/ WriteChecksums(r) \/ SyncStaging(r)
        BY <3>5, GotoEffect DEF RemoveRuntime, WriteReport, WriteChecksums, SyncStaging
      <3>6. CASE Publish(r) \/ Acknowledge(r)
        BY <3>6, GotoEffect, RaiseEffect DEF Publish, Acknowledge
      <3> QED
        BY <1>9, <3>1, <3>2, <3>3, <3>4, <3>5, <3>6 DEF Step
    <2> QED
      BY <1>0, <2>1, <2>2 DEF HeldInv, Held
  <1> QED
    BY <1>1, <1>2, <1>3, <1>4, <1>5, <1>6, <1>7, <1>8, <1>9

-----------------------------------------------------------------------------
(* What the run has compared.                                              *)

\* An abandoned run has nothing to answer for: its directory never gets the name.
LEMMA Abandoned ==
    ASSUME NEW r \in Runs, pc'[r] \in {"unwind", "cleanup"}, place'[r] # "dest"
    PROVE  CopyInv(r)' /\ InstantInv(r)' /\ AcceptInv(r)'
  <1> USE DEF Past, AtKeys, Reading, FromSeal, FromSealed, FromManifest, FromOpenPem, FromHelperOpen, FromSigned,
              FromCheckSigned, FromRunOta, FromRunImg, FromExport, FromExported, FromUnsealed, FromRmRuntime,
              FromReport, FromSums, FromSyncStaging, FromPublish
  <1>1. CopyInv(r)'
    BY DEF CopyInv
  <1>2. InstantInv(r)'
    BY RoundsAre DEF InstantInv
  <1>3. AcceptInv(r)'
    BY DEF AcceptInv
  <1> QED
    BY <1>1, <1>2, <1>3

\* The steps that neither read nor compare an input.
Quiet(r) == \/ MakeStaging(r) \/ CheckSigned(r) \/ CheckOta(r) \/ RunImg(r) \/ CheckImg(r)
            \/ RemoveRuntime(r) \/ WriteReport(r) \/ WriteChecksums(r) \/ SyncStaging(r)
            \/ Publish(r) \/ Acknowledge(r) \/ Unwind(r) \/ Cleanup(r)

\* A step past something starts past it: no quiet step skips a step of sign_release.
LEMMA QuietEffect ==
    ASSUME TypeOK, NEW r \in Runs, PlaceInv(r), Quiet(r)
    PROVE  /\ UNCHANGED <<gen, cur, todo, pinned, used, signer, instant>>
           /\ pc'[r] \notin DOMAIN Rechecks \cup {"open", "copy", "check", "provenance", "helper", "seal", "sealed"}
           /\ pc'[r] \in {"idle", "mkdtemp", "staged"} => pc[r] \in {"idle", "mkdtemp", "staged"}
           /\ \A steps \in {FromSealed, FromManifest, FromOpenPem, FromHelperOpen, FromSigned, FromCheckSigned, FromRmRuntime} :
                Past(r, steps)' => Past(r, steps)
  <1> USE DEF FromSealed, FromManifest, FromOpenPem, FromHelperOpen, FromSigned,
              FromCheckSigned, FromRunOta, FromRunImg, FromExport, FromExported, FromUnsealed, FromRmRuntime,
              FromReport, FromSums, FromSyncStaging, FromPublish
  <1>1. CASE CheckSigned(r) \/ CheckOta(r) \/ RunImg(r) \/ CheckImg(r)
    BY <1>1, GotoEffect, RoundsAre DEF CheckSigned, CheckOta, RunImg, CheckImg, reading, where, Past
  <1>2. CASE RemoveRuntime(r) \/ WriteReport(r) \/ WriteChecksums(r) \/ SyncStaging(r) \/ Unwind(r)
    BY <1>2, GotoEffect, RoundsAre DEF RemoveRuntime, WriteReport, WriteChecksums, SyncStaging, Unwind, reading, where, Past
  <1>3. CASE MakeStaging(r) \/ Acknowledge(r)
    BY <1>3, GotoEffect, MoveToEffect, RoundsAre DEF MakeStaging, Acknowledge, reading, Past
  <1>4. CASE Publish(r)
    <2>1. pc[r] = "publish" /\ pc'[r] \in {"renamed", "unwind", "cleanup"}
      BY <1>4, GotoEffect, RaiseEffect DEF Publish
    <2>2. UNCHANGED <<gen, cur, todo, pinned, used, signer, instant>>
      BY <1>4 DEF Publish, reading
    <2> QED
      BY <2>1, <2>2, RoundsAre DEF Past
  <1>5. CASE Cleanup(r)
    <2>1. pc[r] = "cleanup" /\ pc'[r] \in {"failed", "stuck"} /\ (place'[r] = "dest" => place[r] = "dest")
      BY <1>5, CleanupEffect DEF where
    <2>2. UNCHANGED <<gen, cur, todo, pinned, used, signer, instant>>
      BY <1>5 DEF Cleanup, reading
    <2> QED
      BY <2>1, <2>2, RoundsAre DEF Past
  <1> QED
    BY <1>1, <1>2, <1>3, <1>4, <1>5 DEF Quiet

\* A quiet step keeps what was read and compared.
LEMMA QuietKeeps ==
    ASSUME TypeOK, NEW r \in Runs, PlaceInv(r), CopyInv(r), InstantInv(r), AcceptInv(r), Quiet(r)
    PROVE  CopyInv(r)' /\ InstantInv(r)' /\ AcceptInv(r)'
  <1>0. /\ UNCHANGED <<gen, cur, todo, pinned, used, signer, instant>>
        /\ pc'[r] \notin DOMAIN Rechecks \cup {"open", "copy", "check", "provenance", "helper", "seal", "sealed"}
        /\ pc'[r] \in {"idle", "mkdtemp", "staged"} => pc[r] \in {"idle", "mkdtemp", "staged"}
        /\ Past(r, FromSealed)' => Past(r, FromSealed)
        /\ Past(r, FromManifest)' => Past(r, FromManifest)
        /\ Past(r, FromOpenPem)' => Past(r, FromOpenPem)
        /\ Past(r, FromHelperOpen)' => Past(r, FromHelperOpen)
        /\ Past(r, FromSigned)' => Past(r, FromSigned)
        /\ Past(r, FromCheckSigned)' => Past(r, FromCheckSigned)
        /\ Past(r, FromRmRuntime)' => Past(r, FromRmRuntime)
    BY QuietEffect
  <1>1. CopyInv(r)'
    <2>1. ~Reading(r)' /\ ~AtKeys(r)'
      BY <1>0 DEF Reading, AtKeys
    <2>2. Past(r, FromSeal)' \/ Past(r, {"provenance", "helper"} \cup FromSeal)' => Past(r, FromSealed)
      BY <1>0 DEF Past, FromSeal
    <2>3. Past(r, FromSealed) => Past(r, FromSeal) /\ Past(r, {"provenance", "helper"} \cup FromSeal)
      BY DEF Past, FromSeal
    <2> QED
      BY <1>0, <2>1, <2>2, <2>3 DEF CopyInv
  <1>2. InstantInv(r)'
    BY <1>0 DEF InstantInv, AtInstant
  <1>3. AcceptInv(r)'
    <2>1. ~AtKeys(r)'
      BY <1>0 DEF Reading, AtKeys
    <2>2. Past(r, {"helper"} \cup FromSeal)' => Past(r, FromSealed)
      BY <1>0 DEF Past, FromSeal
    <2>3. Past(r, FromSealed) => Past(r, {"helper"} \cup FromSeal)
      BY DEF Past, FromSeal
    <2> QED
      BY <1>0, <2>1, <2>2, <2>3 DEF AcceptInv
  <1> QED
    BY <1>1, <1>2, <1>3

\* Every step that is not quiet is taken in staging.
LEMMA LoudInStaging ==
    ASSUME TypeOK, NEW r \in Runs, PlaceInv(r), Step(r), ~Quiet(r)
    PROVE  place[r] = "staging" /\ place'[r] = "staging" /\ pc[r] \notin Elsewhere
  <1>1. UNCHANGED where /\ pc[r] \notin Elsewhere
    BY StepInStaging DEF Quiet
  <1> QED
    BY <1>1 DEF PlaceInv, where

\* What run r has compared with what it opened, after a step of its own.
LEMMA StepCopy ==
    ASSUME TypeOK, NEW r \in Runs, PlaceInv(r), HeldInv(r), CopyInv(r), Step(r), ~Quiet(r)
    PROVE  CopyInv(r)'
  <1>0. place[r] = "staging" /\ place'[r] = "staging"
    BY LoudInStaging
  <1>00. pc'[r] \in {"unwind", "cleanup"} => CopyInv(r)'
    BY <1>0, Abandoned
  <1> USE DEF Past, AtKeys, Reading, FromSeal, FromSealed, FromManifest, FromOpenPem, FromHelperOpen, FromSigned,
              FromCheckSigned, FromRunOta, FromRunImg, FromExport, FromExported, FromUnsealed, FromRmRuntime,
              FromReport, FromSums, FromSyncStaging, FromPublish
  <1>1. CASE MakeRuntime(r)
    <2>1. pc[r] = "staged" /\ pc'[r] = "open" /\ UNCHANGED cur
      BY <1>1, GotoEffect DEF MakeRuntime, reading
    <2> QED
      BY <1>0, <2>1, KeysAreInputs DEF CopyInv
  <1>2. CASE OpenInput(r)
    <2>1. /\ pc[r] = "open" /\ pc'[r] = "copy" /\ UNCHANGED <<cur, todo, used>>
          /\ \A j \in Inputs \ {cur[r]} : pinned'[r][j] = pinned[r][j]
      BY <1>2, GotoEffect, PinnedEffect DEF OpenInput, TypeOK
    <2> QED
      BY <1>0, <2>1, KeysAreInputs DEF CopyInv
  <1>3. CASE CopyInput(r)
    <2>1. /\ pc[r] = "copy" /\ pc'[r] = "check" /\ UNCHANGED <<cur, todo, pinned>>
          /\ \A j \in Inputs \ {cur[r]} : used'[r][j] = used[r][j]
      BY <1>3, GotoEffect, UsedEffect DEF CopyInput, TypeOK
    <2> QED
      BY <1>0, <2>1, KeysAreInputs DEF CopyInv
  <1>4. CASE CheckInput(r)
    <2>1. pc[r] = "check" /\ UNCHANGED <<pinned, used>>
      BY <1>4 DEF CheckInput
    <2>2. CASE ~Unchanged(r, cur[r])
      BY <1>00, <1>4, <2>2, RaiseEffect DEF CheckInput
    <2>3. Unchanged(r, cur[r]) => used[r][cur[r]] = pinned[r][cur[r]]
      BY <2>1, HeldUnchanged DEF HeldInv, TypeOK
    <2>4. CASE Unchanged(r, cur[r]) /\ cur[r] = "provenance"
      <3>1. pc'[r] = "open" /\ cur'[r] = "target"
        BY <1>4, <2>4, GotoEffect, KeysAreInputs DEF CheckInput, TypeOK
      <3> QED
        BY <1>0, <2>1, <2>3, <2>4, <3>1, KeysAreInputs DEF CopyInv
    <2>5. CASE Unchanged(r, cur[r]) /\ cur[r] = "target"
      <3>1. pc'[r] = "provenance"
        BY <1>4, <2>5, GotoEffect, KeysAreInputs DEF CheckInput
      <3> QED
        BY <1>0, <2>1, <2>3, <2>5, <3>1, KeysAreInputs DEF CopyInv
    <2>6. CASE Unchanged(r, cur[r]) /\ cur[r] \in Containers
      <3>1. todo'[r] = todo[r] \ {cur[r]}
        BY <1>4, <2>6, KeysAreInputs DEF CheckInput, TypeOK
      <3>2. \/ todo'[r] = {} /\ pc'[r] = "seal"
            \/ \E i \in todo'[r] : cur'[r] = i /\ pc'[r] = "open"
        BY <1>4, <2>6, GotoEffect, KeysAreInputs DEF CheckInput, TypeOK
      <3>3. \A i \in Containers \ todo'[r] : used[r][i] = pinned[r][i]
        BY <2>1, <2>3, <2>6, <3>1 DEF CopyInv
      <3>4. /\ used[r]["provenance"] = pinned[r]["provenance"]
            /\ used[r]["target"] = pinned[r]["target"]
            /\ todo[r] \subseteq Containers
        BY <2>1, <2>6, KeysAreInputs DEF CopyInv
      <3> QED
        BY <1>0, <2>1, <3>1, <3>2, <3>3, <3>4, KeysAreInputs DEF CopyInv
    <2> QED
      BY <2>1, <2>2, <2>4, <2>5, <2>6 DEF CopyInv
  <1>5. CASE ValidateProvenance(r) \/ CompareManifest(r) \/ CheckPrivateKey(r)
    <2>1. /\ UNCHANGED <<pinned, used>>
          /\ \/ pc'[r] \in {"unwind", "cleanup"}
             \/ pc[r] = "provenance" /\ pc'[r] = "helper"
             \/ pc[r] = "compare" /\ pc'[r] = "openpem"
             \/ pc[r] = "checkpem" /\ pc'[r] = "helperopen"
      BY <1>5, GotoEffect, RaiseEffect DEF ValidateProvenance, CompareManifest, CheckPrivateKey, reading
    <2> QED
      BY <1>0, <1>00, <2>1 DEF CopyInv
  <1>6. CASE PinHelper(r)
    <2>1. /\ pc[r] = "helper" /\ pc'[r] = "open" /\ UNCHANGED used
          /\ \A j \in Inputs \ {"helper"} : pinned'[r][j] = pinned[r][j]
      BY <1>6, GotoEffect, PinnedEffect, KeysAreInputs DEF PinHelper
    <2>2. cur'[r] \in Containers /\ todo'[r] = Containers
      BY <1>6 DEF PinHelper, TypeOK
    <2> QED
      BY <1>0, <2>1, <2>2, KeysAreInputs DEF CopyInv
  <1>7. CASE Seal(r) \/ Unseal(r) \/ RunOta(r)
    BY <1>0, <1>7, RecheckEffect DEF Seal, Unseal, RunOta, CopyInv
  <1>8. CASE CompareOriginal(r)
    BY <1>0, <1>00, <1>8, GotoEffect, RaiseEffect, RoundsAre DEF CompareOriginal, CopyInv
  <1>9. CASE ReadManifest(r) \/ ExportPublicPem(r) \/ HelperOpens(r) \/ ExportBundle(r)
    <2>1. /\ UNCHANGED pinned
          /\ \A j \in {"provenance", "target"} \cup Containers : used'[r][j] = used[r][j]
      <3>1. \E i \in {"manifest", "pem", "helper", "avbpub"} : \E g : used' = [used EXCEPT ![r][i] = g]
        BY <1>9 DEF ReadManifest, ExportPublicPem, HelperOpens, ExportBundle
      <3> QED
        BY <1>9, <3>1, UsedEffect, KeysAreInputs DEF ReadManifest, ExportPublicPem, HelperOpens, ExportBundle
    <2>2. /\ pc[r] \in FromSealed
          /\ pc'[r] \in {"compare", "checkpem", "helpersign", "exported", "unwind", "cleanup"}
      BY <1>9, GotoEffect, RaiseEffect, RecheckEffect DEF ReadManifest, ExportPublicPem, HelperOpens, ExportBundle
    <2> QED
      BY <1>0, <1>00, <2>1, <2>2 DEF CopyInv
  <1>10. CASE OpenPrivateKey(r)
    <2>1. /\ pc[r] = "openpem" /\ pc'[r] = "exportpem" /\ UNCHANGED used
          /\ \A j \in Inputs \ {"pem"} : pinned'[r][j] = pinned[r][j]
      BY <1>10, GotoEffect, PinnedEffect, KeysAreInputs DEF OpenPrivateKey
    <2> QED
      BY <1>0, <2>1, KeysAreInputs DEF CopyInv
  <1>11. CASE HelperSigns(r) \/ HelperRevalidates(r)
    <2>1. /\ UNCHANGED <<pinned, used>> /\ pc[r] \in FromHelperOpen
          /\ pc'[r] \in {"helpercheck", "signed", "unwind", "cleanup"}
      BY <1>11, GotoEffect, RaiseEffect, RecheckEffect DEF HelperSigns, HelperRevalidates
    <2> QED
      BY <1>0, <1>00, <2>1 DEF CopyInv
  <1> QED
    BY <1>1, <1>2, <1>3, <1>4, <1>5, <1>6, <1>7, <1>8, <1>9, <1>10, <1>11 DEF Step, Quiet

\* A comparison that finds the original unchanged dates what was taken: the file
\* at the path has been the same from before the last pin until now.
LEMMA UnchangedAtInstant ==
    ASSUME TypeOK, NEW r \in Runs, HeldInv(r), NEW i \in Inputs, Unchanged(r, i),
           used[r][i] \in Held(r, i), pinned[r][i] <= instant[r][i]
    PROVE  AtInstant(r, i)
  <1>1. used[r][i] = pinned[r][i]
    BY HeldUnchanged
  <1>2. gen[i] \in Nat /\ pinned[r][i] \in Nat /\ instant[r][i] \in Nat
    BY SignGenAssumption DEF TypeOK, Gens
  <1> QED
    BY <1>1, <1>2 DEF HeldInv, Unchanged, AtInstant

\* What the moment of the last pin says, after a step of run r.
LEMMA StepInstant ==
    ASSUME TypeOK, NEW r \in Runs, PlaceInv(r), HeldInv(r), CopyInv(r), InstantInv(r), Step(r), ~Quiet(r)
    PROVE  InstantInv(r)'
  <1>0. place[r] = "staging" /\ place'[r] = "staging"
    BY LoudInStaging
  <1>00. pc'[r] \in {"unwind", "cleanup"} => InstantInv(r)'
    BY <1>0, Abandoned
  <1> USE DEF Past, FromSealed, FromManifest, FromOpenPem, FromHelperOpen, FromSigned,
              FromCheckSigned, FromRunOta, FromRunImg, FromExport, FromExported, FromUnsealed, FromRmRuntime,
              FromReport, FromSums, FromSyncStaging, FromPublish
  <1>1. CASE MakeRuntime(r) \/ OpenInput(r) \/ CopyInput(r) \/ CheckInput(r) \/ ValidateProvenance(r) \/ PinHelper(r)
    <2>1. pc'[r] \in {"open", "copy", "check", "provenance", "helper", "seal", "unwind", "cleanup"}
      BY <1>1, GotoEffect, RaiseEffect DEF MakeRuntime, OpenInput, CopyInput, CheckInput, ValidateProvenance, PinHelper
    <2> QED
      BY <1>0, <2>1, RoundsAre DEF InstantInv
  <1>2. CASE Seal(r)
    <2>1. pc'[r] = "sealed" /\ instant'[r] = gen /\ todo'[r] = Containers /\ UNCHANGED pinned
      BY <1>2, RecheckEffect, RoundsAre DEF Seal, TypeOK
    <2>2. \A i \in Pinned : pinned[r][i] <= gen[i]
      BY DEF HeldInv, Pinned, Inputs, Singles
    <2> QED
      BY <1>0, <2>1, <2>2, RoundsAre DEF InstantInv
  <1>3. CASE CompareOriginal(r)
    <2>1. /\ pc[r] \in DOMAIN Rechecks
          /\ UNCHANGED <<gen, pinned, used, instant>>
      BY <1>3 DEF CompareOriginal
    <2>2. PICK i \in todo[r] :
            /\ todo' = [todo EXCEPT ![r] = @ \ {i}]
            /\ \/ ~Unchanged(r, i) /\ Raise(r)
               \/ Unchanged(r, i) /\ todo[r] # {i} /\ UNCHANGED pc
               \/ Unchanged(r, i) /\ todo[r] = {i} /\ Goto(r, FollowedBy[pc[r]])
      BY <1>3 DEF CompareOriginal
    <2>3. todo'[r] = todo[r] \ {i} /\ i \in Inputs
      BY <2>2 DEF TypeOK
    <2>4. CASE ~Unchanged(r, i)
      BY <1>00, <2>2, <2>4, RaiseEffect
    <2>5. CASE Unchanged(r, i)
      <3>1. i \in Rechecks[pc[r]] => AtInstant(r, i)
        <4>1. ASSUME i \in Rechecks[pc[r]] PROVE i \in Pinned /\ used[r][i] \in Held(r, i)
          <5>1. i \in {"provenance", "target"} \cup Containers \/ (i = "helper" /\ pc[r] \in FromSigned)
            BY <2>1, <4>1, RoundsAre DEF Rechecked
          <5>2. CASE i = "helper" /\ pc[r] \in FromSigned
            BY <5>2 DEF HeldInv, Pinned
          <5>3. CASE i \in {"provenance", "target"} \cup Containers
            <6>1. used[r][i] = pinned[r][i]
              BY <2>1, <5>3, RoundsAre DEF CopyInv, FromSeal
            <6>2. pinned[r][i] \in Nat /\ gen[i] \in Nat /\ pinned[r][i] <= gen[i]
              BY <2>3, SignGenAssumption DEF TypeOK, Gens, HeldInv
            <6> QED
              BY <5>3, <6>1, <6>2 DEF Held, Pinned
          <5> QED
            BY <5>1, <5>2, <5>3
        <4>2. \A j \in Pinned : pinned[r][j] <= instant[r][j]
          BY <2>1, RoundsAre DEF InstantInv
        <4> QED
          BY <2>3, <2>5, <4>1, <4>2, UnchangedAtInstant
      <3>2. \A j \in Rechecks[pc[r]] \ todo'[r] : AtInstant(r, j)
        BY <2>1, <2>3, <3>1 DEF InstantInv
      <3>3. \A j : AtInstant(r, j)' <=> AtInstant(r, j)
        BY <2>1 DEF AtInstant
      <3>4. CASE todo[r] # {i}
        BY <1>0, <2>1, <2>2, <2>5, <3>2, <3>3, <3>4 DEF InstantInv
      <3>5. CASE todo[r] = {i}
        <4>1. pc'[r] = FollowedBy[pc[r]] /\ \A j \in Rechecks[pc[r]] : AtInstant(r, j)
          BY <2>2, <2>3, <2>5, <3>2, <3>5, GotoEffect
        <4> QED
          BY <1>0, <2>1, <3>3, <4>1, RoundsAre DEF InstantInv, Rechecked
      <3> QED
        BY <3>4, <3>5
    <2> QED
      BY <2>4, <2>5
  <1>4. CASE ReadManifest(r) \/ ExportPublicPem(r) \/ HelperOpens(r)
    <2>1. /\ UNCHANGED <<pinned, instant>>
          /\ \A j \in Containers : used'[r][j] = used[r][j]
      <3>1. \E i \in {"manifest", "pem", "helper"} : \E g : used' = [used EXCEPT ![r][i] = g]
        BY <1>4 DEF ReadManifest, ExportPublicPem, HelperOpens
      <3> QED
        BY <1>4, <3>1, UsedEffect, KeysAreInputs DEF ReadManifest, ExportPublicPem, HelperOpens
    <2>2. pc[r] \in {"manifest", "exportpem", "helperopen"} /\ pc'[r] \in {"compare", "checkpem", "helpersign", "unwind", "cleanup"}
      BY <1>4, GotoEffect, RaiseEffect DEF ReadManifest, ExportPublicPem, HelperOpens
    <2> QED
      BY <1>0, <1>00, <2>1, <2>2, RoundsAre DEF InstantInv, AtInstant
  <1>5. CASE CompareManifest(r) \/ CheckPrivateKey(r) \/ HelperSigns(r)
    <2>1. /\ UNCHANGED <<pinned, used, instant>>
          /\ pc[r] \in {"compare", "checkpem", "helpersign"} /\ pc'[r] \in {"openpem", "helperopen", "helpercheck", "unwind", "cleanup"}
      BY <1>5, GotoEffect, RaiseEffect DEF CompareManifest, CheckPrivateKey, HelperSigns, reading
    <2> QED
      BY <1>0, <1>00, <2>1, RoundsAre DEF InstantInv, AtInstant
  <1>6. CASE OpenPrivateKey(r)
    <2>1. /\ pc[r] = "openpem" /\ pc'[r] = "exportpem" /\ UNCHANGED <<used, instant>>
          /\ \A j \in Pinned : pinned'[r][j] = pinned[r][j]
      BY <1>6, GotoEffect, PinnedEffect, KeysAreInputs DEF OpenPrivateKey, Pinned, Inputs, Singles
    <2> QED
      BY <1>0, <2>1, RoundsAre DEF InstantInv, AtInstant
  <1>7. CASE HelperRevalidates(r) \/ RunOta(r) \/ ExportBundle(r) \/ Unseal(r)
    <2>1. /\ UNCHANGED <<pinned, instant>>
          /\ \A j \in {"provenance", "target", "helper"} \cup Containers : used'[r][j] = used[r][j]
      BY <1>7, UsedEffect, KeysAreInputs DEF HelperRevalidates, RunOta, ExportBundle, Unseal
    <2>2. \/ pc'[r] \in {"unwind", "cleanup"}
          \/ /\ pc'[r] \in DOMAIN Rechecks /\ todo'[r] = Rechecks[pc'[r]]
             /\ \/ pc[r] = "helpercheck" /\ pc'[r] = "signed"
                \/ pc[r] = "runota" /\ pc'[r] = "otaed"
                \/ pc[r] = "export" /\ pc'[r] = "exported"
                \/ pc[r] = "unseal" /\ pc'[r] = "unsealed"
      BY <1>7, RaiseEffect, RecheckEffect, RoundsAre DEF HelperRevalidates, RunOta, ExportBundle, Unseal
    <2> QED
      BY <1>0, <1>00, <2>1, <2>2, RoundsAre DEF InstantInv, AtInstant
  <1> QED
    BY <1>1, <1>2, <1>3, <1>4, <1>5, <1>6, <1>7 DEF Step, Quiet

\* What was compared with what, after a step of run r.
LEMMA StepAccept ==
    ASSUME TypeOK, NEW r \in Runs, PlaceInv(r), HeldInv(r), CopyInv(r), AcceptInv(r), Step(r), ~Quiet(r)
    PROVE  AcceptInv(r)'
  <1>0. place[r] = "staging" /\ place'[r] = "staging"
    BY LoudInStaging
  <1>00. pc'[r] \in {"unwind", "cleanup"} => AcceptInv(r)'
    BY <1>0, Abandoned
  <1> USE DEF Past, AtKeys, Reading, FromSeal, FromSealed, FromManifest, FromOpenPem, FromHelperOpen, FromSigned,
              FromCheckSigned, FromRunOta, FromRunImg, FromExport, FromExported, FromUnsealed, FromRmRuntime,
              FromReport, FromSums, FromSyncStaging, FromPublish
  <1>1. CASE MakeRuntime(r)
    <2>1. pc[r] = "staged" /\ pc'[r] = "open" /\ UNCHANGED cur
      BY <1>1, GotoEffect DEF MakeRuntime, reading
    <2> QED
      BY <1>0, <2>1, KeysAreInputs DEF AcceptInv, CopyInv
  <1>2. CASE OpenInput(r)
    <2>1. pc[r] = "open" /\ pc'[r] = "copy" /\ UNCHANGED <<cur, used>>
      BY <1>2, GotoEffect DEF OpenInput
    <2> QED
      BY <1>0, <2>1 DEF AcceptInv
  <1>3. CASE CopyInput(r)
    <2>1. /\ pc[r] = "copy" /\ pc'[r] = "check" /\ UNCHANGED cur
          /\ \A j \in Inputs \ {cur[r]} : used'[r][j] = used[r][j]
      BY <1>3, GotoEffect, UsedEffect DEF CopyInput, TypeOK
    <2> QED
      BY <1>0, <2>1, KeysAreInputs DEF AcceptInv
  <1>4. CASE CheckInput(r)
    <2>1. /\ pc[r] = "check" /\ UNCHANGED used
          /\ \/ pc'[r] \in {"provenance", "unwind", "cleanup"}
             \/ pc'[r] = "open" /\ cur'[r] = "target"
             \/ pc'[r] \in {"open", "seal"} /\ cur[r] \in Containers
      <3>1. cur[r] = "provenance" => cur[r] \notin Containers
        BY KeysAreInputs
      <3> QED
        BY <1>4, <3>1, GotoEffect, RaiseEffect, KeysAreInputs DEF CheckInput, TypeOK
    <2> QED
      BY <1>0, <1>00, <2>1, KeysAreInputs DEF AcceptInv
  <1>5. CASE ValidateProvenance(r)
    <2>1. /\ pc[r] = "provenance" /\ UNCHANGED used
          /\ \/ pc'[r] \in {"unwind", "cleanup"}
             \/ pc'[r] = "helper" /\ used[r]["provenance"] = used[r]["target"]
      BY <1>5, GotoEffect, RaiseEffect DEF ValidateProvenance, reading
    <2> QED
      BY <1>0, <1>00, <2>1 DEF AcceptInv
  <1>6. CASE PinHelper(r) \/ Seal(r)
    <2>1. pc[r] \in {"helper", "seal"} /\ pc'[r] \in {"open", "sealed"} /\ UNCHANGED used
      BY <1>6, GotoEffect, RecheckEffect DEF PinHelper, Seal
    <2> QED
      BY <1>0, <2>1 DEF AcceptInv
  <1>7. CASE CompareOriginal(r)
    <2>1. UNCHANGED <<pinned, used, signer>>
      BY <1>7 DEF CompareOriginal
    <2>2. \/ pc'[r] \in {"unwind", "cleanup"}
          \/ pc[r] \in DOMAIN Rechecks /\ pc'[r] = pc[r]
          \/ pc[r] = "sealed" /\ pc'[r] = "manifest"
          \/ pc[r] \in {"signed", "otaed", "exported", "unsealed"} /\ pc'[r] \in {"checksigned", "checkota", "unseal", "rmruntime"}
      BY <1>7, GotoEffect, RaiseEffect, RoundsAre DEF CompareOriginal
    <2> QED
      BY <1>0, <1>00, <2>1, <2>2, RoundsAre DEF AcceptInv
  <1>8. CASE ReadManifest(r)
    <2>1. /\ pc[r] = "manifest" /\ pc'[r] = "compare"
          /\ \A j \in Inputs \ {"manifest"} : used'[r][j] = used[r][j]
      BY <1>8, GotoEffect, UsedEffect, KeysAreInputs DEF ReadManifest
    <2> QED
      BY <1>0, <2>1, KeysAreInputs DEF AcceptInv
  <1>9. CASE CompareManifest(r)
    <2>1. /\ pc[r] = "compare" /\ UNCHANGED used
          /\ \/ pc'[r] \in {"unwind", "cleanup"}
             \/ pc'[r] = "openpem" /\ \A i \in Certificates : used[r][i] = used[r]["manifest"]
      BY <1>9, GotoEffect, RaiseEffect DEF CompareManifest, ManifestMatches, reading
    <2> QED
      BY <1>0, <1>00, <2>1 DEF AcceptInv
  <1>10. CASE OpenPrivateKey(r)
    <2>1. pc[r] = "openpem" /\ pc'[r] = "exportpem" /\ UNCHANGED used
      BY <1>10, GotoEffect DEF OpenPrivateKey
    <2> QED
      BY <1>0, <2>1 DEF AcceptInv
  <1>11. CASE ExportPublicPem(r)
    <2>1. /\ pc[r] = "exportpem" /\ pc'[r] = "checkpem"
          /\ \A j \in Inputs \ {"pem"} : used'[r][j] = used[r][j]
      BY <1>11, GotoEffect, UsedEffect, KeysAreInputs DEF ExportPublicPem
    <2> QED
      BY <1>0, <2>1, KeysAreInputs DEF AcceptInv
  <1>12. CASE CheckPrivateKey(r)
    <2>1. /\ pc[r] = "checkpem" /\ UNCHANGED <<pinned, used>>
          /\ \/ pc'[r] \in {"unwind", "cleanup"}
             \/ pc'[r] = "helperopen" /\ Unchanged(r, "pem")
      BY <1>12, GotoEffect, RaiseEffect DEF CheckPrivateKey, reading
    <2>2. Unchanged(r, "pem") => used[r]["pem"] = pinned[r]["pem"]
      BY <2>1, HeldUnchanged, KeysAreInputs DEF HeldInv
    <2> QED
      BY <1>0, <1>00, <2>1, <2>2 DEF AcceptInv
  <1>13. CASE HelperOpens(r)
    <2>1. /\ pc[r] = "helperopen" /\ pc'[r] \in {"helpersign", "unwind", "cleanup"} /\ UNCHANGED pinned
          /\ \A j \in Inputs \ {"helper"} : used'[r][j] = used[r][j]
      <3>1. \E g : used' = [used EXCEPT ![r]["helper"] = g]
        BY <1>13 DEF HelperOpens
      <3> QED
        BY <1>13, <3>1, GotoEffect, RaiseEffect, UsedEffect, KeysAreInputs DEF HelperOpens
    <2> QED
      BY <1>0, <1>00, <2>1, KeysAreInputs DEF AcceptInv
  <1>14. CASE HelperSigns(r)
    <2>1. pc[r] = "helpersign" /\ pc'[r] = "helpercheck" /\ UNCHANGED <<pinned, used>>
      BY <1>14, GotoEffect DEF HelperSigns
    <2> QED
      BY <1>0, <2>1 DEF AcceptInv
  <1>15. CASE HelperRevalidates(r)
    <2>1. /\ pc[r] = "helpercheck" /\ UNCHANGED <<pinned, used, signer>>
          /\ \/ pc'[r] \in {"unwind", "cleanup"}
             \/ pc'[r] = "signed" /\ Unchanged(r, "pem")
      BY <1>15, RecheckEffect, RaiseEffect DEF HelperRevalidates
    <2>2. Unchanged(r, "pem") => signer[r] = pinned[r]["pem"]
      BY <2>1, HeldUnchanged, KeysAreInputs DEF HeldInv
    <2> QED
      BY <1>0, <1>00, <2>1, <2>2 DEF AcceptInv
  <1>16. CASE RunOta(r) \/ ExportBundle(r) \/ Unseal(r)
    <2>1. /\ UNCHANGED <<pinned, signer>>
          /\ \A j \in Inputs \ {"avbpub"} : used'[r][j] = used[r][j]
      BY <1>16, UsedEffect, KeysAreInputs DEF RunOta, ExportBundle, Unseal
    <2>2. pc[r] \in {"runota", "export", "unseal"} /\ pc'[r] \in {"otaed", "exported", "unsealed"}
      BY <1>16, RecheckEffect DEF RunOta, ExportBundle, Unseal
    <2> QED
      BY <1>0, <2>1, <2>2, KeysAreInputs DEF AcceptInv
  <1> QED
    BY <1>1, <1>2, <1>3, <1>4, <1>5, <1>6, <1>7, <1>8, <1>9, <1>10, <1>11, <1>12, <1>13, <1>14, <1>15, <1>16 DEF Step, Quiet

-----------------------------------------------------------------------------
(* Every step keeps the invariant.                                         *)

\* What the invariant says of one run.
RunInv(r) == /\ PlaceInv(r) /\ SealInv(r) /\ TreeInv(r)
             /\ HeldInv(r) /\ CopyInv(r) /\ InstantInv(r) /\ AcceptInv(r)

\* The invariant, run by run.
LEMMA InvIs == IInv <=> TypeOK /\ OneRelease /\ \A r \in Runs : RunInv(r)
  BY DEF IInv, DirInv, DataInv, RunInv

\* It holds initially.
LEMMA InvInit == Init => IInv
  <1> SUFFICES ASSUME Init PROVE IInv
    OBVIOUS
  <1>1. TypeOK /\ OneRelease
    BY TypeInit DEF Init, OneRelease, Released
  <1>2. ASSUME NEW r \in Runs PROVE RunInv(r)
    <2> USE DEF Init, First
    <2>1. pc[r] = "idle" /\ place[r] = "none" /\ placeOnDisk[r] = {"none"} /\ ~sealed[r]
      OBVIOUS
    <2>2. PlaceInv(r) /\ SealInv(r)
      BY <2>1 DEF PlaceInv, SealInv, Elsewhere
    <2>3. file[r]["runtime"] = "none"
      BY DEF Entries
    <2>4. CompleteAt(pc[r], file[r])
      BY <2>1 DEF CompleteAt, FromRunOta, FromRunImg, FromExport, FromExported, FromUnsealed, FromRmRuntime, FromReport,
              FromSums, FromSyncStaging, FromPublish
    <2>5. TreeInv(r)
      BY <2>1, <2>3, <2>4, CompleteIs DEF TreeInv, Released, FromReport, FromSums, FromSyncStaging, FromPublish
    <2>6. HeldInv(r)
      BY <2>1 DEF HeldInv, FromSigned, FromCheckSigned, FromRunOta, FromRunImg, FromExport, FromExported, FromUnsealed,
              FromRmRuntime, FromReport, FromSums, FromSyncStaging, FromPublish
    <2>7. CopyInv(r) /\ InstantInv(r) /\ AcceptInv(r)
      <3> USE DEF Past, AtKeys, Reading, FromSeal, FromSealed, FromManifest, FromOpenPem, FromHelperOpen, FromSigned,
              FromCheckSigned, FromRunOta, FromRunImg, FromExport, FromExported, FromUnsealed, FromRmRuntime,
              FromReport, FromSums, FromSyncStaging, FromPublish
      <3> QED
        BY <2>1, RoundsAre DEF CopyInv, InstantInv, AcceptInv
    <2> QED
      BY <2>2, <2>5, <2>6, <2>7 DEF RunInv
  <1> QED
    BY <1>1, <1>2, InvIs

\* A step of run r keeps what the invariant says of r.
LEMMA OwnStep == ASSUME TypeOK, NEW r \in Runs, RunInv(r), Step(r) PROVE RunInv(r)'
  <1> USE DEF RunInv
  <1>1. PlaceInv(r)' /\ SealInv(r)' /\ TreeInv(r)' /\ HeldInv(r)'
    BY StepPlace, StepSeal, StepTree, StepHeld
  <1>2. CopyInv(r)' /\ InstantInv(r)' /\ AcceptInv(r)'
    <2>1. CASE Quiet(r)
      BY <2>1, QuietKeeps
    <2>2. CASE ~Quiet(r)
      BY <2>2, StepCopy, StepInstant, StepAccept
    <2> QED
      BY <2>1, <2>2
  <1> QED
    BY <1>1, <1>2

\* Every step of a run keeps the invariant.
LEMMA InvStep == ASSUME IInv, NEW r \in Runs, Step(r) PROVE IInv'
  <1>0. TypeOK /\ OneRelease /\ \A s \in Runs : RunInv(s)
    BY InvIs
  <1>1. TypeOK'
    BY <1>0, TypeStep
  <1>2. RunInv(r)'
    BY <1>0, OwnStep
  <1>3. ASSUME NEW s \in Runs \ {r} PROVE RunInv(s)' /\ place'[s] = place[s]
    BY <1>0, StepTouchesOnly, Untouched DEF RunInv
  <1>4. OneRelease'
    <2>1. place'[r] = "dest" => place[r] = "dest" \/ \A s \in Runs : place[s] # "dest"
      BY <1>0, StepPlace DEF RunInv
    <2> QED
      BY <1>0, <1>3, <2>1 DEF OneRelease, Released
  <1>5. \A s \in Runs : RunInv(s)'
    BY <1>2, <1>3
  <1>6. TypeOK' /\ OneRelease' /\ \A s \in Runs : RunInv(s)'
    BY <1>1, <1>4, <1>5
  <1> QED
    BY <1>6 DEF IInv, DirInv, DataInv, RunInv

\* A run that stops, or starts, keeps what it has read.
LEMMA DataHalted ==
    ASSUME NEW r \in Runs, HeldInv(r), CopyInv(r), InstantInv(r), AcceptInv(r),
           UNCHANGED <<gen, cur, todo, pinned, used, signer, instant>>, place'[r] = "dest" => place[r] = "dest",
           \/ pc'[r] = pc[r]
           \/ pc[r] = "idle" /\ pc'[r] = "mkdtemp"
           \/ pc'[r] \in {"unwind", "cleanup", "refused", "failed", "stuck", "dead"}
    PROVE  HeldInv(r)' /\ CopyInv(r)' /\ InstantInv(r)' /\ AcceptInv(r)'
  <1> USE DEF Past, AtKeys, Reading, FromSeal, FromSealed, FromManifest, FromOpenPem, FromHelperOpen, FromSigned,
              FromCheckSigned, FromRunOta, FromRunImg, FromExport, FromExported, FromUnsealed, FromRmRuntime,
              FromReport, FromSums, FromSyncStaging, FromPublish
  <1>1. HeldInv(r)'
    BY DEF HeldInv, Held
  <1>2. CopyInv(r)'
    BY DEF CopyInv
  <1>3. InstantInv(r)'
    BY RoundsAre DEF InstantInv, AtInstant
  <1>4. AcceptInv(r)'
    BY DEF AcceptInv
  <1> QED
    BY <1>1, <1>2, <1>3, <1>4

\* Beginning, an interrupt and a kill change nothing but the step a run is at.
LEMMA HaltedStep ==
    ASSUME TypeOK, NEW r \in Runs, RunInv(r), Begin(r) \/ Interrupt(r) \/ Crash(r)
    PROVE  RunInv(r)' /\ UNCHANGED <<gen, reading, sealed, tree, where>> /\ \A s \in Runs \ {r} : pc'[s] = pc[s]
  <1>1. UNCHANGED <<gen, reading, sealed, tree, where>>
    BY DEF Begin, Interrupt, Crash
  <1>2. \/ pc[r] = "idle" /\ pc'[r] \in {"mkdtemp", "refused"}
        \/ pc[r] \in Live /\ pc'[r] = "dead"
        \/ "interrupt" \in Faults /\ pc[r] \in {"mkdtemp", "staged"} /\ pc'[r] = "failed"
        \/ "interrupt" \in Faults /\ pc[r] \in {"staged", "unwind"} \cup InTry
           /\ pc'[r] \in {"unwind", "cleanup"} /\ (pc'[r] = "unwind" => sealed[r])
        \/ "interrupt" \in Faults /\ pc[r] = "cleanup" /\ pc'[r] = "stuck"
    <2>1. CASE Begin(r) \/ Crash(r)
      BY <2>1, GotoEffect DEF Begin, Crash
    <2>2. CASE Interrupt(r)
      BY <2>2, GotoEffect, RaiseEffect DEF Interrupt, InTry, Signing
    <2> QED
      BY <2>1, <2>2
  <1>3. \A s \in Runs \ {r} : pc'[s] = pc[s]
    BY DEF TypeOK, Begin, Interrupt, Crash, Goto, Raise
  <1> USE DEF RunInv
  <1>4. PlaceInv(r)'
    <2>0. pc[r] \in {"staged", "unwind"} \cup InTry => pc[r] \notin Elsewhere \ {"renamed"}
      BY RoundsAre DEF Elsewhere, Ended, InTry, Snapshots, Signing, Finishing
    <2>1. pc[r] \in {"staged", "unwind"} \cup InTry => place[r] # "none"
      BY <2>0 DEF PlaceInv
    <2>2. place'[r] = place[r] /\ placeOnDisk'[r] = placeOnDisk[r]
      BY <1>1 DEF where
    <2>3. pc'[r] \notin {"renamed", "done", "idle"} /\ (pc'[r] \in Elsewhere \/ pc'[r] = "unwind")
      BY <1>2 DEF Elsewhere, Ended
    <2>4. pc'[r] \in {"mkdtemp", "refused"} => pc[r] = "idle"
      BY <1>2
    <2>5. pc'[r] = "cleanup" \/ pc'[r] = "unwind" => pc[r] \in {"staged", "unwind"} \cup InTry
      BY <1>2
    <2>6. pc'[r] = "unwind" => place[r] = "staging"
      <3>1. pc'[r] = "unwind" => pc[r] # "renamed"
        BY <1>2 DEF SealInv, FromUnsealed, FromRmRuntime, FromReport, FromSums, FromSyncStaging, FromPublish
      <3> QED
        BY <2>0, <2>5, <3>1 DEF PlaceInv
    <2> QED
      BY <2>1, <2>2, <2>3, <2>4, <2>5, <2>6 DEF PlaceInv
  <1>5. SealInv(r)'
    BY <1>1, <1>2 DEF SealInv, BeforeTry, Snapshots, FromUnsealed, FromRmRuntime, FromReport, FromSums, FromSyncStaging, FromPublish
  <1>6. TreeInv(r)'
    <2> USE DEF CompleteAt, FromRunOta, FromRunImg, FromExport, FromExported, FromUnsealed, FromRmRuntime, FromReport,
                FromSums, FromSyncStaging, FromPublish
    <2>1. pc'[r] \in {"mkdtemp", "refused", "dead", "failed", "unwind", "cleanup", "stuck"}
      BY <1>2
    <2>2. CompleteAt(pc'[r], file'[r])
      BY <2>1
    <2>3. \A n \in Parts : pc'[r] \in CompleteFrom[n] => file'[r][n] = "synced"
      BY <2>2, CompleteIs
    <2>4. pc'[r] \in {"mkdtemp", "refused", "failed"} => file'[r]["runtime"] = "none"
      BY <1>1, <1>2 DEF TreeInv, tree
    <2>5. Released(r)' => Settled(r)'
      BY <1>1 DEF TreeInv, Released, Settled, tree, where
    <2>6. "interrupt" \notin Faults => pc'[r] # "stuck"
      BY <1>2
    <2> QED
      BY <2>1, <2>3, <2>4, <2>5, <2>6 DEF TreeInv
  <1>7. HeldInv(r)' /\ CopyInv(r)' /\ InstantInv(r)' /\ AcceptInv(r)'
    BY <1>1, <1>2, DataHalted DEF reading, where
  <1> QED
    BY <1>1, <1>3, <1>4, <1>5, <1>6, <1>7

\* A power loss keeps a release whole, and brings back none that was not there.
LEMMA InvPowerLoss == ASSUME IInv, PowerLoss PROVE IInv'
  <1>0. TypeOK /\ OneRelease /\ \A s \in Runs : RunInv(s)
    BY InvIs
  <1>1. TypeOK'
    BY <1>0, TypeNext DEF Next
  <1>2. PICK left \in [Runs -> Places] :
          /\ \A s \in Runs : left[s] \in placeOnDisk[s]
          /\ place' = left
          /\ placeOnDisk' = [s \in Runs |-> {left[s]}]
          /\ file' = [s \in Runs |-> [n \in Entries |-> IF left[s] = "none" THEN "none" ELSE AfterLoss(s, n)]]
    BY DEF PowerLoss
  <1>3. UNCHANGED <<gen, reading, sealed, onDisk>> /\ \A s \in Runs : pc'[s] = IF pc[s] \in Live THEN "dead" ELSE pc[s]
    BY DEF PowerLoss
  <1>4. ASSUME NEW s \in Runs PROVE RunInv(s)' /\ (Released(s)' => Released(s))
    <2>0. RunInv(s) /\ place'[s] \in placeOnDisk[s] /\ placeOnDisk'[s] = {place'[s]}
      BY <1>0, <1>2
    <2>1. place'[s] = "dest" => place[s] = "dest"
      BY <2>0 DEF RunInv, PlaceInv
    <2>2. pc'[s] = "dead" \/ (pc'[s] = pc[s] /\ pc[s] \in {"idle"} \cup Ended)
      BY <1>0, <1>3 DEF TypeOK
    <2>3. PlaceInv(s)'
      BY <2>0, <2>2 DEF RunInv, PlaceInv, Elsewhere, Ended
    <2>4. SealInv(s)'
      BY <1>3, <2>0, <2>2 DEF RunInv, SealInv, Ended, BeforeTry, Snapshots, FromUnsealed, FromRmRuntime, FromReport,
                              FromSums, FromSyncStaging, FromPublish
    <2>5. TreeInv(s)'
      <3> USE DEF CompleteAt, FromRunOta, FromRunImg, FromExport, FromExported, FromUnsealed, FromRmRuntime, FromReport,
                  FromSums, FromSyncStaging, FromPublish
      <3>1. \A n \in Entries : file'[s][n] = IF place'[s] = "none" THEN "none" ELSE AfterLoss(s, n)
        BY <1>2
      <3>2. "runtime" \in Entries /\ Parts \subseteq Entries
        BY DEF Entries
      <3>3. place'[s] = "dest" => Settled(s)'
        <4>1. SUFFICES ASSUME place'[s] = "dest", NEW n \in Entries
                       PROVE  IF n \in Parts THEN file'[s][n] = "synced" /\ onDisk'[s][n] = {TRUE}
                                             ELSE file'[s][n] = "none" /\ onDisk'[s][n] = {FALSE}
          BY DEF Settled
        <4>2. Settled(s)
          BY <2>0, <2>1, <4>1 DEF RunInv, TreeInv, Released
        <4>3. file'[s][n] = AfterLoss(s, n) /\ onDisk'[s][n] = onDisk[s][n]
          BY <1>3, <3>1, <4>1
        <4>4. CASE n \in Parts
          <5>1. file[s][n] = "synced" /\ onDisk[s][n] = {TRUE} /\ onDisk[s][n] # {FALSE}
            BY <4>2, <4>4 DEF Settled
          <5>2. AfterLoss(s, n) = "synced"
            BY <5>1 DEF AfterLoss
          <5> QED
            BY <4>3, <4>4, <5>1, <5>2
        <4>5. CASE n \notin Parts
          <5>1. file[s][n] = "none" /\ onDisk[s][n] = {FALSE}
            BY <4>2, <4>5 DEF Settled
          <5>2. AfterLoss(s, n) = "none"
            BY <5>1 DEF AfterLoss
          <5> QED
            BY <4>3, <4>5, <5>1, <5>2
        <4> QED
          BY <4>4, <4>5
      <3>4. pc'[s] = "done" => place'[s] = "dest"
        BY <2>0, <2>2 DEF RunInv, PlaceInv
      <3>5. pc'[s] = "done" => file'[s]["runtime"] = "none" /\ \A n \in Parts : file'[s][n] = "synced"
        BY <3>2, <3>3, <3>4 DEF Settled, Entries, Parts
      <3>6. \A n \in Parts : pc'[s] \in CompleteFrom[n] => file'[s][n] = "synced"
        <4>1. pc'[s] # "done" => CompleteAt(pc'[s], file'[s])
          BY <2>2 DEF Ended
        <4> QED
          BY <3>5, <4>1, CompleteIs
      <3>7. pc'[s] = "failed" => file'[s]["runtime"] \in {"none", "unsure"}
        <4>1. pc'[s] = "failed" => file[s]["runtime"] # "synced"
          BY <2>0, <2>2 DEF RunInv, TreeInv
        <4>2. AfterLoss(s, "runtime") \in {"none", "unsure"} \/ file[s]["runtime"] = "synced"
          BY DEF AfterLoss
        <4> QED
          BY <3>1, <3>2, <4>1, <4>2
      <3>8. pc'[s] \in {"idle", "mkdtemp", "refused", "staged"} => file'[s]["runtime"] = "none"
        BY <2>0, <2>2, <3>1, <3>2 DEF RunInv, PlaceInv, Ended
      <3>9. "interrupt" \notin Faults => pc'[s] # "stuck"
        BY <2>0, <2>2 DEF RunInv, TreeInv
      <3> QED
        BY <2>2, <3>3, <3>5, <3>6, <3>7, <3>8, <3>9 DEF TreeInv, Released, Ended
    <2>6. HeldInv(s)' /\ CopyInv(s)' /\ InstantInv(s)' /\ AcceptInv(s)'
      BY <1>3, <2>0, <2>1, <2>2, DataHalted DEF RunInv, reading
    <2> QED
      BY <2>1, <2>3, <2>4, <2>5, <2>6 DEF RunInv, Released
  <1>5. OneRelease'
    BY <1>0, <1>4 DEF OneRelease
  <1>6. TypeOK' /\ OneRelease' /\ \A s \in Runs : RunInv(s)'
    BY <1>1, <1>4, <1>5
  <1> QED
    BY <1>6 DEF IInv, DirInv, DataInv, RunInv

\* A change of an input leaves what runs have read, and only makes the path newer.
LEMMA InvChange == ASSUME IInv, NEW i \in Inputs, Change(i) PROVE IInv'
  <1>0. TypeOK /\ OneRelease /\ \A s \in Runs : RunInv(s)
    BY InvIs
  <1>1. TypeOK'
    BY <1>0, TypeNext DEF Next
  <1>2. UNCHANGED <<pc, reading, sealed, tree, where>>
    BY DEF Change
  <1>3. \A j \in Inputs : gen[j] \in Nat /\ gen'[j] \in Nat /\ gen[j] <= gen'[j]
    BY <1>0, SignGenAssumption DEF Change, TypeOK, Gens
  <1>4. ASSUME NEW s \in Runs PROVE RunInv(s)'
    <2>1. PlaceInv(s)' /\ SealInv(s)'
      BY <1>0, <1>2 DEF RunInv, PlaceInv, SealInv, where
    <2>2. TreeInv(s)'
      BY <1>0, <1>2 DEF RunInv, TreeInv, Settled, Released, tree, where
    <2>3. HeldInv(s)'
      <3>1. \A j \in Inputs : Held(s, j) \subseteq Held(s, j)'
        BY <1>0, <1>2, <1>3, SignGenAssumption DEF Held, TypeOK, Gens, reading
      <3>2. \A j \in Inputs : pinned[s][j] <= gen'[j] /\ instant[s][j] <= gen'[j]
        <4>1. \A j \in Inputs : pinned[s][j] \in Nat /\ instant[s][j] \in Nat
          BY <1>0, SignGenAssumption DEF TypeOK, Gens
        <4> QED
          BY <1>0, <1>3, <4>1 DEF RunInv, HeldInv
      <3>3. cur[s] \in Inputs /\ HeldInv(s)
        BY <1>0 DEF TypeOK, RunInv
      <3> QED
        BY <1>2, <3>1, <3>2, <3>3, KeysAreInputs DEF HeldInv, reading
    <2>4. CopyInv(s)' /\ InstantInv(s)' /\ AcceptInv(s)'
      BY <1>0, <1>2 DEF RunInv, CopyInv, InstantInv, AcceptInv, AtInstant, Past, AtKeys, Reading, reading, where
    <2> QED
      BY <2>1, <2>2, <2>3, <2>4 DEF RunInv
  <1>5. OneRelease'
    BY <1>0, <1>2 DEF OneRelease, Released, where
  <1>6. TypeOK' /\ OneRelease' /\ \A s \in Runs : RunInv(s)'
    BY <1>1, <1>4, <1>5
  <1> QED
    BY <1>6 DEF IInv, DirInv, DataInv, RunInv

\* Every step of the system keeps the invariant.
LEMMA InvNext == IInv /\ [Next]_vars => IInv'
  <1> SUFFICES ASSUME IInv, [Next]_vars PROVE IInv'
    OBVIOUS
  <1>0. TypeOK /\ OneRelease /\ \A s \in Runs : RunInv(s)
    BY InvIs
  <1>1. ASSUME NEW r \in Runs, Begin(r) \/ Interrupt(r) \/ Crash(r) PROVE IInv'
    <2>1. TypeOK'
      BY <1>0, <1>1, TypeNext DEF Next
    <2>2. RunInv(r)' /\ UNCHANGED <<gen, reading, sealed, tree, where>> /\ \A s \in Runs \ {r} : pc'[s] = pc[s]
      BY <1>0, <1>1, HaltedStep
    <2>3. ASSUME NEW s \in Runs \ {r} PROVE RunInv(s)'
      BY <1>0, <2>2, Untouched DEF RunInv, reading, tree, where
    <2>4. OneRelease'
      BY <1>0, <2>2 DEF OneRelease, Released, where
    <2>5. TypeOK' /\ OneRelease' /\ \A s \in Runs : RunInv(s)'
      BY <2>1, <2>2, <2>3, <2>4
    <2> QED
      BY <2>5 DEF IInv, DirInv, DataInv, RunInv
  <1>2. ASSUME NEW r \in Runs, Step(r) PROVE IInv'
    BY <1>2, InvStep
  <1>3. CASE UNCHANGED vars
    <2>1. TypeOK'
      BY <1>0, <1>3, TypeNext
    <2>2. ASSUME NEW s \in Runs PROVE RunInv(s)'
      BY <1>0, <1>3, Untouched DEF RunInv, vars, reading, tree, where
    <2>3. OneRelease'
      BY <1>0, <1>3 DEF OneRelease, Released, vars, where
    <2>4. TypeOK' /\ OneRelease' /\ \A s \in Runs : RunInv(s)'
      BY <2>1, <2>2, <2>3
    <2> QED
      BY <2>4 DEF IInv, DirInv, DataInv, RunInv
  <1> QED
    BY <1>1, <1>2, <1>3, InvPowerLoss, InvChange DEF Next, Finished

\* The invariant holds in every reachable state.
LEMMA Invariance == Spec => []IInv
  BY InvInit, InvNext, PTL DEF Spec

-----------------------------------------------------------------------------
(* What a release is.                                                      *)

\* What a release was made from was held by the paths together at one moment of
\* its run, however the inputs change while they are read one after another.
THEOREM ReleasesAreOfOneInstant == Spec => []InputsOfOneInstant
  <1>1. IInv => InputsOfOneInstant
    <2> SUFFICES ASSUME IInv, NEW r \in Runs, Released(r), NEW i \in Pinned PROVE AtInstant(r, i)
      BY DEF InputsOfOneInstant, AtInstant
    <2> QED
      BY DEF IInv, DataInv, InstantInv, Past, Released, Pinned
  <1> QED
    BY <1>1, Invariance, PTL

\* A release was signed from the archive its build record names, with
\* certificates the keyset's manifest names, by the bytes that were used.
THEOREM ReleasesAreOfAcceptedInputs == Spec => []ReleaseOfAcceptedInputs
  <1>1. IInv => ReleaseOfAcceptedInputs
    BY DEF IInv, DataInv, AcceptInv, Past, Released, ReleaseOfAcceptedInputs
  <1> QED
    BY <1>1, Invariance, PTL

\* The AVB helper signed a release with the private key whose public part the
\* release was given, although it opens the key again in a process of its own.
THEOREM SignedWithExportedKey == Spec => []SignatureMatchesExportedKey
  <1>1. IInv => SignatureMatchesExportedKey
    BY DEF IInv, DataInv, AcceptInv, Past, Released, SignatureMatchesExportedKey
  <1> QED
    BY <1>1, Invariance, PTL

\* A release directory is whole and free of copied keys and passwords, after any
\* interrupt, kill or power loss.
THEOREM ReleasesAreWhole == Spec => []ReleaseWholeAndPublic
  <1>1. IInv => ReleaseWholeAndPublic
    BY DEF IInv, DirInv, TreeInv, Settled, Released, ReleaseWholeAndPublic
  <1> QED
    BY <1>1, Invariance, PTL

\* A run that ended by itself leaves no copied key in its staging directory, and
\* without interrupts its handler always gets through.
THEOREM KeysAreRemoved == Spec => []NoKeysLeftBehind
  <1>1. IInv => NoKeysLeftBehind
    <2> SUFFICES ASSUME IInv, NEW r \in Runs
                 PROVE  /\ pc[r] \in Ended \ {"stuck", "dead"} => file[r]["runtime"] \in {"none", "unsure"}
                        /\ "interrupt" \notin Faults => pc[r] # "stuck"
      BY DEF NoKeysLeftBehind
    <2> QED
      BY DEF IInv, DirInv, TreeInv, Ended, FromReport, FromSums, FromSyncStaging, FromPublish
  <1> QED
    BY <1>1, Invariance, PTL

-----------------------------------------------------------------------------
(* The output directory is a write-once publication.                       *)

\* The slot is the release, when there is one.
LEMMA SlotIs == ASSUME OneRelease, NEW r \in Runs, place[r] = "dest" PROVE slot = r
  <1>1. \A s \in Runs : Released(s) => s = r
    BY DEF OneRelease, Released
  <1> QED
    BY <1>1 DEF slot, Released

\* The same after a step.
LEMMA SlotIsNext == ASSUME OneRelease', NEW r \in Runs, place'[r] = "dest" PROVE slot' = r
  <1>1. \A s \in Runs : Released(s)' => s = r
    BY DEF OneRelease, Released
  <1> QED
    BY <1>1 DEF slot, Released

\* The slot is kept when the same runs are released before and after.
LEMMA SlotKept ==
    ASSUME OneRelease, OneRelease', \A s \in Runs : place'[s] = "dest" <=> place[s] = "dest"
    PROVE  slot' = slot
  <1>1. CASE \E s \in Runs : place[s] = "dest"
    BY <1>1, SlotIs, SlotIsNext
  <1>2. CASE \A s \in Runs : place[s] # "dest"
    BY <1>2 DEF slot, Released
  <1> QED
    BY <1>1, <1>2

\* The acknowledged runs are the ones that are done.
LEMMA AcknowledgedKept ==
    ASSUME \A s \in Runs : pc'[s] = "done" <=> pc[s] = "done"
    PROVE  acknowledged' = acknowledged
  BY DEF acknowledged

\* The initial state is an unpublished slot.
LEMMA RefinedInit == Init => Publication!Init
  <1> SUFFICES ASSUME Init PROVE slot = NoRun /\ acknowledged = {}
    BY DEF Publication!Init
  <1> QED
    BY DEF Init, slot, acknowledged, Released

\* A step of run r publishes, acknowledges, or does nothing the publication sees.
LEMMA RefinedStep ==
    ASSUME IInv, IInv', NEW r \in Runs, Step(r)
    PROVE  \/ Publication!Publish(r)
           \/ Publication!Acknowledge(r)
           \/ UNCHANGED <<slot, acknowledged>>
  <1>0. TypeOK /\ OneRelease /\ OneRelease' /\ PlaceInv(r)
    BY DEF IInv, DirInv
  <1>1. \A s \in Runs \ {r} : pc'[s] = pc[s] /\ place'[s] = place[s]
    BY <1>0, StepTouchesOnly
  <1>2. CASE Publish(r)
    <2>1. pc'[r] # "done" /\ pc[r] # "done"
      BY <1>0, <1>2, GotoEffect, RaiseEffect DEF Publish
    <2>2. UNCHANGED acknowledged
      BY <1>1, <2>1, AcknowledgedKept
    <2>3. CASE \A s \in Runs : place[s] # "dest"
      <3>1. place'[r] = "dest"
        BY <1>0, <1>2, <2>3, MoveToEffect DEF Publish
      <3>2. slot = NoRun /\ slot' = r
        BY <1>0, <2>3, <3>1, SlotIsNext DEF slot, Released
      <3> QED
        BY <2>2, <3>2 DEF Publication!Publish
    <2>4. CASE \E s \in Runs : place[s] = "dest"
      BY <1>0, <1>2, <2>2, <2>4, SlotKept DEF Publish, where
    <2> QED
      BY <2>3, <2>4
  <1>3. CASE Acknowledge(r)
    <2>1. pc[r] = "renamed" /\ pc'[r] = "done" /\ place' = place /\ place[r] = "dest"
      BY <1>0, <1>3, GotoEffect DEF Acknowledge, PlaceInv
    <2>2. slot = r /\ slot' = r
      BY <1>0, <2>1, SlotIs, SlotIsNext
    <2>3. acknowledged' = acknowledged \cup {r}
      BY <1>1, <2>1 DEF acknowledged
    <2> QED
      BY <2>2, <2>3 DEF Publication!Acknowledge
  <1>4. CASE ~Publish(r) /\ ~Acknowledge(r)
    <2>1. pc'[r] # "done" /\ pc[r] # "done" /\ (place'[r] = "dest" <=> place[r] = "dest")
      <3>1. CASE MakeStaging(r)
        BY <1>0, <3>1, GotoEffect, MoveToEffect DEF MakeStaging, PlaceInv
      <3>2. CASE Cleanup(r)
        BY <1>0, <3>2, CleanupEffect DEF where
      <3>3. CASE ~MakeStaging(r) /\ ~Cleanup(r)
        BY <1>0, <1>4, <3>3, StepInStaging DEF where, Elsewhere, Ended
      <3> QED
        BY <3>1, <3>2, <3>3
    <2> QED
      BY <1>0, <1>1, <2>1, SlotKept, AcknowledgedKept
  <1> QED
    BY <1>2, <1>3, <1>4

\* Every step of the signer is a step of the publication or a stutter.
LEMMA RefinedNext == IInv /\ IInv' /\ [Next]_vars => [Publication!Next]_<<slot, acknowledged>>
  <1> SUFFICES ASSUME IInv, IInv', [Next]_vars
               PROVE  Publication!Next \/ UNCHANGED <<slot, acknowledged>>
    OBVIOUS
  <1>0. TypeOK /\ OneRelease /\ OneRelease' /\ \A s \in Runs : RunInv(s)
    BY DEF IInv, DirInv, DataInv, RunInv
  <1>1. ASSUME NEW r \in Runs, Begin(r) \/ Interrupt(r) \/ Crash(r) PROVE UNCHANGED <<slot, acknowledged>>
    <2>1. UNCHANGED where /\ \A s \in Runs \ {r} : pc'[s] = pc[s]
      BY <1>0, <1>1, HaltedStep
    <2>2. pc[r] # "done"
      BY <1>1, RoundsAre DEF Begin, Interrupt, Crash, Live, BeforeTry, InTry, Snapshots, Signing, Finishing, Handling
    <2>3. pc'[r] # "done"
      BY <1>0, <1>1, GotoEffect, RaiseEffect DEF Begin, Interrupt, Crash
    <2> QED
      BY <1>0, <2>1, <2>2, <2>3, SlotKept, AcknowledgedKept DEF where
  <1>2. ASSUME NEW r \in Runs, Step(r) PROVE Publication!Next \/ UNCHANGED <<slot, acknowledged>>
    BY <1>2, RefinedStep DEF Publication!Next
  <1>3. CASE PowerLoss
    <2>1. \A s \in Runs : pc'[s] = "done" <=> pc[s] = "done"
      <3>1. "done" \notin Live
        BY RoundsAre DEF Live, BeforeTry, InTry, Snapshots, Signing, Finishing, Handling
      <3> QED
        BY <1>3, <3>1 DEF PowerLoss
    <2>2. \A s \in Runs : place'[s] \in placeOnDisk[s]
      BY <1>3 DEF PowerLoss
    <2>3. \A s \in Runs : place'[s] = "dest" => place[s] = "dest"
      BY <1>0, <2>2 DEF RunInv, PlaceInv
    <2>4. CASE \A s \in Runs : place[s] = "dest" => place'[s] = "dest"
      BY <1>0, <2>1, <2>3, <2>4, SlotKept, AcknowledgedKept
    <2>5. CASE \E s \in Runs : place[s] = "dest" /\ place'[s] # "dest"
      <3>1. PICK s \in Runs : place[s] = "dest" /\ place'[s] # "dest"
        BY <2>5
      <3>2. \A q \in Runs : place[q] = "dest" => q = s
        BY <1>0, <3>1 DEF OneRelease, Released
      <3>3. slot' = NoRun
        BY <2>3, <3>1, <3>2 DEF slot, Released
      <3>4. \A q \in Runs : pc[q] # "done"
        BY <1>0, <2>2, <3>1, <3>2 DEF RunInv, PlaceInv
      <3>5. acknowledged = {} /\ acknowledged' = acknowledged
        BY <2>1, <3>4, AcknowledgedKept DEF acknowledged
      <3> QED
        BY <3>3, <3>5 DEF Publication!Next, Publication!Lose
    <2> QED
      BY <2>4, <2>5
  <1>4. ASSUME NEW i \in Inputs, Change(i) PROVE UNCHANGED <<slot, acknowledged>>
    BY <1>0, <1>4, SlotKept, AcknowledgedKept DEF Change, where
  <1>5. CASE UNCHANGED vars
    BY <1>0, <1>5, SlotKept, AcknowledgedKept DEF vars, where
  <1> QED
    BY <1>1, <1>2, <1>3, <1>4, <1>5 DEF Next, Finished

\* The output directory of the signer is a write-once publication: one run at
\* most publishes, none replaces another, and what was acknowledged is not lost.
THEOREM ImplementsPublication == Spec => PublicationSpec
  BY Invariance, RefinedInit, RefinedNext, PTL DEF Spec, PublicationSpec, Publication!Spec
=============================================================================
