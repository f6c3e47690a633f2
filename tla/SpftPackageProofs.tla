--------------------------- MODULE SpftPackageProofs ---------------------------
(***************************************************************************)
(* Proofs about SpftPackage, for any number of overlapping runs, any       *)
(* images, and any faults.                                                 *)
(*                                                                         *)
(* The argument: a directory is renamed to the package only where none is, *)
(* and the operator removes only what no run will report, so the package   *)
(* and the archive belong to one run from its rename to its end; what that *)
(* run copied does not change any more, and of the firmware it copied it   *)
(* is either what was checked or what was written after the check.         *)
(***************************************************************************)
EXTENDS SpftPackage, TLAPS

\* The steps of a run whose directory is whole, summed up, and packed.
Copied == {"adapt", "sums", "publish"} \cup Archiving \cup {"done"}
Summed == {"publish"} \cup Archiving \cup {"done"}
Packed == {"test", "done"}

OnePackage == \A r, s \in Runs : place[r] = "package" /\ place[s] = "package" => r = s

\* Where the run's directory is.
PlaceInv(r) ==
    /\ pc[r] \in {"copy", "adapt", "sums", "publish", "cleanup"} => place[r] # "package"
    /\ pc[r] \in Archiving \cup {"done"} => place[r] = "package"

\* Of the firmware: what was compared is what the manifest pins until it is written, and so is its copy.
FirmwareInv(r) ==
    /\ pc[r] = "verify" => \A i \in Firmware \ left[r] : source[i] = 0 \/ i \in changed[r]
    /\ pc[r] \in {"check", "mkdir", "copy"} => \A i \in Firmware : source[i] = 0 \/ i \in changed[r]
    /\ \A i \in Firmware : held[r][i] \in {0, Absent} \/ i \in changed[r]

\* What is in the directory, in its checksums and in the archive.
ContentInv(r) ==
    /\ pc[r] = "copy" => \A i \in Images \ left[r] : held[r][i] # Absent
    /\ pc[r] \in Copied => \A i \in Images : held[r][i] # Absent
    /\ pc[r] \in Summed => sums[r] = held[r]
    /\ pc[r] \in {"archive"} \cup Packed => maker = r
    /\ pc[r] = "archive" => \A i \in Images \ left[r] : archive[i] = held[r][i]
    /\ pc[r] \in Packed => archive = held[r]

RunInv(r) == PlaceInv(r) /\ FirmwareInv(r) /\ ContentInv(r)

IInv == OnePackage /\ \A r \in Runs : RunInv(r)

-----------------------------------------------------------------------------
(* Type correctness.                                                       *)

\* The steps of a run, by name.
LEMMA StepsAre ==
    /\ Working = {"verify", "check", "cleanup", "mkdir", "copy", "adapt", "sums", "publish", "open", "archive", "test"}
    /\ Unpublished = {"mkdir", "copy", "adapt", "sums", "publish"}
    /\ Archiving = {"open", "archive", "test"}
    /\ Ended = {"done", "refused", "failed", "stuck", "dead"}
    /\ Copied = {"adapt", "sums", "publish", "open", "archive", "test", "done"}
    /\ Summed = {"publish", "open", "archive", "test", "done"}
    /\ Packed = {"test", "done"}
  BY DEF Working, Unpublished, Archiving, Ended, Copied, Summed, Packed

\* The steps a run can be at.
Places == {"idle"} \cup Working \cup Ended

\* Goto sets the step of one run.
LEMMA GotoEffect ==
    ASSUME TypeOK, NEW r \in Runs, NEW step \in Places, Goto(r, step)
    PROVE  pc' \in [Runs -> Places] /\ pc'[r] = step /\ \A s \in Runs \ {r} : pc'[s] = pc[s]
  BY DEF TypeOK, Goto, Places

\* One round of a loop takes one image off, and goes on when none is left.
LEMMA RoundEffect ==
    ASSUME TypeOK, NEW r \in Runs, NEW i \in left[r], NEW again \in Places, NEW following \in Places,
           Round(r, i, again, following)
    PROVE  /\ pc' \in [Runs -> Places] /\ left' \in [Runs -> SUBSET Images]
           /\ left'[r] = left[r] \ {i}
           /\ pc'[r] = again \/ (pc'[r] = following /\ left'[r] = {})
           /\ \A s \in Runs \ {r} : pc'[s] = pc[s] /\ left'[s] = left[s]
  <1>1. left' = [left EXCEPT ![r] = left[r] \ {i}] /\ Goto(r, IF left[r] = {i} THEN following ELSE again)
    BY DEF Round
  <1>2. left' \in [Runs -> SUBSET Images] /\ left'[r] = left[r] \ {i} /\ \A s \in Runs \ {r} : left'[s] = left[s]
    BY <1>1 DEF TypeOK
  <1>3. CASE left[r] = {i}
    <2>1. Goto(r, following)
      BY <1>1, <1>3
    <2>2. left'[r] = {}
      BY <1>2, <1>3
    <2> QED
      BY <1>2, <2>1, <2>2, GotoEffect
  <1>4. CASE left[r] # {i}
    <2>1. Goto(r, again)
      BY <1>1, <1>4
    <2> QED
      BY <1>2, <2>1, GotoEffect
  <1> QED
    BY <1>3, <1>4

\* The initial state is typed.
LEMMA TypeInit == Init => TypeOK
  <1> SUFFICES ASSUME Init PROVE TypeOK
    OBVIOUS
  <1>1. 0 \in Changes
    BY BoundAssumption DEF Changes
  <1>2. Nothing \in Listing
    BY DEF Nothing, Listing
  <1>3. clock \in Changes /\ source \in [Images -> Changes]
    BY <1>1 DEF Init
  <1>4. held \in [Runs -> Listing] /\ sums \in [Runs -> Listing] /\ archive \in Listing
    BY <1>2 DEF Init
  <1>5. left \in [Runs -> SUBSET Images] /\ changed \in [Runs -> SUBSET Firmware]
    BY DEF Init
  <1>6. pc \in [Runs -> {"idle"} \cup Working \cup Ended] /\ place \in [Runs -> {"none", "temporary", "package"}]
    BY DEF Init
  <1>7. maker \in Runs \cup {None}
    BY DEF Init
  <1> QED
    BY <1>3, <1>4, <1>5, <1>6, <1>7 DEF TypeOK

\* An image is copied into the directory as it is then.
LEMMA CopyEffect ==
    ASSUME TypeOK, NEW r \in Runs, CopyImage(r)
    PROVE  /\ pc[r] = "copy" /\ UNCHANGED <<files, place, sums, zip, changed>>
           /\ held' \in [Runs -> Listing]
           /\ \A s \in Runs \ {r} : held'[s] = held[s]
           /\ \E i \in left[r] : /\ Round(r, i, "copy", "adapt")
                                 /\ held'[r] = [held[r] EXCEPT ![i] = source[i]]
  <1>1. PICK i \in left[r] : held' = [held EXCEPT ![r] = [held[r] EXCEPT ![i] = source[i]]] /\ Round(r, i, "copy", "adapt")
    BY DEF CopyImage
  <1>2. pc[r] = "copy" /\ UNCHANGED <<files, place, sums, zip, changed>>
    BY DEF CopyImage
  <1>3. i \in Images
    BY DEF TypeOK
  <1>4. [held[r] EXCEPT ![i] = source[i]] \in Listing
    BY <1>3 DEF TypeOK, Listing
  <1>5. held' \in [Runs -> Listing] /\ held'[r] = [held[r] EXCEPT ![i] = source[i]] /\ \A s \in Runs \ {r} : held'[s] = held[s]
    BY <1>1, <1>4 DEF TypeOK
  <1> QED
    BY <1>1, <1>2, <1>5

\* Whose directory is the package, when there is one.
LEMMA PackageIsARun == Package # None => Package \in Runs /\ place[Package] = "package"
  BY NoneAssumption DEF Package

\* ... and when there is one only.
LEMMA PackageIs == OnePackage => \A r \in Runs : place[r] = "package" => Package = r
  BY DEF OnePackage, Package

\* An image is taken into the archive from the package, or there is none and the run fails.
LEMMA ArchiveEffect ==
    ASSUME TypeOK, NEW r \in Runs, ArchiveImage(r)
    PROVE  /\ pc[r] = "archive" /\ UNCHANGED <<files, tree, maker, changed>>
           /\ \/ Package = None /\ Goto(r, "failed") /\ UNCHANGED <<left, archive>>
              \/ \E i \in left[r] : /\ Package \in Runs
                                    /\ archive' \in Listing
                                    /\ archive' = [archive EXCEPT ![i] = held[Package][i]]
                                    /\ Round(r, i, "archive", "test")
  <1>1. pc[r] = "archive" /\ UNCHANGED <<files, tree, maker, changed>>
    BY DEF ArchiveImage
  <1>2. PICK i \in left[r] : IF Package = None
                                THEN Goto(r, "failed") /\ UNCHANGED <<left, archive>>
                                ELSE archive' = [archive EXCEPT ![i] = held[Package][i]] /\ Round(r, i, "archive", "test")
    BY DEF ArchiveImage
  <1>3. CASE Package = None
    BY <1>1, <1>2, <1>3
  <1>4. CASE Package # None
    <2>1. Package \in Runs
      BY <1>4, PackageIsARun
    <2>2. archive' = [archive EXCEPT ![i] = held[Package][i]] /\ Round(r, i, "archive", "test")
      BY <1>2, <1>4
    <2>3. i \in Images
      BY DEF TypeOK
    <2>4. held[Package][i] \in Changes \cup {Absent}
      BY <2>1, <2>3 DEF TypeOK, Listing
    <2>5. archive' \in Listing
      BY <2>2, <2>4 DEF TypeOK, Listing
    <2> QED
      BY <1>1, <2>1, <2>2, <2>5
  <1> QED
    BY <1>3, <1>4

\* An image is written again, with a content nobody has seen or the manifest's.
LEMMA WriteEffect ==
    ASSUME TypeOK, NEW i \in Images, WriteImage(i)
    PROVE  /\ UNCHANGED <<pc, left, tree, zip>>
           /\ clock' \in Changes /\ source' \in [Images -> Changes] /\ changed' \in [Runs -> SUBSET Firmware]
           /\ \A j \in Images \ {i} : source'[j] = source[j]
           /\ \A r \in Runs : /\ changed[r] \subseteq changed'[r]
                              /\ i \in Checked(r) => i \in changed'[r]
  <1>1. /\ UNCHANGED <<pc, left, tree, zip>>
        /\ clock' = clock + 1 /\ clock < MaxChanges
        /\ source' = [source EXCEPT ![i] = clock + 1] \/ source' = [source EXCEPT ![i] = 0]
        /\ changed' = [r \in Runs |-> IF i \in Checked(r) THEN changed[r] \cup {i} ELSE changed[r]]
    BY DEF WriteImage
  <1>2. clock + 1 \in Changes /\ 0 \in Changes
    BY <1>1, BoundAssumption DEF TypeOK, Changes
  <1>3. source' \in [Images -> Changes] /\ \A j \in Images \ {i} : source'[j] = source[j]
    BY <1>1, <1>2 DEF TypeOK
  <1>4. ASSUME NEW r \in Runs PROVE Checked(r) \subseteq Firmware
    BY DEF Checked
  <1>5. changed' \in [Runs -> SUBSET Firmware]
    <2>1. ASSUME NEW r \in Runs PROVE (IF i \in Checked(r) THEN changed[r] \cup {i} ELSE changed[r]) \in SUBSET Firmware
      BY <1>4 DEF TypeOK
    <2> QED
      BY <1>1, <2>1
  <1>6. \A r \in Runs : changed[r] \subseteq changed'[r] /\ (i \in Checked(r) => i \in changed'[r])
    BY <1>1
  <1> QED
    BY <1>1, <1>2, <1>3, <1>5, <1>6

\* Every step of the system keeps the types.
LEMMA TypeNext == TypeOK /\ [Next]_vars => TypeOK'
  <1> SUFFICES ASSUME TypeOK, [Next]_vars PROVE TypeOK'
    OBVIOUS
  <1> USE DEF files, tree, zip
  <1>0. Places = {"idle"} \cup Working \cup Ended
    BY DEF Places
  <1>1. ASSUME NEW r \in Runs, Begin(r) \/ MakeTemporary(r) PROVE TypeOK'
    <2>1. left' \in [Runs -> SUBSET Images] /\ place' \in [Runs -> {"none", "temporary", "package"}]
      BY <1>1 DEF TypeOK, Begin, MakeTemporary, Images
    <2>2. pc' \in [Runs -> Places]
      BY <1>1, GotoEffect, StepsAre DEF Begin, MakeTemporary, Places
    <2> QED
      BY <1>0, <1>1, <2>1, <2>2 DEF TypeOK, Begin, MakeTemporary
  <1>2. ASSUME NEW r \in Runs, VerifyFirmware(r) PROVE TypeOK'
    <2>1. pc' \in [Runs -> Places] /\ left' \in [Runs -> SUBSET Images]
      <3>1. "verify" \in Places /\ "check" \in Places /\ "failed" \in Places
        BY StepsAre DEF Places
      <3> QED
        BY <1>2, <3>1, RoundEffect, GotoEffect DEF VerifyFirmware, TypeOK
    <2> QED
      BY <1>0, <1>2, <2>1 DEF TypeOK, VerifyFirmware
  <1>3. ASSUME NEW r \in Runs, CheckOutput(r) \/ AdaptXml(r) \/ TestArchive(r) PROVE TypeOK'
    <2>1. pc' \in [Runs -> Places]
      BY <1>3, GotoEffect, StepsAre DEF CheckOutput, AdaptXml, TestArchive, Places
    <2> QED
      BY <1>0, <1>3, <2>1 DEF TypeOK, CheckOutput, AdaptXml, TestArchive
  <1>4. ASSUME NEW r \in Runs, CopyImage(r) PROVE TypeOK'
    <2>1. pc' \in [Runs -> Places] /\ left' \in [Runs -> SUBSET Images]
      <3>1. "copy" \in Places /\ "adapt" \in Places
        BY StepsAre DEF Places
      <3> QED
        BY <1>4, <3>1, CopyEffect, RoundEffect
    <2> QED
      BY <1>0, <1>4, <2>1, CopyEffect DEF TypeOK
  <1>5. ASSUME NEW r \in Runs, WriteChecksums(r) PROVE TypeOK'
    <2>1. pc' \in [Runs -> Places] /\ sums' \in [Runs -> Listing]
      BY <1>5, GotoEffect, StepsAre DEF TypeOK, WriteChecksums, Places
    <2> QED
      BY <1>0, <1>5, <2>1 DEF TypeOK, WriteChecksums
  <1>6. ASSUME NEW r \in Runs, PublishDirectory(r) \/ RemoveTemporary(r) PROVE TypeOK'
    <2>1. pc' \in [Runs -> Places]
      BY <1>6, GotoEffect, StepsAre DEF PublishDirectory, RemoveTemporary, Places
    <2>2. place' \in [Runs -> {"none", "temporary", "package"}]
      BY <1>6 DEF TypeOK, PublishDirectory, RemoveTemporary
    <2> QED
      BY <1>0, <1>6, <2>1, <2>2 DEF TypeOK, PublishDirectory, RemoveTemporary
  <1>7. ASSUME NEW r \in Runs, OpenArchive(r) PROVE TypeOK'
    <2>1. pc' \in [Runs -> Places] /\ left' \in [Runs -> SUBSET Images] /\ archive' \in Listing
      BY <1>7, GotoEffect, StepsAre DEF TypeOK, OpenArchive, Places, Nothing, Listing
    <2> QED
      BY <1>0, <1>7, <2>1 DEF TypeOK, OpenArchive
  <1>8. ASSUME NEW r \in Runs, ArchiveImage(r) PROVE TypeOK'
    <2>1. pc' \in [Runs -> Places] /\ left' \in [Runs -> SUBSET Images] /\ archive' \in Listing
      <3>1. "archive" \in Places /\ "test" \in Places /\ "failed" \in Places
        BY StepsAre DEF Places
      <3> QED
        BY <1>8, <3>1, ArchiveEffect, RoundEffect, GotoEffect DEF TypeOK
    <2> QED
      BY <1>0, <1>8, <2>1, ArchiveEffect DEF TypeOK
  <1>9. ASSUME NEW r \in Runs, Interrupt(r) \/ Crash(r) PROVE TypeOK'
    <2>1. pc' \in [Runs -> Places]
      BY <1>9, StepsAre DEF TypeOK, Interrupt, Crash, Goto, Places
    <2> QED
      BY <1>0, <1>9, <2>1 DEF TypeOK, Interrupt, Crash
  <1>10. ASSUME NEW r \in Runs, ClearDirectory(r) PROVE TypeOK'
    BY <1>10 DEF TypeOK, ClearDirectory
  <1>11. CASE ClearArchive
    BY <1>11 DEF TypeOK, ClearArchive, Nothing, Listing
  <1>12. ASSUME NEW i \in Images, WriteImage(i) PROVE TypeOK'
    BY <1>12, WriteEffect DEF TypeOK
  <1>13. CASE UNCHANGED vars
    BY <1>13 DEF TypeOK, vars
  <1> QED
    BY <1>1, <1>2, <1>3, <1>4, <1>5, <1>6, <1>7, <1>8, <1>9, <1>10, <1>11, <1>12, <1>13 DEF Next, Step, Finished

\* Every variable keeps its type.
THEOREM TypeCorrect == Spec => []TypeOK
  BY TypeInit, TypeNext, PTL DEF Spec

-----------------------------------------------------------------------------
(* One package, and what the run that made it knows of it.                 *)

\* The invariant holds initially.
LEMMA InvInit == Init => IInv
  <1> SUFFICES ASSUME Init PROVE IInv
    OBVIOUS
  <1>1. \A r \in Runs : pc[r] = "idle" /\ place[r] = "none" /\ held[r] = Nothing
    BY DEF Init
  <1>2. \A i \in Firmware : Nothing[i] = Absent
    BY DEF Nothing, Images
  <1> QED
    BY <1>1, <1>2, StepsAre DEF IInv, OnePackage, RunInv, PlaceInv, FirmwareInv, ContentInv

\* A run keeps its part when it takes no step, its directory is not renamed or
\* removed, no image is written, and the archive, if it is the run's, is left alone.
LEMMA Others ==
    ASSUME NEW s \in Runs, RunInv(s), pc'[s] = pc[s], left'[s] = left[s], held'[s] = held[s], sums'[s] = sums[s],
           changed'[s] = changed[s], UNCHANGED source,
           place'[s] = place[s] \/ (pc[s] \in {"refused", "failed", "stuck", "dead"}),
           UNCHANGED zip \/ pc[s] \notin {"archive"} \cup Packed
    PROVE  RunInv(s)'
  BY StepsAre DEF RunInv, PlaceInv, FirmwareInv, ContentInv, zip

\* The steps in which a run only goes on: nothing but its own step changes, or what is left to do.
LEMMA QuietStep ==
    ASSUME TypeOK, IInv, NEW r \in Runs, UNCHANGED <<files, tree, zip, changed>>, RunInv(r)',
           \A s \in Runs \ {r} : pc'[s] = pc[s] /\ left'[s] = left[s]
    PROVE  IInv'
  <1>1. OnePackage'
    BY DEF IInv, OnePackage, tree
  <1>2. ASSUME NEW s \in Runs \ {r} PROVE RunInv(s)'
    BY <1>2, Others DEF IInv, tree, files
  <1> QED
    BY <1>1, <1>2 DEF IInv

\* Up to the temporary directory: the firmware is compared.
LEMMA InvVerify ==
    ASSUME TypeOK, IInv, NEW r \in Runs, Begin(r) \/ VerifyFirmware(r) \/ CheckOutput(r)
    PROVE  IInv'
  <1> USE StepsAre DEF Places
  <1>0. RunInv(r)
    BY DEF IInv
  <1>1. CASE Begin(r)
    <2>1. pc[r] = "idle" /\ left' = [left EXCEPT ![r] = Firmware] /\ UNCHANGED <<files, tree, zip, changed>>
          /\ pc'[r] = "verify" /\ \A s \in Runs \ {r} : pc'[s] = pc[s]
      BY <1>1, GotoEffect DEF Begin
    <2>2. left'[r] = Firmware /\ \A s \in Runs \ {r} : left'[s] = left[s]
      BY <2>1 DEF TypeOK
    <2>3. RunInv(r)'
      BY <1>0, <2>1, <2>2 DEF RunInv, PlaceInv, FirmwareInv, ContentInv, files, tree
    <2> QED
      BY <2>1, <2>2, <2>3, QuietStep
  <1>2. CASE VerifyFirmware(r)
    <2>1. pc[r] = "verify" /\ UNCHANGED <<files, tree, zip, changed>>
      BY <1>2 DEF VerifyFirmware
    <2>2. PICK i \in left[r] : \/ VerifyHash(r, i) /\ Round(r, i, "verify", "check")
                               \/ Goto(r, "failed") /\ UNCHANGED left
      BY <1>2 DEF VerifyFirmware
    <2>3. CASE VerifyHash(r, i) /\ Round(r, i, "verify", "check")
      <3>1. /\ left'[r] = left[r] \ {i} /\ (pc'[r] = "verify" \/ (pc'[r] = "check" /\ left'[r] = {}))
            /\ \A s \in Runs \ {r} : pc'[s] = pc[s] /\ left'[s] = left[s]
        <4>1. "verify" \in Places /\ "check" \in Places
          OBVIOUS
        <4> HIDE DEF Places
        <4> QED
          BY <2>3, <4>1, RoundEffect
      <3>2. source[i] = 0
        BY <2>3 DEF VerifyHash
      <3>3. \A j \in Firmware \ left'[r] : source[j] = 0 \/ j \in changed[r]
        BY <1>0, <2>1, <3>1, <3>2 DEF RunInv, FirmwareInv
      <3>4. RunInv(r)'
        BY <1>0, <2>1, <3>1, <3>3 DEF RunInv, PlaceInv, FirmwareInv, ContentInv, files, tree
      <3> QED
        BY <2>1, <3>1, <3>4, QuietStep
    <2>4. CASE Goto(r, "failed") /\ UNCHANGED left
      <3>1. pc'[r] = "failed" /\ \A s \in Runs \ {r} : pc'[s] = pc[s] /\ left'[s] = left[s]
        BY <2>4, GotoEffect
      <3>2. RunInv(r)'
        BY <1>0, <2>1, <3>1 DEF RunInv, PlaceInv, FirmwareInv, ContentInv, files, tree
      <3> QED
        BY <2>1, <3>1, <3>2, QuietStep
    <2> QED
      BY <2>2, <2>3, <2>4
  <1>3. CASE CheckOutput(r)
    <2>1. pc[r] = "check" /\ UNCHANGED <<files, left, tree, zip, changed>> /\ pc'[r] \in {"refused", "mkdir"}
          /\ \A s \in Runs \ {r} : pc'[s] = pc[s]
      BY <1>3, GotoEffect DEF CheckOutput
    <2>2. RunInv(r)'
      BY <1>0, <2>1 DEF RunInv, PlaceInv, FirmwareInv, ContentInv, files, tree
    <2> QED
      BY <2>1, <2>2, QuietStep
  <1> QED
    BY <1>1, <1>2, <1>3

\* The temporary directory: made, filled, adapted and summed up, or removed.
LEMMA InvCopy ==
    ASSUME TypeOK, IInv, NEW r \in Runs,
           MakeTemporary(r) \/ CopyImage(r) \/ AdaptXml(r) \/ WriteChecksums(r) \/ RemoveTemporary(r)
    PROVE  IInv'
  <1> USE StepsAre DEF Places
  <1>0. RunInv(r) /\ OnePackage /\ \A s \in Runs : RunInv(s)
    BY DEF IInv
  <1>1. CASE MakeTemporary(r)
    <2>1. /\ pc[r] = "mkdir" /\ pc'[r] = "copy" /\ UNCHANGED <<files, held, sums, zip, changed>>
          /\ place' = [place EXCEPT ![r] = "temporary"] /\ left' = [left EXCEPT ![r] = Images]
          /\ \A s \in Runs \ {r} : pc'[s] = pc[s]
      BY <1>1, GotoEffect DEF MakeTemporary
    <2>2. left'[r] = Images /\ place'[r] = "temporary" /\ \A s \in Runs \ {r} : left'[s] = left[s] /\ place'[s] = place[s]
      BY <2>1 DEF TypeOK
    <2>3. OnePackage'
      BY <1>0, <2>2 DEF OnePackage
    <2>4. RunInv(r)'
      BY <1>0, <2>1, <2>2 DEF RunInv, PlaceInv, FirmwareInv, ContentInv, files
    <2>5. ASSUME NEW s \in Runs \ {r} PROVE RunInv(s)'
      BY <1>0, <2>1, <2>2, Others DEF files
    <2> QED
      BY <2>3, <2>4, <2>5 DEF IInv
  <1>2. CASE CopyImage(r)
    <2>1. /\ pc[r] = "copy" /\ UNCHANGED <<files, place, sums, zip, changed>> /\ held' \in [Runs -> Listing]
          /\ \A s \in Runs \ {r} : held'[s] = held[s]
      BY <1>2, CopyEffect
    <2>2. PICK i \in left[r] : Round(r, i, "copy", "adapt") /\ held'[r] = [held[r] EXCEPT ![i] = source[i]]
      BY <1>2, CopyEffect
    <2>3. /\ left'[r] = left[r] \ {i} /\ (pc'[r] = "copy" \/ (pc'[r] = "adapt" /\ left'[r] = {}))
          /\ \A s \in Runs \ {r} : pc'[s] = pc[s] /\ left'[s] = left[s]
      <3>1. "copy" \in Places /\ "adapt" \in Places
        OBVIOUS
      <3> HIDE DEF Places
      <3> QED
        BY <2>2, <3>1, RoundEffect
    <2>4. held'[r][i] = source[i] /\ \A j \in Images \ {i} : held'[r][j] = held[r][j]
      BY <2>2 DEF TypeOK, Listing
    <2>5. source[i] # Absent
      BY AbsentAssumption DEF TypeOK, Changes
    <2>6. \A j \in Images \ left'[r] : held'[r][j] # Absent
      BY <1>0, <2>1, <2>3, <2>4, <2>5 DEF RunInv, ContentInv
    <2>7. \A j \in Firmware : held'[r][j] \in {0, Absent} \/ j \in changed[r]
      BY <1>0, <2>1, <2>4 DEF RunInv, FirmwareInv, Images
    <2>8. RunInv(r)'
      BY <1>0, <2>1, <2>3, <2>6, <2>7 DEF RunInv, PlaceInv, FirmwareInv, ContentInv, files
    <2>9. ASSUME NEW s \in Runs \ {r} PROVE RunInv(s)'
      BY <1>0, <2>1, <2>3, Others DEF files
    <2> QED
      BY <1>0, <2>1, <2>8, <2>9 DEF IInv, OnePackage
  <1>3. CASE AdaptXml(r)
    <2>1. pc[r] = "adapt" /\ pc'[r] \in {"sums", "cleanup"} /\ UNCHANGED <<files, left, tree, zip, changed>>
          /\ \A s \in Runs \ {r} : pc'[s] = pc[s]
      BY <1>3, GotoEffect DEF AdaptXml
    <2>2. RunInv(r)'
      BY <1>0, <2>1 DEF RunInv, PlaceInv, FirmwareInv, ContentInv, files, tree
    <2> QED
      BY <2>1, <2>2, QuietStep
  <1>4. CASE WriteChecksums(r)
    <2>1. /\ pc[r] = "sums" /\ pc'[r] = "publish" /\ UNCHANGED <<files, left, place, held, zip, changed>>
          /\ sums' = [sums EXCEPT ![r] = held[r]]
          /\ \A s \in Runs \ {r} : pc'[s] = pc[s]
      BY <1>4, GotoEffect DEF WriteChecksums
    <2>2. sums'[r] = held[r] /\ \A s \in Runs \ {r} : sums'[s] = sums[s]
      BY <2>1 DEF TypeOK
    <2>3. RunInv(r)'
      BY <1>0, <2>1, <2>2 DEF RunInv, PlaceInv, FirmwareInv, ContentInv, files
    <2>4. ASSUME NEW s \in Runs \ {r} PROVE RunInv(s)'
      BY <1>0, <2>1, <2>2, Others DEF files
    <2> QED
      BY <1>0, <2>1, <2>3, <2>4 DEF IInv, OnePackage
  <1>5. CASE RemoveTemporary(r)
    <2>1. /\ pc[r] = "cleanup" /\ pc'[r] = "failed" /\ UNCHANGED <<files, left, held, sums, zip, changed>>
          /\ place' = [place EXCEPT ![r] = "none"]
          /\ \A s \in Runs \ {r} : pc'[s] = pc[s]
      BY <1>5, GotoEffect DEF RemoveTemporary
    <2>2. place'[r] = "none" /\ \A s \in Runs \ {r} : place'[s] = place[s]
      BY <2>1 DEF TypeOK
    <2>3. RunInv(r)'
      BY <1>0, <2>1, <2>2 DEF RunInv, PlaceInv, FirmwareInv, ContentInv, files
    <2>4. ASSUME NEW s \in Runs \ {r} PROVE RunInv(s)'
      BY <1>0, <2>1, <2>2, Others DEF files
    <2> QED
      BY <1>0, <2>2, <2>3, <2>4 DEF IInv, OnePackage
  <1> QED
    BY <1>1, <1>2, <1>3, <1>4, <1>5

\* The rename is to a name nothing has, so there is one package still.
LEMMA InvPublish ==
    ASSUME TypeOK, IInv, NEW r \in Runs, PublishDirectory(r)
    PROVE  IInv'
  <1> USE StepsAre DEF Places
  <1>0. OnePackage /\ \A s \in Runs : RunInv(s)
    BY DEF IInv
  <1>1. pc[r] = "publish" /\ UNCHANGED <<files, left, held, sums, zip, changed>>
    BY DEF PublishDirectory
  <1>2. CASE Package = None
    <2>1. /\ pc'[r] = "open" /\ place' = [place EXCEPT ![r] = "package"]
          /\ \A s \in Runs \ {r} : pc'[s] = pc[s]
      BY <1>2, GotoEffect DEF PublishDirectory
    <2>2. \A s \in Runs : place[s] # "package"
      BY <1>0, <1>2, PackageIs, NoneAssumption
    <2>3. place'[r] = "package" /\ \A s \in Runs \ {r} : place'[s] = place[s]
      BY <2>1 DEF TypeOK
    <2>4. OnePackage'
      BY <2>2, <2>3 DEF OnePackage
    <2>5. RunInv(r)'
      BY <1>0, <1>1, <2>1, <2>3 DEF RunInv, PlaceInv, FirmwareInv, ContentInv, files
    <2>6. ASSUME NEW s \in Runs \ {r} PROVE RunInv(s)'
      BY <1>0, <1>1, <2>1, <2>3, Others DEF files
    <2> QED
      BY <2>4, <2>5, <2>6 DEF IInv
  <1>3. CASE Package # None
    <2>1. pc'[r] = "cleanup" /\ UNCHANGED place /\ \A s \in Runs \ {r} : pc'[s] = pc[s]
      BY <1>3, GotoEffect DEF PublishDirectory
    <2>2. RunInv(r)'
      BY <1>0, <1>1, <2>1 DEF RunInv, PlaceInv, FirmwareInv, ContentInv, files
    <2> QED
      BY <1>1, <2>1, <2>2, QuietStep DEF tree
  <1> QED
    BY <1>2, <1>3

\* The run whose directory is the package is the only one at the archive.
LEMMA AloneAtArchive ==
    ASSUME IInv, NEW r \in Runs, NEW s \in Runs, pc[r] \in Archiving, pc[s] \in Archiving \cup {"done"}
    PROVE  r = s
  BY DEF IInv, OnePackage, RunInv, PlaceInv

\* The archive is opened, filled from the package and tested.
LEMMA InvArchive ==
    ASSUME TypeOK, IInv, NEW r \in Runs, OpenArchive(r) \/ ArchiveImage(r) \/ TestArchive(r)
    PROVE  IInv'
  <1> USE StepsAre DEF Places
  <1>0. OnePackage /\ \A s \in Runs : RunInv(s)
    BY DEF IInv
  <1>1. \A s \in Runs \ {r} : pc[s] \notin {"archive"} \cup Packed
    BY AloneAtArchive DEF OpenArchive, ArchiveImage, TestArchive
  <1>2. CASE OpenArchive(r)
    <2>1. /\ pc[r] = "open" /\ pc'[r] = "archive" /\ UNCHANGED <<files, tree, changed>> /\ maker' = r
          /\ left' = [left EXCEPT ![r] = Images]
          /\ \A s \in Runs \ {r} : pc'[s] = pc[s]
      BY <1>2, GotoEffect DEF OpenArchive
    <2>2. left'[r] = Images /\ \A s \in Runs \ {r} : left'[s] = left[s]
      BY <2>1 DEF TypeOK
    <2>3. RunInv(r)'
      BY <1>0, <2>1, <2>2 DEF RunInv, PlaceInv, FirmwareInv, ContentInv, files, tree
    <2>4. ASSUME NEW s \in Runs \ {r} PROVE RunInv(s)'
      BY <1>0, <1>1, <2>1, <2>2, Others DEF files, tree
    <2> QED
      BY <1>0, <2>1, <2>3, <2>4 DEF IInv, OnePackage, tree
  <1>3. CASE ArchiveImage(r)
    <2>1. pc[r] = "archive" /\ UNCHANGED <<files, tree, maker, changed>>
      BY <1>3, ArchiveEffect
    <2>2. Package = r
      BY <1>0, <2>1, PackageIs DEF RunInv, PlaceInv
    <2>3. PICK i \in left[r] : archive' \in Listing /\ archive' = [archive EXCEPT ![i] = held[r][i]] /\ Round(r, i, "archive", "test")
      BY <1>3, <2>2, ArchiveEffect, NoneAssumption
    <2>4. /\ left'[r] = left[r] \ {i} /\ (pc'[r] = "archive" \/ (pc'[r] = "test" /\ left'[r] = {}))
          /\ \A s \in Runs \ {r} : pc'[s] = pc[s] /\ left'[s] = left[s]
      <3>1. "archive" \in Places /\ "test" \in Places
        OBVIOUS
      <3> HIDE DEF Places
      <3> QED
        BY <2>3, <3>1, RoundEffect
    <2>5. \A j \in Images \ left'[r] : archive'[j] = held[r][j]
      BY <1>0, <2>1, <2>3, <2>4 DEF TypeOK, Listing, RunInv, ContentInv
    <2>6. left'[r] = {} => archive' = held[r]
      BY <2>3, <2>5 DEF TypeOK, Listing
    <2>7. RunInv(r)'
      BY <1>0, <2>1, <2>4, <2>5, <2>6 DEF RunInv, PlaceInv, FirmwareInv, ContentInv, files, tree
    <2>8. ASSUME NEW s \in Runs \ {r} PROVE RunInv(s)'
      BY <1>0, <1>1, <2>1, <2>4, Others DEF files, tree
    <2> QED
      BY <1>0, <2>1, <2>7, <2>8 DEF IInv, OnePackage, tree
  <1>4. CASE TestArchive(r)
    <2>1. /\ pc[r] = "test" /\ pc'[r] = "done" /\ UNCHANGED <<files, left, tree, zip, changed>>
          /\ \A s \in Runs \ {r} : pc'[s] = pc[s]
      BY <1>4, GotoEffect DEF TestArchive
    <2>2. RunInv(r)'
      BY <1>0, <2>1 DEF RunInv, PlaceInv, FirmwareInv, ContentInv, files, tree, zip
    <2> QED
      BY <2>1, <2>2, QuietStep
  <1> QED
    BY <1>2, <1>3, <1>4

\* The environment: a run is cut short, an image is written, what nobody reported is removed.
LEMMA InvEnvironment ==
    ASSUME TypeOK, IInv,
           \/ \E r \in Runs : Interrupt(r) \/ Crash(r) \/ ClearDirectory(r)
           \/ ClearArchive
           \/ \E i \in Images : WriteImage(i)
    PROVE  IInv'
  <1> USE StepsAre DEF Places
  <1>0. OnePackage /\ \A s \in Runs : RunInv(s)
    BY DEF IInv
  <1>1. ASSUME NEW r \in Runs, Interrupt(r) \/ Crash(r) PROVE IInv'
    <2>1. UNCHANGED <<files, left, tree, zip, changed>>
      BY <1>1 DEF Interrupt, Crash
    <2>2. /\ pc'[r] \in {"stuck", "failed", "dead"} \/ (pc'[r] = "cleanup" /\ pc[r] \in Unpublished \ {"mkdir"})
          /\ \A s \in Runs \ {r} : pc'[s] = pc[s]
      BY <1>1 DEF TypeOK, Interrupt, Crash, Goto
    <2>3. RunInv(r)'
      BY <1>0, <2>1, <2>2 DEF RunInv, PlaceInv, FirmwareInv, ContentInv, files, tree
    <2> QED
      BY <2>1, <2>2, <2>3, QuietStep
  <1>2. ASSUME NEW r \in Runs, ClearDirectory(r) PROVE IInv'
    <2>1. /\ pc[r] \in {"refused", "failed", "stuck", "dead"} /\ place' = [place EXCEPT ![r] = "none"]
          /\ UNCHANGED <<files, pc, left, held, sums, zip, changed>>
      BY <1>2 DEF ClearDirectory, Abandoned
    <2>2. place'[r] = "none" /\ \A s \in Runs \ {r} : place'[s] = place[s]
      BY <2>1 DEF TypeOK
    <2>3. ASSUME NEW s \in Runs PROVE RunInv(s)'
      BY <1>0, <2>1, <2>2, Others DEF files
    <2> QED
      BY <1>0, <2>2, <2>3 DEF IInv, OnePackage
  <1>3. CASE ClearArchive
    <2>1. maker # None /\ pc[maker] \in {"refused", "failed", "stuck", "dead"} /\ UNCHANGED <<files, pc, left, tree, changed>>
      BY <1>3 DEF ClearArchive, Abandoned
    <2>2. ASSUME NEW s \in Runs PROVE RunInv(s)'
      <3>1. pc[s] \notin {"archive"} \cup Packed
        BY <1>0, <2>1 DEF RunInv, ContentInv
      <3> QED
        BY <1>0, <2>1, <3>1, Others DEF files, tree
    <2> QED
      BY <1>0, <2>1, <2>2 DEF IInv, OnePackage, tree
  <1>4. ASSUME NEW i \in Images, WriteImage(i) PROVE IInv'
    <2>1. /\ UNCHANGED <<pc, left, tree, zip>>
          /\ \A j \in Images \ {i} : source'[j] = source[j]
          /\ \A r \in Runs : /\ changed[r] \subseteq changed'[r]
                             /\ i \in Checked(r) => i \in changed'[r]
      BY <1>4, WriteEffect
    <2>2. ASSUME NEW r \in Runs PROVE FirmwareInv(r)'
      <3>1. FirmwareInv(r)
        BY <1>0 DEF RunInv
      <3>2. pc[r] = "verify" => \A j \in Firmware \ left[r] : source'[j] = 0 \/ j \in changed'[r]
        BY <2>1, <3>1 DEF FirmwareInv, Checked, Images
      <3>3. pc[r] \in {"check", "mkdir", "copy"} => \A j \in Firmware : source'[j] = 0 \/ j \in changed'[r]
        BY <2>1, <3>1 DEF FirmwareInv, Checked, Images
      <3>4. \A j \in Firmware : held[r][j] \in {0, Absent} \/ j \in changed'[r]
        BY <2>1, <3>1 DEF FirmwareInv
      <3> QED
        BY <2>1, <3>2, <3>3, <3>4 DEF FirmwareInv, tree
    <2>3. ASSUME NEW r \in Runs PROVE PlaceInv(r)' /\ ContentInv(r)'
      BY <1>0, <2>1 DEF RunInv, PlaceInv, ContentInv, tree, zip
    <2> QED
      BY <1>0, <2>1, <2>2, <2>3 DEF IInv, RunInv, OnePackage, tree
  <1> QED
    BY <1>1, <1>2, <1>3, <1>4

\* Every step of the system keeps the invariant.
LEMMA InvNext == TypeOK /\ IInv /\ [Next]_vars => IInv'
  <1> SUFFICES ASSUME TypeOK, IInv, [Next]_vars PROVE IInv'
    OBVIOUS
  <1>1. CASE UNCHANGED vars
    BY <1>1 DEF vars, files, tree, zip, IInv, OnePackage, RunInv, PlaceInv, FirmwareInv, ContentInv
  <1> QED
    BY <1>1, InvVerify, InvCopy, InvPublish, InvArchive, InvEnvironment DEF Next, Step, Finished

\* The invariant holds in every reachable state.
LEMMA Invariance == Spec => []IInv
  BY InvInit, InvNext, TypeCorrect, PTL DEF Spec

\* A package whose run reported success keeps its path, its directory, checksums
\* and archive are the same images, and its firmware is the manifest's or was
\* written after it had been checked, whatever other runs and the operator do.
THEOREM ReportedPackagesAgree == Spec => []ReportedPackageAgrees
  <1>1. TypeOK /\ IInv => ReportedPackageAgrees
    <2> SUFFICES ASSUME TypeOK, IInv, NEW r \in Runs, pc[r] = "done"
                 PROVE  /\ Package = r /\ maker = r
                        /\ \A i \in Images : held[r][i] # Absent
                        /\ archive = held[r] /\ sums[r] = held[r]
                        /\ \A i \in Firmware : held[r][i] = 0 \/ i \in changed[r]
      BY DEF ReportedPackageAgrees
    <2>1. Package = r
      BY PackageIs DEF IInv, RunInv, PlaceInv
    <2>2. maker = r /\ archive = held[r] /\ sums[r] = held[r] /\ \A i \in Images : held[r][i] # Absent
      BY StepsAre DEF IInv, RunInv, ContentInv
    <2>3. \A i \in Firmware : held[r][i] = 0 \/ i \in changed[r]
      BY <2>2 DEF IInv, RunInv, FirmwareInv, Images
    <2> QED
      BY <2>1, <2>2, <2>3
  <1> QED
    BY <1>1, Invariance, TypeCorrect, PTL
=============================================================================
