------------------------ MODULE ReleaseAcceptanceProofs ------------------------
(***************************************************************************)
(* Proofs about ReleaseAcceptance, for any contents and any number of      *)
(* parts that do not hold what they should.                                *)
(***************************************************************************)
EXTENDS ReleaseAcceptance, TLAPS

-----------------------------------------------------------------------------
(* What has been found out once a check is behind.                         *)

PastFastboot    == {"signature", "accepted"}
PastBinding     == PastFastboot \cup {"otapartitions", "otafirmware", "otaboot", "fastboot"}
PastOtaCerts    == PastBinding \cup {"otametadata", "otabinding"}
PastKernel      == PastOtaCerts \cup {"otacerts"}
PastAvb         == PastKernel \cup {"buildboot", "source", "kernel"}
PastPackages    == PastAvb \cup {"avb"}
PastTargetFiles == PastPackages \cup {"metadata", "packages"}
PastKeyPlan     == PastTargetFiles \cup {"targetfiles"}
PastPolicy      == PastKeyPlan \cup {"report", "keyplan"}
PastProvenance  == PastPolicy \cup {"policy"}

Recorded == Same("record", "unsigned", BuildParts)
Known    == In("signed", "policy") = In("bundle", "app")
Planned  == Same("signed", "unsigned", {"meta"})
Pinned   == Same("signed", "manifest", {"radio", "lk"})
Packaged == In("signed", "packages") = In("bundle", "app")
Rooted   == RootVbmeta
Resigned == ~PreFix("signed") /\ BootResigned
Trusting == In("signed", "otacerts") = In("bundle", "releasekey")
Bound    == (\A p \in Partitions : Image("ota", p) = Image("signed", p)) /\ FirmwarePadded
Flashed  == FastbootInfo /\ FastbootImages
Signed   == In("ota", "signature") = In("bundle", "releasekey")

FoundInv == /\ pc \in PastProvenance  => Recorded
            /\ pc \in PastPolicy      => Known
            /\ pc \in PastKeyPlan     => Planned
            /\ pc \in PastTargetFiles => Pinned
            /\ pc \in PastPackages    => Packaged
            /\ pc \in PastAvb         => Rooted
            /\ pc \in PastKernel      => Resigned
            /\ pc \in PastOtaCerts    => Trusting
            /\ pc \in PastBinding     => Bound
            /\ pc \in PastFastboot    => Flashed
            /\ pc = "accepted"        => Signed

\* What is found out about the artifacts stays so: no check changes them.
LEMMA FoundStays ==
    ASSUME UNCHANGED artifacts
    PROVE  /\ Recorded' <=> Recorded
           /\ Known' <=> Known
           /\ Planned' <=> Planned
           /\ Pinned' <=> Pinned
           /\ Packaged' <=> Packaged
           /\ Rooted' <=> Rooted
           /\ Resigned' <=> Resigned
           /\ Trusting' <=> Trusting
           /\ Bound' <=> Bound
           /\ Flashed' <=> Flashed
           /\ Signed' <=> Signed
  <1> content' = content /\ sparse' = sparse /\ flashed' = flashed /\ tail' = tail
    BY DEF artifacts
  <1>1. Recorded' <=> Recorded
    BY DEF Recorded, Same, In
  <1>2. Pinned' <=> Pinned
    BY DEF Pinned, Same, In
  <1>3. Rooted' <=> Rooted
    BY DEF Rooted, RootVbmeta, AvbChainHolds, In
  <1>4. Resigned' <=> Resigned
    BY DEF Resigned, PreFix, BootResigned, Same, In
  <1>5. Bound' <=> Bound
    BY DEF Bound, FirmwarePadded, Image, In
  <1>6. Flashed' <=> Flashed
    BY DEF Flashed, FastbootInfo, FastbootImages, Same, Image, In
  <1>7. Signed' <=> Signed
    BY DEF Signed, In
  <1>8. (Known' <=> Known) /\ (Packaged' <=> Packaged) /\ (Trusting' <=> Trusting)
    BY DEF Known, Packaged, Trusting, In
  <1>9. Planned' <=> Planned
    BY DEF Planned, Same, In
  <1> QED
    BY <1>1, <1>2, <1>3, <1>4, <1>5, <1>6, <1>7, <1>8, <1>9

-----------------------------------------------------------------------------
(* Type correctness.                                                       *)

\* The parts that the checks look at, each in the image that holds it.
LEMMA EachPart ==
    /\ \A part \in {"kernel", "trust", "bootkey"} : part \in ImageParts["boot"]
    /\ \A part \in {"rootkey", "chain"} : part \in ImageParts["vbmeta"]
    /\ "digest" \in ImageParts["vbmeta_system"]
    /\ "system" \in ImageParts["system"]
    /\ "lk" \in ImageParts["lk"]
    /\ {"boot", "vbmeta", "vbmeta_system", "system", "lk"} \subseteq Partitions
  BY DEF ImageParts, Partitions

\* What a good release holds in a part is a content.
LEMMA ProperIsContent ==
    ASSUME NEW slot \in Slots
    PROVE  Proper(slot) \in Contents
  BY ContentsAssumption DEF Proper

\* The verdict starts with values of the types.
LEMMA InitTypeOK == Init => TypeOK
  BY ProperIsContent, EachPart DEF Init, TypeOK, Checks, RequiredFlash, Dynamic

\* What a check does: the next one follows, or the release is rejected.
LEMMA CheckGoesOn ==
    ASSUME NEW step, NEW passes, NEW following \in Checks \cup {"accepted"},
           TypeOK, Check(step, passes, following)
    PROVE  TypeOK'
  BY DEF Check, TypeOK, artifacts, Checks

\* No check takes a variable out of its type.
LEMMA StepTypeOK == TypeOK /\ [Next]_vars => TypeOK'
  <1> SUFFICES ASSUME TypeOK, [Next]_vars PROVE TypeOK'
    OBVIOUS
  <1>1. CASE Spoil
    BY <1>1 DEF Spoil, TypeOK
  <1>2. CASE SpoilFlash
    BY <1>2 DEF SpoilFlash, TypeOK
  <1>3. CASE Begin
    BY <1>3 DEF Begin, TypeOK, Checks, artifacts
  <1>4. CASE CheckArchives \/ CheckProvenance \/ CheckPolicy \/ CheckReport \/ CheckKeyPlan
    BY <1>4, CheckGoesOn DEF CheckArchives, CheckProvenance, CheckPolicy, CheckReport, CheckKeyPlan, Checks
  <1>5. CASE CompareTargetFiles \/ CheckMetadata \/ CheckPackages \/ CheckAvbImages \/ CheckBuildBoot
    BY <1>5, CheckGoesOn DEF CompareTargetFiles, CheckMetadata, CheckPackages, CheckAvbImages, CheckBuildBoot, Checks
  <1>6. CASE CheckKernelSource \/ CheckKernel \/ CheckOtaCerts \/ CheckOtaMetadata \/ BindOtaPartitions
    BY <1>6, CheckGoesOn DEF CheckKernelSource, CheckKernel, CheckOtaCerts, CheckOtaMetadata, BindOtaPartitions, Checks
  <1>7. CASE CheckOtaPartitions \/ CheckOtaFirmware \/ CheckOtaBoot \/ CheckFastboot \/ CheckOtaSignature
    BY <1>7, CheckGoesOn DEF CheckOtaPartitions, CheckOtaFirmware, CheckOtaBoot, CheckFastboot, CheckOtaSignature, Checks
  <1>8. CASE Finished \/ UNCHANGED vars
    BY <1>8 DEF Finished, vars, artifacts, TypeOK
  <1> QED
    BY <1>1, <1>2, <1>3, <1>4, <1>5, <1>6, <1>7, <1>8 DEF Next

\* Every variable of the verdict keeps its type.
THEOREM TypeCorrect == Spec => []TypeOK
  BY InitTypeOK, StepTypeOK, PTL DEF Spec

-----------------------------------------------------------------------------
(* What each check finds out.                                              *)

\* Before the first check nothing has been found out.
LEMMA InitFound == Init => FoundInv
  BY DEF Init, FoundInv, PastProvenance, PastPolicy, PastKeyPlan, PastTargetFiles, PastPackages, PastAvb,
         PastKernel, PastOtaCerts, PastBinding, PastFastboot

\* A step gets past a check only with what it found out, and takes nothing back.
LEMMA StepFound == FoundInv /\ [Next]_vars => FoundInv'
  <1> SUFFICES ASSUME FoundInv, [Next]_vars PROVE FoundInv'
    OBVIOUS
  <1> USE DEF FoundInv, PastProvenance, PastPolicy, PastKeyPlan, PastTargetFiles, PastPackages, PastAvb,
              PastKernel, PastOtaCerts, PastBinding, PastFastboot, Check
  <1>1. CASE Spoil \/ SpoilFlash
    BY <1>1 DEF Spoil, SpoilFlash, Spoilable
  <1>2. CASE Begin
    BY <1>2 DEF Begin
  <1>3. CASE CheckArchives
    BY <1>3 DEF CheckArchives
  <1>4. CASE CheckProvenance
    BY <1>4, FoundStays DEF CheckProvenance, Recorded
  <1>5. CASE CheckPolicy \/ CheckReport
    BY <1>5, FoundStays DEF CheckPolicy, CheckReport, Known
  <1>6. CASE CheckKeyPlan
    BY <1>6, FoundStays DEF CheckKeyPlan, Planned
  <1>7. CASE CompareTargetFiles
    BY <1>7, FoundStays DEF CompareTargetFiles, Pinned
  <1>8. CASE CheckMetadata \/ CheckPackages
    BY <1>8, FoundStays DEF CheckMetadata, CheckPackages, Packaged
  <1>9. CASE CheckAvbImages
    BY <1>9, FoundStays DEF CheckAvbImages, Rooted
  <1>10. CASE CheckBuildBoot \/ CheckKernelSource
    BY <1>10, FoundStays DEF CheckBuildBoot, CheckKernelSource
  <1>11. CASE CheckKernel
    BY <1>11, FoundStays DEF CheckKernel, Resigned
  <1>12. CASE CheckOtaCerts \/ CheckOtaMetadata
    BY <1>12, FoundStays DEF CheckOtaCerts, CheckOtaMetadata, Trusting
  <1>13. CASE BindOtaPartitions
    BY <1>13, FoundStays DEF BindOtaPartitions, Bound
  <1>14. CASE CheckOtaPartitions \/ CheckOtaFirmware \/ CheckOtaBoot
    BY <1>14, FoundStays DEF CheckOtaPartitions, CheckOtaFirmware, CheckOtaBoot
  <1>15. CASE CheckFastboot
    BY <1>15, FoundStays DEF CheckFastboot, Flashed
  <1>16. CASE CheckOtaSignature
    BY <1>16, FoundStays DEF CheckOtaSignature, Signed
  <1>17. CASE Finished \/ UNCHANGED vars
    BY <1>17, FoundStays DEF Finished, vars
  <1> QED
    BY <1>1, <1>2, <1>3, <1>4, <1>5, <1>6, <1>7, <1>8, <1>9, <1>10, <1>11, <1>12, <1>13,
       <1>14, <1>15, <1>16, <1>17 DEF Next

\* In every state, what the checks gone through found out holds.
LEMMA FoundAlways == Spec => []FoundInv
  BY InitFound, StepFound, PTL DEF Spec

-----------------------------------------------------------------------------
(* What they add up to.                                                    *)

\* The parts of an image are equal when the images are.
LEMMA SameImage ==
    ASSUME NEW a, NEW b, NEW p \in Partitions, NEW part \in ImageParts[p],
           Image(a, p) = Image(b, p)
    PROVE  In(a, part) = In(b, part)
  BY DEF Image

\* All parts of the images in a package of an accepted release are those of
\* the signed target-files.
LEMMA PackagesHoldTheSigned ==
    ASSUME Bound, Flashed, NEW a \in Delivered
    PROVE  \A part \in {"kernel", "trust", "bootkey", "rootkey", "chain", "digest", "system", "lk"} :
              In(a, part) = In("signed", part)
  <1>1. \A p \in Partitions : Image(a, p) = Image("signed", p)
    BY DEF Bound, Flashed, FastbootImages, Delivered
  <1> QED
    BY <1>1, EachPart, SameImage

\* What fastboot flashes from the package of an accepted release is all but
\* the firmware, and is what the OTA installs; the OTA's firmware is as pinned.
THEOREM SameRelease == Spec => []SameReleaseEitherWay
  <1>1. FoundInv => SameReleaseEitherWay
    <2> SUFFICES ASSUME FoundInv, pc = "accepted"
                 PROVE  /\ flashed = Partitions \ Firmware
                        /\ \A p \in flashed : Image("ota", p) = Image("fastboot", p)
                        /\ tail # "data"
                        /\ \A p \in Firmware : Same("ota", "manifest", ImageParts[p])
      BY DEF SameReleaseEitherWay
    <2>1. Bound /\ Flashed /\ Pinned
      BY DEF FoundInv, PastTargetFiles, PastPackages, PastAvb, PastKernel, PastOtaCerts,
             PastBinding, PastFastboot
    <2>2. flashed = Partitions \ Firmware
      <3>1. Partitions = {"boot", "vbmeta", "vbmeta_system", "system", "lk"}
        BY DEF Partitions, ImageParts
      <3>2. flashed = {"boot", "vbmeta", "vbmeta_system", "system"}
        BY <2>1 DEF Flashed, FastbootInfo, RequiredFlash, Dynamic
      <3> QED
        BY <3>1, <3>2 DEF Firmware
    <2>3. \A p \in Partitions : Image("ota", p) = Image("fastboot", p)
      BY <2>1 DEF Bound, Flashed, FastbootImages
    <2>4. In("ota", "lk") = In("signed", "lk")
      BY <2>1, PackagesHoldTheSigned DEF Delivered
    <2>5. Same("ota", "manifest", ImageParts["lk"])
      <3>1. ImageParts["lk"] = {"lk"}
        BY DEF ImageParts
      <3> QED
        BY <2>1, <2>4, <3>1 DEF Pinned, Same
    <2>6. tail # "data"
      BY <2>1 DEF Bound, FirmwarePadded
    <2> QED
      BY <2>2, <2>3, <2>5, <2>6 DEF Firmware
  <1> QED
    BY <1>1, FoundAlways, PTL

\* Both packages of an accepted release boot the kernel of the record.
THEOREM RecordedKernel == Spec => []KernelIsTheRecorded
  <1>1. FoundInv => KernelIsTheRecorded
    <2> SUFFICES ASSUME FoundInv, pc = "accepted", NEW a \in Delivered
                 PROVE  Same(a, "record", {"kernel"}) /\ ~PreFix(a)
      BY DEF KernelIsTheRecorded
    <2>1. Bound /\ Flashed /\ Resigned /\ Recorded
      BY DEF FoundInv, PastProvenance, PastPolicy, PastKeyPlan, PastTargetFiles, PastPackages, PastAvb,
             PastKernel, PastOtaCerts, PastBinding, PastFastboot
    <2>2. In(a, "kernel") = In("signed", "kernel") /\ In(a, "trust") = In("signed", "trust")
      BY <2>1, PackagesHoldTheSigned
    <2>3. In("signed", "kernel") = In("record", "kernel")
      BY <2>1 DEF Resigned, BootResigned, Recorded, Same, BuildParts
    <2> QED
      BY <2>1, <2>2, <2>3 DEF Resigned, PreFix, Same
  <1> QED
    BY <1>1, FoundAlways, PTL

\* A device installed from either package of an accepted release can start
\* and be updated.
THEOREM DeviceStartsAndUpdates == Spec => []StartsAndUpdates
  <1>1. FoundInv => StartsAndUpdates
    <2> SUFFICES ASSUME FoundInv, pc = "accepted" PROVE StartsAndUpdates
      BY DEF StartsAndUpdates
    <2>1. Bound /\ Flashed /\ Resigned /\ Signed
      BY DEF FoundInv, PastKernel, PastOtaCerts, PastBinding, PastFastboot
    <2>2. Rooted
      BY DEF FoundInv, PastAvb, PastKernel, PastOtaCerts, PastBinding, PastFastboot
    <2>3. Recorded /\ Known /\ Planned /\ Packaged /\ Trusting
      BY DEF FoundInv, PastProvenance, PastPolicy, PastKeyPlan, PastTargetFiles, PastPackages, PastAvb,
             PastKernel, PastOtaCerts, PastBinding, PastFastboot
    <2>4. ASSUME NEW a \in Delivered
          PROVE  /\ AvbChainHolds(a)
                 /\ In(a, "rootkey") = In("bundle", "avb_vbmeta")
                 /\ In(a, "trust") = In("ota", "signature")
      <3>1. \A part \in {"trust", "bootkey", "rootkey", "chain", "digest", "system"} :
              In(a, part) = In("signed", part)
        BY <2>1, PackagesHoldTheSigned
      <3>2. AvbChainHolds(a) /\ In(a, "rootkey") = In("bundle", "avb_vbmeta")
        BY <2>2, <3>1 DEF Rooted, RootVbmeta, AvbChainHolds
      <3>3. In(a, "trust") = In("ota", "signature")
        BY <2>1, <3>1 DEF Resigned, BootResigned, Signed
      <3> QED
        BY <3>2, <3>3
    <2>5. In("signed", "otacerts") = In("ota", "signature")
      BY <2>1, <2>3 DEF Trusting, Signed
    <2>6. In("signed", "policy") = In("signed", "packages")
      BY <2>3 DEF Known, Packaged
    <2>7. Same("signed", "record", {"meta"})
      BY <2>3 DEF Planned, Recorded, Same, BuildParts
    <2> QED
      BY <2>4, <2>5, <2>6, <2>7 DEF StartsAndUpdates
  <1> QED
    BY <1>1, FoundAlways, PTL

-----------------------------------------------------------------------------
(* The checks do not contradict each other.                                *)

\* A release that is in order, in a form the verifier can read.
Good == /\ Wrong = {}
        /\ Misflashed = {}
        /\ tail # "data"
        /\ sparse = {} \/ (sparse = {"signed", "fastboot"} /\ converter)

Artifacts == {"unsigned", "signed", "ota", "fastboot", "bundle", "manifest", "record", "fixed"}

\* A part of an artifact is a slot of the release.
LEMMA SlotOfPart ==
    ASSUME NEW a \in Artifacts, NEW part \in Parts[a]
    PROVE  <<a, part>> \in Slots
  <1>1. a \in DOMAIN Parts
    BY DEF Parts, Artifacts
  <1> QED
    BY <1>1 DEF Slots

\* A good release holds the proper content in every slot.
LEMMA GoodPart ==
    ASSUME Wrong = {}, NEW a \in Artifacts, NEW part \in Parts[a]
    PROVE  In(a, part) = Proper(<<a, part>>)
  BY SlotOfPart DEF Wrong, In

\* All that the build, its record and the keys put into a good release.
LEMMA GoodContent ==
    ASSUME Wrong = {}
    PROVE  /\ \A a \in {"unsigned", "record"} : \A part \in BuildParts \ {"trust"} : In(a, part) = Release
           /\ \A a \in {"unsigned", "record"} : In(a, "trust") = Test
           /\ In("unsigned", "info") = Release
           /\ \A a \in {"signed", "ota", "fastboot", "bundle", "manifest", "fixed"} :
                \A part \in Parts[a] : In(a, part) = Release
  <1>1. Parts["unsigned"] = BuildParts \cup {"info"} /\ Parts["record"] = BuildParts
    BY DEF Parts
  <1>2. ASSUME NEW a \in {"unsigned", "record"}, NEW part \in BuildParts
        PROVE  In(a, part) = Proper(<<a, part>>)
    BY <1>1, GoodPart DEF Artifacts
  <1>3. ASSUME NEW a \in {"signed", "ota", "fastboot", "bundle", "manifest", "fixed"}, NEW part \in Parts[a]
        PROVE  In(a, part) = Release
    <2>1. <<a, part>> # <<"unsigned", "trust">> /\ <<a, part>> # <<"record", "trust">>
      OBVIOUS
    <2> QED
      BY <2>1, GoodPart DEF Artifacts, Proper
  <1>4. \A a \in {"unsigned", "record"} : In(a, "trust") = Test
    BY <1>2 DEF Proper, BuildParts
  <1>5. ASSUME NEW a \in {"unsigned", "record"}, NEW part \in BuildParts \ {"trust"}
        PROVE  In(a, part) = Release
    <2>1. <<a, part>> # <<"unsigned", "trust">> /\ <<a, part>> # <<"record", "trust">>
      OBVIOUS
    <2> QED
      BY <2>1, <1>2 DEF Proper
  <1>6. In("unsigned", "info") = Release
    <2>1. <<"unsigned", "info">> # <<"unsigned", "trust">> /\ <<"unsigned", "info">> # <<"record", "trust">>
      OBVIOUS
    <2> QED
      BY <2>1, <1>1, GoodPart DEF Artifacts, Proper
  <1> QED
    BY <1>3, <1>4, <1>5, <1>6

\* The parts of images, and the others, where the checks look for them.
LEMMA PartsOfArtifacts ==
    /\ \A p \in Partitions : ImageParts[p] \subseteq AllImages
    /\ Parts["signed"] = AllImages \cup {"images", "radio", "ab", "meta", "policy",
                                          "otacerts", "packages", "info"}
    /\ Parts["ota"] = AllImages \cup {"ab", "signature"}
    /\ Parts["fastboot"] = AllImages \cup {"images", "ab", "info"}
    /\ Parts["bundle"] = {"releasekey", "avb_vbmeta", "avb_boot", "app"}
    /\ Parts["manifest"] = {"lk", "radio"}
    /\ Parts["fixed"] = {"archives", "patch", "properties", "payload", "bindings", "commands"}
    /\ {"kernel", "trust", "bootkey", "rootkey", "chain", "digest", "system", "lk"} \subseteq AllImages
  <1>1. \A p \in Partitions : ImageParts[p] \subseteq AllImages
    BY DEF AllImages
  <1> QED
    BY <1>1, EachPart DEF Parts

\* The images of a good release are the same in every artifact.
LEMMA GoodImages ==
    ASSUME Wrong = {}, NEW a \in {"signed", "ota", "fastboot"}
    PROVE  /\ \A part \in {"kernel", "trust", "bootkey", "rootkey", "chain", "digest", "system", "lk"} :
                In(a, part) = Release
           /\ \A p \in Partitions : Image(a, p) = [part \in ImageParts[p] |-> Release]
  <1>1. \A part \in AllImages : In(a, part) = Release
    BY GoodContent, PartsOfArtifacts
  <1> QED
    BY <1>1, PartsOfArtifacts DEF Image

\* Each check passes a good release: first those of the records and archives.
LEMMA GoodRecords ==
    ASSUME Good
    PROVE  /\ In("fixed", "archives") = Release
           /\ In("fixed", "patch") = Release
           /\ ~PreFix("unsigned")
           /\ Same("record", "unsigned", BuildParts)
           /\ In("signed", "policy") = In("bundle", "app")
           /\ In("fixed", "bindings") = Release
           /\ Same("signed", "unsigned", {"meta"})
           /\ Same("signed", "unsigned", {"images", "radio", "lk"})
           /\ Same("signed", "manifest", {"radio", "lk"})
           /\ In("fixed", "properties") = Release
           /\ In("signed", "packages") = In("bundle", "app")
  <1>1. Wrong = {} /\ Release # Test
    BY ContentsAssumption DEF Good
  <1>2. /\ In("fixed", "archives") = Release /\ In("fixed", "patch") = Release
        /\ In("fixed", "bindings") = Release /\ In("fixed", "properties") = Release
    BY <1>1, GoodContent, PartsOfArtifacts
  <1>3. /\ In("unsigned", "kernel") = Release
        /\ \A part \in {"meta", "images", "radio", "lk"} : In("unsigned", part) = Release
    BY <1>1, GoodContent DEF BuildParts
  <1>4. \A part \in {"meta", "images", "radio", "lk", "policy", "packages"} :
          In("signed", part) = Release
    BY <1>1, GoodContent, PartsOfArtifacts
  <1>5. /\ In("bundle", "app") = Release
        /\ In("manifest", "radio") = Release /\ In("manifest", "lk") = Release
    BY <1>1, GoodContent, PartsOfArtifacts
  <1>6. Same("record", "unsigned", BuildParts)
    BY <1>1, GoodContent DEF Same
  <1> QED
    BY <1>1, <1>2, <1>3, <1>4, <1>5, <1>6 DEF PreFix, Same

\* Then those of the images in the signed target-files.
LEMMA GoodTargetFiles ==
    ASSUME Good
    PROVE  /\ RootVbmeta
           /\ In("signed", "bootkey") = In("bundle", "avb_boot")
           /\ Same("record", "unsigned", {"kernel", "trust"})
           /\ ~PreFix("signed")
           /\ BootResigned
           /\ In("signed", "otacerts") = In("bundle", "releasekey")
  <1>1. Wrong = {} /\ Release # Test
    BY ContentsAssumption DEF Good
  <1>2. \A part \in {"kernel", "trust", "bootkey", "rootkey", "chain", "digest", "system"} :
          In("signed", part) = Release
    BY <1>1, GoodImages
  <1>3. /\ In("bundle", "avb_vbmeta") = Release /\ In("bundle", "avb_boot") = Release
        /\ In("bundle", "releasekey") = Release /\ In("signed", "otacerts") = Release
    BY <1>1, GoodContent, PartsOfArtifacts
  <1>4. In("unsigned", "kernel") = Release /\ In("unsigned", "trust") = Test
    BY <1>1, GoodContent DEF BuildParts
  <1>5. Same("record", "unsigned", {"kernel", "trust"})
    BY <1>1, GoodContent DEF Same, BuildParts
  <1> QED
    BY <1>1, <1>2, <1>3, <1>4, <1>5 DEF RootVbmeta, AvbChainHolds, PreFix, BootResigned, Same

\* And those of the two packages.
LEMMA GoodPackages ==
    ASSUME Good
    PROVE  /\ In("fixed", "payload") = Release
           /\ Same("ota", "signed", {"ab"})
           /\ \A p \in Partitions : Image("ota", p) = Image("signed", p)
           /\ Comparable /\ FirmwarePadded
           /\ In("signed", "ab") = In("manifest", "radio")
           /\ Same("signed", "manifest", {"lk"})
           /\ Image("ota", "boot") = Image("signed", "boot")
           /\ FastbootControls /\ FastbootInfo /\ FastbootImages
           /\ In("ota", "signature") = In("bundle", "releasekey")
  <1>1. Wrong = {}
    BY DEF Good
  <1>2. \A p \in Partitions : /\ Image("ota", p) = Image("signed", p)
                              /\ Image("fastboot", p) = Image("signed", p)
    BY <1>1, GoodImages
  <1>3. /\ In("ota", "ab") = Release /\ In("signed", "ab") = Release /\ In("fastboot", "ab") = Release
        /\ In("signed", "images") = Release /\ In("fastboot", "images") = Release
        /\ In("ota", "signature") = Release /\ In("fixed", "payload") = Release
    BY <1>1, GoodContent, PartsOfArtifacts
  <1>4. /\ In("manifest", "radio") = Release /\ In("manifest", "lk") = Release
        /\ In("bundle", "releasekey") = Release /\ In("unsigned", "ab") = Release
    BY <1>1, GoodContent, PartsOfArtifacts DEF BuildParts
  <1>5. In("signed", "lk") = Release
    BY <1>1, GoodImages
  <1>6. Image("ota", "boot") = Image("signed", "boot")
    BY <1>2, EachPart
  <1>7. Comparable /\ FirmwarePadded /\ ("fastboot" \in sparse <=> "signed" \in sparse)
    BY DEF Good, Comparable, FirmwarePadded
  <1>8. FastbootControls /\ FastbootInfo
    <2>1. /\ In("signed", "info") = Release /\ In("unsigned", "info") = Release
          /\ In("fastboot", "info") = Release /\ In("fixed", "commands") = Release
      BY <1>1, GoodContent, PartsOfArtifacts
    <2>2. flashed = RequiredFlash
      BY DEF Good, Misflashed
    <2> QED
      BY <1>3, <1>4, <2>1, <2>2 DEF FastbootControls, FastbootInfo, Same
  <1>9. FastbootImages
    BY <1>2, <1>3, <1>7 DEF FastbootImages, Same
  <1> QED
    BY <1>2, <1>3, <1>4, <1>5, <1>6, <1>7, <1>8, <1>9 DEF Same

\* A check that passes does not reject.
LEMMA PassIsNoRejection ==
    ASSUME NEW step, NEW passes, NEW following \in Checks \cup {"accepted"},
           Check(step, passes, following), passes
    PROVE  pc' # "rejected"
  BY DEF Check, Checks

\* A step that rejects has a cause: every check passes a good release.
LEMMA StepRejectsNoGood == TypeOK /\ RejectionHasCause /\ [Next]_vars => RejectionHasCause'
  <1> SUFFICES ASSUME TypeOK, RejectionHasCause, [Next]_vars, pc' = "rejected"
               PROVE  RejectionHasCause'
    BY DEF RejectionHasCause
  <1>1. CASE Spoil \/ SpoilFlash \/ Begin
    BY <1>1 DEF Spoil, SpoilFlash, Spoilable, Begin
  <1>2. CASE Finished \/ UNCHANGED vars
    BY <1>2 DEF Finished, vars, artifacts, RejectionHasCause, Wrong, Misflashed
  <1>3. ASSUME UNCHANGED artifacts, ~Good
        PROVE  RejectionHasCause'
    <2>1. \/ Wrong # {} \/ Misflashed # {} \/ tail = "data" \/ sparse = {"signed"} \/ sparse = {"fastboot"}
          \/ sparse # {} /\ ~converter
      BY <1>3 DEF Good, TypeOK
    <2> QED
      BY <2>1, <1>3 DEF RejectionHasCause, Wrong, Misflashed, artifacts
  <1>4. CASE Good /\ (CheckArchives \/ CheckProvenance \/ CheckPolicy \/ CheckReport \/ CheckKeyPlan)
    BY <1>4, GoodRecords, PassIsNoRejection
      DEF CheckArchives, CheckProvenance, CheckPolicy, CheckReport, CheckKeyPlan, Checks
  <1>5. CASE Good /\ (CompareTargetFiles \/ CheckMetadata \/ CheckPackages)
    BY <1>5, GoodRecords, PassIsNoRejection DEF CompareTargetFiles, CheckMetadata, CheckPackages, Checks
  <1>6. CASE Good /\ (CheckAvbImages \/ CheckBuildBoot \/ CheckKernelSource \/ CheckKernel \/ CheckOtaCerts)
    BY <1>6, GoodRecords, GoodTargetFiles, PassIsNoRejection
      DEF CheckAvbImages, CheckBuildBoot, CheckKernelSource, CheckKernel, CheckOtaCerts, Checks
  <1>7. CASE Good /\ (CheckOtaMetadata \/ BindOtaPartitions \/ CheckOtaPartitions \/ CheckOtaFirmware)
    BY <1>7, GoodPackages, PassIsNoRejection
      DEF CheckOtaMetadata, BindOtaPartitions, CheckOtaPartitions, CheckOtaFirmware, Checks
  <1>8. CASE Good /\ (CheckOtaBoot \/ CheckFastboot \/ CheckOtaSignature)
    BY <1>8, GoodPackages, PassIsNoRejection DEF CheckOtaBoot, CheckFastboot, CheckOtaSignature, Checks
  <1> QED
    BY <1>1, <1>2, <1>3, <1>4, <1>5, <1>6, <1>7, <1>8
      DEF Next, Check, CheckArchives, CheckProvenance, CheckPolicy, CheckReport, CheckKeyPlan,
        CompareTargetFiles, CheckMetadata, CheckPackages, CheckAvbImages, CheckBuildBoot,
        CheckKernelSource, CheckKernel, CheckOtaCerts, CheckOtaMetadata, BindOtaPartitions,
        CheckOtaPartitions, CheckOtaFirmware, CheckOtaBoot, CheckFastboot, CheckOtaSignature

\* No check rejects what a correct signer makes, whatever form it has.
THEOREM GoodReleasesPass == Spec => []RejectionHasCause
  <1>1. Init => RejectionHasCause
    BY DEF Init, RejectionHasCause
  <1> QED
    BY <1>1, TypeCorrect, StepRejectsNoGood, PTL DEF Spec
=============================================================================
