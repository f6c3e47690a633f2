--------------------------- MODULE ReleaseAcceptance ---------------------------
(***************************************************************************)
(* The verdict of the release verifier: _verify_release_snapshotted in     *)
(* scripts/ubuntu/verify_signed_release.py, one action per check, in the   *)
(* order of the code. No check looks at the whole release. Each compares   *)
(* two artifacts, or an artifact and a key, and the first that fails ends  *)
(* the run; what a device may rely on follows from the chain of them.      *)
(*                                                                         *)
(* An artifact is the parts the checks tell apart, and a part is known by  *)
(* what made it: this release, or something else. Hashing, unpacking and   *)
(* decoding are in the comparisons they serve. The inputs are the          *)
(* verifier's own copies: VerificationReport is about taking them.         *)
(***************************************************************************)
EXTENDS Naturals, FiniteSets

CONSTANTS
    Contents,  \* what a part may hold
    Release,   \* what this release's build, or its keys, put there
    Test,      \* what a build with test keys puts there
    MaxWrong   \* bound: how many parts do not hold what they should

ASSUME ContentsAssumption == {Release, Test} \subseteq Contents /\ Release # Test
ASSUME BoundAssumption    == MaxWrong \in Nat

\* The images of a release: boot with its kernel, the OTA certificates of the
\* recovery in its ramdisk, and the key that signed it; vbmeta with its key
\* and the key its chain descriptor names for boot; vbmeta_system with the
\* digest it holds of system; system; and a firmware image.
ImageParts == [boot          |-> {"kernel", "trust", "bootkey"},
               vbmeta        |-> {"rootkey", "chain"},
               vbmeta_system |-> {"digest"},
               system        |-> {"system"},
               lk            |-> {"lk"}]

Partitions == DOMAIN ImageParts
Firmware   == {"lk"}
Dynamic    == {"system"}
AllImages  == UNION {ImageParts[p] : p \in Partitions}

\* What a build provenance record binds of the unsigned target-files: parts of
\* images, the names of the Android and of the firmware images, the list of
\* A/B partitions, the metadata of packages and keys.
BuildParts == {"kernel", "trust", "lk", "images", "radio", "ab", "meta"}

\* "info" is android-info.txt and fastboot-info.txt, which the build makes and
\* the package has from it; "app" is the certificates of packages and APEXes.
\* "fixed" is what is compared with a constant of the code, or only with
\* itself: the ZIP structure, the patch and its record, the build tags, names
\* and key paths, the OTA's metadata and payload header, the signer's report,
\* the device and the order of the commands in the two info files.
Parts == [unsigned |-> BuildParts \cup {"info"},
          signed   |-> AllImages \cup {"images", "radio", "ab", "meta", "policy",
                                       "otacerts", "packages", "info"},
          ota      |-> AllImages \cup {"ab", "signature"},
          fastboot |-> AllImages \cup {"images", "ab", "info"},
          bundle   |-> {"releasekey", "avb_vbmeta", "avb_boot", "app"},
          manifest |-> {"lk", "radio"},
          record   |-> BuildParts,
          fixed    |-> {"archives", "patch", "properties", "payload", "bindings", "commands"}]

Slots == UNION {{a} \X Parts[a] : a \in DOMAIN Parts}

VARIABLES
    content,    \* what each part of each artifact holds
    sparse,     \* the archives whose system image is in the sparse format
    flashed,    \* the partitions that fastboot-info.txt has flash commands for
    tail,       \* what follows the firmware image in the OTA's partition
    converter,  \* whether simg2img is among the host tools
    pc          \* the check that is next, or the verdict

artifacts == <<content, sparse, flashed, tail, converter>>
vars      == <<artifacts, pc>>

Checks == {"archives", "provenance", "policy", "report", "keyplan", "targetfiles", "metadata",
           "packages", "avb", "buildboot", "source", "kernel", "otacerts", "otametadata",
           "otabinding", "otapartitions", "otafirmware", "otaboot", "fastboot", "signature"}

TypeOK == /\ content \in [Slots -> Contents]
          /\ sparse \subseteq {"signed", "fastboot"}
          /\ flashed \subseteq Partitions
          /\ tail \in {"none", "zeros", "data"}
          /\ converter \in BOOLEAN
          /\ pc \in Checks \cup {"prepare", "accepted", "rejected"}

\* The unsigned build trusts the test certificate.
Proper(slot) == IF slot \in {<<"unsigned", "trust">>, <<"record", "trust">>} THEN Test ELSE Release

Wrong == {slot \in Slots : content[slot] # Proper(slot)}

\* required_flash: the images the code names, and the dynamic partitions.
RequiredFlash == {"boot", "vbmeta", "vbmeta_system"} \cup Dynamic

Misflashed == (flashed \ RequiredFlash) \cup (RequiredFlash \ flashed)

Init == /\ content = [slot \in Slots |-> Proper(slot)]
        /\ sparse \in SUBSET {"signed", "fastboot"}
        /\ flashed = RequiredFlash
        /\ tail \in {"none", "zeros", "data"}
        /\ converter \in BOOLEAN
        /\ pc = "prepare"

In(artifact, part) == content[<<artifact, part>>]

Image(artifact, p) == [part \in ImageParts[p] |-> In(artifact, part)]

\* Two artifacts agree about some parts.
Same(a, b, parts) == \A part \in parts : In(a, part) = In(b, part)

-----------------------------------------------------------------------------
(* What the verifier is given.                                             *)

Spoilable == pc = "prepare" /\ Cardinality(Wrong) + Cardinality(Misflashed) < MaxWrong

\* A part comes from another build, another keyset, an earlier release.
Spoil == /\ Spoilable
         /\ \E slot \in Slots \ Wrong :
              \E c \in Contents \ {content[slot]} : content' = [content EXCEPT ![slot] = c]
         /\ UNCHANGED <<sparse, flashed, tail, converter, pc>>

\* fastboot-info.txt lacks a flash command, or has one more, since the build.
SpoilFlash == /\ Spoilable
              /\ \E p \in Partitions \ Misflashed :
                   flashed' = IF p \in flashed THEN flashed \ {p} ELSE flashed \cup {p}
              /\ UNCHANGED <<content, sparse, tail, converter, pc>>

Begin == /\ pc = "prepare"
         /\ pc' = "archives"
         /\ UNCHANGED artifacts

\* A check passes, and the next one follows, or it rejects the release.
Check(step, passes, following) == /\ pc = step
                                  /\ pc' = IF passes THEN following ELSE "rejected"
                                  /\ UNCHANGED artifacts

-----------------------------------------------------------------------------
(* The target-files archives and the evidence that comes with them.        *)

\* unzip and the member rules: no unsafe, duplicate or special member.
CheckArchives ==
    Check("archives", In("fixed", "archives") = Release, "provenance")

\* The image that is known to lack the kernel fix is recognised as a whole:
\* by its hash, and without its AVB footer.
PreFix(a) == In(a, "kernel") = Test /\ In(a, "trust") = Test

CheckProvenance ==
    Check("provenance", In("fixed", "patch") = Release /\ ~PreFix("unsigned")
                        /\ Same("record", "unsigned", BuildParts),
          "policy")

\* The policy is the unsigned one with the certificates of the bundle.
CheckPolicy == Check("policy", In("signed", "policy") = In("bundle", "app"), "report")

\* Names, sizes and hashes of the artifacts, the plan and the evidence.
CheckReport == Check("report", In("fixed", "bindings") = Release, "keyplan")

CheckKeyPlan == Check("keyplan", Same("signed", "unsigned", {"meta"}), "targetfiles")

\* The images are compared by name, the firmware also by content.
CompareTargetFiles ==
    Check("targetfiles", /\ Same("signed", "unsigned", {"images", "radio", "lk"})
                         /\ Same("signed", "manifest", {"radio", "lk"}),
          "metadata")

\* Build tags, product names, and the key paths of misc_info.txt.
CheckMetadata == Check("metadata", In("fixed", "properties") = Release, "packages")

\* Each package, each APEX and its payload with the certificate of its role.
CheckPackages == Check("packages", In("signed", "packages") = In("bundle", "app"), "avb")

-----------------------------------------------------------------------------
(* The images of the signed target-files.                                  *)

\* avbtool verify_image --follow_chain_partitions, on the images side by side.
AvbChainHolds(a) == In(a, "chain") = In(a, "bootkey") /\ In(a, "digest") = In(a, "system")

\* vbmeta is signed with its key and names the key of the bundle for boot.
RootVbmeta == /\ In("signed", "rootkey") = In("bundle", "avb_vbmeta")
              /\ In("signed", "chain") = In("bundle", "avb_boot")
              /\ AvbChainHolds("signed")

CheckAvbImages == Check("avb", RootVbmeta /\ In("signed", "bootkey") = In("bundle", "avb_boot"), "buildboot")

\* The boot image the verifier unpacks is the one in the record.
CheckBuildBoot == Check("buildboot", Same("record", "unsigned", {"kernel", "trust"}), "source")

CheckKernelSource == Check("source", In("fixed", "patch") = Release, "kernel")

\* A faulty variant: what did not change needs no check.
ChangedPartsResigned ==
    /\ Same("signed", "unsigned", {"kernel"})
    /\ ~Same("signed", "unsigned", {"trust"}) => In("signed", "trust") = In("bundle", "releasekey")

\* A faulty variant: the kernel is not compared.
RamdiskResigned ==
    /\ ~Same("signed", "unsigned", {"trust"})
    /\ In("signed", "trust") = In("bundle", "releasekey")

\* Only the properties and the OTA certificates of the ramdisk may change,
\* and both must; the certificate left is the release certificate.
BootResigned == /\ Same("signed", "unsigned", {"kernel"})
                /\ ~Same("signed", "unsigned", {"trust"})
                /\ In("signed", "trust") = In("bundle", "releasekey")

CheckKernel == Check("kernel", ~PreFix("unsigned") /\ ~PreFix("signed") /\ BootResigned, "otacerts")

\* The certificates in the directories of the target-files.
CheckOtaCerts == Check("otacerts", In("signed", "otacerts") = In("bundle", "releasekey"), "otametadata")

-----------------------------------------------------------------------------
(* The packages a device is installed from.                                *)

\* The device, the type, and the hashes of the payload.
CheckOtaMetadata == Check("otametadata", In("fixed", "payload") = Release, "otabinding")

\* Firmware in the payload may be padded with zeros.
FirmwarePadded == tail # "data"

\* A faulty variant: the image is compared as it is in the archive.
NeverConverted == "signed" \notin sparse

\* A sparse image is converted before it is compared, which needs the tool.
Comparable == "signed" \in sparse => converter

\* Every partition of the payload is the image in the signed target-files.
BindOtaPartitions ==
    Check("otabinding", /\ Same("ota", "signed", {"ab"})
                        /\ \A p \in Partitions : Image("ota", p) = Image("signed", p)
                        /\ Comparable /\ FirmwarePadded,
          "otapartitions")

\* The list has every partition of the manifest, and the payload those listed.
CheckOtaPartitions ==
    Check("otapartitions", /\ In("signed", "ab") = In("manifest", "radio")
                           /\ Same("ota", "signed", {"ab"}),
          "otafirmware")

\* The hashes are those of the images the payload was compared with.
CheckOtaFirmware == Check("otafirmware", Same("signed", "manifest", {"lk"}), "otaboot")

CheckOtaBoot == Check("otaboot", Image("ota", "boot") = Image("signed", "boot"), "fastboot")

\* The AB list, the two info files and the super settings survive the signing.
FastbootControls == Same("signed", "unsigned", {"ab", "info"})

\* The package has the info files of the signed target-files: for this device,
\* and with a flash command for every image but the firmware.
FastbootInfo == /\ Same("fastboot", "signed", {"info"})
                /\ In("fixed", "commands") = Release
                /\ flashed = RequiredFlash

\* A faulty variant: the members are compared by name only.
SameMembers == Same("fastboot", "signed", {"images", "ab"})

\* The package has the images of the signed target-files and of its list,
\* byte for byte.
FastbootImages ==
    /\ Same("fastboot", "signed", {"images", "ab"})
    /\ \A p \in Partitions : Image("fastboot", p) = Image("signed", p)
    /\ "fastboot" \in sparse <=> "signed" \in sparse

CheckFastboot == Check("fastboot", FastbootControls /\ FastbootInfo /\ FastbootImages, "signature")

\* The pinned update_verifier with the key of the release certificate.
CheckOtaSignature == Check("signature", In("ota", "signature") = In("bundle", "releasekey"), "accepted")

Finished == pc \in {"accepted", "rejected"} /\ UNCHANGED vars

Next == \/ Spoil \/ SpoilFlash \/ Begin
        \/ CheckArchives \/ CheckProvenance \/ CheckPolicy \/ CheckReport \/ CheckKeyPlan
        \/ CompareTargetFiles \/ CheckMetadata \/ CheckPackages \/ CheckAvbImages \/ CheckBuildBoot
        \/ CheckKernelSource \/ CheckKernel \/ CheckOtaCerts \/ CheckOtaMetadata \/ BindOtaPartitions
        \/ CheckOtaPartitions \/ CheckOtaFirmware \/ CheckOtaBoot \/ CheckFastboot
        \/ CheckOtaSignature \/ Finished

Spec == Init /\ [][Next]_vars

-----------------------------------------------------------------------------
(* Properties.                                                             *)

Delivered == {"ota", "fastboot"}

\* Whatever fastboot flashes from the package of an accepted release the OTA
\* installs too, image for image: all of the release but the firmware, which
\* only the OTA installs, and as the manifest pins it. The packages are never
\* compared with each other, and their formats differ (lines 2506-2564,
\* 1682-1770, 1773-1834, 2942-2953).
SameReleaseEitherWay ==
    pc = "accepted" => /\ flashed = Partitions \ Firmware
                       /\ \A p \in flashed : Image("ota", p) = Image("fastboot", p)
                       /\ tail # "data"
                       /\ \A p \in Firmware : Same("ota", "manifest", ImageParts[p])

\* Both packages of an accepted release boot the kernel of the build whose
\* record proves the fix: the record is about the unsigned archive, and the
\* packages are two steps away from it (lines 811-974, 2866-2879, 2972-2987).
KernelIsTheRecorded ==
    pc = "accepted" => \A a \in Delivered : Same(a, "record", {"kernel"}) /\ ~PreFix(a)

\* A device installed from either package of an accepted release can start
\* and be updated: each key vbmeta names is the key that signed the image,
\* each digest is that of the image it is about, and the recovery trusts the
\* certificate that signed the OTA, as the system does. Its packages are signed
\* with the certificates its policy knows, and as the recorded build planned
\* (lines 2169-2230, 2119-2141, 1383-1480, 1483-1518, 2233-2425).
StartsAndUpdates ==
    pc = "accepted" => /\ \A a \in Delivered : /\ AvbChainHolds(a)
                                              /\ In(a, "rootkey") = In("bundle", "avb_vbmeta")
                                              /\ In(a, "trust") = In("ota", "signature")
                       /\ In("signed", "otacerts") = In("ota", "signature")
                       /\ In("signed", "policy") = In("signed", "packages")
                       /\ Same("signed", "record", {"meta"})

\* No check rejects what a correct signer makes, whatever form it has: images
\* may be sparse if they can be converted, and firmware may be padded. Twenty
\* checks do not contradict each other (lines 2777-3005).
RejectionHasCause ==
    pc = "rejected" => \/ Wrong # {}
                       \/ Misflashed # {}
                       \/ tail = "data"
                       \/ sparse = {"signed"} \/ sparse = {"fastboot"}
                       \/ sparse # {} /\ ~converter
=============================================================================
