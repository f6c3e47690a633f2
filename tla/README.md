# TLA+ models of the flowerbed release tools

This directory holds TLA+ specifications of the scripts under `scripts/ubuntu/`
that build, key, sign, verify and package a LineageOS release for the device
*fleur*, TLC configurations that check them on small instances, and proofs that
TLAPS checks for instances of any size. `PROJECT.json` lists the runs, maps
every definition to the lines it models, and names the hazards the properties
are for.

## 1. Inventory

The tools are separate programs. They share no memory and no daemon: they
interact only through files and directories, each of which one tool publishes
and others read.

    sync.sh + apply_patches.sh -> source tree with pinned heads and 7 patches
      -> build_target_files.sh + build_provenance.py -> target-files ZIP + provenance
      -> generate_release_keys.py -> keyset directory
      -> sign_release.py (+ avb_signing_helper, avb_password_helper, selinux_signing)
           -> signed release directory
      -> verify_signed_release.py -> verification report
      -> verify_artifacts.py, package_spft.py -> checksums, flashing package

What makes them hard is the same everywhere: nothing locks the paths, so two
invocations interleave freely; an operator may press Ctrl-C or a process may be
killed between any two system calls; inputs are files that other programs may
change; and what a tool published must survive all of that.

| component | state it keeps | operations | hard behaviour | correct when |
|---|---|---|---|---|
| key generation (`generate_release_keys.py`) | a staging directory with raw keys, outputs, `passwords`, `keyset.json`; the destination; `workspace.published` | check destination (twice), prompt, make staging, one file per output, remove raw keys, validate, fsync, no-replace rename, two exception handlers | two runs, interrupts, kills, power loss, cleanup that could delete what was published | a visible keyset is whole, unique, permanent, durable once reported; raw keys do not outlive a run |
| key plan (`build_key_plan`), signing metadata | none (pure) | parse metadata, name the output keys | name collisions | every source key maps to one output, no two roles share a name |
| build wrapper (`build_target_files.sh`) | the target-files path, `.pre-run-*`, `.pre-final-failed-*`, before/after records | preserve, build, check freshness, collect evidence, restore, exec finalize | kills, overlapping runs, builds that do not refresh | the old archive is never lost, provenance names the run's own archive |
| build provenance (`build_provenance.py`) | pre-build and final records | prove the kernel patch, finalize, validate | kernel tree edited during a build, pre-fix boot images | no record for a pre-fix boot image |
| release signing (`sign_release.py`) | pinned inputs, private staging, signed output directory | snapshot inputs, validate keyset, run signing commands, export public keys, checksums, publish | inputs that change, interrupts, leftover secrets | what is published was made from the inputs that were validated |
| AVB helpers | a bound configuration | sign a payload, export a public key, look up a password | files replaced between check and use | only the bound key signs |
| SELinux rewrite (`selinux_signing.py`) | none (pure, on ZIP members) | map certificates in `mac_permissions` | role topology | every test certificate is replaced, nothing else |
| release verification (`verify_signed_release.py`) | copies and hashes of inputs, the report | snapshot, verify, compare, publish the report | inputs that change, two verifiers with one report path | a report is whole, written once, and about inputs that existed together |
| artifact verification (`verify_artifacts.py`), package (`package_spft.py`) | checksums, package directory, archive | verify, copy, adapt scatter file, archive | kills between two publications | a package matches its manifest |
| sync and patches (`sync.sh`, `apply_patches.sh`) | heads and patch state of the checkouts, manifest snapshot | sync, verify heads, apply | interrupted runs | a rerun completes; an unclean patch stops it |
| `build.sh`, `bootstrap.sh`, `collect_device_logs.sh`, `render_provenance.py`, `lib/common.sh` | logs | linear scripts | none beyond their commands | not modelled (section 8) |

## 2. Plan

Written so far, most important first:

1. `WriteOncePublication`: the abstract promise about a path.
2. `KeysetGeneration`, `MCKeysetGeneration`, `KeysetGenerationProofs`.
3. `TargetFilesBuild`, `MCTargetFilesBuild` (wrapper and provenance composed).
4. `VerificationReport`, `MCVerificationReport`: the verifier's frame.
5. `SignRelease`, `MCSignRelease` (signer and AVB helper composed).
6. `SigningPlan`, `MCSigningPlan`, `SigningPlanProofs` (key plan, signing
   commands and SELinux rewrite composed).
7. `ReleaseAcceptance`, `ReleaseAcceptanceProofs`: the verifier's verdict, every
   check of it in order, over all the artifacts, keys and records of a release.
8. `SpftPackage`, `MCSpftPackage`: the flashing package.
9. `SourceSync`, `MCSourceSync` (`sync.sh`, `apply_patches.sh` and the working
   trees composed).

10. The proofs of what the runs check: `SignReleaseProofs`,
    `VerificationReportProofs`, `TargetFilesBuildProofs`, `SpftPackageProofs`,
    `SourceSyncProofs`, and `EndedRunLeavesNothing` in `KeysetGenerationProofs`.
11. `StepsGoForward` and its proof.

To come:

12. The options for APEX and AVB keys in `SigningPlan`; the password file from
    the keyset to `ANDROID_PW_FILE`.

## 3. Modules and code

**`WriteOncePublication`** is what the tools promise about a path they publish
to: the first writer fills it, nobody replaces it, a writer is told of success
only while the path holds its publication, and only a publication nobody was
told of may be lost.

**`KeysetGeneration`** models `generate_keyset` and everything it calls that
touches the file system. `pc[r]` is the step run `r` is at; `job[r]` the output
being made, in the order of `_generate_all`, followed by `passwords` and
`keyset.json`. `file[r][n]` is what the file system shows of each name in the
run's directory (absent, reserved and empty, written, fsynced) and `place[r]`
where the directory is (nowhere, under its staging name, at the destination);
`onDisk` and `placeOnDisk` are what a power loss may leave of the same, and an
fsync settles the entries of the directory it is called on. A directory belongs
to the run that made it, which is what `staging_identity` (device and inode)
decides in the code. The existence checks list the parent and then look at the
destination; one atomic step is enough, because a staging directory turns into
the destination and never back: a check that sees neither could have been made
when the parent was listed, and one that sees the destination when it was
looked at. A role's class (`android`, `apex`, `avb`) determines its outputs;
the names themselves do not matter. An exception raised by a command, a write
or a check and Ctrl-C are the same fault, `"interrupt"`: both reach
`except BaseException`. `AfterInterrupt` says of which `try`: that of
`_create_workspace`, from the making of the staging directory until it returns
(`UndoEntry`, `UndoStaging`), or that of `_workspace_context` (`Handle`,
`CleanEntry`, `CleanStaging`, `SyncClean`). Both end with one `os.rmdir`, which
fails on a directory that has entries, and with it the handler
(`RemoveStaging`). Ctrl-C between the return of the one and the `try` of the
other (`"enter"`), or inside a handler, leaves a run `"stuck"`: ended, with what
it had made still there.

**`TargetFilesBuild`** models a run of `build_target_files.sh` with the two
phases of `build_provenance.py` it calls. An archive is the run that packaged
its bytes, whether it is a whole ZIP, and the runs that had started when it was
written (what its times are compared with). `m` may package a new archive with
any boot image, write the old bytes again, or leave the path alone, and it may
succeed or fail whatever it did. `SetFailedAside` and `PutBack` are the two
renames of the restore; `FinalizeBoot` and `FinalizeBind` are the two times
`finalize` reads the archive.

**`VerificationReport`** models `verify_release` around the checks themselves:
inputs are opened, hashed and copied one after another (`HashInput`,
`CopyInput`), the verdict on the copies is the environment's, every original is
compared again (`RecheckInput`), and `write_sanitized_report` follows call by
call. An input is a sequence of inodes with contents, which another program
edits in place or replaces; contents are numbered, so a change is never undone.
`seen[v]` is a history variable: what the paths of all inputs held together at
some moment of the run.

**`SignRelease`** models `sign_release` from the first check of the output
directory to the fsync of its parent. `gen[i]` is the generation of the file at
the path of input `i`, which `Change` may advance at any moment; one variable
stands for an edit and for a replacement, because `Held`, what a read through an
open descriptor may return, ranges over everything from the pinned generation to
the current one. `pinned` is what `_PinnedFile` recorded, `used` what was
copied or read, and each `verify_named` is a step of its own
(`CompareOriginal`), in any order within one loop. The private AVB key is not
pinned by the signer: its identity is taken when the public key is exported and
checked by the helper, a separate process, before and after it signs
(`HelperOpens`, `HelperSigns`, `HelperRevalidates`); one signature stands for
all of them. `instant` is a history variable: what all paths held when the
directory of copied keys was sealed. Of the container keys the manifest
has the hashes of the certificates only (`Certificates`), and of the AVB public
keys; a private container key is copied and compared with its original, and no
record names it (`ManifestMatches`). `sealed` is its mode 0500, which decides
whether the handler's `rmtree` gets through, so that an exception passes
`Unwind` (the `finally` of the context) before `Cleanup`. `file` and `onDisk`
describe the staging directory as in `KeysetGeneration`.

**`SigningPlan`** models three functions that must agree about the same
metadata: `build_key_plan` (one step per stem, in sorted order),
`rewrite_mac_permissions` (one step per signer of the policy) and the `-k`
options of `build_signing_commands`. The metadata are any subsets of the stems,
APEX names and AVB names; the signers of the policy are chosen when they are
read. `Default` and `SignedWith` are external: how the signing tool combines
`-k` and `-d`. `Derived` is `expected_source_certificates`, with which the
verifier repeats the rewrite.

**`ReleaseAcceptance`** models `_verify_release_snapshotted`: one action per
check, in the order of the calls, the first that fails ending the run. An
artifact (the unsigned and the signed target-files, the OTA, the fastboot
package, the public keys, the firmware manifest, the build record) is the parts
the checks tell apart, and `content` says of every part whether it is this
release's or something else, a build with test keys for one. `flashed` are the
partitions `fastboot-info.txt` has flash commands for, which the verifier wants
to be every image but the firmware (`FastbootInfo`). `Spoil` and `SpoilFlash`
make up to `MaxWrong` parts and commands wrong before the checks begin, in any
combination. A check
is a formula about two artifacts, so that what can be seen is the sum of them:
no check compares the two packages a device is installed from, or either of
them with the build record. `vbmeta` names the key of the boot image and
`vbmeta_system` the digest of the system image, so that images of two builds
can be mixed. `sparse`, `tail` and `converter` are the forms the same content
may have: sparse images in either archive, padded firmware in the payload, and
whether the tool that converts is there. What is compared only with a constant,
or with its own hash, is one part each of `fixed`. Taking the copies, and
comparing the inputs again, is `VerificationReport`; a rejection here is
`VerifyCopies` failing there.

**`SpftPackage`** models `package` of `package_spft.py`. `source[i]` is what
the file of an image holds now, 0 being what the manifest pins; `WriteImage` is
a build or an extraction that writes it again, at any time. `VerifyFirmware`
hashes where the file lies, `CopyImage` copies into the temporary directory
later; `held` and `sums` are that directory's images and its `SHA256SUMS`, and
`place` says whether it is temporary or at the package's path. The archive is
opened in place, truncating what is there, and read image by image from
whatever directory has the path (`OpenArchive`, `ArchiveImage`). A directory is
not renamed over one that has entries, which is all that arbitrates between two
runs. `changed` is a history variable: firmware written since a run compared it.

**`SourceSync`** models `sync.sh` and `apply_patches.sh`, which it calls and
which is also run by itself. `pin` is the manifest of the repository, `local`
the copy `repo` reads, `wanted` what the second reading found. `hunks[f]` are
the patches a file contains. `git apply` takes away all files of a patch before
it writes them (`RemoveFile`, `WriteFile`), so that a kill may leave files
missing or a patch in some of its files only; `torn` remembers where that
happened until the operator restores the project. `Applied` and `Unapplied` are
the two dry runs the script asks `git` for. They depend on the revision checked
out: `Fits[f][v]` are the patches file `f` takes as revision `v` has it, and
`Holds[f][v]` those it has already. `repo sync` may leave any project where it
was, whether it reports success or not; it cannot move one to a revision that
has another text of a patched file (`Movable`: `git checkout` refuses), and a
file that is missing comes back as the revision has it.

The definitions commented "a faulty variant" are not part of any specification.
Each is a plausible mistake in one definition; `PROJECT.json` names the property
that fails when the variant takes that definition's place.

The `MC*` modules only give constants their values and define symmetry.

## 4. Runs

| run | question | instance | states |
|---|---|---|---|
| `keyset_overlap` | is a visible keyset whole, unique, permanent and durable? does the generator implement the write-once publication? is no refusal without a cause? | 2 overlapping runs, one AVB role, interrupt + crash + power | about 357 000 |
| `keyset_progress` | what does an ended run leave behind? does each go forward only? do overlapping runs keep each other from publishing? | 2 overlapping runs, one Android role, interrupt, fair | about 370 000 |
| `build_serial` | is the old archive kept and restored, and does provenance name the run's own, not pre-fix archive? | 3 runs in turn, kill + edit + rewrite | about 510 000 |
| `build_overlap` | can an old archive get provenance when two runs overlap? (violated) | 2 runs, no fault | stops at the violation |
| `report_serial` | is a report whole, written once, and about inputs that were there together? | 2 verifiers in turn, 2 inputs, 2 changes, interrupt + crash | about 165 000 |
| `report_replaced` | does a verifier that succeeded leave its report at the path when two overlap? (violated) | 2 verifiers, no fault | stops at the violation |
| `sign_changes` | is a release made from inputs that were there together, accepted together, and signed with the exported AVB key? | 1 signer, a certificate and a private key, every input changes at most once, no fault | about 1 665 000 |
| `sign_overlap` | is a visible release whole and free of copied keys? does an ended run leave any? does the signer implement the write-once publication? | 2 overlapping signers, no change of inputs, interrupt + crash + power | about 143 000 |
| `signing_plan` | do plan, commands, SELinux policy and verifier agree about which key replaces which? | 5 stems, 3 APEX names, 1 AVB name, 4 ways to share certificates, 2 required roles in 2 documents of up to 3 signers | about 1 470 000 |
| `release_acceptance` | do the pairwise checks of the verifier add up? do they accept every good release? | up to 3 wrong of 64 parts and 5 flash commands, 2 contents, all forms | about 9 270 000 |
| `spft_package` | is a reported package whole, its own, and made of pinned firmware? | 3 overlapping packagers, 2 images, 1 change, interrupt + crash | about 805 000 |
| `source_sync` | does success mean pinned heads, whole patches and a true snapshot? is a patch refused without need? | any sequence of invocations, 2 projects of 3 revisions, 4 patches, 3 kills, 2 moves of a pin | about 1 331 000 |

### Why the bounds are enough

* Two generators show every race for one destination: the third run of a race
  adds only a second loser. The proofs (section 6) are for any number.
* The outputs of a role only differ in number and directory. One AVB role has a
  raw key, a file in `public/` and one at the top: one file in each directory
  there is; an Android role has two at the top and none in `public/`. Plans of
  several roles are the business of the proofs, which are for any plan.
* Three runs of the build wrapper: one whose archive becomes the next one's old
  archive, one that fails and restores it, and one after that.
* Two inputs and two changes are the least that can mix contents that were
  never there together (one change before the second copy and one after the
  first).
* One change of each input is enough for `sign_changes`: every comparison asks
  whether a file is still what was pinned, so a second change can only make it
  fail as well. Two container files are the least for a loop over them, and one
  is a certificate, which the manifest names, the other a private key. Faults
  are in the other run, where the inputs stay as they are.
* The five stems of `signing_plan` are two with one last component, one whose
  last component is the suffixed name of another, the test key, and one that
  shares nothing but, at choice, its certificate; one of the APEX names is that
  of a stem, one that of an AVB key, one `releasekey`. Of the six required roles
  two show both shapes: one that occurs in two documents and one that occurs in
  one and whose seinfo differs from its name.
* A comparison that is missing shows when all parts on one side of it are wrong
  in the same way. No more than seven parts have to agree about one thing (the
  keys of the boot image and the keys named for it, in three archives, and the
  key of the bundle), so one of the two sides has at most three; and with two
  contents any two wrong parts agree. A flash command is looked at by itself.
* One image of the build and one of the firmware are the two kinds of images
  `package_spft.py` tells apart; three packagers are a winner, one that loses
  the rename, and one that finds what a killed one left.
* The four patches of `source_sync` show what the seven do: two that change one
  file, one that changes two, and one in another project. Of the revisions one
  changes a file so that one of its two patches no longer fits, one has a patch
  in one of its two files, and one of the other project has its patch; the third
  is the one all patches are for. Three kills tear two projects, and one of them
  twice; two moves of a pin are the least that fall before and after the manifest
  is installed in one run.
* Symmetry is used only in runs without liveness properties; every constant set
  it permutes is a set of interchangeable runs.

`Overlap = FALSE` lets a run begin only when no other is under way. It is used
where the property is about what one run leaves for the next one
(`build_serial`), or where overlapping is what the violation runs are about.
`EndedRunLeavesNothing` excludes staging directories brought back by a power
loss, which no handler can prevent.

Deadlock is checked in every run; `Finished` is the step of a system all of
whose runs have ended.

## 5. Fairness

`FairSpec` asks weak fairness of every run's own `Step`: a run that has begun
is a process the operating system keeps scheduling, and its commands return. It
is not asked to begin, and faults are never fair. `_run` and the prompts wait
for commands and for the operator, not for another run, so the fairness assumes
nothing about the others. It is needed by `SomebodyPublishes` alone: a run that
nobody refuses publishes only if it keeps going, and the run that refused it for
a directory in the way has to go on too. The operator has answered by then: the
property begins at the check after the prompt. An exception ends a run without a
keyset, so the property is about behaviours in which nobody meets one.

## 6. What is proved

Every invariant, action property and refinement that a run checks is also a
theorem, `SomebodyPublishes` excepted. There is a proof module for each component;
each gives the inductive invariant first, then a lemma for each action or group
of actions, and the theorems last. TLC checked the inductive invariants as
invariants of a run before they were proved.

| module | for any | under | theorems |
|---|---|---|---|
| `KeysetGenerationProofs` | runs, plan, faults, overlap | `PlanAssumption`, `NoRunAssumption` | `TypeCorrect`, `CompleteWhenPublished`, `AtMostOneAuthority`, `DurableWhenAcknowledged`, `PublishedKeysetStays`, `RefusalsHaveACause`, `EndedRunsLeaveNothing`, `StepsLeadForward`, `ImplementsPublication` |
| `SignReleaseProofs` | runs, container keys, changes, faults, overlap | `SignContainersAssumption`, `SignCertificatesAssumption`, `SignGenAssumption`, `SignNoRunAssumption` | `TypeCorrect`, `ReleasesAreOfOneInstant`, `ReleasesAreOfAcceptedInputs`, `SignedWithExportedKey`, `ReleasesAreWhole`, `KeysAreRemoved`, `ImplementsPublication` |
| `VerificationReportProofs` | verifiers, inputs, changes, faults | overlap or not: `TypeCorrect`, `ReportsAreOfOneInstant`; `~Overlap`: the others | `TypeCorrect`, `ReportsAreOfOneInstant`, `ReportsAreWhole`, `ImplementsPublication` |
| `TargetFilesBuildProofs` | runs, faults, boot images | overlap or not: `TypeCorrect`; `~Overlap`: the others | `TypeCorrect`, `OldArchivesAreKept`, `FinalsNameOwnBuilds`, `PrefixIsNeverFinal`, `FailedRunsRestore` |
| `SigningPlanProofs` | metadata, names, certificates, policy | the assumptions of the module | `TypeCorrect`, `RolesAreDistinct`, `AppsAreResigned`, `SeinfoIsKept`, `VerifierAndSignerAgree` |
| `ReleaseAcceptanceProofs` | contents, number of wrong parts and commands | a test build's parts can be told from the release's | `TypeCorrect`, `SameRelease`, `RecordedKernel`, `DeviceStartsAndUpdates`, `GoodReleasesPass` |
| `SpftPackageProofs` | overlapping runs, images, changes, faults | the assumptions of the module | `TypeCorrect`, `ReportedPackagesAgree` |
| `SourceSyncProofs` | projects, files, patches, what revisions take and hold, kills, moves of pins | `OneProjectAssumption`, `RevisionsAssumption` and the bounds | `TypeCorrect`, `SuccessesAreReady`, `RefusalsHaveCauses` |

**Keyset.** None of the invariants of `KeysetGeneration` is inductive.
`PublishedComplete` says nothing of a directory that has not been published yet,
so `IInv` follows a run's directory from the start. `PlaceInv` ties the step a
run is at to where its directory is, and to where the disk may have it: `"dest"`
is possible on disk only for the run that is there now, which is what makes a
power loss harmless to `OneAuthority`. `TreeInv` ties the step to the entries:
before publication only the output being made may be incomplete (`WholeBut`);
from `_validate_complete_staging` on the entries are exactly the expected ones;
after the fsync of `public/` those under it are on disk; and from the fsync of
the staging directory on, all of them are (`Settled`) and stay so, in particular
through the rename. A step is split into what it does to its own run
(`StepPlace`, `StepTree`) and to the others (`StepTouchesOwn`: at most the
parent's fsync reaches them); the faults have a lemma each. `RefusalHasCause`
needs one more step, `CausePersists`: a directory that was in the way when a run
was refused can only go away by way of the states the property names.
`EndedRunLeavesNothing` needs that a run under way which says it has published
has the destination (`EndInv`): the handler that trusts the flag then ends with
a whole keyset. Every other way through the two handlers empties the directory
before it is removed: while an entry is left, one can be removed
(`RemovableUntilEmpty`), so `os.rmdir` is only reached with none left. A power
loss can bring entries back but not the data of a raw key that was removed.
`StepsLeadForward` needs that outputs are made in one order, that the steps for
one output have an order (`Rank`), and that the three loops over directory
entries add one entry or remove one; nothing anybody else does touches the
output, the step or the entries of a run under way.

**Signer.** A release stays when its run is gone, so what a run has established
is said of the run from some step on, or of its directory once that is the
release (`Past`). `HeldInv` says that what is read through a descriptor is no
older than what was opened; `CopyInv` that every copy is what was opened, once
compared; `InstantInv` that what was pinned is no newer than the moment the
copied keys were sealed, and equal to it once compared again; `AcceptInv` what
the record, the manifest and the exported key were compared with, as far as they
name it. The order of
these four is the argument: `pinned <= instant <= gen` for every path, and a
comparison that finds `gen = pinned` closes the gap. `SealInv` ties the mode of
the copied keys to the steps, which is what `KeysAreRemoved` rests on.

**Report.** The moment a report is of is the one at which the last input has
been copied. `DatedInv` carries it through the comparisons: at it the paths held
every copy that was compared since or still can be found equal, because a path
that has once held another inode or content never holds the old one again
(`FilesInv`, `ReadInv`). This needs nothing of other verifiers. That a report is
whole and written once does: the temporary file has one name, and a verifier
that lost `O_EXCL` unlinks the winner's. With three overlapping verifiers TLC
finds a half-written report, so the hypothesis cannot be dropped; with two it
finds none.

**Build wrapper.** `RunInv` says for the run at work what is at the path and
under its backup's name at each step: after `MoveAside` the path is empty and
the backup is what `before` records; what is there after the check is the run's
own. `OwnStep` shows that no step of it loses the content of any archive
(`Somewhere`), and `StepTouchesOnly` that it leaves the others' files. With
`Overlap`, and the faults of `build_serial`, all four properties are violated by
two runs, the wrapper having no lock.

**Packager.** `OnePackage` is what the rename, refused over a directory with
entries, and the operator, who removes only what nobody will report, keep
between them. From it follows that the archive has one maker at a time
(`AloneAtArchive`), and `ContentInv` follows the images from the directory to
checksums and archive. `FirmwareInv` says which images are still the manifest's
or were written since they were compared, of the source and then of the copy.

**Source checkout.** `DoneInv` says that the patches come to so far are in place,
put there or held by the revision, but for the files `git apply` has taken away
(`Away`); `CleanInv` that in a project where none was cut short no file is
missing and every patch was put into all of its files or into none. A patch that
is refused there is refused by the revision alone (`RefusalHasCause`): if all of
its files took it, or all had it, one of the two dry runs would pass. That a
project moves changes nothing in this, because only files that were missing are
written, and those are in projects that are torn (`InvRepoSync`).
That a patch touches one project (`OneProjectAssumption`:
each line of `patch_specs` names one, and `git -C` runs in it) is necessary: TLC
finds a refused patch without a cause when one patch is allowed to span two
projects, because restoring one of them takes half of it away. `TypeOK` itself
is not inductive, since what `git apply` has left must be files of its patch
(`LeftInv`).

**Signing plan.** All five properties are proved for any metadata, names, order,
sharing of certificates and policy: suffixed names and last components are
arbitrary (nothing is assumed of the hash); `-d` names `releasekey` for the
default test key, as the signing tool does; and the certificates of a keyset are
new, which is what generating keys means. The inductive invariant keeps the
roles given so far inside `used` (`RolesInv`), says which stems have one at each
step (`ProgressInv`), and that each signer read was accepted and rewritten by
the one role its certificate belongs to (`PolicyInv`). `AcceptedSigner` is the
fact both `SeinfoIsKept` and `VerifierAndSignerAgree` rest on: an accepted
signer of a required role has the one certificate of the role's source keys.

**Verdict.** The invariants about accepted releases say nothing while the checks
go on, so `FoundInv` says what has been found out once a check is behind: the
steps after it cannot take it back, because no check changes an artifact
(`FoundStays`). The theorems then only combine what the checks found
(`PackagesHoldTheSigned`). That fastboot flashes all but the firmware follows
from one check, that what it flashes is what the OTA installs from three.
`GoodReleasesPass` goes the other way: in a release
that is in order every part holds what it should (`GoodContent`), so that each
of the twenty formulas is true (`GoodRecords`, `GoodTargetFiles`,
`GoodPackages`).

## 7. What is only model-checked

`SomebodyPublishes`: liveness under fairness and `ENABLED` are out of the
prover's reach. The two violations (`build_overlap`, `report_replaced`) are
counterexamples, which TLC shows and no proof could.

## 8. What is not modelled, and why

* The decoding of archives, images, certificates and payloads: functions
  without state, for which the models put what they are compared for.
* `verify_artifacts.py`: one pass over the files of an unsigned build. Its only
  state is the `SHA256SUMS` it replaces at the end, and no step of it depends on
  what an earlier one left. That it writes this file beside the OTA, where a
  signed release has one of its own, is in the list of hazards.
* File modes, owners, symlinks and the trust checks on ancestor directories:
  early refusals before anything is created.
* Power loss in `TargetFilesBuild` and `VerificationReport`: the wrapper fsyncs
  nothing and promises nothing about it, and the report's directory is not
  fsynced either.
* A change of an input that is undone while the verifier runs: the comparison
  is by inode, size and hash, which such a change passes unnoticed.
* `build.sh`, `bootstrap.sh`, `collect_device_logs.sh`, `render_provenance.py`
  and `lib/common.sh` are linear scripts that keep no state another part reads
  back.
* In `SignRelease`: what the signing commands and the checks of their outputs
  decide (a refusal is an interrupt), the files of the private runtime directory
  beside the copied keys, which nobody else writes, and a change of an input
  that is undone between two comparisons with its times restored. No record
  names the private container keys; that each belongs to its certificate is for
  the signing tool to find out. The AVB public
  keys are read in place twice, when the manifest is checked and when they are
  exported; the model lets them change in between, and no property says the two
  are the same, because nothing in the code promises it.
* In `SigningPlan`: the syntax of metadata, XML and PEM, the characters of
  names, and the options for APEX and AVB keys.
* In `ReleaseAcceptance`: the copy of the Android tool chain the checks run in;
  packages beside the one that stands for its role
  (`tests/test_signed_release.py` calls it the representative APK); and the relation between the trees of the target-files
  (packages, policy, properties, certificates) and the images made of them,
  which the verifier takes from the tools that made both: no check of the
  verifier compares a file of the tree with the image that holds it, except for
  the boot image.
* In `SpftPackage`: the Download-XML and the download agent, which are refusals
  or none, and a file that changes while it is hashed or copied.
* In `SourceSync`: patches that meet in one file. A patch is taken, held or
  refused by a file whatever other patches are in it, which is right for the
  seven of `patch_specs`: 0004 and 0005 change `property_contexts` in places
  whose contexts do not overlap, and no other two share a file. A patch that
  changed the context of a later one would need a model of lines. Further,
  `sync.sh` runs that overlap, for which `repo` has its own
  lock; the two modes that change nothing; and a manifest that Python cannot
  read, which would end the comparison of the heads without an error (the exit
  status of a process substitution is not looked at).

## 9. Where the code and its documents part

* `build_overlap`: `docs/build-and-install.md` says the runner "rejects an
  unchanged stale target-files archive". The archive is checked at one moment
  and bound at a later one through the same path, and another run's restore may
  put the old archive there in between. The recorded `after` hash is not
  compared with what `finalize` binds.
* `report_replaced`: `write_sanitized_report` refuses when a "verification
  report already exists" and then publishes with `os.replace`, which replaces.
  A verifier that passed the check in time replaces the report of one that has
  already succeeded.

One more is plain from the code and has no run. `docs/build-and-install.md:119`
says that "Existing valid keys are reused", and the design that running the key
generation again "must be idempotent". `_reject_existing_destination` refuses a
complete and consistent keyset like any other content of the destination
(`generate_release_keys.py:853`, `Begin` in `KeysetGeneration`): nothing is
overwritten, but a second run ends with an error.
