------------------------------ MODULE SpftPackage ------------------------------
(***************************************************************************)
(* The flashing package, scripts/ubuntu/package_spft.py: firmware checked  *)
(* against its manifest where it lies, everything copied into a temporary  *)
(* directory, the directory renamed to the package, and the archive made   *)
(* from it. Any number of runs with one --output-dir and --name, killed or *)
(* interrupted anywhere, while the files they copy may be written again.   *)
(***************************************************************************)
EXTENDS Naturals

CONSTANTS
    Runs,        \* invocations for one package
    None,        \* no run
    Build,       \* the images of the build (BUILD_IMAGES)
    Firmware,    \* the firmware images (FIRMWARE_IMAGES)
    Absent,      \* no such file in a directory or archive
    MaxChanges,  \* bound: how often the files change altogether
    Faults       \* what may cut a run short

ASSUME NoneAssumption   == None \notin Runs
ASSUME ImagesAssumption == Build \cap Firmware = {} /\ Build # {} /\ Firmware # {}
ASSUME BoundAssumption  == MaxChanges \in Nat
ASSUME AbsentAssumption == Absent \notin 0..MaxChanges
ASSUME FaultsAssumption == Faults \subseteq {"interrupt", "crash"}

Images == Build \cup Firmware

\* A content is the number of the change that wrote it; the manifest's is 0.
Changes == 0..MaxChanges

VARIABLES
    clock,    \* how many changes were made to the files
    source,   \* the content of each image where it is copied from
    pc,       \* the step each run is at
    left,     \* the images the loop it is in has still to come to
    place,    \* where the run's directory is
    held,     \* the images in it
    sums,     \* the images as its SHA256SUMS lists them
    maker,    \* the run that opened the archive there is
    archive,  \* the images in it
    changed   \* firmware written since the run had checked it (history)

files == <<clock, source>>
tree  == <<place, held, sums>>
zip   == <<maker, archive>>
vars  == <<files, pc, left, tree, zip, changed>>

Unpublished == {"mkdir", "copy", "adapt", "sums", "publish"}
Archiving   == {"open", "archive", "test"}
Working     == {"verify", "check", "cleanup"} \cup Unpublished \cup Archiving
Ended       == {"done", "refused", "failed", "stuck", "dead"}

Listing == [Images -> Changes \cup {Absent}]
Nothing == [i \in Images |-> Absent]

TypeOK == /\ clock \in Changes
          /\ source \in [Images -> Changes]
          /\ pc \in [Runs -> {"idle"} \cup Working \cup Ended]
          /\ left \in [Runs -> SUBSET Images]
          /\ place \in [Runs -> {"none", "temporary", "package"}]
          /\ held \in [Runs -> Listing]
          /\ sums \in [Runs -> Listing]
          /\ maker \in Runs \cup {None}
          /\ archive \in Listing
          /\ changed \in [Runs -> SUBSET Firmware]

Init == /\ clock = 0
        /\ source = [i \in Images |-> 0]
        /\ pc = [r \in Runs |-> "idle"]
        /\ left = [r \in Runs |-> {}]
        /\ place = [r \in Runs |-> "none"]
        /\ held = [r \in Runs |-> Nothing]
        /\ sums = [r \in Runs |-> Nothing]
        /\ maker = None
        /\ archive = Nothing
        /\ changed = [r \in Runs |-> {}]

Goto(r, step) == pc' = [pc EXCEPT ![r] = step]

\* Whose directory is the package.
Package == IF \E r \in Runs : place[r] = "package" THEN CHOOSE r \in Runs : place[r] = "package" ELSE None

\* One round of a loop over images, and the step after its last.
Round(r, i, again, following) ==
    /\ left' = [left EXCEPT ![r] = @ \ {i}]
    /\ Goto(r, IF left[r] = {i} THEN following ELSE again)

-----------------------------------------------------------------------------
(* package, up to the rename.                                              *)

Begin(r) ==
    /\ pc[r] = "idle"
    /\ left' = [left EXCEPT ![r] = Firmware]
    /\ Goto(r, "verify")
    /\ UNCHANGED <<files, tree, zip, changed>>

\* The size and the hash are those of the manifest.
VerifyHash(r, i) == source[i] = 0

VerifyFirmware(r) ==
    /\ pc[r] = "verify"
    /\ \E i \in left[r] : \/ VerifyHash(r, i) /\ Round(r, i, "verify", "check")
                          \/ ~VerifyHash(r, i) /\ Goto(r, "failed") /\ UNCHANGED left
    /\ UNCHANGED <<files, tree, zip, changed>>

CheckOutput(r) ==
    /\ pc[r] = "check"
    /\ Goto(r, IF Package # None \/ maker # None THEN "refused" ELSE "mkdir")
    /\ UNCHANGED <<files, left, tree, zip, changed>>

MakeTemporary(r) ==
    /\ pc[r] = "mkdir"
    /\ place' = [place EXCEPT ![r] = "temporary"]
    /\ left' = [left EXCEPT ![r] = Images]
    /\ Goto(r, "copy")
    /\ UNCHANGED <<files, held, sums, zip, changed>>

\* The images of the build come first.
CopyImage(r) ==
    /\ pc[r] = "copy"
    /\ \E i \in IF left[r] \cap Build # {} THEN left[r] \cap Build ELSE left[r] :
         /\ held' = [held EXCEPT ![r][i] = source[i]]
         /\ Round(r, i, "copy", "adapt")
    /\ UNCHANGED <<files, place, sums, zip, changed>>

\* A faulty variant: an image that is too large is left for a later check.
AdaptLater(r) ==
    /\ pc[r] = "adapt"
    /\ Goto(r, "sums") \/ Goto(r, "limits")
    /\ UNCHANGED <<files, left, tree, zip, changed>>

\* An image may exceed its partition.
AdaptXml(r) ==
    /\ pc[r] = "adapt"
    /\ Goto(r, "sums") \/ Goto(r, "cleanup")
    /\ UNCHANGED <<files, left, tree, zip, changed>>

WriteChecksums(r) ==
    /\ pc[r] = "sums"
    /\ sums' = [sums EXCEPT ![r] = held[r]]
    /\ Goto(r, "publish")
    /\ UNCHANGED <<files, left, place, held, zip, changed>>

\* A faulty variant: what has the name is removed before the rename.
ReplacePackage(r) ==
    /\ pc[r] = "publish"
    /\ place' = [q \in Runs |-> IF q = r THEN "package" ELSE IF place[q] = "package" THEN "none" ELSE place[q]]
    /\ Goto(r, "open")
    /\ UNCHANGED <<files, left, held, sums, zip, changed>>

\* A directory is not renamed over one that has entries.
PublishDirectory(r) ==
    /\ pc[r] = "publish"
    /\ IF Package = None THEN place' = [place EXCEPT ![r] = "package"] /\ Goto(r, "open")
                         ELSE Goto(r, "cleanup") /\ UNCHANGED place
    /\ UNCHANGED <<files, left, held, sums, zip, changed>>

\* The end of the with statement, when there is something to remove.
RemoveTemporary(r) ==
    /\ pc[r] = "cleanup"
    /\ place' = [place EXCEPT ![r] = "none"]
    /\ Goto(r, "failed")
    /\ UNCHANGED <<files, left, held, sums, zip, changed>>

-----------------------------------------------------------------------------
(* create_archive, and the test of the archive.                            *)

\* What is at the path is truncated.
OpenArchive(r) ==
    /\ pc[r] = "open"
    /\ maker' = r
    /\ archive' = Nothing
    /\ left' = [left EXCEPT ![r] = Images]
    /\ Goto(r, "archive")
    /\ UNCHANGED <<files, tree, changed>>

\* The images are read from the directory that has the name.
ArchiveImage(r) ==
    /\ pc[r] = "archive"
    /\ \E i \in left[r] :
         IF Package = None
           THEN Goto(r, "failed") /\ UNCHANGED <<left, archive>>
           ELSE archive' = [archive EXCEPT ![i] = held[Package][i]] /\ Round(r, i, "archive", "test")
    /\ UNCHANGED <<files, tree, maker, changed>>

TestArchive(r) ==
    /\ pc[r] = "test"
    /\ Goto(r, "done")
    /\ UNCHANGED <<files, left, tree, zip, changed>>

-----------------------------------------------------------------------------
(* The environment.                                                        *)

\* An exception or Ctrl-C. Before the rename the temporary directory goes;
\* after it the directory stays, and the archive is closed as it is.
Interrupt(r) ==
    /\ "interrupt" \in Faults
    /\ pc[r] \in Working
    /\ Goto(r, CASE pc[r] = "cleanup" -> "stuck"
                 [] pc[r] \in Unpublished \ {"mkdir"} -> "cleanup"
                 [] OTHER -> "failed")
    /\ UNCHANGED <<files, left, tree, zip, changed>>

Crash(r) ==
    /\ "crash" \in Faults
    /\ pc[r] \in Working
    /\ Goto(r, "dead")
    /\ UNCHANGED <<files, left, tree, zip, changed>>

\* The firmware the run has compared with the manifest.
Checked(r) == CASE pc[r] = "idle"   -> {}
                [] pc[r] = "verify" -> Firmware \ left[r]
                [] OTHER            -> Firmware

\* A build or an extraction writes an image again, or puts it back.
WriteImage(i) ==
    /\ clock < MaxChanges
    /\ clock' = clock + 1
    /\ source' \in {[source EXCEPT ![i] = clock + 1], [source EXCEPT ![i] = 0]}
    /\ changed' = [r \in Runs |-> IF i \in Checked(r) THEN changed[r] \cup {i} ELSE changed[r]]
    /\ UNCHANGED <<pc, left, tree, zip>>

\* The operator removes a directory or an archive nobody reported.
Abandoned(r) == pc[r] \in Ended \ {"done"}

ClearDirectory(r) ==
    /\ Abandoned(r) /\ place[r] # "none"
    /\ place' = [place EXCEPT ![r] = "none"]
    /\ UNCHANGED <<files, pc, left, held, sums, zip, changed>>

ClearArchive ==
    /\ maker # None /\ Abandoned(maker)
    /\ maker' = None
    /\ archive' = Nothing
    /\ UNCHANGED <<files, pc, left, tree, changed>>

Step(r) == \/ VerifyFirmware(r) \/ CheckOutput(r) \/ MakeTemporary(r) \/ CopyImage(r) \/ AdaptXml(r)
           \/ WriteChecksums(r) \/ PublishDirectory(r) \/ RemoveTemporary(r)
           \/ OpenArchive(r) \/ ArchiveImage(r) \/ TestArchive(r)

Finished == (\A r \in Runs : pc[r] \in Ended) /\ UNCHANGED vars

Next == \/ \E r \in Runs : Begin(r) \/ Step(r) \/ Interrupt(r) \/ Crash(r) \/ ClearDirectory(r)
        \/ ClearArchive
        \/ \E i \in Images : WriteImage(i)
        \/ Finished

Spec == Init /\ [][Next]_vars

-----------------------------------------------------------------------------
(* Properties.                                                             *)

\* A package whose run reported success is at its path and stays there; the
\* directory, its checksums and the archive are the same images, although the
\* archive is made after the directory is published and a partial archive of a
\* run cut short looks like any other (lines 256-284); and its firmware is what
\* the manifest pins, unless the file was written after its hash had been
\* compared, the hash being that of the file and not of the copy (lines 73-107).
ReportedPackageAgrees ==
    \A r \in Runs : pc[r] = "done" =>
        /\ Package = r /\ maker = r
        /\ \A i \in Images : held[r][i] # Absent
        /\ archive = held[r] /\ sums[r] = held[r]
        /\ \A i \in Firmware : held[r][i] = 0 \/ i \in changed[r]
=============================================================================
