--------------------------- MODULE TargetFilesBuild ---------------------------
(***************************************************************************)
(* scripts/ubuntu/build_target_files.sh and the two phases of              *)
(* build_provenance.py that it calls.                                      *)
(*                                                                         *)
(* A run moves the existing target-files archive aside, proves the kernel  *)
(* patch, builds, checks that the archive was refreshed and finally writes *)
(* an immutable provenance record that names the archive it found at the   *)
(* path.  A run whose checks fail puts the old archive back.  Every run    *)
(* uses the same path; there is no lock on it.                             *)
(*                                                                         *)
(* The content of an archive is named by the run that packaged it.  The    *)
(* build (m), the kernel tree and the operator are the environment.        *)
(***************************************************************************)
EXTENDS Naturals

CONSTANTS
    Runs,      \* runs of the build wrapper
    Earlier,   \* the content of an archive older than all of them
    None,      \* no such file or record
    Faults,    \* what the environment may do to a run
    Overlap    \* whether one run may begin while another is still going

FaultKinds == {"kill", "edit", "rewrite"}

ASSUME NamesAssumption   == Earlier \notin Runs /\ None \notin Runs \cup {Earlier}
ASSUME FaultsAssumption  == Faults \subseteq FaultKinds
ASSUME OverlapAssumption == Overlap \in BOOLEAN

Contents == Runs \cup {Earlier}

\* A file at one of the paths: its content, whether it is a whole ZIP with
\* one boot image, and the runs that had started when it was written.
Archive == [content : Contents, whole : BOOLEAN, since : SUBSET Runs]

\* The boot image inside: the rejected pre-fix one (whatever its AVB footer), or another.
BootKinds == {"fixed", "prefix"}

VARIABLES
    pc,        \* the step each run is at
    started,   \* runs whose start time has been taken
    target,    \* the archive at the target-files path
    backup,    \* ... at the run's .pre-run path
    failed,    \* ... at the run's .pre-final-failed path
    before,    \* the content recorded in the run's "before" snapshot
    after,     \* ... in its "after" snapshot
    packaged,  \* whether the run's log has the packaging line
    boot,      \* the boot image inside each content
    patched,   \* whether the kernel tree has the patch applied
    evidence,  \* whether the run holds a pre-build proof
    bootRead,  \* the content whose boot image finalize has read
    final      \* the content named by the run's final provenance

paths   == <<target, backup, failed>>
records == <<before, after, final>>
vars    == <<pc, started, paths, records, packaged, boot, patched, evidence, bootRead>>

Working == {"preserve", "aside", "start", "prebuild", "make", "check", "evidence",
            "restore", "putback", "finalize", "bind"}
Ended   == {"aborted", "failed", "rejected", "killed", "done"}

TypeOK == /\ pc \in [Runs -> {"idle"} \cup Working \cup Ended]
          /\ started \in SUBSET Runs
          /\ target \in Archive \cup {None}
          /\ backup \in [Runs -> Archive \cup {None}]
          /\ failed \in [Runs -> Archive \cup {None}]
          /\ before \in [Runs -> Contents \cup {None}]
          /\ after \in [Runs -> Contents \cup {None}]
          /\ packaged \in [Runs -> BOOLEAN]
          /\ boot \in [Contents -> BootKinds]
          /\ patched \in BOOLEAN
          /\ evidence \in [Runs -> BOOLEAN]
          /\ bootRead \in [Runs -> Contents \cup {None}]
          /\ final \in [Runs -> Contents \cup {None}]

\* An earlier build may have left an archive, with any boot image.
Init == /\ pc = [r \in Runs |-> "idle"]
        /\ started = {}
        /\ target \in {None, [content |-> Earlier, whole |-> TRUE, since |-> {}]}
        /\ backup = [r \in Runs |-> None]
        /\ failed = [r \in Runs |-> None]
        /\ before = [r \in Runs |-> None]
        /\ after = [r \in Runs |-> None]
        /\ packaged = [r \in Runs |-> FALSE]
        /\ boot \in {[c \in Contents |-> kind] : kind \in BootKinds}
        /\ patched \in BOOLEAN
        /\ evidence = [r \in Runs |-> FALSE]
        /\ bootRead = [r \in Runs |-> None]
        /\ final = [r \in Runs |-> None]

Goto(r, step) == pc' = [pc EXCEPT ![r] = step]
build  == <<packaged, boot, patched, evidence, bootRead>>

-----------------------------------------------------------------------------
(* preserve_existing_target_files.                                         *)

Begin(r) ==
    /\ pc[r] = "idle"
    /\ Overlap \/ \A s \in Runs : pc[s] \notin Working
    /\ Goto(r, "preserve")
    /\ UNCHANGED <<started, paths, records, build>>

\* The archive at the path is hashed and recorded, or its absence is.
Preserve(r) ==
    /\ pc[r] = "preserve"
    /\ IF target = None
         THEN Goto(r, "start") /\ UNCHANGED before
         ELSE Goto(r, "aside") /\ before' = [before EXCEPT ![r] = target.content]
    /\ UNCHANGED <<started, paths, after, final, build>>

\* target.replace(backup); a missing target aborts the script (set -e).
MoveAside(r) ==
    /\ pc[r] = "aside"
    /\ IF target = None
         THEN Goto(r, "aborted") /\ UNCHANGED paths
         ELSE /\ backup' = [backup EXCEPT ![r] = target]
              /\ target' = None
              /\ Goto(r, "start")
              /\ UNCHANGED failed
    /\ UNCHANGED <<started, records, build>>

TakeStartTime(r) ==
    /\ pc[r] = "start"
    /\ started' = started \cup {r}
    /\ Goto(r, "prebuild")
    /\ UNCHANGED <<paths, records, build>>

-----------------------------------------------------------------------------
(* run_build: the pre-build proof, then m.                                 *)

ProvePatched(r) ==
    /\ pc[r] = "prebuild"
    /\ IF patched THEN evidence' = [evidence EXCEPT ![r] = TRUE] /\ Goto(r, "make")
                  ELSE Goto(r, "restore") /\ UNCHANGED evidence
    /\ UNCHANGED <<started, paths, records, packaged, boot, patched, bootRead>>

\* What m may do to the archive: package a new one (with any boot image, for
\* the out tree is kept), write the bytes of the preserved one again, or
\* leave the path alone.
Written(c, whole) == target' = [content |-> c, whole |-> whole, since |-> started]

PackageNew(r, whole) ==
    /\ Written(r, whole)
    /\ packaged' = [packaged EXCEPT ![r] = TRUE]
    /\ \E kind \in BootKinds : boot' = [boot EXCEPT ![r] = kind]

RewriteOld(r) ==
    /\ "rewrite" \in Faults
    /\ before[r] # None
    /\ Written(before[r], TRUE)
    /\ packaged' \in {packaged, [packaged EXCEPT ![r] = TRUE]}
    /\ UNCHANGED boot

LeaveAlone(r) == packaged' \in {packaged, [packaged EXCEPT ![r] = TRUE]} /\ UNCHANGED <<target, boot>>

\* m, or the log writer, succeeds or fails; what it leaves need not be whole.
Make(r) ==
    /\ pc[r] = "make"
    /\ Goto(r, "check") \/ Goto(r, "restore")
    /\ (\E whole \in BOOLEAN : PackageNew(r, whole)) \/ RewriteOld(r) \/ LeaveAlone(r)
    /\ UNCHANGED <<started, backup, failed, records, patched, evidence, bootRead>>

-----------------------------------------------------------------------------
(* The checks before finalization, and what a failed one leads to.         *)

\* A faulty variant: only time and packaging line are looked at, not the old archive's hash.
RefreshedByTime(r) ==
    /\ target # None
    /\ r \in target.since
    /\ target.whole
    /\ packaged[r]

\* require_refreshed_target_files.
Refreshed(r) ==
    /\ target # None
    /\ r \in target.since
    /\ target.whole
    /\ packaged[r]
    /\ before[r] # target.content

\* A faulty variant: the archive itself is recorded instead of its hash.
CheckKeepsArchive(r) ==
    /\ pc[r] = "check"
    /\ IF Refreshed(r) THEN after' = [after EXCEPT ![r] = target] /\ Goto(r, "evidence")
                       ELSE Goto(r, "restore") /\ UNCHANGED after
    /\ UNCHANGED <<started, paths, before, final, build>>

CheckRefreshed(r) ==
    /\ pc[r] = "check"
    /\ IF Refreshed(r)
         THEN after' = [after EXCEPT ![r] = target.content] /\ Goto(r, "evidence")
         ELSE Goto(r, "restore") /\ UNCHANGED after
    /\ UNCHANGED <<started, paths, before, final, build>>

\* The resolved manifest, the runtime evidence and the metadata are written, or one fails.
WriteEvidence(r) ==
    /\ pc[r] = "evidence"
    /\ Goto(r, "finalize") \/ Goto(r, "restore")
    /\ UNCHANGED <<started, paths, records, build>>

\* A faulty variant: the new archive is moved to the backup's name.
SetAsideOverBackup(r) ==
    /\ pc[r] = "restore"
    /\ IF before[r] = None
         THEN Goto(r, "failed") /\ UNCHANGED paths
         ELSE /\ Goto(r, "putback")
              /\ backup' = [backup EXCEPT ![r] = IF target = None THEN @ ELSE target]
              /\ target' = None
              /\ UNCHANGED failed
    /\ UNCHANGED <<started, records, build>>

\* A faulty variant: nothing is put back when the build left no archive.
RestoreOnlyOver(r) ==
    /\ pc[r] = "restore"
    /\ IF before[r] = None \/ target = None
         THEN Goto(r, "failed") /\ UNCHANGED paths
         ELSE /\ Goto(r, "putback")
              /\ failed' = [failed EXCEPT ![r] = target]
              /\ target' = None
              /\ UNCHANGED backup
    /\ UNCHANGED <<started, records, build>>

\* restore_preserved_target_files, in its two renames.
SetFailedAside(r) ==
    /\ pc[r] = "restore"
    /\ IF before[r] = None
         THEN Goto(r, "failed") /\ UNCHANGED paths
         ELSE /\ Goto(r, "putback")
              /\ failed' = [failed EXCEPT ![r] = target]
              /\ target' = None
              /\ UNCHANGED backup
    /\ UNCHANGED <<started, records, build>>

PutBack(r) ==
    /\ pc[r] = "putback"
    /\ target' = backup[r]
    /\ backup' = [backup EXCEPT ![r] = None]
    /\ Goto(r, "failed")
    /\ UNCHANGED <<started, failed, records, build>>

-----------------------------------------------------------------------------
(* build_provenance.py finalize, which the script execs.                   *)

\* A faulty variant: the proof about the kernel is taken for the boot image.
FinalizeByKernel(r) ==
    /\ pc[r] = "finalize"
    /\ IF evidence[r] /\ patched /\ target # None /\ target.whole
         THEN bootRead' = [bootRead EXCEPT ![r] = target.content] /\ Goto(r, "bind")
         ELSE Goto(r, "rejected") /\ UNCHANGED bootRead
    /\ UNCHANGED <<started, paths, records, packaged, boot, patched, evidence>>

\* The kernel is still as proved, and the boot image at the path is not the
\* rejected one; a refusal here restores nothing.
FinalizeBoot(r) ==
    /\ pc[r] = "finalize"
    /\ IF evidence[r] /\ patched /\ target # None /\ target.whole /\ boot[target.content] # "prefix"
         THEN bootRead' = [bootRead EXCEPT ![r] = target.content] /\ Goto(r, "bind")
         ELSE Goto(r, "rejected") /\ UNCHANGED bootRead
    /\ UNCHANGED <<started, paths, records, packaged, boot, patched, evidence>>

\* The archive is hashed once more, and the record is linked into place.
FinalizeBind(r) ==
    /\ pc[r] = "bind"
    /\ IF target # None
         THEN final' = [final EXCEPT ![r] = target.content] /\ Goto(r, "done")
         ELSE Goto(r, "rejected") /\ UNCHANGED final
    /\ UNCHANGED <<started, paths, before, after, build>>

-----------------------------------------------------------------------------
(* The environment.                                                        *)

\* Ctrl-C or a kill: the script has no trap.
Kill(r) ==
    /\ "kill" \in Faults
    /\ pc[r] \in Working
    /\ Goto(r, "killed")
    /\ UNCHANGED <<started, paths, records, build>>

\* Somebody applies or reverts the kernel patch.
EditKernel ==
    /\ "edit" \in Faults
    /\ patched' = ~patched
    /\ UNCHANGED <<pc, started, paths, records, packaged, boot, evidence, bootRead>>

Step(r) == \/ Preserve(r) \/ MoveAside(r) \/ TakeStartTime(r) \/ ProvePatched(r) \/ Make(r)
           \/ CheckRefreshed(r) \/ WriteEvidence(r) \/ SetFailedAside(r) \/ PutBack(r)
           \/ FinalizeBoot(r) \/ FinalizeBind(r)

Finished == (\A r \in Runs : pc[r] \in Ended) /\ UNCHANGED vars

Next == (\E r \in Runs : Begin(r) \/ Step(r) \/ Kill(r)) \/ EditKernel \/ Finished

Spec == Init /\ [][Next]_vars

-----------------------------------------------------------------------------
(* Properties.                                                             *)

\* Every archive at one of the paths.
Held == ({target} \cup {backup[r] : r \in Runs} \cup {failed[r] : r \in Runs}) \ {None}

\* The archive a run found is never lost: wherever the run is cut short, it
\* is at the target path or under one of the names made for it
\* (lines 135 and 162-166).
OldArchiveKept ==
    \A r \in Runs : before[r] # None => \E a \in Held : a.content = before[r]

\* "If an earlier pre-finalization check fails, the old archive is restored":
\* the step that ends such a run leaves the path as the run found it.
RestoredOnFailure ==
    [][\A r \in Runs : (pc[r] # "failed" /\ pc'[r] = "failed" /\ before[r] # None) =>
           target' # None /\ target'.content = before[r]]_vars

\* The provenance a run finalizes names what that very run packaged: not an
\* archive that was there before, nor one that another run restored
\* (lines 170-221 and finalize_build_provenance).
FinalNamesOwnBuild == \A r \in Runs : final[r] \in {None, r}

\* No provenance names an archive with the rejected pre-fix boot image,
\* whatever was done to the kernel tree during the run.
PrefixNeverFinal == \A r \in Runs : final[r] # None => boot[final[r]] # "prefix"

\* An archive older than every run is never finalized, however runs overlap:
\* the runner "rejects an unchanged stale target-files archive".
StaleNeverFinal == \A r \in Runs : final[r] # Earlier
=============================================================================
