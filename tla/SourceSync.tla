------------------------------ MODULE SourceSync ------------------------------
(***************************************************************************)
(* The source checkout: scripts/ubuntu/sync.sh brings every pinned project *)
(* to its revision, applies the patches of apply_patches.sh to the working *)
(* trees and records a snapshot; apply_patches.sh is also run by itself.   *)
(* One invocation follows another in one workspace, each may be killed at  *)
(* any point, inside git apply too, and the pins may move at any time.     *)
(*                                                                         *)
(* git and repo are external: a patch is applied file by file, and repo    *)
(* sync may fail, or leave a project where it was. A revision need not     *)
(* take every patch. What a patch finds in a file is what the revision put *)
(* there and whether the patch itself is in it already: no two patches are *)
(* of the same lines of a file.                                            *)
(***************************************************************************)
EXTENDS Naturals

CONSTANTS
    Projects,   \* the pinned projects
    Files,      \* the files patches touch
    ProjectOf,  \* the project a file is in
    NPatches,   \* how many patches there are, in the order of patch_specs
    Touches,    \* the files each patch changes
    Fits,       \* the patches a file takes as a revision has it
    Holds,      \* the patches a file of a revision has in it
    None,       \* no snapshot
    MaxPins,    \* bound: how often a pin moves
    MaxKills    \* bound: how often an invocation is killed

Patches == 1..NPatches

ASSUME FilesAssumption   == ProjectOf \in [Files -> Projects]
ASSUME PatchesAssumption == NPatches \in Nat \ {0} /\ Touches \in [Patches -> (SUBSET Files) \ {{}}]

\* A line of patch_specs names one project, and git apply runs in it.
ASSUME OneProjectAssumption == \A n \in Patches : \A f, g \in Touches[n] : ProjectOf[f] = ProjectOf[g]

\* A file with a patch in it does not take the patch again.
ASSUME RevisionsAssumption == /\ Fits \in [Files -> [0..MaxPins -> SUBSET Patches]]
                              /\ Holds \in [Files -> [0..MaxPins -> SUBSET Patches]]
                              /\ \A f \in Files, v \in 0..MaxPins : Fits[f][v] \cap Holds[f][v] = {}

ASSUME BoundsAssumption  == MaxPins \in Nat /\ MaxKills \in Nat
ASSUME NoneAssumption    == None \notin [Projects -> 0..MaxPins]

\* A revision is the number of the change that pinned it.
Revisions == 0..MaxPins
Heads     == [Projects -> Revisions]

VARIABLES
    pin,       \* the manifest of this repository
    local,     \* its copy under .repo/local_manifests
    head,      \* what is checked out of each project
    hunks,     \* the patches each file contains
    missing,   \* the files that git apply took away and did not write back
    pc,        \* the step of the invocation under way
    syncing,   \* whether it is one of sync.sh
    wanted,    \* the pins the heads are compared with
    left,      \* the projects, or the files of a patch, still to come
    patch,     \* the patch that is next
    recorded,  \* the heads of the temporary snapshot
    snapshot,  \* the snapshot that was published last
    outcome,   \* how the last invocation ended
    torn,      \* the projects a git apply was cut short in (history)
    pins,      \* how often a pin moved
    kills      \* how often an invocation was killed

tree  == <<head, hunks, missing>>
notes == <<recorded, snapshot>>
env   == <<pin, pins, kills>>
vars  == <<env, local, tree, pc, syncing, wanted, left, patch, notes, outcome, torn>>

Steps    == {"install", "sync", "read", "heads", "check", "remove", "write", "record", "publish"}
Outcomes == {"none", "success", "failed", "unclean", "killed"}

TypeOK == /\ pin \in Heads /\ local \in Heads /\ head \in Heads /\ wanted \in Heads
          /\ hunks \in [Files -> SUBSET Patches]
          /\ missing \subseteq Files
          /\ pc \in {"idle"} \cup Steps
          /\ syncing \in BOOLEAN
          /\ left \subseteq Projects \cup Files
          /\ patch \in Patches
          /\ recorded \in Heads \cup {None} /\ snapshot \in Heads \cup {None}
          /\ outcome \in Outcomes
          /\ torn \subseteq Projects
          /\ pins \in 0..MaxPins /\ kills \in 0..MaxKills

Zero == [p \in Projects |-> 0]

Init == /\ pin = Zero /\ local = Zero /\ head = Zero /\ wanted = Zero
        /\ hunks = [f \in Files |-> {}]
        /\ missing = {}
        /\ pc = "idle"
        /\ syncing = FALSE
        /\ left = {}
        /\ patch = 1
        /\ recorded = None /\ snapshot = None
        /\ outcome = "none"
        /\ torn = {}
        /\ pins = 0 /\ kills = 0

End(how) == pc' = "idle" /\ outcome' = how

-----------------------------------------------------------------------------
(* sync.sh, up to the patches.                                             *)

\* Either script is started.
Begin ==
    /\ pc = "idle"
    /\ syncing' \in BOOLEAN
    /\ pc' = IF syncing' THEN "install" ELSE "check"
    /\ patch' = 1
    /\ outcome' = "none"
    /\ UNCHANGED <<env, local, tree, wanted, left, notes, torn>>

InstallManifest ==
    /\ pc = "install"
    /\ local' = pin
    /\ pc' = "sync"
    /\ UNCHANGED <<env, tree, syncing, wanted, left, patch, notes, outcome, torn>>

\* A file is the same in two revisions, for the patches.
SameText(f, v, w) == Fits[f][v] = Fits[f][w] /\ Holds[f][v] = Holds[f][w]

FilesOf(p) == {f \in Files : ProjectOf[f] = p}

\* git checkout keeps the changes a working tree has, and refuses a revision
\* that has another text of a changed file.
Movable(p) == /\ local[p] # head[p]
              /\ \A f \in FilesOf(p) \ missing : hunks[f] # {} => SameText(f, head[p], local[p])

\* repo sync moves projects to the pins it was given; whatever it reports,
\* some may still be where they were. A file that is missing is written if
\* the revisions have different texts of it.
RepoSync ==
    /\ pc = "sync"
    /\ \E moved \in SUBSET {p \in Projects : Movable(p)} :
         LET away == {f \in missing : ProjectOf[f] \in moved}
         IN  \E back \in SUBSET away :
               /\ \A f \in away \ back : SameText(f, head[ProjectOf[f]], local[ProjectOf[f]])
               /\ head' = [p \in Projects |-> IF p \in moved THEN local[p] ELSE head[p]]
               /\ missing' = missing \ back
               /\ hunks' = [f \in Files |-> IF f \in back THEN {} ELSE hunks[f]]
    /\ \/ pc' = "read" /\ UNCHANGED outcome
       \/ End("failed")
    /\ UNCHANGED <<env, local, syncing, wanted, left, patch, notes, torn>>

\* The manifest is read a second time, from this repository.
ReadPins ==
    /\ pc = "read"
    /\ wanted' = pin
    /\ left' = Projects
    /\ pc' = "heads"
    /\ UNCHANGED <<env, local, tree, syncing, patch, notes, outcome, torn>>

VerifyHead ==
    /\ pc = "heads"
    /\ \E p \in left : \/ /\ head[p] = wanted[p]
                          /\ left' = left \ {p}
                          /\ pc' = IF left = {p} THEN "check" ELSE "heads"
                          /\ UNCHANGED outcome
                       \/ head[p] # wanted[p] /\ End("failed") /\ UNCHANGED left
    /\ UNCHANGED <<env, local, tree, syncing, wanted, patch, notes, torn>>

-----------------------------------------------------------------------------
(* apply_patches.sh.                                                       *)

\* What the revision checked out puts into a file, and takes.
Held(f)  == Holds[f][head[ProjectOf[f]]]
Taken(f) == Fits[f][head[ProjectOf[f]]]

\* git apply --reverse --check, and git apply --check: every file must fit.
Applied(n)   == \A f \in Touches[n] : f \notin missing /\ n \in hunks[f] \cup Held(f)
Unapplied(n) == \A f \in Touches[n] : f \notin missing /\ n \in Taken(f) \ hunks[f]

\* The next patch, or what follows the last one.
NextPatch ==
    IF patch < NPatches THEN patch' = patch + 1 /\ pc' = "check" /\ UNCHANGED outcome
                        ELSE /\ UNCHANGED patch
                             /\ IF syncing THEN pc' = "record" /\ UNCHANGED outcome ELSE End("success")

\* A faulty variant: a patch that is there already is no reason to go on.
NeverApplied == FALSE

AlreadyApplied == Applied(patch)

\* A faulty variant: what does not apply is taken to be applied.
SkipPatch == ~Unapplied(patch) /\ NextPatch /\ UNCHANGED left

\* It is there already; or it applies; or the script ends.
DecidePatch == \/ AlreadyApplied /\ NextPatch /\ UNCHANGED left
               \/ ~AlreadyApplied /\ ~Unapplied(patch) /\ End("unclean") /\ UNCHANGED <<patch, left>>

CheckPatch ==
    /\ pc = "check"
    /\ \/ DecidePatch
       \/ Unapplied(patch) /\ left' = Touches[patch] /\ pc' = "remove" /\ UNCHANGED <<patch, outcome>>
    /\ UNCHANGED <<env, local, tree, syncing, wanted, notes, torn>>

\* git apply takes all its files away and then writes all of them.
RemoveFile ==
    /\ pc = "remove"
    /\ \E f \in left : /\ missing' = missing \cup {f}
                       /\ left' = IF left = {f} THEN Touches[patch] ELSE left \ {f}
                       /\ pc' = IF left = {f} THEN "write" ELSE "remove"
    /\ UNCHANGED <<env, local, head, hunks, syncing, wanted, patch, notes, outcome, torn>>

WriteFile ==
    /\ pc = "write"
    /\ \E f \in left : /\ missing' = missing \ {f}
                       /\ hunks' = [hunks EXCEPT ![f] = @ \cup {patch}]
                       /\ left' = left \ {f}
                       /\ IF left = {f} THEN NextPatch ELSE UNCHANGED <<pc, patch, outcome>>
    /\ UNCHANGED <<env, local, head, syncing, wanted, notes, torn>>

-----------------------------------------------------------------------------
(* The snapshot.                                                           *)

RecordHeads ==
    /\ pc = "record"
    /\ recorded' = head
    /\ pc' = "publish"
    /\ UNCHANGED <<env, local, tree, syncing, wanted, left, patch, snapshot, outcome, torn>>

\* A faulty variant: the name says which patch is next.
PublishUnfinished ==
    /\ pc = "publish"
    /\ snapshot' = recorded /\ patch' = patch + 1
    /\ End("success")
    /\ UNCHANGED <<env, local, tree, syncing, wanted, left, recorded, torn>>

PublishSnapshot ==
    /\ pc = "publish"
    /\ snapshot' = recorded
    /\ End("success")
    /\ UNCHANGED <<env, local, tree, syncing, wanted, left, patch, recorded, torn>>

-----------------------------------------------------------------------------
(* The environment.                                                        *)

Kill ==
    /\ pc # "idle" /\ kills < MaxKills
    /\ kills' = kills + 1
    /\ End("killed")
    /\ torn' = IF pc \in {"remove", "write"} THEN torn \cup {ProjectOf[f] : f \in Touches[patch]} ELSE torn
    /\ UNCHANGED <<pin, pins, local, tree, syncing, wanted, left, patch, notes>>

\* Somebody pins another revision of a project.
Repin(p) ==
    /\ pins < MaxPins
    /\ pins' = pins + 1
    /\ pin' = [pin EXCEPT ![p] = pins + 1]
    /\ UNCHANGED <<kills, local, tree, pc, syncing, wanted, left, patch, notes, outcome, torn>>

\* The operator throws the changes in a project away.
Restore(p) ==
    /\ pc = "idle"
    /\ hunks' = [f \in Files |-> IF ProjectOf[f] = p THEN {} ELSE hunks[f]]
    /\ missing' = {f \in missing : ProjectOf[f] # p}
    /\ torn' = torn \ {p}
    /\ outcome' = "none"
    /\ UNCHANGED <<env, local, head, pc, syncing, wanted, left, patch, notes>>

Step == \/ InstallManifest \/ RepoSync \/ ReadPins \/ VerifyHead
        \/ CheckPatch \/ RemoveFile \/ WriteFile \/ RecordHeads \/ PublishSnapshot

Next == \/ Begin \/ Step \/ Kill
        \/ \E p \in Projects : Repin(p) \/ Restore(p)

Spec == Init /\ [][Next]_vars

-----------------------------------------------------------------------------
(* Properties.                                                             *)

\* An invocation that reports success leaves every patch wholly applied, and
\* if it was one of sync.sh, every project at the revision that was pinned
\* when the heads were compared, which is what the snapshot says: whatever
\* was killed before, inside a patch of several files too, and although the
\* manifest is read twice (sync.sh:64-95, apply_patches.sh:25-41).
SuccessMeansReady ==
    outcome = "success" => /\ \A n \in Patches : Applied(n)
                           /\ syncing => head = wanted /\ snapshot = head

\* The revision checked out is one a patch is not for: it neither takes the
\* whole patch nor has it all.
Unsuited(n) == /\ \E f \in Touches[n] : n \notin Taken(f)
               /\ \E f \in Touches[n] : n \notin Held(f)

\* A patch is refused only by a revision it is not for, or in a project where
\* a git apply was cut short and that nobody restored since: invocations that
\* end between two patches are repeatable, and so are those that move the
\* heads under patched files (apply_patches.sh:33-40).
UncleanHasCause ==
    outcome = "unclean" => \/ Unsuited(patch)
                           \/ \E f \in Touches[patch] : ProjectOf[f] \in torn
=============================================================================
