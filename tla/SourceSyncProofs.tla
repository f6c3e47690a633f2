--------------------------- MODULE SourceSyncProofs ---------------------------
(***************************************************************************)
(* Proofs about SourceSync, for any projects, files and patches, whatever  *)
(* the revisions take, and for any kills and any moves of the pins.        *)
(*                                                                         *)
(* The argument: the patches before the next one are in place, by git      *)
(* apply or by the revision, but for the files git apply has taken away    *)
(* and will write back; and in a project where no git apply was cut short, *)
(* every other patch was put into all of its files or into none. The       *)
(* second part needs that a patch is of one project (OneProjectAssumption):*)
(* were it not, restoring one of its projects would leave it half applied  *)
(* in another that nothing was cut short in.                               *)
(***************************************************************************)
EXTENDS SourceSync, TLAPS

\* The files the git apply under way has taken and not written back.
Away == CASE pc = "remove" -> Touches[patch] \ left
          [] pc = "write"  -> left
          [] OTHER         -> {}

\* A patch is in its files, those taken away excepted.
InPlace(n) == \A f \in Touches[n] : n \in hunks[f] \cup Held(f) /\ (f \in missing => f \in Away)

\* The heads are at the pins they were compared with.
HeadsInv ==
    /\ pc = "heads" => \A p \in Projects \ left : head[p] = wanted[p]
    /\ syncing /\ pc \in {"check", "remove", "write", "record", "publish"} => head = wanted
    /\ pc = "publish" => recorded = head

\* The patches that were come to are in place.
DoneInv ==
    /\ pc \in {"install", "sync", "read", "heads"} => patch = 1
    /\ pc \in {"check", "remove", "write"} => \A n \in 1..(patch - 1) : InPlace(n)
    /\ pc \in {"record", "publish"} => \A n \in Patches : Applied(n)

\* What git apply still has to come to are files of the patch.
LeftInv == pc \in {"remove", "write"} => left \subseteq Touches[patch]

\* The files git apply has written back.
WrittenInv == pc = "write" => \A f \in Touches[patch] \ left : patch \in hunks[f] /\ f \notin missing

\* Where nothing was cut short, no file is missing and every patch was put into all of its files
\* or into none.
CleanInv ==
    /\ \A f \in Files : f \in missing /\ ProjectOf[f] \notin torn => f \in Away
    /\ \A n \in Patches : \A f, g \in Touches[n] :
           ProjectOf[f] \notin torn => (n \in hunks[f] <=> n \in hunks[g]) \/ (pc = "write" /\ n = patch)

\* How an invocation ended is said when it has.
EndInv ==
    /\ pc # "idle" => outcome = "none"
    /\ SuccessMeansReady /\ UncleanHasCause

IInv == HeadsInv /\ DoneInv /\ WrittenInv /\ CleanInv /\ EndInv

-----------------------------------------------------------------------------
(* Type correctness.                                                       *)

\* What the model takes patches to be.
LEMMA PatchesAre ==
    /\ 1 \in Patches /\ Patches \subseteq Nat
    /\ \A n \in Patches : Touches[n] \subseteq Files /\ Touches[n] # {}
    /\ \A f \in Files : ProjectOf[f] \in Projects
  BY PatchesAssumption, FilesAssumption DEF Patches

\* What follows a patch that is in place.
LEMMA NextPatchEffect ==
    ASSUME TypeOK, NextPatch
    PROVE  /\ patch' \in Patches
           /\ \/ patch < NPatches /\ patch' = patch + 1 /\ pc' = "check" /\ UNCHANGED outcome
              \/ patch = NPatches /\ syncing /\ UNCHANGED patch /\ pc' = "record" /\ UNCHANGED outcome
              \/ patch = NPatches /\ ~syncing /\ UNCHANGED patch /\ pc' = "idle" /\ outcome' = "success"
  BY PatchesAssumption DEF TypeOK, NextPatch, End, Patches

\* Projects move, and with them come files that were missing, as the revision has them.
LEMMA RepoSyncEffect ==
    ASSUME TypeOK, RepoSync
    PROVE  /\ pc = "sync" /\ UNCHANGED <<env, local, syncing, wanted, left, patch, notes, torn>>
           /\ (pc' = "read" /\ UNCHANGED outcome) \/ End("failed")
           /\ missing' \subseteq missing
           /\ hunks' \in [Files -> SUBSET Patches]
           /\ \A f \in Files : f \in missing \/ hunks'[f] = hunks[f]
  <1>1. /\ pc = "sync" /\ UNCHANGED <<env, local, syncing, wanted, left, patch, notes, torn>>
        /\ (pc' = "read" /\ UNCHANGED outcome) \/ End("failed")
    BY DEF RepoSync
  <1>2. PICK back \in SUBSET missing : /\ missing' = missing \ back
                                       /\ hunks' = [f \in Files |-> IF f \in back THEN {} ELSE hunks[f]]
    BY DEF RepoSync
  <1>3. hunks' \in [Files -> SUBSET Patches] /\ \A f \in Files : f \in missing \/ hunks'[f] = hunks[f]
    BY <1>2 DEF TypeOK
  <1> QED
    BY <1>1, <1>2, <1>3

\* A file is taken away.
LEMMA RemoveEffect ==
    ASSUME TypeOK, LeftInv, RemoveFile
    PROVE  /\ pc = "remove" /\ UNCHANGED <<env, local, head, hunks, syncing, wanted, patch, notes, outcome, torn>>
           /\ \E f \in left : /\ f \in Touches[patch] /\ missing' = missing \cup {f}
                              /\ \/ pc' = "write" /\ left' = Touches[patch]
                                 \/ pc' = "remove" /\ left' = left \ {f}
  BY DEF LeftInv, RemoveFile

\* A file is written back with the patch in it.
LEMMA WriteEffect ==
    ASSUME TypeOK, LeftInv, WriteFile
    PROVE  /\ pc = "write" /\ UNCHANGED <<env, local, head, syncing, wanted, notes, torn>>
           /\ hunks' \in [Files -> SUBSET Patches]
           /\ \E f \in left : /\ f \in Touches[patch] /\ missing' = missing \ {f} /\ left' = left \ {f}
                              /\ hunks'[f] = hunks[f] \cup {patch}
                              /\ \A g \in Files \ {f} : hunks'[g] = hunks[g]
                              /\ \/ left' = {} /\ NextPatch
                                 \/ UNCHANGED <<pc, patch, outcome>>
  <1>1. pc = "write" /\ UNCHANGED <<env, local, head, syncing, wanted, notes, torn>>
    BY DEF WriteFile
  <1>2. PICK f \in left : /\ missing' = missing \ {f} /\ left' = left \ {f}
                          /\ hunks' = [hunks EXCEPT ![f] = hunks[f] \cup {patch}]
                          /\ IF left = {f} THEN NextPatch ELSE UNCHANGED <<pc, patch, outcome>>
    BY DEF WriteFile
  <1>3. f \in Touches[patch] /\ f \in Files
    BY <1>1, PatchesAre DEF LeftInv, TypeOK
  <1>4. hunks' \in [Files -> SUBSET Patches] /\ hunks'[f] = hunks[f] \cup {patch} /\ \A g \in Files \ {f} : hunks'[g] = hunks[g]
    BY <1>2, <1>3 DEF TypeOK
  <1>5. (left' = {} /\ NextPatch) \/ UNCHANGED <<pc, patch, outcome>>
    BY <1>2
  <1> QED
    BY <1>1, <1>2, <1>3, <1>4, <1>5

\* The initial state is typed.
LEMMA TypeInit == Init => TypeOK /\ LeftInv
  <1> SUFFICES ASSUME Init PROVE TypeOK /\ LeftInv
    OBVIOUS
  <1>1. Zero \in Heads
    BY BoundsAssumption DEF Zero, Heads, Revisions
  <1>2. hunks \in [Files -> SUBSET Patches]
    BY DEF Init
  <1>3. pins \in 0..MaxPins /\ kills \in 0..MaxKills
    BY BoundsAssumption DEF Init
  <1> QED
    BY <1>1, <1>2, <1>3, PatchesAre DEF Init, TypeOK, LeftInv, Outcomes

\* The steps of the two scripts keep the types.
LEMMA TypeStep == TypeOK /\ LeftInv /\ Step => TypeOK' /\ LeftInv'
  <1> SUFFICES ASSUME TypeOK, LeftInv, Step PROVE TypeOK' /\ LeftInv'
    OBVIOUS
  <1> USE DEF env, tree, notes, End, Steps, Outcomes
  <1>1. CASE InstallManifest \/ ReadPins \/ RecordHeads \/ PublishSnapshot
    BY <1>1 DEF TypeOK, LeftInv, InstallManifest, ReadPins, RecordHeads, PublishSnapshot
  <1>2. CASE RepoSync
    <2>1. head' \in Heads
      <3>1. PICK moved \in SUBSET Projects : head' = [p \in Projects |-> IF p \in moved THEN local[p] ELSE head[p]]
        BY <1>2 DEF RepoSync
      <3> QED
        BY <3>1 DEF TypeOK, Heads
    <2>2. hunks' \in [Files -> SUBSET Patches] /\ missing' \subseteq Files
      BY <1>2, RepoSyncEffect DEF TypeOK
    <2> QED
      BY <1>2, <2>1, <2>2 DEF TypeOK, LeftInv, RepoSync
  <1>3. CASE VerifyHead
    BY <1>3 DEF TypeOK, LeftInv, VerifyHead
  <1>4. CASE CheckPatch
    <2>1. UNCHANGED <<env, local, tree, syncing, wanted, notes, torn>>
      BY <1>4 DEF CheckPatch
    <2>2. /\ patch' \in Patches /\ pc' \in {"idle"} \cup Steps /\ outcome' \in Outcomes /\ left' \subseteq Projects \cup Files
          /\ LeftInv'
      BY <1>4, NextPatchEffect, PatchesAre DEF TypeOK, LeftInv, CheckPatch, DecidePatch
    <2> QED
      BY <2>1, <2>2 DEF TypeOK
  <1>5. CASE RemoveFile
    BY <1>5, RemoveEffect, PatchesAre DEF TypeOK, LeftInv
  <1>6. CASE WriteFile
    <2>1. UNCHANGED <<env, local, head, syncing, wanted, notes, torn>> /\ hunks' \in [Files -> SUBSET Patches]
      BY <1>6, WriteEffect
    <2>2. missing' \subseteq Files /\ left' \subseteq Projects \cup Files
      BY <1>6, WriteEffect DEF TypeOK
    <2>3. patch' \in Patches /\ pc' \in {"idle"} \cup Steps /\ outcome' \in Outcomes /\ LeftInv'
      BY <1>6, WriteEffect, NextPatchEffect DEF TypeOK, LeftInv
    <2> QED
      BY <2>1, <2>2, <2>3 DEF TypeOK
  <1> QED
    BY <1>1, <1>2, <1>3, <1>4, <1>5, <1>6 DEF Step

\* Every step of the system keeps the types.
LEMMA TypeNext == TypeOK /\ LeftInv /\ [Next]_vars => TypeOK' /\ LeftInv'
  <1> SUFFICES ASSUME TypeOK, LeftInv, [Next]_vars PROVE TypeOK' /\ LeftInv'
    OBVIOUS
  <1> USE DEF env, tree, notes, End, Steps, Outcomes
  <1>1. CASE Begin
    BY <1>1, PatchesAre DEF TypeOK, LeftInv, Begin
  <1>2. CASE Step
    BY <1>2, TypeStep
  <1>3. CASE Kill
    <2>1. torn' \subseteq Projects
      BY <1>3, PatchesAre DEF TypeOK, Kill
    <2>2. kills' \in 0..MaxKills
      BY <1>3, BoundsAssumption DEF TypeOK, Kill
    <2> QED
      BY <1>3, <2>1, <2>2 DEF TypeOK, LeftInv, Kill
  <1>4. ASSUME NEW p \in Projects, Repin(p) PROVE TypeOK' /\ LeftInv'
    <2>1. pins' \in 0..MaxPins /\ pins + 1 \in Revisions
      BY <1>4, BoundsAssumption DEF TypeOK, Repin, Revisions
    <2>2. pin' \in Heads
      BY <1>4, <2>1 DEF TypeOK, Repin, Heads
    <2> QED
      BY <1>4, <2>1, <2>2 DEF TypeOK, LeftInv, Repin
  <1>5. ASSUME NEW p \in Projects, Restore(p) PROVE TypeOK' /\ LeftInv'
    <2>1. hunks' \in [Files -> SUBSET Patches]
      BY <1>5 DEF TypeOK, Restore
    <2> QED
      BY <1>5, <2>1 DEF TypeOK, LeftInv, Restore
  <1>6. CASE UNCHANGED vars
    BY <1>6 DEF TypeOK, LeftInv, vars
  <1> QED
    BY <1>1, <1>2, <1>3, <1>4, <1>5, <1>6 DEF Next

\* The files of the patch under way are typed with everything else.
LEMMA TypeInvariance == Spec => [](TypeOK /\ LeftInv)
  BY TypeInit, TypeNext, PTL DEF Spec

\* Every variable keeps its type, and what git apply has left are files of its patch.
THEOREM TypeCorrect == Spec => []TypeOK
  BY TypeInvariance, PTL

-----------------------------------------------------------------------------
(* The patches and the heads.                                              *)

\* The invariant holds initially.
LEMMA InvInit == Init => IInv
  <1> SUFFICES ASSUME Init PROVE IInv
    OBVIOUS
  <1>1. pc = "idle" /\ outcome = "none" /\ missing = {}
    BY DEF Init
  <1>2. ASSUME NEW n \in Patches, NEW f \in Touches[n] PROVE hunks[f] = {}
    BY PatchesAre DEF Init
  <1> QED
    BY <1>1, <1>2 DEF IInv, HeadsInv, DoneInv, WrittenInv, CleanInv, EndInv, SuccessMeansReady, UncleanHasCause

\* Outside git apply the trees stay as they are, and with them what is said of them.
LEMMA CleanStays ==
    ASSUME CleanInv, UNCHANGED <<hunks, missing, torn>>, pc \notin {"remove", "write"}
    PROVE  CleanInv'
  <1>1. Away = {}
    BY DEF Away
  <1> QED
    BY <1>1 DEF CleanInv

\* Only files of a project that is torn are missing, so no other project has a file written.
LEMMA InvRepoSync ==
    ASSUME TypeOK, IInv, RepoSync
    PROVE  IInv'
  <1> USE DEF notes
  <1>1. /\ pc = "sync" /\ UNCHANGED <<env, local, syncing, wanted, left, patch, notes, torn>>
        /\ (pc' = "read" /\ UNCHANGED outcome) \/ End("failed")
        /\ missing' \subseteq missing
        /\ \A f \in Files : f \in missing \/ hunks'[f] = hunks[f]
    BY RepoSyncEffect
  <1>2. pc' \in {"read", "idle"} /\ patch = 1 /\ outcome' \in {"none", "failed"} /\ (pc' # "idle" => outcome' = "none")
    BY <1>1 DEF End, IInv, DoneInv, EndInv
  <1>3. \A f \in Files : f \in missing => ProjectOf[f] \in torn
    BY <1>1 DEF IInv, CleanInv, Away
  <1>4. ASSUME NEW n \in Patches, NEW f \in Touches[n], NEW g \in Touches[n], ProjectOf[f] \notin torn'
        PROVE  n \in hunks'[f] <=> n \in hunks'[g]
    <2>1. f \in Files /\ g \in Files /\ ProjectOf[f] = ProjectOf[g]
      BY PatchesAre, OneProjectAssumption
    <2>2. hunks'[f] = hunks[f] /\ hunks'[g] = hunks[g]
      BY <1>1, <1>3, <1>4, <2>1
    <2> QED
      BY <1>1, <1>4, <2>2 DEF IInv, CleanInv
  <1>5. CleanInv'
    BY <1>1, <1>3, <1>4 DEF CleanInv
  <1> QED
    BY <1>1, <1>2, <1>5 DEF IInv, HeadsInv, DoneInv, WrittenInv, EndInv, SuccessMeansReady, UncleanHasCause

\* sync.sh up to the patches: the heads that are compared stay where they are.
LEMMA InvHeads ==
    ASSUME TypeOK, IInv, Begin \/ InstallManifest \/ ReadPins \/ VerifyHead
    PROVE  IInv'
  <1> USE DEF env, tree, notes
  <1>1. pc \in {"idle", "install", "read", "heads"} /\ UNCHANGED <<hunks, missing, torn>>
    BY DEF Begin, InstallManifest, ReadPins, VerifyHead
  <1>2. CleanInv'
    BY <1>1, CleanStays DEF IInv
  <1>3. CASE Begin
    BY <1>2, <1>3 DEF IInv, HeadsInv, DoneInv, WrittenInv, EndInv, SuccessMeansReady, UncleanHasCause, Begin
  <1>4. CASE InstallManifest \/ ReadPins
    BY <1>2, <1>4 DEF IInv, HeadsInv, DoneInv, WrittenInv, EndInv, SuccessMeansReady, UncleanHasCause,
                      InstallManifest, ReadPins
  <1>5. CASE VerifyHead
    <2>1. /\ pc = "heads" /\ UNCHANGED <<env, local, tree, syncing, wanted, patch, notes, torn>>
          /\ patch = 1 /\ outcome = "none"
      BY <1>5 DEF VerifyHead, IInv, DoneInv, EndInv
    <2>2. PICK p \in left : \/ /\ head[p] = wanted[p]
                               /\ left' = left \ {p}
                               /\ pc' = IF left = {p} THEN "check" ELSE "heads"
                               /\ UNCHANGED outcome
                            \/ End("failed") /\ UNCHANGED left
      BY <1>5 DEF VerifyHead
    <2>3. CASE End("failed") /\ UNCHANGED left
      BY <1>2, <2>1, <2>3 DEF IInv, HeadsInv, DoneInv, WrittenInv, EndInv, SuccessMeansReady, UncleanHasCause, End
    <2>4. CASE /\ head[p] = wanted[p]
               /\ left' = left \ {p}
               /\ pc' = IF left = {p} THEN "check" ELSE "heads"
               /\ UNCHANGED outcome
      <3>1. \A q \in Projects \ left' : head[q] = wanted[q]
        BY <2>1, <2>4 DEF IInv, HeadsInv
      <3>2. left' = {} => head = wanted
        BY <3>1 DEF TypeOK, Heads
      <3>3. HeadsInv'
        BY <2>1, <2>4, <3>1, <3>2 DEF HeadsInv
      <3>4. DoneInv'
        BY <2>1, <2>4 DEF DoneInv
      <3> QED
        BY <1>2, <2>1, <2>4, <3>3, <3>4 DEF IInv, WrittenInv, EndInv, SuccessMeansReady, UncleanHasCause
    <2> QED
      BY <2>2, <2>3, <2>4
  <1> QED
    BY <1>3, <1>4, <1>5

\* When the patch that is next is in place, so are all that were come to, and the script goes on or ends.
LEMMA Advance ==
    ASSUME TypeOK, IInv, NextPatch, pc \in {"check", "write"}, CleanInv',
           UNCHANGED <<env, local, head, syncing, wanted, notes, torn>>,
           \A n \in 1..patch : Applied(n)'
    PROVE  IInv'
  <1> USE DEF env, tree, notes
  <1>1. patch \in Nat /\ NPatches \in Nat /\ Patches = 1..NPatches
    BY PatchesAssumption, PatchesAre DEF TypeOK, Patches
  <1>2. outcome = "none" /\ (syncing => head = wanted)
    BY DEF IInv, EndInv, HeadsInv
  <1>3. CASE patch < NPatches /\ patch' = patch + 1 /\ pc' = "check" /\ UNCHANGED outcome
    <2>1. 1..(patch' - 1) = 1..patch
      BY <1>1, <1>3
    <2>2. DoneInv'
      BY <1>3, <2>1 DEF DoneInv, InPlace, Applied
    <2> QED
      BY <1>2, <1>3, <2>2 DEF IInv, HeadsInv, WrittenInv, EndInv, SuccessMeansReady, UncleanHasCause
  <1>4. CASE patch = NPatches /\ syncing /\ UNCHANGED patch /\ pc' = "record" /\ UNCHANGED outcome
    <2>1. DoneInv'
      BY <1>1, <1>4 DEF DoneInv
    <2> QED
      BY <1>2, <1>4, <2>1 DEF IInv, HeadsInv, WrittenInv, EndInv, SuccessMeansReady, UncleanHasCause
  <1>5. CASE patch = NPatches /\ ~syncing /\ UNCHANGED patch /\ pc' = "idle" /\ outcome' = "success"
    <2>1. SuccessMeansReady'
      BY <1>1, <1>5 DEF SuccessMeansReady
    <2> QED
      BY <1>5, <2>1 DEF IInv, HeadsInv, DoneInv, WrittenInv, EndInv, UncleanHasCause
  <1> QED
    BY <1>3, <1>4, <1>5, NextPatchEffect

\* A patch that neither is there nor applies, in a revision that it is for, has a file missing or was
\* put into some of its files and not into others: a git apply was cut short in its project.
LEMMA RefusalHasCause ==
    ASSUME TypeOK, CleanInv, pc = "check", ~Applied(patch), ~Unapplied(patch)
    PROVE  Unsuited(patch) \/ \E f \in Touches[patch] : ProjectOf[f] \in torn
  <1>1. patch \in Patches /\ Touches[patch] \subseteq Files
    BY PatchesAre DEF TypeOK
  <1>2. SUFFICES ASSUME ~Unsuited(patch), \A f \in Touches[patch] : ProjectOf[f] \notin torn PROVE FALSE
    OBVIOUS
  <1>3. \A f \in Touches[patch] : f \notin missing
    BY <1>1, <1>2 DEF CleanInv, Away
  <1>4. PICK f \in Touches[patch] : patch \notin hunks[f] \cup Held(f)
    BY <1>3 DEF Applied
  <1>5. \A g \in Touches[patch] : patch \in Taken(g)
    BY <1>2, <1>4 DEF Unsuited
  <1>6. PICK g \in Touches[patch] : patch \in hunks[g]
    BY <1>3, <1>5 DEF Unapplied
  <1> QED
    BY <1>1, <1>2, <1>4, <1>6 DEF CleanInv

\* A patch is looked at.
LEMMA InvCheck ==
    ASSUME TypeOK, IInv, CheckPatch
    PROVE  IInv'
  <1> USE DEF env, tree, notes
  <1>1. pc = "check" /\ UNCHANGED <<env, local, tree, syncing, wanted, notes, torn>> /\ outcome = "none"
    BY DEF CheckPatch, IInv, EndInv
  <1>2. CleanInv'
    BY <1>1, CleanStays DEF IInv
  <1>3. \A n \in 1..(patch - 1) : Applied(n)
    BY <1>1 DEF IInv, DoneInv, InPlace, Away, Applied
  <1>4. CASE AlreadyApplied /\ NextPatch /\ UNCHANGED left
    <2>1. \A n \in 1..patch : Applied(n)
      <3>1. \A n \in 1..patch : n = patch \/ n \in 1..(patch - 1)
        BY PatchesAre DEF TypeOK
      <3> QED
        BY <1>3, <1>4, <3>1 DEF AlreadyApplied
    <2>2. \A n \in 1..patch : Applied(n)'
      BY <1>1, <2>1 DEF Applied, Held
    <2> QED
      BY <1>1, <1>2, <1>4, <2>2, Advance
  <1>5. CASE ~AlreadyApplied /\ ~Unapplied(patch) /\ End("unclean") /\ UNCHANGED <<patch, left>>
    <2>1. Unsuited(patch) \/ \E f \in Touches[patch] : ProjectOf[f] \in torn
      BY <1>1, <1>5, RefusalHasCause DEF IInv, AlreadyApplied
    <2>2. UncleanHasCause'
      BY <1>1, <1>5, <2>1 DEF UncleanHasCause, Unsuited, Taken, Held
    <2> QED
      BY <1>1, <1>2, <1>5, <2>2 DEF IInv, HeadsInv, DoneInv, WrittenInv, EndInv, SuccessMeansReady, End
  <1>6. CASE Unapplied(patch) /\ left' = Touches[patch] /\ pc' = "remove" /\ UNCHANGED <<patch, outcome>>
    <2>1. DoneInv'
      BY <1>1, <1>3, <1>6 DEF DoneInv, InPlace, Applied, Held
    <2> QED
      BY <1>1, <1>2, <1>6, <2>1 DEF IInv, HeadsInv, WrittenInv, EndInv, SuccessMeansReady, UncleanHasCause
  <1> QED
    BY <1>4, <1>5, <1>6 DEF CheckPatch, DecidePatch

\* A file is taken away.
LEMMA InvRemove ==
    ASSUME TypeOK, LeftInv, IInv, RemoveFile
    PROVE  IInv'
  <1> USE DEF env, tree, notes
  <1>1. pc = "remove" /\ UNCHANGED <<env, local, head, hunks, syncing, wanted, patch, notes, outcome, torn>>
    BY RemoveEffect
  <1>2. PICK f \in left : /\ f \in Touches[patch] /\ missing' = missing \cup {f}
                          /\ \/ pc' = "write" /\ left' = Touches[patch]
                             \/ pc' = "remove" /\ left' = left \ {f}
    BY RemoveEffect
  <1>3. Away \cup {f} \subseteq Away'
    BY <1>1, <1>2 DEF Away
  <1>4. DoneInv'
    BY <1>1, <1>2, <1>3 DEF IInv, DoneInv, InPlace, Held
  <1>5. CleanInv'
    <2>1. \A g \in Files : g \in missing' /\ ProjectOf[g] \notin torn' => g \in Away'
      BY <1>1, <1>2, <1>3 DEF IInv, CleanInv
    <2>2. \A n \in Patches : \A g, h \in Touches[n] : ProjectOf[g] \notin torn' => (n \in hunks'[g] <=> n \in hunks'[h])
      BY <1>1 DEF IInv, CleanInv
    <2> QED
      BY <2>1, <2>2 DEF CleanInv
  <1>6. WrittenInv'
    BY <1>1, <1>2 DEF WrittenInv
  <1> QED
    BY <1>1, <1>2, <1>4, <1>5, <1>6 DEF IInv, HeadsInv, EndInv, SuccessMeansReady, UncleanHasCause

\* A file is written back; after the last one the patch is in place.
LEMMA InvWrite ==
    ASSUME TypeOK, LeftInv, IInv, WriteFile
    PROVE  IInv'
  <1> USE DEF env, tree, notes
  <1>1. pc = "write" /\ UNCHANGED <<env, local, head, syncing, wanted, notes, torn>> /\ outcome = "none"
    BY WriteEffect DEF IInv, EndInv
  <1>2. PICK f \in left : /\ f \in Touches[patch] /\ missing' = missing \ {f} /\ left' = left \ {f}
                          /\ hunks'[f] = hunks[f] \cup {patch}
                          /\ \A g \in Files \ {f} : hunks'[g] = hunks[g]
                          /\ \/ left' = {} /\ NextPatch
                             \/ UNCHANGED <<pc, patch, outcome>>
    BY WriteEffect
  <1>3. patch \in Patches /\ f \in Files /\ \A n \in Patches : Touches[n] \subseteq Files
    BY <1>2, PatchesAre DEF TypeOK
  <1>4. Away = left
    BY <1>1 DEF Away
  <1>5. \A g \in Touches[patch] \ left' : patch \in hunks'[g] /\ g \notin missing'
    BY <1>1, <1>2, <1>3 DEF IInv, WrittenInv
  <1>6. \A n \in 1..(patch - 1) : n \in Patches /\ \A g \in Touches[n] : n \in hunks'[g] \cup Held(g) /\ (g \in missing' => g \in left')
    <2>1. \A n \in 1..(patch - 1) : n \in Patches
      BY <1>3, PatchesAssumption DEF Patches
    <2> QED
      BY <1>1, <1>2, <1>3, <1>4, <2>1 DEF IInv, DoneInv, InPlace
  <1>7. \A g \in Files : g \in missing' /\ ProjectOf[g] \notin torn' => g \in left'
    BY <1>1, <1>2, <1>4 DEF IInv, CleanInv
  <1>8. \A n \in Patches \ {patch} : \A g, h \in Touches[n] :
            ProjectOf[g] \notin torn' => (n \in hunks'[g] <=> n \in hunks'[h])
    <2>1. \A n \in Patches \ {patch} : \A g \in Touches[n] : n \in hunks'[g] <=> n \in hunks[g]
      BY <1>2, <1>3
    <2> QED
      BY <1>1, <2>1 DEF IInv, CleanInv
  <1>9. CASE left' = {} /\ NextPatch
    <2>1. \A g, h \in Touches[patch] : patch \in hunks'[g] <=> patch \in hunks'[h]
      BY <1>5, <1>9
    <2>2. CleanInv'
      BY <1>7, <1>8, <1>9, <2>1 DEF CleanInv
    <2>3. \A n \in 1..patch : \A g \in Touches[n] : n \in hunks'[g] \cup Held(g) /\ g \notin missing'
      <3>1. \A n \in 1..patch : n = patch \/ n \in 1..(patch - 1)
        BY <1>3, PatchesAre
      <3> QED
        BY <1>5, <1>6, <1>9, <3>1
    <2>4. \A n \in 1..patch : Applied(n)'
      BY <1>1, <2>3 DEF Applied, Held
    <2> QED
      BY <1>1, <1>9, <2>2, <2>4, Advance
  <1>10. CASE UNCHANGED <<pc, patch, outcome>>
    <2>1. Away' = left'
      BY <1>1, <1>10 DEF Away
    <2>2. CleanInv'
      BY <1>1, <1>7, <1>8, <1>10, <2>1 DEF CleanInv
    <2>3. DoneInv'
      BY <1>1, <1>6, <1>10, <2>1 DEF DoneInv, InPlace, Held
    <2>4. WrittenInv'
      BY <1>5, <1>10 DEF WrittenInv
    <2> QED
      BY <1>1, <1>10, <2>2, <2>3, <2>4 DEF IInv, HeadsInv, EndInv, SuccessMeansReady, UncleanHasCause
  <1> QED
    BY <1>2, <1>9, <1>10

\* The heads are recorded and the snapshot is published.
LEMMA InvSnapshot ==
    ASSUME TypeOK, IInv, RecordHeads \/ PublishSnapshot
    PROVE  IInv'
  <1> USE DEF env, tree, notes
  <1>1. pc \in {"record", "publish"} /\ UNCHANGED <<env, local, tree, syncing, wanted, left, patch, torn>>
    BY DEF RecordHeads, PublishSnapshot
  <1>2. CleanInv'
    BY <1>1, CleanStays DEF IInv
  <1>3. \A n \in Patches : Applied(n)
    BY <1>1 DEF IInv, DoneInv
  <1>4. \A n \in Patches : Applied(n)'
    BY <1>1, <1>3 DEF Applied, Held
  <1>5. CASE RecordHeads
    BY <1>1, <1>2, <1>4, <1>5
       DEF RecordHeads, IInv, HeadsInv, DoneInv, WrittenInv, EndInv, SuccessMeansReady, UncleanHasCause
  <1>6. CASE PublishSnapshot
    BY <1>1, <1>2, <1>4, <1>6
       DEF PublishSnapshot, End, IInv, HeadsInv, DoneInv, WrittenInv, EndInv, SuccessMeansReady, UncleanHasCause
  <1> QED
    BY <1>5, <1>6

\* A kill inside git apply tears the project of the patch, so that no other project is half patched.
LEMMA InvKill ==
    ASSUME TypeOK, LeftInv, IInv, Kill
    PROVE  IInv'
  <1> USE DEF env, tree, notes
  <1>1. pc' = "idle" /\ outcome' = "killed" /\ UNCHANGED <<local, tree, syncing, wanted, left, patch, notes>>
    BY DEF Kill, End
  <1>2. CleanInv'
    <2>1. CASE pc \in {"remove", "write"}
      <3>1. torn' = torn \cup {ProjectOf[f] : f \in Touches[patch]}
        BY <2>1 DEF Kill
      <3>2. Away \subseteq Touches[patch]
        BY DEF LeftInv, Away
      <3>3. \A f \in Files : f \in missing /\ ProjectOf[f] \notin torn' => FALSE
        BY <3>1, <3>2 DEF IInv, CleanInv
      <3>4. \A n \in Patches : \A f, g \in Touches[n] : ProjectOf[f] \notin torn' => (n \in hunks[f] <=> n \in hunks[g])
        BY <3>1 DEF IInv, CleanInv
      <3> QED
        BY <1>1, <3>3, <3>4 DEF CleanInv
    <2>2. CASE pc \notin {"remove", "write"}
      BY <1>1, <2>2, CleanStays DEF Kill, IInv
    <2> QED
      BY <2>1, <2>2
  <1> QED
    BY <1>1, <1>2 DEF IInv, HeadsInv, DoneInv, WrittenInv, EndInv, SuccessMeansReady, UncleanHasCause

\* A project that is restored is rid of every patch in all of its files, and a patch is of one project.
LEMMA InvRestore ==
    ASSUME TypeOK, IInv, NEW p \in Projects, Restore(p)
    PROVE  IInv'
  <1> USE DEF env, tree, notes
  <1>1. /\ pc = "idle" /\ UNCHANGED <<env, local, head, pc, syncing, wanted, left, patch, notes>> /\ outcome' = "none"
        /\ hunks' = [f \in Files |-> IF ProjectOf[f] = p THEN {} ELSE hunks[f]]
        /\ missing' = {f \in missing : ProjectOf[f] # p}
        /\ torn' = torn \ {p}
    BY DEF Restore
  <1>2. \A f \in Files : f \in missing' => ProjectOf[f] \in torn'
    BY <1>1 DEF IInv, CleanInv, Away
  <1>3. ASSUME NEW n \in Patches, NEW f \in Touches[n], NEW g \in Touches[n], ProjectOf[f] \notin torn'
        PROVE  n \in hunks'[f] <=> n \in hunks'[g]
    <2>1. ProjectOf[f] = ProjectOf[g]
      BY OneProjectAssumption
    <2>2. f \in Files /\ g \in Files
      BY PatchesAre
    <2>3. CASE ProjectOf[f] = p
      BY <1>1, <2>1, <2>2, <2>3
    <2>4. CASE ProjectOf[f] # p
      <3>1. n \in hunks[f] <=> n \in hunks[g]
        BY <1>1, <1>3, <2>4 DEF IInv, CleanInv
      <3> QED
        BY <1>1, <2>1, <2>2, <2>4, <3>1
    <2> QED
      BY <2>3, <2>4
  <1>4. CleanInv'
    BY <1>2, <1>3 DEF CleanInv
  <1> QED
    BY <1>1, <1>4 DEF IInv, HeadsInv, DoneInv, WrittenInv, EndInv, SuccessMeansReady, UncleanHasCause

\* Every step of the system keeps the invariant.
LEMMA InvNext == TypeOK /\ LeftInv /\ IInv /\ [Next]_vars => IInv'
  <1> SUFFICES ASSUME TypeOK, LeftInv, IInv, [Next]_vars PROVE IInv'
    OBVIOUS
  <1>1. ASSUME UNCHANGED <<local, tree, pc, syncing, wanted, left, patch, notes, outcome, torn>> PROVE IInv'
    <2>1. Away' = Away
      BY <1>1 DEF Away
    <2>2. CleanInv' /\ DoneInv'
      BY <1>1, <2>1 DEF IInv, CleanInv, DoneInv, InPlace, Applied, Held, tree
    <2> QED
      BY <1>1, <2>2 DEF IInv, HeadsInv, WrittenInv, EndInv, SuccessMeansReady, UncleanHasCause, Unsuited,
                        Applied, Taken, Held, tree, notes
  <1>2. ASSUME NEW p \in Projects, Repin(p) PROVE IInv'
    BY <1>1, <1>2 DEF Repin
  <1>3. CASE UNCHANGED vars
    BY <1>1, <1>3 DEF vars
  <1> QED
    BY <1>2, <1>3, InvHeads, InvRepoSync, InvCheck, InvRemove, InvWrite, InvSnapshot, InvKill, InvRestore DEF Next, Step

\* The invariant holds in every reachable state.
LEMMA Invariance == Spec => []IInv
  BY InvInit, InvNext, TypeInvariance, PTL DEF Spec

\* An invocation that reports success leaves every patch wholly applied, and one of
\* sync.sh every project at the pins it compared the heads with, which the snapshot records.
THEOREM SuccessesAreReady == Spec => []SuccessMeansReady
  <1>1. IInv => SuccessMeansReady
    BY DEF IInv, EndInv
  <1> QED
    BY <1>1, Invariance, PTL

\* A patch is refused only by a revision it is not for, or where a git apply was cut short and
\* nobody restored the project since.
THEOREM RefusalsHaveCauses == Spec => []UncleanHasCause
  <1>1. IInv => UncleanHasCause
    BY DEF IInv, EndInv
  <1> QED
    BY <1>1, Invariance, PTL
=============================================================================
