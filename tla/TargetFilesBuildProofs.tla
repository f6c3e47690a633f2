------------------------- MODULE TargetFilesBuildProofs -------------------------
(***************************************************************************)
(* Proofs about TargetFilesBuild, for any number of runs, any faults and   *)
(* any boot image the builds leave.                                        *)
(*                                                                         *)
(* All the runs share one path and there is no lock on it, so everything   *)
(* but the types is proved of runs that do not overlap.  The invariant     *)
(* says, for the run at work, what is at the path and under its backup's   *)
(* name at each step: with it no step ever overwrites an archive, and what *)
(* finalize finds is what the run packaged.                                *)
(***************************************************************************)
EXTENDS TargetFilesBuild, TLAPS

\* The steps at which a run that found an archive has it under the backup's name.
Preserved == {"start", "prebuild", "make", "check", "evidence", "restore", "putback"}

\* What a run knows of the paths at each of its steps.
RunInv(r) ==
    /\ pc[r] \in {"idle", "preserve"} => before[r] = None
    /\ pc[r] \in {"idle", "preserve", "aside"} => backup[r] = None
    /\ pc[r] \notin {"putback"} \cup Ended => failed[r] = None
    /\ pc[r] = "aside" => target # None /\ before[r] = target.content
    /\ pc[r] \in {"start", "prebuild", "make", "putback"} => target = None
    /\ pc[r] \in {"check", "restore"} => target = None \/ target.content \in {r, before[r]}
    /\ pc[r] \in {"evidence", "finalize", "bind"} => target # None /\ target.content = r
    /\ pc[r] \in Preserved /\ before[r] # None => backup[r] # None /\ backup[r].content = before[r]
    /\ pc[r] = "putback" => before[r] # None
    /\ pc[r] = "bind" => boot[r] # "prefix"
    /\ final[r] # None => pc[r] = "done" /\ final[r] = r /\ boot[r] # "prefix"

OneAtWork == \A r, s \in Runs : pc[r] \in Working /\ pc[s] \in Working => r = s

SerialInv == OneAtWork /\ OldArchiveKept /\ \A r \in Runs : RunInv(r)

-----------------------------------------------------------------------------
(* Type correctness.                                                       *)

\* The steps of a run, by name.
LEMMA StepsAre ==
    /\ Working = {"preserve", "aside", "start", "prebuild", "make", "check", "evidence", "restore", "putback",
                  "finalize", "bind"}
    /\ Ended = {"aborted", "failed", "rejected", "killed", "done"}
    /\ Preserved = {"start", "prebuild", "make", "check", "evidence", "restore", "putback"}
  BY DEF Working, Ended, Preserved

\* The initial state is typed.
LEMMA TypeInit == Init => TypeOK
  <1> SUFFICES ASSUME Init PROVE TypeOK
    OBVIOUS
  <1>1. target \in Archive \cup {None}
    <2>1. [content |-> Earlier, whole |-> TRUE, since |-> {}] \in Archive
      <3>1. {} \in SUBSET Runs /\ Earlier \in Contents
        BY DEF Contents
      <3> QED
        BY <3>1 DEF Archive
    <2>2. target \in {None, [content |-> Earlier, whole |-> TRUE, since |-> {}]}
      BY DEF Init
    <2> QED
      BY <2>1, <2>2, Zenon
  <1>2. boot \in [Contents -> BootKinds]
    <2>1. PICK kind \in BootKinds : boot = [c \in Contents |-> kind]
      BY DEF Init
    <2> QED
      BY <2>1
  <1> QED
    BY <1>1, <1>2 DEF Init, TypeOK

\* A content that is written is a run's, or the one it found; nothing else but
\* the archive at the path, the log and the boot image changes.
LEMMA MakeEffect ==
    ASSUME TypeOK, NEW r \in Runs, Make(r)
    PROVE  /\ pc[r] = "make" /\ (Goto(r, "check") \/ Goto(r, "restore"))
           /\ UNCHANGED <<started, backup, failed, records, patched, evidence, bootRead>>
           /\ packaged' \in [Runs -> BOOLEAN]
           /\ target' = target \/ (target' \in Archive /\ target'.content \in {r, before[r]})
           /\ boot' \in [Contents -> BootKinds] /\ \A c \in Contents : c # r => boot'[c] = boot[c]
  <1>1. /\ pc[r] = "make" /\ (Goto(r, "check") \/ Goto(r, "restore"))
        /\ UNCHANGED <<started, backup, failed, records, patched, evidence, bootRead>>
    BY DEF Make
  <1>2. ASSUME NEW c \in Contents, NEW w \in BOOLEAN, Written(c, w) PROVE target' \in Archive /\ target'.content = c
    BY <1>2 DEF Written, Archive, TypeOK
  <1>3. CASE \E w \in BOOLEAN : PackageNew(r, w)
    <2>1. PICK w \in BOOLEAN : PackageNew(r, w)
      BY <1>3
    <2>2. Written(r, w) /\ packaged' = [packaged EXCEPT ![r] = TRUE] /\ \E kind \in BootKinds : boot' = [boot EXCEPT ![r] = kind]
      BY <2>1, Zenon DEF PackageNew
    <2>3. target' \in Archive /\ target'.content = r
      BY <1>2, <2>2 DEF Contents
    <2>4. packaged' \in [Runs -> BOOLEAN]
      BY <2>2 DEF TypeOK
    <2>5. boot' \in [Contents -> BootKinds] /\ \A c \in Contents : c # r => boot'[c] = boot[c]
      BY <2>2 DEF TypeOK
    <2> QED
      BY <1>1, <2>3, <2>4, <2>5
  <1>4. CASE RewriteOld(r)
    <2>1. before[r] \in Contents /\ Written(before[r], TRUE) /\ UNCHANGED boot
          /\ (packaged' = packaged \/ packaged' = [packaged EXCEPT ![r] = TRUE])
      BY <1>4 DEF RewriteOld, TypeOK
    <2>2. packaged' \in [Runs -> BOOLEAN]
      BY <2>1 DEF TypeOK
    <2>3. target' \in Archive /\ target'.content = before[r]
      BY <1>2, <2>1
    <2> QED
      BY <1>1, <2>1, <2>2, <2>3 DEF TypeOK
  <1>5. CASE LeaveAlone(r)
    <2>1. UNCHANGED <<target, boot>> /\ (packaged' = packaged \/ packaged' = [packaged EXCEPT ![r] = TRUE])
      BY <1>5 DEF LeaveAlone
    <2>2. packaged' \in [Runs -> BOOLEAN]
      BY <2>1 DEF TypeOK
    <2> QED
      BY <1>1, <2>1, <2>2 DEF TypeOK
  <1> QED
    BY <1>3, <1>4, <1>5 DEF Make

\* Every step of the system keeps the types.
LEMMA TypeNext == TypeOK /\ [Next]_vars => TypeOK'
  <1> SUFFICES ASSUME TypeOK, [Next]_vars PROVE TypeOK'
    OBVIOUS
  <1> DEFINE PC == {"idle"} \cup Working \cup Ended
  <1> USE DEF paths, records, build
  <1>0. /\ \A r \in Runs : \A step \in Working \cup Ended : Goto(r, step) => pc' \in [Runs -> PC]
        /\ target # None => target \in Archive /\ target.content \in Contents
    BY DEF TypeOK, Goto, Archive
  <1>1. ASSUME NEW r \in Runs, Begin(r) \/ Kill(r) PROVE TypeOK'
    BY <1>0, <1>1, StepsAre DEF TypeOK, Begin, Kill
  <1>2. ASSUME NEW r \in Runs, Preserve(r) \/ MoveAside(r) PROVE TypeOK'
    BY <1>0, <1>2, StepsAre DEF TypeOK, Preserve, MoveAside
  <1>3. ASSUME NEW r \in Runs, TakeStartTime(r) \/ WriteEvidence(r) PROVE TypeOK'
    BY <1>0, <1>3, StepsAre DEF TypeOK, TakeStartTime, WriteEvidence
  <1>4. ASSUME NEW r \in Runs, ProvePatched(r) PROVE TypeOK'
    <2>1. evidence' \in [Runs -> BOOLEAN]
      BY <1>4 DEF TypeOK, ProvePatched
    <2> QED
      BY <1>0, <1>4, <2>1, StepsAre DEF TypeOK, ProvePatched
  <1>5. ASSUME NEW r \in Runs, Make(r) PROVE TypeOK'
    BY <1>0, <1>5, MakeEffect, StepsAre DEF TypeOK
  <1>6. ASSUME NEW r \in Runs, CheckRefreshed(r) PROVE TypeOK'
    BY <1>0, <1>6, StepsAre DEF TypeOK, CheckRefreshed, Refreshed
  <1>7. ASSUME NEW r \in Runs, SetFailedAside(r) \/ PutBack(r) PROVE TypeOK'
    BY <1>0, <1>7, StepsAre DEF TypeOK, SetFailedAside, PutBack
  <1>8. ASSUME NEW r \in Runs, FinalizeBoot(r) \/ FinalizeBind(r) PROVE TypeOK'
    BY <1>0, <1>8, StepsAre DEF TypeOK, FinalizeBoot, FinalizeBind
  <1>9. CASE EditKernel
    BY <1>9 DEF TypeOK, EditKernel
  <1>10. CASE UNCHANGED vars
    BY <1>10 DEF TypeOK, vars
  <1> QED
    BY <1>1, <1>2, <1>3, <1>4, <1>5, <1>6, <1>7, <1>8, <1>9, <1>10 DEF Next, Step, Finished

\* Every variable keeps its type, however runs overlap and whatever is done to them.
THEOREM TypeCorrect == Spec => []TypeOK
  BY TypeInit, TypeNext, PTL DEF Spec

-----------------------------------------------------------------------------
(* Runs that do not overlap.                                               *)

\* Goto sets the step of one run.
LEMMA GotoEffect ==
    ASSUME TypeOK, NEW r \in Runs, NEW step, Goto(r, step)
    PROVE  pc'[r] = step /\ \A s \in Runs \ {r} : pc'[s] = pc[s]
  BY DEF TypeOK, Goto

\* The serial invariant holds initially.
LEMMA SerialInit == Init => SerialInv
  <1> SUFFICES ASSUME Init PROVE SerialInv
    OBVIOUS
  <1>1. \A r \in Runs : pc[r] = "idle" /\ before[r] = None /\ backup[r] = None /\ failed[r] = None /\ final[r] = None
    BY DEF Init
  <1> QED
    BY <1>1, StepsAre DEF SerialInv, OneAtWork, OldArchiveKept, RunInv

\* Content c is at the path (t) or under one of the runs' names (b and f).
Lies(c, t, b, f) == \/ t # None /\ t.content = c
                    \/ \E r \in Runs : b[r] # None /\ b[r].content = c
                    \/ \E r \in Runs : f[r] # None /\ f[r].content = c

Somewhere(c)     == Lies(c, target, backup, failed)
SomewhereNext(c) == Lies(c, target', backup', failed')

\* What the invariant says of them.
LEMMA KeptIs == OldArchiveKept <=> \A r \in Runs : before[r] # None => Somewhere(before[r])
  <1>1. \A c : (\E a \in Held : a.content = c) <=> Somewhere(c)
    BY DEF Held, Somewhere, Lies
  <1> QED
    BY <1>1 DEF OldArchiveKept

\* What a step of run r leaves alone: the other runs, and all that is not at the path or its own.
LEMMA StepTouchesOnly ==
    ASSUME TypeOK, NEW r \in Runs, Step(r), NEW s \in Runs \ {r}
    PROVE  /\ pc[r] \in Working
           /\ pc'[s] = pc[s] /\ before'[s] = before[s] /\ backup'[s] = backup[s] /\ failed'[s] = failed[s]
           /\ final'[s] = final[s] /\ boot'[s] = boot[s]
  <1> USE StepsAre DEF TypeOK, Goto, paths, records, build
  <1>1. CASE Preserve(r) \/ MoveAside(r) \/ TakeStartTime(r) \/ ProvePatched(r)
    BY <1>1 DEF Preserve, MoveAside, TakeStartTime, ProvePatched
  <1>2. CASE Make(r)
    BY <1>2, MakeEffect DEF Contents
  <1>3. CASE CheckRefreshed(r) \/ WriteEvidence(r) \/ SetFailedAside(r) \/ PutBack(r)
    BY <1>3 DEF CheckRefreshed, WriteEvidence, SetFailedAside, PutBack
  <1>4. CASE FinalizeBoot(r) \/ FinalizeBind(r)
    BY <1>4 DEF FinalizeBoot, FinalizeBind
  <1> QED
    BY <1>1, <1>2, <1>3, <1>4 DEF Step

\* A step of the run at work keeps what the invariant says of it, and loses no archive.
LEMMA OwnStep ==
    ASSUME TypeOK, NEW r \in Runs, RunInv(r), Step(r)
    PROVE  /\ RunInv(r)'
           /\ \A c : Somewhere(c) => SomewhereNext(c)
           /\ before'[r] # None => before'[r] = before[r] \/ SomewhereNext(before'[r])
  <1> USE StepsAre DEF paths, records, build
  <1>0. target # None => target \in Archive /\ target.content \in Contents
    BY DEF TypeOK, Archive
  <1>1. CASE Preserve(r)
    <2>1. pc[r] = "preserve" /\ UNCHANGED <<paths, final, boot>>
      BY <1>1 DEF Preserve
    <2>2. \/ target = None /\ pc'[r] = "start" /\ before'[r] = before[r]
          \/ target # None /\ pc'[r] = "aside" /\ before'[r] = target.content
      BY <1>1, GotoEffect DEF Preserve, TypeOK
    <2> QED
      BY <2>1, <2>2 DEF RunInv, Somewhere, SomewhereNext, Lies
  <1>2. CASE MoveAside(r)
    <2>1. pc[r] = "aside" /\ UNCHANGED <<records, boot, failed>> /\ target # None
      BY <1>2 DEF MoveAside, RunInv
    <2>2. target' = None /\ pc'[r] = "start" /\ backup' = [backup EXCEPT ![r] = target]
      BY <1>2, <2>1, GotoEffect DEF MoveAside
    <2>3. backup'[r] = target /\ \A s \in Runs \ {r} : backup'[s] = backup[s]
      BY <2>2 DEF TypeOK
    <2>4. backup[r] = None
      BY <2>1 DEF RunInv
    <2>5. \A c : Somewhere(c) => SomewhereNext(c)
      BY <2>1, <2>2, <2>3, <2>4 DEF Somewhere, SomewhereNext, Lies
    <2> QED
      BY <2>1, <2>2, <2>3, <2>5 DEF RunInv
  <1>3. CASE TakeStartTime(r) \/ ProvePatched(r) \/ WriteEvidence(r)
    <2>1. UNCHANGED <<paths, records, boot>>
      BY <1>3 DEF TakeStartTime, ProvePatched, WriteEvidence
    <2>2. \/ pc[r] = "start" /\ pc'[r] = "prebuild"
          \/ pc[r] = "prebuild" /\ pc'[r] \in {"make", "restore"}
          \/ pc[r] = "evidence" /\ pc'[r] \in {"finalize", "restore"}
      BY <1>3, GotoEffect DEF TakeStartTime, ProvePatched, WriteEvidence
    <2> QED
      BY <2>1, <2>2 DEF RunInv, Somewhere, SomewhereNext, Lies
  <1>4. CASE Make(r)
    <2>1. /\ pc[r] = "make" /\ pc'[r] \in {"check", "restore"}
          /\ UNCHANGED <<backup, failed, records>>
          /\ target' = target \/ target'.content \in {r, before[r]}
      BY <1>4, MakeEffect, GotoEffect
    <2>2. target = None
      BY <2>1 DEF RunInv
    <2>3. \A c : Somewhere(c) => SomewhereNext(c)
      BY <2>1, <2>2 DEF Somewhere, SomewhereNext, Lies
    <2> QED
      BY <2>1, <2>2, <2>3 DEF RunInv
  <1>5. CASE CheckRefreshed(r)
    <2>1. /\ pc[r] = "check" /\ UNCHANGED <<paths, before, final, boot>>
          /\ \/ pc'[r] = "restore"
             \/ pc'[r] = "evidence" /\ target # None /\ before[r] # target.content
      BY <1>5, GotoEffect DEF CheckRefreshed, Refreshed
    <2> QED
      BY <2>1 DEF RunInv, Somewhere, SomewhereNext, Lies
  <1>6. CASE SetFailedAside(r)
    <2>1. pc[r] = "restore" /\ UNCHANGED <<records, boot, backup>> /\ failed[r] = None
      BY <1>6 DEF SetFailedAside, RunInv
    <2>2. CASE before[r] = None
      <3>1. pc'[r] = "failed" /\ UNCHANGED paths
        BY <1>6, <2>2, GotoEffect DEF SetFailedAside
      <3> QED
        BY <2>1, <2>2, <3>1 DEF RunInv, Somewhere, SomewhereNext, Lies
    <2>3. CASE before[r] # None
      <3>1. pc'[r] = "putback" /\ target' = None /\ failed' = [failed EXCEPT ![r] = target]
        BY <1>6, <2>3, GotoEffect DEF SetFailedAside
      <3>2. failed'[r] = target /\ \A s \in Runs \ {r} : failed'[s] = failed[s]
        BY <3>1 DEF TypeOK
      <3>3. \A c : Somewhere(c) => SomewhereNext(c)
        BY <2>1, <3>1, <3>2 DEF Somewhere, SomewhereNext, Lies
      <3> QED
        BY <2>1, <2>3, <3>1, <3>3 DEF RunInv
    <2> QED
      BY <2>2, <2>3
  <1>7. CASE PutBack(r)
    <2>1. /\ pc[r] = "putback" /\ pc'[r] = "failed" /\ UNCHANGED <<records, boot, failed>> /\ target = None
          /\ target' = backup[r] /\ backup' = [backup EXCEPT ![r] = None]
      BY <1>7, GotoEffect DEF PutBack, RunInv
    <2>2. backup'[r] = None /\ \A s \in Runs \ {r} : backup'[s] = backup[s]
      BY <2>1 DEF TypeOK
    <2>3. \A c : Somewhere(c) => SomewhereNext(c)
      BY <2>1, <2>2 DEF Somewhere, SomewhereNext, Lies
    <2> QED
      BY <2>1, <2>3 DEF RunInv
  <1>8. CASE FinalizeBoot(r)
    <2>1. /\ pc[r] = "finalize" /\ UNCHANGED <<paths, records, boot>>
          /\ \/ pc'[r] = "rejected"
             \/ pc'[r] = "bind" /\ boot[target.content] # "prefix"
      BY <1>8, GotoEffect DEF FinalizeBoot
    <2> QED
      BY <2>1 DEF RunInv, Somewhere, SomewhereNext, Lies
  <1>9. CASE FinalizeBind(r)
    <2>1. pc[r] = "bind" /\ UNCHANGED <<paths, before, boot>> /\ target # None /\ target.content = r
      BY <1>9 DEF FinalizeBind, RunInv
    <2>2. pc'[r] = "done" /\ final'[r] = r
      BY <1>9, <2>1, GotoEffect DEF FinalizeBind, TypeOK
    <2> QED
      BY <2>1, <2>2 DEF RunInv, Somewhere, SomewhereNext, Lies
  <1> QED
    BY <1>1, <1>2, <1>3, <1>4, <1>5, <1>6, <1>7, <1>8, <1>9 DEF Step

\* A run that is not at work keeps its part, whatever happens at the path.
LEMMA Resting ==
    ASSUME NEW s \in Runs, RunInv(s), pc[s] \notin Working, pc'[s] = pc[s], before'[s] = before[s],
           backup'[s] = backup[s], failed'[s] = failed[s], final'[s] = final[s], boot'[s] = boot[s]
    PROVE  RunInv(s)'
  BY StepsAre DEF RunInv

\* Every step of runs that do not overlap keeps the serial invariant.
LEMMA SerialNext == ~Overlap /\ TypeOK /\ SerialInv /\ [Next]_vars => SerialInv'
  <1> SUFFICES ASSUME ~Overlap, TypeOK, SerialInv, [Next]_vars PROVE SerialInv'
    OBVIOUS
  <1> USE DEF paths, records, build
  <1>0. OneAtWork /\ (\A r \in Runs : RunInv(r)) /\ (\A r \in Runs : before[r] # None => Somewhere(before[r]))
    BY KeptIs DEF SerialInv
  <1>1. ASSUME NEW r \in Runs, Begin(r) PROVE SerialInv'
    <2>1. /\ pc[r] = "idle" /\ pc'[r] = "preserve" /\ UNCHANGED <<paths, records, build>>
          /\ \A s \in Runs : pc[s] \notin Working
          /\ \A s \in Runs \ {r} : pc'[s] = pc[s]
      BY <1>1, GotoEffect DEF Begin
    <2>2. OneAtWork'
      BY <2>1 DEF OneAtWork
    <2>3. OldArchiveKept'
      BY <2>1 DEF SerialInv, OldArchiveKept, Held
    <2>4. RunInv(r)'
      BY <1>0, <2>1, StepsAre DEF RunInv
    <2>5. ASSUME NEW s \in Runs \ {r} PROVE RunInv(s)'
      BY <1>0, <2>1, Resting
    <2> QED
      BY <2>2, <2>3, <2>4, <2>5 DEF SerialInv
  <1>2. ASSUME NEW r \in Runs, Step(r) PROVE SerialInv'
    <2>1. /\ RunInv(r)'
          /\ \A c : Somewhere(c) => SomewhereNext(c)
          /\ before'[r] # None => before'[r] = before[r] \/ SomewhereNext(before'[r])
      BY <1>0, <1>2, OwnStep
    <2>2. pc[r] \in Working
      BY <1>2, StepsAre DEF Step, Preserve, MoveAside, TakeStartTime, ProvePatched, Make, CheckRefreshed, WriteEvidence,
                            SetFailedAside, PutBack, FinalizeBoot, FinalizeBind
    <2>3. ASSUME NEW s \in Runs \ {r} PROVE pc[s] \notin Working /\ pc'[s] = pc[s] /\ before'[s] = before[s] /\ RunInv(s)'
      BY <1>0, <1>2, <2>2, StepTouchesOnly, Resting DEF OneAtWork
    <2>4. OneAtWork'
      BY <2>3 DEF OneAtWork
    <2>5. \A s \in Runs : before'[s] # None => SomewhereNext(before'[s])
      <3>1. ASSUME NEW s \in Runs, before'[s] # None PROVE SomewhereNext(before'[s])
        BY <1>0, <2>1, <2>3, <3>1
      <3> QED
        BY <3>1
    <2>6. OldArchiveKept'
      <3>1. \A c : (\E a \in Held' : a.content = c) <=> SomewhereNext(c)
        BY DEF Held, SomewhereNext, Lies
      <3> QED
        BY <2>5, <3>1 DEF OldArchiveKept
    <2> QED
      BY <2>1, <2>3, <2>4, <2>6 DEF SerialInv
  <1>3. ASSUME NEW r \in Runs, Kill(r) PROVE SerialInv'
    <2>1. /\ pc[r] \in Working /\ pc'[r] = "killed" /\ UNCHANGED <<paths, records, build>>
          /\ \A s \in Runs \ {r} : pc'[s] = pc[s]
      BY <1>3, GotoEffect DEF Kill
    <2>2. OneAtWork'
      BY <1>0, <2>1, StepsAre DEF OneAtWork
    <2>3. OldArchiveKept'
      BY <2>1 DEF SerialInv, OldArchiveKept, Held
    <2>4. RunInv(r)'
      BY <1>0, <2>1, StepsAre DEF RunInv
    <2>5. ASSUME NEW s \in Runs \ {r} PROVE RunInv(s)'
      BY <1>0, <2>1, Resting DEF OneAtWork
    <2> QED
      BY <2>2, <2>3, <2>4, <2>5 DEF SerialInv
  <1>4. ASSUME UNCHANGED <<pc, paths, records, boot>> PROVE SerialInv'
    <2>1. \A r \in Runs : RunInv(r)'
      BY <1>0, <1>4 DEF RunInv
    <2> QED
      BY <1>4, <2>1 DEF SerialInv, OneAtWork, OldArchiveKept, Held
  <1> QED
    BY <1>1, <1>2, <1>3, <1>4 DEF Next, EditKernel, Finished, vars

\* The serial invariant holds whenever runs do not overlap.
LEMMA SerialInvariance == ~Overlap => (Spec => []SerialInv)
  <1> SUFFICES ASSUME ~Overlap PROVE Spec => []SerialInv
    OBVIOUS
  <1>1. TypeOK /\ SerialInv /\ [Next]_vars => SerialInv'
    BY SerialNext
  <1> QED
    BY <1>1, SerialInit, TypeCorrect, PTL DEF Spec

\* The archive a run found is at the target path or under one of the names made
\* for it, wherever that run or a later one is killed.
THEOREM OldArchivesAreKept == ~Overlap => (Spec => []OldArchiveKept)
  <1> SUFFICES ASSUME ~Overlap PROVE Spec => []OldArchiveKept
    OBVIOUS
  <1>1. SerialInv => OldArchiveKept
    BY DEF SerialInv
  <1>2. Spec => []SerialInv
    BY SerialInvariance
  <1> QED
    BY <1>1, <1>2, PTL

\* The provenance a run finalizes names the archive that run packaged.
THEOREM FinalsNameOwnBuilds == ~Overlap => (Spec => []FinalNamesOwnBuild)
  <1> SUFFICES ASSUME ~Overlap PROVE Spec => []FinalNamesOwnBuild
    OBVIOUS
  <1>1. SerialInv => FinalNamesOwnBuild
    BY DEF SerialInv, RunInv, FinalNamesOwnBuild
  <1>2. Spec => []SerialInv
    BY SerialInvariance
  <1> QED
    BY <1>1, <1>2, PTL

\* No provenance names an archive with the rejected boot image, whatever is done
\* to the kernel tree.
THEOREM PrefixIsNeverFinal == ~Overlap => (Spec => []PrefixNeverFinal)
  <1> SUFFICES ASSUME ~Overlap PROVE Spec => []PrefixNeverFinal
    OBVIOUS
  <1>1. SerialInv => PrefixNeverFinal
    BY DEF SerialInv, RunInv, PrefixNeverFinal
  <1>2. Spec => []SerialInv
    BY SerialInvariance
  <1> QED
    BY <1>1, <1>2, PTL

\* The step that ends a run whose checks failed leaves the archive it found at the path.
THEOREM FailedRunsRestore == ~Overlap => (Spec => RestoredOnFailure)
  <1> SUFFICES ASSUME ~Overlap PROVE Spec => RestoredOnFailure
    OBVIOUS
  <1> DEFINE Restoring == \A r \in Runs : (pc[r] # "failed" /\ pc'[r] = "failed" /\ before[r] # None) =>
                              target' # None /\ target'.content = before[r]
  <1>1. TypeOK /\ SerialInv /\ [Next]_vars => [Restoring]_vars
    <2> SUFFICES ASSUME TypeOK, SerialInv, Next, NEW r \in Runs, pc[r] # "failed", pc'[r] = "failed", before[r] # None
                 PROVE  target' # None /\ target'.content = before[r]
      OBVIOUS
    <2>1. ASSUME NEW s \in Runs, Begin(s) \/ Kill(s) PROVE FALSE
      BY <2>1, GotoEffect DEF Begin, Kill
    <2>2. ~EditKernel /\ ~Finished
      BY DEF EditKernel, Finished, vars
    <2>3. PICK s \in Runs : Step(s)
      BY <2>1, <2>2 DEF Next
    <2>4. s = r
      BY <2>3, StepTouchesOnly
    <2>5. PutBack(r)
      BY <2>3, <2>4, GotoEffect, MakeEffect
         DEF Step, Preserve, MoveAside, TakeStartTime, ProvePatched, CheckRefreshed, WriteEvidence,
             SetFailedAside, FinalizeBoot, FinalizeBind
    <2>6. backup[r] # None /\ backup[r].content = before[r]
      BY <2>5, StepsAre DEF PutBack, SerialInv, RunInv
    <2> QED
      BY <2>5, <2>6 DEF PutBack
  <1>2. Spec => []SerialInv
    BY SerialInvariance
  <1> QED
    BY <1>1, <1>2, TypeCorrect, PTL DEF Spec, RestoredOnFailure
=============================================================================
