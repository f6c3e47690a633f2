------------------------ MODULE KeysetGenerationProofs ------------------------
(***************************************************************************)
(* Proofs about KeysetGeneration, for any number of runs, any plan, any    *)
(* faults and any overlap.                                                 *)
(*                                                                         *)
(* The destination is made whole by what _validate_complete_staging checks *)
(* and fsyncs, so the inductive invariant follows a run's own directory:   *)
(* where it is at each step, which of its entries are complete and, from   *)
(* the validation on, which of them the disk is sure to hold.              *)
(***************************************************************************)
EXTENDS KeysetGeneration, TLAPS

\* The steps at which a run has no directory, and has one under its staging name.
NoDirectory == {"idle", "prompt", "create", "mkdir", "declined", "refused"}
InStaging   == {"subdirs", "open", "enter", "reserve", "command", "verify", "unraw", "syncraw",
                "validate", "syncpublic", "synctop", "publish", "undo", "cleanup"}

\* The run's directory holds the expected entries, on disk, and no others.
Settled(r) == \A n \in Names :
    IF n \in Expected THEN file[r][n] = "synced" /\ onDisk[r][n] = {TRUE}
                      ELSE file[r][n] = "none" /\ onDisk[r][n] = {FALSE}

PlaceInv(r) ==
    /\ place[r] \in placeOnDisk[r]
    /\ "dest" \in placeOnDisk[r] => place[r] = "dest"
    /\ pc[r] \in NoDirectory => place[r] = "none" /\ placeOnDisk[r] = {"none"}
    /\ pc[r] \in InStaging => place[r] = "staging"
    /\ pc[r] \in {"renamed", "syncparent", "done"} => place[r] = "dest"
    /\ pc[r] = "handle" => place[r] # "none"
    /\ pc[r] = "syncclean" => place[r] = "none"
    /\ pc[r] = "done" => placeOnDisk[r] = {"dest"}

PlaceInvAll == \A r \in Runs : PlaceInv(r)

\* Only the output being made may be incomplete.
WholeBut(r, n) == \A m \in Names : m # n => file[r][m] \in {"none", "synced"}

TreeInv(r) ==
    /\ pc[r] \in NoDirectory => \A n \in Names : file[r][n] = "none"
    /\ pc[r] \in InStaging \ {"command", "verify", "undo", "cleanup"} =>
         \A n \in Names : file[r][n] \in {"none", "synced"}
    /\ pc[r] \in {"command", "verify"} => WholeBut(r, Target(r))
    /\ pc[r] \in {"syncpublic", "synctop", "publish"} => Present(r) = Expected
    /\ pc[r] = "synctop" =>
         \A n \in Names : InPublic(n) => onDisk[r][n] = {file[r][n] # "none"}
    /\ pc[r] = "publish" \/ place[r] = "dest" => Settled(r)

IInv == /\ TypeOK
        /\ OneAuthority
        /\ PlaceInvAll
        /\ \A r \in Runs : TreeInv(r)

-----------------------------------------------------------------------------
(* The plan: what each role's outputs are.                                 *)

\* Every role, and the keyset as a whole, has at least one output.
LEMMA OutputsLength ==
    ASSUME NEW i \in 1..Meta
    PROVE  /\ Len(Outputs(i)) \in Nat \ {0}
           /\ DOMAIN Outputs(i) = 1..Len(Outputs(i))
<1>1. CASE i \in DOMAIN Plan
  <2>1. Plan[i] \in {"android", "apex", "avb"}
    BY <1>1, PlanAssumption
  <2> QED
    BY <1>1, <2>1 DEF Outputs, OutputsOf
<1>2. CASE i \notin DOMAIN Plan
  BY <1>2 DEF Outputs
<1> QED
  BY <1>1, <1>2

\* The plan is a nonempty sequence, and Meta follows its last role.
LEMMA MetaIsLast == Meta \in Nat \ {0} /\ Len(Plan) \in Nat /\ Meta = Len(Plan) + 1
BY PlanAssumption DEF Meta

\* The next output of a role, and the first of the next role, are jobs too.
LEMMA JobsAdvance ==
    ASSUME NEW i \in 1..Meta, NEW k \in 1..Len(Outputs(i))
    PROVE  /\ <<i, k>> \in Jobs
           /\ k < Len(Outputs(i)) => <<i, k + 1>> \in Jobs
           /\ i < Meta => <<i + 1, 1>> \in Jobs
<1>1. \A j \in 1..Meta : \A l \in 1..Len(Outputs(j)) : <<j, l>> \in Jobs
  BY OutputsLength DEF Jobs
<1>2. k < Len(Outputs(i)) => k + 1 \in 1..Len(Outputs(i))
  BY OutputsLength
<1>3. i < Meta => i + 1 \in 1..Meta /\ 1 \in 1..Len(Outputs(i + 1))
  BY MetaIsLast, OutputsLength
<1> QED
  BY <1>1, <1>2, <1>3

\* A job is a role and the number of one of its outputs.
LEMMA JobParts ==
    ASSUME NEW j \in Jobs
    PROVE  /\ j = <<j[1], j[2]>>
           /\ j[1] \in 1..Meta
           /\ j[2] \in 1..Len(Outputs(j[1]))
BY OutputsLength DEF Jobs

\* No raw key, nor their directory, is expected; what is under public/ is expected with it.
LEMMA ExpectedNames ==
    /\ RawDir \notin Expected
    /\ PublicDir \in Expected
    /\ \A n \in Expected : ~InRaw(n)
<1>1. \A i \in DOMAIN Plan : i # 0 /\ Plan[i] \in {"android", "apex", "avb"}
  BY PlanAssumption
<1>2. \A i \in DOMAIN Plan : \A n \in {i} \X ExpectedOf[Plan[i]] : n[1] # 0 /\ n[2] # "raw"
  BY <1>1 DEF ExpectedOf
<1>3. PublicDir[2] # "raw" /\ RawDir # PublicDir /\ RawDir[1] = 0 /\ RawDir[2] = "rawdir"
  BY DEF PublicDir, RawDir
<1>4. Meta # 0
  BY MetaIsLast
<1> QED
  BY <1>2, <1>3, <1>4 DEF Expected, InRaw, RawDir

\* Everything expected is something the generator makes.
LEMMA ExpectedAreMade == Expected \subseteq Names
<1>1. ASSUME NEW i \in DOMAIN Plan, NEW kind \in ExpectedOf[Plan[i]]
      PROVE  <<i, kind>> \in Files
  <2>1. i \in 1..Meta
    BY PlanAssumption, MetaIsLast
  <2>2. CASE Plan[i] = "android"
    <3>1. kind \in {"pk8", "x509"} /\ Outputs(i) = <<"raw", "x509", "pk8">>
      BY <2>2 DEF ExpectedOf, Outputs, OutputsOf
    <3>2. \E k \in DOMAIN Outputs(i) : kind = Outputs(i)[k]
      <4>1. CASE kind = "x509"
        BY <3>1, <4>1, 2 \in DOMAIN Outputs(i)
      <4>2. CASE kind = "pk8"
        BY <3>1, <4>2, 3 \in DOMAIN Outputs(i)
      <4> QED
        BY <3>1, <4>1, <4>2
    <3> QED
      BY <2>1, <3>2 DEF Files
  <2>3. CASE Plan[i] = "apex"
    <3>1. /\ kind \in {"pem", "pk8", "x509", "pub"}
          /\ Outputs(i) = <<"raw", "pub", "x509", "pk8", "pem">>
      BY <2>3 DEF ExpectedOf, Outputs, OutputsOf
    <3>2. \E k \in 2..5 : kind = Outputs(i)[k]
      BY <3>1
    <3>3. \E k \in DOMAIN Outputs(i) : kind = Outputs(i)[k]
      BY <3>1, <3>2
    <3> QED
      BY <2>1, <3>3 DEF Files
  <2>4. CASE Plan[i] = "avb"
    <3>1. kind \in {"pem", "pub"} /\ Outputs(i) = <<"raw", "pub", "pem">>
      BY <2>4 DEF ExpectedOf, Outputs, OutputsOf
    <3>2. \E k \in 2..3 : kind = Outputs(i)[k]
      BY <3>1
    <3>3. \E k \in DOMAIN Outputs(i) : kind = Outputs(i)[k]
      BY <3>1, <3>2
    <3> QED
      BY <2>1, <3>3 DEF Files
  <2> QED
    BY <2>2, <2>3, <2>4, PlanAssumption
<1>2. <<Meta, "passwords">> \in Files /\ <<Meta, "keyset">> \in Files
  <2>1. Meta \in 1..Meta /\ Meta \notin DOMAIN Plan
    BY PlanAssumption, MetaIsLast
  <2>2. Outputs(Meta) = <<"passwords", "keyset">>
    BY <2>1 DEF Outputs
  <2>3. 1 \in DOMAIN Outputs(Meta) /\ 2 \in DOMAIN Outputs(Meta)
    BY <2>2
  <2> QED
    BY <2>1, <2>2, <2>3 DEF Files
<1> QED
  BY <1>1, <1>2 DEF Expected, Names

-----------------------------------------------------------------------------
(* Type correctness.                                                       *)

\* The initial state is typed.
LEMMA TypeInit == Init => TypeOK
<1>1. <<1, 1>> \in Jobs
  <2>1. 1 \in 1..Meta
    BY MetaIsLast
  <2>2. 1 \in 1..Len(Outputs(1))
    BY <2>1, OutputsLength
  <2> QED
    BY <2>1, <2>2, JobsAdvance
<1> QED
  BY <1>1 DEF Init, TypeOK, FileStates, Places

\* Moving on to the next output keeps job and pc typed.
LEMMA TypeAdvance ==
    ASSUME TypeOK, NEW r \in Runs, Advance(r)
    PROVE  job' \in [Runs -> Jobs] /\ pc' \in [Runs -> {"idle"} \cup Live \cup Ended]
<1>1. job[r] \in Jobs
  BY DEF TypeOK
<1> DEFINE i == job[r][1]
           k == job[r][2]
<1>2. i \in 1..Meta /\ k \in 1..Len(Outputs(i))
  BY <1>1, JobParts
<1>3. /\ k < Len(Outputs(i)) => <<i, k + 1>> \in Jobs
      /\ i < Meta => <<i + 1, 1>> \in Jobs
  BY <1>2, JobsAdvance
<1>4. job' \in [Runs -> Jobs]
  BY <1>3 DEF TypeOK, Advance
<1>5. \E step \in Working : pc' = [pc EXCEPT ![r] = step]
  BY DEF Advance, Goto, Working
<1> QED
  BY <1>4, <1>5 DEF TypeOK, Live

\* The helpers on a run's directory keep the types.
LEMMA TypeMoveTo ==
    ASSUME TypeOK, NEW r \in Runs, NEW p \in Places, MoveTo(r, p)
    PROVE  place' \in [Runs -> Places] /\ placeOnDisk' \in [Runs -> SUBSET Places]
<1>1. placeOnDisk[r] \cup {p} \in SUBSET Places
  BY DEF TypeOK
<1> QED
  BY <1>1 DEF TypeOK, MoveTo

\* Making or removing an entry keeps file and onDisk typed.
LEMMA TypeEntry ==
    ASSUME TypeOK, NEW r \in Runs, NEW n, NEW content \in FileStates,
           Create(r, n, content) \/ Remove(r, n)
    PROVE  file' \in [Runs -> [Names -> FileStates]] /\ onDisk' \in [Runs -> [Names -> SUBSET BOOLEAN]]
<1>1. [file[r] EXCEPT ![n] = content] \in [Names -> FileStates]
  BY DEF TypeOK
<1>2. [file[r] EXCEPT ![n] = "none"] \in [Names -> FileStates]
  BY DEF TypeOK, FileStates
<1>3. file' \in [Runs -> [Names -> FileStates]]
  BY <1>1, <1>2 DEF TypeOK, Create, Remove
<1>4. ASSUME NEW b \in BOOLEAN
      PROVE  [onDisk[r] EXCEPT ![n] = onDisk[r][n] \cup {b}] \in [Names -> SUBSET BOOLEAN]
  <2>1. onDisk[r] \in [Names -> SUBSET BOOLEAN]
    BY DEF TypeOK
  <2>2. n \in Names => onDisk[r][n] \cup {b} \in SUBSET BOOLEAN
    BY <2>1
  <2> QED
    BY <2>1, <2>2
<1>5. \E b \in BOOLEAN :
         onDisk' = [onDisk EXCEPT ![r] = [onDisk[r] EXCEPT ![n] = onDisk[r][n] \cup {b}]]
  BY DEF TypeOK, Create, Remove
<1>6. onDisk' \in [Runs -> [Names -> SUBSET BOOLEAN]]
  BY <1>4, <1>5 DEF TypeOK
<1> QED
  BY <1>3, <1>6

\* An fsync keeps onDisk typed.
LEMMA TypeSync ==
    ASSUME TypeOK, NEW r \in Runs, NEW N, Sync(r, N)
    PROVE  onDisk' \in [Runs -> [Names -> SUBSET BOOLEAN]]
<1>1. [n \in Names |-> IF n \in N THEN {file[r][n] # "none"} ELSE onDisk[r][n]]
        \in [Names -> SUBSET BOOLEAN]
  BY DEF TypeOK
<1> QED
  BY <1>1 DEF TypeOK, Sync

\* The fsync of the parent keeps placeOnDisk typed.
LEMMA TypeSyncParent == TypeOK /\ SyncParent => placeOnDisk' \in [Runs -> SUBSET Places]
BY DEF TypeOK, SyncParent

\* Every step of a run keeps the types.
LEMMA TypeStep ==
    ASSUME TypeOK, NEW r \in Runs, Step(r)
    PROVE  TypeOK'
<1> USE DEF TypeOK, Goto, tree, spot, Live, Working, Handling, Ended
<1>1. CASE AnswerPrompt(r) \/ CheckAgain(r) \/ OpenWorkspace(r) \/ EnterContext(r) \/ Validate(r) \/ MarkPublished(r)
  BY <1>1 DEF AnswerPrompt, CheckAgain, OpenWorkspace, EnterContext, Validate, MarkPublished
<1>2. CASE MakeStaging(r) \/ Publish(r) \/ UndoStaging(r) \/ CleanStaging(r)
  <2>1. place' \in [Runs -> Places] /\ placeOnDisk' \in [Runs -> SUBSET Places]
    BY <1>2, TypeMoveTo DEF MakeStaging, Publish, UndoStaging, CleanStaging, RemoveStaging, Places
  <2> QED
    BY <1>2, <2>1 DEF MakeStaging, Publish, UndoStaging, CleanStaging, RemoveStaging
<1>3. CASE MakeSubdirectory(r) \/ Reserve(r)
  <2>1. file' \in [Runs -> [Names -> FileStates]] /\ onDisk' \in [Runs -> [Names -> SUBSET BOOLEAN]]
    BY <1>3, TypeEntry DEF MakeSubdirectory, Reserve, FileStates
  <2> QED
    BY <1>3, <2>1 DEF MakeSubdirectory, Reserve
<1>4. CASE WriteContent(r)
  BY <1>4 DEF WriteContent, FileStates
<1>5. CASE VerifyOutput(r)
  <2>1. file' \in [Runs -> [Names -> FileStates]]
    BY <1>5 DEF VerifyOutput, FileStates
  <2> QED
    BY <1>5, <2>1, TypeAdvance DEF VerifyOutput
<1>6. CASE RemoveRawKey(r) \/ RemoveRawDirectory(r) \/ UndoEntry(r) \/ CleanEntry(r)
  <2>1. \E n : Remove(r, n)
    BY <1>6 DEF RemoveRawKey, RemoveRawDirectory, UndoEntry, CleanEntry
  <2>2. file' \in [Runs -> [Names -> FileStates]] /\ onDisk' \in [Runs -> [Names -> SUBSET BOOLEAN]]
    BY <2>1, TypeEntry DEF FileStates
  <2> QED
    BY <1>6, <2>2 DEF RemoveRawKey, RemoveRawDirectory, UndoEntry, CleanEntry
<1>7. CASE SyncRawRemoval(r) \/ SyncPublic(r) \/ SyncTop(r)
  <2>1. onDisk' \in [Runs -> [Names -> SUBSET BOOLEAN]]
    BY <1>7, TypeSync DEF SyncRawRemoval, SyncPublic, SyncTop
  <2> QED
    BY <1>7, <2>1 DEF SyncRawRemoval, SyncPublic, SyncTop
<1>8. CASE Acknowledge(r) \/ SyncClean(r)
  BY <1>8, TypeSyncParent DEF Acknowledge, SyncClean
<1>9. CASE Handle(r)
  BY <1>9 DEF Handle
<1> QED
  BY <1>1, <1>2, <1>3, <1>4, <1>5, <1>6, <1>7, <1>8, <1>9 DEF Step

\* Every step of the system keeps the types.
LEMMA TypeNext == TypeOK /\ [Next]_vars => TypeOK'
<1> SUFFICES ASSUME TypeOK, [Next]_vars PROVE TypeOK'
  OBVIOUS
<1>1. ASSUME NEW r \in Runs, Begin(r) PROVE TypeOK'
  BY <1>1 DEF TypeOK, Begin, Goto, tree, spot, Live, Working, Ended
<1>2. ASSUME NEW r \in Runs, Step(r) PROVE TypeOK'
  BY <1>2, TypeStep
<1>3. ASSUME NEW r \in Runs, Interrupt(r) PROVE TypeOK'
  <2>1. AfterInterrupt[pc[r]] \in {"failed", "undo", "stuck", "handle"}
    BY <1>3 DEF Interrupt, AfterInterrupt
  <2> QED
    BY <1>3, <2>1 DEF TypeOK, Interrupt, Goto, tree, spot, Live, Handling, Ended
<1>4. ASSUME NEW r \in Runs, Crash(r) PROVE TypeOK'
  BY <1>4 DEF TypeOK, Crash, Goto, tree, spot, Ended
<1>5. ASSUME NEW r \in Runs, OperatorClears(r) PROVE TypeOK'
  BY <1>5 DEF TypeOK, OperatorClears, MoveTo, Places, FileStates
<1>6. CASE PowerLoss
  <2>1. \A r \in Runs : \A n \in Names : AfterLoss(r, n) \in FileStates
    BY DEF AfterLoss, FileStates
  <2>2. pc' \in [Runs -> {"idle"} \cup Live \cup Ended]
    BY <1>6 DEF TypeOK, PowerLoss, Ended
  <2>3. file' \in [Runs -> [Names -> FileStates]]
    BY <1>6, <2>1 DEF PowerLoss, FileStates
  <2> QED
    BY <1>6, <2>2, <2>3 DEF TypeOK, PowerLoss
<1>7. CASE UNCHANGED vars
  BY <1>7 DEF TypeOK, vars
<1> QED
  BY <1>1, <1>2, <1>3, <1>4, <1>5, <1>6, <1>7 DEF Next, Finished

\* Every variable keeps its type, whatever the plan, the runs and the faults.
THEOREM TypeCorrect == Spec => []TypeOK
BY TypeInit, TypeNext, PTL DEF Spec

-----------------------------------------------------------------------------
(* The inductive invariant.                                                *)

\* The inductive invariant holds initially.
LEMMA InvInit == Init => IInv
<1> SUFFICES ASSUME Init PROVE IInv
  OBVIOUS
<1>1. TypeOK
  BY TypeInit
<1>2. \A r \in Runs : /\ pc[r] = "idle" /\ place[r] = "none" /\ placeOnDisk[r] = {"none"}
                      /\ \A n \in Names : file[r][n] = "none"
  BY DEF Init
<1>3. OneAuthority
  BY <1>2 DEF OneAuthority
<1>4. \A r \in Runs : PlaceInv(r)
  BY <1>2 DEF PlaceInv, NoDirectory, InStaging
<1>5. \A r \in Runs : TreeInv(r)
  BY <1>2 DEF TreeInv, NoDirectory, InStaging
<1> QED
  BY <1>1, <1>3, <1>4, <1>5 DEF IInv, PlaceInvAll

\* A run that a step does not touch keeps its invariant, also when another
\* run's fsync of the parent settles where its directory is.
LEMMA Untouched ==
    ASSUME IInv, NEW s \in Runs,
           pc'[s] = pc[s], job'[s] = job[s], file'[s] = file[s], onDisk'[s] = onDisk[s],
           place'[s] = place[s],
           placeOnDisk'[s] = placeOnDisk[s] \/ placeOnDisk'[s] = {place[s]}
    PROVE  PlaceInv(s)' /\ TreeInv(s)'
<1>1. PlaceInv(s) /\ TreeInv(s)
  BY DEF IInv, PlaceInvAll
<1>2. PlaceInv(s)'
  BY <1>1 DEF PlaceInv
<1>3. Target(s)' = Target(s) /\ Present(s)' = Present(s)
  BY DEF Target, Present
<1>4. (WholeBut(s, Target(s)) => WholeBut(s, Target(s))') /\ (Settled(s) => Settled(s)')
  BY <1>3 DEF WholeBut, Settled
<1>5. TreeInv(s)'
  BY <1>1, <1>3, <1>4 DEF TreeInv
<1> QED
  BY <1>2, <1>5

\* What Goto, MoveTo, Create, Remove and Sync do, run by run and name by name.
LEMMA GotoEffect ==
    ASSUME TypeOK, NEW r \in Runs, NEW step, Goto(r, step)
    PROVE  pc'[r] = step /\ \A s \in Runs \ {r} : pc'[s] = pc[s]
BY DEF TypeOK, Goto

\* MoveTo sets the place of one run and adds it to those on disk.
LEMMA MoveToEffect ==
    ASSUME TypeOK, NEW r \in Runs, NEW p, MoveTo(r, p)
    PROVE  /\ place'[r] = p /\ placeOnDisk'[r] = placeOnDisk[r] \cup {p}
           /\ \A s \in Runs \ {r} : place'[s] = place[s] /\ placeOnDisk'[s] = placeOnDisk[s]
BY DEF TypeOK, MoveTo

\* Create and Remove set one name of one run.
LEMMA EntryEffect ==
    ASSUME TypeOK, NEW r \in Runs, NEW n, NEW content,
           Create(r, n, content) \/ (Remove(r, n) /\ content = "none")
    PROVE  /\ \A m \in Names : file'[r][m] = IF m = n THEN content ELSE file[r][m]
           /\ \A s \in Runs \ {r} : file'[s] = file[s] /\ onDisk'[s] = onDisk[s]
<1>1. file' = [file EXCEPT ![r][n] = content]
  BY DEF Create, Remove
<1>2. /\ file \in [Runs -> [Names -> FileStates]]
      /\ onDisk \in [Runs -> [Names -> SUBSET BOOLEAN]]
  BY DEF TypeOK
<1>3. \A s \in Runs \ {r} : onDisk'[s] = onDisk[s]
  BY <1>2 DEF Create, Remove
<1> QED
  BY <1>1, <1>2, <1>3

\* An fsync settles the given names of one run on disk.
LEMMA SyncEffect ==
    ASSUME TypeOK, NEW r \in Runs, NEW N, Sync(r, N)
    PROVE  /\ \A n \in Names : onDisk'[r][n] = IF n \in N THEN {file[r][n] # "none"} ELSE onDisk[r][n]
           /\ \A s \in Runs \ {r} : onDisk'[s] = onDisk[s]
BY DEF TypeOK, Sync

\* Who else a step of run r touches: at most where the disk has their directories.
LEMMA StepTouchesOnly ==
    ASSUME TypeOK, NEW r \in Runs, Step(r), NEW s \in Runs \ {r}
    PROVE  /\ pc'[s] = pc[s] /\ job'[s] = job[s]
           /\ file'[s] = file[s] /\ onDisk'[s] = onDisk[s]
           /\ place'[s] = place[s]
           /\ placeOnDisk'[s] = placeOnDisk[s] \/ placeOnDisk'[s] = {place[s]}
<1>1. pc'[s] = pc[s] /\ job'[s] = job[s]
  <2>1. \E step : Goto(r, step) \/ UNCHANGED pc
    BY DEF Step, AnswerPrompt, CheckAgain, MakeStaging, MakeSubdirectory, OpenWorkspace, EnterContext, Reserve,
           WriteContent, VerifyOutput, Advance, RemoveRawKey, RemoveRawDirectory, SyncRawRemoval,
           Validate, SyncPublic, SyncTop, Publish, MarkPublished, Acknowledge, UndoEntry,
           UndoStaging, Handle, CleanEntry, CleanStaging, RemoveStaging, SyncClean
  <2>2. UNCHANGED job \/ \E j : job' = [job EXCEPT ![r] = j]
    BY DEF Step, AnswerPrompt, CheckAgain, MakeStaging, MakeSubdirectory, OpenWorkspace, EnterContext, Reserve,
           WriteContent, VerifyOutput, Advance, RemoveRawKey, RemoveRawDirectory, SyncRawRemoval,
           Validate, SyncPublic, SyncTop, Publish, MarkPublished, Acknowledge, UndoEntry,
           UndoStaging, Handle, CleanEntry, CleanStaging, RemoveStaging, SyncClean
  <2>3. job'[s] = job[s]
    BY <2>2 DEF TypeOK
  <2> QED
    BY <2>1, <2>3, GotoEffect
<1>2. file'[s] = file[s] /\ onDisk'[s] = onDisk[s]
  <2>1. \/ UNCHANGED <<file, onDisk>>
        \/ \E n, content : Create(r, n, content)
        \/ \E n : Remove(r, n)
        \/ UNCHANGED file /\ \E N : Sync(r, N)
        \/ UNCHANGED onDisk /\ \E n, content : file' = [file EXCEPT ![r][n] = content]
    BY DEF Step, AnswerPrompt, CheckAgain, MakeStaging, MakeSubdirectory, OpenWorkspace, EnterContext, Reserve,
           WriteContent, VerifyOutput, RemoveRawKey, RemoveRawDirectory, SyncRawRemoval,
           Validate, SyncPublic, SyncTop, Publish, MarkPublished, Acknowledge, UndoEntry,
           UndoStaging, Handle, CleanEntry, CleanStaging, RemoveStaging, SyncClean, tree
  <2>2. ASSUME NEW n, NEW content, file' = [file EXCEPT ![r][n] = content]
        PROVE  file'[s] = file[s]
    BY <2>2 DEF TypeOK
  <2>3. ASSUME NEW n, NEW content, Create(r, n, content) \/ (Remove(r, n) /\ content = "none")
        PROVE  file'[s] = file[s] /\ onDisk'[s] = onDisk[s]
    BY <2>3, EntryEffect
  <2>4. ASSUME NEW N, Sync(r, N) PROVE onDisk'[s] = onDisk[s]
    BY <2>4, SyncEffect
  <2> QED
    BY <2>1, <2>2, <2>3, <2>4
<1>3. /\ place'[s] = place[s]
      /\ placeOnDisk'[s] = placeOnDisk[s] \/ placeOnDisk'[s] = {place[s]}
  <2>1. \/ UNCHANGED spot
        \/ \E p : MoveTo(r, p)
        \/ SyncParent /\ UNCHANGED place
    BY DEF Step, AnswerPrompt, CheckAgain, MakeStaging, MakeSubdirectory, OpenWorkspace, EnterContext, Reserve,
           WriteContent, VerifyOutput, RemoveRawKey, RemoveRawDirectory, SyncRawRemoval,
           Validate, SyncPublic, SyncTop, Publish, MarkPublished, Acknowledge, UndoEntry,
           UndoStaging, Handle, CleanEntry, CleanStaging, RemoveStaging, SyncClean
  <2> QED
    BY <2>1, MoveToEffect DEF spot, SyncParent
<1> QED
  BY <1>1, <1>2, <1>3

\* A step of one run keeps the invariant of every other run.
LEMMA StepTouchesOwn ==
    ASSUME IInv, NEW r \in Runs, Step(r), NEW s \in Runs \ {r}
    PROVE  PlaceInv(s)' /\ TreeInv(s)'
<1>1. TypeOK
  BY DEF IInv, PlaceInvAll
<1> QED
  BY <1>1, StepTouchesOnly, Untouched

\* When no directory newly gets the destination's name, there is still at most one.
LEMMA OneAuthorityKept ==
    ASSUME IInv, \A s \in Runs : PlaceInv(s)',
           \A s \in Runs : place'[s] = "dest" => place[s] = "dest"
    PROVE  OneAuthority'
BY DEF IInv, PlaceInvAll, OneAuthority, PlaceInv

\* Where run r's directory is, after a step of its own.
LEMMA StepPlace ==
    ASSUME IInv, NEW r \in Runs, Step(r)
    PROVE  /\ PlaceInv(r)'
           /\ place'[r] = "dest" => \/ place[r] = "dest"
                                    \/ \A s \in Runs : place[s] # "dest"
<1> USE DEF NoDirectory, InStaging
<1>0. TypeOK /\ PlaceInv(r)
  BY DEF IInv, PlaceInvAll
<1>1. CASE AnswerPrompt(r) \/ CheckAgain(r) \/ OpenWorkspace(r) \/ EnterContext(r) \/ Validate(r) \/ MarkPublished(r)
  BY <1>0, <1>1, GotoEffect
     DEF AnswerPrompt, CheckAgain, OpenWorkspace, EnterContext, Validate, MarkPublished, spot, PlaceInv
<1>2. CASE MakeStaging(r) \/ UndoStaging(r) \/ CleanStaging(r)
  <2>1. CASE MakeStaging(r)
    BY <1>0, <2>1, GotoEffect, MoveToEffect DEF MakeStaging, PlaceInv
  <2>2. CASE (UndoStaging(r) \/ CleanStaging(r)) /\ Present(r) = {}
    BY <1>0, <2>2, GotoEffect, MoveToEffect DEF UndoStaging, CleanStaging, RemoveStaging, PlaceInv
  <2>3. CASE (UndoStaging(r) \/ CleanStaging(r)) /\ Present(r) # {}
    BY <1>0, <2>3, GotoEffect DEF UndoStaging, CleanStaging, RemoveStaging, PlaceInv, spot
  <2> QED
    BY <1>2, <2>1, <2>2, <2>3
<1>3. CASE MakeSubdirectory(r) \/ Reserve(r) \/ WriteContent(r)
  BY <1>0, <1>3, GotoEffect DEF MakeSubdirectory, Reserve, WriteContent, spot, PlaceInv
<1>4. CASE VerifyOutput(r)
  <2>1. pc'[r] \in {"reserve", "unraw", "validate"}
    BY <1>0, <1>4, GotoEffect DEF VerifyOutput, Advance
  <2> QED
    BY <1>0, <1>4, <2>1 DEF VerifyOutput, spot, PlaceInv
<1>5. CASE RemoveRawKey(r) \/ RemoveRawDirectory(r) \/ UndoEntry(r) \/ CleanEntry(r)
  BY <1>0, <1>5, GotoEffect
     DEF RemoveRawKey, RemoveRawDirectory, UndoEntry, CleanEntry, spot, PlaceInv
<1>6. CASE SyncRawRemoval(r) \/ SyncPublic(r) \/ SyncTop(r)
  BY <1>0, <1>6, GotoEffect DEF SyncRawRemoval, SyncPublic, SyncTop, spot, PlaceInv
<1>7. CASE Publish(r)
  BY <1>0, <1>7, GotoEffect, MoveToEffect DEF Publish, spot, PlaceInv
<1>8. CASE Acknowledge(r) \/ SyncClean(r)
  BY <1>0, <1>8, GotoEffect DEF Acknowledge, SyncClean, SyncParent, PlaceInv
<1>9. CASE Handle(r)
  BY <1>0, <1>9, GotoEffect DEF Handle, spot, PlaceInv, TypeOK, Places
<1> QED
  BY <1>1, <1>2, <1>3, <1>4, <1>5, <1>6, <1>7, <1>8, <1>9 DEF Step

\* What run r's directory holds, after a step of its own.
LEMMA StepTree ==
    ASSUME IInv, NEW r \in Runs, Step(r)
    PROVE  TreeInv(r)'
<1> USE DEF NoDirectory, InStaging
<1>0. TypeOK /\ PlaceInv(r) /\ TreeInv(r)
  BY DEF IInv, PlaceInvAll
<1>1. CASE AnswerPrompt(r) \/ CheckAgain(r) \/ OpenWorkspace(r) \/ EnterContext(r)
  <2>1. pc'[r] \in NoDirectory \cup {"enter", "reserve"}
    BY <1>0, <1>1, GotoEffect DEF AnswerPrompt, CheckAgain, OpenWorkspace, EnterContext
  <2>2. /\ file' = file /\ place'[r] = place[r] /\ place[r] # "dest"
        /\ pc'[r] \in {"enter", "reserve"} => pc[r] \in {"open", "enter"}
        /\ pc'[r] \in NoDirectory => pc[r] \in NoDirectory
    BY <1>0, <1>1, GotoEffect DEF AnswerPrompt, CheckAgain, OpenWorkspace, EnterContext, tree, spot, PlaceInv
  <2> QED
    BY <1>0, <2>1, <2>2 DEF TreeInv
<1>2. CASE MakeStaging(r)
  BY <1>0, <1>2, GotoEffect, MoveToEffect DEF MakeStaging, tree, TreeInv
<1>3. CASE MakeSubdirectory(r)
  <2>1. pc'[r] \in {"subdirs", "open"} /\ place'[r] = "staging"
    BY <1>0, <1>3, GotoEffect DEF MakeSubdirectory, spot, PlaceInv
  <2>2. \E n : Create(r, n, "synced")
    BY <1>3 DEF MakeSubdirectory
  <2>3. \A m \in Names : file'[r][m] \in {"none", "synced"}
    BY <1>0, <1>3, <2>2, EntryEffect DEF TreeInv, MakeSubdirectory
  <2> QED
    BY <2>1, <2>3 DEF TreeInv
<1>4. CASE Reserve(r)
  <2>1. /\ pc[r] = "reserve" /\ pc'[r] \in {"command", "handle"}
        /\ place'[r] = "staging" /\ job'[r] = job[r]
    BY <1>0, <1>4, GotoEffect DEF Reserve, spot, PlaceInv
  <2>2. UNCHANGED tree \/ Create(r, Target(r), "empty")
    BY <1>4 DEF Reserve
  <2>3. \A m \in Names : m # Target(r) => file'[r][m] = file[r][m]
    BY <1>0, <2>2, EntryEffect DEF tree
  <2> QED
    BY <1>0, <2>1, <2>3 DEF TreeInv, WholeBut, Target
<1>5. CASE WriteContent(r)
  <2>1. pc[r] = "command" /\ pc'[r] = "verify" /\ place'[r] = "staging" /\ job'[r] = job[r]
    BY <1>0, <1>5, GotoEffect DEF WriteContent, spot, PlaceInv
  <2>2. \A m \in Names : m # Target(r) => file'[r][m] = file[r][m]
    BY <1>0, <1>5 DEF WriteContent, TypeOK
  <2> QED
    BY <1>0, <2>1, <2>2 DEF TreeInv, WholeBut, Target
<1>6. CASE VerifyOutput(r)
  <2>1. pc[r] = "verify" /\ pc'[r] \in {"reserve", "unraw", "validate"} /\ place'[r] = "staging"
    BY <1>0, <1>6, GotoEffect DEF VerifyOutput, Advance, spot, PlaceInv
  <2>2. \A m \in Names : file'[r][m] = IF m = Target(r) THEN "synced" ELSE file[r][m]
    BY <1>0, <1>6 DEF VerifyOutput, TypeOK
  <2> QED
    BY <1>0, <2>1, <2>2 DEF TreeInv, WholeBut
<1>7. CASE RemoveRawKey(r) \/ RemoveRawDirectory(r) \/ UndoEntry(r) \/ CleanEntry(r)
  <2>1. pc[r] \in {"unraw", "undo", "cleanup"} /\ pc'[r] \in {pc[r], "syncraw"} /\ place'[r] = "staging"
    BY <1>0, <1>7, GotoEffect
       DEF RemoveRawKey, RemoveRawDirectory, UndoEntry, CleanEntry, spot, PlaceInv
  <2>2. pc[r] # "unraw" => pc'[r] = pc[r]
    BY <1>0, <1>7 DEF RemoveRawKey, RemoveRawDirectory, UndoEntry, CleanEntry
  <2>3. \E n : Remove(r, n)
    BY <1>7 DEF RemoveRawKey, RemoveRawDirectory, UndoEntry, CleanEntry
  <2>4. \A m \in Names : file'[r][m] \in {"none", file[r][m]}
    <3>1. PICK n : Remove(r, n)
      BY <2>3
    <3>2. \A m \in Names : file'[r][m] = IF m = n THEN "none" ELSE file[r][m]
      BY <1>0, <3>1, EntryEffect
    <3> QED
      BY <3>2
  <2> QED
    BY <1>0, <2>1, <2>2, <2>4 DEF TreeInv
<1>8. CASE SyncRawRemoval(r)
  <2>1. pc[r] = "syncraw" /\ pc'[r] = "reserve" /\ place'[r] = "staging" /\ file' = file
    BY <1>0, <1>8, GotoEffect DEF SyncRawRemoval, spot, PlaceInv
  <2> QED
    BY <1>0, <2>1 DEF TreeInv
<1>9. CASE Validate(r)
  <2>1. /\ pc[r] = "validate" /\ pc'[r] \in {"syncpublic", "handle"}
        /\ place'[r] = "staging" /\ file' = file
    BY <1>0, <1>9, GotoEffect DEF Validate, spot, tree, PlaceInv
  <2>2. pc'[r] = "syncpublic" => Present(r)' = Expected
    BY <1>0, <1>9, <2>1, GotoEffect DEF Validate, Present
  <2> QED
    BY <1>0, <2>1, <2>2 DEF TreeInv
<1>10. CASE SyncPublic(r)
  <2>1. pc[r] = "syncpublic" /\ pc'[r] = "synctop" /\ place'[r] = "staging" /\ file' = file
    BY <1>0, <1>10, GotoEffect DEF SyncPublic, spot, PlaceInv
  <2>2. Present(r)' = Expected
    BY <1>0, <2>1 DEF TreeInv, Present
  <2>3. \A n \in Names : InPublic(n) => onDisk'[r][n] = {file'[r][n] # "none"}
    <3> DEFINE N == {n \in Names : InPublic(n)}
    <3>1. Sync(r, N)
      BY <1>10 DEF SyncPublic
    <3>2. \A n \in Names : onDisk'[r][n] = IF n \in N THEN {file[r][n] # "none"} ELSE onDisk[r][n]
      <4> HIDE DEF N
      <4> QED
        BY <1>0, <3>1, SyncEffect
    <3> QED
      BY <2>1, <3>2
  <2> QED
    BY <1>0, <2>1, <2>2, <2>3 DEF TreeInv
<1>11. CASE SyncTop(r)
  <2>1. pc[r] = "synctop" /\ pc'[r] = "publish" /\ place'[r] = "staging" /\ file' = file
    BY <1>0, <1>11, GotoEffect DEF SyncTop, spot, PlaceInv
  <2>2. Present(r) = Expected /\ \A n \in Names : file[r][n] \in {"none", "synced"}
    BY <1>0, <2>1 DEF TreeInv
  <2>3. Present(r)' = Expected
    BY <2>1, <2>2 DEF Present
  <2>4. RawDir \in Names /\ file[r][RawDir] = "none"
    BY <2>2, ExpectedNames DEF Present, Names
  <2>5. \A n \in Names : onDisk'[r][n] = {file[r][n] # "none"}
    <3>1. Sync(r, TopNames(r))
      BY <1>11 DEF SyncTop
    <3>2. \A n \in Names : onDisk'[r][n] = IF n \in TopNames(r) THEN {file[r][n] # "none"}
                                                               ELSE onDisk[r][n]
      BY <1>0, <3>1, SyncEffect
    <3>3. \A n \in Names : n \in TopNames(r) \/ InPublic(n)
      BY <2>4 DEF TopNames, AtTop
    <3> QED
      BY <1>0, <2>1, <3>2, <3>3 DEF TreeInv
  <2>6. Settled(r)'
    BY <2>1, <2>2, <2>5 DEF Settled, Present
  <2> QED
    BY <2>1, <2>2, <2>3, <2>6 DEF TreeInv
<1>12. CASE Publish(r)
  <2>1. pc[r] = "publish" /\ pc'[r] \in {"renamed", "handle"} /\ file' = file /\ onDisk' = onDisk
    BY <1>0, <1>12, GotoEffect DEF Publish, tree
  <2> QED
    BY <1>0, <2>1 DEF TreeInv, Settled
<1>13. CASE MarkPublished(r) \/ Acknowledge(r) \/ Handle(r) \/ UndoStaging(r) \/ CleanStaging(r) \/ SyncClean(r)
  <2>1. /\ pc'[r] \in {"syncparent", "done", "failed", "cleanup", "syncclean"}
        /\ file' = file /\ onDisk' = onDisk
    BY <1>0, <1>13, GotoEffect
       DEF MarkPublished, Acknowledge, Handle, UndoStaging, CleanStaging, RemoveStaging, SyncClean, tree
  <2>2. place'[r] = "dest" => place[r] = "dest"
    BY <1>0, <1>13, MoveToEffect
       DEF MarkPublished, Acknowledge, Handle, UndoStaging, CleanStaging, RemoveStaging, SyncClean, spot
  <2> QED
    BY <1>0, <2>1, <2>2 DEF TreeInv, Settled
<1> QED
  BY <1>1, <1>2, <1>3, <1>4, <1>5, <1>6, <1>7, <1>8, <1>9, <1>10, <1>11, <1>12, <1>13 DEF Step

\* A step of one run keeps the inductive invariant.
LEMMA InvStep == ASSUME IInv, NEW r \in Runs, Step(r) PROVE IInv'
<1>1. TypeOK'
  BY TypeStep DEF IInv, PlaceInvAll
<1>2. \A s \in Runs : PlaceInv(s)' /\ TreeInv(s)'
  BY StepTouchesOwn, StepPlace, StepTree
<1>3. OneAuthority'
  <2>1. \A s \in Runs \ {r} : place'[s] = place[s]
    <3>1. UNCHANGED spot \/ (\E p : MoveTo(r, p)) \/ UNCHANGED place
      BY DEF Step, AnswerPrompt, CheckAgain, MakeStaging, MakeSubdirectory, OpenWorkspace, EnterContext, Reserve,
             WriteContent, VerifyOutput, RemoveRawKey, RemoveRawDirectory, SyncRawRemoval,
             Validate, SyncPublic, SyncTop, Publish, MarkPublished, Acknowledge, UndoEntry,
             UndoStaging, Handle, CleanEntry, CleanStaging, RemoveStaging, SyncClean
    <3> QED
      BY <3>1, MoveToEffect DEF spot, IInv, PlaceInvAll
  <2>2. CASE place'[r] = "dest" => place[r] = "dest"
    BY <1>2, <2>1, <2>2, OneAuthorityKept
  <2>3. CASE \A s \in Runs : place[s] # "dest"
    BY <1>2, <2>1, <2>3 DEF OneAuthority, PlaceInv
  <2> QED
    BY <2>2, <2>3, StepPlace
<1> QED
  BY <1>1, <1>2, <1>3 DEF IInv, PlaceInvAll

\* A change of pc alone keeps the invariant when the run goes to its handler or ends.
LEMMA InvStop ==
    ASSUME IInv, TypeOK', NEW r \in Runs, NEW step, Goto(r, step),
           UNCHANGED <<job, tree, spot>>,
           \/ step \in {"refused", "declined", "prompt"} /\ pc[r] = "idle"
           \/ step = "undo" /\ pc[r] \in {"subdirs", "open"}
           \/ step = "handle" /\ pc[r] \in Working \ {"prompt", "create", "mkdir"}
           \/ step \in {"failed", "stuck", "dead"}
    PROVE  IInv'
<1>0. TypeOK /\ \A s \in Runs : PlaceInv(s) /\ TreeInv(s)
  BY DEF IInv, PlaceInvAll
<1>1. pc'[r] = step /\ \A s \in Runs \ {r} : pc'[s] = pc[s]
  BY <1>0, GotoEffect
<1>2. \A s \in Runs \ {r} : PlaceInv(s)' /\ TreeInv(s)'
  BY <1>1, Untouched DEF tree, spot
<1>3. PlaceInv(r)'
  BY <1>0, <1>1 DEF PlaceInv, NoDirectory, InStaging, spot, Working, TypeOK
<1>4. TreeInv(r)'
  BY <1>0, <1>1 DEF TreeInv, NoDirectory, InStaging, spot, tree, Settled
<1>5. OneAuthority'
  BY DEF OneAuthority, spot, IInv, PlaceInvAll
<1> QED
  BY <1>2, <1>3, <1>4, <1>5 DEF IInv, PlaceInvAll

\* Clearing an abandoned staging directory keeps the inductive invariant.
LEMMA InvOperatorClears == ASSUME IInv, TypeOK', NEW r \in Runs, OperatorClears(r) PROVE IInv'
<1>0. TypeOK /\ \A s \in Runs : PlaceInv(s) /\ TreeInv(s)
  BY DEF IInv, PlaceInvAll
<1>1. /\ pc' = pc /\ job' = job /\ place[r] = "staging" /\ pc[r] \in Ended
      /\ place'[r] = "none" /\ placeOnDisk'[r] = placeOnDisk[r] \cup {"none"}
      /\ \A s \in Runs \ {r} : place'[s] = place[s] /\ placeOnDisk'[s] = placeOnDisk[s]
  BY <1>0, MoveToEffect DEF OperatorClears
<1>2. \A s \in Runs \ {r} : file'[s] = file[s] /\ onDisk'[s] = onDisk[s]
  BY <1>0 DEF OperatorClears, TypeOK
<1>3. \A s \in Runs \ {r} : PlaceInv(s)' /\ TreeInv(s)'
  BY <1>1, <1>2, Untouched
<1>4. PlaceInv(r)'
  BY <1>0, <1>1 DEF PlaceInv, NoDirectory, InStaging, Ended
<1>5. TreeInv(r)'
  <2>1. \A n \in Names : file'[r][n] = "none"
    BY <1>0 DEF OperatorClears, TypeOK
  <2>2. pc[r] \in {"failed", "stuck", "dead"}
    BY <1>0, <1>1 DEF PlaceInv, NoDirectory, Ended
  <2> QED
    BY <1>1, <2>1, <2>2 DEF TreeInv, NoDirectory, InStaging
<1>6. OneAuthority'
  BY <1>1, <1>3, <1>4, OneAuthorityKept
<1> QED
  BY <1>3, <1>4, <1>5, <1>6 DEF IInv, PlaceInvAll

\* What is settled survives a power loss as it is.
LEMMA SettledSurvives ==
    ASSUME NEW r \in Runs, Settled(r), NEW n \in Names
    PROVE  AfterLoss(r, n) = file[r][n]
<1>1. CASE n \in Expected
  <2>1. PublicDir \in Names
    BY DEF Names
  <2>2. Holder(n) \subseteq Expected \cap Names
    BY <1>1, <2>1, ExpectedNames DEF Holder
  <2>3. \A m \in {n} \cup Holder(n) : onDisk[r][m] = {TRUE}
    BY <1>1, <2>2 DEF Settled
  <2>4. file[r][n] = "synced"
    BY <1>1 DEF Settled
  <2> QED
    BY <2>3, <2>4 DEF AfterLoss
<1>2. CASE n \notin Expected
  BY <1>2 DEF Settled, AfterLoss
<1> QED
  BY <1>1, <1>2

\* A power loss keeps the inductive invariant.
LEMMA InvPowerLoss == ASSUME IInv, TypeOK', PowerLoss PROVE IInv'
<1>0. TypeOK /\ \A s \in Runs : PlaceInv(s) /\ TreeInv(s)
  BY DEF IInv, PlaceInvAll
<1>1. PICK left \in [Runs -> Places] :
         /\ \A r \in Runs : left[r] \in placeOnDisk[r]
         /\ place' = left
         /\ placeOnDisk' = [r \in Runs |-> {left[r]}]
         /\ file' = [r \in Runs |-> [n \in Names |->
                       IF left[r] = "none" THEN "none" ELSE AfterLoss(r, n)]]
  BY DEF PowerLoss
<1>2. ASSUME NEW r \in Runs
      PROVE  /\ place'[r] \in placeOnDisk[r] /\ placeOnDisk'[r] = {place'[r]}
             /\ place'[r] = "dest" => place[r] = "dest"
             /\ pc'[r] = pc[r] \/ pc'[r] = "dead"
             /\ pc'[r] \in {"idle"} \cup Ended /\ onDisk' = onDisk
  BY <1>0, <1>1 DEF PowerLoss, PlaceInv, TypeOK, Ended
<1>3. ASSUME NEW r \in Runs PROVE PlaceInv(r)'
  <2>1. pc'[r] \in NoDirectory => place'[r] = "none" /\ placeOnDisk'[r] = {"none"}
    BY <1>0, <1>2 DEF PlaceInv, NoDirectory
  <2> QED
    BY <1>0, <1>2, <2>1 DEF PlaceInv, NoDirectory, InStaging, Ended
<1>4. ASSUME NEW r \in Runs PROVE TreeInv(r)'
  <2>1. place'[r] = "dest" => Settled(r)'
    <3>1. SUFFICES ASSUME place'[r] = "dest" PROVE Settled(r)'
      OBVIOUS
    <3>2. Settled(r)
      BY <1>0, <1>2, <3>1 DEF TreeInv
    <3>3. \A n \in Names : file'[r][n] = file[r][n]
      BY <1>1, <3>1, <3>2, SettledSurvives
    <3> QED
      BY <1>2, <3>2, <3>3 DEF Settled
  <2>2. pc'[r] \in NoDirectory => \A n \in Names : file'[r][n] = "none"
    <3>1. SUFFICES ASSUME pc'[r] \in NoDirectory PROVE place'[r] = "none"
      BY <1>1
    <3> QED
      BY <1>3, <3>1 DEF PlaceInv
  <2> QED
    BY <1>2, <2>1, <2>2 DEF TreeInv, InStaging, Ended
<1>5. OneAuthority'
  BY <1>2, <1>3, OneAuthorityKept
<1> QED
  BY <1>3, <1>4, <1>5 DEF IInv, PlaceInvAll

\* Every step of the system keeps the inductive invariant.
LEMMA InvNext == IInv /\ [Next]_vars => IInv'
<1> SUFFICES ASSUME IInv, [Next]_vars PROVE IInv'
  OBVIOUS
<1>0. TypeOK /\ TypeOK'
  BY TypeNext DEF IInv, PlaceInvAll
<1>1. ASSUME NEW r \in Runs, Begin(r) PROVE IInv'
  <2>1. \E step \in {"refused", "declined", "prompt"} : Goto(r, step)
    BY <1>1 DEF Begin
  <2> QED
    BY <1>0, <1>1, <2>1, InvStop DEF Begin, tree, spot
<1>2. ASSUME NEW r \in Runs, Step(r) PROVE IInv'
  BY <1>2, InvStep
<1>3. ASSUME NEW r \in Runs, Interrupt(r) PROVE IInv'
  <2> DEFINE step == AfterInterrupt[pc[r]]
  <2>1. \/ step = "undo" /\ pc[r] \in {"subdirs", "open"}
        \/ step = "handle" /\ pc[r] \in Working \ {"prompt", "create", "mkdir"}
        \/ step \in {"failed", "stuck"}
    BY <1>3 DEF Interrupt, AfterInterrupt, Live, Handling
  <2>2. Goto(r, step) /\ UNCHANGED <<job, tree, spot>>
    BY <1>3 DEF Interrupt
  <2> HIDE DEF step
  <2> QED
    BY <1>0, <2>1, <2>2, InvStop
<1>4. ASSUME NEW r \in Runs, Crash(r) PROVE IInv'
  BY <1>0, <1>4, InvStop DEF Crash, tree, spot
<1>5. ASSUME NEW r \in Runs, OperatorClears(r) PROVE IInv'
  BY <1>0, <1>5, InvOperatorClears
<1>6. CASE PowerLoss
  BY <1>0, <1>6, InvPowerLoss
<1>7. CASE UNCHANGED vars
  <2>1. TypeOK' /\ OneAuthority'
    BY <1>0, <1>7 DEF IInv, vars, TypeOK, OneAuthority
  <2>2. PlaceInvAll'
    BY <1>0, <1>7 DEF IInv, PlaceInvAll, vars, PlaceInv, Settled
  <2>3. \A r \in Runs : TreeInv(r)'
    <3>1. SUFFICES ASSUME NEW r \in Runs PROVE TreeInv(r)'
      OBVIOUS
    <3>2. TreeInv(r) /\ UNCHANGED <<pc, job, file, onDisk, place>>
      BY <1>0, <1>7 DEF IInv, vars
    <3>3. UNCHANGED <<Target(r), Present(r)>>
      BY <3>2 DEF Target, Present
    <3> QED
      BY <3>2, <3>3 DEF TreeInv, WholeBut, Settled
  <2> QED
    BY <2>1, <2>2, <2>3 DEF IInv
<1> QED
  BY <1>1, <1>2, <1>3, <1>4, <1>5, <1>6, <1>7 DEF Next, Finished

\* The inductive invariant holds in every reachable state.
LEMMA Invariance == Spec => []IInv
BY InvInit, InvNext, PTL DEF Spec

-----------------------------------------------------------------------------
(* What the invariant is for.                                              *)

\* Whatever is visible at the destination is a whole keyset without a raw key.
THEOREM CompleteWhenPublished == Spec => []PublishedComplete
<1>1. IInv => PublishedComplete
  BY DEF IInv, PlaceInvAll, TreeInv, Settled, PublishedComplete
<1> QED
  BY <1>1, Invariance, PTL

\* Two runs never both have the destination, not even after a power loss.
THEOREM AtMostOneAuthority == Spec => []OneAuthority
<1>1. IInv => OneAuthority
  BY DEF IInv, PlaceInvAll
<1> QED
  BY <1>1, Invariance, PTL

\* A keyset whose run reported success survives a power loss whole.
THEOREM DurableWhenAcknowledged == Spec => []AcknowledgedIsDurable
<1>1. IInv => AcknowledgedIsDurable
  <2> SUFFICES ASSUME IInv, NEW r \in Runs, pc[r] = "done"
               PROVE  /\ place[r] = "dest" /\ placeOnDisk[r] = {"dest"}
                      /\ \A n \in Expected : file[r][n] = "synced" /\ onDisk[r][n] = {TRUE}
    BY DEF AcknowledgedIsDurable
  <2>1. place[r] = "dest" /\ placeOnDisk[r] = {"dest"}
    BY DEF IInv, PlaceInvAll, PlaceInv
  <2>2. Settled(r)
    BY <2>1 DEF IInv, PlaceInvAll, TreeInv
  <2> QED
    BY <2>1, <2>2, ExpectedAreMade DEF Settled
<1> QED
  BY <1>1, Invariance, PTL

\* No step of any run replaces, removes or changes a published keyset, and
\* a power loss does not once the parent directory was fsynced.
THEOREM PublishedKeysetStays == Spec => PublishedStays
<1>1. IInv /\ [Next]_vars =>
        [\A r \in Runs : (place[r] = "dest" /\ (~PowerLoss \/ placeOnDisk[r] = {"dest"})) =>
            place'[r] = "dest" /\ file'[r] = file[r]]_vars
  <2> SUFFICES ASSUME IInv, Next, NEW r \in Runs, place[r] = "dest",
                      ~PowerLoss \/ placeOnDisk[r] = {"dest"}
               PROVE  place'[r] = "dest" /\ file'[r] = file[r]
    BY DEF vars
  <2>0. TypeOK /\ \A s \in Runs : PlaceInv(s) /\ TreeInv(s)
    BY DEF IInv, PlaceInvAll
  <2>1. pc[r] \notin InStaging /\ pc[r] \notin NoDirectory /\ pc[r] # "syncclean"
    BY <2>0 DEF PlaceInv
  <2>2. ASSUME NEW q \in Runs, Begin(q) \/ Interrupt(q) \/ Crash(q)
        PROVE  place'[r] = "dest" /\ file'[r] = file[r]
    BY <2>2 DEF Begin, Interrupt, Crash, tree, spot
  <2>3. ASSUME NEW q \in Runs, OperatorClears(q) PROVE place'[r] = "dest" /\ file'[r] = file[r]
    <3>1. q # r
      BY <2>3 DEF OperatorClears
    <3> QED
      BY <2>0, <2>3, <3>1, MoveToEffect DEF OperatorClears, TypeOK
  <2>4. ASSUME NEW q \in Runs, Step(q) PROVE place'[r] = "dest" /\ file'[r] = file[r]
    <3>1. CASE q = r
      <4>1. MarkPublished(r) \/ Acknowledge(r) \/ Handle(r)
        BY <2>1, <2>4, <3>1
           DEF Step, AnswerPrompt, CheckAgain, MakeStaging, MakeSubdirectory, OpenWorkspace, EnterContext, Reserve,
               WriteContent, VerifyOutput, RemoveRawKey, RemoveRawDirectory, SyncRawRemoval,
               Validate, SyncPublic, SyncTop, Publish, UndoEntry, UndoStaging, CleanEntry,
               CleanStaging, RemoveStaging, SyncClean, InStaging, NoDirectory
      <4> QED
        BY <4>1 DEF MarkPublished, Acknowledge, Handle, tree, spot
    <3>2. CASE q # r
      BY <2>0, <2>4, <3>2, StepTouchesOnly
    <3> QED
      BY <3>1, <3>2
  <2>5. CASE PowerLoss
    <3>1. place'[r] = "dest"
      BY <2>5 DEF PowerLoss
    <3>2. Settled(r)
      BY <2>0 DEF TreeInv
    <3>3. \A n \in Names : file'[r][n] = file[r][n]
      BY <2>5, <3>1, <3>2, SettledSurvives DEF PowerLoss
    <3>4. file'[r] = [n \in Names |-> file'[r][n]] /\ file[r] = [n \in Names |-> file[r][n]]
      BY <2>0, <2>5 DEF PowerLoss, TypeOK
    <3> QED
      BY <3>1, <3>3, <3>4
  <2>6. CASE Finished
    BY <2>6 DEF Finished, vars
  <2> QED
    BY <2>2, <2>3, <2>4, <2>5, <2>6 DEF Next
<1> QED
  BY <1>1, Invariance, PTL DEF Spec, PublishedStays

-----------------------------------------------------------------------------
(* The generator implements WriteOncePublication.                          *)

\* The slot of the abstraction is the run whose directory is the destination.
LEMMA SlotIs ==
    ASSUME IInv, NEW r \in Runs, place[r] = "dest"
    PROVE  slot = r
<1>1. \A s \in Runs : place[s] = "dest" => s = r
  BY DEF OneAuthority, IInv, PlaceInvAll, PlaceInv
<1> QED
  BY <1>1 DEF slot

\* The same in the next state.
LEMMA SlotIsNext ==
    ASSUME IInv', NEW r \in Runs, place'[r] = "dest"
    PROVE  slot' = r
<1>1. \A s \in Runs : place'[s] = "dest" => s = r
  BY DEF OneAuthority, IInv, PlaceInvAll, PlaceInv
<1> QED
  BY <1>1 DEF slot

\* The slot is kept while no directory gets or loses the destination's name.
LEMMA SlotKept ==
    ASSUME IInv, IInv', \A s \in Runs : place'[s] = "dest" <=> place[s] = "dest"
    PROVE  slot' = slot
<1>1. CASE \E r \in Runs : place[r] = "dest"
  BY <1>1, SlotIs, SlotIsNext
<1>2. CASE \A r \in Runs : place[r] # "dest"
  BY <1>2 DEF slot
<1> QED
  BY <1>1, <1>2

\* The acknowledged runs are kept while no run becomes done or stops being it.
LEMMA AcknowledgedKept ==
    ASSUME \A s \in Runs : pc'[s] = "done" <=> pc[s] = "done"
    PROVE  acknowledged' = acknowledged
BY DEF acknowledged

\* The initial states map to initial states of the abstraction.
LEMMA RefinedInit == Init => Publication!Init
<1> SUFFICES ASSUME Init PROVE slot = NoRun /\ acknowledged = {}
  BY DEF Publication!Init
<1> QED
  BY DEF Init, slot, acknowledged

\* A step of run r publishes, acknowledges, or does nothing the abstraction sees.
LEMMA RefinedStep ==
    ASSUME IInv, IInv', NEW r \in Runs, Step(r)
    PROVE  \/ Publication!Publish(r)
           \/ Publication!Acknowledge(r)
           \/ UNCHANGED <<slot, acknowledged>>
<1>0. TypeOK /\ \A s \in Runs : PlaceInv(s)
  BY DEF IInv, PlaceInvAll
<1>1. \A s \in Runs \ {r} : pc'[s] = pc[s] /\ place'[s] = place[s]
  BY <1>0, StepTouchesOnly
<1>2. CASE Publish(r)
  <2>1. pc'[r] # "done" /\ pc[r] # "done"
    BY <1>0, <1>2, GotoEffect DEF Publish
  <2>2. UNCHANGED acknowledged
    BY <1>1, <2>1, AcknowledgedKept
  <2>3. CASE \A s \in Runs : place[s] # "dest"
    <3>1. place'[r] = "dest"
      BY <1>0, <1>2, <2>3, MoveToEffect DEF Publish
    <3>2. slot = NoRun /\ slot' = r
      BY <2>3, <3>1, SlotIsNext DEF slot
    <3> QED
      BY <2>2, <3>2 DEF Publication!Publish
  <2>4. CASE \E s \in Runs : place[s] = "dest"
    BY <1>2, <2>2, <2>4, SlotKept DEF Publish, spot
  <2> QED
    BY <2>3, <2>4
<1>3. CASE Acknowledge(r)
  <2>1. pc[r] = "syncparent" /\ pc'[r] = "done" /\ place' = place /\ place[r] = "dest"
    BY <1>0, <1>3, GotoEffect DEF Acknowledge, PlaceInv
  <2>2. slot = r /\ slot' = r
    BY <2>1, SlotIs, SlotIsNext
  <2>3. acknowledged' = acknowledged \cup {r}
    BY <1>1, <2>1 DEF acknowledged
  <2> QED
    BY <2>2, <2>3 DEF Publication!Acknowledge
<1>4. CASE ~Publish(r) /\ ~Acknowledge(r)
  <2>1. pc'[r] # "done" /\ pc[r] # "done"
    BY <1>0, <1>4, GotoEffect
       DEF Step, AnswerPrompt, CheckAgain, MakeStaging, MakeSubdirectory, OpenWorkspace, EnterContext, Reserve,
           WriteContent, VerifyOutput, Advance, RemoveRawKey, RemoveRawDirectory, SyncRawRemoval,
           Validate, SyncPublic, SyncTop, MarkPublished, UndoEntry, UndoStaging, Handle,
           CleanEntry, CleanStaging, RemoveStaging, SyncClean
  <2>2. UNCHANGED spot \/ UNCHANGED place \/ ((\E p \in {"none", "staging"} : MoveTo(r, p)) /\ place[r] # "dest")
    BY <1>0, <1>4
       DEF Step, AnswerPrompt, CheckAgain, MakeStaging, MakeSubdirectory, OpenWorkspace, EnterContext, Reserve,
           WriteContent, VerifyOutput, RemoveRawKey, RemoveRawDirectory, SyncRawRemoval,
           Validate, SyncPublic, SyncTop, MarkPublished, UndoEntry, UndoStaging, Handle,
           CleanEntry, CleanStaging, RemoveStaging, SyncClean, PlaceInv, NoDirectory, InStaging
  <2>3. place'[r] = "dest" <=> place[r] = "dest"
    BY <1>0, <2>2, MoveToEffect DEF spot
  <2> QED
    BY <1>1, <2>1, <2>3, SlotKept, AcknowledgedKept
<1> QED
  BY <1>2, <1>3, <1>4

\* Every step maps to a step of the abstraction or a stutter.
LEMMA RefinedNext ==
    IInv /\ IInv' /\ [Next]_vars => [Publication!Next]_<<slot, acknowledged>>
<1> SUFFICES ASSUME IInv, IInv', [Next]_vars
             PROVE  Publication!Next \/ UNCHANGED <<slot, acknowledged>>
  OBVIOUS
<1>0. TypeOK /\ \A s \in Runs : PlaceInv(s)
  BY DEF IInv, PlaceInvAll
<1>1. ASSUME NEW r \in Runs, NEW step, step # "done", pc[r] # "done", Goto(r, step), UNCHANGED place
      PROVE  UNCHANGED <<slot, acknowledged>>
  BY <1>0, <1>1, GotoEffect, SlotKept, AcknowledgedKept
<1>2. ASSUME NEW r \in Runs, Begin(r) PROVE UNCHANGED <<slot, acknowledged>>
  BY <1>1, <1>2 DEF Begin, spot
<1>3. ASSUME NEW r \in Runs, Step(r) PROVE Publication!Next \/ UNCHANGED <<slot, acknowledged>>
  BY <1>3, RefinedStep DEF Publication!Next
<1>4. ASSUME NEW r \in Runs, Interrupt(r) PROVE UNCHANGED <<slot, acknowledged>>
  <2>1. AfterInterrupt[pc[r]] # "done" /\ pc[r] # "done"
    BY <1>4 DEF Interrupt, AfterInterrupt, Live, Working, Handling
  <2> QED
    BY <1>1, <1>4, <2>1 DEF Interrupt, spot
<1>5. ASSUME NEW r \in Runs, Crash(r) PROVE UNCHANGED <<slot, acknowledged>>
  BY <1>1, <1>5 DEF Crash, spot, Live, Working, Handling
<1>6. ASSUME NEW r \in Runs, OperatorClears(r) PROVE UNCHANGED <<slot, acknowledged>>
  BY <1>0, <1>6, MoveToEffect, SlotKept, AcknowledgedKept DEF OperatorClears
<1>7. CASE PowerLoss
  <2>1. \A s \in Runs : pc'[s] = "done" <=> pc[s] = "done"
    BY <1>0, <1>7 DEF PowerLoss, Live, Working, Handling, TypeOK
  <2>2. \A s \in Runs : place'[s] \in placeOnDisk[s]
    BY <1>7 DEF PowerLoss
  <2>3. \A s \in Runs : place'[s] = "dest" => place[s] = "dest"
    BY <1>0, <2>2 DEF PlaceInv
  <2>4. CASE \A s \in Runs : place[s] = "dest" => place'[s] = "dest"
    BY <2>1, <2>3, <2>4, SlotKept, AcknowledgedKept
  <2>5. CASE \E s \in Runs : place[s] = "dest" /\ place'[s] # "dest"
    <3>1. PICK s \in Runs : place[s] = "dest" /\ place'[s] # "dest"
      BY <2>5
    <3>2. \A q \in Runs : place[q] = "dest" => q = s
      BY <1>0, <3>1 DEF IInv, OneAuthority, PlaceInv
    <3>3. \A q \in Runs : place'[q] # "dest"
      BY <2>3, <3>1, <3>2
    <3>4. slot' = NoRun
      BY <3>3 DEF slot
    <3>5. \A q \in Runs : pc[q] # "done"
      BY <1>0, <2>2, <3>1, <3>2 DEF PlaceInv
    <3>6. acknowledged = {} /\ acknowledged' = acknowledged
      BY <2>1, <3>5, AcknowledgedKept DEF acknowledged
    <3> QED
      BY <3>4, <3>6 DEF Publication!Next, Publication!Lose
  <2> QED
    BY <2>4, <2>5
<1>8. CASE UNCHANGED vars
  BY <1>8, SlotKept, AcknowledgedKept DEF vars
<1> QED
  BY <1>2, <1>3, <1>4, <1>5, <1>6, <1>7, <1>8 DEF Next, Finished

\* The generator's destination is a write-once publication.
THEOREM ImplementsPublication == Spec => PublicationSpec
BY Invariance, RefinedInit, RefinedNext, PTL DEF Spec, PublicationSpec, Publication!Spec

-----------------------------------------------------------------------------
(* Two runs never refuse each other.                                       *)

\* Why another run may be refused on account of s.
Cause(s) == place[s] # "none" \/ pc[s] \in {"syncclean", "failed", "stuck", "dead"}

\* What caused a refusal is still there, or has ended badly, after any step.
LEMMA CausePersists ==
    ASSUME IInv, Next, NEW s \in Runs, Cause(s)
    PROVE  Cause(s)'
<1>0. TypeOK /\ PlaceInv(s)
  BY DEF IInv, PlaceInvAll
<1>1. ASSUME NEW q \in Runs, Begin(q) \/ Interrupt(q) \/ Crash(q) PROVE Cause(s)'
  <2>1. place'[s] = place[s]
    BY <1>1 DEF Begin, Interrupt, Crash, spot
  <2>2. \E step : Goto(q, step) /\ (pc[q] = "syncclean" => step \in {"stuck", "dead"})
    BY <1>1 DEF Begin, Interrupt, Crash, AfterInterrupt, Live, Handling
  <2>3. pc[q] \notin {"failed", "stuck", "dead"}
    BY <1>1 DEF Begin, Interrupt, Crash, Live, Working, Handling
  <2> QED
    BY <1>0, <2>1, <2>2, <2>3, GotoEffect DEF Cause
<1>2. ASSUME NEW q \in Runs, Step(q) PROVE Cause(s)'
  <2>1. CASE q # s
    BY <1>0, <1>2, <2>1, StepTouchesOnly DEF Cause
  <2>2. CASE q = s /\ (UndoStaging(s) \/ CleanStaging(s) \/ SyncClean(s))
    BY <1>0, <2>2, GotoEffect DEF Cause, UndoStaging, CleanStaging, RemoveStaging, SyncClean
  <2>3. CASE q = s /\ ~UndoStaging(s) /\ ~CleanStaging(s) /\ ~SyncClean(s)
    <3>1. place[s] # "none"
      BY <1>2, <2>3
         DEF Cause, Step, AnswerPrompt, CheckAgain, MakeStaging, MakeSubdirectory, OpenWorkspace, EnterContext,
             Reserve, WriteContent, VerifyOutput, RemoveRawKey, RemoveRawDirectory, SyncRawRemoval,
             Validate, SyncPublic, SyncTop, Publish, MarkPublished, Acknowledge, UndoEntry,
             Handle, CleanEntry
    <3>2. UNCHANGED spot \/ UNCHANGED place \/ MoveTo(s, "staging") \/ MoveTo(s, "dest")
      BY <1>2, <2>3
         DEF Step, AnswerPrompt, CheckAgain, MakeStaging, MakeSubdirectory, OpenWorkspace, EnterContext,
             Reserve, WriteContent, VerifyOutput, RemoveRawKey, RemoveRawDirectory, SyncRawRemoval,
             Validate, SyncPublic, SyncTop, Publish, MarkPublished, Acknowledge, UndoEntry,
             Handle, CleanEntry
    <3> QED
      BY <1>0, <3>1, <3>2, MoveToEffect DEF Cause, spot
  <2> QED
    BY <2>1, <2>2, <2>3
<1>3. ASSUME NEW q \in Runs, OperatorClears(q) PROVE Cause(s)'
  <2>1. CASE q # s
    BY <1>0, <1>3, <2>1, MoveToEffect DEF Cause, OperatorClears
  <2>2. CASE q = s
    BY <1>0, <1>3, <2>2 DEF Cause, OperatorClears, PlaceInv, NoDirectory, Ended
  <2> QED
    BY <2>1, <2>2
<1>4. CASE PowerLoss
  <2>1. pc'[s] = IF pc[s] \in Live THEN "dead" ELSE pc[s]
    BY <1>4 DEF PowerLoss
  <2>2. CASE pc[s] \in Live \cup {"failed", "stuck", "dead"}
    BY <2>1, <2>2 DEF Cause
  <2>3. CASE pc[s] \notin Live \cup {"failed", "stuck", "dead"}
    <3>1. pc[s] = "done"
      BY <1>0, <2>3 DEF Cause, PlaceInv, NoDirectory, TypeOK, Ended, Live, Handling
    <3>2. place'[s] \in placeOnDisk[s]
      BY <1>4 DEF PowerLoss
    <3> QED
      BY <1>0, <3>1, <3>2 DEF Cause, PlaceInv
  <2> QED
    BY <2>2, <2>3
<1>5. CASE Finished
  BY <1>5 DEF Finished, vars, Cause
<1> QED
  BY <1>1, <1>2, <1>3, <1>4, <1>5 DEF Next

\* Every step keeps a cause for every refusal.
LEMMA RefusalStep == IInv /\ RefusalHasCause /\ [Next]_vars => RefusalHasCause'
<1> SUFFICES ASSUME IInv, RefusalHasCause, Next, NEW r \in Runs, pc'[r] = "refused"
             PROVE  \E s \in Runs \ {r} : Cause(s)'
  <2>1. IInv /\ RefusalHasCause /\ UNCHANGED vars => RefusalHasCause'
    BY DEF RefusalHasCause, vars
  <2> QED
    BY <2>1 DEF RefusalHasCause, Cause
<1>0. TypeOK /\ PlaceInv(r)
  BY DEF IInv, PlaceInvAll
<1>1. CASE pc[r] = "refused"
  BY <1>1, CausePersists DEF RefusalHasCause, Cause
<1>2. CASE pc[r] # "refused"
  <2>1. Begin(r) \/ CheckAgain(r)
    <3>1. ASSUME NEW q \in Runs, q # r, Begin(q) \/ Step(q) \/ Interrupt(q) \/ Crash(q)
          PROVE  FALSE
      BY <1>0, <1>2, <3>1, StepTouchesOnly, GotoEffect DEF Begin, Interrupt, Crash
    <3>2. ~Interrupt(r) /\ ~Crash(r)
      BY <1>0, GotoEffect DEF Interrupt, Crash, AfterInterrupt
    <3>3. Step(r) => CheckAgain(r)
      BY <1>0, <1>2, GotoEffect
         DEF Step, AnswerPrompt, MakeStaging, MakeSubdirectory, OpenWorkspace, EnterContext,
             Reserve, WriteContent, VerifyOutput, Advance, RemoveRawKey, RemoveRawDirectory,
             SyncRawRemoval, Validate, SyncPublic, SyncTop, Publish, MarkPublished, Acknowledge,
             UndoEntry, UndoStaging, Handle, CleanEntry, CleanStaging, RemoveStaging, SyncClean
    <3>4. ~PowerLoss
      BY <1>2 DEF PowerLoss
    <3> QED
      BY <1>2, <3>1, <3>2, <3>3, <3>4 DEF Next, OperatorClears, Finished, vars
  <2>2. pc[r] \in NoDirectory /\ Occupied /\ UNCHANGED spot
    BY <1>0, <2>1, GotoEffect DEF Begin, CheckAgain, NoDirectory
  <2>3. PICK s \in Runs : place[s] # "none"
    BY <2>2 DEF Occupied
  <2>4. s # r
    BY <1>0, <2>2, <2>3 DEF PlaceInv
  <2> QED
    BY <2>2, <2>3, <2>4 DEF Cause, spot
<1> QED
  BY <1>1, <1>2

\* A refusal always has a cause other than the refused run itself.
THEOREM RefusalsHaveACause == Spec => []RefusalHasCause
<1>1. Init => RefusalHasCause
  BY DEF Init, RefusalHasCause
<1> QED
  BY <1>1, Invariance, RefusalStep, PTL DEF Spec

-----------------------------------------------------------------------------
(* What a run that ended by itself leaves.                                 *)

\* A run that is under way and says it has published has the destination; one
\* whose handler has run left nothing staged and no raw key.
RawGone(r) == \A n \in Names : InRaw(n) => file[r][n] \in {"none", "unsure"}

EndInv(r) ==
    /\ pc[r] \in {"idle"} \cup Live /\ published[r] => place[r] = "dest"
    /\ pc[r] = "failed" /\ "power" \notin Faults => place[r] # "staging"
    /\ pc[r] \in {"failed", "syncclean"} => RawGone(r)

\* Only MarkPublished and Handle set the flag, and only the run's own.
LEMMA FlagEffect ==
    ASSUME TypeOK, NEW r \in Runs, Step(r)
    PROVE  /\ \A s \in Runs \ {r} : published'[s] = published[s]
           /\ MarkPublished(r) \/ Handle(r) \/ UNCHANGED published
  BY DEF TypeOK, Step, AnswerPrompt, CheckAgain, MakeStaging, MakeSubdirectory, OpenWorkspace, EnterContext, Reserve,
         WriteContent, VerifyOutput, RemoveRawKey, RemoveRawDirectory, SyncRawRemoval,
         Validate, SyncPublic, SyncTop, Publish, MarkPublished, Acknowledge, UndoEntry,
         UndoStaging, Handle, CleanEntry, CleanStaging, RemoveStaging, SyncClean

\* The loops of the two handlers end with an empty directory: whatever is
\* left in it can be removed, or holds something that can.
LEMMA RemovableUntilEmpty ==
    ASSUME NEW r \in Runs, Removable(r) = {}
    PROVE  Present(r) = {}
  <1> SUFFICES ASSUME NEW n \in Present(r) PROVE FALSE
    OBVIOUS
  <1>1. CASE n # RawDir /\ n # PublicDir
    BY <1>1 DEF Removable
  <1>2. CASE n = RawDir \/ n = PublicDir
    <2>1. PICK m \in Present(r) : InRaw(m) \/ InPublic(m)
      BY <1>2 DEF Removable
    <2>2. m # RawDir /\ m # PublicDir
      BY <2>1 DEF InRaw, InPublic, RawDir, PublicDir
    <2> QED
      BY <2>1, <2>2 DEF Removable
  <1> QED
    BY <1>1, <1>2

\* A run that has nothing, and one that has published, have no raw key.
LEMMA NoRawKey ==
    ASSUME IInv, NEW r \in Runs, pc[r] \in NoDirectory \/ place[r] = "dest" \/ Present(r) = {}
    PROVE  RawGone(r)
  <1>1. TreeInv(r)
    BY DEF IInv
  <1>2. CASE pc[r] \in NoDirectory
    BY <1>1, <1>2 DEF TreeInv, RawGone
  <1>3. CASE place[r] = "dest"
    BY <1>1, <1>3, ExpectedNames DEF TreeInv, Settled, RawGone
  <1>4. CASE Present(r) = {}
    BY <1>4 DEF Present, RawGone
  <1> QED
    BY <1>2, <1>3, <1>4

\* A run's own steps keep its part.
LEMMA EndStep ==
    ASSUME IInv, NEW r \in Runs, EndInv(r), Step(r)
    PROVE  EndInv(r)'
  <1>0. TypeOK /\ PlaceInv(r)
    BY DEF IInv, PlaceInvAll
  <1>1. CASE MarkPublished(r)
    BY <1>0, <1>1, GotoEffect DEF MarkPublished, PlaceInv, EndInv, spot
  <1>2. CASE Handle(r)
    <2>1. pc[r] = "handle" /\ UNCHANGED <<file, place>>
      BY <1>2 DEF Handle, tree, spot
    <2>2. CASE published[r] \/ place[r] = "dest"
      <3>1. place[r] = "dest" /\ pc'[r] = "failed"
        BY <1>0, <1>2, <2>1, <2>2, GotoEffect DEF Handle, EndInv, Live, Handling
      <3>2. RawGone(r)
        BY <3>1, NoRawKey
      <3> QED
        BY <2>1, <3>1, <3>2 DEF EndInv, RawGone, Live, Working, Handling
    <2>3. CASE ~published[r] /\ place[r] # "dest"
      <3>1. pc'[r] = "cleanup" /\ UNCHANGED published
        BY <1>0, <1>2, <2>3, GotoEffect DEF Handle
      <3> QED
        BY <2>1, <2>3, <3>1 DEF EndInv
    <2> QED
      BY <2>2, <2>3
  <1>3. CASE UndoStaging(r) \/ CleanStaging(r)
    <2>1. /\ pc[r] \in {"undo", "cleanup"} /\ Present(r) = {} /\ UNCHANGED <<file, published>>
          /\ pc'[r] \in {"failed", "syncclean"} /\ place'[r] = "none"
      BY <1>0, <1>3, GotoEffect, MoveToEffect, RemovableUntilEmpty DEF UndoStaging, CleanStaging, RemoveStaging, tree
    <2>2. RawGone(r) /\ ~published[r]
      BY <1>0, <2>1, NoRawKey DEF EndInv, Live, Handling, PlaceInv, InStaging, TypeOK
    <2> QED
      BY <2>1, <2>2 DEF EndInv, RawGone
  <1>4. CASE SyncClean(r)
    <2>1. pc[r] = "syncclean" /\ pc'[r] = "failed" /\ UNCHANGED <<file, place, published>>
      BY <1>0, <1>4, GotoEffect DEF SyncClean, tree
    <2> QED
      BY <1>0, <2>1 DEF EndInv, RawGone, PlaceInv, Live, Working, Handling
  <1>5. CASE ~(MarkPublished(r) \/ Handle(r) \/ UndoStaging(r) \/ CleanStaging(r) \/ SyncClean(r))
    <2>1. UNCHANGED published
      BY <1>0, <1>5, FlagEffect
    <2>2. pc[r] \in Live /\ pc'[r] \notin {"failed", "syncclean"}
      BY <1>0, <1>5, GotoEffect
         DEF Step, AnswerPrompt, CheckAgain, MakeStaging, MakeSubdirectory, OpenWorkspace, EnterContext, Reserve,
             WriteContent, VerifyOutput, Advance, RemoveRawKey, RemoveRawDirectory, SyncRawRemoval,
             Validate, SyncPublic, SyncTop, Publish, Acknowledge, UndoEntry, CleanEntry,
             Live, Working, Handling
    <2>3. UNCHANGED place \/ place'[r] = "dest" \/ (pc[r] = "mkdir" /\ place[r] # "dest")
      BY <1>0, <1>5, MoveToEffect
         DEF Step, AnswerPrompt, CheckAgain, MakeStaging, MakeSubdirectory, OpenWorkspace, EnterContext, Reserve,
             WriteContent, VerifyOutput, RemoveRawKey, RemoveRawDirectory, SyncRawRemoval,
             Validate, SyncPublic, SyncTop, Publish, Acknowledge, UndoEntry, CleanEntry, spot, PlaceInv, NoDirectory
    <2> QED
      BY <2>1, <2>2, <2>3 DEF EndInv
  <1> QED
    BY <1>1, <1>2, <1>3, <1>4, <1>5

\* Every step keeps what is said of every run.
LEMMA EndNext ==
    ASSUME IInv, \A r \in Runs : EndInv(r), [Next]_vars
    PROVE  \A r \in Runs : EndInv(r)'
  <1> SUFFICES ASSUME NEW r \in Runs PROVE EndInv(r)'
    OBVIOUS
  <1>0. TypeOK /\ PlaceInv(r) /\ EndInv(r)
    BY DEF IInv, PlaceInvAll
  <1>1. ASSUME pc'[r] = pc[r], file'[r] = file[r], place'[r] = place[r], published'[r] = published[r] PROVE EndInv(r)'
    BY <1>0, <1>1 DEF EndInv, RawGone
  <1>2. ASSUME NEW q \in Runs, Begin(q) \/ Interrupt(q) \/ Crash(q) PROVE EndInv(r)'
    <2>1. UNCHANGED <<file, place, published>>
      BY <1>2 DEF Begin, Interrupt, Crash, tree, spot
    <2>2. CASE q # r
      BY <1>0, <1>1, <1>2, <2>1, <2>2, GotoEffect DEF Begin, Interrupt, Crash
    <2>3. CASE q = r /\ Begin(r)
      <3>1. pc[r] = "idle" /\ pc'[r] \in {"prompt", "declined", "refused"}
        BY <1>0, <2>3, GotoEffect DEF Begin
      <3> QED
        BY <1>0, <2>1, <3>1 DEF EndInv
    <2>4. CASE q = r /\ Crash(r)
      <3>1. pc'[r] = "dead"
        BY <1>0, <2>4, GotoEffect DEF Crash
      <3> QED
        BY <3>1 DEF EndInv, Live, Working, Handling
    <2>5. CASE q = r /\ Interrupt(r)
      <3>1. pc[r] \in Live /\ pc'[r] = AfterInterrupt[pc[r]]
        BY <1>0, <2>5, GotoEffect DEF Interrupt
      <3>2. \/ pc[r] \in {"prompt", "create", "mkdir"} /\ pc'[r] = "failed"
            \/ pc'[r] \in {"undo", "stuck", "handle"}
        BY <3>1 DEF AfterInterrupt
      <3>3. CASE pc[r] \in {"prompt", "create", "mkdir"} /\ pc'[r] = "failed"
        <4>1. RawGone(r) /\ place[r] = "none"
          BY <1>0, <3>3, NoRawKey DEF PlaceInv, NoDirectory
        <4> QED
          BY <2>1, <3>3, <4>1 DEF EndInv, RawGone, Live, Working, Handling
      <3>4. CASE pc'[r] \in {"undo", "stuck", "handle"}
        BY <1>0, <2>1, <3>1, <3>4 DEF EndInv
      <3> QED
        BY <3>2, <3>3, <3>4
    <2> QED
      BY <1>2, <2>2, <2>3, <2>4, <2>5
  <1>3. ASSUME NEW q \in Runs, Step(q) PROVE EndInv(r)'
    <2>1. CASE q = r
      BY <1>0, <1>3, <2>1, EndStep
    <2>2. CASE q # r
      BY <1>0, <1>1, <1>3, <2>2, StepTouchesOnly, FlagEffect
    <2> QED
      BY <2>1, <2>2
  <1>4. ASSUME NEW q \in Runs, OperatorClears(q) PROVE EndInv(r)'
    <2>1. UNCHANGED <<pc, published>> /\ pc[q] \in Ended /\ MoveTo(q, "none")
          /\ file' = [file EXCEPT ![q] = [n \in Names |-> "none"]]
      BY <1>4 DEF OperatorClears
    <2>2. CASE q # r
      <3>1. file'[r] = file[r] /\ place'[r] = place[r]
        BY <1>0, <2>1, <2>2, MoveToEffect DEF TypeOK
      <3> QED
        BY <1>1, <2>1, <3>1
    <2>3. CASE q = r
      <3>1. RawGone(r)'
        BY <1>0, <2>1, <2>3 DEF TypeOK, RawGone
      <3>2. place'[r] = "none"
        BY <1>0, <2>1, <2>3, MoveToEffect
      <3> QED
        BY <2>1, <2>3, <3>1, <3>2 DEF EndInv, Live, Working, Handling, Ended
    <2> QED
      BY <2>2, <2>3
  <1>5. CASE PowerLoss
    <2>1. /\ "power" \in Faults /\ UNCHANGED published
          /\ pc'[r] = IF pc[r] \in Live THEN "dead" ELSE pc[r]
      BY <1>5 DEF PowerLoss
    <2>2. "dead" \notin {"idle"} \cup Live
      BY DEF Live, Working, Handling
    <2>3. pc[r] = "idle" => ~published[r]
      BY <1>0 DEF EndInv, PlaceInv, NoDirectory
    <2>4. pc'[r] \in {"failed", "syncclean"} => pc[r] = "failed"
      BY <2>1 DEF Live, Handling
    <2>5. RawGone(r) => RawGone(r)'
      <3>1. PICK left \in [Runs -> Places] :
                file' = [s \in Runs |-> [n \in Names |-> IF left[s] = "none" THEN "none" ELSE AfterLoss(s, n)]]
        BY <1>5 DEF PowerLoss
      <3>2. \A n \in Names : file[r][n] \in {"none", "unsure"} => AfterLoss(r, n) \in {"none", "unsure"}
        BY DEF AfterLoss
      <3>3. \A n \in Names : file'[r][n] = IF left[r] = "none" THEN "none" ELSE AfterLoss(r, n)
        BY <3>1
      <3> QED
        BY <3>2, <3>3 DEF RawGone
    <2> QED
      BY <1>0, <2>1, <2>2, <2>3, <2>4, <2>5 DEF EndInv
  <1>6. CASE UNCHANGED vars
    BY <1>1, <1>6 DEF vars
  <1> QED
    BY <1>2, <1>3, <1>4, <1>5, <1>6 DEF Next, Finished

\* What is said of ended runs holds in every reachable state.
LEMMA EndInvariance == Spec => [](\A r \in Runs : EndInv(r))
  <1>1. Init => \A r \in Runs : EndInv(r)
    BY DEF Init, EndInv
  <1>2. IInv /\ (\A r \in Runs : EndInv(r)) /\ [Next]_vars => (\A r \in Runs : EndInv(r))'
    BY EndNext
  <1> QED
    BY <1>1, <1>2, Invariance, PTL DEF Spec

\* A run that ended by itself, its handler run to the end, leaves no staging
\* directory unless a power loss brings it back, and no raw key even then.
THEOREM EndedRunsLeaveNothing == Spec => []EndedRunLeavesNothing
  <1>1. IInv /\ (\A r \in Runs : EndInv(r)) => EndedRunLeavesNothing
    <2> SUFFICES ASSUME IInv, NEW r \in Runs, EndInv(r), pc[r] \in {"done", "declined", "refused", "failed"}
                 PROVE  ("power" \notin Faults => place[r] # "staging") /\ RawGone(r)
      BY DEF EndedRunLeavesNothing, RawGone
    <2>1. PlaceInv(r)
      BY DEF IInv, PlaceInvAll
    <2>2. CASE pc[r] \in {"declined", "refused"}
      BY <2>1, <2>2, NoRawKey DEF PlaceInv, NoDirectory
    <2>3. CASE pc[r] = "done"
      BY <2>1, <2>3, NoRawKey DEF PlaceInv
    <2>4. CASE pc[r] = "failed"
      BY <2>4 DEF EndInv
    <2> QED
      BY <2>2, <2>3, <2>4
  <1> QED
    BY <1>1, Invariance, EndInvariance, PTL

-----------------------------------------------------------------------------
(* A run that is under way only goes forward.                              *)

\* The order of the steps, one by one.
LEMMA RankValues ==
    /\ Rank["prompt"] = 1 /\ Rank["create"] = 2 /\ Rank["mkdir"] = 3 /\ Rank["subdirs"] = 4 /\ Rank["open"] = 5
    /\ Rank["enter"] = 6 /\ Rank["unraw"] = 7 /\ Rank["syncraw"] = 8 /\ Rank["reserve"] = 9 /\ Rank["command"] = 10
    /\ Rank["verify"] = 11 /\ Rank["validate"] = 12 /\ Rank["syncpublic"] = 13 /\ Rank["synctop"] = 14
    /\ Rank["publish"] = 15 /\ Rank["renamed"] = 16 /\ Rank["syncparent"] = 17 /\ Rank["undo"] = 18
    /\ Rank["handle"] = 19 /\ Rank["cleanup"] = 20 /\ Rank["syncclean"] = 21
    /\ \A step \in Ended : Rank[step] = 22
  BY DEF Rank, Ended

\* Whatever ends a run comes after every step of it.
LEMMA EndIsLast == \A step \in Live, last \in Ended : Rank[last] > Rank[step]
  BY RankValues DEF Live, Working, Handling

\* The steps before the first output lead forward.
LEMMA EntryForward ==
    ASSUME TypeOK, NEW r \in Runs,
           \/ AnswerPrompt(r) \/ CheckAgain(r) \/ MakeStaging(r) \/ MakeSubdirectory(r)
           \/ OpenWorkspace(r) \/ EnterContext(r)
    PROVE  Forward(r)
  <1>1. CASE AnswerPrompt(r) \/ CheckAgain(r)
    <2>1. /\ job' = job
          /\ \/ pc[r] = "prompt" /\ pc'[r] \in {"create", "declined"}
             \/ pc[r] = "create" /\ pc'[r] \in {"refused", "mkdir"}
      BY <1>1, GotoEffect DEF AnswerPrompt, CheckAgain
    <2> QED
      BY <2>1, RankValues DEF Forward, Ended
  <1>2. CASE MakeStaging(r) \/ OpenWorkspace(r) \/ EnterContext(r)
    <2>1. /\ job' = job
          /\ \/ pc[r] = "mkdir" /\ pc'[r] = "subdirs"
             \/ pc[r] = "open" /\ pc'[r] = "enter"
             \/ pc[r] = "enter" /\ pc'[r] = "reserve"
      BY <1>2, GotoEffect DEF MakeStaging, OpenWorkspace, EnterContext
    <2> QED
      BY <2>1, RankValues DEF Forward
  <1>3. CASE MakeSubdirectory(r) /\ file[r][RawDir] = "none"
    <2>1. pc[r] = "subdirs" /\ pc' = pc /\ job' = job /\ Create(r, RawDir, "synced")
      BY <1>3 DEF MakeSubdirectory
    <2>2. \A m \in Names : file'[r][m] = IF m = RawDir THEN "synced" ELSE file[r][m]
      BY <2>1, EntryEffect
    <2>3. RawDir \in Present(r)' /\ RawDir \notin Present(r) /\ Present(r) \subseteq Present(r)'
      BY <1>3, <2>2 DEF Present, Names
    <2> QED
      BY <2>1, <2>3 DEF Forward
  <1>4. CASE MakeSubdirectory(r) /\ file[r][RawDir] # "none"
    <2>1. job' = job /\ pc[r] = "subdirs" /\ pc'[r] = "open"
      BY <1>4, GotoEffect DEF MakeSubdirectory
    <2> QED
      BY <2>1, RankValues DEF Forward
  <1> QED
    BY <1>1, <1>2, <1>3, <1>4

\* After an output come a later output or, when there is none, the steps that follow all of them.
LEMMA OutputForward ==
    ASSUME TypeOK, NEW r \in Runs,
           Reserve(r) \/ WriteContent(r) \/ VerifyOutput(r) \/ SyncRawRemoval(r)
    PROVE  Forward(r)
  <1>1. CASE Reserve(r) \/ WriteContent(r) \/ SyncRawRemoval(r)
    <2>1. /\ job' = job
          /\ \/ pc[r] = "reserve" /\ pc'[r] \in {"command", "handle"}
             \/ pc[r] = "command" /\ pc'[r] = "verify"
             \/ pc[r] = "syncraw" /\ pc'[r] = "reserve"
      BY <1>1, GotoEffect DEF Reserve, WriteContent, SyncRawRemoval
    <2> QED
      BY <2>1, RankValues DEF Forward
  <1>2. CASE VerifyOutput(r)
    <2> DEFINE i == job[r][1]
               k == job[r][2]
    <2>1. job[r] \in Jobs /\ i \in Nat /\ k \in Nat
      <3>1. job[r] \in Jobs
        BY DEF TypeOK
      <3>2. i \in 1..Meta /\ k \in 1..Len(Outputs(i))
        BY <3>1, JobParts
      <3> QED
        BY <3>1, <3>2, MetaIsLast, OutputsLength
    <2>2. \/ job' = [job EXCEPT ![r] = <<i, k + 1>>]
          \/ job' = [job EXCEPT ![r] = <<i + 1, 1>>]
          \/ job' = job /\ Goto(r, "validate")
      BY <1>2 DEF VerifyOutput, Advance
    <2>3. \/ job'[r] = <<i, k + 1>>
          \/ job'[r] = <<i + 1, 1>>
          \/ job'[r] = job[r] /\ pc'[r] = "validate"
      BY <2>2, GotoEffect DEF TypeOK
    <2>4. pc[r] = "verify"
      BY <1>2 DEF VerifyOutput
    <2> QED
      BY <2>1, <2>3, <2>4, RankValues DEF Forward, Later
  <1> QED
    BY <1>1, <1>2

\* A loop over directory entries has one entry less to remove after each round.
LEMMA RemovalForward ==
    ASSUME TypeOK, NEW r \in Runs,
           \/ RemoveRawKey(r) \/ RemoveRawDirectory(r) \/ UndoEntry(r) \/ UndoStaging(r)
           \/ CleanEntry(r) \/ CleanStaging(r)
    PROVE  Forward(r)
  <1>1. CASE RemoveRawKey(r) \/ UndoEntry(r) \/ CleanEntry(r)
    <2>1. PICK n : n \in Present(r) /\ Remove(r, n)
      BY <1>1 DEF RemoveRawKey, UndoEntry, CleanEntry, Removable
    <2>2. pc' = pc /\ job' = job /\ pc[r] # "subdirs"
      BY <1>1 DEF RemoveRawKey, UndoEntry, CleanEntry
    <2>3. \A m \in Names : file'[r][m] = IF m = n THEN "none" ELSE file[r][m]
      <3>1. file' = [file EXCEPT ![r][n] = "none"]
        BY <2>1 DEF Remove
      <3> QED
        BY <3>1 DEF TypeOK
    <2>4. n \in Present(r) /\ n \notin Present(r)' /\ Present(r)' \subseteq Present(r)
      BY <2>1, <2>3 DEF Present
    <2> QED
      BY <2>2, <2>4 DEF Forward
  <1>2. CASE RemoveRawDirectory(r) \/ UndoStaging(r) \/ CleanStaging(r)
    <2>1. /\ job' = job
          /\ \/ pc[r] = "unraw" /\ pc'[r] = "syncraw"
             \/ pc[r] = "undo" /\ pc'[r] = "failed"
             \/ pc[r] = "cleanup" /\ pc'[r] \in {"syncclean", "failed"}
      BY <1>2, GotoEffect DEF RemoveRawDirectory, UndoStaging, CleanStaging, RemoveStaging
    <2> QED
      BY <2>1, RankValues DEF Forward, Ended
  <1> QED
    BY <1>1, <1>2

\* The steps after the last output, and those of the handlers, lead forward.
LEMMA PublicationForward ==
    ASSUME TypeOK, NEW r \in Runs,
           \/ Validate(r) \/ SyncPublic(r) \/ SyncTop(r) \/ Publish(r) \/ MarkPublished(r) \/ Acknowledge(r)
           \/ Handle(r) \/ SyncClean(r)
    PROVE  Forward(r)
  <1>1. CASE Validate(r) \/ SyncPublic(r) \/ SyncTop(r)
    <2>1. /\ job' = job
          /\ \/ pc[r] = "validate" /\ pc'[r] \in {"syncpublic", "handle"}
             \/ pc[r] = "syncpublic" /\ pc'[r] = "synctop"
             \/ pc[r] = "synctop" /\ pc'[r] = "publish"
      BY <1>1, GotoEffect DEF Validate, SyncPublic, SyncTop
    <2> QED
      BY <2>1, RankValues DEF Forward
  <1>2. CASE Publish(r) \/ MarkPublished(r) \/ Acknowledge(r)
    <2>1. /\ job' = job
          /\ \/ pc[r] = "publish" /\ pc'[r] \in {"renamed", "handle"}
             \/ pc[r] = "renamed" /\ pc'[r] = "syncparent"
             \/ pc[r] = "syncparent" /\ pc'[r] = "done"
      BY <1>2, GotoEffect DEF Publish, MarkPublished, Acknowledge
    <2> QED
      BY <2>1, RankValues DEF Forward, Ended
  <1>3. CASE Handle(r) \/ SyncClean(r)
    <2>1. /\ job' = job
          /\ \/ pc[r] = "handle" /\ pc'[r] \in {"failed", "cleanup"}
             \/ pc[r] = "syncclean" /\ pc'[r] = "failed"
      BY <1>3, GotoEffect DEF Handle, SyncClean
    <2> QED
      BY <2>1, RankValues DEF Forward, Ended
  <1> QED
    BY <1>1, <1>2, <1>3

\* Every step a run takes by itself leads forward.
LEMMA StepForward == ASSUME TypeOK, NEW r \in Runs, Step(r) PROVE Forward(r)
  BY EntryForward, OutputForward, RemovalForward, PublicationForward DEF Step

\* What leads out of the steps of a run that is under way, a fault included, leads forward.
LEMMA StopForward ==
    ASSUME NEW r \in Runs, pc[r] \in Live, job' = job, pc'[r] \in Ended
    PROVE  Forward(r)
  BY EndIsLast DEF Forward

\* An exception leads to a handler, which comes after every step that has one, or ends the run.
LEMMA InterruptForward == ASSUME TypeOK, NEW r \in Runs, Interrupt(r) PROVE Forward(r)
  <1>1. job' = job /\ pc[r] \in Live /\ pc'[r] = AfterInterrupt[pc[r]]
    BY GotoEffect DEF Interrupt
  <1>2. \/ pc'[r] \in {"failed", "stuck"}
        \/ pc'[r] = "undo" /\ pc[r] \in {"subdirs", "open"}
        \/ pc'[r] = "handle" /\ pc[r] \in Working
    BY <1>1 DEF AfterInterrupt, Live
  <1>3. \A step \in Working : Rank["handle"] > Rank[step]
    BY RankValues DEF Working
  <1>4. CASE pc'[r] \in {"failed", "stuck"}
    BY <1>1, <1>4, StopForward DEF Ended
  <1>5. CASE pc'[r] \notin {"failed", "stuck"}
    BY <1>1, <1>2, <1>3, <1>5, RankValues DEF Forward
  <1> QED
    BY <1>4, <1>5

\* A run that is under way can only go a finite way: every step it takes is a later
\* output, a later step or an entry less, and no other run, fault or operator takes it back.
THEOREM StepsLeadForward == Spec => StepsGoForward
  <1>1. TypeOK /\ [Next]_vars =>
          [\A r \in Runs : pc[r] \in Live =>
             /\ Step(r) => Forward(r)
             /\ Forward(r) \/ UNCHANGED <<pc[r], job[r], Present(r)>>]_vars
    <2>1. SUFFICES ASSUME TypeOK, Next, NEW r \in Runs, pc[r] \in Live
                   PROVE  /\ Step(r) => Forward(r)
                          /\ Forward(r) \/ UNCHANGED <<pc[r], job[r], Present(r)>>
      OBVIOUS
    <2>2. Step(r) => Forward(r)
      BY <2>1, StepForward
    <2>3. ASSUME pc'[r] = pc[r], job'[r] = job[r], file'[r] = file[r]
          PROVE  UNCHANGED <<pc[r], job[r], Present(r)>>
      BY <2>3 DEF Present
    <2>4. pc[r] # "idle" /\ pc[r] \notin Ended
      BY <2>1 DEF Live, Working, Handling, Ended
    <2>5. ASSUME NEW s \in Runs, Begin(s) PROVE UNCHANGED <<pc[r], job[r], Present(r)>>
      <3>1. s # r /\ \E step : Goto(s, step)
        BY <2>4, <2>5 DEF Begin
      <3> QED
        BY <2>1, <2>3, <2>5, <3>1, GotoEffect DEF Begin, tree
    <2>6. ASSUME NEW s \in Runs, Step(s) PROVE Forward(r) \/ UNCHANGED <<pc[r], job[r], Present(r)>>
      BY <2>1, <2>2, <2>3, <2>6, StepTouchesOnly
    <2>7. ASSUME NEW s \in Runs, Interrupt(s) PROVE Forward(r) \/ UNCHANGED <<pc[r], job[r], Present(r)>>
      <3>1. CASE s = r
        BY <2>1, <2>7, <3>1, InterruptForward
      <3>2. CASE s # r
        BY <2>1, <2>3, <2>7, <3>2, GotoEffect DEF Interrupt, tree
      <3> QED
        BY <3>1, <3>2
    <2>8. ASSUME NEW s \in Runs, Crash(s) PROVE Forward(r) \/ UNCHANGED <<pc[r], job[r], Present(r)>>
      <3>1. CASE s = r
        BY <2>1, <2>8, <3>1, GotoEffect, StopForward DEF Crash, Ended
      <3>2. CASE s # r
        BY <2>1, <2>3, <2>8, <3>2, GotoEffect DEF Crash, tree
      <3> QED
        BY <3>1, <3>2
    <2>9. ASSUME NEW s \in Runs, OperatorClears(s) PROVE UNCHANGED <<pc[r], job[r], Present(r)>>
      <3>1. s # r /\ pc' = pc /\ job' = job /\ \E f : file' = [file EXCEPT ![s] = f]
        BY <2>4, <2>9 DEF OperatorClears
      <3>2. file'[r] = file[r]
        BY <2>1, <3>1 DEF TypeOK
      <3> QED
        BY <2>3, <3>1, <3>2
    <2>10. CASE PowerLoss
      <3>1. job' = job /\ pc'[r] = "dead"
        BY <2>1, <2>10 DEF PowerLoss
      <3> QED
        BY <2>1, <3>1, StopForward DEF Ended
    <2>11. CASE Finished
      BY <2>2, <2>3, <2>11 DEF Finished, vars
    <2> QED
      BY <2>1, <2>2, <2>5, <2>6, <2>7, <2>8, <2>9, <2>10, <2>11 DEF Next
  <1> QED
    BY <1>1, TypeInit, TypeNext, PTL DEF Spec, StepsGoForward
=============================================================================
