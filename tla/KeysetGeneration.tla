--------------------------- MODULE KeysetGeneration ---------------------------
(***************************************************************************)
(* The release-keyset generator, scripts/ubuntu/generate_release_keys.py.  *)
(*                                                                         *)
(* A run builds a complete keyset in a private staging directory beside    *)
(* the destination and makes it visible with one rename that refuses to    *)
(* replace.  Nothing serialises two runs, an operator may press Ctrl-C     *)
(* and the machine may lose power between any two steps, so the module     *)
(* keeps, for every run, what the file system shows and what the disk      *)
(* would still show after a power loss.                                    *)
(*                                                                         *)
(* The directory a run creates is named by the run itself: "the            *)
(* destination is run r's" stands for the device and inode comparison the  *)
(* code makes with staging_identity.                                       *)
(***************************************************************************)
EXTENDS Naturals, Sequences

CONSTANTS
    Runs,     \* invocations of the generator for one destination
    Plan,     \* the class of each role of the KeyPlan, in the order generated
    Faults,   \* the fault kinds the environment may inject
    Overlap,  \* whether one run may begin while another is still going
    NoRun     \* stands for "no run" in the abstraction

FaultKinds == {"interrupt", "crash", "power"}

\* build_key_plan always puts releasekey in the plan.
ASSUME PlanAssumption == Plan \in Seq({"android", "apex", "avb"}) /\ Plan # <<>>
ASSUME FaultsAssumption == Faults \subseteq FaultKinds
ASSUME OverlapAssumption == Overlap \in BOOLEAN
ASSUME NoRunAssumption == NoRun \notin Runs

-----------------------------------------------------------------------------
(* The names a run may create.  A file is <<role, kind>>, the role being   *)
(* its position in Plan; Meta stands for the two files about the keyset as *)
(* a whole, 0 for the two subdirectories.                                  *)

Meta == Len(Plan) + 1

\* What _generate_all creates for a role of each class, in that order.
OutputsOf == [android |-> <<"raw", "x509", "pk8">>,
              apex    |-> <<"raw", "pub", "x509", "pk8", "pem">>,
              avb     |-> <<"raw", "pub", "pem">>]

Outputs(i) == IF i \in DOMAIN Plan THEN OutputsOf[Plan[i]]
                                   ELSE <<"passwords", "keyset">>

RawDir    == <<0, "rawdir">>
PublicDir == <<0, "public">>
Files     == UNION {{<<i, Outputs(i)[k]>> : k \in DOMAIN Outputs(i)} : i \in 1..Meta}
Names     == Files \cup {RawDir, PublicDir}
Jobs      == UNION {{i} \X DOMAIN Outputs(i) : i \in 1..Meta}

\* The kinds computed from a role's raw key.
Derived == {"x509", "pk8", "pub", "pem"}

InRaw(n)    == n[2] = "raw"
InPublic(n) == n[2] = "pub"
AtTop(n)    == ~InRaw(n) /\ ~InPublic(n)

\* What _expected_files lists for a role of each class.
ExpectedOf == [android |-> {"pk8", "x509"},
               apex    |-> {"pem", "pk8", "x509", "pub"},
               avb     |-> {"pem", "pub"}]

Expected == {PublicDir, <<Meta, "passwords">>, <<Meta, "keyset">>}
              \cup UNION {{i} \X ExpectedOf[Plan[i]] : i \in DOMAIN Plan}

-----------------------------------------------------------------------------
VARIABLES
    pc,           \* the step each run is at
    job,          \* <<i, k>>: the run is making the k-th output of role i
    file,         \* what each name of the run's directory holds
    onDisk,       \* whether each name may be there (TRUE), or not (FALSE), after a power loss
    place,        \* where the run's directory is: "none", "staging" or "dest"
    placeOnDisk,  \* the places a power loss may leave it at
    published     \* workspace.published

vars == <<pc, job, file, onDisk, place, placeOnDisk, published>>

\* "unsure": a power loss left the entry missing, back again, or with part of its data.
FileStates == {"none", "empty", "written", "synced", "unsure"}
Places     == {"none", "staging", "dest"}

Working  == {"prompt", "create", "mkdir", "subdirs", "open", "enter", "reserve", "command", "verify",
             "unraw", "syncraw", "validate", "syncpublic", "synctop", "publish", "renamed",
             "syncparent"}
Handling == {"undo", "handle", "cleanup", "syncclean"}
Ended    == {"done", "declined", "refused", "failed", "stuck", "dead"}
Live     == Working \cup Handling

TypeOK == /\ pc \in [Runs -> {"idle"} \cup Live \cup Ended]
          /\ job \in [Runs -> Jobs]
          /\ file \in [Runs -> [Names -> FileStates]]
          /\ onDisk \in [Runs -> [Names -> SUBSET BOOLEAN]]
          /\ place \in [Runs -> Places]
          /\ placeOnDisk \in [Runs -> SUBSET Places]
          /\ published \in [Runs -> BOOLEAN]

Init == /\ pc = [r \in Runs |-> "idle"]
        /\ job = [r \in Runs |-> <<1, 1>>]
        /\ file = [r \in Runs |-> [n \in Names |-> "none"]]
        /\ onDisk = [r \in Runs |-> [n \in Names |-> {FALSE}]]
        /\ place = [r \in Runs |-> "none"]
        /\ placeOnDisk = [r \in Runs |-> {"none"}]
        /\ published = [r \in Runs |-> FALSE]

-----------------------------------------------------------------------------
(* Helpers on a run's directory.                                           *)

Present(r) == {n \in Names : file[r][n] # "none"}
Target(r)  == <<job[r][1], Outputs(job[r][1])[job[r][2]]>>

\* A staging directory of any run, or the destination, is in the way.
Occupied == \E s \in Runs : place[s] # "none"

Goto(r, step) == pc' = [pc EXCEPT ![r] = step]

\* A directory entry is created or removed; until its directory is fsynced
\* the disk may still hold the old state.
Create(r, n, content) ==
    /\ file' = [file EXCEPT ![r][n] = content]
    /\ onDisk' = [onDisk EXCEPT ![r][n] = @ \cup {TRUE}]
Remove(r, n) ==
    /\ file' = [file EXCEPT ![r][n] = "none"]
    /\ onDisk' = [onDisk EXCEPT ![r][n] = @ \cup {FALSE}]
MoveTo(r, p) ==
    /\ place' = [place EXCEPT ![r] = p]
    /\ placeOnDisk' = [placeOnDisk EXCEPT ![r] = @ \cup {p}]

\* os.fsync of the directory that holds the names in N.
Sync(r, N) == onDisk' = [onDisk EXCEPT ![r] =
                           [n \in Names |-> IF n \in N THEN {file[r][n] # "none"} ELSE @[n]]]

\* fsync of the staging directory: what it held under a removed .raw is gone with it.
TopNames(r) == {n \in Names : AtTop(n) \/ (InRaw(n) /\ file[r][RawDir] = "none")}

\* fsync of the parent settles where every run's directory is.
SyncParent == placeOnDisk' = [s \in Runs |-> {place[s]}]

\* os.unlink and os.rmdir as _remove_tree_contents orders them: a
\* directory goes after what it holds, anything else in scan order.  When
\* nothing of the kind is left, the loops are over.
Removable(r) == {n \in Present(r) : /\ n = RawDir => \A m \in Present(r) : ~InRaw(m)
                                    /\ n = PublicDir => \A m \in Present(r) : ~InPublic(m)}

tree == <<file, onDisk>>
spot == <<place, placeOnDisk>>

-----------------------------------------------------------------------------
(* A run that meets no fault, in the order of generate_keyset.             *)

\* Checked before the operator is asked for a passphrase; a dry run ends here.
Begin(r) ==
    /\ pc[r] = "idle"
    /\ Overlap \/ \A s \in Runs : pc[s] \notin Live
    /\ IF Occupied THEN Goto(r, "refused")
                   ELSE Goto(r, "prompt") \/ Goto(r, "declined")
    /\ UNCHANGED <<job, tree, spot, published>>

\* The passphrase and its confirmation match, or the run stops.
AnswerPrompt(r) ==
    /\ pc[r] = "prompt"
    /\ Goto(r, "create") \/ Goto(r, "declined")
    /\ UNCHANGED <<job, tree, spot, published>>

\* A faulty variant: a run gives way to any run that is under way.
CheckNobodyRuns(r) ==
    /\ pc[r] = "create"
    /\ Goto(r, IF Occupied \/ \E s \in Runs \ {r} : pc[s] \in Live THEN "refused" ELSE "mkdir")
    /\ UNCHANGED <<job, tree, spot, published>>

\* The same check once more, through the parent's descriptor.
CheckAgain(r) ==
    /\ pc[r] = "create"
    /\ Goto(r, IF Occupied THEN "refused" ELSE "mkdir")
    /\ UNCHANGED <<job, tree, spot, published>>

MakeStaging(r) ==
    /\ pc[r] = "mkdir"
    /\ MoveTo(r, "staging")
    /\ Goto(r, "subdirs")
    /\ UNCHANGED <<job, tree, published>>

MakeSubdirectory(r) ==
    /\ pc[r] = "subdirs"
    /\ IF file[r][RawDir] = "none"
         THEN Create(r, RawDir, "synced") /\ UNCHANGED pc
         ELSE Create(r, PublicDir, "synced") /\ Goto(r, "open")
    /\ UNCHANGED <<job, spot, published>>

\* Both subdirectories are opened and checked, still inside _create_workspace.
OpenWorkspace(r) ==
    /\ pc[r] = "open"
    /\ Goto(r, "enter")
    /\ UNCHANGED <<job, tree, spot, published>>

\* _create_workspace has returned; from here on an exception reaches the
\* handler of _workspace_context.
EnterContext(r) ==
    /\ pc[r] = "enter"
    /\ Goto(r, "reserve")
    /\ UNCHANGED <<job, tree, spot, published>>

\* _reserve_file: O_CREAT | O_EXCL.  What is derived needs the raw key it is derived from.
Reserve(r) ==
    /\ pc[r] = "reserve"
    /\ IF /\ file[r][Target(r)] = "none"
          /\ Target(r)[2] \in Derived => file[r][<<job[r][1], "raw">>] # "none"
         THEN Create(r, Target(r), "empty") /\ Goto(r, "command")
         ELSE Goto(r, "handle") /\ UNCHANGED tree
    /\ UNCHANGED <<job, spot, published>>

\* openssl, avbtool or the run itself writes the content.
WriteContent(r) ==
    /\ pc[r] = "command"
    /\ file' = [file EXCEPT ![r][Target(r)] = "written"]
    /\ Goto(r, "verify")
    /\ UNCHANGED <<job, onDisk, spot, published>>

\* A faulty variant: the next output is taken whether the role has one or not.
AdvanceTooFar(r) ==
    /\ job' = [job EXCEPT ![r] = <<job[r][1], job[r][2] + 1>>]
    /\ Goto(r, "reserve")

\* The next output of the role, the next role, or what follows the last one.
Advance(r) ==
    LET i == job[r][1]
        k == job[r][2]
    IN  \/ /\ k < Len(Outputs(i))
           /\ job' = [job EXCEPT ![r] = <<i, k + 1>>]
           /\ Goto(r, "reserve")
        \/ /\ k = Len(Outputs(i)) /\ i < Meta
           /\ job' = [job EXCEPT ![r] = <<i + 1, 1>>]
           /\ Goto(r, IF i = Len(Plan) THEN "unraw" ELSE "reserve")
        \/ /\ k = Len(Outputs(i)) /\ i = Meta
           /\ Goto(r, "validate")
           /\ UNCHANGED job

\* _verify_reserved_file: the output is the reserved file, and its data is fsynced.
VerifyOutput(r) ==
    /\ pc[r] = "verify"
    /\ file[r][Target(r)] = "written"
    /\ file' = [file EXCEPT ![r][Target(r)] = "synced"]
    /\ Advance(r)
    /\ UNCHANGED <<onDisk, spot, published>>

RemoveRawKey(r) ==
    /\ pc[r] = "unraw"
    /\ \E n \in Present(r) : InRaw(n) /\ Remove(r, n)
    /\ UNCHANGED <<pc, job, spot, published>>

RemoveRawDirectory(r) ==
    /\ pc[r] = "unraw"
    /\ RawDir \in Removable(r)
    /\ Remove(r, RawDir)
    /\ Goto(r, "syncraw")
    /\ UNCHANGED <<job, spot, published>>

SyncRawRemoval(r) ==
    /\ pc[r] = "syncraw"
    /\ Sync(r, TopNames(r))
    /\ Goto(r, "reserve")
    /\ UNCHANGED <<job, file, spot, published>>

\* The staging directory holds what is expected and nothing else.
Validate(r) ==
    /\ pc[r] = "validate"
    /\ Goto(r, IF Present(r) = Expected THEN "syncpublic" ELSE "handle")
    /\ UNCHANGED <<job, tree, spot, published>>

SyncPublic(r) ==
    /\ pc[r] = "syncpublic"
    /\ Sync(r, {n \in Names : InPublic(n)})
    /\ Goto(r, "synctop")
    /\ UNCHANGED <<job, file, spot, published>>

\* A faulty variant: the staging directory itself is not fsynced.
SkipSyncTop(r) ==
    /\ pc[r] = "synctop"
    /\ Goto(r, "publish")
    /\ UNCHANGED <<job, tree, spot, published>>

SyncTop(r) ==
    /\ pc[r] = "synctop"
    /\ Sync(r, TopNames(r))
    /\ Goto(r, "publish")
    /\ UNCHANGED <<job, file, spot, published>>

\* A faulty variant: the rename replaces what has the destination's name.
PublishReplacing(r) ==
    /\ pc[r] = "publish"
    /\ place[r] = "staging"
    /\ place' = [s \in Runs |-> IF s = r THEN "dest"
                                ELSE IF place[s] = "dest" THEN "none" ELSE place[s]]
    /\ placeOnDisk' = [s \in Runs |-> placeOnDisk[s] \cup {place'[s]}]
    /\ Goto(r, "renamed")
    /\ UNCHANGED <<job, tree, published>>

\* A faulty variant: a rename that was refused is tried again.
PublishAgain(r) ==
    /\ pc[r] = "publish"
    /\ place[r] = "staging"
    /\ IF \A s \in Runs : place[s] # "dest"
         THEN MoveTo(r, "dest") /\ Goto(r, "renamed")
         ELSE Goto(r, "synctop") /\ UNCHANGED spot
    /\ UNCHANGED <<job, tree, published>>

\* renameat2 with RENAME_NOREPLACE: EEXIST is an exception like any other.
Publish(r) ==
    /\ pc[r] = "publish"
    /\ place[r] = "staging"
    /\ IF \A s \in Runs : place[s] # "dest"
         THEN MoveTo(r, "dest") /\ Goto(r, "renamed")
         ELSE Goto(r, "handle") /\ UNCHANGED spot
    /\ UNCHANGED <<job, tree, published>>

MarkPublished(r) ==
    /\ pc[r] = "renamed"
    /\ published' = [published EXCEPT ![r] = TRUE]
    /\ Goto(r, "syncparent")
    /\ UNCHANGED <<job, tree, spot>>

\* A faulty variant: success is reported before the parent is fsynced.
AcknowledgeUnsynced(r) ==
    /\ pc[r] = "syncparent"
    /\ Goto(r, "done")
    /\ UNCHANGED <<job, tree, spot, published>>

\* The parent is fsynced and the run reports success.
Acknowledge(r) ==
    /\ pc[r] = "syncparent"
    /\ SyncParent
    /\ Goto(r, "done")
    /\ UNCHANGED <<job, tree, place, published>>

-----------------------------------------------------------------------------
(* The exception handlers of _create_workspace and _workspace_context.     *)

\* _create_workspace takes back what it made, and fsyncs nothing.
UndoEntry(r) ==
    /\ pc[r] = "undo"
    /\ \E n \in Removable(r) : Remove(r, n)
    /\ UNCHANGED <<pc, job, spot, published>>

\* os.rmdir of the staging directory: with an entry left in it, it raises
\* ENOTEMPTY, the handler catches that too, and the run ends.
RemoveStaging(r, following) ==
    IF Present(r) = {} THEN MoveTo(r, "none") /\ Goto(r, following)
                       ELSE UNCHANGED spot /\ Goto(r, "failed")

UndoStaging(r) ==
    /\ pc[r] = "undo"
    /\ Removable(r) = {}
    /\ RemoveStaging(r, "failed")
    /\ UNCHANGED <<job, tree, published>>

\* A faulty variant: only the flag is looked at.
HandleByFlag(r) ==
    /\ pc[r] = "handle"
    /\ Goto(r, IF published[r] THEN "failed" ELSE "cleanup")
    /\ UNCHANGED <<job, tree, spot, published>>

\* A rename that happened before the flag was set is recognised by its inode.
Handle(r) ==
    /\ pc[r] = "handle"
    /\ IF published[r] \/ place[r] = "dest"
         THEN published' = [published EXCEPT ![r] = TRUE] /\ Goto(r, "failed")
         ELSE Goto(r, "cleanup") /\ UNCHANGED published
    /\ UNCHANGED <<job, tree, spot>>

CleanEntry(r) ==
    /\ pc[r] = "cleanup"
    /\ \E n \in Removable(r) : Remove(r, n)
    /\ UNCHANGED <<pc, job, spot, published>>

CleanStaging(r) ==
    /\ pc[r] = "cleanup"
    /\ Removable(r) = {}
    /\ RemoveStaging(r, "syncclean")
    /\ UNCHANGED <<job, tree, published>>

SyncClean(r) ==
    /\ pc[r] = "syncclean"
    /\ SyncParent
    /\ Goto(r, "failed")
    /\ UNCHANGED <<job, tree, place, published>>

-----------------------------------------------------------------------------
(* Faults, and the operator who inspects an abandoned staging directory.   *)

\* A faulty variant: the try block of _create_workspace ends with the last mkdir.
AfterInterruptShortTry == [step \in Live |->
    CASE step \in {"prompt", "create", "mkdir", "open"} -> "failed"
      [] step = "subdirs"                               -> "undo"
      [] step \in {"enter"} \cup Handling               -> "stuck"
      [] OTHER                                          -> "handle"]

\* Where an exception or Ctrl-C at a step takes the run: nothing is on disk
\* yet; the creation is undone; Ctrl-C falls between the return of
\* _create_workspace and the try block of its caller; the handler runs; or
\* the handler itself is cut short.
AfterInterrupt == [step \in Live |->
    CASE step \in {"prompt", "create", "mkdir"} -> "failed"
      [] step \in {"subdirs", "open"}           -> "undo"
      [] step = "enter"                         -> "stuck"
      [] step \in Handling                      -> "stuck"
      [] OTHER                                  -> "handle"]

Interrupt(r) ==
    /\ "interrupt" \in Faults
    /\ pc[r] \in Live
    /\ Goto(r, AfterInterrupt[pc[r]])
    /\ UNCHANGED <<job, tree, spot, published>>

\* The process is killed; what it did stays in the page cache.
Crash(r) ==
    /\ "crash" \in Faults
    /\ pc[r] \in Live
    /\ Goto(r, "dead")
    /\ UNCHANGED <<job, tree, spot, published>>

\* What is left of a name: entries and data that were fsynced, and no more is certain.
Holder(n) == IF InRaw(n) THEN {RawDir} ELSE IF InPublic(n) THEN {PublicDir} ELSE {}
AfterLoss(r, n) ==
    IF \E m \in {n} \cup Holder(n) : onDisk[r][m] = {FALSE} THEN "none"
    ELSE IF /\ file[r][n] = "synced"
            /\ \A m \in {n} \cup Holder(n) : onDisk[r][m] = {TRUE} THEN "synced"
    ELSE "unsure"

PowerLoss ==
    /\ "power" \in Faults
    /\ \E left \in [Runs -> Places] :
         /\ \A r \in Runs : left[r] \in placeOnDisk[r]
         /\ place' = left
         /\ placeOnDisk' = [r \in Runs |-> {left[r]}]
         /\ file' = [r \in Runs |-> [n \in Names |->
                       IF left[r] = "none" THEN "none" ELSE AfterLoss(r, n)]]
    /\ pc' = [r \in Runs |-> IF pc[r] \in Live THEN "dead" ELSE pc[r]]
    /\ UNCHANGED <<job, onDisk, published>>

\* "abandoned key staging directory requires inspection": removed by hand.
OperatorClears(r) ==
    /\ pc[r] \in Ended
    /\ place[r] = "staging"
    /\ MoveTo(r, "none")
    /\ file' = [file EXCEPT ![r] = [n \in Names |-> "none"]]
    /\ onDisk' = [onDisk EXCEPT ![r] = [n \in Names |-> @[n] \cup {FALSE}]]
    /\ UNCHANGED <<pc, job, published>>

-----------------------------------------------------------------------------
\* What a run that has begun does by itself.
Step(r) == \/ AnswerPrompt(r) \/ CheckAgain(r) \/ MakeStaging(r) \/ MakeSubdirectory(r)
           \/ OpenWorkspace(r) \/ EnterContext(r) \/ Reserve(r) \/ WriteContent(r) \/ VerifyOutput(r)
           \/ RemoveRawKey(r) \/ RemoveRawDirectory(r) \/ SyncRawRemoval(r)
           \/ Validate(r) \/ SyncPublic(r) \/ SyncTop(r) \/ Publish(r)
           \/ MarkPublished(r) \/ Acknowledge(r)
           \/ UndoEntry(r) \/ UndoStaging(r)
           \/ Handle(r) \/ CleanEntry(r) \/ CleanStaging(r) \/ SyncClean(r)

Finished == (\A r \in Runs : pc[r] \in Ended) /\ UNCHANGED vars

Next == \/ \E r \in Runs : Begin(r) \/ Step(r) \/ Interrupt(r) \/ Crash(r) \/ OperatorClears(r)
        \/ PowerLoss
        \/ Finished

Spec == Init /\ [][Next]_vars

\* A run that has begun keeps going: nothing it does waits for another run.
FairSpec == Spec /\ \A r \in Runs : WF_vars(Step(r))

-----------------------------------------------------------------------------
(* Properties.                                                             *)

\* Whatever is visible at the destination is a whole keyset: every expected
\* file with its data on disk, and no raw key, however runs overlap and
\* wherever they are cut short (lines 215-235).
PublishedComplete ==
    \A r \in Runs : place[r] = "dest" =>
        \A n \in Names : file[r][n] = IF n \in Expected THEN "synced" ELSE "none"

\* At most one run's directory has the destination's name, now or after a
\* power loss (_rename_no_replace_at).
OneAuthority ==
    \A r, s \in Runs : (place[r] = "dest" /\ "dest" \in placeOnDisk[s]) => r = s

\* A run that reported success has put its keyset where a power loss leaves
\* it, whole (the fsyncs of lines 653, 733, 770-771 and 235).
AcknowledgedIsDurable ==
    \A r \in Runs : pc[r] = "done" =>
        /\ place[r] = "dest" /\ placeOnDisk[r] = {"dest"}
        /\ \A n \in Expected : file[r][n] = "synced" /\ onDisk[r][n] = {TRUE}

\* A published keyset is never replaced, removed or changed by a step of
\* any run, its own exception handler included; only a power loss before
\* the parent is fsynced can take it back.
PublishedStays ==
    [][\A r \in Runs : (place[r] = "dest" /\ (~PowerLoss \/ placeOnDisk[r] = {"dest"})) =>
           place'[r] = "dest" /\ file'[r] = file[r]]_vars

\* A run that ended leaves no staging directory and no raw key, wherever it
\* met an exception and whichever of the two handlers that led to, unless it
\* was killed or Ctrl-C hit a handler or the gap before the second one is in
\* force (lines 250-262, 529-557, 868-892).
EndedRunLeavesNothing ==
    \A r \in Runs : pc[r] \in {"done", "declined", "refused", "failed"} =>
        /\ "power" \notin Faults => place[r] # "staging"
        /\ \A n \in Names : InRaw(n) => file[r][n] \in {"none", "unsure"}

\* Two runs never refuse each other: a refusal means that a directory is
\* still in the way, or that the run which made it has ended badly.
RefusalHasCause ==
    \A r \in Runs : pc[r] = "refused" =>
        \E s \in Runs \ {r} : \/ place[s] # "none"
                             \/ pc[s] \in {"syncclean", "failed", "stuck", "dead"}

\* Overlapping runs do not keep each other from publishing: once a run is at
\* the check through the parent's descriptor, a keyset appears, whichever run
\* refuses whom, unless a run meets an exception (lines 856-865).
SomebodyPublishes ==
    \A r \in Runs : pc[r] = "create" ~>
        \E s \in Runs : place[s] = "dest" \/ pc[s] \in {"failed", "stuck"}

\* A later output than another, in the order they are made.
Later(new, old) == new[1] > old[1] \/ (new[1] = old[1] /\ new[2] > old[2])

\* The order of the steps for one output, and before the first and after the last.
Rank == [idle |-> 0, prompt |-> 1, create |-> 2, mkdir |-> 3, subdirs |-> 4, open |-> 5, enter |-> 6, unraw |-> 7,
         syncraw |-> 8, reserve |-> 9, command |-> 10, verify |-> 11, validate |-> 12, syncpublic |-> 13,
         synctop |-> 14, publish |-> 15, renamed |-> 16, syncparent |-> 17, undo |-> 18, handle |-> 19,
         cleanup |-> 20, syncclean |-> 21, done |-> 22, declined |-> 22, refused |-> 22, failed |-> 22,
         stuck |-> 22, dead |-> 22]

\* A later output, or a later step for the same one, or an entry less to remove or to make.
Forward(r) ==
    \/ Later(job'[r], job[r])
    \/ job'[r] = job[r] /\ Rank[pc'[r]] > Rank[pc[r]]
    \/ /\ job'[r] = job[r] /\ pc'[r] = pc[r] /\ Present(r)' # Present(r)
       /\ IF pc[r] = "subdirs" THEN Present(r) \subseteq Present(r)' ELSE Present(r)' \subseteq Present(r)

\* A run that is under way cannot go round for ever: every step it takes leads
\* forward, the loops over outputs, roles and directory entries and both handlers
\* included, and nothing anybody else does takes it back (lines 248-262, 277-294, 494-554, 923-959).
StepsGoForward ==
    [][\A r \in Runs : pc[r] \in Live =>
           /\ Step(r) => Forward(r)
           /\ Forward(r) \/ UNCHANGED <<pc[r], job[r], Present(r)>>]_vars

\* The generator implements a write-once publication: the destination holds
\* the run whose directory has its name, and success is acknowledged.
slot         == IF \E r \in Runs : place[r] = "dest"
                THEN CHOOSE r \in Runs : place[r] = "dest" ELSE NoRun
acknowledged == {r \in Runs : pc[r] = "done"}
Publication  == INSTANCE WriteOncePublication WITH Writers <- Runs, Nobody <- NoRun

\* Every behaviour of the generator is one of the write-once publication.
PublicationSpec == Publication!Spec
=============================================================================
