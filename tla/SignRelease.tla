------------------------------ MODULE SignRelease ------------------------------
(***************************************************************************)
(* The release signer, sign_release of scripts/ubuntu/sign_release.py,     *)
(* with the AVB helper its first command calls.                            *)
(*                                                                         *)
(* A run copies its inputs into a private staging directory, signs from    *)
(* the copies, checks again and again that the originals are still what    *)
(* it copied, and publishes the directory with one rename that refuses to  *)
(* replace.  The originals are files other programs may edit or replace at *)
(* any time; a run may be interrupted or killed anywhere.                  *)
(*                                                                         *)
(* A content is a generation: every change of a file gives it the next     *)
(* one, and files that belong together (an archive and its provenance, the *)
(* files of one keyset) have the same.  What a signing tool or a check of  *)
(* an archive decides is not modelled: that it refuses is an interrupt.    *)
(***************************************************************************)
EXTENDS Naturals

CONSTANTS
    Runs,          \* invocations of the signer for one output directory
    NoRun,         \* the output directory does not exist
    Containers,    \* the container key files of the plan (.pk8 and .x509.pem)
    Certificates,  \* those of them that are certificates (.x509.pem)
    LastGen,       \* bound: the last generation a file may reach
    Faults,        \* the fault kinds the environment may inject
    Overlap        \* whether one run may begin while another is still going

FaultKinds == {"interrupt", "crash", "power"}

\* The inputs beside the container keys: the build record and the archive, the
\* helper script, the keyset manifest, the AVB public key and private key.
Singles == {"provenance", "target", "helper", "manifest", "avbpub", "pem"}

ASSUME SignNoRunAssumption == NoRun \notin Runs
ASSUME SignContainersAssumption == Containers # {} /\ Containers \cap Singles = {}
ASSUME SignCertificatesAssumption == Certificates \subseteq Containers
ASSUME SignGenAssumption == LastGen \in Nat
ASSUME SignFaultsAssumption == Faults \subseteq FaultKinds
ASSUME SignOverlapAssumption == Overlap \in BOOLEAN

Inputs == Singles \cup Containers
Gens   == 0..LastGen

\* The inputs a run holds open from the moment it first reads them.
Pinned == {"provenance", "target", "helper"} \cup Containers

\* What the published directory consists of; "runtime" stands for
\* .signing-runtime with the copied keys and the passwords.
Parts   == {"signed", "ota", "img", "public", "report", "sums"}
Entries == Parts \cup {"runtime"}

VARIABLES
    gen,          \* the generation of the file at the path of each input
    pc,           \* the step each run is at
    cur,          \* the input the run is taking a snapshot of
    todo,         \* the inputs left in the loop the run is in
    pinned,       \* the generation of each input when the run opened it
    used,         \* the generation the run took from it
    signer,       \* the generation of the private key the helper signed with
    instant,      \* what the paths held when the last pin was taken (history)
    sealed,       \* whether the directory of copied keys has mode 0500
    file,         \* what each entry of the staging directory holds
    onDisk,       \* whether the entry may be there after a power loss
    place,        \* where the run's directory is: "none", "staging" or "dest"
    placeOnDisk   \* the places a power loss may leave it at

reading == <<cur, todo, pinned, used, signer, instant>>
tree    == <<file, onDisk>>
where   == <<place, placeOnDisk>>
vars    == <<gen, pc, reading, sealed, tree, where>>

\* "unsure": a power loss left the entry missing, back again, or with part of its data.
FileStates == {"none", "written", "synced", "unsure"}
Places     == {"none", "staging", "dest"}

\* A faulty variant: the helper is not compared again.
RecheckedWithoutHelper == {"target"} \cup Containers

\* The originals compared again after signing and after the export.
Rechecked == {"target", "helper"} \cup Containers

\* The points at which originals are compared again, which ones, and what follows.
Rechecks   == [sealed |-> Containers, signed |-> Rechecked, otaed |-> Containers,
               exported |-> Rechecked, unsealed |-> {"provenance"}]
FollowedBy == [sealed |-> "manifest", signed |-> "checksigned", otaed |-> "checkota",
               exported |-> "unseal", unsealed |-> "rmruntime"]

BeforeTry == {"mkdtemp", "staged"}
Snapshots == {"open", "copy", "check", "provenance", "helper", "seal"}
Signing   == {"manifest", "compare", "openpem", "exportpem", "checkpem", "helperopen",
              "helpersign", "helpercheck", "checksigned", "runota", "checkota", "runimg", "checkimg", "export", "unseal"}
Finishing == {"rmruntime", "report", "sums", "syncstaging", "publish", "renamed", "syncparent"}
Handling  == {"unwind", "cleanup"}
InTry     == Snapshots \cup Signing \cup DOMAIN Rechecks \cup Finishing
Live      == BeforeTry \cup InTry \cup Handling
Ended     == {"done", "refused", "failed", "stuck", "dead"}

TypeOK == /\ gen \in [Inputs -> Gens]
          /\ pc \in [Runs -> {"idle"} \cup Live \cup Ended]
          /\ cur \in [Runs -> Inputs]
          /\ todo \in [Runs -> SUBSET Inputs]
          /\ pinned \in [Runs -> [Inputs -> Gens]]
          /\ used \in [Runs -> [Inputs -> Gens]]
          /\ signer \in [Runs -> Gens]
          /\ instant \in [Runs -> [Inputs -> Gens]]
          /\ sealed \in [Runs -> BOOLEAN]
          /\ file \in [Runs -> [Entries -> FileStates]]
          /\ onDisk \in [Runs -> [Entries -> SUBSET BOOLEAN]]
          /\ place \in [Runs -> Places]
          /\ placeOnDisk \in [Runs -> SUBSET Places]

First == [i \in Inputs |-> 0]

Init == /\ gen = First
        /\ pc = [r \in Runs |-> "idle"]
        /\ cur = [r \in Runs |-> "provenance"]
        /\ todo = [r \in Runs |-> {}]
        /\ pinned = [r \in Runs |-> First]
        /\ used = [r \in Runs |-> First]
        /\ signer = [r \in Runs |-> 0]
        /\ instant = [r \in Runs |-> First]
        /\ sealed = [r \in Runs |-> FALSE]
        /\ file = [r \in Runs |-> [n \in Entries |-> "none"]]
        /\ onDisk = [r \in Runs |-> [n \in Entries |-> {FALSE}]]
        /\ place = [r \in Runs |-> "none"]
        /\ placeOnDisk = [r \in Runs |-> {"none"}]

-----------------------------------------------------------------------------
Goto(r, step) == pc' = [pc EXCEPT ![r] = step]

\* An exception: the context managers are left first, then the handler runs.
Raise(r) == Goto(r, IF sealed[r] THEN "unwind" ELSE "cleanup")

\* The next comparison with the originals.
Recheck(r, round) == Goto(r, round) /\ todo' = [todo EXCEPT ![r] = Rechecks[round]]

Put(r, n, content) ==
    /\ file' = [file EXCEPT ![r][n] = content]
    /\ onDisk' = [onDisk EXCEPT ![r][n] = @ \cup {content # "none"}]
MoveTo(r, p) ==
    /\ place' = [place EXCEPT ![r] = p]
    /\ placeOnDisk' = [placeOnDisk EXCEPT ![r] = @ \cup {p}]

\* os.fsync of the parent: the place of every run's directory is on disk.
SyncParent == placeOnDisk' = [s \in Runs |-> {place[s]}]

\* verify_named: neither the descriptor's file nor the one at the path changed.
Unchanged(r, i) == gen[i] = pinned[r][i]

\* A faulty variant: what another program is still writing is read early.
HeldAndNext(r, i) == pinned[r][i]..gen[i] + 1

\* What a read through the run's descriptor may return: a file that was
\* replaced keeps its content, one that was edited does not.
Held(r, i) == pinned[r][i]..gen[i]

-----------------------------------------------------------------------------
(* sign_release: staging and the snapshots.                                *)

Begin(r) ==
    /\ pc[r] = "idle"
    /\ Overlap \/ \A s \in Runs : pc[s] \notin Live
    /\ Goto(r, IF \E s \in Runs : place[s] = "dest" THEN "refused" ELSE "mkdtemp")
    /\ UNCHANGED <<gen, reading, sealed, tree, where>>

MakeStaging(r) ==
    /\ pc[r] = "mkdtemp"
    /\ MoveTo(r, "staging")
    /\ Goto(r, "staged")
    /\ UNCHANGED <<gen, reading, sealed, tree>>

\* The try block is entered and .signing-runtime is made.
MakeRuntime(r) ==
    /\ pc[r] = "staged"
    /\ Put(r, "runtime", "written")
    /\ Goto(r, "open")
    /\ UNCHANGED <<gen, reading, sealed, where>>

OpenInput(r) ==
    /\ pc[r] = "open"
    /\ pinned' = [pinned EXCEPT ![r][cur[r]] = gen[cur[r]]]
    /\ Goto(r, "copy")
    /\ UNCHANGED <<gen, cur, todo, used, signer, instant, sealed, tree, where>>

CopyInput(r) ==
    /\ pc[r] = "copy"
    /\ \E g \in Held(r, cur[r]) : used' = [used EXCEPT ![r][cur[r]] = g]
    /\ Goto(r, "check")
    /\ UNCHANGED <<gen, cur, todo, pinned, signer, instant, sealed, tree, where>>

\* After the record comes the archive; the container keys are a loop.
CheckInput(r) ==
    /\ pc[r] = "check"
    /\ \/ ~Unchanged(r, cur[r]) /\ Raise(r) /\ UNCHANGED <<cur, todo>>
       \/ /\ Unchanged(r, cur[r]) /\ cur[r] = "provenance"
          /\ cur' = [cur EXCEPT ![r] = "target"]
          /\ Goto(r, "open")
          /\ UNCHANGED todo
       \/ /\ Unchanged(r, cur[r]) /\ cur[r] = "target"
          /\ Goto(r, "provenance")
          /\ UNCHANGED <<cur, todo>>
       \/ /\ Unchanged(r, cur[r]) /\ cur[r] \in Containers
          /\ todo' = [todo EXCEPT ![r] = @ \ {cur[r]}]
          /\ \/ todo'[r] = {} /\ Goto(r, "seal") /\ UNCHANGED cur
             \/ \E i \in todo'[r] : cur' = [cur EXCEPT ![r] = i] /\ Goto(r, "open")
    /\ UNCHANGED <<gen, pinned, used, signer, instant, sealed, tree, where>>

\* validate_final_build_provenance on the two copies.
ValidateProvenance(r) ==
    /\ pc[r] = "provenance"
    /\ IF used[r]["provenance"] = used[r]["target"] THEN Goto(r, "helper") ELSE Raise(r)
    /\ UNCHANGED <<gen, reading, sealed, tree, where>>

\* _pin_executable, _validate_inputs and the start of _snapshot_container_keyset.
PinHelper(r) ==
    /\ pc[r] = "helper"
    /\ pinned' = [pinned EXCEPT ![r]["helper"] = gen["helper"]]
    /\ todo' = [todo EXCEPT ![r] = Containers]
    /\ \E i \in Containers : cur' = [cur EXCEPT ![r] = i]
    /\ Goto(r, "open")
    /\ UNCHANGED <<gen, used, signer, instant, sealed, tree, where>>

\* The directory of copied keys becomes read-only; snapshot.verify follows.
Seal(r) ==
    /\ pc[r] = "seal"
    /\ sealed' = [sealed EXCEPT ![r] = TRUE]
    /\ instant' = [instant EXCEPT ![r] = gen]
    /\ Recheck(r, "sealed")
    /\ UNCHANGED <<gen, cur, pinned, used, signer, tree, where>>

\* The originals are compared one after another; each loop has its sequel.
CompareOriginal(r) ==
    /\ pc[r] \in DOMAIN Rechecks
    /\ \E i \in todo[r] :
         /\ todo' = [todo EXCEPT ![r] = @ \ {i}]
         /\ \/ ~Unchanged(r, i) /\ Raise(r)
            \/ Unchanged(r, i) /\ todo[r] # {i} /\ UNCHANGED pc
            \/ Unchanged(r, i) /\ todo[r] = {i} /\ Goto(r, FollowedBy[pc[r]])
    /\ UNCHANGED <<gen, cur, pinned, used, signer, instant, sealed, tree, where>>

-----------------------------------------------------------------------------
(* Keys and signing commands.                                              *)

ReadManifest(r) ==
    /\ pc[r] = "manifest"
    /\ used' = [used EXCEPT ![r]["manifest"] = gen["manifest"]]
    /\ Goto(r, "compare")
    /\ UNCHANGED <<gen, cur, todo, pinned, signer, instant, sealed, tree, where>>

\* A faulty variant: only the keys that are used in place are compared.
ManifestOfPublicKeys(r) == gen["avbpub"] = used[r]["manifest"]

\* _expected_key_manifest: the copied certificates and the AVB public keys in
\* place.  The manifest names no private key, so a copied .pk8 is not compared.
ManifestMatches(r) == /\ \A i \in Certificates : used[r][i] = used[r]["manifest"]
                      /\ gen["avbpub"] = used[r]["manifest"]

CompareManifest(r) ==
    /\ pc[r] = "compare"
    /\ IF ManifestMatches(r) THEN Goto(r, "openpem") ELSE Raise(r)
    /\ UNCHANGED <<gen, reading, sealed, tree, where>>

\* export_public_key: the identity it returns is what the helper compares with.
OpenPrivateKey(r) ==
    /\ pc[r] = "openpem"
    /\ pinned' = [pinned EXCEPT ![r]["pem"] = gen["pem"]]
    /\ Goto(r, "exportpem")
    /\ UNCHANGED <<gen, cur, todo, used, signer, instant, sealed, tree, where>>

ExportPublicPem(r) ==
    /\ pc[r] = "exportpem"
    /\ \E g \in Held(r, "pem") : used' = [used EXCEPT ![r]["pem"] = g]
    /\ Goto(r, "checkpem")
    /\ UNCHANGED <<gen, cur, todo, pinned, signer, instant, sealed, tree, where>>

CheckPrivateKey(r) ==
    /\ pc[r] = "checkpem"
    /\ IF Unchanged(r, "pem") THEN Goto(r, "helperopen") ELSE Raise(r)
    /\ UNCHANGED <<gen, reading, sealed, tree, where>>

\* A faulty variant: the helper compares the key only before it signs.
TrustAfterOpen(r) ==
    /\ pc[r] = "helpercheck"
    /\ Put(r, "signed", "written")
    /\ Recheck(r, "signed")
    /\ UNCHANGED <<gen, cur, pinned, used, signer, instant, sealed, where>>

\* sign_target_files_apks runs the pinned helper, which opens the bound key.
HelperOpens(r) ==
    /\ pc[r] = "helperopen"
    /\ \E g \in Held(r, "helper") : used' = [used EXCEPT ![r]["helper"] = g]
    /\ IF Unchanged(r, "pem") THEN Goto(r, "helpersign") ELSE Raise(r)
    /\ UNCHANGED <<gen, cur, todo, pinned, signer, instant, sealed, tree, where>>

HelperSigns(r) ==
    /\ pc[r] = "helpersign"
    /\ \E g \in Held(r, "pem") : signer' = [signer EXCEPT ![r] = g]
    /\ Goto(r, "helpercheck")
    /\ UNCHANGED <<gen, cur, todo, pinned, used, instant, sealed, tree, where>>

\* _revalidate_bound_file; the command ends and the comparison after it begins.
HelperRevalidates(r) ==
    /\ pc[r] = "helpercheck"
    /\ \/ Unchanged(r, "pem") /\ Put(r, "signed", "written") /\ Recheck(r, "signed")
       \/ ~Unchanged(r, "pem") /\ Raise(r) /\ UNCHANGED <<todo, tree>>
    /\ UNCHANGED <<gen, cur, pinned, used, signer, instant, sealed, where>>

\* Validation of an output ends with its fsync.
CheckSigned(r) ==
    /\ pc[r] = "checksigned"
    /\ Put(r, "signed", "synced")
    /\ Goto(r, "runota")
    /\ UNCHANGED <<gen, reading, sealed, where>>

RunOta(r) ==
    /\ pc[r] = "runota"
    /\ Put(r, "ota", "written")
    /\ Recheck(r, "otaed")
    /\ UNCHANGED <<gen, cur, pinned, used, signer, instant, sealed, where>>

CheckOta(r) ==
    /\ pc[r] = "checkota"
    /\ Put(r, "ota", "synced")
    /\ Goto(r, "runimg")
    /\ UNCHANGED <<gen, reading, sealed, where>>

RunImg(r) ==
    /\ pc[r] = "runimg"
    /\ Put(r, "img", "written")
    /\ Goto(r, "checkimg")
    /\ UNCHANGED <<gen, reading, sealed, where>>

CheckImg(r) ==
    /\ pc[r] = "checkimg"
    /\ Put(r, "img", "synced")
    /\ Goto(r, "export")
    /\ UNCHANGED <<gen, reading, sealed, where>>

\* Certificates from the copies, AVB public keys from the keyset itself.
ExportBundle(r) ==
    /\ pc[r] = "export"
    /\ used' = [used EXCEPT ![r]["avbpub"] = gen["avbpub"]]
    /\ Put(r, "public", "synced")
    /\ Recheck(r, "exported")
    /\ UNCHANGED <<gen, cur, pinned, signer, instant, sealed, where>>

\* The context of the copied keys is left, then the record is compared.
Unseal(r) ==
    /\ pc[r] = "unseal"
    /\ sealed' = [sealed EXCEPT ![r] = FALSE]
    /\ Recheck(r, "unsealed")
    /\ UNCHANGED <<gen, cur, pinned, used, signer, instant, tree, where>>

-----------------------------------------------------------------------------
(* Report, checksums and publication.                                      *)

RemoveRuntime(r) ==
    /\ pc[r] = "rmruntime"
    /\ Put(r, "runtime", "none")
    /\ Goto(r, "report")
    /\ UNCHANGED <<gen, reading, sealed, where>>

WriteReport(r) ==
    /\ pc[r] = "report"
    /\ Put(r, "report", "synced")
    /\ Goto(r, "sums")
    /\ UNCHANGED <<gen, reading, sealed, where>>

WriteChecksums(r) ==
    /\ pc[r] = "sums"
    /\ Put(r, "sums", "synced")
    /\ Goto(r, "syncstaging")
    /\ UNCHANGED <<gen, reading, sealed, where>>

\* A faulty variant: the staging directory is not fsynced.
SkipSyncStaging(r) ==
    /\ pc[r] = "syncstaging"
    /\ Goto(r, "publish")
    /\ UNCHANGED <<gen, reading, sealed, tree, where>>

SyncStaging(r) ==
    /\ pc[r] = "syncstaging"
    /\ onDisk' = [onDisk EXCEPT ![r] = [n \in Entries |-> {file[r][n] # "none"}]]
    /\ Goto(r, "publish")
    /\ UNCHANGED <<gen, reading, sealed, file, where>>

\* A faulty variant: a rename that replaces what is there.
PublishReplacing(r) ==
    /\ pc[r] = "publish"
    /\ place' = [s \in Runs |-> IF s = r THEN "dest"
                                ELSE IF place[s] = "dest" THEN "none" ELSE place[s]]
    /\ placeOnDisk' = [placeOnDisk EXCEPT ![r] = @ \cup {"dest"}]
    /\ Goto(r, "renamed")
    /\ UNCHANGED <<gen, reading, sealed, tree>>

\* _rename_no_replace
Publish(r) ==
    /\ pc[r] = "publish"
    /\ IF \E s \in Runs : place[s] = "dest"
         THEN Raise(r) /\ UNCHANGED where
         ELSE MoveTo(r, "dest") /\ Goto(r, "renamed")
    /\ UNCHANGED <<gen, reading, sealed, tree>>

\* The parent is fsynced and the run returns.
Acknowledge(r) ==
    /\ pc[r] = "renamed"
    /\ SyncParent
    /\ Goto(r, "done")
    /\ UNCHANGED <<gen, reading, sealed, tree, place>>

-----------------------------------------------------------------------------
(* Exceptions.                                                             *)

\* The finally clause of _snapshot_container_keyset.
Unwind(r) ==
    /\ pc[r] = "unwind"
    /\ sealed' = [sealed EXCEPT ![r] = FALSE]
    /\ Goto(r, "cleanup")
    /\ UNCHANGED <<gen, reading, tree, where>>

\* The handler: what was published no longer has the staging name, and what
\* is read-only cannot be emptied.
Cleanup(r) ==
    /\ pc[r] = "cleanup"
    /\ \/ place[r] # "staging" /\ Goto(r, "failed") /\ UNCHANGED <<tree, where>>
       \/ place[r] = "staging" /\ sealed[r] /\ Goto(r, "stuck") /\ UNCHANGED <<tree, where>>
       \/ /\ place[r] = "staging" /\ ~sealed[r]
          /\ file' = [file EXCEPT ![r] = [n \in Entries |-> "none"]]
          /\ onDisk' = [onDisk EXCEPT ![r] = [n \in Entries |-> @[n] \cup {FALSE}]]
          /\ MoveTo(r, "none")
          /\ Goto(r, "failed")
    /\ UNCHANGED <<gen, reading, sealed>>

\* A faulty variant: the handler is for Exception, which Ctrl-C is not.
InterruptUnhandled(r) ==
    /\ "interrupt" \in Faults
    /\ pc[r] \in Live
    /\ Goto(r, IF pc[r] \in Handling THEN "stuck" ELSE "failed")
    /\ UNCHANGED <<gen, reading, sealed, tree, where>>

\* A failed command, a refused check or Ctrl-C.  In a finally clause it
\* leaves the copied keys read-only; in the handler it leaves what is left.
Interrupt(r) ==
    /\ "interrupt" \in Faults
    /\ \/ pc[r] = "mkdtemp" /\ Goto(r, "failed")
       \/ pc[r] = "staged" /\ (Goto(r, "failed") \/ Goto(r, "cleanup"))
       \/ pc[r] \in InTry \ {"unseal"} /\ Raise(r)
       \/ pc[r] \in {"unseal", "unwind"} /\ Goto(r, "cleanup")
       \/ pc[r] = "cleanup" /\ Goto(r, "stuck")
    /\ UNCHANGED <<gen, reading, sealed, tree, where>>

Crash(r) ==
    /\ "crash" \in Faults
    /\ pc[r] \in Live
    /\ Goto(r, "dead")
    /\ UNCHANGED <<gen, reading, sealed, tree, where>>

AfterLoss(r, n) == CASE onDisk[r][n] = {FALSE} -> "none"
                     [] file[r][n] = "synced" /\ onDisk[r][n] = {TRUE} -> "synced"
                     [] OTHER -> "unsure"

PowerLoss ==
    /\ "power" \in Faults
    /\ \E left \in [Runs -> Places] :
         /\ \A r \in Runs : left[r] \in placeOnDisk[r]
         /\ place' = left
         /\ placeOnDisk' = [r \in Runs |-> {left[r]}]
         /\ file' = [r \in Runs |-> [n \in Entries |->
                       IF left[r] = "none" THEN "none" ELSE AfterLoss(r, n)]]
    /\ pc' = [r \in Runs |-> IF pc[r] \in Live THEN "dead" ELSE pc[r]]
    /\ UNCHANGED <<gen, reading, sealed, onDisk>>

\* Another program edits or replaces an input.
Change(i) ==
    /\ gen[i] < LastGen
    /\ gen' = [gen EXCEPT ![i] = @ + 1]
    /\ UNCHANGED <<pc, reading, sealed, tree, where>>

-----------------------------------------------------------------------------
Step(r) == \/ MakeStaging(r) \/ MakeRuntime(r)
           \/ OpenInput(r) \/ CopyInput(r) \/ CheckInput(r)
           \/ ValidateProvenance(r) \/ PinHelper(r) \/ Seal(r) \/ CompareOriginal(r)
           \/ ReadManifest(r) \/ CompareManifest(r)
           \/ OpenPrivateKey(r) \/ ExportPublicPem(r) \/ CheckPrivateKey(r)
           \/ HelperOpens(r) \/ HelperSigns(r) \/ HelperRevalidates(r)
           \/ CheckSigned(r) \/ RunOta(r) \/ CheckOta(r) \/ RunImg(r) \/ CheckImg(r)
           \/ ExportBundle(r) \/ Unseal(r)
           \/ RemoveRuntime(r) \/ WriteReport(r) \/ WriteChecksums(r) \/ SyncStaging(r)
           \/ Publish(r) \/ Acknowledge(r)
           \/ Unwind(r) \/ Cleanup(r)

Finished == (\A r \in Runs : pc[r] \in Ended) /\ UNCHANGED vars

Next == \/ \E r \in Runs : Begin(r) \/ Step(r) \/ Interrupt(r) \/ Crash(r)
        \/ \E i \in Inputs : Change(i)
        \/ PowerLoss
        \/ Finished

Spec == Init /\ [][Next]_vars

-----------------------------------------------------------------------------
(* Properties.                                                             *)

Released(r) == place[r] = "dest"

\* What a release was made from - the record, the archive, the helper and
\* every container key - is what their paths held together at one moment of
\* the run, although they are read one after another and may change at any
\* time (the comparisons of lines 576-642).
InputsOfOneInstant ==
    \A r \in Runs : Released(r) => \A i \in Pinned : used[r][i] = instant[r][i]

\* A release was signed from the archive its build record names, and the
\* certificates that were used are those the keyset's manifest names: the bytes
\* that were copied, not only the files that were validated.  A .pk8 is in no
\* manifest; InputsOfOneInstant ties it to the certificate beside it (lines 452-491).
ReleaseOfAcceptedInputs ==
    \A r \in Runs : Released(r) =>
        /\ used[r]["target"] = used[r]["provenance"]
        /\ \A i \in Certificates : used[r][i] = used[r]["manifest"]

\* The AVB signatures of a release verify with the public key it was given:
\* the helper, a process of its own that opens the private key by name long
\* after it was exported, signs with no other (sign_payload).
SignatureMatchesExportedKey ==
    \A r \in Runs : Released(r) => signer[r] = used[r]["pem"]

\* A release directory that can be seen is whole and has none of the copied
\* keys or passwords in it, after a power loss too (lines 645-665).
ReleaseWholeAndPublic ==
    \A r \in Runs : Released(r) =>
        \A n \in Entries : file[r][n] = IF n \in Parts THEN "synced" ELSE "none"

\* A run that ended leaves no copied key behind, unless it was killed or its
\* handler or its last finally clause was interrupted, or a power loss undid
\* the removal; without interrupts the handler always gets through (lines
\* 666-669, 910-918).
NoKeysLeftBehind ==
    \A r \in Runs : /\ pc[r] \in Ended \ {"stuck", "dead"} => file[r]["runtime"] \in {"none", "unsure"}
                    /\ "interrupt" \notin Faults => pc[r] # "stuck"

\* The output directory is a write-once publication.
slot         == IF \E r \in Runs : Released(r) THEN CHOOSE r \in Runs : Released(r) ELSE NoRun
acknowledged == {r \in Runs : pc[r] = "done"}
Publication  == INSTANCE WriteOncePublication WITH Writers <- Runs, Nobody <- NoRun

\* Every behaviour of the signer is one of the write-once publication.
PublicationSpec == Publication!Spec
=============================================================================
