-------------------------- MODULE VerificationReport --------------------------
(***************************************************************************)
(* The release verifier, scripts/ubuntu/verify_signed_release.py, as its   *)
(* inputs and its report see it: it hashes and copies the inputs one after *)
(* another, checks the copies, checks that every input is still what it    *)
(* copied, and publishes one report through a temporary file that has the  *)
(* same name in every run.                                                 *)
(*                                                                         *)
(* What is checked of the copies is a verdict the environment chooses.     *)
(* The inputs are files other programs may edit or replace at any time.    *)
(***************************************************************************)
EXTENDS Naturals

CONSTANTS
    Verifiers,   \* runs of the verifier with one --report path
    None,        \* no such file
    NInputs,     \* how many input files there are
    MaxChanges,  \* bound: how often the inputs change altogether
    Faults,      \* what may cut a run short
    Overlap      \* whether one run may begin while another is still going

FaultKinds == {"interrupt", "crash"}

ASSUME NoneAssumption    == None \notin Verifiers
ASSUME InputsAssumption  == NInputs \in Nat \ {0}
ASSUME BoundAssumption   == MaxChanges \in Nat
ASSUME FaultsAssumption  == Faults \subseteq FaultKinds
ASSUME OverlapAssumption == Overlap \in BOOLEAN

\* The inputs, in the order they are copied.
Inputs == 1..NInputs

\* A content is the number of the change that wrote it, and so is an inode.
Changes == 0..MaxChanges

VARIABLES
    clock,    \* how many changes were made to the inputs
    name,     \* the inode at the path of each input
    data,     \* the content of each inode of each input
    pc,       \* the step each run is at
    next,     \* the input the run copies next
    opened,   \* the inode each of the run's descriptors holds
    hashed,   \* the content whose hash was taken through it
    copied,   \* the content of the run's copy
    recheck,  \* the inputs the run has still to compare with the copies
    seen,     \* what the paths held together since the run began (history)
    report,   \* whose file is at the report path
    temp,     \* whose file is at the temporary path
    whole     \* whether all of a run's report is in its file

files   == <<clock, name, data>>
private == <<next, opened, hashed, copied, recheck>>
outputs == <<report, temp, whole>>
vars    == <<files, pc, private, seen, outputs>>

Reading == {"hash", "copy", "verify", "recheck"}
Writing == {"checkreport", "checktemp", "open", "write", "sync", "replace", "replaced", "unlink"}
Ended   == {"done", "refused", "failed", "stuck", "dead"}
Working == Reading \cup Writing

TypeOK == /\ clock \in Changes
          /\ name \in [Inputs -> Changes]
          /\ data \in [Inputs -> [Changes -> Changes]]
          /\ pc \in [Verifiers -> {"idle"} \cup Working \cup Ended]
          /\ next \in [Verifiers -> Inputs]
          /\ opened \in [Verifiers -> [Inputs -> Changes]]
          /\ hashed \in [Verifiers -> [Inputs -> Changes]]
          /\ copied \in [Verifiers -> [Inputs -> Changes]]
          /\ recheck \in [Verifiers -> SUBSET Inputs]
          /\ seen \in [Verifiers -> SUBSET [Inputs -> Changes]]
          /\ report \in Verifiers \cup {None}
          /\ temp \in Verifiers \cup {None}
          /\ whole \in [Verifiers -> BOOLEAN]

Zero == [i \in Inputs |-> 0]

Init == /\ clock = 0
        /\ name = Zero
        /\ data = [i \in Inputs |-> [n \in Changes |-> 0]]
        /\ pc = [v \in Verifiers |-> "idle"]
        /\ next = [v \in Verifiers |-> 1]
        /\ opened = [v \in Verifiers |-> Zero]
        /\ hashed = [v \in Verifiers |-> Zero]
        /\ copied = [v \in Verifiers |-> Zero]
        /\ recheck = [v \in Verifiers |-> {}]
        /\ seen = [v \in Verifiers |-> {}]
        /\ report = None
        /\ temp = None
        /\ whole = [v \in Verifiers |-> FALSE]

Goto(v, step) == pc' = [pc EXCEPT ![v] = step]

\* What the paths of all inputs hold together.
Instant == [i \in Inputs |-> data[i][name[i]]]

-----------------------------------------------------------------------------
(* verify_release: snapshots, verdict, comparison with the originals.      *)

Begin(v) ==
    /\ pc[v] = "idle"
    /\ Overlap \/ \A u \in Verifiers : pc[u] \notin Working
    /\ Goto(v, IF report # None THEN "refused" ELSE "hash")
    /\ seen' = [seen EXCEPT ![v] = {Instant}]
    /\ UNCHANGED <<files, private, outputs>>

HashInput(v) ==
    /\ pc[v] = "hash"
    /\ LET i == next[v]
       IN  /\ opened' = [opened EXCEPT ![v][i] = name[i]]
           /\ hashed' = [hashed EXCEPT ![v][i] = data[i][name[i]]]
    /\ Goto(v, "copy")
    /\ UNCHANGED <<files, next, copied, recheck, seen, outputs>>

\* A faulty variant: the copy loop does not stop at the last input.
CopyTooFar(v) ==
    /\ pc[v] = "copy"
    /\ copied' = [copied EXCEPT ![v][next[v]] = data[next[v]][opened[v][next[v]]]]
    /\ next' = [next EXCEPT ![v] = @ + 1]
    /\ Goto(v, "hash")
    /\ UNCHANGED <<files, opened, hashed, recheck, seen, outputs>>

\* The copy is read through the same descriptor and must have the same hash.
CopyInput(v) ==
    /\ pc[v] = "copy"
    /\ LET i == next[v]
           c == data[i][opened[v][i]]
       IN  /\ copied' = [copied EXCEPT ![v][i] = c]
           /\ \/ c # hashed[v][i] /\ Goto(v, "failed") /\ UNCHANGED <<next, recheck>>
              \/ /\ c = hashed[v][i] /\ i + 1 \in Inputs
                 /\ next' = [next EXCEPT ![v] = i + 1]
                 /\ Goto(v, "hash")
                 /\ UNCHANGED recheck
              \/ /\ c = hashed[v][i] /\ i + 1 \notin Inputs
                 /\ recheck' = [recheck EXCEPT ![v] = Inputs]
                 /\ Goto(v, "verify")
                 /\ UNCHANGED next
    /\ UNCHANGED <<files, opened, hashed, seen, outputs>>

\* The copies pass every check of a release, or they do not.
VerifyCopies(v) ==
    /\ pc[v] = "verify"
    /\ Goto(v, "recheck") \/ Goto(v, "failed")
    /\ UNCHANGED <<files, private, seen, outputs>>

\* A faulty variant: only the inode at the path is compared.
SameInode(v, i) == name[i] = opened[v][i]

\* _FileSnapshot.verify: the same inode at the path, with the same content.
Unchanged(v, i) == name[i] = opened[v][i] /\ data[i][opened[v][i]] = hashed[v][i]

RecheckInput(v) ==
    /\ pc[v] = "recheck"
    /\ \E i \in recheck[v] :
         /\ recheck' = [recheck EXCEPT ![v] = @ \ {i}]
         /\ Goto(v, IF ~Unchanged(v, i) THEN "failed"
                    ELSE IF recheck[v] = {i} THEN "checkreport" ELSE "recheck")
    /\ UNCHANGED <<files, next, opened, hashed, copied, seen, outputs>>

-----------------------------------------------------------------------------
(* write_sanitized_report.                                                 *)

CheckReport(v) ==
    /\ pc[v] = "checkreport"
    /\ Goto(v, IF report # None THEN "refused" ELSE "checktemp")
    /\ UNCHANGED <<files, private, seen, outputs>>

CheckTemp(v) ==
    /\ pc[v] = "checktemp"
    /\ Goto(v, IF temp # None THEN "refused" ELSE "open")
    /\ UNCHANGED <<files, private, seen, outputs>>

\* O_CREAT | O_EXCL inside the try block: a refusal reaches the handler.
OpenTemp(v) ==
    /\ pc[v] = "open"
    /\ IF temp = None THEN temp' = v /\ Goto(v, "write")
                      ELSE Goto(v, "unlink") /\ UNCHANGED temp
    /\ UNCHANGED <<files, private, seen, report, whole>>

\* A faulty variant: one write, and a short one goes unnoticed.
WriteOnce(v) ==
    /\ pc[v] = "write"
    /\ whole' \in {whole, [whole EXCEPT ![v] = TRUE]}
    /\ Goto(v, "sync")
    /\ UNCHANGED <<files, private, seen, report, temp>>

\* The write loop; a write error reaches the handler with part of the data.
WriteReport(v) ==
    /\ pc[v] = "write"
    /\ \/ whole' = [whole EXCEPT ![v] = TRUE] /\ Goto(v, "sync")
       \/ Goto(v, "unlink") /\ UNCHANGED whole
    /\ UNCHANGED <<files, private, seen, report, temp>>

SyncReport(v) ==
    /\ pc[v] = "sync"
    /\ Goto(v, "replace")
    /\ UNCHANGED <<files, private, seen, outputs>>

\* os.replace moves whatever file has the temporary name, over whatever is there.
ReplaceReport(v) ==
    /\ pc[v] = "replace"
    /\ IF temp = None
         THEN Goto(v, "unlink") /\ UNCHANGED <<report, temp>>
         ELSE report' = temp /\ temp' = None /\ Goto(v, "replaced")
    /\ UNCHANGED <<files, private, seen, whole>>

Succeed(v) ==
    /\ pc[v] = "replaced"
    /\ Goto(v, "done")
    /\ UNCHANGED <<files, private, seen, outputs>>

\* A faulty variant: the exception is swallowed.
UnlinkAndSucceed(v) ==
    /\ pc[v] = "unlink"
    /\ temp' = None
    /\ Goto(v, "done")
    /\ UNCHANGED <<files, private, seen, report, whole>>

\* The handler removes whatever file has the temporary name.
UnlinkTemp(v) ==
    /\ pc[v] = "unlink"
    /\ temp' = None
    /\ Goto(v, "failed")
    /\ UNCHANGED <<files, private, seen, report, whole>>

-----------------------------------------------------------------------------
(* The environment.                                                        *)

\* Before the try block nothing of the run is left; in it, the handler runs.
Interrupt(v) ==
    /\ "interrupt" \in Faults
    /\ pc[v] \in Working
    /\ Goto(v, CASE pc[v] = "unlink" -> "stuck"
                 [] pc[v] \in Writing \ {"checkreport", "checktemp"} -> "unlink"
                 [] OTHER -> "failed")
    /\ UNCHANGED <<files, private, seen, outputs>>

Crash(v) ==
    /\ "crash" \in Faults
    /\ pc[v] \in Working
    /\ Goto(v, "dead")
    /\ UNCHANGED <<files, private, seen, outputs>>

\* Another program writes into an input, or renames a new file over it.
ChangeInput(i) ==
    /\ clock < MaxChanges
    /\ clock' = clock + 1
    /\ \/ data' = [data EXCEPT ![i][name[i]] = clock + 1] /\ UNCHANGED name
       \/ data' = [data EXCEPT ![i][clock + 1] = clock + 1] /\ name' = [name EXCEPT ![i] = clock + 1]
    /\ seen' = [v \in Verifiers |-> seen[v] \cup {[Instant EXCEPT ![i] = clock + 1]}]
    /\ UNCHANGED <<pc, private, outputs>>

Step(v) == \/ HashInput(v) \/ CopyInput(v) \/ VerifyCopies(v) \/ RecheckInput(v)
           \/ CheckReport(v) \/ CheckTemp(v) \/ OpenTemp(v) \/ WriteReport(v)
           \/ SyncReport(v) \/ ReplaceReport(v) \/ Succeed(v) \/ UnlinkTemp(v)

Finished == (\A v \in Verifiers : pc[v] \in Ended) /\ UNCHANGED vars

Next == \/ \E v \in Verifiers : Begin(v) \/ Step(v) \/ Interrupt(v) \/ Crash(v)
        \/ \E i \in Inputs : ChangeInput(i)
        \/ Finished

Spec == Init /\ [][Next]_vars

-----------------------------------------------------------------------------
(* Properties.                                                             *)

\* What a published report was computed from is what the paths of all its
\* inputs held together at one moment of that run, although they are read
\* one after another and may change at any time (lines 166-178, 284-330).
ReportOfOneInstant == report # None => copied[report] \in seen[report]

\* A report that can be seen is whole, wherever its run is cut short
\* (lines 3113-3137).
ReportWhole == report # None => whole[report]

\* A verifier that reports success left its own report at the path: no
\* other run's file is there, whatever was checked in between.
SuccessHoldsReport == \A v \in Verifiers : pc[v] = "done" => report = v

\* The report path is written once.
Publication == INSTANCE WriteOncePublication WITH
                 Writers <- Verifiers, Nobody <- None, slot <- report,
                 acknowledged <- {v \in Verifiers : pc[v] = "done"}

\* Runs that do not overlap implement the write-once publication.
PublicationSpec == Publication!Spec
=============================================================================
