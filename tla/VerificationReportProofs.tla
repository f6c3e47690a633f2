----------------------- MODULE VerificationReportProofs -----------------------
(***************************************************************************)
(* Proofs about VerificationReport, for any number of verifiers and of     *)
(* inputs, any faults and any number of changes.                           *)
(*                                                                         *)
(* That a report is of one instant needs no assumption about other runs:   *)
(* the moment is the one at which the last input has been copied.  All of  *)
(* them were hashed before it and are compared after it, and a path that   *)
(* has once held another inode or content never holds the old one again.   *)
(* That a report is whole, and written once, is proved of runs that do not *)
(* overlap, and only of those: the temporary file has one name for all.    *)
(***************************************************************************)
EXTENDS VerificationReport, TLAPS

-----------------------------------------------------------------------------
(* The inductive invariants.                                               *)

\* Every inode and every content has the number of a change that was made.
FilesInv == /\ \A i \in Inputs : name[i] <= clock
            /\ \A i \in Inputs : \A n \in Changes : data[i][n] <= clock

\* What a run has read is of its time, and what it has copied is what it hashed.
ReadInv(v) ==
    /\ pc[v] = "idle" => next[v] = 1
    /\ pc[v] # "idle" => Instant \in seen[v]
    /\ \A i \in Inputs : opened[v][i] <= clock /\ hashed[v][i] <= clock
    /\ pc[v] \in {"hash", "copy"} => \A i \in Inputs : i < next[v] => copied[v][i] = hashed[v][i]

\* The moment a report is of: at it the paths held every copy, as far as the
\* comparison has confirmed it or still can.
DatedInv(v) ==
    pc[v] \in {"verify", "recheck"} =>
        \E s \in seen[v] : \A i \in Inputs :
            i \notin recheck[v] \/ Unchanged(v, i) => s[i] = copied[v][i]

\* A run that writes has found its moment, and so has whoever left a file.
OutputInv(v) ==
    /\ temp = v \/ report = v => pc[v] \in Writing \cup Ended
    /\ pc[v] \in Writing \/ temp = v \/ report = v => copied[v] \in seen[v]

IInv == TypeOK /\ FilesInv /\ \A v \in Verifiers : ReadInv(v) /\ DatedInv(v) /\ OutputInv(v)

\* What holds of the report files when one run is at work at a time.
OneAtWork == \A u, v \in Verifiers : pc[u] \in Working /\ pc[v] \in Working => u = v

SerialRun(v) ==
    /\ pc[v] = "open" => temp = None
    /\ pc[v] \in {"write", "sync", "replace"} => temp = v
    /\ pc[v] \in {"sync", "replace"} => whole[v]
    /\ pc[v] \in {"checktemp", "open", "write", "sync", "replace"} => report = None
    /\ pc[v] \in {"replaced", "done"} => report = v

SerialInv == OneAtWork /\ ReportWhole /\ \A v \in Verifiers : SerialRun(v)

-----------------------------------------------------------------------------
(* Type correctness.                                                       *)

\* The steps of a run, by name.
LEMMA StepsAre ==
    /\ Working = {"hash", "copy", "verify", "recheck", "checkreport", "checktemp", "open", "write", "sync",
                  "replace", "replaced", "unlink"}
    /\ Writing = {"checkreport", "checktemp", "open", "write", "sync", "replace", "replaced", "unlink"}
    /\ Ended = {"done", "refused", "failed", "stuck", "dead"}
  BY DEF Working, Reading, Writing, Ended

\* What the paths hold is a content of each input.
LEMMA InstantIsTyped == TypeOK => Instant \in [Inputs -> Changes]
  BY DEF TypeOK, Instant

\* The initial state is typed.
LEMMA TypeInit == Init => TypeOK
  <1> SUFFICES ASSUME Init PROVE TypeOK
    OBVIOUS
  <1>1. 0 \in Changes /\ 1 \in Inputs
    BY BoundAssumption, InputsAssumption DEF Changes, Inputs
  <1> QED
    BY <1>1 DEF Init, TypeOK, Zero

\* A step of a run keeps the types.
LEMMA TypeStep == ASSUME TypeOK, NEW v \in Verifiers, Step(v) PROVE TypeOK'
  <1> DEFINE PC == {"idle"} \cup Working \cup Ended
  <1>0. \A step \in Working \cup Ended : Goto(v, step) => pc' \in [Verifiers -> PC]
    BY DEF TypeOK, Goto
  <1> USE DEF files, private, outputs
  <1>1. CASE HashInput(v)
    <2>1. next[v] \in Inputs /\ name[next[v]] \in Changes /\ data[next[v]][name[next[v]]] \in Changes
      BY DEF TypeOK
    <2>2. pc' \in [Verifiers -> PC]
      BY <1>0, <1>1, StepsAre DEF HashInput
    <2> QED
      BY <1>1, <2>1, <2>2 DEF TypeOK, HashInput
  <1>2. CASE CopyInput(v)
    <2>1. next[v] \in Inputs /\ data[next[v]][opened[v][next[v]]] \in Changes
      BY DEF TypeOK
    <2>2. copied' \in [Verifiers -> [Inputs -> Changes]]
      BY <1>2, <2>1 DEF TypeOK, CopyInput
    <2>3. pc' \in [Verifiers -> PC]
      BY <1>0, <1>2, StepsAre DEF CopyInput
    <2>4. recheck' \in [Verifiers -> SUBSET Inputs]
      <3>1. UNCHANGED recheck \/ recheck' = [recheck EXCEPT ![v] = Inputs]
        BY <1>2 DEF CopyInput
      <3> QED
        BY <3>1 DEF TypeOK
    <2>5. next' \in [Verifiers -> Inputs]
      <3>1. UNCHANGED next \/ (next[v] + 1 \in Inputs /\ next' = [next EXCEPT ![v] = next[v] + 1])
        BY <1>2 DEF CopyInput
      <3> QED
        BY <3>1 DEF TypeOK
    <2> QED
      BY <1>2, <2>2, <2>3, <2>4, <2>5 DEF TypeOK, CopyInput
  <1>3. CASE RecheckInput(v)
    <2>1. pc' \in [Verifiers -> PC]
      BY <1>0, <1>3, StepsAre DEF RecheckInput
    <2>2. recheck' \in [Verifiers -> SUBSET Inputs]
      BY <1>3 DEF TypeOK, RecheckInput
    <2> QED
      BY <1>3, <2>1, <2>2 DEF TypeOK, RecheckInput
  <1>4. CASE VerifyCopies(v) \/ CheckReport(v) \/ CheckTemp(v) \/ SyncReport(v) \/ Succeed(v)
    BY <1>0, <1>4, StepsAre DEF TypeOK, VerifyCopies, CheckReport, CheckTemp, SyncReport, Succeed
  <1>5. CASE OpenTemp(v) \/ ReplaceReport(v) \/ UnlinkTemp(v)
    BY <1>0, <1>5, StepsAre DEF TypeOK, OpenTemp, ReplaceReport, UnlinkTemp
  <1>6. CASE WriteReport(v)
    <2>1. whole' \in [Verifiers -> BOOLEAN]
      BY <1>6 DEF TypeOK, WriteReport
    <2> QED
      BY <1>0, <1>6, <2>1, StepsAre DEF TypeOK, WriteReport
  <1> QED
    BY <1>1, <1>2, <1>3, <1>4, <1>5, <1>6 DEF Step

\* Every step of the system keeps the types.
LEMMA TypeNext == TypeOK /\ [Next]_vars => TypeOK'
  <1> SUFFICES ASSUME TypeOK, [Next]_vars PROVE TypeOK'
    OBVIOUS
  <1> USE DEF files, private, outputs
  <1>1. ASSUME NEW v \in Verifiers, Begin(v) PROVE TypeOK'
    BY <1>1, StepsAre, InstantIsTyped DEF TypeOK, Begin, Goto
  <1>2. ASSUME NEW v \in Verifiers, Step(v) PROVE TypeOK'
    BY <1>2, TypeStep
  <1>3. ASSUME NEW v \in Verifiers, Interrupt(v) \/ Crash(v) PROVE TypeOK'
    <2>1. \E step \in Working \cup Ended : Goto(v, step)
      BY <1>3, StepsAre DEF Interrupt, Crash
    <2>2. pc' \in [Verifiers -> {"idle"} \cup Working \cup Ended]
      BY <2>1 DEF TypeOK, Goto
    <2> QED
      BY <1>3, <2>2 DEF TypeOK, Interrupt, Crash
  <1>4. ASSUME NEW i \in Inputs, ChangeInput(i) PROVE TypeOK'
    <2>1. clock + 1 \in Changes
      BY <1>4, BoundAssumption DEF TypeOK, ChangeInput, Changes
    <2>2. name' \in [Inputs -> Changes] /\ data' \in [Inputs -> [Changes -> Changes]]
      <3>1. name' = name \/ name' = [name EXCEPT ![i] = clock + 1]
        BY <1>4 DEF ChangeInput
      <3>6. name \in [Inputs -> Changes]
        BY DEF TypeOK
      <3>2. PICK n \in {name[i], clock + 1} : data' = [data EXCEPT ![i][n] = clock + 1]
        BY <1>4 DEF ChangeInput
      <3>3. n \in Changes
        BY <2>1, <3>2 DEF TypeOK
      <3>4. data' \in [Inputs -> [Changes -> Changes]]
        BY <2>1, <3>2, <3>3 DEF TypeOK
      <3>5. name' \in [Inputs -> Changes]
        BY <2>1, <3>1, <3>6
      <3> QED
        BY <3>4, <3>5
    <2>3. [Instant EXCEPT ![i] = clock + 1] \in [Inputs -> Changes]
      BY <2>1, InstantIsTyped
    <2>4. seen' \in [Verifiers -> SUBSET [Inputs -> Changes]]
      <3>1. seen' = [v \in Verifiers |-> seen[v] \cup {[Instant EXCEPT ![i] = clock + 1]}]
        BY <1>4 DEF ChangeInput
      <3>2. \A v \in Verifiers : seen[v] \in SUBSET [Inputs -> Changes]
        BY DEF TypeOK
      <3> DEFINE moment == [Instant EXCEPT ![i] = clock + 1]
      <3>3. moment \in [Inputs -> Changes]
        BY <2>3
      <3>4. seen' = [v \in Verifiers |-> seen[v] \cup {moment}]
        BY <3>1
      <3> HIDE DEF moment
      <3>5. \A v \in Verifiers : seen[v] \cup {moment} \in SUBSET [Inputs -> Changes]
        BY <3>2, <3>3
      <3> QED
        BY <3>4, <3>5
    <2> QED
      BY <1>4, <2>1, <2>2, <2>4 DEF TypeOK, ChangeInput
  <1>5. CASE UNCHANGED vars
    BY <1>5 DEF TypeOK, vars
  <1> QED
    BY <1>1, <1>2, <1>3, <1>4, <1>5 DEF Next, Finished

\* Every variable keeps its type, however runs overlap and inputs change.
THEOREM TypeCorrect == Spec => []TypeOK
  BY TypeInit, TypeNext, PTL DEF Spec

-----------------------------------------------------------------------------
(* The moment a report is of.                                              *)

\* Goto sets the step of one run.
LEMMA GotoEffect ==
    ASSUME TypeOK, NEW v \in Verifiers, NEW step, Goto(v, step)
    PROVE  pc'[v] = step /\ \A u \in Verifiers \ {v} : pc'[u] = pc[u]
  BY DEF TypeOK, Goto

\* The invariant holds initially.
LEMMA InvInit == Init => IInv
  <1> SUFFICES ASSUME Init PROVE IInv
    OBVIOUS
  <1>1. TypeOK
    BY TypeInit
  <1>2. FilesInv
    BY BoundAssumption DEF Init, FilesInv, Zero, Changes
  <1>3. ASSUME NEW v \in Verifiers PROVE ReadInv(v) /\ DatedInv(v) /\ OutputInv(v)
    <2>1. pc[v] = "idle" /\ next[v] = 1 /\ temp # v /\ report # v
      BY NoneAssumption DEF Init
    <2>2. \A i \in Inputs : opened[v][i] = 0 /\ hashed[v][i] = 0 /\ clock = 0
      BY DEF Init, Zero
    <2> QED
      BY <2>1, <2>2, StepsAre DEF ReadInv, DatedInv, OutputInv
  <1> QED
    BY <1>1, <1>2, <1>3 DEF IInv

\* A run whose state a step leaves alone, the report files included, keeps its part.
LEMMA Untouched ==
    ASSUME NEW v \in Verifiers, ReadInv(v), DatedInv(v), OutputInv(v), UNCHANGED files,
           pc'[v] = pc[v], next'[v] = next[v], opened'[v] = opened[v], hashed'[v] = hashed[v],
           copied'[v] = copied[v], recheck'[v] = recheck[v], seen'[v] = seen[v],
           temp' = v => temp = v, report' = v => report = v \/ temp = v
    PROVE  ReadInv(v)' /\ DatedInv(v)' /\ OutputInv(v)'
  <1>1. ReadInv(v)'
    BY DEF ReadInv, Instant, files
  <1>2. DatedInv(v)'
    BY DEF DatedInv, Unchanged, files
  <1>3. OutputInv(v)'
    BY DEF OutputInv
  <1> QED
    BY <1>1, <1>2, <1>3

\* What a step of run u leaves alone of the others.
LEMMA StepTouchesOnly ==
    ASSUME TypeOK, NEW u \in Verifiers, Step(u), NEW v \in Verifiers \ {u}
    PROVE  /\ UNCHANGED files
           /\ pc'[v] = pc[v] /\ next'[v] = next[v] /\ opened'[v] = opened[v] /\ hashed'[v] = hashed[v]
           /\ copied'[v] = copied[v] /\ recheck'[v] = recheck[v] /\ seen'[v] = seen[v] /\ whole'[v] = whole[v]
           /\ temp' = v => temp = v
           /\ report' = v => report = v \/ temp = v
  <1> USE DEF TypeOK, Goto, private, outputs
  <1>1. CASE HashInput(u) \/ CopyInput(u)
    BY <1>1 DEF HashInput, CopyInput
  <1>2. CASE VerifyCopies(u) \/ RecheckInput(u) \/ CheckReport(u) \/ CheckTemp(u) \/ SyncReport(u) \/ Succeed(u)
    BY <1>2 DEF VerifyCopies, RecheckInput, CheckReport, CheckTemp, SyncReport, Succeed
  <1>3. CASE OpenTemp(u) \/ WriteReport(u) \/ ReplaceReport(u) \/ UnlinkTemp(u)
    BY <1>3, NoneAssumption DEF OpenTemp, WriteReport, ReplaceReport, UnlinkTemp
  <1> QED
    BY <1>1, <1>2, <1>3 DEF Step

\* A step of run v keeps what the invariant says of v.
LEMMA OwnStep ==
    ASSUME TypeOK, FilesInv, NEW v \in Verifiers, ReadInv(v), DatedInv(v), OutputInv(v), Step(v)
    PROVE  ReadInv(v)' /\ DatedInv(v)' /\ OutputInv(v)'
  <1> USE StepsAre
  <1>1. CASE HashInput(v)
    <2> DEFINE i == next[v]
    <2>1. /\ pc[v] = "hash" /\ pc'[v] = "copy" /\ UNCHANGED <<files, next, copied, seen, outputs>>
          /\ i \in Inputs /\ name[i] \in Changes
      BY <1>1, GotoEffect DEF HashInput, TypeOK
    <2>2. \A j \in Inputs : /\ opened'[v][j] = IF j = i THEN name[i] ELSE opened[v][j]
                            /\ hashed'[v][j] = IF j = i THEN data[i][name[i]] ELSE hashed[v][j]
      BY <1>1, <2>1 DEF HashInput, TypeOK
    <2>3. \A j \in Inputs : opened'[v][j] <= clock /\ hashed'[v][j] <= clock
      BY <2>1, <2>2 DEF FilesInv, ReadInv
    <2>4. \A j \in Inputs : j < next[v] => copied[v][j] = hashed'[v][j]
      BY <2>1, <2>2 DEF ReadInv, Inputs
    <2>5. ReadInv(v)'
      BY <2>1, <2>3, <2>4 DEF ReadInv, Instant, files
    <2> QED
      BY <2>1, <2>5 DEF DatedInv, OutputInv, outputs
  <1>2. CASE CopyInput(v)
    <2> DEFINE i == next[v]
               c == data[i][opened[v][i]]
    <2>1. pc[v] = "copy" /\ UNCHANGED <<files, opened, hashed, seen, outputs>> /\ i \in Inputs
      BY <1>2 DEF CopyInput, TypeOK
    <2>2. copied' = [copied EXCEPT ![v][i] = c]
      BY <1>2 DEF CopyInput
    <2>3. copied'[v][i] = c /\ \A j \in Inputs : j # i => copied'[v][j] = copied[v][j]
      BY <2>1, <2>2 DEF TypeOK
    <2>4. \/ pc'[v] = "failed"
          \/ c = hashed[v][i] /\ i + 1 \in Inputs /\ next'[v] = i + 1 /\ pc'[v] = "hash"
          \/ c = hashed[v][i] /\ i + 1 \notin Inputs /\ recheck'[v] = Inputs /\ pc'[v] = "verify"
      BY <1>2, GotoEffect DEF CopyInput, TypeOK
    <2>5. c = hashed[v][i] => \A j \in Inputs : j < i + 1 => copied'[v][j] = hashed[v][j]
      BY <2>1, <2>3 DEF ReadInv, Inputs
    <2>6. ReadInv(v)'
      BY <2>1, <2>4, <2>5 DEF ReadInv, Instant, files
    <2>7. OutputInv(v)'
      BY <2>1, <2>4 DEF OutputInv, outputs
    <2>8. DatedInv(v)'
      <3>1. CASE pc'[v] # "verify"
        BY <2>4, <3>1 DEF DatedInv
      <3>2. CASE pc'[v] = "verify"
        <4>1. \A j \in Inputs : copied'[v][j] = hashed[v][j]
          <5>1. i + 1 \notin Inputs /\ c = hashed[v][i]
            BY <2>4, <3>2
          <5>2. \A j \in Inputs : j < i + 1
            BY <2>1, <5>1, InputsAssumption DEF Inputs
          <5> QED
            BY <2>5, <5>1, <5>2
        <4>2. Instant \in seen[v]
          BY <2>1 DEF ReadInv
        <4>3. \A j \in Inputs : Unchanged(v, j)' => Instant[j] = copied'[v][j]
          BY <2>1, <4>1 DEF Unchanged, Instant, files
        <4>4. \A j \in Inputs : j \in recheck'[v]
          BY <2>4, <3>2
        <4> QED
          BY <2>1, <4>2, <4>3, <4>4 DEF DatedInv
      <3> QED
        BY <3>1, <3>2
    <2> QED
      BY <2>6, <2>7, <2>8
  <1>3. CASE VerifyCopies(v)
    <2>1. /\ pc[v] = "verify" /\ pc'[v] \in {"recheck", "failed"}
          /\ UNCHANGED <<files, private, seen, outputs>>
      BY <1>3, GotoEffect DEF VerifyCopies
    <2> QED
      BY <2>1 DEF ReadInv, DatedInv, OutputInv, Unchanged, Instant, files, private, outputs
  <1>4. CASE RecheckInput(v)
    <2>1. pc[v] = "recheck" /\ UNCHANGED <<files, next, opened, hashed, copied, seen, outputs>>
      BY <1>4 DEF RecheckInput
    <2>2. PICK i \in recheck[v] :
            /\ recheck' = [recheck EXCEPT ![v] = @ \ {i}]
            /\ Goto(v, IF ~Unchanged(v, i) THEN "failed"
                       ELSE IF recheck[v] = {i} THEN "checkreport" ELSE "recheck")
      BY <1>4 DEF RecheckInput
    <2>3. /\ recheck'[v] = recheck[v] \ {i}
          /\ pc'[v] = IF ~Unchanged(v, i) THEN "failed" ELSE IF recheck[v] = {i} THEN "checkreport" ELSE "recheck"
      BY <2>2, GotoEffect DEF TypeOK
    <2>4. ReadInv(v)'
      BY <2>1, <2>3 DEF ReadInv, Instant, files
    <2>5. PICK s \in seen[v] : \A j \in Inputs : j \notin recheck[v] \/ Unchanged(v, j) => s[j] = copied[v][j]
      BY <2>1 DEF DatedInv
    <2>6. Unchanged(v, i) => \A j \in Inputs : j \notin recheck'[v] \/ Unchanged(v, j) => s[j] = copied[v][j]
      BY <2>3, <2>5
    <2>7. DatedInv(v)'
      <3>1. CASE pc'[v] # "recheck"
        BY <2>3, <3>1 DEF DatedInv
      <3>2. CASE pc'[v] = "recheck"
        <4>1. \A j \in Inputs : Unchanged(v, j)' <=> Unchanged(v, j)
          BY <2>1 DEF Unchanged, files
        <4>2. \A j \in Inputs : j \notin recheck'[v] \/ Unchanged(v, j)' => s[j] = copied'[v][j]
          BY <2>1, <2>3, <2>6, <3>2, <4>1
        <4> QED
          BY <2>1, <2>5, <4>2 DEF DatedInv
      <3> QED
        BY <3>1, <3>2
    <2>8. pc'[v] = "checkreport" => copied[v] \in seen[v]
      <3>1. SUFFICES ASSUME pc'[v] = "checkreport" PROVE copied[v] = s
        BY <2>5
      <3>2. \A j \in Inputs : s[j] = copied[v][j]
        BY <2>3, <2>6, <3>1
      <3>3. s \in [Inputs -> Changes] /\ copied[v] \in [Inputs -> Changes]
        BY <2>5 DEF TypeOK
      <3> QED
        BY <3>2, <3>3
    <2>9. OutputInv(v)'
      BY <2>1, <2>3, <2>8 DEF OutputInv, outputs
    <2> QED
      BY <2>4, <2>7, <2>9
  <1>5. CASE CheckReport(v) \/ CheckTemp(v) \/ OpenTemp(v) \/ WriteReport(v) \/ SyncReport(v)
             \/ ReplaceReport(v) \/ Succeed(v) \/ UnlinkTemp(v)
    <2>1. UNCHANGED <<files, private, seen>>
      BY <1>5 DEF CheckReport, CheckTemp, OpenTemp, WriteReport, SyncReport, ReplaceReport, Succeed, UnlinkTemp
    <2>2. pc[v] \in Writing
      BY <1>5 DEF CheckReport, CheckTemp, OpenTemp, WriteReport, SyncReport, ReplaceReport, Succeed, UnlinkTemp
    <2>3. pc'[v] \in Writing \cup Ended
      BY <1>5, GotoEffect DEF CheckReport, CheckTemp, OpenTemp, WriteReport, SyncReport, ReplaceReport, Succeed, UnlinkTemp
    <2> QED
      BY <2>1, <2>2, <2>3 DEF ReadInv, DatedInv, OutputInv, Instant, files, private
  <1> QED
    BY <1>1, <1>2, <1>3, <1>4, <1>5 DEF Step

\* A change of an input takes confirmations away and never gives one back.
LEMMA InvChange == ASSUME IInv, NEW i \in Inputs, ChangeInput(i) PROVE IInv'
  <1>0. TypeOK /\ TypeOK'
    BY TypeNext DEF IInv, Next
  <1>1. clock \in Nat /\ clock' = clock + 1 /\ clock + 1 \in Changes /\ UNCHANGED <<pc, private, outputs>>
    BY <1>0, BoundAssumption DEF ChangeInput, TypeOK, Changes
  <1>2. \/ data' = [data EXCEPT ![i][name[i]] = clock + 1] /\ UNCHANGED name
        \/ data' = [data EXCEPT ![i][clock + 1] = clock + 1] /\ name' = [name EXCEPT ![i] = clock + 1]
    BY DEF ChangeInput
  <1>3. \E n \in {name[i], clock + 1} : data' = [data EXCEPT ![i][n] = clock + 1] /\ name'[i] = n
    BY <1>0, <1>2 DEF TypeOK
  <1>4. PICK n \in Changes : data' = [data EXCEPT ![i][n] = clock + 1] /\ name'[i] = n /\ n \in {name[i], clock + 1}
    BY <1>0, <1>1, <1>3 DEF TypeOK
  <1>5. /\ data'[i][n] = clock + 1
        /\ \A m \in Changes : m # n => data'[i][m] = data[i][m]
        /\ \A j \in Inputs : j # i => data'[j] = data[j] /\ name'[j] = name[j]
    BY <1>0, <1>2, <1>4 DEF TypeOK
  <1>6. FilesInv'
    <2>1. \A j \in Inputs : name[j] \in Nat /\ \A m \in Changes : data[j][m] \in Nat
      BY <1>0, BoundAssumption DEF TypeOK, Changes
    <2>2. \A j \in Inputs : name'[j] <= clock + 1
      BY <1>1, <1>4, <1>5, <2>1 DEF IInv, FilesInv
    <2>3. \A j \in Inputs : \A m \in Changes : data'[j][m] <= clock + 1
      BY <1>1, <1>5, <2>1 DEF IInv, FilesInv
    <2> QED
      BY <1>1, <2>2, <2>3 DEF FilesInv
  <1>7. Instant' = [Instant EXCEPT ![i] = clock + 1]
    <2>1. Instant' \in [Inputs -> Changes] /\ Instant \in [Inputs -> Changes]
      BY <1>0, InstantIsTyped DEF TypeOK, Instant
    <2>2. \A j \in Inputs : Instant'[j] = [Instant EXCEPT ![i] = clock + 1][j]
      BY <1>4, <1>5 DEF Instant
    <2> QED
      BY <1>1, <2>1, <2>2
  <1>8. ASSUME NEW v \in Verifiers PROVE ReadInv(v)' /\ DatedInv(v)' /\ OutputInv(v)'
    <2>0. ReadInv(v) /\ DatedInv(v) /\ OutputInv(v)
      BY DEF IInv
    <2>1. seen'[v] = seen[v] \cup {Instant'}
      BY <1>0, <1>7 DEF ChangeInput
    <2>2. \A j \in Inputs : /\ opened[v][j] \in Changes /\ opened[v][j] <= clock /\ opened[v][j] \in Nat
                            /\ hashed[v][j] <= clock /\ hashed[v][j] \in Nat
      BY <1>0, <2>0, BoundAssumption DEF TypeOK, ReadInv, Changes
    <2>3. ReadInv(v)'
      BY <1>1, <2>0, <2>1, <2>2 DEF ReadInv, private
    <2>4. \A j \in Inputs : Unchanged(v, j)' => Unchanged(v, j)
      <3>1. SUFFICES ASSUME NEW j \in Inputs, name'[j] = opened[v][j], data'[j][opened[v][j]] = hashed[v][j]
                     PROVE  Unchanged(v, j)
        BY <1>1 DEF Unchanged, private
      <3>2. j # i
        BY <1>1, <1>4, <1>5, <2>2, <3>1
      <3> QED
        BY <1>5, <3>1, <3>2 DEF Unchanged
    <2>5. DatedInv(v)'
      <3>1. SUFFICES ASSUME pc[v] \in {"verify", "recheck"}
                     PROVE  \E s \in seen'[v] : \A j \in Inputs :
                                j \notin recheck[v] \/ Unchanged(v, j)' => s[j] = copied[v][j]
        BY <1>1 DEF DatedInv, private
      <3>2. PICK s \in seen[v] : \A j \in Inputs : j \notin recheck[v] \/ Unchanged(v, j) => s[j] = copied[v][j]
        BY <2>0, <3>1 DEF DatedInv
      <3> QED
        BY <2>1, <2>4, <3>2
    <2>6. OutputInv(v)'
      BY <1>1, <2>0, <2>1 DEF OutputInv, private, outputs
    <2> QED
      BY <2>3, <2>5, <2>6
  <1> QED
    BY <1>0, <1>6, <1>8 DEF IInv

\* Every step of the system keeps the invariant.
LEMMA InvNext == IInv /\ [Next]_vars => IInv'
  <1> SUFFICES ASSUME IInv, [Next]_vars PROVE IInv'
    OBVIOUS
  <1>0. TypeOK /\ TypeOK' /\ FilesInv /\ \A v \in Verifiers : ReadInv(v) /\ DatedInv(v) /\ OutputInv(v)
    BY TypeNext DEF IInv
  <1>1. ASSUME NEW u \in Verifiers, Begin(u) PROVE IInv'
    <2>1. /\ pc[u] = "idle" /\ pc'[u] \in {"refused", "hash"} /\ UNCHANGED <<files, private, outputs>>
          /\ seen'[u] = {Instant} /\ \A v \in Verifiers \ {u} : pc'[v] = pc[v] /\ seen'[v] = seen[v]
      BY <1>0, <1>1, GotoEffect DEF Begin, TypeOK
    <2>2. FilesInv'
      BY <1>0, <2>1 DEF FilesInv, files
    <2>3. ReadInv(u)'
      <3>1. next[u] = 1 /\ ~ \E i \in Inputs : i < 1
        BY <1>0, <2>1 DEF ReadInv, Inputs
      <3> QED
        BY <1>0, <2>1, <3>1 DEF ReadInv, Instant, files, private
    <2>4. DatedInv(u)' /\ OutputInv(u)'
      BY <1>0, <2>1, StepsAre DEF DatedInv, OutputInv, private, outputs
    <2>5. ASSUME NEW v \in Verifiers \ {u} PROVE ReadInv(v)' /\ DatedInv(v)' /\ OutputInv(v)'
      BY <1>0, <2>1, Untouched DEF private, outputs
    <2> QED
      BY <1>0, <2>2, <2>3, <2>4, <2>5 DEF IInv
  <1>2. ASSUME NEW u \in Verifiers, Step(u) PROVE IInv'
    <2>1. ReadInv(u)' /\ DatedInv(u)' /\ OutputInv(u)'
      BY <1>0, <1>2, OwnStep
    <2>2. ASSUME NEW v \in Verifiers \ {u} PROVE UNCHANGED files /\ ReadInv(v)' /\ DatedInv(v)' /\ OutputInv(v)'
      BY <1>0, <1>2, StepTouchesOnly, Untouched
    <2>3. UNCHANGED files
      BY <1>2 DEF Step, HashInput, CopyInput, VerifyCopies, RecheckInput, CheckReport, CheckTemp, OpenTemp,
                  WriteReport, SyncReport, ReplaceReport, Succeed, UnlinkTemp
    <2>4. FilesInv'
      BY <1>0, <2>3 DEF FilesInv, files
    <2> QED
      BY <1>0, <2>1, <2>2, <2>4 DEF IInv
  <1>3. ASSUME NEW u \in Verifiers, Interrupt(u) \/ Crash(u) PROVE IInv'
    <2>1. /\ pc[u] \in Working /\ pc'[u] \in {"failed", "stuck", "unlink", "dead"}
          /\ pc'[u] = "unlink" => pc[u] \in Writing
          /\ UNCHANGED <<files, private, seen, outputs>> /\ \A v \in Verifiers \ {u} : pc'[v] = pc[v]
      <3>1. CASE Crash(u)
        BY <1>0, <3>1, GotoEffect DEF Crash
      <3>2. CASE Interrupt(u)
        <4>1. \E step \in {"failed", "stuck", "unlink"} : Goto(u, step) /\ (step = "unlink" => pc[u] \in Writing)
          BY <3>2 DEF Interrupt
        <4>2. pc[u] \in Working /\ UNCHANGED <<files, private, seen, outputs>>
          BY <3>2 DEF Interrupt
        <4> QED
          BY <1>0, <4>1, <4>2, GotoEffect
      <3> QED
        BY <1>3, <3>1, <3>2
    <2>2. FilesInv'
      BY <1>0, <2>1 DEF FilesInv, files
    <2>3. ReadInv(u)' /\ DatedInv(u)' /\ OutputInv(u)'
      BY <1>0, <2>1, StepsAre DEF ReadInv, DatedInv, OutputInv, Instant, files, private, outputs
    <2>4. ASSUME NEW v \in Verifiers \ {u} PROVE ReadInv(v)' /\ DatedInv(v)' /\ OutputInv(v)'
      BY <1>0, <2>1, Untouched DEF private, outputs
    <2> QED
      BY <1>0, <2>2, <2>3, <2>4 DEF IInv
  <1>4. CASE UNCHANGED vars
    <2>1. FilesInv'
      BY <1>0, <1>4 DEF FilesInv, vars, files
    <2>2. ASSUME NEW v \in Verifiers PROVE ReadInv(v)' /\ DatedInv(v)' /\ OutputInv(v)'
      BY <1>0, <1>4, Untouched DEF vars, private, outputs
    <2> QED
      BY <1>0, <2>1, <2>2 DEF IInv
  <1> QED
    BY <1>1, <1>2, <1>3, <1>4, InvChange DEF Next, Finished

\* The invariant holds in every reachable state.
LEMMA Invariance == Spec => []IInv
  BY InvInit, InvNext, PTL DEF Spec

\* A report that can be seen was computed from what the paths of all inputs held
\* together at one moment of its run, whoever else runs and writes.
THEOREM ReportsAreOfOneInstant == Spec => []ReportOfOneInstant
  <1>1. IInv => ReportOfOneInstant
    BY DEF IInv, TypeOK, OutputInv, ReportOfOneInstant
  <1> QED
    BY <1>1, Invariance, PTL

-----------------------------------------------------------------------------
(* Runs that do not overlap.                                               *)

\* The serial invariant holds initially.
LEMMA SerialInit == Init => SerialInv
  <1> SUFFICES ASSUME Init PROVE SerialInv
    OBVIOUS
  <1>1. \A v \in Verifiers : pc[v] = "idle"
    BY DEF Init
  <1> QED
    BY <1>1, StepsAre DEF Init, SerialInv, OneAtWork, ReportWhole, SerialRun

\* Whoever steps was at work, and no other run is, before or after.
LEMMA AloneAtWork ==
    ASSUME TypeOK, OneAtWork, NEW u \in Verifiers, pc[u] \in Working, \A v \in Verifiers \ {u} : pc'[v] = pc[v]
    PROVE  OneAtWork' /\ \A v \in Verifiers \ {u} : pc'[v] \notin Working
  BY DEF OneAtWork

\* Every step of runs that do not overlap keeps the serial invariant.
LEMMA SerialNext == ~Overlap /\ TypeOK /\ SerialInv /\ [Next]_vars => SerialInv'
  <1> SUFFICES ASSUME ~Overlap, TypeOK, SerialInv, [Next]_vars PROVE SerialInv'
    OBVIOUS
  <1> USE StepsAre
  <1>1. ASSUME NEW u \in Verifiers, Begin(u) PROVE SerialInv'
    <2>1. /\ \A v \in Verifiers : pc[v] \notin Working
          /\ pc'[u] \in {"refused", "hash"} /\ UNCHANGED outputs /\ \A v \in Verifiers \ {u} : pc'[v] = pc[v]
      BY <1>1, GotoEffect DEF Begin
    <2> QED
      BY <2>1 DEF SerialInv, OneAtWork, ReportWhole, SerialRun, outputs
  <1>2. ASSUME NEW u \in Verifiers, Step(u) PROVE SerialInv'
    <2>1. pc[u] \in Working
      BY <1>2 DEF Step, HashInput, CopyInput, VerifyCopies, RecheckInput, CheckReport, CheckTemp, OpenTemp,
                  WriteReport, SyncReport, ReplaceReport, Succeed, UnlinkTemp
    <2>2. \A v \in Verifiers \ {u} : pc'[v] = pc[v] /\ whole'[v] = whole[v]
      BY <1>2, StepTouchesOnly
    <2>3. OneAtWork' /\ \A v \in Verifiers \ {u} : pc'[v] \notin Working
      BY <2>1, <2>2, AloneAtWork DEF SerialInv
    <2> USE DEF SerialInv, SerialRun
    <2>4. SerialRun(u)' /\ (report' # report => report' = u /\ report = None /\ whole[u])
          /\ (whole' # whole => whole'[u]) /\ (whole[u] => whole'[u])
      <3>1. CASE HashInput(u) \/ CopyInput(u) \/ VerifyCopies(u) \/ RecheckInput(u)
        <4>1. UNCHANGED outputs /\ pc'[u] \in {"hash", "copy", "verify", "recheck", "failed", "checkreport"}
          BY <3>1, GotoEffect DEF HashInput, CopyInput, VerifyCopies, RecheckInput
        <4> QED
          BY <4>1 DEF outputs
      <3>2. CASE CheckReport(u) \/ CheckTemp(u) \/ SyncReport(u) \/ Succeed(u)
        BY <3>2, GotoEffect DEF CheckReport, CheckTemp, SyncReport, Succeed, outputs
      <3>3. CASE OpenTemp(u) \/ UnlinkTemp(u)
        BY <3>3, GotoEffect DEF OpenTemp, UnlinkTemp
      <3>4. CASE WriteReport(u)
        BY <3>4, GotoEffect DEF WriteReport, TypeOK
      <3>5. CASE ReplaceReport(u)
        BY <3>5, NoneAssumption, GotoEffect DEF ReplaceReport
      <3> QED
        BY <1>2, <3>1, <3>2, <3>3, <3>4, <3>5 DEF Step
    <2>5. ReportWhole'
      BY <2>2, <2>4 DEF ReportWhole, TypeOK
    <2>6. ASSUME NEW v \in Verifiers \ {u} PROVE SerialRun(v)'
      <3>1. pc[v] \notin Working /\ pc'[v] \notin Working
        BY <2>2, <2>3
      <3>2. pc[v] = "done" => report = v /\ report # None
        BY NoneAssumption
      <3> QED
        BY <2>2, <2>4, <3>1, <3>2
    <2> QED
      BY <2>3, <2>4, <2>5, <2>6
  <1>3. ASSUME NEW u \in Verifiers, Interrupt(u) \/ Crash(u) PROVE SerialInv'
    <2>1. pc[u] \in Working /\ pc'[u] \in {"failed", "stuck", "unlink", "dead"} /\ UNCHANGED outputs
          /\ \A v \in Verifiers \ {u} : pc'[v] = pc[v]
      <3>1. \E step \in {"failed", "stuck", "unlink", "dead"} : Goto(u, step)
        BY <1>3 DEF Interrupt, Crash
      <3> QED
        BY <1>3, <3>1, GotoEffect DEF Interrupt, Crash
    <2>2. OneAtWork'
      BY <2>1, AloneAtWork DEF SerialInv
    <2> QED
      BY <2>1, <2>2 DEF SerialInv, ReportWhole, SerialRun, outputs
  <1>4. ASSUME UNCHANGED <<pc, outputs>> PROVE SerialInv'
    BY <1>4 DEF SerialInv, OneAtWork, ReportWhole, SerialRun, outputs
  <1> QED
    BY <1>1, <1>2, <1>3, <1>4 DEF Next, Finished, vars, ChangeInput

\* The serial invariant holds whenever runs do not overlap.
LEMMA SerialInvariance == ~Overlap => (Spec => []SerialInv)
  <1> SUFFICES ASSUME ~Overlap PROVE Spec => []SerialInv
    OBVIOUS
  <1>1. TypeOK /\ SerialInv /\ [Next]_vars => SerialInv'
    BY SerialNext
  <1> QED
    BY <1>1, SerialInit, TypeCorrect, PTL DEF Spec

\* A report that can be seen is whole wherever its run was cut short, when runs do not overlap.
THEOREM ReportsAreWhole == ~Overlap => (Spec => []ReportWhole)
  <1> SUFFICES ASSUME ~Overlap PROVE Spec => []ReportWhole
    OBVIOUS
  <1>1. SerialInv => ReportWhole
    BY DEF SerialInv
  <1>2. Spec => []SerialInv
    BY SerialInvariance
  <1> QED
    BY <1>1, <1>2, PTL

\* Every step of runs that do not overlap is a step of the publication or a stutter.
LEMMA RefinedNext ==
    ~Overlap /\ TypeOK /\ SerialInv /\ [Next]_vars =>
        [Publication!Next]_<<report, {v \in Verifiers : pc[v] = "done"}>>
  <1> DEFINE told == {v \in Verifiers : pc[v] = "done"}
  <1> SUFFICES ASSUME ~Overlap, TypeOK, SerialInv, [Next]_vars
               PROVE  Publication!Next \/ UNCHANGED <<report, told>>
    OBVIOUS
  <1>1. ASSUME NEW u \in Verifiers, Step(u) PROVE Publication!Next \/ UNCHANGED <<report, told>>
    <2>1. \A v \in Verifiers \ {u} : pc'[v] = pc[v]
      BY <1>1, StepTouchesOnly
    <2>2. CASE ReplaceReport(u)
      <3>1. report = None /\ report' = u /\ pc[u] = "replace" /\ pc'[u] = "replaced"
        BY <2>2, NoneAssumption, GotoEffect DEF ReplaceReport, SerialInv, SerialRun
      <3>2. told' = told
        BY <2>1, <3>1
      <3> QED
        BY <3>1, <3>2 DEF Publication!Next, Publication!Publish
    <2>3. CASE Succeed(u)
      <3>1. report = u /\ report' = report /\ pc'[u] = "done"
        BY <2>3, GotoEffect DEF Succeed, SerialInv, SerialRun, outputs
      <3>2. told' = told \cup {u}
        BY <2>1, <3>1
      <3> QED
        BY <3>1, <3>2 DEF Publication!Next, Publication!Acknowledge
    <2>4. CASE ~ReplaceReport(u) /\ ~Succeed(u)
      <3>1. pc[u] # "done" /\ pc'[u] # "done" /\ report' = report
        BY <1>1, <2>4, GotoEffect
           DEF Step, HashInput, CopyInput, VerifyCopies, RecheckInput, CheckReport, CheckTemp, OpenTemp,
               WriteReport, SyncReport, UnlinkTemp, outputs
      <3> QED
        BY <2>1, <3>1
    <2> QED
      BY <2>2, <2>3, <2>4
  <1>2. ASSUME NEW u \in Verifiers, Begin(u) \/ Interrupt(u) \/ Crash(u) PROVE UNCHANGED <<report, told>>
    <2>1. \E step \in {"refused", "hash", "failed", "stuck", "unlink", "dead"} : Goto(u, step)
      BY <1>2 DEF Begin, Interrupt, Crash
    <2>2. pc[u] # "done" /\ report' = report
      BY <1>2, StepsAre DEF Begin, Interrupt, Crash, outputs
    <2>3. pc'[u] # "done" /\ \A v \in Verifiers \ {u} : pc'[v] = pc[v]
      BY <2>1, GotoEffect
    <2> QED
      BY <2>2, <2>3
  <1>3. ASSUME UNCHANGED <<pc, outputs>> PROVE UNCHANGED <<report, told>>
    BY <1>3 DEF outputs
  <1> QED
    BY <1>1, <1>2, <1>3 DEF Next, Finished, vars, ChangeInput

\* The report path is a write-once publication, when runs do not overlap.
THEOREM ImplementsPublication == ~Overlap => (Spec => PublicationSpec)
  <1> SUFFICES ASSUME ~Overlap PROVE Spec => PublicationSpec
    OBVIOUS
  <1>1. Init => Publication!Init
    BY DEF Init, Publication!Init
  <1>2. TypeOK /\ SerialInv /\ [Next]_vars => [Publication!Next]_<<report, {v \in Verifiers : pc[v] = "done"}>>
    BY RefinedNext
  <1>3. Spec => []SerialInv
    BY SerialInvariance
  <1> QED
    BY <1>1, <1>2, <1>3, TypeCorrect, PTL DEF Spec, PublicationSpec, Publication!Spec
=============================================================================
