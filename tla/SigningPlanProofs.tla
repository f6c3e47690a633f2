--------------------------- MODULE SigningPlanProofs ---------------------------
(***************************************************************************)
(* Proofs about SigningPlan, for any source keys, names and policy.        *)
(***************************************************************************)
EXTENDS SigningPlan, TLAPS

\* From CheckFixed on the fixed names are in use; a stem has a role only then.
NamesInv ==
    pc \notin {"fixed", "refused"} \/ Planned # {} =>
        /\ {ReleaseKey} \cup apexes \cup avb \subseteq used
        /\ ReleaseKey \notin apexes \cup avb

\* What the loop over the stems maintains.
RolesInv ==
    \A s \in Planned :
        /\ role[s] \in used
        /\ role[s] = ReleaseKey <=> ToReleaseKey(s)
        /\ role[s] \notin apexes \cup avb
        /\ \A t \in Planned : role[s] = role[t] /\ s # t => role[s] = ReleaseKey

PolicySteps == {"rewrite", "topology", "commands", "done"}

\* How far the loop has come at each step.
ProgressInv ==
    /\ pc \in {"fixed", "extra"} => Planned = {}
    /\ pc \in {"map", "certificates"} \cup PolicySteps => ~ExtraCollides
    /\ pc = "map" => todo \subseteq apk \cup extra /\ Planned = (apk \cup extra) \ todo
    /\ pc \in {"certificates"} \cup PolicySteps => Planned = apk \cup extra
    /\ pc = "done" => kmap = [s \in Stems |-> IF s # TestKey /\ s \notin extra
                                              THEN role[s] ELSE Unmapped]

\* What an accepted signer becomes.
Becomes(e) == IF e.seinfo \in DOMAIN Expected
                THEN [e EXCEPT !.sig = Release[Expected[e.seinfo]]] ELSE e

\* Every signer that was read was accepted, and rewritten accordingly.
PolicyInv ==
    /\ pc \notin PolicySteps \cup {"refused"} =>
         old = {} /\ new = {} /\ occ = [r \in Required |-> <<>>]
    /\ pc \in PolicySteps =>
         /\ CertificatesFit
         /\ new = {Becomes(e) : e \in old}
         /\ \A e \in old :
              /\ e.sig \notin {Release[n] : n \in Names}
              /\ e.seinfo \in DOMAIN Expected => Candidates(e.sig) = {Expected[e.seinfo]}
              /\ e.seinfo \notin DOMAIN Expected => Candidates(e.sig) = {}
         /\ \A r \in Required : occ[r] # <<>> => Derived(r) # {}
    /\ pc \in {"commands", "done"} => TopologyFits

IInv == TypeOK /\ NamesInv /\ RolesInv /\ ProgressInv /\ PolicyInv

-----------------------------------------------------------------------------
LEMMA InitIInv == Init => IInv
<1> SUFFICES ASSUME Init PROVE IInv
  OBVIOUS
<1> USE DEF Init
<1>1. Planned = {}
  BY PlanNamesAssumption DEF Planned
<1>2. 1 \in 1..Len(Members)
  BY PlanPolicyAssumption
<1>3. TypeOK
  BY <1>2, PlanReleaseAssumption, PlanPolicyAssumption, PlanNamesAssumption DEF TypeOK, Steps, Roles
<1>4. NamesInv /\ RolesInv /\ ProgressInv /\ PolicyInv
  BY <1>1 DEF NamesInv, RolesInv, ProgressInv, PolicyInv, PolicySteps
<1>. QED BY <1>3, <1>4 DEF IInv

\* A refusal changes nothing but pc.
LEMMA RefuseIInv == IInv /\ Refuse => IInv'
<1> SUFFICES ASSUME IInv, Refuse PROVE IInv'
  OBVIOUS
<1> USE DEF IInv, Refuse, metadata, plan, policy
<1>1. Planned' = Planned
  BY DEF Planned
<1>2. TypeOK'
  BY DEF TypeOK, Steps
<1>3. NamesInv'
  BY <1>1 DEF NamesInv, ProgressInv
<1>4. RolesInv'
  BY <1>1 DEF RolesInv, ToReleaseKey
<1>5. ProgressInv' /\ PolicyInv'
  BY DEF ProgressInv, PolicyInv, PolicySteps
<1>. QED BY <1>2, <1>3, <1>4, <1>5

\* Steps that read neither a stem nor a signer leave plan and policy alone.
LEMMA ChecksIInv ==
    ASSUME IInv, CheckFixed \/ CheckExtra \/ PlanComplete \/ CheckCertificates
    PROVE  IInv'
<1> USE DEF IInv, metadata, plan, policy
<1>1. CASE Refuse
  BY <1>1, RefuseIInv
<1>2. CASE CheckFixed /\ ~Refuse
  <2> USE <1>2 DEF CheckFixed
  <2>1. Planned' = Planned
    BY DEF Planned
  <2>2. TypeOK'
    BY PlanNamesAssumption DEF TypeOK, Steps
  <2>3. NamesInv' /\ RolesInv'
    BY <2>1 DEF NamesInv, RolesInv, ProgressInv, FixedCollide
  <2>4. ProgressInv' /\ PolicyInv'
    BY <2>1 DEF ProgressInv, PolicyInv, PolicySteps
  <2>. QED BY <2>2, <2>3, <2>4
<1>3. CASE CheckExtra /\ ~Refuse
  <2> USE <1>3 DEF CheckExtra
  <2>1. Planned' = Planned
    BY DEF Planned
  <2>2. TypeOK'
    BY DEF TypeOK, Steps
  <2>3. NamesInv' /\ RolesInv'
    BY <2>1 DEF NamesInv, RolesInv, ProgressInv
  <2>4. ProgressInv' /\ PolicyInv'
    BY <2>1 DEF ProgressInv, PolicyInv, PolicySteps, ExtraCollides
  <2>. QED BY <2>2, <2>3, <2>4
<1>4. CASE PlanComplete
  <2> USE <1>4 DEF PlanComplete
  <2>1. Planned' = Planned
    BY DEF Planned
  <2>2. TypeOK'
    BY DEF TypeOK, Steps
  <2>3. NamesInv' /\ RolesInv'
    BY <2>1 DEF NamesInv, RolesInv, ToReleaseKey
  <2>4. ProgressInv' /\ PolicyInv'
    BY <2>1 DEF ProgressInv, PolicyInv, PolicySteps, ExtraCollides
  <2>. QED BY <2>2, <2>3, <2>4
<1>5. CASE CheckCertificates /\ ~Refuse
  <2> USE <1>5 DEF CheckCertificates
  <2>1. Planned' = Planned /\ CertificatesFit'
    <3>1. CertificatesFit /\ UNCHANGED <<metadata, plan, policy, kmap>>
      BY DEF Refuse
    <3>2. Planned' = Planned
      BY <3>1 DEF Planned
    <3>. QED BY <3>1, <3>2 DEF CertificatesFit, AndroidRoles, SourceCerts
  <2>2. TypeOK'
    BY DEF TypeOK, Steps
  <2>3. NamesInv' /\ RolesInv'
    BY <2>1 DEF NamesInv, RolesInv, ToReleaseKey
  <2>4. ProgressInv' /\ PolicyInv'
    BY <2>1 DEF ProgressInv, PolicyInv, PolicySteps, ExtraCollides
  <2>. QED BY <2>2, <2>3, <2>4
<1>. QED BY <1>1, <1>2, <1>3, <1>4, <1>5

\* Giving a stem a name keeps the roles apart: releasekey to those that stand
\* for it, a name not in use to any other.
LEMMA GiveIInv ==
    ASSUME IInv, pc = "map", NEW s \in Stems, s \in todo, NEW name \in Names, Give(s, name),
           \/ ToReleaseKey(s) /\ name = ReleaseKey /\ used' = used
           \/ ~ToReleaseKey(s) /\ name \notin used /\ used' = used \cup {name}
    PROVE  IInv'
<1> USE DEF IInv, Give, metadata, policy
<1>1. s \notin Planned
  BY DEF ProgressInv
<1>2. Planned' = Planned \cup {s}
  BY PlanNamesAssumption DEF Planned, TypeOK
<1>3. role'[s] = name /\ \A t \in Planned : role'[t] = role[t]
  BY <1>1 DEF TypeOK, Planned
<1>4. {ReleaseKey} \cup apexes \cup avb \subseteq used /\ ReleaseKey \notin apexes \cup avb
  BY DEF NamesInv
<1>5. TypeOK'
  BY DEF TypeOK, Roles
<1>6. NamesInv'
  BY <1>4 DEF NamesInv
<1>7. RolesInv'
  <2>1. \A t \in Planned : role[t] \in used
    BY DEF RolesInv
  <2>. QED BY <1>1, <1>2, <1>3, <1>4, <2>1 DEF RolesInv, ToReleaseKey
<1>8. ProgressInv'
  BY <1>1, <1>2 DEF ProgressInv, PolicySteps, ExtraCollides
<1>9. PolicyInv'
  BY DEF PolicyInv, PolicySteps
<1>. QED BY <1>5, <1>6, <1>7, <1>8, <1>9

LEMMA MapIInv == IInv /\ MapStem => IInv'
<1> SUFFICES ASSUME IInv, NEW s \in Stems, pc = "map",
                    MapToReleaseKey(s) \/ MapToBasename(s) \/ MapToSuffixed(s)
             PROVE  IInv'
  BY DEF MapStem
<1>1. CASE MapToReleaseKey(s)
  BY <1>1, GiveIInv, PlanNamesAssumption DEF MapToReleaseKey, Foremost
<1>2. CASE MapToBasename(s)
  BY <1>2, GiveIInv, PlanNamesAssumption DEF MapToBasename, Foremost, BasenameFree
<1>3. CASE MapToSuffixed(s)
  BY <1>3, GiveIInv, RefuseIInv, PlanNamesAssumption DEF MapToSuffixed, Foremost
<1>. QED BY <1>1, <1>2, <1>3

\* Reading a signer adds it to both policies.
LEMMA ReadIInv == IInv /\ ReadSigner => IInv'
<1> SUFFICES ASSUME IInv, pc = "rewrite", signers < MaxSigners,
                    NEW x \in Seinfos, NEW c \in Certs \ {Release[r] : r \in Names},
                    LET e == [member |-> Members[doc], seinfo |-> x, sig |-> c]
                    IN  ReplaceSigner(e) \/ KeepSigner(e) \/ RefuseSigner(e)
             PROVE  IInv'
  BY DEF ReadSigner
<1> DEFINE e == [member |-> Members[doc], seinfo |-> x, sig |-> c]
<1>1. CASE RefuseSigner(e)
  BY <1>1, RefuseIInv DEF RefuseSigner
<1>2. CASE ReplaceSigner(e) \/ KeepSigner(e)
  <2>1. e \in Signers /\ e.seinfo = x /\ e.sig = c /\ e.member \in Documents
    BY PlanPolicyAssumption DEF IInv, TypeOK, Signers, Documents
  <2> HIDE DEF e
  <2>2. /\ old' = old \cup {e} /\ new' = new \cup {Becomes(e)} /\ signers' = signers + 1
        /\ UNCHANGED <<metadata, pc, plan, doc, kmap>>
    <3>1. [e EXCEPT !.sig = e.sig] = e
      BY <2>1 DEF Signers
    <3>. QED BY <1>2, <3>1 DEF ReplaceSigner, KeepSigner, Read, Becomes
  <2>3. /\ x \in DOMAIN Expected => Candidates(c) = {Expected[x]}
        /\ x \notin DOMAIN Expected => Candidates(c) = {}
    BY <1>2, <2>1 DEF ReplaceSigner, KeepSigner
  <2>4. Becomes(e) \in Signers
    BY <2>1, PlanReleaseAssumption, PlanPolicyAssumption DEF Becomes, Signers, Required
  <2>5. \A r \in Required :
            /\ occ'[r] \in Seq(Documents)
            /\ (occ'[r] = occ[r] \/ (x \in DOMAIN Expected /\ r = Expected[x]))
    <3>1. \A q \in Seq(Documents) : Append(q, e.member) \in Seq(Documents)
      BY <2>1
    <3>2. occ \in [Required -> Seq(Documents)]
      BY DEF IInv, TypeOK
    <3>3. CASE ReplaceSigner(e)
      BY <2>1, <3>1, <3>2, <3>3 DEF ReplaceSigner
    <3>4. CASE KeepSigner(e)
      BY <3>2, <3>4 DEF KeepSigner
    <3>. QED BY <1>2, <3>3, <3>4
  <2>6. TypeOK'
    <3>1. occ' \in [Required -> Seq(Documents)]
      BY <1>2, <2>1, <2>5 DEF ReplaceSigner, KeepSigner, IInv, TypeOK
    <3>2. signers' \in 0..MaxSigners
      BY <2>2, PlanPolicyAssumption DEF IInv, TypeOK
    <3>. QED BY <2>1, <2>2, <2>4, <3>1, <3>2 DEF IInv, TypeOK, metadata, plan
  <2>7. Planned' = Planned /\ \A d \in Certs : Candidates(d)' = Candidates(d)
    BY <2>2 DEF Planned, Candidates, metadata, plan
  <2>8. NamesInv' /\ RolesInv' /\ ProgressInv'
    BY <2>2, <2>7 DEF IInv, NamesInv, RolesInv, ProgressInv, ToReleaseKey, ExtraCollides,
                      PolicySteps, metadata, plan
  <2>9. CertificatesFit'
    <3>1. CertificatesFit
      BY DEF IInv, PolicyInv, PolicySteps
    <3>. QED BY <2>2, <2>7, <3>1 DEF CertificatesFit, AndroidRoles, SourceCerts, metadata, plan
  <2>10. new' = {Becomes(f) : f \in old'}
    BY <2>2 DEF IInv, PolicyInv, PolicySteps
  <2>11. \A f \in old' :
              /\ f.sig \notin {Release[n] : n \in Names}
              /\ f.seinfo \in DOMAIN Expected => Candidates(f.sig)' = {Expected[f.seinfo]}
              /\ f.seinfo \notin DOMAIN Expected => Candidates(f.sig)' = {}
    <3>1. \A f \in old : f.sig \in Certs
      BY DEF IInv, TypeOK, Signers
    <3>2. \A f \in old :
              /\ f.sig \notin {Release[n] : n \in Names}
              /\ f.seinfo \in DOMAIN Expected => Candidates(f.sig) = {Expected[f.seinfo]}
              /\ f.seinfo \notin DOMAIN Expected => Candidates(f.sig) = {}
      BY DEF IInv, PolicyInv, PolicySteps
    <3>. QED BY <2>1, <2>2, <2>3, <2>7, <3>1, <3>2
  <2>12. \A r \in Required : occ'[r] # <<>> => Derived(r)' # {}
    <3> SUFFICES ASSUME NEW r \in Required, occ'[r] # <<>> PROVE Derived(r)' # {}
      OBVIOUS
    <3>1. CASE occ'[r] = occ[r]
      <4>1. Derived(r) # {}
        BY <3>1 DEF IInv, PolicyInv, PolicySteps
      <4>. QED BY <4>1, <2>2 DEF Derived
    <3>2. CASE x \in DOMAIN Expected /\ r = Expected[x]
      <4>1. e \in old' /\ e.seinfo \in DOMAIN Expected /\ Expected[e.seinfo] = r
        BY <2>1, <2>2, <3>2
      <4>. QED BY <4>1 DEF Derived
    <3>. QED BY <2>5, <3>1, <3>2
  <2>13. PolicyInv'
    BY <2>2, <2>9, <2>10, <2>11, <2>12 DEF PolicyInv, PolicySteps
  <2>. QED BY <2>6, <2>8, <2>13 DEF IInv
<1>. QED BY <1>1, <1>2

\* The end of a document, of the topology check and of the commands.
LEMMA LastStepsIInv ==
    ASSUME IInv, NextDocument \/ CheckTopology \/ BuildCommands PROVE IInv'
<1>1. CASE Refuse
  BY <1>1, RefuseIInv
<1>2. CASE ~Refuse
  <2>1. /\ UNCHANGED <<metadata, plan, old, new, occ>>
        /\ pc \in PolicySteps \ {"done"} /\ pc' \in PolicySteps
    BY <1>2 DEF NextDocument, CheckTopology, BuildCommands, PolicySteps, policy
  <2>2. /\ Planned' = Planned
        /\ \A d \in Certs : Candidates(d)' = Candidates(d)
        /\ \A r \in Required : Derived(r)' = Derived(r)
    BY <2>1 DEF Planned, Candidates, Derived, metadata, plan
  <2>3. TypeOK'
    <3>1. CASE NextDocument
      BY <3>1, <2>1, PlanPolicyAssumption DEF IInv, TypeOK, NextDocument, Steps, metadata, plan
    <3>2. CASE CheckTopology
      BY <3>2, <1>2 DEF IInv, TypeOK, CheckTopology, Steps, metadata, plan, policy
    <3>3. CASE BuildCommands
      BY <3>3 DEF IInv, TypeOK, BuildCommands, Steps, Roles, metadata, plan, policy
    <3>. QED BY <3>1, <3>2, <3>3
  <2>4. NamesInv' /\ RolesInv'
    BY <2>1, <2>2 DEF IInv, NamesInv, RolesInv, ToReleaseKey, PolicySteps, metadata, plan
  <2>5. ProgressInv'
    <3>1. ~ExtraCollides /\ Planned = apk \cup extra
      BY <2>1 DEF IInv, ProgressInv
    <3>2. pc' = "done" => kmap' = [s \in Stems |-> IF s # TestKey /\ s \notin extra
                                                   THEN role[s] ELSE Unmapped]
      BY <2>1, <1>2 DEF NextDocument, CheckTopology, BuildCommands, PolicySteps
    <3>. QED BY <2>1, <2>2, <3>1, <3>2 DEF ProgressInv, PolicySteps, ExtraCollides, metadata, plan
  <2>6. PolicyInv'
    <3>1. CertificatesFit'
      <4>1. CertificatesFit
        BY <2>1 DEF IInv, PolicyInv
      <4>. QED BY <2>1, <2>2, <4>1 DEF CertificatesFit, AndroidRoles, SourceCerts, metadata, plan
    <3>2. new' = {Becomes(f) : f \in old'}
      BY <2>1 DEF IInv, PolicyInv
    <3>3. \A f \in old' :
              /\ f.sig \notin {Release[n] : n \in Names}
              /\ f.seinfo \in DOMAIN Expected => Candidates(f.sig)' = {Expected[f.seinfo]}
              /\ f.seinfo \notin DOMAIN Expected => Candidates(f.sig)' = {}
      <4>1. \A f \in old : f.sig \in Certs
        BY DEF IInv, TypeOK, Signers
      <4>. QED BY <2>1, <2>2, <4>1 DEF IInv, PolicyInv
    <3>4. \A r \in Required : occ'[r] # <<>> => Derived(r)' # {}
      BY <2>1, <2>2 DEF IInv, PolicyInv
    <3>5. pc' \in {"commands", "done"} => TopologyFits'
      BY <2>1, <1>2 DEF IInv, PolicyInv, TopologyFits, NextDocument, CheckTopology, BuildCommands, PolicySteps
    <3>. QED BY <2>1, <3>1, <3>2, <3>3, <3>4, <3>5 DEF PolicyInv, PolicySteps
  <2>. QED BY <2>3, <2>4, <2>5, <2>6 DEF IInv
<1>. QED BY <1>1, <1>2

LEMMA StutterIInv == IInv /\ UNCHANGED vars => IInv'
<1> SUFFICES ASSUME IInv, UNCHANGED vars PROVE IInv'
  OBVIOUS
<1> USE DEF IInv, vars, metadata, plan, policy
<1>1. TypeOK' /\ NamesInv' /\ RolesInv' /\ ProgressInv'
  BY DEF TypeOK, NamesInv, RolesInv, ProgressInv, Planned, ToReleaseKey, ExtraCollides
<1>2. Planned' = Planned /\ \A d : Candidates(d)' = Candidates(d) /\ SourceCerts(d)' = SourceCerts(d)
                         /\ Derived(d)' = Derived(d)
  BY DEF Planned, Candidates, SourceCerts, Derived
<1>3. (CertificatesFit <=> CertificatesFit') /\ (TopologyFits <=> TopologyFits')
  BY <1>2 DEF CertificatesFit, AndroidRoles, TopologyFits
<1>4. PolicyInv'
  BY <1>2, <1>3 DEF PolicyInv
<1>. QED BY <1>1, <1>4

LEMMA SpecIInv == Spec => []IInv
<1>1. IInv /\ [Next]_vars => IInv'
  BY ChecksIInv, MapIInv, ReadIInv, LastStepsIInv, StutterIInv DEF Next, Finished
<1>. QED BY <1>1, InitIInv, PTL DEF Spec

-----------------------------------------------------------------------------
\* Every variable keeps its type.
THEOREM TypeCorrect == Spec => []TypeOK
<1>. QED BY SpecIInv, PTL DEF IInv

\* No generated key stands for two source keys (but releasekey) or bears the
\* name of an APEX or AVB key, for any paths, names and order.
THEOREM RolesAreDistinct == Spec => []RolesDistinct
<1>1. IInv => RolesDistinct
  BY DEF IInv, RolesInv, RolesDistinct, ToReleaseKey
<1>. QED BY <1>1, SpecIInv, PTL

\* Every APK is signed with the key its source key has in the plan.
THEOREM AppsAreResigned == Spec => []EveryAppResigned
<1>1. IInv => EveryAppResigned
  <2> SUFFICES ASSUME IInv, pc = "done", NEW s \in apk
               PROVE  role[s] # Unmapped /\ SignedWith(s) = role[s]
    BY DEF EveryAppResigned
  <2>1. s \in Stems /\ s \in Planned /\ role[s] # Unmapped
    BY DEF IInv, TypeOK, ProgressInv, Planned, PolicySteps
  <2>2. s \in extra => s = TestKey
    BY DEF IInv, ProgressInv, ExtraCollides, PolicySteps
  <2>3. kmap[s] = IF s # TestKey /\ s \notin extra THEN role[s] ELSE Unmapped
    BY <2>1 DEF IInv, ProgressInv
  <2>4. s = TestKey => role[s] = ReleaseKey
    BY <2>1 DEF IInv, RolesInv, ToReleaseKey
  <2>. QED BY <2>1, <2>2, <2>3, <2>4, PlanDefaultAssumption DEF SignedWith
<1>. QED BY <1>1, SpecIInv, PTL

\* An accepted signer of a required role has the one source certificate of it.
LEMMA AcceptedSigner ==
    ASSUME IInv, pc \in PolicySteps, NEW e \in old, e.seinfo \in DOMAIN Expected
    PROVE  SourceCerts(Expected[e.seinfo]) = {e.sig}
<1>1. Expected[e.seinfo] \in Required /\ Candidates(e.sig) = {Expected[e.seinfo]}
  BY DEF IInv, PolicyInv, Required
<1>2. PICK t \in Planned : cert[t] = e.sig /\ role[t] = Expected[e.seinfo]
  BY <1>1 DEF Candidates
<1>3. e.sig \in SourceCerts(Expected[e.seinfo])
  BY <1>2 DEF SourceCerts, Planned
<1>4. \E c \in Certs : SourceCerts(Expected[e.seinfo]) = {c}
  BY <1>1 DEF IInv, PolicyInv, CertificatesFit
<1>. QED BY <1>3, <1>4

\* The verifier derives the signer's source certificates from the policy.
THEOREM VerifierAndSignerAgree == Spec => []VerifierAgrees
<1>1. IInv => VerifierAgrees
  <2> SUFFICES ASSUME IInv, pc = "done", NEW r \in Required
               PROVE  Derived(r) = SourceCerts(r)
    BY DEF VerifierAgrees
  <2>1. Derived(r) # {}
    BY PlanPolicyAssumption DEF IInv, PolicyInv, TopologyFits, PolicySteps
  <2>2. \A c \in Derived(r) : SourceCerts(r) = {c}
    BY AcceptedSigner DEF Derived, PolicySteps
  <2>. QED BY <2>1, <2>2
<1>. QED BY <1>1, SpecIInv, PTL

\* Every app has the seinfo it had before, under its release certificate.
THEOREM SeinfoIsKept == Spec => []AppsKeepTheirSeinfo
<1>1. IInv => AppsKeepTheirSeinfo
  <2> SUFFICES ASSUME IInv, pc = "done", NEW s \in apk
               PROVE  SeinfosOf(new, Release[role[s]]) = SeinfosOf(old, cert[s])
    BY DEF AppsKeepTheirSeinfo
  <2>1. s \in Stems /\ s \in Planned /\ role[s] \in Names
    BY DEF IInv, TypeOK, ProgressInv, Planned, Roles, PolicySteps
  <2>2. new = {Becomes(e) : e \in old} /\ old \subseteq Signers
    BY DEF IInv, TypeOK, PolicyInv, PolicySteps
  <2>3. \A e \in old : Becomes(e).seinfo = e.seinfo
    BY <2>2 DEF Becomes, Signers
  <2>4. ASSUME NEW e \in old PROVE Becomes(e).sig = Release[role[s]] <=> e.sig = cert[s]
    <3>1. CASE e.seinfo \in DOMAIN Expected
      <4> DEFINE r == Expected[e.seinfo]
      <4>1. r \in Required /\ r \in Names
        BY <3>1, PlanPolicyAssumption DEF Required
      <4>2. Becomes(e).sig = Release[r]
        BY <3>1, <2>2 DEF Becomes, Signers
      <4>3. Candidates(e.sig) = {r} /\ SourceCerts(r) = {e.sig}
        BY <3>1, AcceptedSigner DEF IInv, PolicyInv, PolicySteps
      <4>4. e.sig = cert[s] => role[s] = r
        BY <2>1, <4>3 DEF Candidates
      <4>5. role[s] = r => e.sig = cert[s]
        BY <2>1, <4>3 DEF SourceCerts
      <4>6. Release[r] = Release[role[s]] <=> r = role[s]
        BY <2>1, <4>1, PlanReleaseAssumption
      <4>. QED BY <4>2, <4>4, <4>5, <4>6
    <3>2. CASE e.seinfo \notin DOMAIN Expected
      <4>1. Becomes(e) = e /\ Candidates(e.sig) = {} /\ e.sig \notin {Release[n] : n \in Names}
        BY <3>2 DEF Becomes, IInv, PolicyInv, PolicySteps
      <4>2. e.sig # cert[s]
        BY <4>1, <2>1 DEF Candidates
      <4>. QED BY <4>1, <4>2, <2>1
    <3>. QED BY <3>1, <3>2
  <2>. QED BY <2>2, <2>3, <2>4 DEF SeinfosOf
<1>. QED BY <1>1, SpecIInv, PTL
=============================================================================
