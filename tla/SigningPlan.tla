------------------------------ MODULE SigningPlan ------------------------------
(***************************************************************************)
(* Which release key replaces which build key.                             *)
(*                                                                         *)
(* build_key_plan of scripts/ubuntu/generate_release_keys.py gives every   *)
(* source key of the build a role; rewrite_mac_permissions of              *)
(* selinux_signing.py puts the release certificate of a role in the place  *)
(* of its source certificate in the SELinux signer policy; and             *)
(* build_signing_commands of sign_release.py tells the signing tool which  *)
(* key to use for which source key.  The three have to agree, and each     *)
(* refuses metadata with which they might not.                             *)
(*                                                                         *)
(* A stem (the path of a source key without its suffix), a name and a      *)
(* certificate are values that are only compared.  The signers of the      *)
(* policy are chosen as they are read: nothing looks at them earlier.      *)
(***************************************************************************)
EXTENDS Naturals, Sequences

CONSTANTS
    Stems,       \* the source keys
    TestKey,     \* _DEFAULT_ANDROID_TEST_KEY
    Rank,        \* their order, sorted()
    Names,       \* names of output keys
    ReleaseKey,  \* "releasekey"
    Unmapped,    \* a stem without a role
    Base,        \* the last component of a stem
    Suffixed,    \* the same with the first digits of the stem's hash
    ApexNames,   \* the key names of the APEXes the metadata may list
    AvbNames,    \* avb_<partition> of the partitions it may list
    Default,     \* the roles that -d alone makes the signing tool use
    Certs,       \* the certificates of source keys, and others in the policy
    CertsOf,     \* the certificates the stems may have
    Release,     \* the release certificate of each name
    Seinfos,     \* the seinfo values of the policy
    Expected,    \* EXPECTED_SEINFO_ROLES
    Members,     \* the policy documents of the archive, in sorted order
    Topology,    \* EXPECTED_ROLE_TOPOLOGY
    MaxSigners   \* bound: the signers of one document

Roles    == Names \cup {Unmapped}
Required == {Expected[x] : x \in DOMAIN Expected}
Documents == {Members[i] : i \in 1..Len(Members)}
Signers  == [member : Documents, seinfo : Seinfos, sig : Certs]

ASSUME PlanNamesAssumption ==
    /\ TestKey \in Stems /\ ReleaseKey \in Names /\ Unmapped \notin Names
    /\ Rank \in [Stems -> Nat] /\ \A s, t \in Stems : Rank[s] = Rank[t] => s = t
    /\ Base \in [Stems -> Names] /\ Suffixed \in [Stems -> Names]
    /\ ApexNames \subseteq Names /\ AvbNames \subseteq Names
\* An external fact: "-d ." signs what has the default test key with releasekey.
ASSUME PlanDefaultAssumption ==
    Default \in [Stems -> Roles] /\ Default[TestKey] = ReleaseKey
\* A keyset's certificates are new: no build and no other role has them.
ASSUME PlanReleaseAssumption ==
    /\ Release \in [Names -> Certs]
    /\ \A r, q \in Names : Release[r] = Release[q] => r = q
    /\ CertsOf \subseteq [Stems -> Certs \ {Release[r] : r \in Names}]
ASSUME PlanPolicyAssumption ==
    /\ DOMAIN Expected \subseteq Seinfos /\ Required \subseteq Names \ {ReleaseKey}
    /\ \A x, y \in DOMAIN Expected : Expected[x] = Expected[y] => x = y
    /\ Members \in Seq(Documents) \ {<<>>} /\ Topology \in [Required -> Seq(Documents) \ {<<>>}]
    /\ MaxSigners \in Nat

VARIABLES
    apk,      \* the stems in META/apkcerts.txt
    extra,    \* the stems of extra_recovery_keys, extra_ota_keys and otakeys.txt
    apexes,   \* the key names of the APEXes that are not presigned
    avb,      \* the names of the AVB keys
    cert,     \* the certificate beside each source key
    pc,       \* what is done next
    todo,     \* the stems that have no role yet
    used,     \* used_roles
    role,     \* android_mappings: the role of each stem
    doc,      \* which policy document is being read
    signers,  \* how many signers of it have been read
    old, new, \* the signers read so far, and what they became
    occ,      \* the documents each required role occurred in
    kmap      \* the -k options of sign_target_files_apks

metadata == <<apk, extra, apexes, avb, cert>>
plan     == <<todo, used, role>>
policy   == <<doc, signers, old, new, occ>>
vars     == <<metadata, pc, plan, policy, kmap>>

Steps == {"fixed", "extra", "map", "certificates", "rewrite", "topology", "commands", "done", "refused"}

TypeOK == /\ apk \subseteq Stems /\ extra \subseteq Stems
          /\ apexes \subseteq ApexNames /\ avb \subseteq AvbNames
          /\ cert \in [Stems -> Certs]
          /\ pc \in Steps
          /\ todo \subseteq Stems /\ used \subseteq Names
          /\ role \in [Stems -> Roles]
          /\ doc \in 1..Len(Members) /\ signers \in 0..MaxSigners
          /\ old \subseteq Signers /\ new \subseteq Signers
          /\ occ \in [Required -> Seq(Documents)]
          /\ kmap \in [Stems -> Roles]

Init == /\ apk \in SUBSET Stems /\ extra \in SUBSET Stems
        /\ apexes \in SUBSET ApexNames /\ avb \in SUBSET AvbNames
        /\ cert \in CertsOf
        /\ pc = "fixed"
        /\ todo = {} /\ used = {} /\ role = [s \in Stems |-> Unmapped]
        /\ doc = 1 /\ signers = 0 /\ old = {} /\ new = {}
        /\ occ = [r \in Required |-> <<>>]
        /\ kmap = [s \in Stems |-> Unmapped]

Planned == {s \in Stems : role[s] # Unmapped}

Refuse == pc' = "refused" /\ UNCHANGED <<metadata, plan, policy, kmap>>

-----------------------------------------------------------------------------
(* build_key_plan                                                          *)

\* The output names that do not come from a stem collide.
FixedCollide == (apexes \cap avb # {}) \/ ReleaseKey \in apexes \cup avb

CheckFixed ==
    /\ pc = "fixed"
    /\ \/ FixedCollide /\ Refuse
       \/ /\ ~FixedCollide
          /\ pc' = "extra"
          /\ used' = {ReleaseKey} \cup apexes \cup avb
          /\ UNCHANGED <<metadata, todo, role, policy, kmap>>

\* A faulty variant: the stems are not compared.
ExtraUnchecked == FALSE

\* An APK is signed with a key whose certificate the OTA trusts as well.
ExtraCollides == (apk \cap extra) \ {TestKey} # {}

CheckExtra ==
    /\ pc = "extra"
    /\ \/ ExtraCollides /\ Refuse
       \/ /\ ~ExtraCollides
          /\ pc' = "map"
          /\ todo' = apk \cup extra
          /\ UNCHANGED <<metadata, used, role, policy, kmap>>

Foremost(s) == s \in todo /\ \A t \in todo : Rank[s] <= Rank[t]

Give(s, name) ==
    /\ role' = [role EXCEPT ![s] = name]
    /\ todo' = todo \ {s}
    /\ UNCHANGED <<metadata, pc, policy, kmap>>

ToReleaseKey(s) == s = TestKey \/ s \in extra

\* A faulty variant: names that were given already are not looked at.
OnlyBasename(s) == \A t \in apk \cup extra : Base[t] = Base[s] => t = s

\* The last component names the key unless another stem has it or it is in use.
BasenameFree(s) == /\ \A t \in apk \cup extra : Base[t] = Base[s] => t = s
                   /\ Base[s] \notin used

MapToReleaseKey(s) == Foremost(s) /\ ToReleaseKey(s) /\ Give(s, ReleaseKey) /\ UNCHANGED used

MapToBasename(s) ==
    /\ Foremost(s) /\ ~ToReleaseKey(s) /\ BasenameFree(s)
    /\ Give(s, Base[s])
    /\ used' = used \cup {Base[s]}

MapToSuffixed(s) ==
    /\ Foremost(s) /\ ~ToReleaseKey(s) /\ ~BasenameFree(s)
    /\ \/ Suffixed[s] \in used /\ Refuse
       \/ /\ Suffixed[s] \notin used
          /\ Give(s, Suffixed[s])
          /\ used' = used \cup {Suffixed[s]}

MapStem == \E s \in Stems : /\ pc = "map"
                            /\ MapToReleaseKey(s) \/ MapToBasename(s) \/ MapToSuffixed(s)

PlanComplete ==
    /\ pc = "map" /\ todo = {}
    /\ pc' = "certificates"
    /\ UNCHANGED <<metadata, plan, policy, kmap>>

-----------------------------------------------------------------------------
(* rewrite_mac_permissions                                                 *)

\* _load_source_certificates: what the stems of a role are certified with.
SourceCerts(r) == {cert[s] : s \in {t \in Stems : role[t] = r}}

\* source_roles: the roles with this certificate.
Candidates(c) == {role[s] : s \in {t \in Planned : cert[t] = c}}

AndroidRoles == {ReleaseKey} \cup {role[s] : s \in Planned}

CertificatesFit ==
    /\ Required \subseteq AndroidRoles
    /\ \A r \in Required : \E c \in Certs : SourceCerts(r) = {c} /\ Release[r] # c
    /\ \A r, q \in Required : Release[r] = Release[q] => r = q

CheckCertificates ==
    /\ pc = "certificates"
    /\ \/ ~CertificatesFit /\ Refuse
       \/ CertificatesFit /\ pc' = "rewrite" /\ UNCHANGED <<metadata, plan, policy, kmap>>

Read(e, becomes) ==
    /\ old' = old \cup {e}
    /\ new' = new \cup {[e EXCEPT !.sig = becomes]}
    /\ signers' = signers + 1
    /\ UNCHANGED <<metadata, pc, plan, doc, kmap>>

\* A faulty variant: another role may have the same certificate.
ReplaceAmbiguous(e) ==
    /\ e.seinfo \in DOMAIN Expected
    /\ Expected[e.seinfo] \in Candidates(e.sig)
    /\ Read(e, Release[Expected[e.seinfo]])
    /\ occ' = [occ EXCEPT ![Expected[e.seinfo]] = Append(@, e.member)]

ReplaceSigner(e) ==
    /\ e.seinfo \in DOMAIN Expected
    /\ Candidates(e.sig) = {Expected[e.seinfo]}
    /\ Read(e, Release[Expected[e.seinfo]])
    /\ occ' = [occ EXCEPT ![Expected[e.seinfo]] = Append(@, e.member)]

KeepSigner(e) ==
    /\ e.seinfo \notin DOMAIN Expected
    /\ Candidates(e.sig) = {}
    /\ Read(e, e.sig)
    /\ UNCHANGED occ

RefuseSigner(e) ==
    /\ \/ e.seinfo \in DOMAIN Expected /\ Candidates(e.sig) # {Expected[e.seinfo]}
       \/ e.seinfo \notin DOMAIN Expected /\ Candidates(e.sig) # {}
    /\ Refuse

\* The certificates of a keyset that is made later are not in the policy.
ReadSigner ==
    /\ pc = "rewrite" /\ signers < MaxSigners
    /\ \E x \in Seinfos, c \in Certs \ {Release[r] : r \in Names} :
          LET e == [member |-> Members[doc], seinfo |-> x, sig |-> c]
          IN  ReplaceSigner(e) \/ KeepSigner(e) \/ RefuseSigner(e)

\* A faulty variant: the loop does not stop at the last document.
OneDocumentMore ==
    /\ pc = "rewrite"
    /\ doc' = doc + 1 /\ signers' = 0
    /\ pc' = IF doc' > Len(Members) THEN "topology" ELSE pc
    /\ UNCHANGED <<metadata, plan, old, new, occ, kmap>>

NextDocument ==
    /\ pc = "rewrite"
    /\ \/ doc < Len(Members) /\ doc' = doc + 1 /\ signers' = 0 /\ UNCHANGED pc
       \/ doc = Len(Members) /\ pc' = "topology" /\ UNCHANGED <<doc, signers>>
    /\ UNCHANGED <<metadata, plan, old, new, occ, kmap>>

\* A faulty variant: a role that occurs nowhere is fine.
OccurrencesFit == \A r \in Required : occ[r] \in {Topology[r], <<>>}

\* _require_exact_role_topology
TopologyFits == \A r \in Required : occ[r] = Topology[r]

CheckTopology ==
    /\ pc = "topology"
    /\ \/ ~TopologyFits /\ Refuse
       \/ TopologyFits /\ pc' = "commands" /\ UNCHANGED <<metadata, plan, policy, kmap>>

-----------------------------------------------------------------------------
(* build_signing_commands                                                  *)

BuildCommands ==
    /\ pc = "commands"
    /\ kmap' = [s \in Stems |-> IF s # TestKey /\ s \notin extra THEN role[s] ELSE Unmapped]
    /\ pc' = "done"
    /\ UNCHANGED <<metadata, plan, policy>>

Finished == pc \in {"done", "refused"} /\ UNCHANGED vars

Next == \/ CheckFixed \/ CheckExtra \/ MapStem \/ PlanComplete
        \/ CheckCertificates \/ ReadSigner \/ NextDocument \/ CheckTopology
        \/ BuildCommands \/ Finished

Spec == Init /\ [][Next]_vars

-----------------------------------------------------------------------------
(* Properties.                                                             *)

\* Two source keys get the same role only if both stand for releasekey, and no
\* role has the name of an APEX or AVB key: a generated key never stands for
\* two keys of the build, however the last components of their paths, the
\* suffixed names and the names of APEXes coincide (used_roles).
RolesDistinct ==
    \A s \in Planned :
        /\ role[s] = ReleaseKey => s = TestKey \/ s \in extra
        /\ role[s] \notin apexes \cup avb
        /\ \A t \in Planned : role[s] = role[t] /\ s # t => role[s] = ReleaseKey

\* What sign_target_files_apks signs an APK with: -k before -d, else the source key.
SignedWith(s) == IF kmap[s] # Unmapped THEN kmap[s] ELSE Default[s]

\* Every APK is signed with the role its source key has in the plan, although
\* the commands leave out -k for the test key and the extra OTA keys and -d
\* names roles of its own: none keeps its build key.
EveryAppResigned ==
    pc = "done" => \A s \in apk : role[s] # Unmapped /\ SignedWith(s) = role[s]

SeinfosOf(signs, c) == {e.seinfo : e \in {f \in signs : f.sig = c}}

\* An app has the same seinfo under the new policy with its release
\* certificate as under the old one with its build certificate, also when
\* several source keys share a certificate (candidates of
\* rewrite_mac_permissions).
AppsKeepTheirSeinfo ==
    pc = "done" => \A s \in apk : SeinfosOf(new, Release[role[s]]) = SeinfosOf(old, cert[s])

\* What the verifier derives from the unsigned policy alone
\* (expected_source_certificates).
Derived(r) == {e.sig : e \in {f \in old : f.seinfo \in DOMAIN Expected /\ Expected[f.seinfo] = r}}

\* The verifier, which has no source keys and reads the old certificates off
\* the unsigned policy, finds the same ones as the signer, who reads them
\* from the source tree; so it expects the same rewritten policy.
VerifierAgrees == pc = "done" => \A r \in Required : Derived(r) = SourceCerts(r)
=============================================================================
