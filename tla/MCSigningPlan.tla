----------------------------- MODULE MCSigningPlan -----------------------------
\* A small instance of SigningPlan: two stems with one last component, a stem
\* whose last component is the suffixed name of another, an APEX with the name
\* of a stem, source keys that share a certificate, and two required roles.
EXTENDS SigningPlan, TLC

MCStems    == {"testkey", "platform1", "odd", "platform2", "network"}
MCRank     == "network" :> 1 @@ "platform1" :> 2 @@ "odd" :> 3 @@ "testkey" :> 4 @@ "platform2" :> 5
MCBase     == "testkey" :> "testkey" @@ "platform1" :> "platform" @@ "odd" :> "platform-2"
                @@ "platform2" :> "platform" @@ "network" :> "networkstack"
MCSuffixed == "testkey" :> "testkey-t" @@ "platform1" :> "platform-1" @@ "odd" :> "platform-2-o"
                @@ "platform2" :> "platform-2" @@ "network" :> "networkstack-n"
MCNames    == {"releasekey", "avb_boot"} \cup {MCBase[s] : s \in MCStems} \cup {MCSuffixed[s] : s \in MCStems}
MCDefault  == [s \in MCStems |-> CASE s = "testkey" -> "releasekey"
                                   [] s = "platform1" -> "platform"
                                   [] s = "network" -> "networkstack"
                                   [] OTHER -> "none"]
MCRelease  == [n \in MCNames |-> <<"release", n>>]
Own        == [s \in MCStems |-> <<"build", s>>]
Foreign    == <<"build", "foreign">>
MCCerts    == {Own[s] : s \in MCStems} \cup {MCRelease[n] : n \in MCNames} \cup {Foreign}
\* Every stem its own, or one that shares its certificate with platform1.
MCCertsOf  == {Own} \cup {[Own EXCEPT ![s] = Own["platform1"]] : s \in {"platform2", "network", "odd"}}
MCSeinfos  == {"platform", "network_stack", "default"}
MCExpected == "platform" :> "platform" @@ "network_stack" :> "networkstack"
MCMembers  == <<"system", "vendor">>
MCTopology == "platform" :> <<"system", "vendor">> @@ "networkstack" :> <<"system">>
=============================================================================
