CONSTANTS
    Stems <- MCStems
    TestKey = "testkey"
    Rank <- MCRank
    Names <- MCNames
    ReleaseKey = "releasekey"
    Unmapped = "none"
    Base <- MCBase
    Suffixed <- MCSuffixed
    ApexNames = {"platform", "avb_boot", "releasekey"}
    AvbNames = {"avb_boot"}
    Default <- MCDefault
    Certs <- MCCerts
    CertsOf <- MCCertsOf
    Release <- MCRelease
    Seinfos <- MCSeinfos
    Expected <- MCExpected
    Members <- MCMembers
    Topology <- MCTopology
    MaxSigners = 3
SPECIFICATION Spec
INVARIANTS
    TypeOK
    RolesDistinct
    EveryAppResigned
    AppsKeepTheirSeinfo
    VerifierAgrees
