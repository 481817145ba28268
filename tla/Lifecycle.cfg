SPECIFICATION FairSpec
CONSTANTS
    older = older
    newer = newer
    Instances <- MCInstances
    Build <- MCBuild
    FirstVersions = {0, 1}
    MaxAccidents = 1
    Nobody = Nobody
    public = public
    actuator = actuator
    Servers <- MCServers
    MaxRequests <- MCMaxRequests
INVARIANTS
    TypeOK
    VersionIsTrue
    DirtyByAccident
    ServesOnItsSchema
PROPERTIES
    CodeZeroIsClean
    StopsTogether
    MigrationsEnd
