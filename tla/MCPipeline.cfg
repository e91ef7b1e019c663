\* Two manifests' worth of names, up to two groups drawn from every range,
\* well formed or not; three passes that lower a value in 0 .. 2.
CONSTANTS
    PassName = {"a", "b", "c"}
    MaxValue = 2
    MaxGroups = 2
    NameLists <- ThreePasses
    IR <- MCIR
    Manifest <- MCManifest
    Run <- MCRun
SPECIFICATION Spec
INVARIANTS
    TypeOK
    ManifestRuns
PROPERTIES
    Implements
