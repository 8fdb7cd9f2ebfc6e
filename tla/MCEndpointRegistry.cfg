\* A configured endpoint, with and without the tags of a scanner, and a container.
CONSTANTS
    e1 = e1
    e2 = e2
    NoEndpoint = NoEndpoint
    Endpoints <- TwoEndpoints
    KindOf <- ConfigAndDocker
    ConfiguredTags <- SomeTags
    MaxOffline = 1
SPECIFICATION FairSpec
INVARIANT HealthAgrees
PROPERTIES ScansKeepOthers OnlyScansAdd DownIsAvoided UpIsUsed
