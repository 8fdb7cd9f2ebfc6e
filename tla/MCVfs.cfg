\* Two tasks, four paths, two agents, one whose id ends with white space.
CONSTANTS
    a = a
    b = b
    bw = bw
    t1 = t1
    t2 = t2
    None = None
    Agents <- AgentIds
    Spelled <- IdsAsParts
    Capabilities <- OneCapability
    Paths <- SmallTree
    Requested <- ThreePaths
    TrimStart <- NoTrim
    TrimEnd <- BlankAfterB
    Tasks <- TwoTasks
SPECIFICATION Spec
SYMMETRY Alike
INVARIANTS TypeOK ListsAgree
PROPERTIES UnmountClears
