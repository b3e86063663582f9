\* Two large directories of one repository, a url-list and a subscription file.
SPECIFICATION FairSpec
CONSTANTS
    raw1 = raw1
    raw2 = raw2
    list = list
    sub = sub
    root1 = root1
    sub1 = sub1
    sub2 = sub2
    root2 = root2
    index = index
    file = file
    repo = repo
    Sources = {raw1, raw2, list, sub}
    Nodes = {root1, sub1, sub2, root2, index, file}
    Repos = {repo}
    Plan <- PlanOf
    Tree <- TreeOf
    SourceSlots = 2
    ApiSlots = 1
    Downloads = 2
INVARIANT TypeOK
INVARIANT NothingFetchedIsLost
PROPERTY TreeBeforePrefix
PROPERTY KeepsReports
CHECK_DEADLOCK FALSE
