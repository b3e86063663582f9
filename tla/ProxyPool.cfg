\* Two lists of every run, one rebuild for both; a pool of four can be thinned
\* out to one and still have an answering proxy.
SPECIFICATION Spec
CONSTANTS
    own = own
    p1 = p1
    p2 = p2
    p3 = p3
    NoPool = NoPool
    Explicit <- MCExplicit
    Offers <- MCOffers
    TooSlow = {}
    MinPool = 3
    MaxPool = 3
    Rounds = 2
    PerSource = 1
    ProbeCount = 2
    Slots = 2
    Limit = 1
    BanAfter = 2
    Lists = 2
    MaxChanges = 2
INVARIANT TypeOK
INVARIANT RebuildsWithinLimit
 
