CONSTANTS
    Sessions = {a, b}
    Requests = {g}
    Lists <- MCLists
    Ops = {"create", "upsert", "edit", "delete"}
    Unknown = {2}
    Seed = seed
    NoList = NoList
SPECIFICATION FairSpec
INVARIANTS LaneIsOneDefinition FailsOnlyAgainstAnother RouteServesLane
PROPERTIES CommitHolds EveryCallEnds
