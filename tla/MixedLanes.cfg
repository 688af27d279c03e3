CONSTANTS
    Sessions = {a, b}
    Requests = {g}
    Lists <- MCUnit
    Ops = {"upsert"}
    Unknown = {}
    Seed = seed
    NoList = NoList
SPECIFICATION Spec
INVARIANTS DefinitionIsWhole
