SPECIFICATION Spec
CONSTANTS
    a = a
    b = b
    own = own
    shared = shared
    None = None
    Agents <- MCAgents
    Items <- MCItems
    Knowledge <- MCKnown
    Fragments <- MCFragments
    Characters <- MCCharacters
    Slots = {s1, s2}
INVARIANTS
    RowsFollowInOrder
    KnowledgeIsWhole
    BootNeverConflicts
