CONSTANTS
    d1 = d1
    d2 = d2
    c1 = c1
    c2 = c2
    n1 = n1
    n2 = n2
    h1 = h1
    e1 = e1
    Decks = {d1}
    Cards = {c1, c2}
    Notes = {n1, n2}
    Contents <- MCContents
    Homes = {h1}
    Editors = {e1}
    NoSummary = NoSummary
    None = None
    Overlaps = {}
    MaxRevision = 3
    MaxLists = 2
SPECIFICATION MCSpec
INVARIANTS StoredIsOfItsDeck 
PROPERTIES PreviewEnds
