SPECIFICATION Spec
CONSTANTS
    None = None
    Cards = {"a", "b", "c", "f", "n", "z"}
    Labels = {"x", "y"}
    Groups = {"g"}
    Opening = 3
    LastStart = 2
    LastColumn = 2
    Neutral = "z"
    Importances = {0, 100}
    Decks <- MCDecks
    WallDecks <- MCWallDecks
    Queries <- MCQueries
INVARIANT FiguresAreExact
CHECK_DEADLOCK FALSE
