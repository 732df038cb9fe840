SPECIFICATION Spec
CONSTANTS
    Lower <- MCLower
    Space = " "
    Bracket = "["
    PageJump = 10
    RawItems <- MCRawItems
    Items <- MCItems
    Favorites <- MCFavorites
    Configurations <- MCConfigurations
    TypedChar = {"a", "A"}
    Upper <- MCUpper
    MaxPattern = 1
    Heights = {1, 2}
INVARIANTS TypeOK SelectionFresh ListsConsistent CursorOnItem
PROPERTIES DeletesOnlyHighlighted EnterRunsHighlighted
CHECK_DEADLOCK FALSE
