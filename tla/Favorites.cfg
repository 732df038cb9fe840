SPECIFICATION Spec
CONSTANTS
    Process = {p1, p2}
    Line = {ls, make, note}
    Comment = {note}
    MaxLines = 3
INVARIANTS TypeOK FavoritesUnique SavedIsLoaded
PROPERTIES OrderKept
