SPECIFICATION Spec
CONSTANTS
    None = None
    Star = Star
    Signals <- Sigs
    Parameters <- ParameterSigs
    Internal <- Alias
    Stmts <- Statements
    Designs <- ConeDesigns
    MaxNesting = 2
    Reach = 500
    Names <- Identifiers
    Symbols <- Declarations
    Docs <- NameDocs
    Cursors = {6}
    Contents <- ClientContents
    Insertions <- ClientInsertions
    MaxParts = 2
    Code <- HexCode
    Unreserved <- KeptCharacters
    FilePaths <- ShortPaths
INVARIANT HintsOfRange
CHECK_DEADLOCK FALSE
