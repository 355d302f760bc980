CONSTANTS
    Bytes <- MCBytes
    Characters <- MCCharacters
    Units <- MCUnits
    Words <- MCWords
    Lines <- MCLines
    Cuts <- MCCuts
    Wildcards <- MCWildcards
    Instants <- MCInstants
    Years <- MCYears
    Placeholders <- MCPlaceholders
    Records <- MCRecords
    Scopes <- MCScopes
    CrashRecords <- MCCrashRecords
    Environments <- MCEnvironments
SPECIFICATION Spec
INVARIANTS
    CharactersStayWhole EscapesReadBack WildcardsMatchAsDefined TimestampsReadBack PatternMatchesTheLayout FieldsShowOnce CrashLinesAreWhole SettingsAreIndependent
