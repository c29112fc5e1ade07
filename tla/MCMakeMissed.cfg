CONSTANTS
    Module <- MCModule
    Imports <- MCImports
    Exposes <- MCExposes
    Runtime = {"Files", "Errors"}
    Entries = {"Main", "Errors"}
    MaxEdits = 1
    MaxLinkMods = 3
    NONE = NONE
SPECIFICATION Spec
INVARIANT LinksTexts
CHECK_DEADLOCK FALSE
