CONSTANTS
    Module <- MCModule
    Imports <- MCImports
    Exposes <- MCHidden
    Runtime = {"Files", "Errors"}
    Entries = {"Main", "Errors"}
    MaxEdits = 1
    MaxLinkMods = 3
    NONE = NONE
SPECIFICATION Spec
INVARIANT LinkCloses
CHECK_DEADLOCK FALSE
