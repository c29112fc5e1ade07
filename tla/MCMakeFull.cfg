CONSTANTS
    Module <- MCModule
    Imports <- MCImports
    Exposes <- MCExposes
    Runtime = {"Files", "Errors"}
    Entries = {"Main", "Errors"}
    MaxEdits = 1
    MaxLinkMods = 2
    NONE = NONE
SPECIFICATION Spec
INVARIANT LinkCloses
CHECK_DEADLOCK FALSE
