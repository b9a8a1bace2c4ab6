SPECIFICATION Spec
CONSTANTS
    Width = 3
    Height = 3
    LineSize = 4
    Chars = {"x", "y"}
INVARIANTS Echo
PROPERTIES PromptStays
CHECK_DEADLOCK FALSE
