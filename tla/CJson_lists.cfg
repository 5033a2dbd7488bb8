SPECIFICATION Spec
CONSTANTS
    Node = {1, 2, 3, 4}
    Key = {"a"}
    CJSON_NESTING_LIMIT = 2
    CJSON_CIRCULAR_LIMIT = 2
INVARIANTS
    ListsIntact
    OneOwner
    RoundTrip
    PrintInBounds
