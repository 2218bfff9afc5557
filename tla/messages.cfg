CONSTANTS
    Modes = {"regular", "vllm", "sglang"}
    Apis = {"completions", "responses", "generate"}
    PrefixChars = 2
    RoomBound = 2
    Inputs <- MCInputs
    Urls <- MCUrls
    Rooms <- MCRooms
    Prefills <- MCPrefills
    Decodes <- MCDecodes
SPECIFICATION Spec
CHECK_DEADLOCK FALSE
INVARIANT TypeOK
INVARIANT HeaderDecides
INVARIANT ConversationKeepsPrefix
INVARIANT PrefillOnly
INVARIANT DecodeAsAsked
INVARIANT PairMeets
INVARIANT MergeAligned
