SPECIFICATION FairSpec
CONSTANTS
    room = room
    player = player
    Loops = {room, player}
    Players = {player}
    LoopMs <- MCLoopMs
    kMaxWaitMs = 2
    MaxDelay = 2
INVARIANTS OneTurn NotTooSoon NoOversleep
PROPERTIES LoopsGoOn
CHECK_DEADLOCK FALSE
