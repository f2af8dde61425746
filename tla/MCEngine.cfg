SPECIFICATION MCSpec
CONSTANTS
    PlayerCount = 3
    DeckCount = 1
    Suits = {s, h}
    StartingSuit = s
    Two = 6
    Seven = 7
    King = 8
INVARIANTS
    CardsSound
    BoardSound
    TableIsLive
    HandsStayLevel
    UnknownIsHidden
    ReplayIsTheGame
PROPERTIES
    SweepIsFinal
    GameEnds
