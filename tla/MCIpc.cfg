SPECIFICATION Spec
CONSTANTS
    IdSpace = 4
    MaxHandles = 6
    Games <- MCGames
    FakeHandle = 13
    Payloads <- MCPayloads
    PayloadBound = 5
INVARIANT MessagesArrive
INVARIANT HandlesKeepTheirMeaning
PROPERTY HandlesImplement
CHECK_DEADLOCK FALSE
