SPECIFICATION FairSpec
CONSTANTS
    c1 = c1
    c2 = c2
    Clients = {c1, c2}
    NoGame = NoGame
    Moves <- ShortGame
    Extra = {"Unknown", "StartMatch", "TooLong"}
    MaxLoseHeartbeat = 2
    MaxSends = 4
    MaxBuffer = 1
INVARIANTS PairedGames TableSane ViewsAgree OpponentPresent
PROPERTIES SilentRemoved MovesHandled
CHECK_DEADLOCK FALSE
