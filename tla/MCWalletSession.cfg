SPECIFICATION Spec
CONSTANTS
    MaxChanges = 2
    MaxNonces = 2
    MaxChallenges = 2
    MaxSessions = 1
INVARIANTS TypeOK OneSessionPerChallenge NoForgottenToken
PROPERTIES AskedOfConnectedWallet
