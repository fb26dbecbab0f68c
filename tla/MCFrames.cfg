CONSTANTS
    Sent <- MCSent
    NoiseIp <- MCNoiseIp
    NoiseTcp <- MCNoiseTcp
    SizeSpace = 1048576
SPECIFICATION Spec
INVARIANTS DissectsAsSent ReadsWhatWasCaptured
CHECK_DEADLOCK FALSE
