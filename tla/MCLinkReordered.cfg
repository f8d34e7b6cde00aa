SPECIFICATION Spec
CONSTANTS
    SeqSpace = 8
    Window = 0
    MaxSent = 3
    MaxFlight = 2
    MaxBurst = 2
    MaxRestarts = 0
    Reorder = TRUE
PROPERTY OutOfOrderRejected
