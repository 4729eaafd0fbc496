CONSTANTS
    temp = temp
    heater = heater
    valve = valve
    Channels = {temp, heater, valve}
    Writable = {heater, valve}
    Timeout = 1
    MaxSteps = 4
    Attempts = 2
    Unknown = "no_such_channel"
SPECIFICATION Spec
INVARIANTS
    SetpointNeedsContact
    SilenceNoticed
PROPERTY
    LatchHonest
SYMMETRY Actuators
