CONSTANTS
    temp = temp
    heater = heater
    valve = valve
    Channels = {temp, heater}
    Writable = {heater}
    Timeout = 1
    MaxSteps = 5
    Attempts = 2
    Unknown = "no_such_channel"
SPECIFICATION Spec
INVARIANT
    RetriesNoticeSilence
