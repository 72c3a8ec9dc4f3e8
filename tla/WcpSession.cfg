SPECIFICATION Spec
CONSTANTS
    Events = {goto, drivers, junk}
    Answered = {drivers}
    Greeting = Greeting
    BadGreeting = BadGreeting
    Nul = Nul
    MaxEvents = 4
    MaxRequests = 3
INVARIANTS
    NothingLostInPackets
PROPERTIES
    SessionSettles
CHECK_DEADLOCK FALSE
