SPECIFICATION FairSpec
CONSTANTS
    Tasks = {t1}
    Servers = {s1}
    Clients = {c1}
INVARIANTS
    OwnsWhatItUses
    EventsMatchDatabase
PROPERTIES
    KilledIsRefused
    RetrySucceeds
