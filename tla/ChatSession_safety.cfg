\* Three turns and a deletion; the request lock may expire under its owner.
SPECIFICATION Spec
CONSTANTS
    alice = alice
    bob = bob
    chat1 = chat1
    chat2 = chat2
    stream1 = stream1
    delete1 = delete1
    delete2 = delete2
    NoOne = NoOne
    Chats = {chat1, chat2}
    Streams = {stream1}
    Deletes = {delete1}
    Clients <- AllClients
    ClientOf <- MCClientOf
    HistoryLimit = 2
    Faults = {"expiry"}
INVARIANTS
    FreshContext
    WellNumbered
    OneClientPerTranscript
PROPERTIES
    ReleasesOnlyOwnLock
    ImplementsTranscript
