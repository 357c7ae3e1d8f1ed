\* A chat, a stream, a deletion and every fault: crashes, a failing Redis, expiry.
SPECIFICATION FairSpec
CONSTANTS
    alice = alice
    bob = bob
    chat1 = chat1
    chat2 = chat2
    stream1 = stream1
    delete1 = delete1
    delete2 = delete2
    NoOne = NoOne
    Chats = {chat1}
    Streams = {stream1}
    Deletes = {delete1}
    Clients <- AllClients
    ClientOf <- MCClientOf
    HistoryLimit = 2
    Faults = {"expiry", "crash", "redis"}
INVARIANTS
    ReplyMatchesDatabase
    LockDiesWithRequest
PROPERTIES
    EveryRequestEnds
