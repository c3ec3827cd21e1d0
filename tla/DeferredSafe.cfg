SPECIFICATION Spec
CONSTANTS
    session = session
    stream1 = stream1
    stream2 = stream2
    frag1 = frag1
    frag2 = frag2
    syn = syn
    Sessions = {session}
    Lanes = {stream1, stream2}
    Packets = {frag1, frag2, syn}
    SessionOf <- TwoStreams
    LaneOf <- Fragments
    Dispatchers = {"ingress"}
    Removers = {"cleanup"}
    Workers = {w1, w2}
    QueueLimit = 2
    SessionCap = 2
    MaxTasks = 3
SYMMETRY Symmetry
INVARIANTS SessionPendingExact RemovedStops AliveUnlessSplit NoneStranded
