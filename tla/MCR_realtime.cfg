CONSTANTS
    h1 = h1  h2 = h2  p = p  q = q  g = g  sub = sub  e1 = e1  e2 = e2
    avb = avb  udp = udp  raw = raw  st = st  None = None  Port = Port  Eth = Eth
    Applications = {p, q, g, sub}
    AppParameters <- Apps4
    CycleLimit = 4
    MaxTime = 3
    MaxSyncChanges = 3
    MaxGatewayMessages = 1
    CanIds = {1, 2}
    Hosts = {h1, h2}
    AVBPublishers = {avb}
    IPPublishers = {udp, raw}
    AVBSubscribers = {e1, e2}
    AVBParameters <- AVB
    IPParameters <- IP
    ListenerParameters <- Listeners
    Destinations <- SameSubscriber
    StreamIDs = {st}
    MaxFaults = 1
    ApplicationOf <- Owner
SPECIFICATION FairSpec
INVARIANTS TypeOK KeepsPace ConnectedHasListener TalkerPerDestination
PROPERTIES OncePerModulo KeepsReservation EventuallyConnected
CHECK_DEADLOCK FALSE
