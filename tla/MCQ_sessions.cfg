CONSTANTS
    h1 = h1  h2 = h2  h3 = h3
    p1 = p1  p2 = p2  a = a  b = b  c = c  d = d
    None = None
    Hosts = {h1, h2, h3}
    Services = {1, 2}
    Publishers = {p1, p2}
    Subscribers = {a, b, c}
    PublisherApp <- TwoServices
    SubscriberApp <- Mixed
    StaticHosts = {}
    Provider <- FirstHost
    LossyTypes = {}
    MaxLosses = 0
SPECIFICATION FairSpec
INVARIANTS TypeOK DiscoveredIsThere SessionsAgree
PROPERTIES EventuallyConnected
