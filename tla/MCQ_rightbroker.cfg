CONSTANTS
    h1 = h1  h2 = h2  h3 = h3
    p1 = p1  p2 = p2  a = a  b = b  c = c  d = d
    None = None
    Hosts = {h1, h3}
    Services = {1, 2}
    Publishers = {p1}
    Subscribers = {a, b}
    PublisherApp <- OneService
    SubscriberApp <- TwoGroups
    StaticHosts = {h1, h3}
    Provider <- FirstHost
    LossyTypes = {}
    MaxLosses = 0
SPECIFICATION Spec
INVARIANTS RightBroker
