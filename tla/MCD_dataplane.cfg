CONSTANTS
    h1 = h1  h2 = h2  h3 = h3  h4 = h4  g1 = g1  p1 = p1  p2 = p2
    a = a  b = b  c = c  d = d
    None = None
    Hosts = {h1, h2, h3, h4}
    Services = {1, 2}
    Ports = {1, 2, 3}
    Groups = {g1}
    Publishers = {p1, p2}
    Subscribers = {a, b, c, d}
    PublisherApp <- TwoPublishers
    SubscriberApp <- FourSubscribers
    MaxMessages <- TwoAndOne
    MaxLosses = 1
    MaxFailures = 1
SPECIFICATION FairSpec
INVARIANTS TypeOK RemotesAreSubscribers
PROPERTIES ImplementsChannel EventuallyReceived
