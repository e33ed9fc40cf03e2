CONSTANTS
    h1 = h1  h2 = h2  h3 = h3
    p1 = p1  p2 = p2  a = a  b = b  c = c
    None = None
    Hosts = {h1, h3}
    Services = {1, 2}
    Instances = {1, 2}
    AnyInstance = 65535
    Publishers = {p1}
    Subscribers = {a}
    PublisherApp <- OnePublisher
    SubscriberApp <- OneSubscriber
    RepetitionsMax = 1
    InitialDelays = {"positive"}
    CyclicOffers = TRUE
    MaxCopies = 1
    LossyTypes = {"SUBSCRIBE", "ACK"}
    MaxLosses = 1
SPECIFICATION FairSpec
PROPERTIES KeepsSubscribing
