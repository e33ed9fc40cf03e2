CONSTANTS
    h1 = h1  h2 = h2  h3 = h3
    p1 = p1  p2 = p2  a = a  b = b  c = c
    None = None
    Hosts = {h1, h2, h3}
    Services = {1, 2}
    Instances = {1, 2}
    AnyInstance = 65535
    Publishers = {p1, p2}
    Subscribers = {a, b, c}
    PublisherApp <- TwoInstances
    SubscriberApp <- ThreeSubscribers
    RepetitionsMax = 0
    InitialDelays = {"positive"}
    CyclicOffers = FALSE
    MaxCopies = 1
    LossyTypes = {}
    MaxLosses = 0
SPECIFICATION Spec
INVARIANTS NoMixedInstances
