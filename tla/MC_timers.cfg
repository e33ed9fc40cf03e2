CONSTANTS
    h1 = h1  h2 = h2  h3 = h3
    p1 = p1  p2 = p2  a = a  b = b  c = c
    None = None
    Hosts = {h1, h2}
    Services = {1, 2}
    Instances = {1, 2}
    AnyInstance = 65535
    Publishers = {p1, p2}
    Subscribers = {a, b, c}
    PublisherApp <- OfferedAndStatic
    SubscriberApp <- DiscoveringAndStatic
    RepetitionsMax = 2
    InitialDelays = {"zero", "positive"}
    CyclicOffers = TRUE
    MaxCopies = 2
    LossyTypes = {}
    MaxLosses = 0
SPECIFICATION Spec
PROPERTIES PhasesOnlyAdvance FindsStop
