\* After every client has left, the counter is still full.
SPECIFICATION Spec

CONSTANTS
    Server = Server
    Producer = Producer
    Child = {c1, c2, c3}
    MaxClients = 2

INVARIANT FullMeansServing

CHECK_DEADLOCK FALSE
