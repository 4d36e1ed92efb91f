SPECIFICATION MCSpec
CONSTANTS
    u1 = u1
    u2 = u2
    c1 = c1
    c2 = c2
    c3 = c3
    p1 = p1
    p2 = p2
    w1 = w1
    w2 = w2
    w3 = w3
    Projects = {p1, p2}
    Locals = {a, b, c}
    Tabs = {ta, tb, tc}
    Urls = {u1, u2}
    Chats = {c1, c2, c3}
    Epochs = {e, f}
    Workspaces = {w1, w2, w3}
    HomeOf <- Homes
    ProjectOf <- Checkout
    Limit = 2
    MaxGeneration = 4
SYMMETRY Symmetric
INVARIANTS WithinCapacity TypeOK OneOwner NewestGeneration UniqueGenerations
PROPERTIES RouteFollowsIndex
