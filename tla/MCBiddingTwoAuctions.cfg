SPECIFICATION Spec
CONSTANTS
    Users <- ThreeUsers
    Auctions <- TwoAuctions
    Seller <- SellsAll
    StartingPrice <- StartAtOne
    Increment <- RaiseByOne
    InitialBalance <- Poor
    Offers = {1, 2}
    Handlers = {h1, h2}
    Cancellers = {}
    Crons = {c1}
    Overrun = {}
    Mortal = {}
    None = None
    seller = seller
    alice = alice
    bob = bob
    a1 = a1
    a2 = a2
    h1 = h1
    h2 = h2
SYMMETRY Interchangeable
INVARIANTS
    WalletsSound
    HeldIsReserved
    HoldsMatchBids
    MoneyConserved
    ProxyPromise
CHECK_DEADLOCK FALSE
