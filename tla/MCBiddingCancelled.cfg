SPECIFICATION Spec
CONSTANTS
    Users <- ThreeUsers
    Auctions <- OneAuction
    Seller <- SellsAll
    StartingPrice <- StartAtOne
    Increment <- RaiseByOne
    InitialBalance <- Rich
    Offers = {1}
    Handlers = {h1}
    Cancellers = {k1}
    Crons = {c1}
    Overrun = {}
    Mortal = {}
    None = None
    seller = seller
    alice = alice
    bob = bob
    a1 = a1
    a2 = a2
    h1 = h1
    h2 = h2
INVARIANTS
    CancelledHoldsNothing
CHECK_DEADLOCK FALSE
