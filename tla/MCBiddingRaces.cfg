SPECIFICATION Spec
CONSTANTS
    Users <- ThreeUsers
    Auctions <- OneAuction
    Seller <- SellsAll
    StartingPrice <- StartAtOne
    Increment <- RaiseByOne
    InitialBalance <- Rich
    Offers = {1, 2, 3}
    Handlers = {h1, h2}
    Cancellers = {}
    Crons = {c1}
    Overrun = {"bid"}
    Mortal = {h1, h2, c1}
    None = None
    seller = seller
    alice = alice
    bob = bob
    a1 = a1
    a2 = a2
    h1 = h1
    h2 = h2
SYMMETRY Interchangeable
INVARIANTS
    TypeOK
    LeadIsPrice
    BidsAscend
CHECK_DEADLOCK FALSE
