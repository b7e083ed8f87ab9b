SPECIFICATION PlatformSpec
CONSTANTS
    Parts = {"banned_seller"}
    Holders = {"u1"}
    Withdrawals = {"w1","w2"}
    Adjustments = {"a1"}
    Funds = 100
    Amounts = {50}
    MinimumAmount = 50
    BankMaximum = 100
    MobileMaximum = 50
    FeePercentage = 2
    LastDay = 1
    HoldBound = 50
    Watched = {"notifications", "webhook", "wallet", "auth", "auction"}
    MaxRetries = 1
    MaxPublications = 2
    LastPayment = 2
    Paymob = {1}
    Foreign = {2}
    Webhooks <- MCWebhooks
    PageSize = 1
    Occurrences <- EachAlone
    Blockable = {"seller"}
    ReviewWindow = 2
    LastReviewDay = 5
    Attempts = {1, 2}
    Moderable = {"seller"}
    ClientMessages = {"a", "b"}
    SenderOf <- Sender
    LastMessageId = 3
    LastMinute = 1
    EditMinutes = 0
    PageLimit = 1
    Servers = {"s1"}
    Revalidations = {"r1", "r2", "r3"}
    LastVersion = 1
    LastCall = 2
    Operations = {"ban", "delete"}
    Checkers = {"k1"}
    SellerAuctions = {"x1"}
INVARIANTS
    BanReachesAuctions
CHECK_DEADLOCK FALSE
