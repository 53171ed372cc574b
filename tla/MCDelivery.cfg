CONSTANTS
    Events = {"e1"}
    Tests = {"t1"}
    Senders = {s1, s2}
    HookAttempts = 2
    MaxPosts = 2
    CampaignMsgs = {"m1"}
    OtpMsgs = {"m2"}
    Receipts = {"DELIVERED"}
    Dispatchers = {d1, d2}
    OutboxAttempts = 2
    RatePerMinute = 1
    MaxClaims = 2
    Tickets = {"k1"}
    Asked = {"k2"}
    Kicks = {"k2"}
    Agents = {a1, a2}
    Stations = {a2}
    Clicks = {"c1"}
    MaxJobs = 1
    MaxHandling = 2
SYMMETRY WorkerSymmetry
SPECIFICATION DeliverySpec
INVARIANTS DeliveryTypeOK DeliveryStaysScheduled NoMessageLeftSending DuplicatesExplained
PROPERTIES WebhooksImplementQueue OutboxImplementsQueue PrintingImplementsQueue
CHECK_DEADLOCK FALSE
