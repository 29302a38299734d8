SPECIFICATION PartSpec
CONSTANTS
    c1 = c1  c2 = c2  q1 = q1  g1 = g1  NoGrant = NoGrant
    NoThread = NoThread  NoSid = NoSid  NoConn = NoConn  NoRun = NoRun
    Requests = {q1}
    Conns = {1, 2, 3}
    Sids = {1, 2, 3}
    Runs = {1, 2}
    MaxConns = 2
    MailboxCap = 1
    MaxMishaps = 1
    Calls = {c1, c2}
    Tools = {"status", "verb"}
    WorkerCap = 2
    RunCap = 1
    MapCap = 1
    WriteCap = 1
PROPERTIES
    CallsEnd
    GrantsSettle
CHECK_DEADLOCK FALSE
