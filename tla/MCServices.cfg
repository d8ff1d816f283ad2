SPECIFICATION ServicesSpec
CONSTANTS
    r1 = r1
    NoJob = NoJob
    Replica = {r1}
    Tenant = {"t1", "t2"}
    Job = {"a1", "a2", "b1"}
    TenantOf <- TheTenantOf
    Misrouted = {"a2"}
    Pausable = {"t1"}
    Concurrency = 1
    MaxRounds = 2
    LastAttempt = 1
    MaxFaults = 1
    Ingest = {i1, i2}
    Mail = {"m1", "m2"}
    Event = {"o1", "b1", "d1", "c2"}
    Batch <- TheBatches
    MailOf <- TheMailOf
    KindOf <- TheKindOf
    TimeOf <- TheTimeOf
    MaxSaves = 1
    GitRequest = {q1, q2}
    Repo = {x1, x2}
    Copy = {c1, c2}
    NoCopy = NoCopy
    NoRepo = NoRepo
    NoRequest = NoRequest
    MaxRepos = 1
    MaxGitFaults = 1
    Sweeper = {"w1", "w2"}
    Editor = {e1}
    Participant = {u1}
    Moment = {1, 2}
    NoOne = NoOne
    MaxTries = 2
    MaxEdits = 2
    MaxReminderFaults = 1
    Prober = {"p1", "p2"}
    Author = {y1, y2}
    Monitor = {h1}
    NoMonitor = NoMonitor
    MonitorLimit = 1
    MaxWindows = 2
    MaxChanges = 2
    MaxMonitorFaults = 1
    Request = {z1, z2}
    Log = {l1}
    NoLog = NoLog
    Second = 2
    MaxTime = 3
    MaxRequests = 3
    MaxRequestFaults = 1
    Runner = {k1, k2}
    Release = {"A1", "A2", "B1"}
    SourceCommit = {"A", "B"}
    CommitOf <- TheCommitOf
    ConfigOf <- TheConfigOf
    ImageOf <- TheImageOf
    Service = {"backend", "frontend"}
    NoRelease = NoRelease
    NoRunner = NoRunner
    MaxStops = 1
    Stream = {s1, s2}
    Share = {g1, g2}
    NoTrack = NoTrack
    MaxJoins = 2
    MaxSessionFaults = 1
    Call = {"v1"}
    Envelope = {v3, v4, v5}
    NoCall = NoCall
    NoEnvelope = NoEnvelope
    QueueLimit = 2
INVARIANTS
    ServicesTypeOK
    FairRounds
    SnapshotMatchesEvents
    RowHasCopy
    CopiesAccountedFor
    ReposWithinLimit
    RemindedOnce
    SentWasNotified
    NoProbeRevives
    AlertsMatchStatus
    ActiveIsWatched
    TrackedTimeFallsShort
    BilledOneWay
    OneMigration
    MigratedBeforeDeploy
    CapturedOnlyInSession
    RoomIsHeard
    CallsRunOnce
PROPERTIES
    DeliveryOnlyAdvances
    DeployedHeadIsTrue
CHECK_DEADLOCK FALSE
