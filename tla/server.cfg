SPECIFICATION SubjectSpec
CONSTANTS
  v1 = v1
  v2 = v2
  r1 = r1
  r2 = r2
  u1 = u1
  u2 = u2
  o0 = o0
  o1 = o1
  customer = customer
  staff = staff
  NoKey = NoKey
  NoName = NoName
  Nobody = Nobody
  NoOrder = NoOrder
  NoService = NoService
  Members = {m1}
  Visitors = {v1}
  Calls = {r1, r2}
  MemberLimit = 1
  VisitorLimit = 2
  Window = 2
  Preferred = "mongo"
  MaxClock = 2
  MaxRequests = 5
  MaxFaults = 1
  MaxRestarts = 1
  Usernames = {u1}
  Seeded = {}
  Requests = {r1, r2}
  LockoutThreshold = 2
  LoginWindow = 1
  RefreshTTL = 1
  MaxTokens = 3
  MaxEvents = 4
  Services = {v1}
  Bundle = bundle
  SeedServices = {v1}
  Orders = {o0, o1}
  LineOf <- Lines
  SeedOrder = o0
  SeedReview = seedReview
  Submissions = {r1, r2}
  Questions = {q0, q1}
  SeedQuestion = q0
  SeedService = v1
  Moderators = {w1}
  ReviewDays = 0
  DayLength = 2
  Offset = 1
  MaxEdits = 2
  Messages = {q0, q1}
  SeedMessage = q0
  Users = {u1, u2}
  Roles = {customer, staff}
  RolesOf <- Roles2
  SeedReaders = {u2}
  Wares = {v1, v2}
  Handlers = {r1, r2}
  Lists <- Compared
  CompareLimit = 2
SYMMETRY Interchangeable
INVARIANTS AllTypesOK LimitIsExact LockoutIsExact SessionsEnd OnlyVettedShows ListsAreHonest
PROPERTIES ReadsAreKept
CHECK_DEADLOCK FALSE
