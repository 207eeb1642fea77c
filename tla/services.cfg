SPECIFICATION ServicesSpec
CONSTANTS
  Procs = {p1, p2}
  NoJob = NoJob
  MaxFaults = 1
  ada = ada
  bayo = bayo
  h1 = h1
  Hostels = {h1}
  Rooms = {r1}
  HostelOf <- MCHostelOf
  Boarders = {ada, bayo}
  Genders = {"FEMALE"}
  GenderOf <- MCGenderOf
  NoGender = NoGender
  MaxBeds = 2
  MaxStays = 2
  ExeatIds = {e1}
  PickupCodes = {c1, c2}
  NoPickup = NoPickup
  b1 = b1
  b2 = b2
  Bills = {b1, b2}
  NoBill = NoBill
  DueDay <- MCDueDay
  Reachable = {b1, b2}
  Offsets <- MCOffsets
  PerRun = 2
  MaxDay = 1
  Notices = {a1, a2}
  BatchSize = 2
  MaxTime = 1
  Editable = {a1}
  MaxEdits = 1
  stop = stop
  Boardings = {board}
  RouteAlerts <- MCRouteAlerts
  Applicants = {s1, s2}
  NameOf <- MCNameOf
  Price = 3
  Promos = {half}
  NoPromo = NoPromo
  PercentOf <- MCPercentOf
  MaxUsesOf <- MCMaxUsesOf
  Charges = {ch1}
  Amount = 3
  Referrers = {g1}
  Asked = {"PENDING", "CONVERTED"}
  MaxReferrals = 3
  Subjects = {"s1", "s2"}
  Bodies = {"b1"}
  KeepSubject = KeepSubject
  FirstWording <- MCFirstWording
  MaxVersions = 3
  Pupils = {ada, bayo}
  Cells = {"exam"}
  MaxScore = 1
  NoGrade = NoGrade
  MaxTyped = 2
  Elsewhere = {ada, bayo}
  MaxElsewhere = 1
  Active = {ada}
  NoCard = NoCard
  Edits <- MCEdits
  mon8 = mon8
  mon9 = mon9
  maths = maths
  english = english
  Sections = {"jss1"}
  Hours = {mon8, mon9}
  SectionOf <- MCSectionOf
  Lessons = {maths, english}
  Drafts <- MCDrafts
  NoDraft = NoDraft
  eve = eve
  Staff = {eve}
  Leaves = {l1}
  OwnerOf <- MCOwnerOf
  Running = {l1}
  Subscribers = {g1}
  Offers <- MCOffers
  AskedStatuses = {"TRIAL", "ACTIVE", "SUSPENDED", "CHURNED"}
  NoRevision = NoRevision
  MaxAsked = 3
  r_fees = r_fees
  r_schools = r_schools
  SavedReports <- MCSavedReports
  DueReports = {r_fees, r_schools}
  MaxRuns = 3
INVARIANTS ServicesTypeOK StaysFitTheirRooms DecisionsTold RemindersBounded SentOnce
  AlertsBounded DiscountsAccountedFor RefundsBounded RewardsMatchTiers WordingKept
  MarksStored CardsStandLocked TimetableKept LeaveAndPayAgree
  SubscriptionsAgree RunsAccountedFor
PROPERTIES LifeCycleImplemented DueIsSent
CHECK_DEADLOCK FALSE
