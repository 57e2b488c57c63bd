SPECIFICATION Spec
CONSTANTS
  Parts = {"path"}
  Sessions = {s1, s2}  NoSession = NoSession
  e1 = e1  e2 = e2  e3 = e3  g1 = g1  g2 = g2  NoEvent = NoEvent
  Events = {e1, e2, e3}  Aggregates = {g1, g2}  Handlers = {h1, h2}  MaxId = 3
  AggregateOf <- EventAggregate  VersionOf <- EventVersion  IdOf <- EventId  KeyOf <- EventKey
  Admins = {m1, m2}  Varying = {"technical_signed"}
  ca = ca  cb = cb  cp = cp  ea = ea  eb = eb  eu = eu  fa = fa
  required = required  elective = elective  free = free  project = project
  Courses = {ca, cb, cp, ea, eb, eu, fa}  Approved = {fa}  Unclear = {eu}  Projects = {cp}
  Groups = {required, elective, free, project}  Elective = {elective}  FreeElective = {free}
  GroupOf <- CourseGroup  Hours <- CourseHours  Needed <- GroupHours
  Prerequisites <- CourseOptions
  DisplayOrder <- CourseOrder  Code <- CourseOrder  CandidateWindow = 3  CombinationLimit = 4
  Total = 18  MinEarned = 2  MaxCourses = 3  Horizon = 2  Limits = {2, 16}
CHECK_DEADLOCK FALSE
INVARIANT CurrentCoursesFit
