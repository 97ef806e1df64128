SPECIFICATION Spec
CONSTANTS
  Publication <- Publication_
  Capabilities <- Capabilities_
  Deliverers = {"platform_channel"}
  Client = {"c1", "c2"}
  Grants <- Grants_
  Ops <- Ops_
  Tags <- Tags_
  DemoIds = {4}
  Pages <- Pages_
  NoClient = NoClient
  NoReport = NoReport
  Rejected = Rejected
  MaxRuns = 2
  MaxFaults = 1
  MaxChanges = 2
INVARIANTS WholeRecords SentOnceAfterSaved HonestReport AnswersShowChange
PROPERTY ChangesStayHome
CHECK_DEADLOCK FALSE
