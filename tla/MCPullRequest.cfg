SPECIFICATION MCSpec
CONSTANTS
  Absent = Absent
  NoUser = NoUser
  None = None
  Refused = Refused
  NotFound = NotFound
  PageSize = 1
  PageCap = 3
  MaxMembers = 4
  BuildNeedsEngine = TRUE
  Screens <- ScreenRequests
  PullRequests = {1, 2}
  Users = {"olga"}
  Tips <- TipsOfMain
  PushesTo <- Pushed
  MaxRuns = 3
  Start <- Starts
  RulesetPage = 2
  RulesetCap = 2
  Sites <- SitesOfMain
  Changes <- PushedChanges
  Reads <- FailedReads
  Rewritten = Rewritten
  Author = "alice"
  Reviewers = {"olga", "bob"}
  MaxPushes = 1
CHECK_DEADLOCK FALSE
INVARIANTS PassIsOfThisPullRequest GreenFollowsReviews WiredMeansGuarded
