CONSTANTS
  MaxRetries = 3
  DefaultRetryAfter = 1
  MaxRetryAfter = 30
  Hints <- MCHints
  Missing = Missing
  Unparsable = Unparsable
  MaxFound = 2
  Providers = {"github", "azure"}
  PageSize = 3
  Sizes <- MCSizes
  Limits <- MCLimits
SPECIFICATION PagedSpec
INVARIANT
  PagesAddUp
CHECK_DEADLOCK FALSE
