SPECIFICATION RegistrationSpec
CONSTANTS
  Owners = {o1}
  Extensions = {ext}
  Schemes = {}
  Apps = {app}
  AppDescriptions = {a1}
  NoValue = NoValue
  Malformed = Malformed
  Other = Other
  PartialRecord = PartialRecord
  MaxCalls = 2
INVARIANT FailedCallIsRetryable
CHECK_DEADLOCK FALSE
