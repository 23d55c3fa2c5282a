SPECIFICATION FairSpec
CONSTANTS
  UserIds = {u1, u2}
  ExternalIds = {x1, x2}
  Browsers = {b1}
  Requests = {r1, r2}
  Comments = {NoComment}
  TooLong = {}
  NoComment = NoComment
  NoId = NoId
  NoUser = NoUser
  NoReview = NoReview
  NoSession = NoSession
  NoRequest = NoRequest
INVARIANTS
  TypeOK
  OneAccount
  InactiveAreListed
  SessionsNotAhead
PROPERTIES
  AccountsSpec
  ApprovedGetIn
