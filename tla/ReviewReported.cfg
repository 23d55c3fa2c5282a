SPECIFICATION Spec
CONSTANTS
  UserIds = {u1}
  ExternalIds = {x1}
  Browsers = {b1}
  Requests = {r1}
  Comments = {NoComment, short, long}
  TooLong = {long}
  NoComment = NoComment
  NoId = NoId
  NoUser = NoUser
  NoReview = NoReview
  NoSession = NoSession
  NoRequest = NoRequest
INVARIANTS
  ReportedCommentStored
