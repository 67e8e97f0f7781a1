CONSTANTS
  Near <- MCNear
  Nobody = Nobody
  NotPeople <- MCNotPeople
  Headings <- MCHeadings
  Unsaid = Unsaid
  SameThing <- MCSameThing
  MonthStart <- MCMonthStart
  Meetings <- MCMeetings
  Lines <- MCLines
  RunDays <- MCRunDays
  Replies <- MCReplies
  Verdicts <- MCVerdicts
  OwnerAnswers <- MCOwnerAnswers
  DateAnswers <- MCDateAnswers
  People <- MCPeople
  NoMeeting = NoMeeting
SPECIFICATION Spec
INVARIANTS TypeOK NothingIsDropped NobodyIsGuessed FirstPersonIsTheSpeaker OnlySharedLabelsAreRefused DeadlinesAreNearest LaterSaidLaterDue
PROPERTIES EnrolmentSettles
