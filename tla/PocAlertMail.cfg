\* Alerts of one hotel and the mails they lead to.
SPECIFICATION MailFairSpec
CONSTANTS
  Hotels = {h1}
  Pocs = {p1}
  NoPoc = NoPoc
  NoKey = NoKey
  Runs = {r1}
  Cooldown = 1
  WeekLen = 3
  Cap = 1
  MaxRetries = 1
  MaxNow = 1
  MaxMails = 2
  MailRetries = 0
PROPERTIES AlertsReachTheirEnd
