\* Three tokens for quotas of two and one; the clock runs for longer than the retention of a lead.
CONSTANTS
  Token = {t1, t2, t3}
  Mailbox = {m1, m2}
  Spelling = {lower, upper}
  None = None
  Hour = 1
  Day = 2
  TotalQuota = 2
  EmailQuota = 1
  Retention = 2
  MaxTime = 2
  MaxSubmitted = 2
  MaxReceived = 1
SPECIFICATION Spec
SYMMETRY Symmetry
INVARIANTS HourlyQuota DailyQuota ReceivedIsRecorded
