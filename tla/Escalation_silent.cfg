SPECIFICATION Spec
CONSTANTS
  a1 = a1  mail = mail  chat = chat  sms = sms  s1 = s1  s2 = s2  w1 = w1  w2 = w2
  Alerts = {a1}
  Channels = {mail}
  EmailChannels = {mail}
  Steps = 2
  Route <- MailTwice
  OnCallSteps = {2}
  Scanners = {s1}
  Workers = {w1}
  BreakerThreshold = 1
  MaxPerHour = 1
  MaxFaults = 0
INVARIANT EscalationNotifies
CHECK_DEADLOCK FALSE
