SPECIFICATION Spec
CONSTANTS
  a1 = a1  mail = mail  chat = chat  sms = sms  s1 = s1  s2 = s2  w1 = w1  w2 = w2
  Alerts = {a1}
  Channels = {mail, chat, sms}
  EmailChannels = {mail}
  Steps = 1
  Route <- MailOnly
  OnCallSteps = {1}
  Scanners = {s1}
  Workers = {w1, w2}
  BreakerThreshold = 1
  MaxPerHour = 1
  MaxFaults = 1
INVARIANTS TypeOK RoutedReaches DeliveredPerWorker DeliveryLimitOvershoot
SYMMETRY Symmetry
CHECK_DEADLOCK FALSE
