CONSTANTS
  f1 = f1
  MaxNotifications = 2
  Features = {f1}
  FeatureOf <- Single
  MaxItems = 1
  Cap = 1
  MaxExcused = 1
  DigestFaults = {"toggle", "prefer", "expire", "resend", "fail", "crash"}
SPECIFICATION DigestFairSpec
INVARIANTS MailedOnce
 
