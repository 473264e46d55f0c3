\* Does a complaint the provider reports always stop the next send?
SPECIFICATION Spec
CONSTANTS
  Subscribers = {s1}
  Campaigns = {c1}
  Workers = {w1}
  Testers = {s1}
  MaxGrants = 1
  NoDelivery = NoDelivery
INVARIANT RefusalsAreHonoured
