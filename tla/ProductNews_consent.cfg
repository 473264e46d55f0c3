\* One address asks, leaves and asks again while a test and a campaign go out;
\* cron and living workers are fair.
SPECIFICATION FairSpec
CONSTANTS
  Subscribers = {s1}
  Campaigns = {c1}
  Workers = {w1, w2}
  Testers = {s1}
  MaxGrants = 2
  NoDelivery = NoDelivery
INVARIANTS
  ConsentEvidence
PROPERTIES
  RepeatedEventIsInert
  ClaimsSettle
