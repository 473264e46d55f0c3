\* Two senders race over two addresses of one campaign.  Cron and living workers
\* are fair: they bring the campaign to its end.
SPECIFICATION FairSpec
CONSTANTS
  Subscribers = {s1, s2}
  Campaigns = {c1}
  Workers = {w1, w2}
  Testers = {}
  MaxGrants = 1
  NoDelivery = NoDelivery
INVARIANTS
  CompletedIsDrained
PROPERTIES
  SendsAreConsented
  ReleasedEnds
