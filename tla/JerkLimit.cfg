\* One joint from 0 to 120 and rows near, at and far from one end. The speed limit
\* is 3 + 4 + 1: like the default (1000 = 3 + 249 * 4 + 1), one that a single
\* distant target reaches within the jerk limit.
SPECIFICATION FairPathSpec
CONSTANTS
  Lower = 0
  Upper = 120
  Margin = 4
  MaxStep = 120
  VMax = 8
  AMax = 4
  JMax = 3
  KpInv = 4
  Kinds = {"joint_absolute"}
  Rows = {0, 8, 120}
  Lag = 0
PROPERTY JerkLimited
