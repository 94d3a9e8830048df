\* The operator and the migration.
SPECIFICATION Spec
CONSTANTS
  Worlds = {"operator", "startup"}
  None = none
  \* A report that is deleted and made again, edited, and one failing call.
  Names = {r1}  MaxUid = 2  MaxVersion = 3  MaxFaults = 1
  \* Two servers, one crash, one outage.
  Servers = {"s1", "s2"}  Combinations <- MCCombinations  MaxCrashes = 1  MaxOutages = 1
INVARIANTS NothingForgotten OssServesMigrated
PROPERTIES ReportsGetServed OssServersSettle
CHECK_DEADLOCK FALSE
