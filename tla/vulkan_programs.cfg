SPECIFICATION Spec
CONSTANTS
  Drivers <- MCDrivers
  Requests <- MCRequests
INVARIANTS
  CallsAreValid
  NothingLeaked
  NoHazard
  HostReadsItsPasses
  MediansAreOfTheirPass
PROPERTY ComputeNeverRegresses
