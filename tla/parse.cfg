SPECIFICATION Spec
CONSTANTS
  Dst <- Near
  Lens <- Short
  Jobs <- ShortJobs
INVARIANTS EndIsOptimal WindowMinimum EdgesDominate
PROPERTIES Terminates
