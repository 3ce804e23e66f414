SPECIFICATION PanicFairSpec
CONSTANTS
  Downloader = {d1}
  Mutator = {}
  Client = {}
  Job = {j1, j2}
  Nobody = Nobody
PROPERTY AdmissionReopens
CHECK_DEADLOCK FALSE
