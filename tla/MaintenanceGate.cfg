SPECIFICATION FairSpec
CONSTANTS
  Downloader = {d1}
  Mutator = {}
  Client = {c1}
  Job = {j1, j2}
  Nobody = Nobody
INVARIANT NoRunDuringTransaction
PROPERTIES ImplementsAccess JobsEnd AdmissionReopens
