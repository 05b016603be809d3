\* Ports of two bits in numbers of six.  Both listeners' ports and one setting of
\* every other kind are given, two by each source.
CONSTANTS
  Given = {"http_port", "https_port", "burst_size", "host", "enabled", "run_mode", "level"}
  MaxGiven = 2
  Numbers <- MCNumbers
  MaxPort = 3
  MaxCount = 40
  Wrap = 64
  DefaultHttp = 1
  DefaultHttps = 2
  DefaultUpstream = 3
  Absent = Absent
  Malformed = Malformed
SPECIFICATION Spec
INVARIANTS
  TypeOK
  SettingsPrecedence
  ServesOnDistinctPorts
  BadFileNeverServes
