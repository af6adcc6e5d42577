\* boots, stops, new containers and runs by hand, and the datagrams in between
SPECIFICATION ServiceSpec
CONSTANTS
  Files <- MCFiles
  Services <- MCServices
  WithServices = TRUE
  MaxRuns = 2
  Threads = {"files", "dtls_echo", "udp_handle"}
  Process <- MCProcess
  Echoing = {"dtls_echo"}
  Handler = {"udp_handle"}
  Secure = {"dtls_echo"}
  Joined = {"udp"}
  Wanted = {1}
INVARIANTS ServiceTypeOK FileLossCause
PROPERTIES OnlyRestartRepairs
CHECK_DEADLOCK FALSE
