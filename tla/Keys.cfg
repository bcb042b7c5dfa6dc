SPECIFICATION FairSpec
CONSTANTS
  server = server
  relay = relay
  client = client
  Procs = {server, relay, client}
  Hosts = {server, relay}
  Rekeying = {client}
  OptionsOf <- MCOptionsOf
  flagSecret = flagSecret
  fileSecret = fileSecret
  Secrets = {flagSecret, fileSecret}
  NoText = NoText
  NoFile = NoFile
  Empty = Empty
  Absent = Absent
  MaxKeys = 2
INVARIANTS TypeOK PeerKeyIsPeers AgreeAtFirst FlagsEncrypt
PROPERTIES MeetsSolePeer
CHECK_DEADLOCK FALSE
