SPECIFICATION Spec
CONSTANTS
  None = None
  Parts = {"hpke", "ech", "batch", "ktls", "wire", "keys", "auth", "credentials"}
  SeqLimit = 3
  EchConfigurations <- MCEchConfigurations
  BatchSetups <- MCBatchSetups
  BatchThreads = {"t1", "t2"}
  MaxSignatures = 6
  KTLSSetups <- MCKTLSSetups
  KTLSFaults <- MCKTLSFaults
  PeerRecords <- MCPeerRecords
  KTLSWrites <- MCKTLSWrites
  ByteBase = 4
  MaxHandshakeSize = 40
  KeySetups <- MCKeySetups
  MaxKeyUpdates = 2
  TicketNonces = {0, 1}
  AuthConnections = {"c1", "c2"}
  AuthCerts <- MCAuthCerts
  AuthRequests <- MCAuthRequests
  AuthSupported <- MCAuthSupported
  MaxAuthenticators = 2
  CredRoles = {"server", "client"}
  X509Chains <- MCX509Chains
  CredKeys <- MCCredKeys
  CredLifetimes = {1, 2, 3}
  CredWeek = 2
  CredMaxTime = 2
  CredSkews <- MCCredSkews
  CredSnis <- MCCredSnis
  CredPeers <- MCCredPeers
  CredSupported <- MCCredSupported
  CompressionOrder <- MCCompressionOrder
  CertMessageLimit = 2
  MaxCertsAdded = 2
  MaxCredentials = 1
CHECK_DEADLOCK FALSE
INVARIANTS
  ECHAgreement
  HpkeInOrder
  BatchSignaturesVerify
  KTLSContinuesStream
  WireRoundTrip
  KeySchedulesAgree
  AuthenticatorsBind
  CredentialsHold
