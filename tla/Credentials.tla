---------------------------- MODULE Credentials ----------------------------
(***************************************************************************)
(* What an end proves its name with: certificates and delegated            *)
(* credentials (extensions/delegatedcred), the managers that choose one    *)
(* for a peer (server/CertManager.cpp, client/CertManager.cpp), the        *)
(* compressed form they are sent in (compression) and the peer's checks    *)
(* (backend/openssl/certificate, DefaultCertificateVerifier.cpp).  A       *)
(* credential is a key that a certificate's own key signed for some days.  *)
(*                                                                         *)
(* A name is a sequence of labels.  A signature is the term of its key and *)
(* what was signed; it has no collisions and nobody forges one.            *)
(***************************************************************************)
EXTENDS TokenCipher, FiniteSets, SequencesExt

CONSTANTS
  CredRoles,          \* of the end that proves its name: "server", "client"
  X509Chains,         \* the certificate chains of that end, leaf first
  CredKeys,           \* keys that a credential may be for
  CredLifetimes,      \* validities that are asked for
  CredWeek,           \* seven days
  CredMaxTime,        \* the model's clock
  CredSkews,          \* of the peer's clock
  CredSnis,           \* names a peer asks for
  CredPeers,          \* [schemes, dcSchemes, algos, roots]: peers
  CredSupported,      \* supportedSigSchemes of the context, in order
  CompressionOrder,   \* getSupportedCompressionAlgorithms of the context
  CertMessageLimit,   \* kMaxHandshakeSize
  MaxCertsAdded,
  MaxCredentials

NoLabel == ""              \* what is before the dot of ".x"
IsList(s) == s \in Seq({s[i] : i \in DOMAIN s})

(* A chain has a leaf, and the leaf names, none of which begins with an    *)
(* empty label; times are whole.  The absent value is not an algorithm.    *)
ASSUME CredentialsAssumption ==
  /\ CredRoles \subseteq {"server", "client"}
  /\ CredWeek \in Int /\ CredLifetimes \subseteq Int /\ CredSkews \subseteq Int
  /\ \A chain \in X509Chains :
       /\ IsList(chain) /\ chain # <<>>
       /\ chain[1].notBefore \in Int
       /\ IsList(chain[1].names) /\ chain[1].names # <<>>
       /\ \A i \in DOMAIN chain[1].names :
            IsList(chain[1].names[i]) /\ (chain[1].names[i] # <<>> => chain[1].names[i][1] # NoLabel)
  /\ \A sni \in CredSnis \ {None} : IsList(sni)
  /\ IsList(CredSupported)
  /\ CompressionOrder \in Seq({"zlib", "zstd", "brotli"}) /\ None \notin {"zlib", "zstd", "brotli"}

VARIABLE cr

(* A map with the entries of another that it has none for.                 *)
Extended(f, g) == [x \in DOMAIN f \cup DOMAIN g |-> IF x \in DOMAIN f THEN f[x] ELSE g[x]]

(* The first place of a list that is one of S.                             *)
FirstPlace(S) == CHOOSE i \in S : \A j \in S : i <= j

SigSchemeOf ==
  [RSA |-> "rsa_pss_sha256", P256 |-> "ecdsa_secp256r1_sha256",
   P384 |-> "ecdsa_secp384r1_sha384", P521 |-> "ecdsa_secp521r1_sha512", ED25519 |-> "ed25519"]
GetSigSchemes(type) == {SigSchemeOf[type]}

VerifyLabels ==
  [Server |-> "TLS 1.3, server CertificateVerify", Client |-> "TLS 1.3, client CertificateVerify",
   ServerDelegatedCredential |-> "TLS, server delegated credentials",
   ClientDelegatedCredential |-> "TLS, client delegated credentials"]
PrepareSignData(context, over) == [label |-> VerifyLabels[context], over |-> over]

(* OpenSSLSelfCertImpl<type>::sign; None is an exception, here and below.  *)
SignWith(type, key, scheme, context, over) ==
  IF scheme \notin GetSigSchemes(type) THEN None
  ELSE [key |-> key, scheme |-> scheme, data |-> PrepareSignData(context, over)]

(* OpenSSLPeerCertImpl<type>: setKey refuses a key of another type.        *)
PeerKeyFits(type, key) == key.type = type
VerifyWith(type, key, scheme, context, over, sig) ==
  /\ PeerKeyFits(type, key)
  /\ scheme \in GetSigSchemes(type)
  /\ sig = [key |-> key, scheme |-> scheme, data |-> PrepareSignData(context, over)]

-----------------------------------------------------------------------------
(* Certificates and credentials of one's own.                              *)
Compressor(algo, msg) == [algorithm |-> algo, length |-> msg.size, message |-> msg]
ZlibCompress(msg) == Compressor("zlib", msg)
ZstdCompress(msg) == Compressor("zstd", msg)
BrotliCompress(msg) == Compressor("brotli", msg)
CompressWith(algo, msg) ==
  CASE algo = "zlib" -> ZlibCompress(msg)
    [] algo = "zstd" -> ZstdCompress(msg)
    [] algo = "brotli" -> BrotliCompress(msg)

(* The message of a chain, with the credential on its leaf.                *)
GetCertMessage(cert) ==
  [chain |-> cert.chain, credential |-> cert.credential, size |-> Len(cert.chain)]

MakeSelfCert(chain, key, algos) ==
  IF key # chain[1].key THEN None
  ELSE [chain |-> chain, key |-> key, credential |-> None, type |-> key.type,
        compressors |-> algos]

CertSigSchemes(cert) ==
  IF cert.credential = None THEN GetSigSchemes(cert.type) ELSE {cert.credential.verifyScheme}

CheckExtensions(x509) == x509.delegation /\ x509.keyUsage = "digitalSignature"

PrepareSignatureBuffer(cred, x509) == <<x509, cred.validTime, cred.verifyScheme, cred.publicKey, cred.scheme>>

(* Any of the checks throws.  The key that signs is the certificate's.     *)
GenerateCredential(cert, credKey, signScheme, verifyScheme, context, valid, now) ==
  LET cred == [validTime |-> now + valid - cert.chain[1].notBefore, verifyScheme |-> verifyScheme,
               publicKey |-> credKey, scheme |-> signScheme, signature |-> None]
  IN IF \/ context \notin {"ServerDelegatedCredential", "ClientDelegatedCredential"}
        \/ valid > CredWeek
        \/ ~CheckExtensions(cert.chain[1])
        \/ verifyScheme \notin GetSigSchemes(credKey.type)
        \/ signScheme \notin CertSigSchemes(cert)
     THEN None
     ELSE [cred EXCEPT !.signature =
             SignWith(cert.type, cert.key, signScheme, context, PrepareSignatureBuffer(cred, cert.chain[1]))]

DelegationContext(mode) ==
  IF mode = "server" THEN "ServerDelegatedCredential" ELSE "ClientDelegatedCredential"

(* SelfDelegatedCredentialImpl<type>: the key is compared by type alone.   *)
MakeSelfDelegatedCredential(type, mode, chain, key, cred, algos) ==
  IF \/ chain = <<>>
     \/ key.type # type
     \/ ~CheckExtensions(chain[1])
     \/ cred.verifyScheme \notin GetSigSchemes(type)
     \/ ~VerifyWith(chain[1].key.type, chain[1].key, cred.scheme, DelegationContext(mode),
                    PrepareSignatureBuffer(cred, chain[1]), cred.signature)
  THEN None
  ELSE [chain |-> chain, key |-> key, credential |-> cred, type |-> type, compressors |-> algos]

(* The sections of a PEM file are labelled by the mode they were made in.  *)
GenerateDelegatedCredentialPEM(mode, cred, key) == [mode |-> mode, credential |-> cred, key |-> key]
LoadDCFromPEM(chain, pem, mode) ==
  IF pem.mode # mode THEN None
  ELSE MakeSelfDelegatedCredential("P256", mode, chain, pem.key, pem.credential, {})

-----------------------------------------------------------------------------
(* The managers.  certs maps a key and a scheme to a certificate.          *)
LowerOf == [A |-> "a"]
Lower(name) == [i \in DOMAIN name |-> IF name[i] \in DOMAIN LowerOf THEN LowerOf[name[i]] ELSE name[i]]
NoManager == [certs |-> <<>>, ident |-> <<>>, default |-> <<NoLabel>>]

FindCert(mgr, key, peerSchemes) ==
  LET found == {i \in DOMAIN CredSupported :
                  <<key, CredSupported[i]>> \in DOMAIN mgr.certs /\ CredSupported[i] \in peerSchemes}
      scheme == CredSupported[FirstPlace(found)]
  IN IF found = {} THEN None
     ELSE [cert |-> mgr.certs[<<key, scheme>>], scheme |-> scheme, type |-> "Direct"]

GetDefault(mgr, peerSchemes) ==
  IF FindCert(mgr, mgr.default, peerSchemes) = None THEN None
  ELSE [FindCert(mgr, mgr.default, peerSchemes) EXCEPT !.type = "Default"]

(* ".x" for "a.x": the first label is left out, its dot stays.             *)
WildcardKey(key) == <<NoLabel>> \o Tail(key)

GetCert(mgr, sni, peerSchemes) ==
  IF sni = None THEN GetDefault(mgr, peerSchemes)
  ELSE IF FindCert(mgr, Lower(sni), peerSchemes) # None THEN FindCert(mgr, Lower(sni), peerSchemes)
  ELSE IF Len(sni) > 1 /\ FindCert(mgr, WildcardKey(Lower(sni)), peerSchemes) # None
  THEN FindCert(mgr, WildcardKey(Lower(sni)), peerSchemes)
  ELSE GetDefault(mgr, peerSchemes)

(* For a ticket: the certificate it was made under.                        *)
GetCertOfIdentity(mgr, ident) == IF ident \in DOMAIN mgr.ident THEN mgr.ident[ident] ELSE None

GetKeyFromIdent(ident) ==
  Lower(IF ident[1] = "*" THEN WildcardKey(ident) ELSE ident)

(* addCertIdentity's check.  A star is a label of its own here: a first    *)
(* label that only begins with one, which the code would cut to its rest,  *)
(* is left out.                                                            *)
InvalidIdent(ident) ==
  \/ ident = <<>>
  \/ GetKeyFromIdent(ident) \in {<<NoLabel>>, <<NoLabel, NoLabel>>}
  \/ \E i \in DOMAIN ident : i > 1 /\ ident[i] = "*"

(* What is there already stays.                                            *)
AddCertIdentity(mgr, cert, idents) ==
  [mgr EXCEPT !.certs = Extended(@,
     [k \in {GetKeyFromIdent(ident) : ident \in idents} \X CertSigSchemes(cert) |-> cert])]

(* The first is the one a certificate is known by; where it comes again it *)
(* has been added already.                                                 *)
Identities(cert) == cert.chain[1].names

(* An identity that is not valid throws and leaves those before it in.     *)
AddCertAs(mgr, cert, default) ==
  LET idents == Identities(cert)
      bad == {i \in DOMAIN idents : InvalidIdent(idents[i])}
      added == AddCertIdentity(mgr, cert, {idents[i] : i \in {j \in DOMAIN idents : \A b \in bad : j < b}})
  IN IF bad # {} THEN added
     ELSE [added EXCEPT !.default = IF default THEN GetKeyFromIdent(idents[1]) ELSE @,
                        !.ident = Extended(@, [i \in {idents[1]} |-> cert])]

(* A client has one certificate for a scheme, whatever its name.           *)
GetClientCert(mgr, peerSchemes) ==
  LET found == {i \in DOMAIN CredSupported :
                  CredSupported[i] \in DOMAIN mgr.certs /\ CredSupported[i] \in peerSchemes}
      scheme == CredSupported[FirstPlace(found)]
  IN IF found = {} THEN None
     ELSE [cert |-> mgr.certs[scheme], scheme |-> scheme, type |-> "Default"]

AddClientCert(mgr, cert, override) ==
  [mgr EXCEPT !.certs = IF override THEN Extended([s \in CertSigSchemes(cert) |-> cert], @)
                        ELSE Extended(@, [s \in CertSigSchemes(cert) |-> cert])]

(* A peer that takes credentials is first offered one.                     *)
GetServerMatch(mgrs, sni, peer) ==
  LET dc == IF peer.dcSchemes = None THEN None ELSE GetCert(mgrs.dc, sni, peer.dcSchemes)
  IN IF dc # None THEN dc ELSE GetCert(mgrs.plain, sni, peer.schemes)
GetClientMatch(mgrs, peer) ==
  LET dc == IF peer.dcSchemes = None THEN None ELSE GetClientCert(mgrs.dc, peer.dcSchemes)
  IN IF dc # None THEN dc ELSE GetClientCert(mgrs.plain, peer.schemes)

GetIdentityMatch(mgrs, ident) ==
  IF GetCertOfIdentity(mgrs.dc, ident) # None THEN GetCertOfIdentity(mgrs.dc, ident)
  ELSE GetCertOfIdentity(mgrs.plain, ident)

(* getCertificate: an algorithm that both ends have and that the           *)
(* certificate was not given a compressor for is an exception.             *)
GetCertificate(cert, peer) ==
  LET common == {i \in DOMAIN CompressionOrder : CompressionOrder[i] \in peer.algos}
      algo == CompressionOrder[FirstPlace(common)]
  IN IF common = {} THEN [algorithm |-> None, length |-> 0, message |-> GetCertMessage(cert)]
     ELSE IF algo \notin cert.compressors THEN None
     ELSE CompressWith(algo, GetCertMessage(cert))

-----------------------------------------------------------------------------
(* The peer.                                                               *)
Decompressor(algo, cc) ==
  IF \/ cc.algorithm # algo
     \/ cc.length > CertMessageLimit
     \/ cc.message.size # cc.length
  THEN None ELSE cc.message
ZlibDecompress(cc) == Decompressor("zlib", cc)
ZstdDecompress(cc) == IF cc.length = 0 THEN None ELSE Decompressor("zstd", cc)
BrotliDecompress(cc) == Decompressor("brotli", cc)
GetDecompressor(peer, algo) == algo \in peer.algos

HandleCompressedCertificate(peer, cc) ==
  IF ~GetDecompressor(peer, cc.algorithm) THEN None
  ELSE CASE cc.algorithm = "zlib" -> ZlibDecompress(cc)
         [] cc.algorithm = "zstd" -> ZstdDecompress(cc)
         [] cc.algorithm = "brotli" -> BrotliDecompress(cc)

ReceivedMessage(peer, sent) ==
  IF sent.algorithm = None THEN sent.message ELSE HandleCompressedCertificate(peer, sent)

(* Mutant: a credential is good for the moment it expires in.              *)
CheckCredentialTimeValidityMutant(x509, cred, now) ==
  LET expires == x509.notBefore + cred.validTime
  IN now <= expires /\ expires - now <= CredWeek

CheckCredentialTimeValidity(x509, cred, now) ==
  LET expires == x509.notBefore + cred.validTime
  IN now < expires /\ expires - now <= CredWeek

(* makePeerCertStatic: the leaf with its credential, if it has one, which  *)
(* is then of the credential's type; an extension that was not asked for   *)
(* is refused before.                                                      *)
MakePeerCert(peer, msg) ==
  IF msg.credential = None THEN [x509 |-> msg.chain[1], key |-> msg.chain[1].key, credential |-> None]
  ELSE IF peer.dcSchemes = None \/ ~PeerKeyFits(msg.credential.publicKey.type, msg.chain[1].key) THEN None
  ELSE [x509 |-> msg.chain[1], key |-> msg.credential.publicKey, credential |-> msg.credential]

VerifyDelegated(cert, scheme, context, over, sig, now) ==
  /\ scheme = cert.credential.verifyScheme
  /\ CheckExtensions(cert.x509)
  /\ CheckCredentialTimeValidity(cert.x509, cert.credential, now)
  /\ VerifyWith(cert.key.type, cert.x509.key, cert.credential.scheme,
       IF context = "Server" THEN "ServerDelegatedCredential" ELSE "ClientDelegatedCredential",
       PrepareSignatureBuffer(cert.credential, cert.x509), cert.credential.signature)
  /\ VerifyWith(cert.key.type, cert.key, scheme, context, over, sig)

VerifyLeaf(cert, scheme, context, over, sig, now) ==
  IF cert.credential = None THEN VerifyWith(cert.key.type, cert.key, scheme, context, over, sig)
  ELSE VerifyDelegated(cert, scheme, context, over, sig, now)

(* X509_verify_cert: a path to a root, and the purpose of the other role.  *)
X509Verify(chain, roots, purpose) ==
  /\ purpose \in chain[1].purposes
  /\ \E n \in DOMAIN chain :
       chain[n].issuer \in roots /\ \A i \in 1 .. n - 1 : chain[i].issuer = chain[i + 1].subject
VerifyWithX509StoreCtx(chain, roots, role) ==
  chain # <<>> /\ X509Verify(chain, roots, IF role = "client" THEN "ssl_server" ELSE "ssl_client")

(* The peer's handlers of Certificate and CertificateVerify.               *)
RoleContext(role) == IF role = "server" THEN "Server" ELSE "Client"
OtherRole(role) == IF role = "server" THEN "client" ELSE "server"
PeerAccepts(role, peer, msg, scheme, sig, now) ==
  /\ msg # None
  /\ MakePeerCert(peer, msg) # None
  /\ scheme \in peer.schemes
  /\ VerifyLeaf(MakePeerCert(peer, msg), scheme, RoleContext(role), <<"transcript">>, sig, now)
  /\ VerifyWithX509StoreCtx(msg.chain, peer.roots, OtherRole(role))

-----------------------------------------------------------------------------
(* pems are the credentials that were issued and when; adds counts what    *)
(* the managers were given; shown and got are one handshake.               *)
CredentialsInit ==
  \E role \in CredRoles :
    cr = [role |-> role, now |-> 0, pems |-> {}, added |-> {}, adds |-> 0,
          mgrs |-> [plain |-> NoManager, dc |-> NoManager], shown |-> None, got |-> None]

SelfCerts == {MakeSelfCert(chain, key, algos) :
                chain \in X509Chains, key \in {c[1].key : c \in X509Chains}, algos \in {{}, {"zlib", "zstd"}}}

IssueCredential ==
  \E chain \in X509Chains, key \in CredKeys, mode \in CredRoles, valid \in CredLifetimes :
    /\ cr.shown = None /\ Cardinality(cr.pems) < MaxCredentials
    /\ \E cred \in {GenerateCredential(MakeSelfCert(chain, chain[1].key, {}), key,
                      SigSchemeOf[chain[1].key.type], SigSchemeOf[key.type], DelegationContext(mode),
                      valid, cr.now)} :
         /\ cred # None
         /\ cr' = [cr EXCEPT !.pems = @ \cup
              {[pem |-> GenerateDelegatedCredentialPEM(mode, cred, key), parent |-> chain,
                issued |-> cr.now, valid |-> valid]}]

(* What was added with no exception: a client does not look at names.      *)
Remember(cert) ==
  IF cr.role = "server" /\ \E i \in DOMAIN Identities(cert) : InvalidIdent(Identities(cert)[i])
  THEN {} ELSE {cert}

AddCert(flag) ==
  \E cert \in SelfCerts \ {None} :
    /\ cr.shown = None /\ cr.adds < MaxCertsAdded
    /\ cr' = [cr EXCEPT !.adds = @ + 1, !.added = @ \cup Remember(cert),
         !.mgrs.plain = IF cr.role = "server" THEN AddCertAs(@, cert, flag) ELSE AddClientCert(@, cert, flag)]

(* The operator joins a chain, a credential and a key into one file.       *)
AddDelegatedCredential(flag) ==
  \E chain \in X509Chains, p \in cr.pems, key \in CredKeys :
    \E cert \in {LoadDCFromPEM(chain, [p.pem EXCEPT !.key = key], cr.role)} :
      /\ cr.shown = None /\ cr.adds < MaxCertsAdded
      /\ cert # None
      /\ cr' = [cr EXCEPT !.adds = @ + 1,
           !.mgrs.dc = IF cr.role = "server" THEN AddCertAs(@, cert, flag) ELSE AddClientCert(@, cert, flag)]

CredentialTick ==
  /\ cr.shown = None /\ cr.pems # {} /\ cr.now < CredMaxTime
  /\ cr' = [cr EXCEPT !.now = @ + 1]

Match(sni, peer) ==
  IF cr.role = "server" THEN GetServerMatch(cr.mgrs, sni, peer) ELSE GetClientMatch(cr.mgrs, peer)

(* A client's certificate is sent as it is.                                *)
CertificateSent(cert, peer) ==
  IF cr.role = "server" THEN GetCertificate(cert, peer)
  ELSE [algorithm |-> None, length |-> 0, message |-> GetCertMessage(cert)]

PresentCertificate ==
  \E peer \in CredPeers, sni \in (IF cr.role = "server" THEN CredSnis ELSE {None}) :
    /\ cr.shown = None /\ cr.adds > 0
    /\ \E match \in {Match(sni, peer)} :
         cr' = [cr EXCEPT !.shown =
           [peer |-> peer, sni |-> sni, match |-> match,
            sent |-> IF match = None THEN None ELSE CertificateSent(match.cert, peer),
            signature |-> IF match = None THEN None
                          ELSE SignWith(match.cert.type, match.cert.key, match.scheme,
                                        RoleContext(cr.role), <<"transcript">>)]]

(* Another implementation may give the length of its message wrongly; the  *)
(* peer's clock matters to credentials only.                               *)
CheckCertificate ==
  \E skew \in CredSkews, wrong \in {-1, 0, 1} :
    /\ cr.shown # None /\ cr.got = None
    /\ cr.shown.sent # None
    /\ cr.shown.sent.algorithm = None => wrong = 0
    /\ cr.shown.match.cert.credential = None => skew = 0
    /\ \E msg \in {ReceivedMessage(cr.shown.peer, [cr.shown.sent EXCEPT !.length = @ + wrong])} :
         cr' = [cr EXCEPT !.got =
           [now |-> cr.now + skew, wrong |-> wrong, message |-> msg,
            accepted |-> PeerAccepts(cr.role, cr.shown.peer, msg, cr.shown.match.scheme,
                                     cr.shown.signature, cr.now + skew)]]

CredentialsNext ==
  \/ IssueCredential
  \/ \E flag \in BOOLEAN : AddCert(flag)
  \/ \E flag \in BOOLEAN : AddDelegatedCredential(flag)
  \/ CredentialTick
  \/ PresentCertificate
  \/ CheckCertificate

-----------------------------------------------------------------------------
(* cert has the name sni, itself or for the domain it is in.               *)
HasName(cert, sni) ==
  \E i \in DOMAIN cert.chain[1].names :
    LET name == Lower(cert.chain[1].names[i]) IN
      \/ name = Lower(sni)
      \/ name[1] = "*" /\ Len(sni) > 1 /\ Tail(name) = Tail(Lower(sni))
Trusted(chain, peer, role) == VerifyWithX509StoreCtx(chain, peer.roots, OtherRole(role))

(* The choice is right: the scheme is one that both ends take for this     *)
(* kind, a credential is offered only to a peer that asks for one, what is *)
(* called a match of the name has the name, and when a certificate with    *)
(* the name and a common scheme was added the peer does not get the        *)
(* default one of the certificates.                                        *)
ChoiceIsRight(peer, sni, match) ==
  /\ match # None =>
       /\ \E i \in DOMAIN CredSupported : CredSupported[i] = match.scheme
       /\ match.scheme \in (IF match.cert.credential = None THEN peer.schemes ELSE peer.dcSchemes)
       /\ match.cert.credential # None => peer.dcSchemes # None
       /\ match.type = "Direct" => HasName(match.cert, sni)
  /\ (\E c \in cr.added :
        /\ CertSigSchemes(c) \cap peer.schemes \cap Range(CredSupported) # {}
        /\ cr.role = "server" => (sni # None /\ HasName(c, sni))) =>
       /\ match # None
       /\ match.type = "Direct" \/ match.cert.credential # None \/ cr.role = "client"

(* The credential that was shown was issued for this role by the leaf's    *)
(* key, its own key is the one that signed, and the peer's clock is in its *)
(* time and at most a week before its end.                                 *)
IssuedFor(cert, role, now) ==
  \E p \in cr.pems :
    /\ p.pem.credential = cert.credential /\ p.pem.mode = role
    /\ p.parent[1] = cert.chain[1] /\ p.pem.key = cert.key
    /\ CheckExtensions(cert.chain[1])
    /\ now < p.issued + p.valid /\ p.issued + p.valid - now <= CredWeek

(* The peer takes what the end has a right to, and nothing else: a         *)
(* compressed message counts only with its true length, a credential only  *)
(* while it is good.  What is refused though it was issued has a           *)
(* credential of another key type than its certificate's.                  *)
VerdictIsRight(peer, match, got) ==
  LET cert == match.cert IN
  /\ got.message # None => got.message = GetCertMessage(cert) /\ got.wrong = 0
  /\ got.accepted =>
       /\ got.message # None /\ Trusted(cert.chain, peer, cr.role) /\ match.scheme \in peer.schemes
       /\ cert.credential # None => IssuedFor(cert, cr.role, got.now)
  /\ (/\ got.message # None /\ Trusted(cert.chain, peer, cr.role) /\ match.scheme \in peer.schemes
      /\ cert.credential # None =>
           IssuedFor(cert, cr.role, got.now) /\ cert.key.type = cert.chain[1].key.type) => got.accepted

(* Managers choose rightly, peers judge rightly, and the identity that a   *)
(* ticket names leads back to a certificate with this identity             *)
(* (CertManager, DelegatedCredentialCertManager, PeerDelegatedCredential). *)
CredentialsHold == (IF cr = None THEN FALSE ELSE cr.shown # None) =>
  /\ ChoiceIsRight(cr.shown.peer, cr.shown.sni, cr.shown.match)
  /\ cr.got # None => VerdictIsRight(cr.shown.peer, cr.shown.match, cr.got)
  /\ cr.role = "server" => \A c \in cr.added :
       LET ident == Identities(c)[1] IN
         /\ GetIdentityMatch(cr.mgrs, ident) # None
         /\ Identities(GetIdentityMatch(cr.mgrs, ident))[1] = ident
=============================================================================
