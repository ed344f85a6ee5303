-------------------------------- MODULE ECH ---------------------------------
(***************************************************************************)
(* Encrypted client hello (protocol/ech, and its use in the two state      *)
(* machines): a client that hides its hello inside another one, a server   *)
(* that may or may not be able to open it, and a retry in between.         *)
(*                                                                         *)
(* A hello is [random, session, exts]; an extension is a record with the   *)
(* one field set that its type uses.  A transcript is the sequence of the  *)
(* messages hashed.  cfg holds what both sides were configured with.       *)
(***************************************************************************)
EXTENDS Hpke, SequencesExt

CONSTANT EchConfigurations

VARIABLES ephase,      \* whose turn it is, or how the handshake ended
          cfg,
          cl,          \* the client
          sv,          \* the server
          flight,      \* the message in flight
          hellos       \* every hello the network has seen

echVars == <<ephase, cfg, cl, sv, flight, hellos>>

AeadHash == [a \in AeadSuites |-> IF a = "AES_256_GCM_SHA384" THEN "Sha384" ELSE "Sha256"]

Ext(type, v) == [type |-> type, v |-> v, ech |-> None, psk |-> None]
EchExt(e) == [type |-> "encrypted_client_hello", v |-> None, ech |-> e, psk |-> None]
PskExt(p) == [type |-> "pre_shared_key", v |-> None, ech |-> None, psk |-> p]
InnerEch == Ext("encrypted_client_hello", None)

Types(exts) == {exts[i].type : i \in DOMAIN exts}
Get(exts, type) == SelectSeq(exts, LAMBDA e : e.type = type)[1]

RemoveExtension(exts, type) == SelectSeq(exts, LAMBDA e : e.type # type)

ReplaceOrAddExtension(exts, ext) ==
  LET at == SelectInSeq(exts, LAMBDA e : e.type = ext.type)
  IN IF at = 0 THEN Append(exts, ext) ELSE [exts EXCEPT ![at] = ext]

(* Entries of a transcript, and what a server sends back.                  *)
Chlo(chlo) == [hash |-> FALSE, chlo |-> chlo, srv |-> None]
HashOf(chlo) == [hash |-> TRUE, chlo |-> chlo, srv |-> None]
Srv(msg) == [hash |-> FALSE, chlo |-> None, srv |-> msg]

ServerMessage(type, psk) ==
  [type |-> type, ech |-> FALSE, conf |-> None, psk |-> psk, cookie |-> FALSE]

-----------------------------------------------------------------------------
(* Choosing a configuration and setting up HPKE.                           *)

(* No ECH extension is supported, so a mandatory one rules a config out.   *)
HasMandatoryExtension(config) == \E x \in config.extensions : x >= 2^15

(* The public name is one of the well-formed ones.                         *)
IsValidPublicName(config) == config.validName

SuiteUsable(suite, aeads) ==
  suite.aead \in aeads /\ suite.kdf = AeadHash[suite.aead]

Usable(config, kems, aeads) ==
  /\ config.version = "Draft15"
  /\ ~HasMandatoryExtension(config)
  /\ IsValidPublicName(config)
  /\ config.kem \in kems
  /\ \E i \in DOMAIN config.suites : SuiteUsable(config.suites[i], aeads)

SelectECHConfig(configs, kems, aeads) ==
  LET usable == SelectSeq(configs, LAMBDA c : Usable(c, kems, aeads))
  IN IF usable = <<>> THEN None
     ELSE [config |-> usable[1],
           suite |-> SelectSeq(usable[1].suites, LAMBDA s : SuiteUsable(s, aeads))[1]]

GetSupportedECHConfig(configs, ciphers, groups) ==
  SelectECHConfig(configs, groups \cap KemGroups, ciphers \cap AeadSuites)

EchSuite(config, suite) == HpkeSuiteId(config.kem, suite.kdf, suite.aead)

(* The whole configuration is bound to the key.                            *)
HpkeInfo(config) == config

ConstructHpkeSetup(supported, eph) ==
  SetupWithEncap("Base", eph, None, supported.config.pk, HpkeInfo(supported.config),
                 None, EchSuite(supported.config, supported.suite), 0)

SetupDecryptionContext(param, suite, enc, seq) ==
  SetupWithDecap("Base", enc, None, param.kex, HpkeInfo(param.config), None,
                 EchSuite(param.config, suite), seq)

-----------------------------------------------------------------------------
(* Sealing the inner hello.                                                *)

(* Extensions both hellos share are named instead of repeated.             *)
ReplaceOuterExtensions(exts, outerTypes) ==
  LET shared == SelectSeq(exts, LAMBDA e : e.type \in outerTypes)
      at == SelectInSeq(exts, LAMBDA e : e.type \in outerTypes)
  IN IF shared = <<>> THEN exts
     ELSE SelectSeq([exts EXCEPT ![at] =
                       Ext("ech_outer_extensions", [i \in DOMAIN shared |-> shared[i].type])],
                    LAMBDA e : e.type \notin outerTypes)

NameLength(name) == cfg.lengths[name]

ExtLength(e) == IF e.type = "server_name" THEN 9 + NameLength(e.v) ELSE 11

EncodedLength(exts) == FoldSeq(LAMBDA e, n : n + ExtLength(e), 64, exts)

(* Mutant: a hello without a name is not padded to the length of one.       *)
PaddingMutant(inner, size, maxLen) ==
  LET padding == IF "server_name" \in Types(inner.exts)
                 THEN maxLen - NameLength(Get(inner.exts, "server_name").v) ELSE 0
  IN padding + 31 - ((size + padding - 1) % 32)

Padding(inner, size, maxLen) ==
  LET name == IF "server_name" \in Types(inner.exts)
              THEN NameLength(Get(inner.exts, "server_name").v) ELSE None
      padding == IF name = None THEN maxLen + 9
                 ELSE IF name < maxLen THEN maxLen - name ELSE 0
  IN padding + 31 - ((size + padding - 1) % 32)

PayloadLength(inner, outerTypes, maxLen) ==
  LET size == EncodedLength(ReplaceOuterExtensions(inner.exts, outerTypes))
  IN size + Padding(inner, size, maxLen)

(* The outer hello authenticates itself with its payload zeroed.           *)
OuterForAad(outer) ==
  [outer EXCEPT !.exts =
     [i \in DOMAIN @ |-> IF @[i].ech # None THEN [@[i] EXCEPT !.ech.payload = None] ELSE @[i]]]

EncryptClientHello(supported, inner, outer, hpke, enc, greasePsk, outerTypes) ==
  LET ext == [suite |-> supported.suite, id |-> supported.config.id, enc |-> enc,
              payload |-> None]
      tail == IF greasePsk = None THEN <<>> ELSE <<PskExt(greasePsk)>>
      aad == [outer EXCEPT !.exts = @ \o <<EchExt(ext)>> \o tail]
      pt == [inner EXCEPT !.session = "",
                          !.exts = ReplaceOuterExtensions(@, outerTypes)]
  IN [ext EXCEPT !.payload = Seal(hpke, aad, pt)]

(* Same identities and binders in number, with random contents; a retry    *)
(* repeats the identity it made up.                                        *)
GreasePsk(inner) ==
  IF "pre_shared_key" \in Types(inner.exts)
  THEN [identity |-> "random", binder |-> None] ELSE None

ConstructEncryptedClientHello(first, inner, supported, hpke, random, sni, psk, outerTypes) ==
  LET hidden == RemoveExtension(RemoveExtension(inner.exts, "encrypted_client_hello"),
                                "pre_shared_key")
      kept == IF first THEN RemoveExtension(hidden, "early_data") ELSE hidden
      outer == [inner EXCEPT !.random = random,
                  !.exts = ReplaceOrAddExtension(kept, Ext("server_name", sni))]
      enc == IF first THEN "e" ELSE None
      tail == IF psk = None THEN <<>> ELSE <<PskExt(psk)>>
  IN [outer EXCEPT !.exts =
        @ \o <<EchExt(EncryptClientHello(supported, inner, outer, hpke, enc, psk,
                                         outerTypes))>> \o tail]

-----------------------------------------------------------------------------
(* Opening it.  A result is [how, value], how being "ok", "none" or        *)
(* "throws".                                                               *)
Ok(v) == [how |-> "ok", v |-> v]
Nothing == [how |-> "none", v |-> None]
Throws == [how |-> "throws", v |-> None]

(* One cursor is read for every configuration tried: the second attempt    *)
(* reads past the end of the extension.                                    *)
DecodeAndGetParam(ext, params) ==
  LET drafts == SelectSeq(params, LAMBDA p : p.config.version = "Draft15")
  IN CASE drafts = <<>> -> Nothing
       [] drafts # <<>> /\ drafts[1].config.id = ext.id -> Ok(drafts[1])
       [] Len(drafts) = 1 /\ drafts[1].config.id # ext.id -> Nothing
       [] OTHER -> Throws

(* The outer extensions are looked up in one pass, in order.               *)
OuterNamed(exts) ==
  FlattenSeq([i \in DOMAIN exts |->
    IF exts[i].type = "ech_outer_extensions" THEN exts[i].v ELSE <<>>])

Expanded(exts, outerExts) ==
  FlattenSeq([i \in DOMAIN exts |->
    IF exts[i].type # "ech_outer_extensions" THEN <<exts[i]>>
    ELSE SelectSeq(outerExts, LAMBDA o : o.type \in ToSet(exts[i].v))])

TypesInOrder(exts, types) ==
  SelectSeq([i \in DOMAIN exts |-> exts[i].type], LAMBDA t : t \in types)

Substituted(named, expanded, outerExts) ==
  IF \/ TypesInOrder(outerExts, ToSet(named)) # named
     \/ "encrypted_client_hello" \in ToSet(named)
     \/ Cardinality(Types(expanded)) # Len(expanded)
  THEN Throws ELSE Ok(expanded)

SubstituteOuterExtensions(exts, outerExts) ==
  Substituted(OuterNamed(exts), Expanded(exts, outerExts), outerExts)

Rebuilt(pt, exts, outer) ==
  IF exts.how = "ok" THEN Ok([pt EXCEPT !.session = outer.session, !.exts = exts.v])
                     ELSE exts

Reassembled(pt, outer) ==
  IF pt = None THEN Nothing
  ELSE Rebuilt(pt, SubstituteOuterExtensions(pt.exts, outer.exts), outer)

DecryptECHWithContext(outer, payload, ctx) ==
  Reassembled(Open(ctx, OuterForAad(outer), payload), outer)

(* ECHConfigManager::decryptClientHello: what does not open is no ECH.     *)
WithContext(inner, ctx) ==
  IF inner.how = "ok" THEN Ok([chlo |-> inner.v, ctx |-> IncrementSeq(ctx)]) ELSE inner

DecodeWith(chlo, payload, ctx) ==
  WithContext(DecryptECHWithContext(chlo, payload, ctx), ctx)

DecodeWithParam(chlo, ext, param) ==
  IF param.how # "ok" THEN param
  ELSE DecodeWith(chlo, ext.payload, SetupDecryptionContext(param.v, ext.suite, ext.enc, 0))

TryToDecodeECH(chlo, ext, params) ==
  DecodeWithParam(chlo, ext, DecodeAndGetParam(ext, params))

(* The second hello must open, with the context of the first or with one   *)
(* made again from the encapsulated key the cookie kept.                   *)
OrThrow(inner) == IF inner.how = "ok" THEN inner ELSE Throws

DecodeHRRWithParam(chlo, ext, enc, ctx, param) ==
  IF param.how # "ok" THEN Throws
  ELSE OrThrow(DecryptECHWithContext(chlo, ext.payload,
                 IF ctx # None THEN ctx
                 ELSE SetupDecryptionContext(param.v, ext.suite, enc, 1)))

DecodeClientHelloHRR(chlo, ext, enc, ctx, params) ==
  DecodeHRRWithParam(chlo, ext, enc, ctx, DecodeAndGetParam(ext, params))

-----------------------------------------------------------------------------
(* Telling the client.  The confirmation is a secret of the inner random   *)
(* over the transcript, with the place it goes to zeroed.                  *)
AcceptConfirmation(label, msg, transcript, random) ==
  [label |-> label, random |-> random,
   transcript |-> Append(transcript, Srv([msg EXCEPT !.conf = None]))]

SetAcceptConfirmation(label, msg, transcript, random) ==
  LET m == [msg EXCEPT !.ech = (label = "hrr")]
  IN [m EXCEPT !.conf = AcceptConfirmation(label, m, transcript, random)]

CheckECHAccepted(label, msg, transcript, random) ==
  /\ msg.conf # None
  /\ msg.conf = AcceptConfirmation(label, msg, transcript, random)

-----------------------------------------------------------------------------
(* The client.                                                             *)

Optional(here, ext) == IF here THEN <<ext>> ELSE <<>>

ClientHello(early, share, cookie) ==
  [random |-> "inner", session |-> "s",
   exts |-> <<Ext("supported_groups", "g"), Ext("key_share", share)>>
              \o Optional(cfg.sni # None, Ext("server_name", cfg.sni))
              \o Optional(early, Ext("early_data", None))
              \o Optional(cookie, Ext("cookie", "c"))
              \o <<InnerEch>>]

Binder(transcript, chlo) == [transcript |-> transcript, prefix |-> chlo]

EncodeAndAddBinders(chlo, transcript) ==
  [chlo EXCEPT !.exts =
     Append(@, PskExt([identity |-> "ticket", binder |-> Binder(transcript, chlo)]))]

Sent(client, outer) ==
  /\ cl' = client
  /\ flight' = outer
  /\ hellos' = Append(hellos, outer)
  /\ ephase' = "server"

(* The inner hello is complete when the outer one is made from it.         *)
ConnectWith(supported, inner, hpke, grease) ==
  \E outer \in {ConstructEncryptedClientHello(TRUE, inner, supported, hpke, "outer",
                 supported.config.publicName, grease, cfg.outerTypes)} :
    Sent([status |-> "Requested", supported |-> supported, grease |-> grease,
          hpke |-> IncrementSeq(hpke), inner |-> inner, outer |-> outer,
          transcript |-> <<Chlo(outer)>>, echTranscript |-> <<Chlo(inner)>>], outer)

WithBinders(here, chlo, transcript) ==
  IF here THEN EncodeAndAddBinders(chlo, transcript) ELSE chlo

EchConnect ==
  /\ ephase = "start"
  /\ \E supported \in {GetSupportedECHConfig(cfg.configs, cfg.ciphers, cfg.groups)} :
       IF supported = None
       THEN ephase' = "clientError" /\ UNCHANGED <<cl, flight, hellos>>
       ELSE \E inner \in {WithBinders(cfg.psk, ClientHello(cfg.psk /\ cfg.early, "first", FALSE),
                                      <<>>)} :
              ConnectWith(supported, inner, ConstructHpkeSetup(supported, "e"),
                          GreasePsk(inner))
  /\ UNCHANGED <<cfg, sv>>

(* The binder of the second hello is computed before the request is added  *)
(* to the inner transcript.                                                *)
RetryWith(first, inner, grease) ==
  \E outer \in {ConstructEncryptedClientHello(FALSE, inner, cl.supported, cl.hpke, "outer",
                 cl.supported.config.publicName, grease, cfg.outerTypes)} :
    Sent([cl EXCEPT
            !.status = IF CheckECHAccepted("hrr", flight, first, "inner")
                       THEN "Accepted" ELSE "Rejected",
            !.grease = grease, !.hpke = IncrementSeq(@), !.inner = inner, !.outer = outer,
            !.transcript = <<HashOf(cl.outer), Srv(flight), Chlo(outer)>>,
            !.echTranscript = first \o <<Srv(flight), Chlo(inner)>>], outer)

EchHelloRetryRequest ==
  /\ ephase = "client" /\ flight.type = "hrr"
  /\ \E inner \in {WithBinders(cfg.psk /\ ~cfg.otherHash,
                               ClientHello(FALSE, "second", flight.cookie),
                               <<HashOf(cl.inner)>>)} :
       RetryWith(<<HashOf(cl.inner)>>, inner,
                 IF cl.grease = None THEN None ELSE [cl.grease EXCEPT !.binder = None])
  /\ UNCHANGED <<cfg, sv>>

EchServerHello ==
  /\ ephase = "client" /\ flight.type = "sh"
  /\ \E accepted \in {CheckECHAccepted("sh", flight, cl.echTranscript, "inner")} :
       /\ ephase' = IF \/ (cl.status # "Requested" /\ accepted # (cl.status = "Accepted"))
                      \/ (~accepted /\ flight.psk)
                    THEN "clientError" ELSE "finish"
       /\ cl' = [cl EXCEPT
            !.status = IF accepted THEN "Accepted" ELSE "Rejected",
            !.transcript = Append(IF accepted THEN cl.echTranscript ELSE @, Srv(flight))]
  /\ UNCHANGED <<cfg, sv, flight, hellos>>

(* The rest of the server's flight opens under keys of the transcript; a   *)
(* client whose ECH was rejected ends with ech_required.                   *)
EchFinished ==
  /\ ephase = "finish"
  /\ ephase' = CASE cl.transcript # sv.transcript -> "keysDiffer"
                 [] cl.transcript = sv.transcript /\ cl.status = "Rejected" -> "rejected"
                 [] OTHER -> "accepted"
  /\ UNCHANGED <<cfg, cl, sv, flight, hellos>>

-----------------------------------------------------------------------------
(* The server.                                                             *)

(* The extension a hello carries, None when it carries none.               *)
OuterEch(chlo) ==
  IF "encrypted_client_hello" \in Types(chlo.exts)
  THEN Get(chlo.exts, "encrypted_client_hello").ech ELSE None

(* known is what the first hello used: from the state, or from the cookie. *)
HRRAllowed(ext, known) ==
  /\ cfg.params # None
  /\ ext # None
  /\ ext.enc = None
  /\ <<ext.suite, ext.id>> = <<known.suite, known.id>>

Accepted(inner) ==
  IF inner.how = "ok" THEN Ok([sv EXCEPT !.chlo = inner.v, !.status = "Accepted"])
                      ELSE inner

ProcessECHHRR(chlo, ext, cookie) ==
  CASE sv.status = "Accepted" ->
         IF ~HRRAllowed(ext, sv) THEN Throws
         ELSE Accepted(DecodeClientHelloHRR(chlo, ext, None, sv.ctx, cfg.params))
    [] sv.status # "Accepted" /\ cookie # None /\ cookie.suite # None ->
         IF ~HRRAllowed(ext, cookie) THEN Throws
         ELSE Accepted(DecodeClientHelloHRR(chlo, ext, cookie.enc, None, cfg.params))
    [] OTHER -> Ok([sv EXCEPT !.chlo = chlo])

Decided(seen, got) ==
  CASE got.how = "throws" -> Throws
    [] got.how = "none" -> Ok([seen EXCEPT !.status = "Rejected"])
    [] got.how = "ok" -> Ok([seen EXCEPT !.status = "Accepted", !.chlo = got.v.chlo,
                                         !.ctx = got.v.ctx])

(* Without a decrypter the request is only noted.                          *)
ProcessECHFirst(chlo, ext) ==
  LET seen == [sv EXCEPT !.chlo = chlo, !.suite = ext.suite, !.id = ext.id]
  IN CASE ext = None -> Ok([sv EXCEPT !.chlo = chlo])
       [] ext # None /\ cfg.params = None -> Ok(seen)
       [] OTHER -> Decided(seen, TryToDecodeECH(chlo, ext, cfg.params))

InnerIsMarked(done) ==
  IF /\ done.how = "ok" /\ done.v.status = "Accepted"
     /\ \A i \in DOMAIN done.v.chlo.exts : done.v.chlo.exts[i] # InnerEch
  THEN Throws ELSE done

ProcessECH(chlo, cookie) ==
  InnerIsMarked(IF sv.transcript # <<>> \/ cookie # None
                THEN ProcessECHHRR(chlo, OuterEch(chlo), cookie)
                ELSE ProcessECHFirst(chlo, OuterEch(chlo)))

StatelessHRR == [ServerMessage("hrr", FALSE) EXCEPT !.cookie = TRUE]

(* A ticket that opens must come with a binder over the transcript so far. *)
Resumed(chlo) ==
  /\ cfg.ticket
  /\ "pre_shared_key" \in Types(chlo.exts)
  /\ Get(chlo.exts, "pre_shared_key").psk.identity = "ticket"

BinderMatches(chlo, transcript) ==
  Get(chlo.exts, "pre_shared_key").psk.binder
    = Binder(transcript, [chlo EXCEPT !.exts = RemoveExtension(@, "pre_shared_key")])

RetryConfigs == [i \in DOMAIN cfg.params |-> cfg.params[i].config]

(* The server's answer msg, and the state it leaves.                       *)
Answer(new, after, msg) ==
  /\ sv' = [new EXCEPT !.transcript = Append(after, Srv(msg)),
              !.retryConfigs = IF new.status = "Rejected" /\ msg.type = "sh"
                               THEN RetryConfigs ELSE None]
  /\ flight' = msg
  /\ ephase' = "client"

Respond(new, after, plain) ==
  \E msg \in {IF new.status = "Accepted"
              THEN SetAcceptConfirmation(plain.type, plain, after, new.chlo.random)
              ELSE plain} :
    Answer(new, after, msg)

Negotiated(new, before) ==
  IF Resumed(new.chlo) /\ ~BinderMatches(new.chlo, before)
  THEN ephase' = "serverError" /\ UNCHANGED <<sv, flight>>
  ELSE IF cfg.retry = "stateful" /\ before = <<>>
  THEN Respond(new, <<HashOf(new.chlo)>>, ServerMessage("hrr", FALSE))
  ELSE Respond(new, Append(before, Chlo(new.chlo)), ServerMessage("sh", Resumed(new.chlo)))

EchClientHello ==
  /\ ephase = "server"
  /\ cfg.retry = "stateless" => "cookie" \in Types(flight.exts)
  /\ \E cookie \in {IF "cookie" \in Types(flight.exts) THEN sv.cookie ELSE None} :
       \E got \in {ProcessECH(flight, cookie)} :
         IF got.how = "throws"
         THEN ephase' = "serverError" /\ UNCHANGED <<sv, flight>>
         ELSE Negotiated(got.v,
                IF cookie # None THEN <<HashOf(cookie.chlo), Srv(StatelessHRR)>>
                ELSE sv.transcript)
  /\ UNCHANGED <<cfg, cl, hellos>>

(* External: an application that answers the first hello without keeping   *)
(* state, and puts what it found of ECH in the cookie.                     *)
EchStatelessRetry ==
  /\ ephase = "server" /\ cfg.retry = "stateless"
  /\ "cookie" \notin Types(flight.exts)
  /\ \E ext \in {OuterEch(flight)} :
       \E got \in {IF cfg.params = None THEN Nothing
                  ELSE TryToDecodeECH(flight, ext, cfg.params)} :
         /\ got.how # "throws"
         /\ sv' = [sv EXCEPT !.cookie =
              IF got.how = "ok"
              THEN [chlo |-> got.v.chlo, suite |-> ext.suite, id |-> ext.id, enc |-> ext.enc]
              ELSE [chlo |-> flight, suite |-> None, id |-> None, enc |-> None]]
  /\ flight' = StatelessHRR
  /\ ephase' = "client"
  /\ UNCHANGED <<cfg, cl, hellos>>

EchInit ==
  /\ ephase = "start"
  /\ cfg \in EchConfigurations
  /\ cl = None
  /\ sv = [status |-> "NotRequested", chlo |-> None, ctx |-> None, suite |-> None, id |-> None,
           transcript |-> <<>>, cookie |-> None, retryConfigs |-> None]
  /\ flight = None
  /\ hellos = <<>>

EchNext ==
  \/ EchConnect \/ EchHelloRetryRequest \/ EchServerHello \/ EchFinished
  \/ EchClientHello \/ EchStatelessRetry

-----------------------------------------------------------------------------
(* What a hello on the wire shows, given the client's secrets.             *)
Conceals(chlo) ==
  /\ chlo.random # "inner"
  /\ "early_data" \notin Types(chlo.exts)
  /\ Get(chlo.exts, "server_name").v = cl.supported.config.publicName
  /\ "pre_shared_key" \in Types(chlo.exts)
       => Get(chlo.exts, "pre_shared_key").psk.identity # "ticket"

SizeFor(name) ==
  PayloadLength([cl.inner EXCEPT !.exts =
                   IF name = None THEN RemoveExtension(@, "server_name")
                   ELSE ReplaceOrAddExtension(@, Ext("server_name", name))],
                cfg.outerTypes, cl.supported.config.maxLen)

(* When the client concludes that its encrypted hello was accepted, the    *)
(* server is working on exactly that hello, with a retry before it or not; *)
(* when it concludes the opposite, the server worked on the outer hello    *)
(* and the client has the configurations to try next; the two never        *)
(* derive keys from different transcripts.  No hello on the wire shows the *)
(* inner name, random, ticket or use of early data; its size depends on no *)
(* name that fits, and no two payloads share a nonce (checkECHAccepted,    *)
(* processECH, constructEncryptedClientHello, calculateECHPadding).        *)
ECHAgreement ==
  /\ ephase = "accepted" => sv.status = "Accepted" /\ sv.chlo = cl.inner
  /\ ephase = "rejected" =>
       /\ sv.status # "Accepted" /\ sv.chlo = cl.outer
       /\ cfg.params # None /\ cfg.retry # "stateless" =>
            sv.retryConfigs = RetryConfigs
  /\ ephase # "keysDiffer"
  /\ \A i \in DOMAIN hellos : Conceals(hellos[i])
  /\ Len(hellos) = 2 =>
       Get(hellos[1].exts, "encrypted_client_hello").ech.payload.seq
         # Get(hellos[2].exts, "encrypted_client_hello").ech.payload.seq
  /\ cl # None =>
       \A a, b \in {None} \cup {n \in DOMAIN cfg.lengths :
                                  cfg.lengths[n] <= cl.supported.config.maxLen} :
         SizeFor(a) = SizeFor(b)

(* A client using a configuration the server holds, whose ticket opens,    *)
(* is not refused by the server ("Tries to find a config in our decrypter  *)
(* params that matches the config ID", Decrypter.cpp).                     *)
ServerTakesItsConfigs ==
  ephase = "serverError" =>
    \/ cfg.params = None
    \/ \A i \in DOMAIN cfg.params : cfg.params[i].config # cl.supported.config
=============================================================================
