------------------------------- MODULE KTLS -------------------------------
(***************************************************************************)
(* Kernel TLS (experimental/ktls): a connected fizz socket hands its keys  *)
(* and sequence numbers to the kernel and its descriptor to a socket that  *)
(* reads, and for one of the two kinds also writes, through the kernel.    *)
(* The conversion takes place where tryConvertKTLS allows it: with aligned *)
(* reads and with no write pending.  A write is counted in pieces of       *)
(* kPartialWriteThreshold bytes, a piece is one record, and no write is    *)
(* empty; a handshake message is two fragments.                            *)
(***************************************************************************)
EXTENDS TokenCipher, SequencesExt

CONSTANTS
  KTLSSetups,      \* [kind, suite, good, tickets, rseq, wseq] of a conversion, and
                   \* the bounds [records, writes] on what peer and application do
  KTLSFaults,      \* the step at which the kernel refuses, or None
  PeerRecords,     \* what the peer may send: [type, body]
  KTLSWrites       \* [size, shared] of a write of the application

(* Counters start anywhere; no write is empty; the data of the peer is     *)
(* known by the place of its record, a handshake record has fragments.     *)
ASSUME KTLSAssumption ==
  /\ \A setup \in KTLSSetups : setup.rseq \in Nat /\ setup.wseq \in Nat
  /\ \A w \in KTLSWrites : w.size \in Nat \ {0}
  /\ \A r \in PeerRecords :
       /\ r = [type |-> r.type, body |-> r.body]
       /\ r.type = "handshake" => r.body \in Seq(Range(r.body))

VARIABLE kt

-----------------------------------------------------------------------------
(* Parameters of the kernel.                                               *)
KTLSLayout ==
  [TLS_AES_128_GCM_SHA256 |-> [type |-> "TLS_CIPHER_AES_GCM_128", keyLength |-> 16],
   TLS_AES_256_GCM_SHA384 |-> [type |-> "TLS_CIPHER_AES_GCM_256", keyLength |-> 32]]

(* External: the traffic key of a direction, its iv in the two parts the   *)
(* kernel asks for.                                                        *)
TrafficKeyOf(direction, suite) ==
  [key |-> <<direction, suite>>, iv |-> <<"iv[:4]", "iv[4:]">>,
   length |-> IF suite = "TLS_AES_128_GCM_SHA256" THEN 16 ELSE 32]

(* Mutant: the kernel starts counting at zero.                             *)
FromRecordStateMutant(suite, state) ==
  [ciphersuite |-> suite, key |-> state.key, recordSeq |-> 0]

FromRecordState(suite, state) ==
  [ciphersuite |-> suite, key |-> state.key, recordSeq |-> state.sequence]

(* Version, cipher, iv, key, salt, sequence; None where kTLS cannot be     *)
(* used with these parameters.                                             *)
ToSockoptFormat(p) ==
  IF /\ p.ciphersuite \in DOMAIN KTLSLayout
     /\ p.key.length = KTLSLayout[p.ciphersuite].keyLength
  THEN <<"TLS_1_3", KTLSLayout[p.ciphersuite].type, p.key.iv[2], p.key.key,
         p.key.iv[1], p.recordSeq>>
  ELSE None

(* External: what the kernel makes of the option.                          *)
KernelCrypto(opt) ==
  [key |-> opt[4], nonce |-> <<opt[5], opt[3]>>, seq |-> opt[6]]

(* External: the state a peer has for its n-th record in this direction.   *)
PeerCrypto(direction, suite, n) ==
  [key |-> <<direction, suite>>, nonce |-> <<"iv[:4]", "iv[4:]">>, seq |-> n]

(* The probe of the platform: a connected pair of sockets, and the three   *)
(* options on it.                                                          *)
MakeConnectedTCPPair(fault) == fault \notin {"no socket", "no listener", "no connection"}
PlatformSupportsKTLS(fault) ==
  MakeConnectedTCPPair(fault) /\ fault \notin {"no ulp", "no TLS_RX", "no TLS_TX"}

(* The steps of tryEnableKTLS; the ones before the refused one stay.       *)
Refused(rx) == [error |-> TRUE, rx |-> rx, tx |-> None]

EnableKTLS(rxs, txs, fault) ==
  IF ~PlatformSupportsKTLS(fault) \/ rxs = None \/ txs = None \/ fault \in {"ulp", "rx"}
  THEN Refused(None)
  ELSE IF fault = "tx" THEN Refused(KernelCrypto(rxs))
  ELSE [error |-> FALSE, rx |-> KernelCrypto(rxs), tx |-> KernelCrypto(txs)]

EnableKTLSRx(rxs, fault) ==
  IF ~PlatformSupportsKTLS(fault) \/ rxs = None \/ fault \in {"ulp", "rx"}
  THEN Refused(None)
  ELSE [error |-> FALSE, rx |-> KernelCrypto(rxs), tx |-> None]

-----------------------------------------------------------------------------
RecordState(direction, suite, seq) ==
  [key |-> TrafficKeyOf(direction, suite), sequence |-> seq]

(* What was written before the conversion: tickets of a server.            *)
EarlierRecords(setup) ==
  [i \in 1 .. setup.wseq |-> [crypto |-> PeerCrypto("out", setup.suite, i - 1), data |-> <<0, i>>]]

KTLSInit ==
  \E setup \in KTLSSetups :
    kt = [setup |-> setup, sock |-> "fizz", asked |-> FALSE,
          read |-> RecordState("in", setup.suite, setup.rseq),
          write |-> RecordState("out", setup.suite, setup.wseq),
          rx |-> None, tx |-> None,
          sent |-> [i \in 1 .. setup.rseq |-> [type |-> "data", body |-> i]],
          taken |-> setup.rseq, delivered |-> [i \in 1 .. setup.rseq |-> i],
          reading |-> "open", undecryptable |-> FALSE,
          callback |-> None, unparsed |-> None, cache |-> None,
          out |-> EarlierRecords(setup), sockq |-> <<>>, queue |-> <<>>,
          writes |-> <<>>, answers |-> <<>>, alive |-> TRUE]

(* getTicketHandler: only a client that has a PSK identity and a cache.    *)
TicketHandler(setup) == IF setup.tickets THEN "tickets" ELSE "plain"

(* A socket that is not good or still connecting is refused; a refusal of  *)
(* the kernel leaves the fizz socket in place, with what was installed.    *)
TryConvertKTLS ==
  /\ kt.sock = "fizz" /\ ~kt.asked
  /\ \E fault \in KTLSFaults :
     \E rxs \in {ToSockoptFormat(FromRecordState(kt.setup.suite, kt.read))} :
     \E txs \in {ToSockoptFormat(FromRecordState(kt.setup.suite, kt.write))} :
     \E r \in {IF kt.setup.kind = "both" THEN EnableKTLS(rxs, txs, fault)
                                         ELSE EnableKTLSRx(rxs, fault)} :
       kt' = IF ~kt.setup.good THEN [kt EXCEPT !.asked = TRUE]
             ELSE [kt EXCEPT !.asked = TRUE, !.rx = r.rx, !.tx = r.tx,
                     !.sock = IF r.error THEN @ ELSE "ktls",
                     !.callback = IF r.error THEN @ ELSE TicketHandler(kt.setup)]

(* A second AsyncKTLSSocket takes the descriptor over, without a callback. *)
TakeOver ==
  /\ kt.sock = "ktls" /\ kt.unparsed = None /\ kt.callback # None
  /\ kt.setup.kind = "both" /\ kt.sockq = <<>> /\ kt.alive
  /\ kt' = [kt EXCEPT !.callback = None]

-----------------------------------------------------------------------------
PeerSends ==
  /\ Len(kt.sent) < kt.setup.records
  /\ \E r \in PeerRecords :
       kt' = [kt EXCEPT !.sent = Append(@, IF r.type = "data" THEN [r EXCEPT !.body = Len(kt.sent) + 1]
                                                              ELSE r)]

(* The fizz socket, before the conversion or after one that failed.  What  *)
(* the kernel has decrypted is no record.                                  *)
FizzReads ==
  /\ kt.sock = "fizz" /\ kt.setup.good /\ kt.reading = "open" /\ kt.taken < Len(kt.sent)
  /\ kt.sent[kt.taken + 1].type = "data"
  /\ kt' = IF kt.rx # None THEN [kt EXCEPT !.reading = "error", !.taken = @ + 1]
           ELSE [kt EXCEPT !.taken = @ + 1, !.read.sequence = @ + 1,
                           !.delivered = Append(@, kt.sent[kt.taken + 1].body)]

(* A socket that fails is dead at once; the callbacks of the writes it     *)
(* holds and of the queue are called after that, one by one.               *)
ReadError(k) == [k EXCEPT !.reading = "error", !.alive = FALSE]
ReadEof(k) == [k EXCEPT !.reading = "eof"]

ProcessAlert(k, body) == IF body = "close_notify" THEN ReadEof(k) ELSE ReadError(k)

(* The ticket handler: what a client puts in its cache.                    *)
SetPskAndSecret(psk, nst) ==
  [psk EXCEPT !.psk = nst.ticket, !.secret = <<"resumption secret", nst.nonce>>]

GetMaxEarlyDataSize(nst) == IF nst.early = None THEN 0 ELSE nst.early

MakePsk(nst) ==
  SetPskAndSecret([psk |-> None, secret |-> None, serverCert |-> "server cert",
                   clientCert |-> "server cert", early |-> GetMaxEarlyDataSize(nst)], nst)

ReceivedNewSessionTicket(k, nst) ==
  IF k.callback = "tickets" THEN [k EXCEPT !.cache = MakePsk(nst)] ELSE k

ProcessHandshakeMessage(k, message) ==
  IF message.type = "NewSessionTicket" THEN ReceivedNewSessionTicket(k, message)
  ELSE ReadError(k)

(* One message is taken from the fragments at hand, which do not decode    *)
(* when they are not of one message; what follows is dropped.              *)
ProcessFragments(k, fragments) ==
  IF Len(fragments) < 2 THEN [k EXCEPT !.unparsed = fragments]
  ELSE IF fragments[1] # fragments[2] THEN ReadError(k)
  ELSE ProcessHandshakeMessage([k EXCEPT !.unparsed = None], fragments[1])

ProcessHandshakeData(k, body) ==
  ProcessFragments(k, IF k.unparsed = None THEN body ELSE k.unparsed \o body)

HandleNonApplicationData(k, type, body) ==
  CASE k.unparsed # None /\ type # "handshake" -> ReadError(k)
    [] k.unparsed = None /\ type = "alert" -> ProcessAlert(k, body)
    [] type = "handshake" -> IF k.callback = None THEN ReadError(k)
                             ELSE ProcessHandshakeData(k, body)
    [] OTHER -> ReadError(k)

ReadApplicationData(k, body) ==
  IF k.unparsed # None THEN ReadError(k) ELSE [k EXCEPT !.delivered = Append(@, body)]

(* One call of recvmsg: the end of the stream, a failure (a record that    *)
(* does not decrypt among them) or one record with its type.               *)
PerformReadMsg ==
  /\ kt.sock = "ktls" /\ kt.alive /\ kt.reading = "open" /\ kt.taken < Len(kt.sent)
  /\ \E r \in {kt.sent[kt.taken + 1]} :
     \E k \in {[kt EXCEPT !.taken = @ + 1, !.rx.seq = @ + 1]} :
       kt' = CASE r.type = "fin" -> ReadEof(k)
               [] r.type # "fin" /\ kt.rx # PeerCrypto("in", kt.setup.suite, kt.taken) ->
                    ReadError([k EXCEPT !.undecryptable = TRUE])
               [] r.type = "data" /\ kt.rx = PeerCrypto("in", kt.setup.suite, kt.taken) ->
                    ReadApplicationData(k, r.body)
               [] OTHER -> HandleNonApplicationData(k, r.type, r.body)

-----------------------------------------------------------------------------
(* Writing.  pieces of a write: <<id, 1>>, <<id, 2>>, ...                  *)
Pieces(id, from, n) == [i \in 1 .. n |-> <<id, from + i>>]

WriteAppData(crypto, pieces) ==
  [i \in 1 .. Len(pieces) |->
     [crypto |-> [crypto EXCEPT !.seq = @ + i - 1], data |-> pieces[i]]]

(* The records of the socket that encrypts itself.                         *)
RxOnlyRecords(k, pieces) ==
  WriteAppData(PeerCrypto("out", k.setup.suite, k.write.sequence), pieces)

AnsweredErr(k, id) == [k EXCEPT !.answers = Append(@, [id |-> id, ok |-> FALSE])]

(* AsyncSocket::writeChain.  A dead socket fails the write before it       *)
(* returns, and with it the request that just started, after the record    *)
(* layer of a socket that encrypts itself has used up its numbers.         *)
RefuseWrite(k, id, pieces) ==
  AnsweredErr([k EXCEPT !.queue = <<>>,
                   !.write.sequence = IF k.setup.kind = "both" THEN @ ELSE @ + Len(pieces)], id)

SocketWrite(k, id, queued, pieces) ==
  IF ~k.alive THEN RefuseWrite(k, id, pieces)
  ELSE IF k.setup.kind = "both"
  THEN [k EXCEPT !.sockq = Append(@, [id |-> id, queued |-> queued, records |-> WriteAppData(k.tx, pieces)]),
                 !.tx.seq = @ + Len(pieces)]
  ELSE [k EXCEPT !.sockq = Append(@, [id |-> id, queued |-> queued, records |-> RxOnlyRecords(k, pieces)]),
                 !.write.sequence = @ + Len(pieces)]

(* The head of the queue sends its next piece.                             *)
StartWriting(k) ==
  SocketWrite([k EXCEPT !.queue[1].written = @ + 1], k.queue[1].id, TRUE,
              Pieces(k.queue[1].id, k.queue[1].written, 1))

NeedsToQueue(k, w) == (w.size > 1 \/ k.sockq # <<>>) /\ w.shared

QueuedRequest(id, size) == [id |-> id, size |-> size, written |-> 0]
AppendRequest(k, request) == [k EXCEPT !.queue = Append(@, request)]

WriteChain(k, id, w) ==
  IF k.setup.kind = "both" THEN SocketWrite(k, id, FALSE, Pieces(id, 0, w.size))
  ELSE IF k.queue # <<>> THEN AppendRequest(k, QueuedRequest(id, w.size))
  ELSE IF NeedsToQueue(k, w)
  THEN StartWriting([k EXCEPT !.queue = <<QueuedRequest(id, w.size)>>])
  ELSE SocketWrite(k, id, FALSE, Pieces(id, 0, w.size))

AppWrites(k, w) == WriteChain([k EXCEPT !.writes = Append(@, w)], Len(k.writes) + 1, w)

(* The application writes, of its own or in a callback that tells it of an *)
(* error: see DeliverWriteErr.                                             *)
KTLSWrite ==
  /\ kt.sock = "ktls" /\ Len(kt.writes) < kt.setup.writes
  /\ \E w \in KTLSWrites : kt' = AppWrites(kt, w)

(* The callback of a write that succeeded may write again.                 *)
AfterCallback(k, again) == IF again = None THEN k ELSE AppWrites(k, again)

AnsweredOk(k, id) == [k EXCEPT !.answers = Append(@, [id |-> id, ok |-> TRUE])]

NextStarts(k, hasNext) == IF hasNext THEN StartWriting(k) ELSE k

(* QueuedWriteRequest::writeSuccess.                                       *)
QueuedWriteSuccess(k, again) ==
  IF k.queue[1].written < k.queue[1].size THEN StartWriting(k)
  ELSE NextStarts(AfterCallback(AnsweredOk([k EXCEPT !.queue = Tail(@)], k.queue[1].id), again),
                  Len(k.queue) > 1)

(* External: the kernel accepts the bytes at the head of the socket.       *)
SocketSends ==
  /\ kt.alive /\ kt.sockq # <<>>
  /\ \E again \in {None} \cup (IF Len(kt.writes) < kt.setup.writes THEN KTLSWrites ELSE {}) :
     \E k \in {[kt EXCEPT !.sockq = Tail(@), !.out = @ \o Head(kt.sockq).records]} :
       kt' = IF Head(kt.sockq).queued THEN QueuedWriteSuccess(k, again)
             ELSE AfterCallback(AnsweredOk(k, Head(kt.sockq).id), again)

(* The callback of the first write in a dead socket is called with an      *)
(* error.  A request of the queue is told before the ones behind it, which *)
(* a callback that writes again makes longer until the last has been told. *)
DeliverSingleWriteErr(k) ==
  IF Head(k.sockq).queued
  THEN AnsweredErr([k EXCEPT !.queue = Tail(@), !.sockq = IF Len(k.queue) = 1 THEN Tail(@) ELSE @],
              k.queue[1].id)
  ELSE AnsweredErr([k EXCEPT !.sockq = Tail(@)], Head(k.sockq).id)

DeliverWriteErr ==
  /\ ~kt.alive /\ kt.sockq # <<>>
  /\ kt' = DeliverSingleWriteErr(kt)

(* External: a write fails, or an idle socket breaks.                      *)
SocketFails ==
  /\ kt.sock = "ktls" /\ kt.alive
  /\ \E k \in {[kt EXCEPT !.alive = FALSE]} :
       kt' = IF kt.sockq = <<>> THEN k ELSE DeliverSingleWriteErr(k)

KTLSNext ==
  \/ TryConvertKTLS \/ TakeOver
  \/ PeerSends \/ FizzReads \/ PerformReadMsg
  \/ KTLSWrite \/ SocketSends \/ SocketFails \/ DeliverWriteErr

-----------------------------------------------------------------------------
(* The data of the first n records, each once and in order.                *)
DeliveredUpTo(n) ==
  /\ \A i, j \in DOMAIN kt.delivered : i < j => kt.delivered[i] < kt.delivered[j]
  /\ Range(kt.delivered) = {p \in 1 .. n : kt.sent[p].type = "data"}

(* The piece after a piece of a write.                                     *)
PieceAfter(writes, p) ==
  IF p[2] < writes[p[1]].size THEN <<p[1], p[2] + 1>> ELSE <<p[1] + 1, 1>>

(* Handing a connection to the kernel changes nothing in either stream:    *)
(* every record of the peer still decrypts and its data is delivered once, *)
(* in order and never in the middle of a handshake message.  Reading ends  *)
(* at a record of data only inside such a message, or where the kernel had *)
(* taken the receive key when it refused the transmit key: that one        *)
(* failure takes the reads of the fizz socket away, see                    *)
(* RefusedConversionKeepsSocket.  The peer sees records numbered without   *)
(* gap or repetition under one key, carrying what was written in the order *)
(* it was written.  The callback of each write is called once, the         *)
(* successful ones in order and only after all of it was sent, and all of  *)
(* them once the socket has failed, also the ones of writes that other     *)
(* callbacks make meanwhile (tryConvertKTLSBase, toSockoptFormat,          *)
(* performReadMsg, QueuedWriteRequest).                                    *)
KTLSContinuesStream == kt # None =>
  /\ ~kt.undecryptable
  /\ DeliveredUpTo(IF kt.reading = "open" THEN kt.taken ELSE kt.taken - 1)
  /\ kt.reading # "open" =>
       \/ kt.sent[kt.taken].type # "data" \/ kt.unparsed # None
       \/ kt.sock = "fizz" /\ kt.rx # None
  /\ kt.unparsed # None /\ kt.reading = "open" => kt.sent[kt.taken].type = "handshake"
  /\ \A i \in 1 .. Len(kt.out) : kt.out[i].crypto = PeerCrypto("out", kt.setup.suite, i - 1)
  /\ \A i \in kt.setup.wseq + 1 .. Len(kt.out) :
       /\ kt.out[i].data[1] <= Len(kt.writes)
       /\ kt.out[i].data = IF i = kt.setup.wseq + 1 THEN <<1, 1>>
                           ELSE PieceAfter(kt.writes, kt.out[i - 1].data)
  /\ \A i \in 1 .. Len(kt.answers) :
       /\ kt.answers[i].id \in 1 .. Len(kt.writes)
       /\ \A j \in 1 .. Len(kt.answers) : i # j => kt.answers[i].id # kt.answers[j].id
       /\ kt.answers[i].ok =>
            /\ kt.answers[i].id = i
            /\ \E j \in 1 .. Len(kt.out) : kt.out[j].data = <<i, kt.writes[i].size>>
  /\ ~kt.alive /\ kt.sockq = <<>> =>
       \A id \in 1 .. Len(kt.writes) : \E i \in 1 .. Len(kt.answers) : kt.answers[i].id = id
  /\ kt.cache # None =>
       \E i \in 1 .. kt.taken : \E m \in Range(IF kt.sent[i].type = "handshake" THEN kt.sent[i].body ELSE <<>>) :
         /\ m.type = "NewSessionTicket" /\ kt.cache.psk = m.ticket
         /\ kt.cache.secret = <<"resumption secret", m.nonce>>

(* "On failure, |fizzSock| will still be valid; it's file descriptor       *)
(* remains attached, and future I/O operations on |fizzSock| are allowed"  *)
(* (tryConvertKTLS): the data of the peer does not break the fizz socket.  *)
RefusedConversionKeepsSocket == kt # None /\ kt.sock = "fizz" => kt.reading = "open"
=============================================================================
