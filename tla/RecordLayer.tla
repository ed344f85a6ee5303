----------------------------- MODULE RecordLayer -----------------------------
(***************************************************************************)
(* The record layers of fizz/record: what a read layer makes of one        *)
(* record, what a write layer puts on the wire, and the buffer of          *)
(* handshake bytes that a read layer keeps between calls of readEvent.     *)
(*                                                                         *)
(* A key stands for a traffic secret: the level and the side it belongs    *)
(* to, how often it was updated, and the transcript it was derived from.   *)
(* AEAD is ideal: a record opens under exactly the key and the sequence    *)
(* number it was sealed with.                                              *)
(*                                                                         *)
(* A record holds a sequence of messages.  A handshake message that is cut *)
(* in two by a record boundary is written as a Front and a Back.           *)
(***************************************************************************)
EXTENDS Naturals, Sequences

Key(level, side, gen, ctx) ==
  [level |-> level, side |-> side, gen |-> gen, ctx |-> ctx]

PlainKey == Key("Plain", "none", 0, <<>>)

(* A layer that was just made: no record seen, no handshake bytes left.     *)
Layer(key, skip) == [key |-> key, seq |-> 0, skip |-> skip, unparsed |-> <<>>]

NoLayer == Layer(Key("None", "none", 0, <<>>), FALSE)   \* a null pointer
PlainLayer(skip) == Layer(PlainKey, skip)

HasLayer(layer) == layer.key.level # "None"
Encrypts(layer) == layer.key.level \in {"Early", "Hs", "App"}

-----------------------------------------------------------------------------
(* Writing.                                                                *)

AlertTypes == {"Alert", "CloseNotify"}

ContentType(body) ==
  CASE body[1].type \in AlertTypes -> "alert"
    [] body[1].type = "AppData"    -> "app"
    [] OTHER                       -> "handshake"

(* The record as the peer sees it: encryption hides the content type.      *)
Seal(layer, body) ==
  [outer |-> IF Encrypts(layer) THEN "app" ELSE ContentType(body),
   key   |-> layer.key,
   seq   |-> layer.seq,
   body  |-> body]

(* The layer after sealing one record; plaintext records are not numbered. *)
Sealed(layer) ==
  IF Encrypts(layer) THEN [layer EXCEPT !.seq = @ + 1] ELSE layer

CCS == [outer |-> "ccs", key |-> PlainKey, seq |-> 0, body |-> <<>>]

-----------------------------------------------------------------------------
(* Reading.                                                                *)

Front(m) == [type |-> "Front", of |-> m]
Back == [type |-> "Back"]

Opens(layer, r) == r.key = layer.key /\ r.seq = layer.seq

(***************************************************************************)
(* PlaintextReadRecordLayer::read, one record.  Records that look          *)
(* encrypted are dropped after a HelloRetryRequest that rejected early     *)
(* data, until the first record that is neither one nor a CCS.             *)
(***************************************************************************)
ReadPlaintext(layer, r) ==
  CASE r.outer = "ccs" -> [kind |-> "skip", layer |-> layer]
    [] r.outer = "app" -> [kind |-> IF layer.skip THEN "skip" ELSE "bad", layer |-> layer]
    [] OTHER -> [kind |-> "ok", layer |-> [layer EXCEPT !.skip = FALSE]]

(***************************************************************************)
(* EncryptedReadRecordLayer::getDecryptedBuf, one record.  A plaintext     *)
(* alert is an error.  While skipFailedDecryption_ is set a record that    *)
(* does not open is dropped and keeps its sequence number; the first one   *)
(* that opens clears the flag.                                             *)
(***************************************************************************)
ReadEncrypted(layer, r) ==
  CASE r.outer = "alert" -> [kind |-> "bad", layer |-> layer]
    [] r.outer = "ccs"   -> [kind |-> "skip", layer |-> layer]
    [] r.outer \notin {"alert", "ccs"} /\ Opens(layer, r) ->
         [kind |-> "ok", layer |-> [layer EXCEPT !.seq = @ + 1, !.skip = FALSE]]
    [] OTHER -> [kind |-> IF layer.skip THEN "skip" ELSE "bad", layer |-> layer]

Read(layer, r) ==
  IF Encrypts(layer) THEN ReadEncrypted(layer, r) ELSE ReadPlaintext(layer, r)

HasUnparsed(layer) == layer.unparsed # <<>>

(* decodeHandshakeMessage: the bytes hold a whole message.                 *)
Decodable(bytes) ==
  \/ Len(bytes) >= 1 /\ bytes[1].type # "Front"
  \/ Len(bytes) >= 2

Decoded(bytes) == IF bytes[1].type = "Front" THEN bytes[1].of ELSE bytes[1]
Undecoded(bytes) ==
  SubSeq(bytes, IF bytes[1].type = "Front" THEN 3 ELSE 2, Len(bytes))

NoMessage == [type |-> "none"]

(* A Back must follow its Front, and nothing else may.                     *)
Malformed(bytes) ==
  \/ bytes[1].type = "Back"
  \/ bytes[1].type = "Front" /\ Len(bytes) >= 2 /\ bytes[2].type # "Back"

FromBytes(layer, in) ==
  IF Malformed(layer.unparsed)
  THEN [kind |-> "bad", msg |-> NoMessage, layer |-> layer, in |-> in]
  ELSE [kind |-> "event", msg |-> Decoded(layer.unparsed), in |-> in,
        layer |-> [layer EXCEPT !.unparsed = Undecoded(layer.unparsed)]]

CanRead(layer, in) ==
  HasLayer(layer) /\ (Decodable(layer.unparsed) \/ in # <<>>)

(***************************************************************************)
(* ReadRecordLayer::readEvent, up to the next record boundary: bytes that  *)
(* were kept are decoded first; otherwise one record is taken from the     *)
(* socket buffer.  kind is "skip" when that record gives no event (it was  *)
(* dropped, or ends inside a message), "bad" when reading throws.  Only    *)
(* handshake data may follow an unfinished handshake message.  A           *)
(* close_notify takes everything that follows it out of the buffer.        *)
(***************************************************************************)
ReadEvent(layer, in) ==
  IF Decodable(layer.unparsed) THEN FromBytes(layer, in)
  ELSE LET r == Head(in)
           got == Read(layer, r)
           Result(kind, msg) == [kind |-> kind, msg |-> msg,
                                 layer |-> got.layer, in |-> Tail(in)]
           bytes == [got.layer EXCEPT !.unparsed = @ \o r.body]
       IN CASE got.kind # "ok" -> Result(got.kind, NoMessage)
            [] got.kind = "ok" /\ ContentType(r.body) # "handshake" ->
                 IF HasUnparsed(layer) THEN Result("bad", NoMessage)
                 ELSE [Result("event", r.body[1]) EXCEPT
                         !.in = IF r.body[1].type = "CloseNotify" THEN <<>> ELSE @]
            [] OTHER ->
                 IF Decodable(bytes.unparsed) THEN FromBytes(bytes, Tail(in))
                 ELSE [kind |-> "skip", msg |-> NoMessage,
                       layer |-> bytes, in |-> Tail(in)]
=============================================================================
