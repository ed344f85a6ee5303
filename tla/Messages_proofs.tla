-------------------------- MODULE Messages_proofs --------------------------
(***************************************************************************)
(* Facts about the operators both state machines are made of: the lists of *)
(* checks of a handler, what a read layer becomes, and how a stream of     *)
(* records or a list of calls grows.  Nothing is assumed of the messages,  *)
(* so they hold for whatever a peer sends.                                 *)
(***************************************************************************)
EXTENDS Messages, SequenceTheorems, WellFoundedInduction, TLAPS

(* A sequence, of whatever.                                                *)
IsSeq(s) == s \in Seq({s[i] : i \in DOMAIN s})

LEMMA SeqIsSeq ==
  ASSUME NEW S, NEW s \in Seq(S)
  PROVE  IsSeq(s)
<1>1. Len(s) \in Nat /\ DOMAIN s = 1 .. Len(s) /\ s \in [1 .. Len(s) -> S]
  OBVIOUS
<1>2. s \in [1 .. Len(s) -> {s[i] : i \in DOMAIN s}]
  BY <1>1
<1> QED
  BY <1>1, <1>2, SMTT(60) DEF IsSeq

LEMMA IsSeqDomain ==
  ASSUME NEW s, IsSeq(s)
  PROVE  Len(s) \in Nat /\ DOMAIN s = 1 .. Len(s)
BY DEF IsSeq

LEMMA TupleIsSeq ==
  /\ IsSeq(<<>>)
  /\ \A a : IsSeq(<<a>>)
  /\ \A a, b : IsSeq(<<a, b>>)
<1>1. <<>> \in Seq({})
  OBVIOUS
<1>2. \A a : <<a>> \in Seq({a})
  OBVIOUS
<1>3. \A a, b : <<a, b>> \in Seq({a, b})
  OBVIOUS
<1> QED
  BY <1>1, <1>2, <1>3, SeqIsSeq

LEMMA ConcatSeq ==
  ASSUME NEW s, NEW t, IsSeq(s), IsSeq(t)
  PROVE  /\ IsSeq(s \o t)
         /\ Len(s \o t) = Len(s) + Len(t)
         /\ DOMAIN (s \o t) = 1 .. Len(s) + Len(t)
         /\ \A i \in 1 .. Len(s) : (s \o t)[i] = s[i]
         /\ \A i \in 1 .. Len(t) : (s \o t)[Len(s) + i] = t[i]
<1> DEFINE S == {s[i] : i \in DOMAIN s} \cup {t[i] : i \in DOMAIN t}
<1>1. s \in Seq(S) /\ t \in Seq(S)
  BY DEF IsSeq
<1>2. s \o t \in Seq(S)
  BY <1>1
<1>3. IsSeq(s \o t)
  BY <1>2, SeqIsSeq
<1> QED
  BY <1>1, <1>2, <1>3

LEMMA AppendSeq ==
  ASSUME NEW s, NEW x, IsSeq(s)
  PROVE  /\ IsSeq(Append(s, x))
         /\ Len(Append(s, x)) = Len(s) + 1
         /\ DOMAIN Append(s, x) = 1 .. Len(s) + 1
         /\ \A i \in 1 .. Len(s) : Append(s, x)[i] = s[i]
         /\ Append(s, x)[Len(s) + 1] = x
<1> DEFINE S == {s[i] : i \in DOMAIN s} \cup {x}
<1>1. s \in Seq(S) /\ x \in S
  BY DEF IsSeq
<1>2. Append(s, x) \in Seq(S)
  BY <1>1
<1>3. IsSeq(Append(s, x))
  BY <1>2, SeqIsSeq
<1> QED
  BY <1>1, <1>2, <1>3
-----------------------------------------------------------------------------
(* Lists of checks.                                                        *)

(* No check of the list hits.                                              *)
Silent(checks) == \A i \in DOMAIN checks : ~checks[i][1]

(* A set of numbers has a least one.                                       *)
LEMMA LeastOf ==
  ASSUME NEW H, H \subseteq Nat, H # {}
  PROVE  \E i \in H : \A j \in H : i <= j
<1> DEFINE less == {ss \in Nat \X Nat : ss[1] < ss[2]}
<1>1. IsWellFoundedOn(less, Nat)
  BY NatLessThanWellFounded DEF OpToRel
<1>2. PICK i \in H : \A j \in H : ~(<<j, i>> \in less)
  <2> HIDE DEF less
  <2> QED
    BY <1>1, WFMin
<1>3. \A j \in H : i <= j
  <2> SUFFICES ASSUME NEW j \in H PROVE i <= j
    OBVIOUS
  <2>1. i \in Nat /\ j \in Nat /\ <<j, i>> \in Nat \X Nat
    OBVIOUS
  <2>2. ~(j < i)
    BY <1>2, <2>1
  <2> QED
    BY <2>1, <2>2
<1> QED
  BY <1>3

(* The first hit decides: either no check hits, or there is a first one.   *)
LEMMA FirstHitCases ==
  ASSUME NEW checks, IsSeq(checks)
  PROVE  \/ Silent(checks) /\ FirstHit(checks) = "ok"
         \/ \E i \in DOMAIN checks :
              /\ checks[i][1] /\ FirstHit(checks) = checks[i][2]
              /\ \A j \in DOMAIN checks : j < i => ~checks[j][1]
<1> DEFINE hits == {i \in DOMAIN checks : checks[i][1]}
<1>1. CASE hits = {}
  BY <1>1 DEF Silent, FirstHit
<1>2. CASE hits # {}
  <2> DEFINE first == CHOOSE i \in hits : \A j \in hits : i <= j
  <2>1. hits \subseteq Nat
    BY IsSeqDomain
  <2>2. first \in hits /\ \A j \in hits : first <= j
    BY <1>2, <2>1, LeastOf
  <2>3. FirstHit(checks) = checks[first][2]
    BY <1>2 DEF FirstHit
  <2> HIDE DEF first
  <2>4. \A j \in DOMAIN checks : j < first => ~checks[j][1]
    <3> SUFFICES ASSUME NEW j \in DOMAIN checks, j < first, checks[j][1] PROVE FALSE
      OBVIOUS
    <3>1. j \in hits
      OBVIOUS
    <3> HIDE DEF hits
    <3>2. first \in Nat /\ j \in Nat
      BY <2>1, <2>2, <3>1
    <3>3. first <= j
      BY <2>2, <3>1
    <3> QED
      BY <3>2, <3>3
  <2> QED
    BY <2>2, <2>3, <2>4
<1> QED
  BY <1>1, <1>2

(* A list of checks that follows another one is looked at if the first one *)
(* is silent.                                                              *)
LEMMA FirstHitConcat ==
  ASSUME NEW a, NEW b, IsSeq(a), IsSeq(b)
  PROVE  /\ Silent(a) => FirstHit(a \o b) = FirstHit(b)
         /\ ~Silent(a) => FirstHit(a \o b) = FirstHit(a)
         /\ Silent(a \o b) <=> Silent(a) /\ Silent(b)
<1>1. /\ IsSeq(a \o b) /\ DOMAIN (a \o b) = 1 .. Len(a) + Len(b)
      /\ \A i \in 1 .. Len(a) : (a \o b)[i] = a[i]
      /\ \A i \in 1 .. Len(b) : (a \o b)[Len(a) + i] = b[i]
  BY ConcatSeq
<1>2. /\ DOMAIN a = 1 .. Len(a) /\ DOMAIN b = 1 .. Len(b)
      /\ Len(a) \in Nat /\ Len(b) \in Nat
  BY IsSeqDomain
<1>3. \A i \in DOMAIN (a \o b) : i \in 1 .. Len(a) \/ i - Len(a) \in 1 .. Len(b)
  BY <1>1, <1>2
<1>a. \A i \in DOMAIN (a \o b) : i \notin 1 .. Len(a) =>
         (a \o b)[i] = b[i - Len(a)]
  BY <1>1, <1>2
<1>4. Silent(a \o b) <=> Silent(a) /\ Silent(b)
  <2>1. ASSUME Silent(a \o b) PROVE Silent(a) /\ Silent(b)
    <3>1. \A i \in 1 .. Len(b) : Len(a) + i \in DOMAIN (a \o b)
      BY <1>1, <1>2
    <3>2. Silent(a)
      BY <1>1, <1>2, <2>1 DEF Silent
    <3>3. Silent(b)
      BY <1>1, <1>2, <2>1, <3>1 DEF Silent
    <3> QED
      BY <3>2, <3>3
  <2>2. ASSUME Silent(a), Silent(b) PROVE Silent(a \o b)
    BY <1>1, <1>2, <1>3, <1>a, <2>2 DEF Silent
  <2> QED
    BY <2>1, <2>2
<1>5. ASSUME Silent(a), ~Silent(b) PROVE FirstHit(a \o b) = FirstHit(b)
  <2>1. PICK i \in DOMAIN (a \o b) :
          /\ (a \o b)[i][1] /\ FirstHit(a \o b) = (a \o b)[i][2]
          /\ \A j \in DOMAIN (a \o b) : j < i => ~(a \o b)[j][1]
    BY <1>1, <1>4, <1>5, FirstHitCases
  <2>2. PICK k \in DOMAIN b :
          /\ b[k][1] /\ FirstHit(b) = b[k][2]
          /\ \A j \in DOMAIN b : j < k => ~b[j][1]
    BY <1>5, FirstHitCases
  <2>3. i \notin 1 .. Len(a)
    BY <1>1, <1>2, <1>5, <2>1 DEF Silent
  <2>4. i - Len(a) \in DOMAIN b /\ (a \o b)[i] = b[i - Len(a)]
    BY <1>2, <1>3, <1>a, <2>3
  <2>5. ~(i - Len(a) < k)
    BY <2>1, <2>2, <2>4
  <2>6. Len(a) + k \in DOMAIN (a \o b) /\ (a \o b)[Len(a) + k] = b[k]
    BY <1>1, <1>2
  <2>7. ~(Len(a) + k < i)
    BY <2>1, <2>2, <2>6
  <2>8. i - Len(a) = k
    BY <1>1, <1>2, <2>5, <2>7, SMTT(60)
  <2> QED
    BY <2>1, <2>2, <2>4, <2>8
<1>6. ASSUME ~Silent(a) PROVE FirstHit(a \o b) = FirstHit(a)
  <2>1. PICK i \in DOMAIN (a \o b) :
          /\ (a \o b)[i][1] /\ FirstHit(a \o b) = (a \o b)[i][2]
          /\ \A j \in DOMAIN (a \o b) : j < i => ~(a \o b)[j][1]
    BY <1>1, <1>4, <1>6, FirstHitCases
  <2>2. PICK k \in DOMAIN a :
          /\ a[k][1] /\ FirstHit(a) = a[k][2]
          /\ \A j \in DOMAIN a : j < k => ~a[j][1]
    BY <1>6, FirstHitCases
  <2>3. k \in DOMAIN (a \o b) /\ (a \o b)[k] = a[k]
    BY <1>1, <1>2
  <2>4. ~(k < i)
    BY <2>1, <2>2, <2>3
  <2>5. i \in 1 .. Len(a)
    BY <1>1, <1>2, <2>4
  <2>6. ~(i < k)
    BY <1>1, <1>2, <2>1, <2>2, <2>5
  <2> QED
    BY <1>1, <1>2, <2>1, <2>2, <2>4, <2>5, <2>6
<1>7. ASSUME Silent(a), Silent(b) PROVE FirstHit(a \o b) = FirstHit(b)
  BY <1>1, <1>4, <1>7, FirstHitCases DEF Silent
<1> QED
  BY <1>4, <1>5, <1>6, <1>7

(* A list of checks with no outcome of a set.                              *)
Avoids(checks, outcomes) ==
  IsSeq(checks) /\ \A i \in DOMAIN checks : checks[i][2] \notin outcomes

LEMMA AvoidsConcat ==
  ASSUME NEW a, NEW b, NEW outcomes, Avoids(a, outcomes), Avoids(b, outcomes)
  PROVE  Avoids(a \o b, outcomes)
<1>1. /\ DOMAIN a = 1 .. Len(a) /\ Len(a) \in Nat
      /\ DOMAIN b = 1 .. Len(b) /\ Len(b) \in Nat
      /\ DOMAIN (a \o b) = 1 .. Len(a) + Len(b) /\ IsSeq(a \o b)
      /\ \A i \in 1 .. Len(a) : (a \o b)[i] = a[i]
      /\ \A i \in 1 .. Len(b) : (a \o b)[Len(a) + i] = b[i]
  BY ConcatSeq, IsSeqDomain DEF Avoids
<1>2. ASSUME NEW i \in 1 .. Len(a) + Len(b)
      PROVE  (a \o b)[i][2] \notin outcomes
  <2>1. CASE i \in 1 .. Len(a)
    BY <1>1, <2>1 DEF Avoids
  <2>2. CASE i \notin 1 .. Len(a)
    <3>1. i - Len(a) \in 1 .. Len(b) /\ i = Len(a) + (i - Len(a))
      BY <1>1, <2>2
    <3>2. (a \o b)[i] = b[i - Len(a)]
      BY <1>1, <3>1
    <3> QED
      BY <1>1, <3>1, <3>2 DEF Avoids
  <2> QED
    BY <2>1, <2>2
<1> QED
  BY <1>1, <1>2 DEF Avoids

(* An outcome that a list cannot give was given by the other one.          *)
LEMMA FirstHitAvoids ==
  ASSUME NEW a, NEW outcomes, Avoids(a, outcomes)
  PROVE  /\ ~Silent(a) => FirstHit(a) \notin outcomes
         /\ ("ok" \in outcomes /\ FirstHit(a) \in outcomes) => Silent(a)
         /\ \A b : (IsSeq(b) /\ FirstHit(a \o b) \in outcomes) =>
                  Silent(a) /\ FirstHit(a \o b) = FirstHit(b)
         /\ \A b : (IsSeq(b) /\ "ok" \notin outcomes /\ FirstHit(b \o a) \in outcomes) =>
                  ~Silent(b) /\ FirstHit(b \o a) = FirstHit(b)
<1>0. IsSeq(a)
  BY DEF Avoids
<1>1. ~Silent(a) => FirstHit(a) \notin outcomes
  BY <1>0, FirstHitCases DEF Avoids
<1>2. Silent(a) => FirstHit(a) = "ok"
  BY <1>0, FirstHitCases DEF Silent
<1>3. ASSUME NEW b, IsSeq(b), FirstHit(a \o b) \in outcomes
      PROVE  Silent(a) /\ FirstHit(a \o b) = FirstHit(b)
  BY <1>0, <1>1, <1>3, FirstHitConcat
<1>4. ASSUME NEW b, IsSeq(b), "ok" \notin outcomes, FirstHit(b \o a) \in outcomes
      PROVE  ~Silent(b) /\ FirstHit(b \o a) = FirstHit(b)
  BY <1>0, <1>1, <1>2, <1>4, FirstHitConcat
<1> QED
  BY <1>1, <1>3, <1>4
-----------------------------------------------------------------------------
(* Read layers.                                                            *)

IsLayer(l) ==
  l = [key |-> l.key, seq |-> l.seq, skip |-> l.skip, unparsed |-> l.unparsed]

LEMMA NewLayer ==
  ASSUME NEW key, NEW skip
  PROVE  /\ IsLayer(Layer(key, skip))
         /\ Layer(key, skip).key = key /\ Layer(key, skip).seq = 0
         /\ Layer(key, skip).skip = skip /\ Layer(key, skip).unparsed = <<>>
BY DEF IsLayer, Layer

LEMMA NamedLayers ==
  /\ IsLayer(NoLayer) /\ ~HasLayer(NoLayer) /\ NoLayer.skip = FALSE
  /\ NoLayer.key.level = "None"
  /\ \A skip : /\ IsLayer(PlainLayer(skip)) /\ HasLayer(PlainLayer(skip))
               /\ PlainLayer(skip).key = PlainKey /\ PlainLayer(skip).skip = skip
               /\ PlainLayer(skip).seq = 0
  /\ PlainKey.level = "Plain"
BY DEF IsLayer, NoLayer, HasLayer, PlainLayer, Layer, Key, PlainKey

LEMMA ReadKeepsKey ==
  ASSUME NEW l, NEW r, IsLayer(l)
  PROVE  LET got == Read(l, r).layer
         IN IsLayer(got) /\ got.key = l.key /\ (got.skip = l.skip \/ got.skip = FALSE)
<1>1. CASE Encrypts(l)
  <2>1. \/ Read(l, r).layer = l
        \/ Read(l, r).layer = [l EXCEPT !.seq = @ + 1, !.skip = FALSE]
    BY <1>1 DEF Read, ReadEncrypted
  <2> QED
    BY <2>1 DEF IsLayer
<1>2. CASE ~Encrypts(l)
  <2>1. \/ Read(l, r).layer = l
        \/ Read(l, r).layer = [l EXCEPT !.skip = FALSE]
    BY <1>2 DEF Read, ReadPlaintext
  <2> QED
    BY <2>1 DEF IsLayer
<1> QED
  BY <1>1, <1>2

LEMMA FromBytesKeepsKey ==
  ASSUME NEW l, NEW in, IsLayer(l)
  PROVE  LET got == FromBytes(l, in).layer
         IN IsLayer(got) /\ got.key = l.key /\ got.skip = l.skip
<1>1. \/ FromBytes(l, in).layer = l
      \/ FromBytes(l, in).layer = [l EXCEPT !.unparsed = Undecoded(l.unparsed)]
  BY DEF FromBytes
<1> QED
  BY <1>1 DEF IsLayer

(* Reading an event changes neither the key of the layer nor, but to stop  *)
(* skipping, what it does with records that do not open.                   *)
LEMMA ReadEventKeepsKey ==
  ASSUME NEW l, NEW in, IsLayer(l)
  PROVE  LET got == ReadEvent(l, in).layer
         IN IsLayer(got) /\ got.key = l.key /\ (got.skip = l.skip \/ got.skip = FALSE)
<1>1. CASE Decodable(l.unparsed)
  BY <1>1, FromBytesKeepsKey DEF ReadEvent
<1>2. CASE ~Decodable(l.unparsed)
  <2> DEFINE r == Head(in)
             got == Read(l, r)
             bytes == [got.layer EXCEPT !.unparsed = @ \o r.body]
  <2>1. /\ IsLayer(got.layer) /\ got.layer.key = l.key
        /\ got.layer.skip = l.skip \/ got.layer.skip = FALSE
    BY ReadKeepsKey
  <2>2. IsLayer(bytes) /\ bytes.key = got.layer.key /\ bytes.skip = got.layer.skip
    <3>1. \A k, u : IsLayer(k) =>
            LET m == [k EXCEPT !.unparsed = u]
            IN IsLayer(m) /\ m.key = k.key /\ m.skip = k.skip
      BY DEF IsLayer
    <3> HIDE DEF got
    <3> QED
      BY <2>1, <3>1
  <2>3. \/ ReadEvent(l, in).layer = got.layer
        \/ ReadEvent(l, in).layer = bytes
        \/ ReadEvent(l, in).layer = FromBytes(bytes, Tail(in)).layer
    <3> HIDE DEF got, bytes
    <3>0. ReadEvent(l, in) =
            LET Result(kind, msg) == [kind |-> kind, msg |-> msg,
                                      layer |-> got.layer, in |-> Tail(in)]
            IN CASE got.kind # "ok" -> Result(got.kind, NoMessage)
                 [] got.kind = "ok" /\ ContentType(r.body) # "handshake" ->
                      IF HasUnparsed(l) THEN Result("bad", NoMessage)
                      ELSE [Result("event", r.body[1]) EXCEPT
                              !.in = IF r.body[1].type = "CloseNotify" THEN <<>> ELSE @]
                 [] OTHER ->
                      IF Decodable(bytes.unparsed) THEN FromBytes(bytes, Tail(in))
                      ELSE [kind |-> "skip", msg |-> NoMessage,
                            layer |-> bytes, in |-> Tail(in)]
      BY <1>2 DEF ReadEvent, got, bytes
    <3>1. CASE got.kind # "ok"
      BY <3>0, <3>1
    <3>2. CASE got.kind = "ok" /\ ContentType(r.body) # "handshake"
      BY <3>0, <3>2
    <3>3. CASE got.kind = "ok" /\ ContentType(r.body) = "handshake"
      BY <3>0, <3>3
    <3> QED
      BY <3>1, <3>2, <3>3
  <2> HIDE DEF got, bytes
  <2>4. /\ IsLayer(FromBytes(bytes, Tail(in)).layer)
        /\ FromBytes(bytes, Tail(in)).layer.key = bytes.key
        /\ FromBytes(bytes, Tail(in)).layer.skip = bytes.skip
    BY <2>2, FromBytesKeepsKey
  <2> QED
    BY <2>1, <2>2, <2>3, <2>4
<1> QED
  BY <1>1, <1>2
-----------------------------------------------------------------------------
(* What the application is told.                                           *)

LEMMA ToldAppend ==
  ASSUME NEW calls, NEW w, NEW d, NEW what, IsSeq(calls)
  PROVE  Told(Append(calls, Call(w, d)), what) <=> Told(calls, what) \/ w = what
<1>1. /\ DOMAIN calls = 1 .. Len(calls) /\ Len(calls) \in Nat
      /\ DOMAIN Append(calls, Call(w, d)) = 1 .. Len(calls) + 1
      /\ \A i \in 1 .. Len(calls) : Append(calls, Call(w, d))[i] = calls[i]
      /\ Append(calls, Call(w, d))[Len(calls) + 1] = Call(w, d)
  BY AppendSeq, IsSeqDomain
<1>2. Call(w, d).type = w
  BY DEF Call
<1>3. \A i \in 1 .. Len(calls) + 1 : i \in 1 .. Len(calls) \/ i = Len(calls) + 1
  BY <1>1
<1>4. \A i \in 1 .. Len(calls) : i \in 1 .. Len(calls) + 1
  BY <1>1
<1>5. Len(calls) + 1 \in 1 .. Len(calls) + 1
  BY <1>1
<1> QED
  BY <1>1, <1>2, <1>3, <1>4, <1>5 DEF Told
LEMMA ToldPrefix ==
  ASSUME NEW c, IsSeq(c), NEW i \in 1 .. Len(c), NEW what
  PROVE  Told(SubSeq(c, 1, i), what) <=> \E k \in 1 .. i : c[k].type = what
<1>1. Len(c) \in Nat /\ c \in Seq({c[k] : k \in DOMAIN c})
  BY DEF IsSeq
<1>2. DOMAIN SubSeq(c, 1, i) = 1 .. i /\ \A k \in 1 .. i : SubSeq(c, 1, i)[k] = c[k]
  BY <1>1
<1> QED
  BY <1>2 DEF Told

-----------------------------------------------------------------------------
(* Streams of records.                                                     *)

HasType(r, type) == \E k \in DOMAIN r.body : r.body[k].type = type

LEMMA HoldingElement ==
  ASSUME NEW s, NEW type, NEW i
  PROVE  i \in Holding(s, type) <=> i \in DOMAIN s /\ HasType(s[i], type)
BY DEF Holding, HasType

(* What more is said of a stream when it grows.                            *)
LEMMA HoldingConcat ==
  ASSUME NEW s, NEW t, NEW type, IsSeq(s), IsSeq(t)
  PROVE  /\ \A i \in 1 .. Len(s) : i \in Holding(s \o t, type) <=> i \in Holding(s, type)
         /\ \A i \in 1 .. Len(t) :
              Len(s) + i \in Holding(s \o t, type) <=> i \in Holding(t, type)
         /\ Holding(t, type) = {} => Holding(s \o t, type) = Holding(s, type)
<1>1. /\ DOMAIN s = 1 .. Len(s) /\ Len(s) \in Nat
      /\ DOMAIN t = 1 .. Len(t) /\ Len(t) \in Nat
      /\ DOMAIN (s \o t) = 1 .. Len(s) + Len(t)
      /\ \A i \in 1 .. Len(s) : (s \o t)[i] = s[i]
      /\ \A i \in 1 .. Len(t) : (s \o t)[Len(s) + i] = t[i]
  BY ConcatSeq, IsSeqDomain
<1>2. \A i \in 1 .. Len(s) : i \in 1 .. Len(s) + Len(t)
  BY <1>1
<1>3. \A i \in 1 .. Len(t) : Len(s) + i \in 1 .. Len(s) + Len(t)
  BY <1>1
<1>4. \A i \in 1 .. Len(s) + Len(t) :
        i \in 1 .. Len(s) \/ \E k \in 1 .. Len(t) : i = Len(s) + k
  <2> SUFFICES ASSUME NEW i \in 1 .. Len(s) + Len(t), i \notin 1 .. Len(s)
               PROVE  \E k \in 1 .. Len(t) : i = Len(s) + k
    OBVIOUS
  <2>1. i - Len(s) \in 1 .. Len(t) /\ i = Len(s) + (i - Len(s))
    BY <1>1
  <2> QED
    BY <2>1
<1>5. \A i \in 1 .. Len(s) : i \in Holding(s \o t, type) <=> i \in Holding(s, type)
  BY <1>1, <1>2, HoldingElement
<1>6. \A i \in 1 .. Len(t) :
        Len(s) + i \in Holding(s \o t, type) <=> i \in Holding(t, type)
  BY <1>1, <1>3, HoldingElement
<1>7. ASSUME Holding(t, type) = {} PROVE Holding(s \o t, type) = Holding(s, type)
  <2>1. Holding(s \o t, type) \subseteq Holding(s, type)
    <3> SUFFICES ASSUME NEW i \in Holding(s \o t, type) PROVE i \in Holding(s, type)
      OBVIOUS
    <3>1. i \in 1 .. Len(s) + Len(t)
      BY <1>1, HoldingElement
    <3> QED
      BY <1>4, <1>5, <1>6, <1>7, <3>1
  <2>2. Holding(s, type) \subseteq 1 .. Len(s)
    BY <1>1, HoldingElement
  <2> QED
    BY <1>5, <2>1, <2>2
<1> QED
  BY <1>5, <1>6, <1>7
LEMMA AppendAsConcat ==
  ASSUME NEW s, NEW r, IsSeq(s)
  PROVE  Append(s, r) = s \o <<r>>
<1> DEFINE S == {s[i] : i \in DOMAIN s} \cup {r}
<1>1. s \in Seq(S) /\ r \in S
  BY DEF IsSeq
<1>2. /\ Append(s, r) \in Seq(S) /\ s \o <<r>> \in Seq(S)
      /\ Len(Append(s, r)) = Len(s \o <<r>>)
      /\ \A i \in 1 .. Len(Append(s, r)) : Append(s, r)[i] = (s \o <<r>>)[i]
  BY <1>1
<1> HIDE DEF S
<1> QED
  BY <1>2, SeqEqual

LEMMA HoldingAppend ==
  ASSUME NEW s, NEW r, NEW type, IsSeq(s)
  PROVE  /\ HasType(r, type) =>
              Holding(Append(s, r), type) = Holding(s, type) \cup {Len(s) + 1}
         /\ ~HasType(r, type) => Holding(Append(s, r), type) = Holding(s, type)
         /\ Len(s) + 1 \notin Holding(s, type)
<1>1. /\ DOMAIN s = 1 .. Len(s) /\ Len(s) \in Nat
      /\ DOMAIN Append(s, r) = 1 .. Len(s) + 1
      /\ \A i \in 1 .. Len(s) : Append(s, r)[i] = s[i]
      /\ Append(s, r)[Len(s) + 1] = r
  BY AppendSeq, IsSeqDomain
<1>2. 1 .. Len(s) + 1 = (1 .. Len(s)) \cup {Len(s) + 1}
  BY <1>1
<1>3. Len(s) + 1 \notin 1 .. Len(s)
  BY <1>1
<1>4. Holding(s, type) \subseteq 1 .. Len(s)
  BY <1>1 DEF Holding
<1>5. Holding(Append(s, r), type) \subseteq 1 .. Len(s) + 1
  BY <1>1 DEF Holding
<1>6. \A i \in 1 .. Len(s) :
        i \in Holding(Append(s, r), type) <=> i \in Holding(s, type)
  BY <1>1, <1>2 DEF Holding
<1>7. Len(s) + 1 \in Holding(Append(s, r), type) <=> HasType(r, type)
  BY <1>1, <1>2 DEF Holding, HasType
<1> QED
  BY <1>2, <1>3, <1>4, <1>5, <1>6, <1>7

(* The numbers a layer has used in a stream lie below its next one.        *)
Fresh(records, l) ==
  /\ l.seq \in Nat
  /\ \A i \in DOMAIN records :
       records[i].key = l.key => records[i].seq \in Nat /\ records[i].seq < l.seq

(* Nothing in the stream ends it.                                          *)
Unended(records) ==
  Holding(records, "Alert") = {} /\ Holding(records, "CloseNotify") = {}

(* One more record at the end of a stream, plain or under a layer that is  *)
(* fresh.                                                                  *)
LEMMA SendRecord ==
  ASSUME NEW s, NEW r, NEW l, IsSeq(s), NoncesDiffer(s), Unended(s),
         r.key = l.key, r.seq = l.seq, l.key = PlainKey \/ Fresh(s, l)
  PROVE  /\ IsSeq(Append(s, r))
         /\ NoncesDiffer(Append(s, r))
         /\ NothingAfterAlert(Append(s, r))
         /\ ~HasType(r, "Alert") /\ ~HasType(r, "CloseNotify") => Unended(Append(s, r))
<1>1. /\ DOMAIN s = 1 .. Len(s) /\ Len(s) \in Nat
      /\ Len(Append(s, r)) = Len(s) + 1
      /\ DOMAIN Append(s, r) = 1 .. Len(s) + 1
      /\ \A i \in 1 .. Len(s) : Append(s, r)[i] = s[i]
      /\ Append(s, r)[Len(s) + 1] = r
      /\ IsSeq(Append(s, r))
  BY AppendSeq, IsSeqDomain
<1>2. NoncesDiffer(Append(s, r))
  <2> SUFFICES ASSUME NEW i \in 1 .. Len(s) + 1, NEW j \in 1 .. Len(s) + 1, i < j,
                      Append(s, r)[i].key # PlainKey,
                      Append(s, r)[i].key = Append(s, r)[j].key
               PROVE  Append(s, r)[i].seq < Append(s, r)[j].seq
    BY <1>1 DEF NoncesDiffer
  <2>1. i \in 1 .. Len(s) /\ (j \in 1 .. Len(s) \/ j = Len(s) + 1)
    BY <1>1
  <2>2. CASE j \in 1 .. Len(s)
    BY <1>1, <2>1, <2>2 DEF NoncesDiffer
  <2>3. CASE j = Len(s) + 1
    BY <1>1, <2>1, <2>3 DEF Fresh
  <2> QED
    BY <2>1, <2>2, <2>3
<1>3. \A type \in {"Alert", "CloseNotify"} :
        Holding(Append(s, r), type) \subseteq {Len(s) + 1}
  BY HoldingAppend DEF Unended
<1>4. NothingAfterAlert(Append(s, r))
  BY <1>1, <1>3 DEF NothingAfterAlert
<1>5. ASSUME ~HasType(r, "Alert"), ~HasType(r, "CloseNotify")
      PROVE  Unended(Append(s, r))
  BY <1>5, HoldingAppend DEF Unended
<1> QED
  BY <1>1, <1>2, <1>4, <1>5

LEMMA SealFields ==
  ASSUME NEW l, NEW m
  PROVE  /\ Seal(l, <<m>>).key = l.key /\ Seal(l, <<m>>).seq = l.seq
         /\ Seal(l, <<m>>).body = <<m>> /\ Seal(l, <<m>>).body[1] = m
         /\ \A type : HasType(Seal(l, <<m>>), type) <=> m.type = type
BY DEF Seal, HasType

(* A layer stays fresh when another one is used, and when it is used       *)
(* itself and its number goes up.                                          *)
LEMMA StaysFresh ==
  ASSUME NEW s, NEW r, NEW l, IsSeq(s), Fresh(s, l)
  PROVE  /\ r.key # l.key => Fresh(Append(s, r), l)
         /\ (r.key = l.key /\ r.seq = l.seq /\ IsLayer(l) /\ Encrypts(l)) =>
              /\ Fresh(Append(s, r), Sealed(l))
              /\ IsLayer(Sealed(l)) /\ Sealed(l).key = l.key /\ Sealed(l).skip = l.skip
<1>1. /\ DOMAIN s = 1 .. Len(s) /\ Len(s) \in Nat
      /\ DOMAIN Append(s, r) = 1 .. Len(s) + 1
      /\ \A i \in 1 .. Len(s) : Append(s, r)[i] = s[i]
      /\ Append(s, r)[Len(s) + 1] = r
  BY AppendSeq, IsSeqDomain
<1>2. \A i \in 1 .. Len(s) + 1 : i \in 1 .. Len(s) \/ i = Len(s) + 1
  BY <1>1
<1>3. ASSUME r.key # l.key PROVE Fresh(Append(s, r), l)
  BY <1>1, <1>2, <1>3 DEF Fresh
<1>4. ASSUME r.key = l.key, r.seq = l.seq, IsLayer(l), Encrypts(l)
      PROVE  /\ Fresh(Append(s, r), Sealed(l))
             /\ IsLayer(Sealed(l)) /\ Sealed(l).key = l.key /\ Sealed(l).skip = l.skip
  <2>1. /\ IsLayer(Sealed(l)) /\ Sealed(l).key = l.key
        /\ Sealed(l).seq = l.seq + 1 /\ Sealed(l).skip = l.skip
    BY <1>4 DEF Sealed, IsLayer
  <2>2. \A i \in 1 .. Len(s) : s[i].key = l.key =>
           s[i].seq \in Nat /\ s[i].seq < l.seq + 1
    BY <1>1 DEF Fresh
  <2>3. l.seq \in Nat /\ l.seq + 1 \in Nat /\ l.seq < l.seq + 1
    BY DEF Fresh
  <2> QED
    BY <1>1, <1>2, <1>4, <2>1, <2>2, <2>3 DEF Fresh
<1> QED
  BY <1>3, <1>4
-----------------------------------------------------------------------------
(* Flights: sequences of messages of some types, and the records of them.  *)

AllTypes(ms, types) == IsSeq(ms) /\ \A k \in DOMAIN ms : ms[k].type \in types

LEMMA AllTypesConcat ==
  ASSUME NEW a, NEW b, NEW types, AllTypes(a, types), AllTypes(b, types)
  PROVE  AllTypes(a \o b, types)
<1>1. /\ DOMAIN a = 1 .. Len(a) /\ Len(a) \in Nat
      /\ DOMAIN b = 1 .. Len(b) /\ Len(b) \in Nat
      /\ DOMAIN (a \o b) = 1 .. Len(a) + Len(b) /\ IsSeq(a \o b)
      /\ \A i \in 1 .. Len(a) : (a \o b)[i] = a[i]
      /\ \A i \in 1 .. Len(b) : (a \o b)[Len(a) + i] = b[i]
  BY ConcatSeq, IsSeqDomain DEF AllTypes
<1>2. ASSUME NEW i \in 1 .. Len(a) + Len(b)
      PROVE  (a \o b)[i].type \in types
  <2>1. CASE i \in 1 .. Len(a)
    BY <1>1, <2>1 DEF AllTypes
  <2>2. CASE i \notin 1 .. Len(a)
    <3>1. i - Len(a) \in 1 .. Len(b) /\ i = Len(a) + (i - Len(a))
      BY <1>1, <2>2
    <3>2. (a \o b)[i] = b[i - Len(a)]
      BY <1>1, <3>1
    <3> QED
      BY <1>1, <3>1, <3>2 DEF AllTypes
  <2> QED
    BY <2>1, <2>2
<1> QED
  BY <1>1, <1>2 DEF AllTypes

LEMMA AllTypesTuple ==
  ASSUME NEW m, NEW types
  PROVE  /\ AllTypes(<<>>, types)
         /\ m.type \in types => AllTypes(<<m>>, types)
BY TupleIsSeq DEF AllTypes

LEMMA AllTypesAppend ==
  ASSUME NEW ms, NEW m, NEW types, AllTypes(ms, types), m.type \in types
  PROVE  AllTypes(Append(ms, m), types)
<1>1. Append(ms, m) = ms \o <<m>>
  BY AppendAsConcat DEF AllTypes
<1> QED
  BY <1>1, AllTypesTuple, AllTypesConcat

LEMMA AllTypesSubSeq ==
  ASSUME NEW ms, NEW types, AllTypes(ms, types),
         NEW i \in 1 .. Len(ms) + 1, NEW j \in i - 1 .. Len(ms)
  PROVE  AllTypes(SubSeq(ms, i, j), types)
<1> DEFINE S == {ms[k] : k \in DOMAIN ms}
<1>1. Len(ms) \in Nat /\ DOMAIN ms = 1 .. Len(ms) /\ ms \in Seq(S)
  BY DEF AllTypes, IsSeq
<1>2. \A x \in S : x.type \in types
  BY DEF AllTypes
<1>3. SubSeq(ms, i, j) \in Seq(S)
  <2> HIDE DEF S
  <2> QED
    BY <1>1
<1>4. IsSeq(SubSeq(ms, i, j))
  BY <1>3, SeqIsSeq
<1> HIDE DEF S
<1>5. \A k \in DOMAIN SubSeq(ms, i, j) : SubSeq(ms, i, j)[k] \in S
  BY <1>3
<1> QED
  BY <1>2, <1>4, <1>5 DEF AllTypes

LEMMA SealBody ==
  ASSUME NEW l, NEW ms, NEW types, AllTypes(ms, types)
  PROVE  /\ Seal(l, ms).key = l.key /\ Seal(l, ms).seq = l.seq
         /\ \A type : type \notin types => ~HasType(Seal(l, ms), type)
BY DEF Seal, HasType, AllTypes

(* A second record after a first.                                          *)
LEMMA ConcatTwo ==
  ASSUME NEW s, NEW a, NEW b, IsSeq(s)
  PROVE  s \o <<a, b>> = Append(Append(s, a), b)
<1> DEFINE S == {s[i] : i \in DOMAIN s} \cup {a, b}
<1>1. s \in Seq(S) /\ a \in S /\ b \in S
  BY DEF IsSeq
<1>2. /\ Append(Append(s, a), b) \in Seq(S) /\ s \o <<a, b>> \in Seq(S)
      /\ Len(Append(Append(s, a), b)) = Len(s) + 2
      /\ Len(s \o <<a, b>>) = Len(s) + 2
  BY <1>1
<1>3. \A i \in 1 .. Len(s) + 2 : Append(Append(s, a), b)[i] = (s \o <<a, b>>)[i]
  BY <1>1
<1> HIDE DEF S
<1> QED
  BY <1>2, <1>3, SeqEqual

(* The digests of messages are as many.                                    *)
LEMMA DigestsSeq ==
  ASSUME NEW t, NEW ms, IsSeq(t), IsSeq(ms)
  PROVE  /\ IsSeq(Digests(t, ms))
         /\ \A i \in DOMAIN t : i \in DOMAIN Digests(t, ms) /\ Digests(t, ms)[i] = t[i]
<1> DEFINE d == [i \in DOMAIN ms |-> Digest(ms[i])]
<1>1. DOMAIN ms = 1 .. Len(ms) /\ Len(ms) \in Nat
  BY IsSeqDomain
<1>2. d \in Seq({Digest(ms[i]) : i \in DOMAIN ms})
  <2>1. d \in [1 .. Len(ms) -> {Digest(ms[i]) : i \in DOMAIN ms}]
    BY <1>1
  <2> HIDE DEF d
  <2> QED
    BY <1>1, <2>1
<1>3. IsSeq(d)
  BY <1>2, SeqIsSeq
<1>4. Digests(t, ms) = t \o d
  BY DEF Digests
<1> HIDE DEF d
<1> QED
  BY <1>3, <1>4, ConcatSeq, IsSeqDomain

(* A stream that only holds plain records, and one more of them.           *)
PlainStream(s) ==
  IsSeq(s) /\ Unended(s) /\ \A i \in DOMAIN s : s[i].key = PlainKey

LEMMA PlainNonces ==
  ASSUME NEW s, PlainStream(s)
  PROVE  NoncesDiffer(s)
BY DEF PlainStream, NoncesDiffer

LEMMA PlainAppend ==
  ASSUME NEW s, NEW r, PlainStream(s), r.key = PlainKey,
         ~HasType(r, "Alert"), ~HasType(r, "CloseNotify")
  PROVE  PlainStream(Append(s, r))
<1>1. /\ DOMAIN s = 1 .. Len(s) /\ Len(s) \in Nat
      /\ DOMAIN Append(s, r) = 1 .. Len(s) + 1
      /\ \A i \in 1 .. Len(s) : Append(s, r)[i] = s[i]
      /\ Append(s, r)[Len(s) + 1] = r /\ IsSeq(Append(s, r))
  BY AppendSeq, IsSeqDomain DEF PlainStream
<1>2. \A i \in 1 .. Len(s) + 1 : i \in 1 .. Len(s) \/ i = Len(s) + 1
  BY <1>1
<1>3. Unended(Append(s, r))
  BY HoldingAppend DEF PlainStream, Unended
<1> QED
  BY <1>1, <1>2, <1>3 DEF PlainStream
=============================================================================
