------------------------- MODULE Resumption_proofs -------------------------
(***************************************************************************)
(* Proofs about session resumption over time: a ticket is good for as long *)
(* as the policy lets the full handshake behind it stand, and early data   *)
(* of one ClientHello is delivered once, for every number of connections,  *)
(* every filter, every policy and every set of secrets.                    *)
(***************************************************************************)
EXTENDS Resumption, FiniteSetTheorems, TLAPS

-----------------------------------------------------------------------------
(* Sequences, of whatever.                                                 *)
IsSeq(s) == s \in Seq({s[i] : i \in DOMAIN s})

LEMMA ElementsOf ==
  ASSUME NEW S, NEW s \in Seq(S)
  PROVE  IsSeq(s) /\ DOMAIN s = 1 .. Len(s) /\ \A i \in DOMAIN s : s[i] \in S
<1>1. Len(s) \in Nat /\ DOMAIN s = 1 .. Len(s) /\ s \in [1 .. Len(s) -> S]
  OBVIOUS
<1>2. s \in [1 .. Len(s) -> {s[i] : i \in DOMAIN s}]
  BY <1>1
<1>. QED  BY <1>1, <1>2 DEF IsSeq

LEMMA AppendElements ==
  ASSUME NEW s, NEW x, IsSeq(s)
  PROVE  /\ Len(s) \in Nat /\ DOMAIN s = 1 .. Len(s)
         /\ IsSeq(Append(s, x))
         /\ DOMAIN Append(s, x) = 1 .. Len(s) + 1
         /\ \A i \in 1 .. Len(s) : Append(s, x)[i] = s[i]
         /\ Append(s, x)[Len(s) + 1] = x
<1>. DEFINE S == {s[i] : i \in DOMAIN s} \cup {x}
<1>1. s \in Seq(S) /\ x \in S
  BY DEF IsSeq
<1>2. Append(s, x) \in Seq(S)
  BY <1>1
<1>3. IsSeq(Append(s, x))
  BY <1>2, ElementsOf
<1>. QED  BY <1>1, <1>2, <1>3

(* Taking an element out of a sequence, and keeping the front of one, add  *)
(* no element.                                                             *)
LEMMA RemovedElements ==
  ASSUME NEW S, NEW s \in Seq(S), NEW i \in DOMAIN s
  PROVE  RemoveAt(s, i) \in Seq(S)
<1>1. i \in 1 .. Len(s) /\ Len(s) \in Nat
  OBVIOUS
<1>2. SubSeq(s, 1, i - 1) \in Seq(S)
  BY <1>1
<1>3. SubSeq(s, i + 1, Len(s)) \in Seq(S)
  BY <1>1
<1>. QED  BY <1>2, <1>3 DEF RemoveAt

-----------------------------------------------------------------------------
(* Arithmetic of the codecs and of the policy.                             *)

LEMMA RoundsDown ==
  ASSUME NEW t \in Int
  PROVE  (t \div Second) \in Int /\ (t \div Second) * Second <= t
BY TicketsAssumption

LEMMA PositiveCast ==
  ASSUME NEW t \in Int, DurationCast(t) > 0
  PROVE  t > 0
<1>1. CASE t = 0
  <2>1. DurationCast(0) = 0
    BY TicketsAssumption DEF DurationCast
  <2>. QED  BY <1>1, <2>1
<1>2. CASE t < 0
  <2>1. (-t) \div Second \in Nat
    BY <1>2, TicketsAssumption
  <2>. QED  BY <1>2, <2>1 DEF DurationCast
<1>. QED  BY <1>1, <1>2

LEMMA NextBucket ==
  ASSUME NEW b \in 0 .. Buckets - 1
  PROVE  (b + 1) % Buckets = IF b + 1 < Buckets THEN b + 1 ELSE 0
BY ResumptionAssumption

-----------------------------------------------------------------------------
(* The inductive invariant.  What a ticket holds: the handshake time that  *)
(* it carries is never later than the handshake really took place.         *)
IsPlaintext(p) ==
  /\ p = [serverCert |-> p.serverCert, clientCert |-> p.clientCert,
          ageAdd |-> p.ageAdd, issueTime |-> p.issueTime,
          handshakeTime |-> p.handshakeTime, origin |-> p.origin]
  /\ {p.ageAdd, p.issueTime, p.handshakeTime, p.origin} \subseteq Int
  /\ p.handshakeTime * Second <= p.origin

IsTicket(ticket) == IsPlaintext(ticket.plaintext)

IsPsk(psk) ==
  /\ psk = [ticket |-> psk.ticket, ageAdd |-> psk.ageAdd,
            issueTime |-> psk.issueTime, expirationTime |-> psk.expirationTime,
            handshakeTime |-> psk.handshakeTime, serverCert |-> psk.serverCert,
            clientCert |-> psk.clientCert,
            maxEarlyDataSize |-> psk.maxEarlyDataSize]
  /\ {psk.ageAdd, psk.issueTime} \subseteq Int
  /\ IsTicket(psk.ticket)

ClockInv == now \in Nat /\ run \in Nat /\ bounds \in Bounds

CacheInv == IsSeq(cache) /\ \A i \in DOMAIN cache : IsPsk(cache[i].psk)

(* A random names one hello.                                               *)
HelloInv ==
  /\ IsFiniteSet(hellos) /\ Cardinality(hellos) <= bounds.hellos
  /\ \A h \in hellos :
       /\ h.random \in 1 .. Cardinality(hellos) /\ h.age \in Int
       /\ h.ticket # None => IsTicket(h.ticket)
  /\ \A g, h \in hellos : g.random = h.random => g = h

(* What the server makes of the ticket in a hello.                         *)
Restored(hello, res) ==
  LET plaintext == hello.ticket.plaintext
  IN /\ IsPlaintext(plaintext)
     /\ res.ageAdd = plaintext.ageAdd
     /\ res.issueTime = plaintext.issueTime * Second
     /\ {res.handshakeTime, res.origin} \subseteq Int
     /\ res.handshakeTime <= res.origin

IsAsking(conn) ==
  /\ conn = [stage |-> "asking", hello |-> conn.hello, res |-> conn.res,
             lawful |-> conn.lawful, genuine |-> conn.genuine,
             replay |-> conn.replay, checked |-> conn.checked]
  /\ conn.hello \in hellos
  /\ conn.res # None => Restored(conn.hello, conn.res)
  /\ conn.lawful
  /\ conn.checked \in Nat /\ conn.checked <= now
  /\ conn.replay = "NotReplay" => now <= conn.checked + bounds.answer

IsOpen(conn) ==
  /\ {conn.handshakeTime, conn.origin} \subseteq Int
  /\ conn.handshakeTime <= conn.origin

IsTicketed(conn) == conn.ageAdd \in Int /\ IsTicket(conn.nst.ticket)

IsConn(conn) ==
  /\ conn.stage = "asking" => IsAsking(conn)
  /\ conn.stage = "open" => IsOpen(conn)
  /\ conn.stage = "ticketed" => IsTicketed(conn)

ConnInv ==
  /\ conns = [c \in Conns |-> conns[c]]
  /\ \A c \in Conns : IsConn(conns[c])

IsFilter(f) ==
  /\ f = [bits |-> f.bits, bucket |-> f.bucket, due |-> f.due]
  /\ f.bits = [c \in Cells |-> f.bits[c]]
  /\ f.bucket \in 0 .. Buckets - 1 /\ f.due \in Int

FilterInv == IsFilter(filter)

(* How long the filter is sure to remember what it was asked.              *)
Window == (Buckets - 1) * BucketWidth

(* At the given time, a random that the filter was asked about at time t   *)
(* is still in bucket b of each of its cells, k clears later, unless the   *)
(* window has passed.                                                      *)
Remembers(f, time, random, t) ==
  \/ time >= t + Window
  \/ \E k, b \in 0 .. Buckets - 1 :
       /\ f.bucket = IF b + k < Buckets THEN b + k ELSE b + k - Buckets
       /\ k >= 1 => f.due >= t + k * BucketWidth
       /\ \A c \in CellsOf[random] : b \in f.bits[c]

Apart(s, t) == s >= t + Window \/ t >= s + Window

(* The filter never says twice within a window that a random is new.       *)
AnswersInv ==
  /\ \A c \in Conns : Answered(c) =>
       Remembers(filter, now, conns[c].hello.random, conns[c].checked)
  /\ \A c, d \in Conns :
       Answered(c) /\ Answered(d) /\ c # d
         /\ conns[c].hello.random = conns[d].hello.random
         => Apart(conns[c].checked, conns[d].checked)

(* The skew of a hello's age, but for the time at which it is looked at.   *)
SkewAtZero(hello) ==
  LET plaintext == hello.ticket.plaintext
  IN ((hello.age - plaintext.ageAdd) % AgeMod) + plaintext.issueTime * Second

(* Early data of the hello was delivered at time d after an answer of the  *)
(* filter at time t.                                                       *)
DeliveredAt(hello, d, t) ==
  /\ t <= d /\ d <= t + bounds.answer
  /\ IsTicket(hello.ticket)
  /\ SkewAtZero(hello) - d >= Tolerance.before
  /\ SkewAtZero(hello) - d <= Tolerance.after
  /\ Remembers(filter, now, hello.random, t)
  /\ \A c \in Conns : Answered(c) /\ conns[c].hello.random = hello.random
                      => Apart(t, conns[c].checked)

DeliveredInv ==
  /\ IsSeq(delivered)
  /\ \A i \in DOMAIN delivered :
       /\ delivered[i] = <<delivered[i][1], delivered[i][2]>>
       /\ delivered[i][2] \in Nat /\ delivered[i][2] <= run
       /\ delivered[i][2] = run =>
            \E h \in hellos : \E d, t \in 0 .. now :
              h.random = delivered[i][1] /\ DeliveredAt(h, d, t)
  /\ EarlyDataOnce

TicketInv == ClockInv /\ CacheInv /\ HelloInv /\ ConnInv
ReplayInv == FilterInv /\ AnswersInv /\ DeliveredInv
Inv == TicketInv /\ ReplayInv
-----------------------------------------------------------------------------
(* Tickets.                                                                *)

LEMMA PlaintextExcept ==
  ASSUME NEW a, NEW b, NEW c, NEW d, NEW e, NEW f, NEW x, NEW y, NEW z
  PROVE  [[serverCert |-> a, clientCert |-> b, ageAdd |-> c, issueTime |-> d,
           handshakeTime |-> e, origin |-> f]
            EXCEPT !.clientCert = x, !.issueTime = y, !.handshakeTime = z]
         = [serverCert |-> a, clientCert |-> x, ageAdd |-> c, issueTime |-> y,
            handshakeTime |-> z, origin |-> f]
<1>. DEFINE r == [serverCert |-> a, clientCert |-> b, ageAdd |-> c, issueTime |-> d,
                  handshakeTime |-> e, origin |-> f]
            Records ==
              [serverCert : {a}, clientCert : {x}, ageAdd : {c}, issueTime : {y},
               handshakeTime : {z}, origin : {f}]
<1>1. r \in [serverCert : {a}, clientCert : {b}, ageAdd : {c}, issueTime : {d},
             handshakeTime : {e}, origin : {f}]
  OBVIOUS
<1>. HIDE DEF r
<1>2. [r EXCEPT !.clientCert = x, !.issueTime = y, !.handshakeTime = z] \in Records
  BY <1>1
<1>3. \A u \in Records :
        u = [serverCert |-> a, clientCert |-> x, ageAdd |-> c, issueTime |-> y,
             handshakeTime |-> z, origin |-> f]
  OBVIOUS
<1>. HIDE DEF Records
<1>. QED  BY <1>2, <1>3, Zenon DEF r

(* A ticket that the server seals tells no later a handshake than the      *)
(* session has.                                                            *)
LEMMA SealedTicket ==
  ASSUME NEW ageAdd \in Int, NEW handshakeTime \in Int, NEW origin \in Int,
         handshakeTime <= origin, now \in Nat, NEW time, NEW cipher, NEW nst,
         nst = TicketEncrypt(cipher, ResumptionState(ageAdd, handshakeTime, origin), time),
         nst # None
  PROVE  IsTicket(nst.ticket)
<1>. DEFINE res == ResumptionState(ageAdd, handshakeTime, origin)
            p == EncodeTicket(res)
            token == TokenEncrypt(cipher.secrets, cipher.contexts, p)
            validity == RemainingValidity(cipher.policy, res, time)
<1>1. p = [serverCert |-> "server", clientCert |-> StoredCert(NoCert), ageAdd |-> ageAdd,
           issueTime |-> now \div Second, handshakeTime |-> handshakeTime \div Second,
           origin |-> origin]
  <2>1. p = [res EXCEPT !.clientCert = StoredCert(res.clientCert),
                        !.issueTime = res.issueTime \div Second,
                        !.handshakeTime = res.handshakeTime \div Second]
    BY Zenon DEF EncodeTicket
  <2>2. /\ res.clientCert = NoCert /\ res.issueTime = now
        /\ res.handshakeTime = handshakeTime
    BY DEF ResumptionState
  <2>3. p = [res EXCEPT !.clientCert = StoredCert(NoCert),
                        !.issueTime = now \div Second,
                        !.handshakeTime = handshakeTime \div Second]
    BY <2>1, <2>2, Zenon
  <2>. QED  BY <2>3, PlaintextExcept, Zenon DEF ResumptionState
<1>2. IsPlaintext(p)
  <2>1. /\ (now \div Second) \in Int /\ (handshakeTime \div Second) \in Int
        /\ (handshakeTime \div Second) * Second <= handshakeTime
        /\ Second \in Int
    BY RoundsDown, TicketsAssumption
  <2>2. (handshakeTime \div Second) * Second <= origin
    BY <2>1
  <2>. QED  BY <1>1, <2>1, <2>2 DEF IsPlaintext
<1>3. nst = [ticket |-> token, lifetime |-> validity] /\ token # None
  BY DEF TicketEncrypt
<1>4. token.plaintext = p
  <2>. HIDE DEF p
  <2>. QED  BY <1>3 DEF TokenEncrypt
<1>. HIDE DEF p, token, validity
<1>. QED  BY <1>2, <1>3, <1>4 DEF IsTicket

(* What the server opens is what it sealed, and no more of it than the     *)
(* policy and its secrets allow.                                           *)
LEMMA OpenedByCipher ==
  ASSUME NEW token, IsTicket(token), now \in Nat,
         NEW keys, NEW contexts, NEW res,
         res = TicketDecrypt([secrets |-> keys, contexts |-> contexts, policy |-> Policy],
                             Certificates, token, now),
         res # None
  PROVE  /\ \E i \in DOMAIN keys : token.key = Extracted(keys[i], contexts)
         /\ res.ageAdd = token.plaintext.ageAdd
         /\ res.issueTime = token.plaintext.issueTime * Second
         /\ {res.handshakeTime, res.origin} \subseteq Int
         /\ res.handshakeTime <= res.origin
         /\ now < res.origin + Policy.handshake * Second
<1>. DEFINE p == token.plaintext
            cert == IF p.serverCert \in Certificates THEN p.serverCert ELSE None
            r == DecodeTicket(p, Certificates)
<1>1. IsPlaintext(p)
  BY DEF IsTicket
<1>2. r = [serverCert |-> cert, clientCert |-> p.clientCert, ageAdd |-> p.ageAdd,
           issueTime |-> p.issueTime * Second, handshakeTime |-> p.handshakeTime * Second,
           origin |-> p.origin]
  <2>1. "handshakeTime" \in DOMAIN p
    BY <1>1 DEF IsPlaintext
  <2>2. HandshakeTimeOf(p) = p.handshakeTime
    BY <2>1, Zenon DEF HandshakeTimeOf
  <2>. QED  BY <2>2, Zenon DEF DecodeTicket
<1>3. /\ \E i \in DOMAIN keys : token.key = Extracted(keys[i], contexts)
      /\ res = r /\ ShouldAccept(Policy, r, now)
  BY DEF TicketDecrypt, TokenDecrypt
<1>. HIDE DEF p, r
<1>4. /\ p.handshakeTime \in Int /\ p.origin \in Int /\ p.handshakeTime * Second <= p.origin
      /\ Second \in Nat /\ Policy.handshake \in Nat
  BY <1>1, TicketsAssumption, ResumptionAssumption DEF IsPlaintext
<1>5. /\ r.handshakeTime = p.handshakeTime * Second /\ r.origin = p.origin
      /\ r.ageAdd = p.ageAdd /\ r.issueTime = p.issueTime * Second
  BY <1>2
<1>6. p.handshakeTime * Second \in Int /\ Policy.handshake * Second \in Int
  BY <1>4
<1>7. p.handshakeTime * Second + Policy.handshake * Second - now > 0
  <2>1. DurationCast(p.handshakeTime * Second + Policy.handshake * Second - now) > 0
    BY <1>3, <1>5 DEF ShouldAccept, GetValidity
  <2>2. p.handshakeTime * Second + Policy.handshake * Second - now \in Int
    BY <1>6
  <2>. QED  BY <2>1, <2>2, PositiveCast
<1>8. now < r.origin + Policy.handshake * Second
  BY <1>4, <1>5, <1>6, <1>7
<1>. QED  BY <1>3, <1>4, <1>5, <1>6, <1>8 DEF p

LEMMA OpenedTicket ==
  ASSUME NEW hello, IsTicket(hello.ticket), now \in Nat, NEW res,
         res = DualDecrypt(Primary, Fallback, Certificates, hello.ticket, now),
         res # None
  PROVE  Restored(hello, res) /\ Lawful(hello.ticket, res)
<1>. DEFINE first == TicketDecrypt(Primary, Certificates, hello.ticket, now)
            second == TicketDecrypt(Fallback, Certificates, hello.ticket, now)
<1>1. res = first \/ res = second
  BY DEF DualDecrypt
<1>2. CASE res = first
  <2>1. first = TicketDecrypt([secrets |-> secrets, contexts |-> <<"label", "new">>,
                               policy |-> Policy], Certificates, hello.ticket, now)
    BY DEF Primary
  <2>2. \E i \in DOMAIN secrets : hello.ticket.key = Extracted(secrets[i], <<"label", "new">>)
    BY <1>2, <2>1, OpenedByCipher
  <2>3. hello.ticket.key \in ServerKeys
    BY <2>2 DEF ServerKeys, Primary
  <2>. QED
    BY <1>2, <2>1, <2>3, OpenedByCipher DEF Restored, Lawful, IsTicket
<1>3. CASE res = second
  <2>1. second = TicketDecrypt([secrets |-> OldSecrets, contexts |-> <<"label", "old">>,
                                policy |-> Policy], Certificates, hello.ticket, now)
    BY DEF Fallback
  <2>2. \E i \in DOMAIN OldSecrets : hello.ticket.key = Extracted(OldSecrets[i], <<"label", "old">>)
    BY <1>3, <2>1, OpenedByCipher
  <2>3. hello.ticket.key \in ServerKeys
    BY <2>2 DEF ServerKeys, Fallback
  <2>. QED
    BY <1>3, <2>1, <2>3, OpenedByCipher DEF Restored, Lawful, IsTicket
<1>. QED  BY <1>1, <1>2, <1>3
-----------------------------------------------------------------------------
(* The initial states.                                                     *)

LEMMA FirstPsk ==
  ASSUME NEW nst, IsTicket(nst.ticket), NEW ageAdd \in Int, NEW handshakeTime,
         NEW time \in Int
  PROVE  IsPsk(NewCachedPsk(nst, ageAdd, handshakeTime, time))
<1>. DEFINE psk == NewCachedPsk(nst, ageAdd, handshakeTime, time)
            expiration == time + nst.lifetime * Second
<1>1. psk = [ticket |-> nst.ticket, ageAdd |-> ageAdd, issueTime |-> time,
             expirationTime |-> expiration, handshakeTime |-> handshakeTime,
             serverCert |-> [id |-> "server", x509 |-> TRUE],
             clientCert |-> NoCert, maxEarlyDataSize |-> 1]
  BY DEF NewCachedPsk
<1>. HIDE DEF psk, expiration
<1>2. /\ psk.ticket = nst.ticket /\ psk.ageAdd = ageAdd /\ psk.issueTime = time
      /\ psk.expirationTime = expiration /\ psk.handshakeTime = handshakeTime
      /\ psk.serverCert = [id |-> "server", x509 |-> TRUE]
      /\ psk.clientCert = NoCert /\ psk.maxEarlyDataSize = 1
  BY <1>1
<1>3. IsPsk(psk)
  BY <1>1, <1>2 DEF IsPsk
<1>. QED  BY <1>3 DEF psk

LEMMA InitInv == Init => Inv
<1>. SUFFICES ASSUME Init PROVE Inv
  OBVIOUS
<1>. USE DEF Init
<1>1. ClockInv
  BY DEF ClockInv
<1>2. CacheInv
  <2>1. PICK identity \in Identities, ageAdd \in AgeAdds :
          LET nst == TicketEncrypt(Primary, ResumptionState(ageAdd, 0, 0), now)
          IN /\ nst # None
             /\ cache = <<[identity |-> identity,
                           psk |-> NewCachedPsk(nst, ageAdd, 0, 0)]>>
    OBVIOUS
  <2>. DEFINE nst == TicketEncrypt(Primary, ResumptionState(ageAdd, 0, 0), now)
  <2>2. nst # None /\ cache = <<[identity |-> identity,
                                 psk |-> NewCachedPsk(nst, ageAdd, 0, 0)]>>
    BY <2>1
  <2>3. ageAdd \in Int /\ now \in Nat
    BY ResumptionAssumption
  <2>4. IsTicket(nst.ticket)
    BY <2>2, <2>3, SealedTicket
  <2>. HIDE DEF nst
  <2>5. IsPsk(NewCachedPsk(nst, ageAdd, 0, 0))
    BY <2>3, <2>4, FirstPsk
  <2>. DEFINE e == [identity |-> identity, psk |-> NewCachedPsk(nst, ageAdd, 0, 0)]
  <2>6. e.psk = NewCachedPsk(nst, ageAdd, 0, 0)
    OBVIOUS
  <2>. HIDE DEF e
  <2>7. cache = <<e>>
    BY <2>2 DEF e
  <2>8. cache \in Seq({e})
    BY <2>7
  <2>9. IsSeq(cache) /\ \A i \in DOMAIN cache : cache[i] = e
    <3>1. IsSeq(cache) /\ \A i \in DOMAIN cache : cache[i] \in {e}
      BY <2>8, ElementsOf, Zenon
    <3>. QED  BY <3>1, Zenon
  <2>. QED  BY <2>5, <2>6, <2>9 DEF CacheInv
<1>3. HelloInv
  <2>1. IsFiniteSet({}) /\ Cardinality({}) = 0
    BY FS_EmptySet
  <2>. QED  BY <2>1, ResumptionAssumption DEF HelloInv
<1>4. ConnInv
  BY DEF ConnInv, IsConn, Idle
<1>5. FilterInv
  <2>1. 0 \in 0 .. Buckets - 1 /\ BucketWidth \in Int
    BY ResumptionAssumption
  <2>2. filter = [bits |-> [c \in Cells |-> {}], bucket |-> 0, due |-> now + BucketWidth]
    BY DEF EmptyFilter
  <2>3. /\ filter.bits = [c \in Cells |-> {}] /\ filter.bucket = 0
        /\ filter.due = now + BucketWidth
    BY <2>2
  <2>. QED  BY <2>1, <2>2, <2>3 DEF FilterInv, IsFilter
<1>6. AnswersInv
  <2>1. \A c \in Conns : ~Answered(c)
    BY DEF Answered, Idle
  <2>. QED  BY <2>1 DEF AnswersInv
<1>7. DeliveredInv
  <2>1. delivered \in Seq({}) /\ DOMAIN delivered = {}
    OBVIOUS
  <2>. QED  BY <2>1, ElementsOf DEF DeliveredInv, EarlyDataOnce
<1>. QED  BY <1>1, <1>2, <1>3, <1>4, <1>5, <1>6, <1>7 DEF Inv, TicketInv, ReplayInv

-----------------------------------------------------------------------------
(* The client.                                                             *)

LEMMA CacheElements ==
  ASSUME CacheInv
  PROVE  /\ \E S : cache \in Seq(S) /\ \A e \in S : IsPsk(e.psk)
         /\ \A identity : Holds(identity) => IsPsk(EntryOf(identity).psk)
<1>. DEFINE S == {cache[i] : i \in DOMAIN cache}
<1>1. cache \in Seq(S) /\ \A e \in S : IsPsk(e.psk)
  BY DEF CacheInv, IsSeq
<1>. HIDE DEF S
<1>2. ASSUME NEW identity, Holds(identity)
      PROVE  IsPsk(EntryOf(identity).psk)
  <2>. DEFINE i == CHOOSE j \in DOMAIN cache : cache[j].identity = identity
  <2>1. i \in DOMAIN cache
    BY <1>2 DEF Holds
  <2>. QED  BY <2>1 DEF CacheInv, EntryOf
<1>. QED  BY <1>1, <1>2

LEMMA WithoutElements ==
  ASSUME NEW S, cache \in Seq(S), NEW identity
  PROVE  /\ Without(identity) \in Seq(S)
         /\ Holds(identity) => EntryOf(identity) \in S
<1>. DEFINE i == CHOOSE j \in DOMAIN cache : cache[j].identity = identity
<1>1. CASE Holds(identity)
  <2>1. i \in DOMAIN cache
    BY <1>1 DEF Holds
  <2>2. Without(identity) = RemoveAt(cache, i) /\ EntryOf(identity) = cache[i]
    BY <1>1 DEF Without, EntryOf
  <2>. HIDE DEF i
  <2>3. RemoveAt(cache, i) \in Seq(S)
    BY <2>1, RemovedElements
  <2>4. cache[i] \in S
    BY <2>1
  <2>. QED  BY <2>2, <2>3, <2>4
<1>2. CASE ~Holds(identity)
  BY <1>2 DEF Without
<1>. QED  BY <1>1, <1>2

(* A cache whose entries all come from a set of good ones.                 *)
LEMMA GoodCache ==
  ASSUME NEW S, NEW s \in Seq(S), \A e \in S : IsPsk(e.psk)
  PROVE  IsSeq(s) /\ \A i \in DOMAIN s : IsPsk(s[i].psk)
BY ElementsOf

LEMMA CacheKept ==
  ASSUME CacheInv, NEW identity
  PROVE  /\ IsSeq(Without(identity))
         /\ \A i \in DOMAIN Without(identity) : IsPsk(Without(identity)[i].psk)
         /\ \A time : LET s == CacheAfterGet(identity, time)
                      IN IsSeq(s) /\ \A i \in DOMAIN s : IsPsk(s[i].psk)
         /\ \A psk : IsPsk(psk) =>
              LET s == PutPsk(identity, psk)
              IN IsSeq(s) /\ \A i \in DOMAIN s : IsPsk(s[i].psk)
<1>1. PICK S : cache \in Seq(S) /\ \A e \in S : IsPsk(e.psk)
  BY CacheElements
<1>. DEFINE w == Without(identity)
<1>2. w \in Seq(S) /\ (Holds(identity) => EntryOf(identity) \in S)
  BY <1>1, WithoutElements
<1>. HIDE DEF w
<1>3. IsSeq(w) /\ \A i \in DOMAIN w : IsPsk(w[i].psk)
  BY <1>1, <1>2, GoodCache
<1>4. ASSUME NEW time
      PROVE  CacheAfterGet(identity, time) \in Seq(S)
  <2>1. CASE GetPsk(identity, time) = None
    BY <1>2, <2>1 DEF CacheAfterGet, w
  <2>2. CASE GetPsk(identity, time) # None
    <3>1. Holds(identity)
      BY <2>2 DEF GetPsk
    <3>. DEFINE e == EntryOf(identity)
    <3>2. e \in S
      BY <1>2, <3>1
    <3>3. CacheAfterGet(identity, time) = <<e>> \o w
      BY <2>2 DEF CacheAfterGet, w
    <3>. HIDE DEF e
    <3>4. <<e>> \o w \in Seq(S)
      BY <1>2, <3>2
    <3>. QED  BY <3>3, <3>4
  <2>. QED  BY <2>1, <2>2
<1>5. ASSUME NEW psk, IsPsk(psk)
      PROVE  LET s == PutPsk(identity, psk)
             IN IsSeq(s) /\ \A i \in DOMAIN s : IsPsk(s[i].psk)
  <2>. DEFINE e == [identity |-> identity, psk |-> psk]
              all == <<e>> \o w
              n == IF Len(all) < Capacity THEN Len(all) ELSE Capacity
              s == PutPsk(identity, psk)
  <2>1. e.psk = psk
    OBVIOUS
  <2>2. s = SubSeq(all, 1, n)
    BY DEF PutPsk, w
  <2>. HIDE DEF e, s
  <2>3. all \in Seq(S \cup {e}) /\ Len(all) \in Nat
    BY <1>2
  <2>. HIDE DEF all
  <2>4. n \in 0 .. Len(all)
    BY <2>3, ResumptionAssumption
  <2>. HIDE DEF n
  <2>5. SubSeq(all, 1, n) \in Seq(S \cup {e})
    BY <2>3, <2>4
  <2>6. \A x \in S \cup {e} : IsPsk(x.psk)
    BY <1>1, <1>5, <2>1
  <2>7. IsSeq(s) /\ \A i \in DOMAIN s : IsPsk(s[i].psk)
    BY <2>2, <2>5, <2>6, GoodCache
  <2>. QED  BY <2>7 DEF s
<1>6. ASSUME NEW time
      PROVE  LET s == CacheAfterGet(identity, time)
             IN IsSeq(s) /\ \A i \in DOMAIN s : IsPsk(s[i].psk)
  BY <1>1, <1>4, GoodCache
<1>. QED  BY <1>3, <1>5, <1>6 DEF w
(* Saving a PSK and loading it again keeps the ticket and how old it is.   *)
LEMMA ReloadedPsk ==
  ASSUME NEW psk, IsPsk(psk), NEW time, NEW p \in Reloaded(psk, time)
  PROVE  IsPsk(p)
<1>. DEFINE Records(expiration, handshake, server, client) ==
              [ticket : {psk.ticket}, ageAdd : {psk.ageAdd},
               issueTime : {psk.issueTime}, expirationTime : {expiration},
               handshakeTime : {handshake}, serverCert : {server},
               clientCert : {client}, maxEarlyDataSize : {psk.maxEarlyDataSize}]
<1>1. ASSUME NEW a, NEW b, NEW c, NEW d, NEW r \in Records(a, b, c, d)
      PROVE  IsPsk(r)
  <2>1. /\ r.ticket = psk.ticket /\ r.ageAdd = psk.ageAdd /\ r.issueTime = psk.issueTime
        /\ r = [ticket |-> r.ticket, ageAdd |-> r.ageAdd, issueTime |-> r.issueTime,
                expirationTime |-> r.expirationTime, handshakeTime |-> r.handshakeTime,
                serverCert |-> r.serverCert, clientCert |-> r.clientCert,
                maxEarlyDataSize |-> r.maxEarlyDataSize]
    OBVIOUS
  <2>2. {psk.ageAdd, psk.issueTime} \subseteq Int /\ IsTicket(psk.ticket)
    BY Zenon DEF IsPsk
  <2>. QED  BY <2>1, <2>2, Zenon DEF IsPsk
<1>2. psk \in Records(psk.expirationTime, psk.handshakeTime, psk.serverCert, psk.clientCert)
  BY DEF IsPsk
<1>3. ASSUME NEW a, NEW b, NEW c, NEW d, NEW r \in Records(a, b, c, d),
             NEW x, NEW y, NEW z
      PROVE  /\ [r EXCEPT !.expirationTime = x, !.serverCert = y, !.clientCert = z]
                  \in Records(x, b, y, z)
             /\ [r EXCEPT !.expirationTime = x, !.handshakeTime = y] \in Records(x, y, c, d)
  OBVIOUS
<1>. DEFINE s == SerializePsk(psk)
<1>4. s \in Records(psk.expirationTime \div Second, psk.handshakeTime,
                    WrittenCert(psk.serverCert), WrittenCert(psk.clientCert))
  <2>1. s = [psk EXCEPT !.expirationTime = psk.expirationTime \div Second,
                        !.serverCert = WrittenCert(psk.serverCert),
                        !.clientCert = WrittenCert(psk.clientCert)]
    BY Zenon DEF SerializePsk
  <2>. HIDE DEF s, Records
  <2>. QED  BY <1>2, <1>3, <2>1, Zenon
<1>. HIDE DEF s
<1>5. ASSUME NEW has \in BOOLEAN
      PROVE  IsPsk(DeserializePsk(s, has, time))
  <2>. DEFINE handshake == IF has THEN s.handshakeTime ELSE time
  <2>1. DeserializePsk(s, has, time)
          = [s EXCEPT !.expirationTime = s.expirationTime * Second,
                      !.handshakeTime = handshake]
    BY Zenon DEF DeserializePsk
  <2>. HIDE DEF handshake, Records
  <2>2. DeserializePsk(s, has, time) \in
          Records(s.expirationTime * Second, handshake,
                  WrittenCert(psk.serverCert), WrittenCert(psk.clientCert))
    <3>1. \A a, b, c, d, x, y : \A r \in Records(a, b, c, d) :
            [r EXCEPT !.expirationTime = x, !.handshakeTime = y] \in Records(x, y, c, d)
      BY <1>3
    <3>. DEFINE a == psk.expirationTime \div Second
                b == psk.handshakeTime
                c == WrittenCert(psk.serverCert)
                d == WrittenCert(psk.clientCert)
                x == s.expirationTime * Second
                u == [s EXCEPT !.expirationTime = x, !.handshakeTime = handshake]
    <3>2. s \in Records(a, b, c, d)
      BY <1>4
    <3>. HIDE DEF a, b, c, d, x
    <3>3. u \in Records(x, handshake, c, d)
      BY <3>1, <3>2
    <3>4. DeserializePsk(s, has, time) = u
      BY <2>1 DEF x
    <3>. QED  BY <3>3, <3>4 DEF x, c, d
  <2>. QED  BY <1>1, <2>2, Zenon
<1>. QED  BY <1>5, Zenon DEF Reloaded, s

LEMMA NewHello ==
  ASSUME NEW identity, NEW psk, psk # None => IsPsk(psk), NEW time \in Int,
         NEW h, h = ClientHello(identity, psk, time)
  PROVE  /\ h.random = Cardinality(hellos) + 1 /\ h.age \in Int
         /\ h.ticket # None => IsTicket(h.ticket)
<1>1. CASE psk = None
  <2>1. h = [random |-> Cardinality(hellos) + 1, identity |-> identity, ticket |-> None,
             age |-> 0, early |-> FALSE, handshakeTime |-> None]
    BY <1>1 DEF ClientHello
  <2>. QED  BY <2>1
<1>2. CASE psk # None
  <2>. DEFINE age == ObfuscatedAge(psk, time)
              early == psk.maxEarlyDataSize > 0
  <2>1. psk.issueTime \in Int /\ psk.ageAdd \in Int /\ IsTicket(psk.ticket)
    BY <1>2, Zenon DEF IsPsk
  <2>2. age \in Int
    BY <2>1, TicketsAssumption DEF ObfuscatedAge
  <2>. HIDE DEF age, early
  <2>3. h = [random |-> Cardinality(hellos) + 1, identity |-> identity,
             ticket |-> psk.ticket, age |-> age, early |-> early,
             handshakeTime |-> psk.handshakeTime]
    BY <1>2 DEF ClientHello, age, early
  <2>. QED  BY <2>1, <2>2, <2>3
<1>. QED  BY <1>1, <1>2
-----------------------------------------------------------------------------
(* Each action keeps the part of the invariant about tickets.              *)

LEMMA ConnsStay ==
  ASSUME ConnInv, UNCHANGED <<now, conns, bounds>>, hellos \subseteq hellos'
  PROVE  ConnInv'
BY DEF ConnInv, IsConn, IsAsking, IsOpen, IsTicketed

LEMMA ConnectTickets ==
  ASSUME TicketInv, NEW identity, Connect(identity), UNCHANGED bounds
  PROVE  TicketInv'
<1>1. PICK time \in ClientTimes :
        LET cached == GetPsk(identity, time)
        IN /\ Cardinality(hellos) < bounds.hellos
           /\ \E psk \in IF cached = None THEN {None} ELSE Reloaded(cached, time) :
                hellos' = hellos \union
                  {ClientHello(identity, ValidatePsk(psk, time), time)}
           /\ cache' = CacheAfterGet(identity, time)
           /\ UNCHANGED <<now, serverVars>>
  BY DEF Connect
<1>. DEFINE cached == GetPsk(identity, time)
<1>2. PICK psk \in IF cached = None THEN {None} ELSE Reloaded(cached, time) :
        hellos' = hellos \union {ClientHello(identity, ValidatePsk(psk, time), time)}
  BY <1>1
<1>3. time \in Int
  BY ResumptionAssumption DEF ClientTimes, TicketInv, ClockInv
<1>4. cached # None => IsPsk(cached)
  BY CacheElements DEF TicketInv, GetPsk
<1>5. psk # None => IsPsk(psk)
  <2>. HIDE DEF cached
  <2>. QED  BY <1>2, <1>4, ReloadedPsk
<1>. DEFINE p == ValidatePsk(psk, time)
            h == ClientHello(identity, p, time)
<1>6. p # None => IsPsk(p)
  BY <1>5 DEF ValidatePsk
<1>. HIDE DEF p
<1>7. /\ h.random = Cardinality(hellos) + 1 /\ h.age \in Int
      /\ h.ticket # None => IsTicket(h.ticket)
  BY <1>3, <1>6, NewHello
<1>8. hellos' = hellos \union {h}
  BY <1>2 DEF p
<1>. HIDE DEF h
<1>9. /\ Cardinality(hellos) < bounds.hellos /\ cache' = CacheAfterGet(identity, time)
      /\ UNCHANGED <<now, serverVars, bounds>>
  BY <1>1
<1>10. /\ IsFiniteSet(hellos) /\ Cardinality(hellos) \in Nat
       /\ bounds \in Bounds /\ bounds.hellos \in Nat
  BY FS_CardinalityType, ResumptionAssumption DEF TicketInv, HelloInv, ClockInv
<1>11. h \notin hellos
  BY <1>7, <1>10 DEF TicketInv, HelloInv
<1>12. IsFiniteSet(hellos') /\ Cardinality(hellos') = Cardinality(hellos) + 1
  BY <1>8, <1>10, <1>11, FS_AddElement
<1>13. HelloInv'
  <2>1. \A g \in hellos' :
          /\ g.random \in 1 .. Cardinality(hellos') /\ g.age \in Int
          /\ g.ticket # None => IsTicket(g.ticket)
    BY <1>7, <1>8, <1>10, <1>12 DEF TicketInv, HelloInv
  <2>2. \A f, g \in hellos' : f.random = g.random => f = g
    BY <1>7, <1>8, <1>10 DEF TicketInv, HelloInv
  <2>3. Cardinality(hellos') <= bounds'.hellos
    BY <1>9, <1>10, <1>12
  <2>. QED  BY <1>12, <2>1, <2>2, <2>3 DEF HelloInv
<1>14. CacheInv'
  <2>. DEFINE s == CacheAfterGet(identity, time)
  <2>1. IsSeq(s) /\ \A i \in DOMAIN s : IsPsk(s[i].psk)
    BY CacheKept DEF TicketInv
  <2>. HIDE DEF s
  <2>2. cache' = s
    BY <1>9 DEF s
  <2>. QED  BY <2>1, <2>2 DEF CacheInv
<1>15. ConnInv'
  BY <1>8, <1>9, ConnsStay DEF TicketInv, serverVars
<1>16. ClockInv'
  BY <1>9 DEF TicketInv, ClockInv, serverVars
<1>. QED  BY <1>13, <1>14, <1>15, <1>16 DEF TicketInv

(* A step that leaves the connections and the hellos alone.                *)
LEMMA QuietTickets ==
  ASSUME TicketInv, CacheInv', run' \in Nat,
         UNCHANGED <<now, conns, bounds, hellos>>
  PROVE  TicketInv'
<1>1. ConnInv'
  BY ConnsStay DEF TicketInv
<1>2. HelloInv'
  BY DEF TicketInv, HelloInv
<1>3. ClockInv'
  BY DEF TicketInv, ClockInv
<1>. QED  BY <1>1, <1>2, <1>3 DEF TicketInv

LEMMA RemovePskTickets ==
  ASSUME TicketInv, NEW identity, RemovePsk(identity), UNCHANGED bounds
  PROVE  TicketInv'
<1>. DEFINE s == Without(identity)
<1>1. IsSeq(s) /\ \A i \in DOMAIN s : IsPsk(s[i].psk)
  BY CacheKept DEF TicketInv
<1>. HIDE DEF s
<1>2. cache' = s
  BY DEF RemovePsk, s
<1>3. CacheInv'
  BY <1>1, <1>2 DEF CacheInv
<1>4. UNCHANGED <<now, conns, run, hellos>>
  BY DEF RemovePsk, serverVars
<1>. QED  BY <1>3, <1>4, QuietTickets DEF TicketInv, ClockInv

LEMMA TickTickets ==
  ASSUME TicketInv, Tick, UNCHANGED bounds
  PROVE  TicketInv'
<1>. USE DEF TicketInv
<1>1. now' = now + 1 /\ now' \in Nat /\ UNCHANGED <<clientVars, serverVars>>
  BY DEF Tick, ClockInv
<1>2. ClockInv'
  BY <1>1 DEF ClockInv, serverVars
<1>3. CacheInv' /\ HelloInv'
  BY <1>1 DEF CacheInv, HelloInv, clientVars
<1>4. bounds \in Bounds /\ bounds.answer \in Nat
  BY ResumptionAssumption DEF ClockInv
<1>5. ASSUME NEW c \in Conns
      PROVE  IsConn(conns[c])'
  <2>1. IsConn(conns[c]) /\ UNCHANGED <<conns, hellos>> /\ now \in Nat
    BY <1>1 DEF ConnInv, ClockInv, clientVars, serverVars
  <2>2. Answered(c) => now < conns[c].checked + bounds.answer
    BY DEF Tick
  <2>. QED
    BY <1>1, <1>4, <2>1, <2>2 DEF IsConn, IsAsking, IsOpen, IsTicketed, Answered
<1>6. ConnInv'
  BY <1>1, <1>5 DEF ConnInv, serverVars
<1>. QED  BY <1>2, <1>3, <1>6
LEMMA Updated ==
  ASSUME NEW f, f = [x \in Conns |-> f[x]], NEW c \in Conns, NEW k, NEW g,
         g = [f EXCEPT ![c] = k]
  PROVE  /\ g = [x \in Conns |-> g[x]] /\ g[c] = k
         /\ \A x \in Conns : x # c => g[x] = f[x]
OBVIOUS

(* A step that changes one connection only.                                *)
LEMMA OneConn ==
  ASSUME TicketInv, UNCHANGED <<now, run, bounds, hellos>>, CacheInv',
         NEW c \in Conns, IsConn(conns'[c]),
         conns' = [x \in Conns |-> conns'[x]],
         \A x \in Conns : x # c => conns'[x] = conns[x]
  PROVE  TicketInv'
<1>1. ClockInv' /\ HelloInv'
  BY DEF TicketInv, ClockInv, HelloInv
<1>2. ConnInv'
  <2>1. \A x \in Conns : IsConn(conns'[x])
    BY DEF TicketInv, ConnInv
  <2>2. \A x \in Conns : IsConn(conns[x])'
    BY <2>1 DEF IsConn, IsAsking, IsOpen, IsTicketed
  <2>. QED  BY <2>2 DEF ConnInv
<1>. QED  BY <1>1, <1>2 DEF TicketInv

LEMMA ReceiveTickets ==
  ASSUME TicketInv, NEW c \in Conns, ReceiveClientHello(c), UNCHANGED bounds
  PROVE  TicketInv'
<1>1. PICK h \in hellos :
        LET res == IF h.ticket = None THEN None
                   ELSE DualDecrypt(Primary, Fallback, Certificates, h.ticket, now)
        IN conns' = [conns EXCEPT ![c] =
             [stage |-> "asking", hello |-> h, res |-> res,
              lawful |-> res # None => Lawful(h.ticket, res),
              genuine |-> arrived[h.random] = 0,
              replay |-> IF h.early THEN "Pending" ELSE "NotChecked",
              checked |-> now]]
  BY DEF ReceiveClientHello
<1>. DEFINE res == IF h.ticket = None THEN None
                   ELSE DualDecrypt(Primary, Fallback, Certificates, h.ticket, now)
            lawful == res # None => Lawful(h.ticket, res)
            genuine == arrived[h.random] = 0
            replay == IF h.early THEN "Pending" ELSE "NotChecked"
            k == [stage |-> "asking", hello |-> h, res |-> res, lawful |-> lawful,
                  genuine |-> genuine, replay |-> replay, checked |-> now]
<1>2. conns' = [conns EXCEPT ![c] = k]
  BY <1>1
<1>3. now \in Nat /\ (h.ticket # None => IsTicket(h.ticket))
  BY DEF TicketInv, ClockInv, HelloInv
<1>4. res # None => Restored(h, res) /\ Lawful(h.ticket, res)
  BY <1>3, OpenedTicket
<1>5. lawful /\ replay # "NotReplay"
  BY <1>4
<1>. HIDE DEF res, lawful, genuine, replay
<1>6. /\ k.stage = "asking" /\ k.hello = h /\ k.res = res /\ k.lawful = lawful
      /\ k.genuine = genuine /\ k.replay = replay /\ k.checked = now
  OBVIOUS
<1>. DEFINE m == k
<1>7. m = [stage |-> "asking", hello |-> m.hello, res |-> m.res, lawful |-> m.lawful,
           genuine |-> m.genuine, replay |-> m.replay, checked |-> m.checked]
  BY <1>6
<1>8. IsAsking(m)
  <2>. HIDE DEF m
  <2>1. /\ m.stage = "asking" /\ m.hello = h /\ m.res = res /\ m.lawful = lawful
        /\ m.genuine = genuine /\ m.replay = replay /\ m.checked = now
    BY <1>6 DEF m
  <2>. QED  BY <1>3, <1>4, <1>5, <1>7, <2>1 DEF IsAsking
<1>9. IsConn(m)
  <2>. HIDE DEF m
  <2>. QED  BY <1>6, <1>8 DEF IsConn, m
<1>. HIDE DEF k
<1>10. /\ conns' = [x \in Conns |-> conns'[x]] /\ conns'[c] = k
       /\ \A x \in Conns : x # c => conns'[x] = conns[x]
  BY <1>2, Updated DEF TicketInv, ConnInv
<1>11. UNCHANGED <<now, run, hellos, cache>>
  BY DEF ReceiveClientHello, clientVars
<1>12. CacheInv'
  BY <1>11 DEF TicketInv, CacheInv
<1>. QED  BY <1>9, <1>10, <1>11, <1>12, OneConn

LEMMA IdleConn == IsConn(Idle)
BY DEF IsConn, Idle

(* A connection that becomes idle.                                         *)
LEMMA IdleTickets ==
  ASSUME TicketInv, NEW c \in Conns, conns' = [conns EXCEPT ![c] = Idle],
         UNCHANGED <<now, run, bounds, hellos>>, CacheInv'
  PROVE  TicketInv'
<1>1. /\ conns' = [x \in Conns |-> conns'[x]] /\ conns'[c] = Idle
      /\ \A x \in Conns : x # c => conns'[x] = conns[x]
  BY Updated DEF TicketInv, ConnInv
<1>. QED  BY <1>1, IdleConn, OneConn

LEMMA CheckReplayTickets ==
  ASSUME TicketInv, NEW c \in Conns, CheckReplay(c), UNCHANGED bounds
  PROVE  /\ TicketInv'
         /\ conns' = [x \in Conns |-> conns'[x]]
         /\ \A x \in Conns : x # c => conns'[x] = conns[x]
         /\ conns'[c].stage = "asking" /\ conns'[c].hello = conns[c].hello
         /\ conns'[c].checked = now
         /\ conns'[c].replay = IF Test(filter, conns[c].hello.random)
                               THEN "MaybeReplay" ELSE "NotReplay"
<1>. DEFINE conn == conns[c]
            replay == IF Test(filter, conn.hello.random)
                      THEN "MaybeReplay" ELSE "NotReplay"
            k == [stage |-> "asking", hello |-> conn.hello, res |-> conn.res,
                  lawful |-> conn.lawful, genuine |-> conn.genuine,
                  replay |-> replay, checked |-> now]
<1>1. conn.stage = "asking" /\ IsAsking(conn) /\ conns = [x \in Conns |-> conns[x]]
  BY DEF CheckReplay, TicketInv, ConnInv, IsConn
<1>2. conns' = [conns EXCEPT ![c] = k]
  <2>1. conns' = [conns EXCEPT ![c].replay = replay, ![c].checked = now]
    BY DEF CheckReplay
  <2>. HIDE DEF replay
  <2>2. conns' = [conns EXCEPT ![c] = [conn EXCEPT !.replay = replay, !.checked = now]]
    BY <1>1, <2>1
  <2>3. [conn EXCEPT !.replay = replay, !.checked = now] = k
    <3>. DEFINE Records(r, t) ==
                  [stage : {"asking"}, hello : {conn.hello}, res : {conn.res},
                   lawful : {conn.lawful}, genuine : {conn.genuine},
                   replay : {r}, checked : {t}]
    <3>1. conn \in Records(conn.replay, conn.checked)
      BY <1>1 DEF IsAsking
    <3>2. [conn EXCEPT !.replay = replay, !.checked = now] \in Records(replay, now)
      <4>. HIDE DEF conn
      <4>. QED  BY <3>1
    <3>3. \A u \in Records(replay, now) : u = k
      OBVIOUS
    <3>. HIDE DEF Records, k
    <3>. QED  BY <3>2, <3>3
  <2>. QED  BY <2>2, <2>3
<1>3. /\ k.stage = "asking" /\ k.hello = conn.hello /\ k.res = conn.res
      /\ k.lawful = conn.lawful /\ k.genuine = conn.genuine
      /\ k.replay = replay /\ k.checked = now
  OBVIOUS
<1>4. IsConn(k)
  <2>1. k = [stage |-> "asking", hello |-> k.hello, res |-> k.res, lawful |-> k.lawful,
             genuine |-> k.genuine, replay |-> k.replay, checked |-> k.checked]
    BY <1>3
  <2>2. now \in Nat /\ now <= now + bounds.answer
    BY ResumptionAssumption DEF TicketInv, ClockInv
  <2>3. /\ conn.hello \in hellos /\ conn.lawful
        /\ conn.res # None => Restored(conn.hello, conn.res)
    BY <1>1, Zenon DEF IsAsking
  <2>. HIDE DEF k, replay, conn
  <2>4. IsAsking(k)
    BY <1>3, <2>1, <2>2, <2>3 DEF IsAsking
  <2>. QED  BY <1>3, <2>4 DEF IsConn
<1>. HIDE DEF k
<1>5. /\ conns' = [x \in Conns |-> conns'[x]] /\ conns'[c] = k
      /\ \A x \in Conns : x # c => conns'[x] = conns[x]
  BY <1>1, <1>2, Updated
<1>6. UNCHANGED <<now, run, hellos, cache>>
  BY DEF CheckReplay, clientVars
<1>7. CacheInv'
  BY <1>6 DEF TicketInv, CacheInv
<1>8. TicketInv'
  BY <1>4, <1>5, <1>6, <1>7, OneConn
<1>. QED  BY <1>3, <1>5, <1>8
LEMMA DecideTickets ==
  ASSUME TicketInv, NEW c \in Conns, DecideClientHello(c), UNCHANGED bounds
  PROVE  TicketInv'
<1>. DEFINE conn == conns[c]
            handshakeTime == IF conn.res = None THEN now ELSE conn.res.handshakeTime
            origin == IF conn.res = None THEN now ELSE conn.res.origin
            clientTime == IF conn.res = None THEN now ELSE conn.hello.handshakeTime
            open == [stage |-> "open", hello |-> conn.hello,
                     handshakeTime |-> handshakeTime, origin |-> origin,
                     clientTime |-> clientTime]
            k == IF ~conn.genuine THEN Idle ELSE open
<1>1. /\ conn.stage = "asking" /\ conns' = [conns EXCEPT ![c] = k]
      /\ UNCHANGED <<now, run, hellos, cache>>
  BY DEF DecideClientHello, clientVars
<1>2. IsAsking(conn) /\ now \in Nat
  BY <1>1 DEF TicketInv, ConnInv, IsConn, ClockInv
<1>3. {handshakeTime, origin} \subseteq Int /\ handshakeTime <= origin
  BY <1>2 DEF IsAsking, Restored
<1>. HIDE DEF handshakeTime, origin, clientTime
<1>4. /\ open.stage = "open" /\ open.handshakeTime = handshakeTime
      /\ open.origin = origin
  OBVIOUS
<1>. HIDE DEF open
<1>5. IsConn(open)
  BY <1>3, <1>4 DEF IsConn, IsOpen
<1>6. IsConn(k)
  BY <1>5, IdleConn
<1>. HIDE DEF k
<1>7. /\ conns' = [x \in Conns |-> conns'[x]] /\ conns'[c] = k
      /\ \A x \in Conns : x # c => conns'[x] = conns[x]
  BY <1>1, Updated DEF TicketInv, ConnInv
<1>8. CacheInv'
  BY <1>1 DEF TicketInv, CacheInv
<1>. QED  BY <1>1, <1>6, <1>7, <1>8, OneConn

LEMMA GenerateTickets ==
  ASSUME TicketInv, NEW c \in Conns, GenerateTicket(c), UNCHANGED bounds
  PROVE  TicketInv'
<1>. DEFINE conn == conns[c]
            nst(a) == TicketEncrypt(Primary,
                        ResumptionState(a, conn.handshakeTime, conn.origin), now)
            ticketed(a) == [stage |-> "ticketed", hello |-> conn.hello, ageAdd |-> a,
                            nst |-> nst(a), clientTime |-> conn.clientTime]
<1>1. PICK a \in AgeAdds :
        /\ conn.stage = "open"
        /\ conns' = [conns EXCEPT ![c] = IF nst(a) = None THEN Idle ELSE ticketed(a)]
        /\ UNCHANGED <<now, run, hellos, cache>>
  BY DEF GenerateTicket, clientVars
<1>2. IsOpen(conn) /\ now \in Nat /\ a \in Int
  BY <1>1, ResumptionAssumption DEF TicketInv, ConnInv, IsConn, ClockInv
<1>. DEFINE n == nst(a)
            t == ticketed(a)
            k == IF n = None THEN Idle ELSE t
<1>3. n # None => IsTicket(n.ticket)
  BY <1>2, SealedTicket DEF IsOpen
<1>4. conns' = [conns EXCEPT ![c] = k]
  BY <1>1
<1>. HIDE DEF n
<1>5. t.stage = "ticketed" /\ t.ageAdd = a /\ t.nst = n
  BY DEF n
<1>. HIDE DEF t
<1>6. IsConn(k)
  BY <1>2, <1>3, <1>5, IdleConn DEF IsConn, IsTicketed
<1>. HIDE DEF k
<1>7. /\ conns' = [x \in Conns |-> conns'[x]] /\ conns'[c] = k
      /\ \A x \in Conns : x # c => conns'[x] = conns[x]
  BY <1>4, Updated DEF TicketInv, ConnInv
<1>8. CacheInv'
  BY <1>1 DEF TicketInv, CacheInv
<1>. QED  BY <1>1, <1>6, <1>7, <1>8, OneConn

LEMMA NewTicketTickets ==
  ASSUME TicketInv, NEW c \in Conns, HandleNewSessionTicket(c), UNCHANGED bounds
  PROVE  TicketInv'
<1>. DEFINE conn == conns[c]
            psk == NewCachedPsk(conn.nst, conn.ageAdd, conn.clientTime, now)
            s == PutPsk(conn.hello.identity, psk)
<1>1. /\ conn.stage = "ticketed" /\ cache' = s
      /\ conns' = [conns EXCEPT ![c] = Idle]
      /\ UNCHANGED <<now, run, hellos>>
  BY DEF HandleNewSessionTicket
<1>2. IsTicketed(conn) /\ now \in Int
  BY <1>1 DEF TicketInv, ConnInv, IsConn, ClockInv
<1>3. IsPsk(psk)
  BY <1>2, FirstPsk DEF IsTicketed
<1>. HIDE DEF psk
<1>4. IsSeq(s) /\ \A i \in DOMAIN s : IsPsk(s[i].psk)
  BY <1>3, CacheKept DEF TicketInv
<1>. HIDE DEF s
<1>5. CacheInv'
  BY <1>1, <1>4 DEF CacheInv
<1>. QED  BY <1>1, <1>5, IdleTickets

LEMMA NextTickets == TicketInv /\ [Next]_vars => TicketInv'
<1>. SUFFICES ASSUME TicketInv, [Next]_vars PROVE TicketInv'
  OBVIOUS
<1>1. CASE UNCHANGED vars
  <2>1. UNCHANGED <<now, conns, bounds, hellos, cache, run>>
    BY <1>1 DEF vars
  <2>2. CacheInv'
    BY <2>1 DEF TicketInv, CacheInv
  <2>. QED  BY <2>1, <2>2, QuietTickets DEF TicketInv, ClockInv
<1>2. CASE Next
  <2>. UNCHANGED bounds
    BY <1>2 DEF Next
  <2>1. CASE Tick
    BY <2>1, TickTickets
  <2>2. ASSUME NEW identity \in Identities, Connect(identity)
        PROVE  TicketInv'
    BY <2>2, ConnectTickets
  <2>3. ASSUME NEW identity \in Identities, RemovePsk(identity)
        PROVE  TicketInv'
    BY <2>3, RemovePskTickets
  <2>4. CASE SetTicketSecrets \/ FilterTimeoutExpired
    <3>1. UNCHANGED <<now, conns, hellos, cache, run>>
      BY <2>4 DEF SetTicketSecrets, FilterTimeoutExpired, clientVars
    <3>2. CacheInv'
      BY <3>1 DEF TicketInv, CacheInv
    <3>. QED  BY <3>1, <3>2, QuietTickets DEF TicketInv, ClockInv
  <2>5. CASE ServerRestart
    <3>1. /\ UNCHANGED <<now, hellos, cache>> /\ run' = run + 1
          /\ conns' = [c \in Conns |-> Idle]
      BY <2>5 DEF ServerRestart, clientVars
    <3>2. CacheInv' /\ HelloInv' /\ ClockInv'
      BY <3>1 DEF TicketInv, CacheInv, HelloInv, ClockInv
    <3>3. ConnInv'
      BY <3>1 DEF ConnInv, IsConn, Idle
    <3>. QED  BY <3>2, <3>3 DEF TicketInv
  <2>6. ASSUME NEW c \in Conns, ReceiveClientHello(c)
        PROVE  TicketInv'
    BY <2>6, ReceiveTickets
  <2>7. ASSUME NEW c \in Conns, CheckReplay(c)
        PROVE  TicketInv'
    BY <2>7, CheckReplayTickets
  <2>8. ASSUME NEW c \in Conns, DecideClientHello(c)
        PROVE  TicketInv'
    BY <2>8, DecideTickets
  <2>9. ASSUME NEW c \in Conns, GenerateTicket(c)
        PROVE  TicketInv'
    BY <2>9, GenerateTickets
  <2>10. ASSUME NEW c \in Conns, HandleNewSessionTicket(c)
         PROVE  TicketInv'
    BY <2>10, NewTicketTickets
  <2>11. ASSUME NEW c \in Conns, Disconnect(c)
         PROVE  TicketInv'
    <3>1. /\ UNCHANGED <<now, hellos, cache, run>>
          /\ conns' = [conns EXCEPT ![c] = Idle]
      BY <2>11 DEF Disconnect, clientVars
    <3>2. CacheInv'
      BY <3>1 DEF TicketInv, CacheInv
    <3>. QED  BY <3>1, <3>2, IdleTickets
  <2>. QED
    BY <1>2, <2>1, <2>2, <2>3, <2>4, <2>5, <2>6, <2>7, <2>8, <2>9, <2>10, <2>11 DEF Next
<1>. QED  BY <1>1, <1>2

(* What tickets, hellos and connections hold, in every behaviour.          *)
THEOREM TicketsHold == Spec => []TicketInv
<1>1. Init => TicketInv
  BY InitInv DEF Inv
<1>. QED  BY <1>1, NextTickets, PTL DEF Spec

(* A ticket resumes a session only within the policy of the full handshake *)
(* behind it, counted from when that handshake really took place, and only *)
(* under a secret the server still has: however often the ticket was       *)
(* renewed, and whatever the truncation of the times in it does.           *)
THEOREM ServerRespectsPolicy == Spec => []TicketsRespectPolicy
<1>1. TicketInv => TicketsRespectPolicy
  BY DEF TicketInv, ConnInv, IsConn, IsAsking, TicketsRespectPolicy
<1>. QED  BY <1>1, TicketsHold, PTL

-----------------------------------------------------------------------------
(* What the filter remembers.                                              *)

LEMMA FilterNumbers ==
  /\ Buckets \in Nat /\ Buckets >= 2 /\ BucketWidth \in Nat /\ BucketWidth >= 1
  /\ Window \in Nat
BY ResumptionAssumption DEF Window

(* Asking the filter adds to what it remembers, and makes it remember.     *)
LEMMA SetRemembers ==
  ASSUME NEW f, IsFilter(f), NEW random, NEW g, g = Set(f, random)
  PROVE  /\ IsFilter(g) /\ g.bucket = f.bucket /\ g.due = f.due
         /\ \A c \in Cells : f.bits[c] \subseteq g.bits[c]
         /\ \A c \in Cells : c \in CellsOf[random] => f.bucket \in g.bits[c]
<1>. DEFINE bits == [c \in Cells |-> IF c \in CellsOf[random]
                                     THEN f.bits[c] \union {f.bucket} ELSE f.bits[c]]
<1>1. g = [f EXCEPT !.bits = bits]
  BY Zenon DEF Set
<1>2. f = [bits |-> f.bits, bucket |-> f.bucket, due |-> f.due]
  BY DEF IsFilter
<1>3. bits = [c \in Cells |-> bits[c]]
  OBVIOUS
<1>4. \A c \in Cells : /\ f.bits[c] \subseteq bits[c]
                       /\ c \in CellsOf[random] => f.bucket \in bits[c]
  OBVIOUS
<1>. HIDE DEF bits
<1>5. g = [bits |-> bits, bucket |-> f.bucket, due |-> f.due]
  BY <1>1, <1>2
<1>6. g.bits = bits /\ g.bucket = f.bucket /\ g.due = f.due
  BY <1>5
<1>. HIDE <1>1, <1>2, <1>5
<1>7. g = [bits |-> g.bits, bucket |-> g.bucket, due |-> g.due]
  BY <1>5, <1>6
<1>8. IsFilter(g)
  BY <1>3, <1>6, <1>7 DEF IsFilter
<1>. QED  BY <1>4, <1>6, <1>8

Cleared(f, due) == [Clear(f) EXCEPT !.due = due]

LEMMA ClearFields ==
  ASSUME NEW f, IsFilter(f), NEW due \in Int, NEW g, g = Cleared(f, due)
  PROVE  /\ IsFilter(g) /\ g.due = due
         /\ f.bucket + 1 < Buckets => g.bucket = f.bucket + 1
         /\ ~(f.bucket + 1 < Buckets) => g.bucket = 0
         /\ \A c \in Cells : \A b \in f.bits[c] : b # g.bucket => b \in g.bits[c]
<1>. DEFINE next == (f.bucket + 1) % Buckets
            bits == [c \in Cells |-> f.bits[c] \ {next}]
<1>1. Clear(f) = [f EXCEPT !.bits = bits, !.bucket = next]
  BY Zenon DEF Clear
<1>2. f = [bits |-> f.bits, bucket |-> f.bucket, due |-> f.due]
  BY DEF IsFilter
<1>3. bits = [c \in Cells |-> bits[c]] /\ \A c \in Cells : bits[c] = f.bits[c] \ {next}
  OBVIOUS
<1>4. next = IF f.bucket + 1 < Buckets THEN f.bucket + 1 ELSE 0
  BY NextBucket DEF IsFilter
<1>5. next \in 0 .. Buckets - 1
  BY <1>4, FilterNumbers DEF IsFilter
<1>. HIDE DEF bits, next
<1>6. Clear(f) = [bits |-> bits, bucket |-> next, due |-> f.due]
  BY <1>1, <1>2
<1>7. g = [bits |-> bits, bucket |-> next, due |-> due]
  BY <1>6 DEF Cleared
<1>8. g.bits = bits /\ g.bucket = next /\ g.due = due
  BY <1>7
<1>9. g = [bits |-> g.bits, bucket |-> g.bucket, due |-> g.due]
  BY <1>7, <1>8
<1>. HIDE <1>1, <1>2, <1>6, <1>7
<1>10. IsFilter(g)
  BY <1>3, <1>5, <1>8, <1>9 DEF IsFilter
<1>. QED  BY <1>3, <1>4, <1>8, <1>10

(* Time passes, and what was asked is not forgotten.                       *)
LEMMA StillRemembers ==
  ASSUME NEW f, NEW g, g.bucket = f.bucket, g.due = f.due,
         NEW random, \A c \in CellsOf[random] : f.bits[c] \subseteq g.bits[c],
         NEW time \in Nat, NEW later \in Nat, time <= later, NEW t \in Nat,
         Remembers(f, time, random, t)
  PROVE  Remembers(g, later, random, t)
<1>1. CASE time >= t + Window
  BY <1>1, FilterNumbers DEF Remembers
<1>2. CASE ~(time >= t + Window)
  <2>1. PICK k \in 0 .. Buckets - 1, b \in 0 .. Buckets - 1 :
          /\ f.bucket = IF b + k < Buckets THEN b + k ELSE b + k - Buckets
          /\ k >= 1 => f.due >= t + k * BucketWidth
          /\ \A c \in CellsOf[random] : b \in f.bits[c]
    BY <1>2 DEF Remembers
  <2>2. \A c \in CellsOf[random] : b \in g.bits[c]
    BY <2>1
  <2>. QED  BY <2>1, <2>2 DEF Remembers
<1>. QED  BY <1>1, <1>2

(* A clear forgets only what was asked a window ago.                       *)
LEMMA ClearRemembers ==
  ASSUME NEW f, IsFilter(f), NEW time \in Nat, time >= f.due,
         NEW g, g = Cleared(f, time + BucketWidth),
         NEW random, CellsOf[random] \subseteq Cells, NEW t \in Nat, t <= time,
         Remembers(f, time, random, t)
  PROVE  Remembers(g, time, random, t)
<1>1. CASE time >= t + Window
  BY <1>1 DEF Remembers
<1>2. CASE ~(time >= t + Window)
  <2>1. PICK k \in 0 .. Buckets - 1, b \in 0 .. Buckets - 1 :
          /\ f.bucket = IF b + k < Buckets THEN b + k ELSE b + k - Buckets
          /\ k >= 1 => f.due >= t + k * BucketWidth
          /\ \A c \in CellsOf[random] : b \in f.bits[c]
    BY <1>2 DEF Remembers
  <2>2. time + BucketWidth \in Int /\ f.due \in Int /\ f.bucket \in 0 .. Buckets - 1
    BY FilterNumbers DEF IsFilter
  <2>3. /\ g.due = time + BucketWidth
        /\ f.bucket + 1 < Buckets => g.bucket = f.bucket + 1
        /\ ~(f.bucket + 1 < Buckets) => g.bucket = 0
        /\ \A c \in Cells : \A x \in f.bits[c] : x # g.bucket => x \in g.bits[c]
    BY <2>2, ClearFields
  <2>4. k # Buckets - 1
    <3>. SUFFICES ASSUME k = Buckets - 1 PROVE FALSE
      OBVIOUS
    <3>1. time >= t + k * BucketWidth
      <4>1. k * BucketWidth \in Int
        BY FilterNumbers
      <4>. QED  BY <2>1, <2>2, <4>1, FilterNumbers
    <3>. QED  BY <1>2, <3>1 DEF Window
  <2>5. /\ k + 1 \in 0 .. Buckets - 1
        /\ g.bucket = IF b + (k + 1) < Buckets THEN b + (k + 1) ELSE b + (k + 1) - Buckets
        /\ g.bucket # b
    BY <2>1, <2>2, <2>3, <2>4, FilterNumbers
  <2>6. g.due >= t + (k + 1) * BucketWidth
    <3>1. k * BucketWidth \in Nat /\ (k + 1) * BucketWidth = k * BucketWidth + BucketWidth
      BY FilterNumbers
    <3>2. time >= t + k * BucketWidth
      <4>1. CASE k = 0
        BY <4>1, FilterNumbers
      <4>2. CASE k # 0
        BY <2>1, <2>2, <3>1, <4>2
      <4>. QED  BY <4>1, <4>2
    <3>. QED  BY <2>3, <3>1, <3>2, FilterNumbers
  <2>7. \A c \in CellsOf[random] : b \in g.bits[c]
    BY <2>1, <2>3, <2>5
  <2>. QED  BY <2>5, <2>6, <2>7 DEF Remembers
<1>. QED  BY <1>1, <1>2

(* A random that the filter takes for a new one was not asked about within *)
(* the window.                                                             *)
LEMMA NewMeansLongAgo ==
  ASSUME NEW f, NEW random, ~Test(f, random), NEW time, NEW t,
         Remembers(f, time, random, t)
  PROVE  time >= t + Window
BY DEF Remembers, Test

-----------------------------------------------------------------------------
(* Each action keeps the part of the invariant about early data.           *)

LEMMA RandomsOf ==
  ASSUME TicketInv, NEW h \in hellos
  PROVE  CellsOf[h.random] \subseteq Cells
<1>1. Cardinality(hellos) \in Nat /\ bounds \in Bounds /\ bounds.hellos \in Nat
  BY FS_CardinalityType, ResumptionAssumption DEF TicketInv, HelloInv, ClockInv
<1>2. h.random \in 1 .. bounds.hellos
  BY <1>1 DEF TicketInv, HelloInv
<1>. QED  BY <1>1, <1>2, ResumptionAssumption

LEMMA AnsweredConn ==
  ASSUME TicketInv, NEW c \in Conns, Answered(c)
  PROVE  /\ conns[c].hello \in hellos /\ conns[c].checked \in Nat
         /\ conns[c].checked <= now /\ now <= conns[c].checked + bounds.answer
BY DEF TicketInv, ConnInv, IsConn, IsAsking, Answered

(* A step after which no answer is new, in which the filter forgets        *)
(* nothing that it is sure to remember.                                    *)
LEMMA QuietReplay ==
  ASSUME Inv, now \in Nat, now' \in Nat, now <= now', FilterInv',
         hellos \subseteq hellos', UNCHANGED <<bounds, run, delivered>>,
         \A h \in hellos, t \in 0 .. now :
           Remembers(filter, now, h.random, t) => Remembers(filter', now', h.random, t),
         \A c \in Conns : Answered(c)' =>
           /\ Answered(c) /\ conns'[c].hello = conns[c].hello
           /\ conns'[c].checked = conns[c].checked
  PROVE  ReplayInv'
<1>. USE DEF Inv, ReplayInv
<1>1. AnswersInv'
  <2>1. ASSUME NEW c \in Conns, Answered(c)'
        PROVE  Remembers(filter', now', conns'[c].hello.random, conns'[c].checked)
    <3>1. /\ Answered(c) /\ conns'[c].hello = conns[c].hello
          /\ conns'[c].checked = conns[c].checked
      BY <2>1
    <3>2. conns[c].hello \in hellos /\ conns[c].checked \in 0 .. now
      BY <3>1, AnsweredConn
    <3>3. Remembers(filter, now, conns[c].hello.random, conns[c].checked)
      BY <3>1 DEF AnswersInv
    <3>. QED  BY <3>1, <3>2, <3>3
  <2>2. ASSUME NEW c \in Conns, NEW d \in Conns, Answered(c)', Answered(d)', c # d,
               conns'[c].hello.random = conns'[d].hello.random
        PROVE  Apart(conns'[c].checked, conns'[d].checked)
    BY <2>2 DEF AnswersInv
  <2>. QED  BY <2>1, <2>2 DEF AnswersInv
<1>2. DeliveredInv'
  <2>1. ASSUME NEW i \in DOMAIN delivered, delivered[i][2] = run
        PROVE  \E h \in hellos' : \E d, t \in 0 .. now' :
                 h.random = delivered[i][1] /\ DeliveredAt(h, d, t)'
    <3>1. PICK h \in hellos, d \in 0 .. now, t \in 0 .. now :
            h.random = delivered[i][1] /\ DeliveredAt(h, d, t)
      BY <2>1 DEF DeliveredInv
    <3>2. d \in 0 .. now' /\ t \in 0 .. now' /\ h \in hellos'
      OBVIOUS
    <3>3. Remembers(filter', now', h.random, t)
      BY <3>1 DEF DeliveredAt
    <3>4. ASSUME NEW c \in Conns, Answered(c)', conns'[c].hello.random = h.random
          PROVE  Apart(t, conns'[c].checked)
      BY <3>1, <3>4 DEF DeliveredAt
    <3>5. DeliveredAt(h, d, t)'
      BY <3>1, <3>3, <3>4 DEF DeliveredAt
    <3>. QED  BY <3>1, <3>2, <3>5
  <2>. QED  BY <2>1 DEF DeliveredInv, EarlyDataOnce
<1>. QED  BY <1>1, <1>2

(* A step that leaves the filter, time and the record of what was          *)
(* delivered alone, after which no answer is new.                          *)
LEMMA UntouchedReplay ==
  ASSUME Inv, UNCHANGED <<now, filter, bounds, run, delivered>>,
         hellos \subseteq hellos',
         \A c \in Conns : Answered(c)' =>
           /\ Answered(c) /\ conns'[c].hello = conns[c].hello
           /\ conns'[c].checked = conns[c].checked
  PROVE  ReplayInv'
<1>1. now \in Nat /\ now' \in Nat /\ now <= now'
  BY DEF Inv, TicketInv, ClockInv
<1>2. FilterInv'
  BY DEF Inv, ReplayInv, FilterInv
<1>. QED  BY <1>1, <1>2, QuietReplay
LEMMA TickReplay ==
  ASSUME Inv, Tick, UNCHANGED bounds
  PROVE  ReplayInv'
<1>1. /\ now \in Nat /\ now' = now + 1
      /\ UNCHANGED <<filter, conns, hellos, run, delivered>>
  BY DEF Tick, Inv, TicketInv, ClockInv, clientVars, serverVars
<1>2. now' \in Nat /\ now <= now'
  BY <1>1
<1>3. FilterInv'
  BY <1>1 DEF Inv, ReplayInv, FilterInv
<1>4. ASSUME NEW h \in hellos, NEW t \in 0 .. now, Remembers(filter, now, h.random, t)
      PROVE  Remembers(filter', now', h.random, t)
  <2>1. t \in Nat /\ \A c \in CellsOf[h.random] : filter.bits[c] \subseteq filter.bits[c]
    BY <1>1
  <2>2. Remembers(filter, now', h.random, t)
    BY <1>1, <1>2, <1>4, <2>1, StillRemembers
  <2>. QED  BY <1>1, <2>2
<1>5. \A c \in Conns : Answered(c)' =>
        /\ Answered(c) /\ conns'[c].hello = conns[c].hello
        /\ conns'[c].checked = conns[c].checked
  BY <1>1 DEF Answered
<1>. QED  BY <1>1, <1>2, <1>3, <1>4, <1>5, QuietReplay

LEMMA TimeoutReplay ==
  ASSUME Inv, FilterTimeoutExpired, UNCHANGED bounds
  PROVE  ReplayInv'
<1>1. /\ now \in Nat /\ now >= filter.due /\ filter' = Cleared(filter, now + BucketWidth)
      /\ UNCHANGED <<now, conns, hellos, run, delivered>> /\ IsFilter(filter)
  BY DEF FilterTimeoutExpired, Cleared, Inv, TicketInv, ReplayInv, FilterInv, ClockInv,
         clientVars
<1>2. now + BucketWidth \in Int
  BY <1>1, FilterNumbers
<1>3. FilterInv'
  BY <1>1, <1>2, ClearFields DEF FilterInv
<1>4. ASSUME NEW h \in hellos, NEW t \in 0 .. now, Remembers(filter, now, h.random, t)
      PROVE  Remembers(filter', now', h.random, t)
  <2>1. CellsOf[h.random] \subseteq Cells /\ t \in Nat /\ t <= now
    BY <1>1, RandomsOf DEF Inv
  <2>2. Remembers(filter', now, h.random, t)
    BY <1>1, <1>4, <2>1, ClearRemembers
  <2>. QED  BY <1>1, <2>2
<1>5. \A c \in Conns : Answered(c)' =>
        /\ Answered(c) /\ conns'[c].hello = conns[c].hello
        /\ conns'[c].checked = conns[c].checked
  BY <1>1 DEF Answered
<1>. QED  BY <1>1, <1>3, <1>4, <1>5, QuietReplay

(* A new process remembers nothing, and nothing is delivered by it yet.    *)
LEMMA RestartReplay ==
  ASSUME Inv, ServerRestart, UNCHANGED bounds
  PROVE  ReplayInv'
<1>1. /\ now \in Nat /\ run \in Nat /\ run' = run + 1
      /\ filter' = EmptyFilter /\ conns' = [c \in Conns |-> Idle]
      /\ UNCHANGED <<now, hellos, delivered>>
  BY DEF ServerRestart, Inv, TicketInv, ClockInv, clientVars
<1>2. FilterInv'
  <2>. DEFINE f == EmptyFilter
  <2>1. f = [bits |-> [c \in Cells |-> {}], bucket |-> 0, due |-> now + BucketWidth]
    BY DEF EmptyFilter
  <2>. HIDE DEF f
  <2>2. f.bits = [c \in Cells |-> {}] /\ f.bucket = 0 /\ f.due = now + BucketWidth
    BY <2>1
  <2>3. 0 \in 0 .. Buckets - 1 /\ now + BucketWidth \in Int
    BY <1>1, FilterNumbers
  <2>4. IsFilter(f)
    BY <2>1, <2>2, <2>3 DEF IsFilter
  <2>. QED  BY <1>1, <2>4 DEF FilterInv, f
<1>3. AnswersInv'
  <2>1. \A c \in Conns : ~Answered(c)'
    BY <1>1 DEF Answered, Idle
  <2>. QED  BY <2>1 DEF AnswersInv
<1>4. DeliveredInv'
  <2>1. \A i \in DOMAIN delivered' :
          /\ delivered'[i] = <<delivered'[i][1], delivered'[i][2]>>
          /\ delivered'[i][2] \in Nat /\ delivered'[i][2] <= run'
          /\ delivered'[i][2] # run'
    BY <1>1 DEF Inv, ReplayInv, DeliveredInv
  <2>. QED  BY <1>1, <2>1 DEF Inv, ReplayInv, DeliveredInv, EarlyDataOnce
<1>. QED  BY <1>2, <1>3, <1>4 DEF ReplayInv

(* The filter is asked: what it says is new is a window away from every    *)
(* earlier answer and delivery of the same random.                         *)
LEMMA CheckReplayReplay ==
  ASSUME Inv, NEW c \in Conns, CheckReplay(c), UNCHANGED bounds
  PROVE  ReplayInv'
<1>. DEFINE random == conns[c].hello.random
<1>1. /\ TicketInv'
      /\ \A x \in Conns : x # c => conns'[x] = conns[x]
      /\ conns'[c].stage = "asking" /\ conns'[c].hello = conns[c].hello
      /\ conns'[c].checked = now
      /\ conns'[c].replay = IF Test(filter, random) THEN "MaybeReplay" ELSE "NotReplay"
  BY CheckReplayTickets DEF Inv
<1>2. /\ filter' = Set(filter, random) /\ conns[c].stage = "asking"
      /\ conns[c].replay = "Pending"
      /\ UNCHANGED <<now, hellos, delivered, run>>
  BY DEF CheckReplay, clientVars
<1>3. IsFilter(filter) /\ now \in Nat /\ conns[c].hello \in hellos
  BY <1>2 DEF Inv, TicketInv, ClockInv, ReplayInv, FilterInv, ConnInv, IsConn, IsAsking
<1>4. /\ IsFilter(filter') /\ filter'.bucket = filter.bucket /\ filter'.due = filter.due
      /\ \A x \in Cells : filter.bits[x] \subseteq filter'.bits[x]
      /\ \A x \in Cells : x \in CellsOf[random] => filter.bucket \in filter'.bits[x]
  BY <1>2, <1>3, SetRemembers
<1>5. ASSUME NEW h \in hellos, NEW t \in 0 .. now, Remembers(filter, now, h.random, t)
      PROVE  Remembers(filter', now', h.random, t)
  <2>1. CellsOf[h.random] \subseteq Cells
    BY RandomsOf DEF Inv
  <2>2. Remembers(filter', now, h.random, t)
    BY <1>3, <1>4, <1>5, <2>1, StillRemembers, SMTT(60)
  <2>. QED  BY <1>2, <2>2
<1>6. Remembers(filter', now', random, now)
  <2>1. CellsOf[random] \subseteq Cells
    BY <1>3, RandomsOf DEF Inv
  <2>2. 0 \in 0 .. Buckets - 1 /\ filter.bucket \in 0 .. Buckets - 1
    BY <1>3, FilterNumbers DEF IsFilter
  <2>3. filter'.bucket = IF filter.bucket + 0 < Buckets THEN filter.bucket + 0
                         ELSE filter.bucket + 0 - Buckets
    BY <1>4, <2>2, FilterNumbers
  <2>4. \A x \in CellsOf[random] : filter.bucket \in filter'.bits[x]
    BY <1>4, <2>1
  <2>. QED  BY <2>2, <2>3, <2>4 DEF Remembers
<1>7. ASSUME NEW t, Remembers(filter, now, random, t), Answered(c)'
      PROVE  now >= t + Window
  <2>1. ~Test(filter, random)
    BY <1>1, <1>7 DEF Answered
  <2>. QED  BY <1>7, <2>1, NewMeansLongAgo
<1>8. \A x \in Conns : x # c /\ Answered(x)' =>
        /\ Answered(x) /\ conns'[x].hello = conns[x].hello
        /\ conns'[x].checked = conns[x].checked
  BY <1>1 DEF Answered
<1>. HIDE DEF random
<1>9. AnswersInv'
  <2>1. ASSUME NEW x \in Conns, Answered(x)'
        PROVE  Remembers(filter', now', conns'[x].hello.random, conns'[x].checked)
    <3>1. CASE x = c
      BY <1>1, <1>6, <3>1 DEF random
    <3>2. CASE x # c
      <4>1. /\ Answered(x) /\ conns'[x].hello = conns[x].hello
            /\ conns'[x].checked = conns[x].checked
        BY <1>8, <2>1, <3>2
      <4>2. conns[x].hello \in hellos /\ conns[x].checked \in 0 .. now
        BY <1>3, <4>1, AnsweredConn DEF Inv
      <4>3. Remembers(filter, now, conns[x].hello.random, conns[x].checked)
        BY <4>1 DEF Inv, ReplayInv, AnswersInv
      <4>. QED  BY <1>5, <4>1, <4>2, <4>3
    <3>. QED  BY <3>1, <3>2
  <2>2. ASSUME NEW x \in Conns, Answered(x)', Answered(c)', x # c,
               conns'[x].hello.random = conns'[c].hello.random
        PROVE  conns'[c].checked >= conns'[x].checked + Window
    <3>1. /\ Answered(x) /\ conns'[x].hello = conns[x].hello
          /\ conns'[x].checked = conns[x].checked
      BY <1>8, <2>2
    <3>2. Remembers(filter, now, random, conns[x].checked)
      BY <1>1, <2>2, <3>1 DEF Inv, ReplayInv, AnswersInv, random
    <3>. QED  BY <1>1, <1>7, <2>2, <3>1, <3>2
  <2>3. ASSUME NEW x \in Conns, NEW y \in Conns, Answered(x)', Answered(y)', x # y,
               conns'[x].hello.random = conns'[y].hello.random
        PROVE  Apart(conns'[x].checked, conns'[y].checked)
    <3>1. CASE x # c /\ y # c
      BY <1>8, <2>3, <3>1 DEF Inv, ReplayInv, AnswersInv
    <3>2. CASE x = c \/ y = c
      BY <2>2, <2>3, <3>2 DEF Apart
    <3>. QED  BY <3>1, <3>2
  <2>. QED  BY <2>1, <2>3 DEF AnswersInv
<1>10. DeliveredInv'
  <2>1. ASSUME NEW i \in DOMAIN delivered, delivered[i][2] = run
        PROVE  \E h \in hellos' : \E d, t \in 0 .. now' :
                 h.random = delivered[i][1] /\ DeliveredAt(h, d, t)'
    <3>1. PICK h \in hellos, d \in 0 .. now, t \in 0 .. now :
            h.random = delivered[i][1] /\ DeliveredAt(h, d, t)
      BY <2>1 DEF Inv, ReplayInv, DeliveredInv
    <3>2. Remembers(filter, now, h.random, t)
      BY <3>1 DEF DeliveredAt
    <3>3. ASSUME NEW x \in Conns, Answered(x)', conns'[x].hello.random = h.random
          PROVE  Apart(t, conns'[x].checked)
      <4>1. CASE x = c
        <5>1. h.random = random
          BY <1>1, <3>3, <4>1 DEF random
        <5>. QED  BY <1>1, <1>7, <3>2, <3>3, <4>1, <5>1 DEF Apart
      <4>2. CASE x # c
        BY <1>8, <3>1, <3>3, <4>2 DEF DeliveredAt
      <4>. QED  BY <4>1, <4>2
    <3>4. DeliveredAt(h, d, t)'
      BY <1>2, <1>5, <3>1, <3>2, <3>3 DEF DeliveredAt
    <3>. QED  BY <1>2, <3>1, <3>4
  <2>. QED  BY <1>2, <2>1 DEF Inv, ReplayInv, DeliveredInv, EarlyDataOnce
<1>. QED  BY <1>4, <1>9, <1>10 DEF ReplayInv, FilterInv
(* Early data is delivered.  No answer a window away from this one can     *)
(* have led to a delivery of the same hello: its age was within the        *)
(* tolerance at both times.                                                *)
LEMMA DecideReplay ==
  ASSUME Inv, NEW c \in Conns, DecideClientHello(c), UNCHANGED bounds
  PROVE  ReplayInv'
<1>. DEFINE conn == conns[c]
            hello == conn.hello
            entry == <<hello.random, run>>
<1>1. /\ conn.stage = "asking" /\ UNCHANGED <<now, hellos, filter, run>>
      /\ delivered' = IF AcceptsEarlyData(conn) THEN Append(delivered, entry) ELSE delivered
  BY DEF DecideClientHello, clientVars
<1>2. /\ conns'[c].stage # "asking" /\ \A x \in Conns : x # c => conns'[x] = conns[x]
  <2>. DEFINE open == [stage |-> "open", hello |-> conn.hello,
                       handshakeTime |-> IF conn.res = None THEN now
                                         ELSE conn.res.handshakeTime,
                       origin |-> IF conn.res = None THEN now ELSE conn.res.origin,
                       clientTime |-> IF conn.res = None THEN now
                                      ELSE conn.hello.handshakeTime]
              k == IF ~conn.genuine THEN Idle ELSE open
  <2>1. conns' = [conns EXCEPT ![c] = k]
    BY DEF DecideClientHello
  <2>2. k.stage # "asking"
    BY DEF Idle
  <2>. HIDE DEF k
  <2>3. conns'[c] = k /\ \A x \in Conns : x # c => conns'[x] = conns[x]
    BY <2>1, Updated DEF Inv, TicketInv, ConnInv
  <2>. QED  BY <2>2, <2>3
<1>3. \A x \in Conns : Answered(x)' =>
        /\ x # c /\ Answered(x) /\ conns'[x].hello = conns[x].hello
        /\ conns'[x].checked = conns[x].checked
  BY <1>2 DEF Answered
<1>4. CASE ~AcceptsEarlyData(conn)
  BY <1>1, <1>3, <1>4, UntouchedReplay
<1>5. CASE AcceptsEarlyData(conn)
  <2>1. /\ conn.res # None /\ Answered(c)
        /\ ClockSkew(conn.res, hello.age) \in Tolerance.before .. Tolerance.after
    BY <1>1, <1>5 DEF AcceptsEarlyData, Answered
  <2>2. /\ hello \in hellos /\ conn.checked \in 0 .. now
        /\ now <= conn.checked + bounds.answer /\ now \in Nat
    BY <2>1, AnsweredConn DEF Inv, TicketInv, ClockInv
  <2>3. Restored(hello, conn.res) /\ hello.age \in Int
    BY <1>1, <2>1, <2>2 DEF Inv, TicketInv, ConnInv, IsConn, IsAsking, HelloInv
  <2>4. IsTicket(hello.ticket)
    BY <2>3 DEF Restored, IsTicket
  <2>5. /\ SkewAtZero(hello) \in Int
        /\ ClockSkew(conn.res, hello.age) = SkewAtZero(hello) - now
    <3>. DEFINE p == hello.ticket.plaintext
                age == (hello.age - p.ageAdd) % AgeMod
                issued == p.issueTime * Second
    <3>1. /\ conn.res.ageAdd = p.ageAdd /\ conn.res.issueTime = issued
          /\ p.ageAdd \in Int /\ p.issueTime \in Int
      BY <2>3 DEF Restored, IsPlaintext
    <3>2. age \in Int /\ issued \in Int
      BY <2>3, <3>1, TicketsAssumption
    <3>3. /\ ClockSkew(conn.res, hello.age) = age - (now - issued)
          /\ SkewAtZero(hello) = age + issued
      BY <3>1 DEF ClockSkew, SkewAtZero
    <3>. HIDE DEF age, issued
    <3>. QED  BY <2>2, <3>2, <3>3
  <2>6. /\ SkewAtZero(hello) - now >= Tolerance.before
        /\ SkewAtZero(hello) - now <= Tolerance.after
    BY <2>1, <2>5, ResumptionAssumption
  <2>7. Remembers(filter, now, hello.random, conn.checked)
    BY <2>1 DEF Inv, ReplayInv, AnswersInv
  <2>8. ASSUME NEW x \in Conns, Answered(x)', conns'[x].hello.random = hello.random
        PROVE  Apart(conn.checked, conns'[x].checked)
    BY <1>3, <2>1, <2>8 DEF Inv, ReplayInv, AnswersInv
  <2>9. PICK h \in hellos, d \in 0 .. now, t \in 0 .. now :
          h = hello /\ d = now /\ t = conn.checked
    BY <2>2
  <2>. HIDE DEF conn, hello
  <2>10. DeliveredAt(h, d, t)'
    <3>1. /\ t <= d /\ d <= t + bounds'.answer /\ IsTicket(h.ticket)
          /\ SkewAtZero(h) - d >= Tolerance.before
          /\ SkewAtZero(h) - d <= Tolerance.after
      BY <2>2, <2>4, <2>6, <2>9
    <3>2. Remembers(filter', now', h.random, t)
      BY <1>1, <2>7, <2>9
    <3>3. ASSUME NEW x \in Conns, Answered(x)', conns'[x].hello.random = h.random
          PROVE  Apart(t, conns'[x].checked)
      BY <2>8, <2>9, <3>3
    <3>. QED  BY <3>1, <3>2, <3>3 DEF DeliveredAt, SkewAtZero
  <2>11. ASSUME NEW i \in DOMAIN delivered, delivered[i] = entry
         PROVE  FALSE
    <3>1. delivered[i][2] = run /\ delivered[i][1] = h.random
      BY <2>9, <2>11
    <3>2. PICK g \in hellos, e \in 0 .. now, s \in 0 .. now :
            g.random = delivered[i][1] /\ DeliveredAt(g, e, s)
      BY <3>1 DEF Inv, ReplayInv, DeliveredInv
    <3>3. g = h
      BY <3>1, <3>2 DEF Inv, TicketInv, HelloInv
    <3>4. /\ s <= e /\ e <= s + bounds.answer
          /\ SkewAtZero(h) - e >= Tolerance.before /\ SkewAtZero(h) - e <= Tolerance.after
      BY <3>2, <3>3 DEF DeliveredAt
    <3>5. Apart(s, t)
      BY <2>1, <2>9, <3>2, <3>3 DEF DeliveredAt, conn, hello
    <3>6. /\ bounds \in Bounds /\ bounds.answer \in Nat
          /\ Tolerance.before \in Int /\ Tolerance.after \in Int
      BY ResumptionAssumption DEF Inv, TicketInv, ClockInv
    <3>7. Tolerance.after - Tolerance.before + bounds.answer < Window
      BY <3>6, WindowAssumption DEF Window
    <3>8. /\ t <= d /\ d <= t + bounds.answer /\ SkewAtZero(h) \in Int
          /\ SkewAtZero(h) - d >= Tolerance.before /\ SkewAtZero(h) - d <= Tolerance.after
      BY <2>2, <2>5, <2>6, <2>9
    <3>. QED
      BY <2>2, <3>4, <3>5, <3>6, <3>7, <3>8, FilterNumbers DEF Apart
  <2>12. /\ IsSeq(delivered) /\ run \in Nat
         /\ \A i \in DOMAIN delivered :
              /\ delivered[i] = <<delivered[i][1], delivered[i][2]>>
              /\ delivered[i][2] \in Nat /\ delivered[i][2] <= run
         /\ EarlyDataOnce
    BY DEF Inv, TicketInv, ClockInv, ReplayInv, DeliveredInv
  <2>13. delivered' = Append(delivered, entry)
    BY <1>1, <1>5
  <2>14. entry[1] = h.random /\ entry[2] = run /\ entry = <<entry[1], entry[2]>>
    BY <2>9
  <2>. HIDE DEF entry
  <2>15. /\ Len(delivered) \in Nat /\ DOMAIN delivered = 1 .. Len(delivered)
         /\ IsSeq(delivered') /\ DOMAIN delivered' = 1 .. Len(delivered) + 1
         /\ \A i \in 1 .. Len(delivered) : delivered'[i] = delivered[i]
         /\ delivered'[Len(delivered) + 1] = entry
    BY <2>12, <2>13, AppendElements
  <2>16. ASSUME NEW i \in DOMAIN delivered, delivered[i][2] = run
         PROVE  \E g \in hellos' : \E e, s \in 0 .. now' :
                  g.random = delivered[i][1] /\ DeliveredAt(g, e, s)'
    <3>1. PICK g \in hellos, e \in 0 .. now, s \in 0 .. now :
            g.random = delivered[i][1] /\ DeliveredAt(g, e, s)
      BY <2>16 DEF Inv, ReplayInv, DeliveredInv
    <3>2. DeliveredAt(g, e, s)'
      BY <1>1, <1>3, <3>1 DEF DeliveredAt
    <3>. QED  BY <1>1, <3>1, <3>2
  <2>17. EarlyDataOnce'
    BY <2>11, <2>12, <2>15 DEF EarlyDataOnce
  <2>18. DeliveredInv'
    <3>1. ASSUME NEW i \in DOMAIN delivered'
          PROVE  /\ delivered'[i] = <<delivered'[i][1], delivered'[i][2]>>
                 /\ delivered'[i][2] \in Nat /\ delivered'[i][2] <= run'
                 /\ delivered'[i][2] = run' =>
                      \E g \in hellos' : \E e, s \in 0 .. now' :
                        g.random = delivered'[i][1] /\ DeliveredAt(g, e, s)'
      <4>1. CASE i = Len(delivered) + 1
        <5>1. delivered'[i] = entry
          BY <2>15, <4>1
        <5>. QED  BY <1>1, <2>9, <2>10, <2>12, <2>14, <5>1
      <4>2. CASE i # Len(delivered) + 1
        <5>1. i \in DOMAIN delivered /\ delivered'[i] = delivered[i]
          BY <2>15, <4>2
        <5>. QED  BY <1>1, <2>12, <2>16, <5>1
      <4>. QED  BY <4>1, <4>2
    <3>. QED  BY <2>15, <2>17, <3>1 DEF DeliveredInv
  <2>19. FilterInv'
    BY <1>1 DEF Inv, ReplayInv, FilterInv
  <2>20. AnswersInv'
    BY <1>1, <1>3 DEF Inv, ReplayInv, AnswersInv
  <2>. QED  BY <2>18, <2>19, <2>20 DEF ReplayInv
<1>. QED  BY <1>4, <1>5

LEMMA NextInv == Inv /\ [Next]_vars => Inv'
<1>. SUFFICES ASSUME Inv, [Next]_vars PROVE Inv'
  OBVIOUS
<1>1. TicketInv'
  BY NextTickets DEF Inv
<1>. SUFFICES ReplayInv'
  BY <1>1 DEF Inv
<1>2. CASE UNCHANGED vars
  BY <1>2, UntouchedReplay DEF vars, Answered
<1>3. CASE Next
  <2>. UNCHANGED bounds
    BY <1>3 DEF Next
  <2>1. CASE Tick
    BY <2>1, TickReplay
  <2>2. ASSUME NEW identity \in Identities, Connect(identity) \/ RemovePsk(identity)
        PROVE  ReplayInv'
    BY <2>2, UntouchedReplay DEF Connect, RemovePsk, serverVars, Answered
  <2>3. CASE SetTicketSecrets
    BY <2>3, UntouchedReplay DEF SetTicketSecrets, clientVars, Answered
  <2>4. CASE FilterTimeoutExpired
    BY <2>4, TimeoutReplay
  <2>5. CASE ServerRestart
    BY <2>5, RestartReplay
  <2>6. ASSUME NEW c \in Conns, NEW k, conns' = [conns EXCEPT ![c] = k],
               k.stage = "asking" => k.replay # "NotReplay",
               UNCHANGED <<now, filter, run, delivered, hellos>>
        PROVE  ReplayInv'
    <3>1. conns'[c] = k /\ \A x \in Conns : x # c => conns'[x] = conns[x]
      BY <2>6, Updated DEF Inv, TicketInv, ConnInv
    <3>2. \A x \in Conns : Answered(x)' =>
            /\ Answered(x) /\ conns'[x].hello = conns[x].hello
            /\ conns'[x].checked = conns[x].checked
      BY <2>6, <3>1 DEF Answered
    <3>. QED  BY <2>6, <3>2, UntouchedReplay
  <2>7. ASSUME NEW c \in Conns, ReceiveClientHello(c)
        PROVE  ReplayInv'
    <3>1. PICK k : /\ conns' = [conns EXCEPT ![c] = k] /\ k.replay # "NotReplay"
                   /\ UNCHANGED <<now, filter, run, delivered, hellos>>
      <4>1. PICK h \in hellos :
              LET res == IF h.ticket = None THEN None
                         ELSE DualDecrypt(Primary, Fallback, Certificates, h.ticket, now)
              IN conns' = [conns EXCEPT ![c] =
                   [stage |-> "asking", hello |-> h, res |-> res,
                    lawful |-> res # None => Lawful(h.ticket, res),
                    genuine |-> arrived[h.random] = 0,
                    replay |-> IF h.early THEN "Pending" ELSE "NotChecked",
                    checked |-> now]]
        BY <2>7 DEF ReceiveClientHello
      <4>. DEFINE res == IF h.ticket = None THEN None
                         ELSE DualDecrypt(Primary, Fallback, Certificates, h.ticket, now)
                  k == [stage |-> "asking", hello |-> h, res |-> res,
                        lawful |-> res # None => Lawful(h.ticket, res),
                        genuine |-> arrived[h.random] = 0,
                        replay |-> IF h.early THEN "Pending" ELSE "NotChecked",
                        checked |-> now]
      <4>2. conns' = [conns EXCEPT ![c] = k]
        BY <4>1
      <4>3. k.replay # "NotReplay"
        <5>. HIDE DEF res
        <5>. QED  OBVIOUS
      <4>4. UNCHANGED <<now, filter, run, delivered, hellos>>
        BY <2>7 DEF ReceiveClientHello, clientVars
      <4>. HIDE DEF k
      <4>. QED  BY <4>2, <4>3, <4>4
    <3>. QED  BY <2>6, <3>1
  <2>8. ASSUME NEW c \in Conns, CheckReplay(c)
        PROVE  ReplayInv'
    BY <2>8, CheckReplayReplay
  <2>9. ASSUME NEW c \in Conns, DecideClientHello(c)
        PROVE  ReplayInv'
    BY <2>9, DecideReplay
  <2>10. ASSUME NEW c \in Conns, GenerateTicket(c)
         PROVE  ReplayInv'
    <3>1. PICK k : /\ conns' = [conns EXCEPT ![c] = k] /\ k.stage # "asking"
                   /\ UNCHANGED <<now, filter, run, delivered, hellos>>
      BY <2>10 DEF GenerateTicket, Idle, clientVars
    <3>. QED  BY <2>6, <3>1
  <2>11. ASSUME NEW c \in Conns, HandleNewSessionTicket(c) \/ Disconnect(c)
         PROVE  ReplayInv'
    <3>1. PICK k : /\ conns' = [conns EXCEPT ![c] = k] /\ k.stage # "asking"
                   /\ UNCHANGED <<now, filter, run, delivered, hellos>>
      BY <2>11 DEF HandleNewSessionTicket, Disconnect, Idle, clientVars
    <3>. QED  BY <2>6, <3>1
  <2>. QED
    BY <1>3, <2>1, <2>2, <2>3, <2>4, <2>5, <2>7, <2>8, <2>9, <2>10, <2>11 DEF Next
<1>. QED  BY <1>2, <1>3

(* The invariant holds in every behaviour.                                 *)
THEOREM InvHolds == Spec => []Inv
BY InitInv, NextInv, PTL DEF Spec

(* One process of the server delivers the early data of a ClientHello at   *)
(* most once, however often the network repeats the hello and whenever the *)
(* answers of the filter are used, as long as the filter remembers for     *)
(* longer than the tolerance accepts an age and an answer waits.           *)
THEOREM ServerDeliversEarlyDataOnce == Spec => []EarlyDataOnce
<1>1. Inv => EarlyDataOnce
  BY DEF Inv, ReplayInv, DeliveredInv
<1>. QED  BY <1>1, InvHolds, PTL
=============================================================================
