----------------------------- MODULE Resumption -----------------------------
(***************************************************************************)
(* Session resumption and early data over time: a client with an LRU cache *)
(* of PSKs that it may save and load again, a server with rotating ticket  *)
(* secrets, a ticket policy and a sliding Bloom filter against replays,    *)
(* and a network that delivers a ClientHello late or more than once.  The  *)
(* server may restart, which empties the filter; its checks of the filter  *)
(* run on another thread and answer at any time.                           *)
(***************************************************************************)
EXTENDS Tickets, SequencesExt, Functions

CONSTANTS Identities,    \* names under which the client caches PSKs
          Capacity,      \* of the client's cache
          FirstSecrets, SecretLists,   \* what the operator configures, in turn
          OldSecrets,    \* of the fallback ticket cipher
          Policy,        \* seconds of validity: handshake, ticket
          MaxPskLife,    \* of the client's context, in ticks
          Tolerance,     \* of the client's clock: before, after, in ticks
          AgeAdds,       \* what masks the age of a ticket
          Cells, CellsOf, \* cells of the filter, and those of each hello
          Buckets, BucketWidth,
          Conns,         \* connections the server handles
          Bounds         \* each bounds time, hellos, arrivals of hellos,
                         \* connections at a time, restarts, how late the
                         \* timer of the filter and the use of an answer of
                         \* it may be and by how much the client's clock
                         \* may be off

ASSUME ResumptionAssumption ==
  /\ Capacity \in Nat \ {0} /\ Buckets \in Nat \ {0, 1}
  /\ BucketWidth \in Nat \ {0}
  /\ {Policy.handshake, Policy.ticket} \subseteq Nat
  /\ {Tolerance.before, Tolerance.after} \subseteq Int /\ AgeAdds \subseteq Nat
  /\ \A b \in Bounds :
       /\ {b.hellos, b.answer} \subseteq Nat /\ b.offsets \subseteq Nat
       /\ \A r \in 1 .. b.hellos : CellsOf[r] \subseteq Cells

(* The filter must remember a ClientHello for as long as the tolerance     *)
(* accepts its age, and the time that an answer of the filter waits to be  *)
(* used on top, as the age is looked at only then.  The last bucket of a   *)
(* round is cleared early.                                                 *)
ASSUME WindowAssumption ==
  \A b \in Bounds :
    Tolerance.after - Tolerance.before + b.answer < (Buckets - 1) * BucketWidth

VARIABLES
  now,        \* the server's clock
  secrets,    \* of the ticket cipher
  filter,     \* the Bloom filter: bits of each cell, bucket, next timeout
  cache,      \* the client's PSK cache, most recently used first
  hellos,     \* ClientHellos on the network
  arrived,    \* how often each of them has reached the server
  conns,      \* the server's connections
  delivered,  \* early data delivered: random and run of the server
  run,        \* of the server, counted by restarts
  bounds      \* the element of Bounds that holds

vars == <<now, secrets, filter, cache, hellos, arrived, conns,
          delivered, run, bounds>>
clientVars == <<cache, hellos>>
serverVars == <<secrets, filter, arrived, conns, delivered, run>>

(* What the client's clock may say when it connects, relative to when it   *)
(* stored the ticket.                                                      *)
ClientTimes == {now + offset : offset \in bounds.offsets}
Idle == [stage |-> "idle"]

-----------------------------------------------------------------------------
(* SlidingBloomReplayCache.                                                *)

EmptyFilter == [bits |-> [c \in Cells |-> {}], bucket |-> 0,
                due |-> now + BucketWidth]

(* A query that is new to one of its cells is no replay.  The bits of a    *)
(* cell are buckets; a replay has a bucket common to all its cells.        *)
Test(f, random) ==
  \E b \in 0 .. Buckets - 1 : \A c \in CellsOf[random] : b \in f.bits[c]

Set(f, random) ==
  [f EXCEPT !.bits = [c \in Cells |->
     IF c \in CellsOf[random] THEN @[c] \union {f.bucket} ELSE @[c]]]

(* Mutant: the bucket advances first, and the one after it is cleared.     *)
ClearMutant(f) ==
  LET next == (f.bucket + 1) % Buckets
  IN [f EXCEPT !.bits = [c \in Cells |-> @[c] \ {(next + 1) % Buckets}],
               !.bucket = next]

Clear(f) ==
  LET next == (f.bucket + 1) % Buckets
  IN [f EXCEPT !.bits = [c \in Cells |-> @[c] \ {next}], !.bucket = next]

(* timeoutExpired: the timer may be late (Tick bounds how much), never     *)
(* early.                                                                  *)
FilterTimeoutExpired ==
  /\ now >= filter.due
  /\ filter' = [Clear(filter) EXCEPT !.due = now + BucketWidth]
  /\ UNCHANGED <<now, clientVars, secrets, arrived, conns, delivered, run>>

-----------------------------------------------------------------------------
(* The client's cache.                                                     *)

Holds(identity) == \E i \in DOMAIN cache : cache[i].identity = identity
EntryOf(identity) ==
  cache[CHOOSE i \in DOMAIN cache : cache[i].identity = identity]
Without(identity) ==
  IF ~Holds(identity) THEN cache
  ELSE RemoveAt(cache, CHOOSE i \in DOMAIN cache : cache[i].identity = identity)

(* SynchronizedLruPskCache::getPsk: finding an entry makes it the most     *)
(* recently used one, an expired entry is erased.                          *)
GetPsk(identity, time) ==
  IF Holds(identity) /\ time <= EntryOf(identity).psk.expirationTime
  THEN EntryOf(identity).psk ELSE None
CacheAfterGet(identity, time) ==
  IF GetPsk(identity, time) = None THEN Without(identity)
  ELSE <<EntryOf(identity)>> \o Without(identity)

PutPsk(identity, psk) ==
  LET all == <<[identity |-> identity, psk |-> psk]>> \o Without(identity)
  IN SubSeq(all, 1, IF Len(all) < Capacity THEN Len(all) ELSE Capacity)

RemovePsk(identity) ==
  /\ Holds(identity)
  /\ cache' = Without(identity)
  /\ UNCHANGED <<now, hellos, serverVars>>

(* validatePsk.                                                            *)
ValidatePsk(psk, time) ==
  IF \/ psk = None
     \/ time > psk.expirationTime
     \/ time - psk.handshakeTime > MaxPskLife
     \/ psk.handshakeTime > time
  THEN None ELSE psk

-----------------------------------------------------------------------------
(* PskSerializationUtils.                                                  *)

WrittenCert(cert) == IF cert.x509 THEN cert ELSE NoCert

SerializePsk(psk) ==
  [psk EXCEPT !.expirationTime = @ \div Second,
              !.serverCert = WrittenCert(@), !.clientCert = WrittenCert(@)]

(* Strings written before the handshake time was added have none.          *)
DeserializePsk(s, hasHandshakeTime, time) ==
  [s EXCEPT !.expirationTime = @ * Second,
            !.handshakeTime = IF hasHandshakeTime THEN @ ELSE time]

(* A cached PSK as it is, or after the application saved it and loaded it  *)
(* into another process.                                                   *)
Reloaded(psk, time) ==
  {psk} \union {DeserializePsk(SerializePsk(psk), has, time) : has \in BOOLEAN}

-----------------------------------------------------------------------------
(* The client's hello.                                                     *)

(* getPskExtension: the age in milliseconds, masked modulo 2^32.           *)
ObfuscatedAge(psk, time) == (time - psk.issueTime + psk.ageAdd) % AgeMod

ClientHello(identity, psk, time) ==
  LET random == Cardinality(hellos) + 1
  IN IF psk = None
     THEN [random |-> random, identity |-> identity, ticket |-> None,
           age |-> 0, early |-> FALSE, handshakeTime |-> None]
     ELSE [random |-> random, identity |-> identity, ticket |-> psk.ticket,
           age |-> ObfuscatedAge(psk, time), early |-> psk.maxEarlyDataSize > 0,
           handshakeTime |-> psk.handshakeTime]

Connect(identity) ==
  \E time \in ClientTimes :
    LET cached == GetPsk(identity, time)
    IN /\ Cardinality(hellos) < bounds.hellos
       /\ \E psk \in IF cached = None THEN {None} ELSE Reloaded(cached, time) :
            hellos' = hellos \union
              {ClientHello(identity, ValidatePsk(psk, time), time)}
       /\ cache' = CacheAfterGet(identity, time)
       /\ UNCHANGED <<now, serverVars>>

-----------------------------------------------------------------------------
(* The server.                                                             *)

Certificates == {"server"}
Primary == [secrets |-> secrets, contexts |-> <<"label", "new">>, policy |-> Policy]
Fallback == [secrets |-> OldSecrets, contexts |-> <<"label", "old">>, policy |-> Policy]
ServerKeys ==
  {Extracted(secrets[i], Primary.contexts) : i \in DOMAIN secrets} \union
  {Extracted(OldSecrets[i], Fallback.contexts) : i \in DOMAIN OldSecrets}

SetTicketSecrets ==
  \E list \in SecretLists :
    /\ secrets' = SetSecrets(secrets, list)
    /\ secrets' # secrets
    /\ UNCHANGED <<now, clientVars, filter, arrived, conns, delivered, run>>

(* What makes it right to accept a ticket: not what the code looks at.     *)
Lawful(ticket, res) ==
  /\ now < res.origin + Policy.handshake * Second
  /\ ticket.key \in ServerKeys

Busy == Cardinality({c \in Conns : conns[c] # Idle})
Arrivals == FoldFunction(+, 0, arrived)

(* The first half of the ClientHello handler: the ticket is opened and the *)
(* replay cache is asked.  Any hello may arrive again on a new connection, *)
(* but its client answers one of them only.                                *)
ReceiveClientHello(c) ==
  \E h \in hellos :
    LET res == IF h.ticket = None THEN None
               ELSE DualDecrypt(Primary, Fallback, Certificates, h.ticket, now)
    IN /\ conns[c] = Idle /\ Busy < bounds.conns /\ Arrivals < bounds.arrivals
       /\ conns' = [conns EXCEPT ![c] =
            [stage |-> "asking", hello |-> h, res |-> res,
             lawful |-> res # None => Lawful(h.ticket, res), genuine |-> arrived[h.random] = 0,
             replay |-> IF h.early THEN "Pending" ELSE "NotChecked",
             checked |-> now]]
       /\ arrived' = [arrived EXCEPT ![h.random] = @ + 1]
       /\ UNCHANGED <<now, clientVars, secrets, filter, delivered, run>>

(* check, on the thread of the cache.                                      *)
CheckReplay(c) ==
  /\ conns[c].stage = "asking" /\ conns[c].replay = "Pending"
  /\ LET random == conns[c].hello.random
     IN /\ conns' = [conns EXCEPT ![c].replay =
                       IF Test(filter, random) THEN "MaybeReplay" ELSE "NotReplay",
                     ![c].checked = now]
        /\ filter' = Set(filter, random)
  /\ UNCHANGED <<now, clientVars, secrets, arrived, delivered, run>>

(* getClockSkew: the age is unmasked as a 32-bit number, then compared as  *)
(* a signed one.                                                           *)
ClockSkew(res, age) ==
  ((age - res.ageAdd) % AgeMod) - (now - res.issueTime)

AcceptsEarlyData(conn) ==
  /\ conn.hello.early /\ conn.res # None
  /\ conn.replay = "NotReplay"
  /\ ClockSkew(conn.res, conn.hello.age) \in Tolerance.before .. Tolerance.after

(* The second half, once both answers are there.  Nobody finishes the      *)
(* handshake of a repeated hello.                                          *)
DecideClientHello(c) ==
  LET conn == conns[c]
  IN /\ conn.stage = "asking" /\ conn.replay # "Pending"
     /\ conns' = [conns EXCEPT ![c] =
          IF ~conn.genuine THEN Idle
          ELSE [stage |-> "open", hello |-> conn.hello,
                handshakeTime |-> IF conn.res = None THEN now
                                  ELSE conn.res.handshakeTime,
                origin |-> IF conn.res = None THEN now ELSE conn.res.origin,
                clientTime |-> IF conn.res = None THEN now
                               ELSE conn.hello.handshakeTime]]
     /\ delivered' = IF AcceptsEarlyData(conn)
                     THEN Append(delivered, <<conn.hello.random, run>>)
                     ELSE delivered
     /\ UNCHANGED <<now, clientVars, secrets, filter, arrived, run>>

ResumptionState(ageAdd, handshakeTime, origin) ==
  [serverCert |-> "server", clientCert |-> NoCert, ageAdd |-> ageAdd,
   issueTime |-> now, handshakeTime |-> handshakeTime, origin |-> origin]

(* generateTicket, on a connection whose client finished the handshake.    *)
GenerateTicket(c) ==
  \E ageAdd \in AgeAdds :
    LET conn == conns[c]
        nst == TicketEncrypt(Primary,
                 ResumptionState(ageAdd, conn.handshakeTime, conn.origin), now)
    IN /\ conn.stage = "open"
       /\ conns' = [conns EXCEPT ![c] =
            IF nst = None THEN Idle
            ELSE [stage |-> "ticketed", hello |-> conn.hello, ageAdd |-> ageAdd,
                  nst |-> nst, clientTime |-> conn.clientTime]]
       /\ UNCHANGED <<now, clientVars, secrets, filter, arrived, delivered, run>>

(* The client's NewSessionTicket handler and the NewCachedPsk it reports.  *)
NewCachedPsk(nst, ageAdd, handshakeTime, time) ==
  [ticket |-> nst.ticket, ageAdd |-> ageAdd, issueTime |-> time,
   expirationTime |-> time + nst.lifetime * Second,
   handshakeTime |-> handshakeTime,
   serverCert |-> [id |-> "server", x509 |-> TRUE],
   clientCert |-> NoCert, maxEarlyDataSize |-> 1]

HandleNewSessionTicket(c) ==
  LET conn == conns[c]
  IN /\ conn.stage = "ticketed"
     /\ cache' = PutPsk(conn.hello.identity,
                        NewCachedPsk(conn.nst, conn.ageAdd, conn.clientTime, now))
     /\ conns' = [conns EXCEPT ![c] = Idle]
     /\ UNCHANGED <<now, hellos, secrets, filter, arrived, delivered, run>>

(* The connection ends.                                                    *)
Disconnect(c) ==
  /\ conns[c].stage = "open"
  /\ conns' = [conns EXCEPT ![c] = Idle]
  /\ UNCHANGED <<now, clientVars, secrets, filter, arrived, delivered, run>>

(* A new process of the server: its filter is empty.                       *)
ServerRestart ==
  /\ run < bounds.restarts
  /\ run' = run + 1
  /\ filter' = EmptyFilter
  /\ conns' = [c \in Conns |-> Idle]
  /\ UNCHANGED <<now, clientVars, secrets, arrived, delivered>>

(* An answer of the filter that is not used yet.                           *)
Answered(c) == conns[c].stage = "asking" /\ conns[c].replay = "NotReplay"

Tick ==
  /\ now < bounds.time /\ now < filter.due + bounds.late
  /\ \A c \in Conns : Answered(c) => now < conns[c].checked + bounds.answer
  /\ now' = now + 1
  /\ UNCHANGED <<clientVars, serverVars>>

-----------------------------------------------------------------------------
(* A first session has ended: the client holds its ticket.                 *)
Init ==
  /\ bounds \in Bounds
  /\ now = 0
  /\ secrets = FirstSecrets
  /\ filter = EmptyFilter
  /\ \E identity \in Identities, ageAdd \in AgeAdds :
       LET nst == TicketEncrypt(Primary, ResumptionState(ageAdd, 0, 0), now)
       IN /\ nst # None
          /\ cache = <<[identity |-> identity,
                        psk |-> NewCachedPsk(nst, ageAdd, 0, 0)]>>
  /\ hellos = {} /\ arrived = [r \in 1 .. bounds.hellos |-> 0]
  /\ conns = [c \in Conns |-> Idle]
  /\ delivered = <<>> /\ run = 0

Next ==
  /\ \/ Tick
     \/ \E identity \in Identities : Connect(identity) \/ RemovePsk(identity)
     \/ SetTicketSecrets \/ FilterTimeoutExpired \/ ServerRestart
     \/ \E c \in Conns :
          \/ ReceiveClientHello(c) \/ CheckReplay(c) \/ DecideClientHello(c)
          \/ GenerateTicket(c) \/ HandleNewSessionTicket(c) \/ Disconnect(c)
  /\ UNCHANGED bounds

Spec == Init /\ [][Next]_vars

-----------------------------------------------------------------------------
(***************************************************************************)
(* Early data of one ClientHello is delivered at most once by one process  *)
(* of the server, however often the network repeats the hello, in whatever *)
(* order the answers of the filter are used, whatever the client's clock   *)
(* says and however its masked age wraps.                                  *)
(***************************************************************************)
EarlyDataOnce ==
  \A i, j \in DOMAIN delivered : delivered[i] = delivered[j] => i = j

(***************************************************************************)
(* A ticket resumes a session only while the full handshake that           *)
(* authenticated it, however many renewals ago, is within the policy, and  *)
(* only if the server still has the secret that sealed it.                 *)
(***************************************************************************)
TicketsRespectPolicy ==
  \A c \in Conns : conns[c].stage = "asking" => conns[c].lawful
=============================================================================
