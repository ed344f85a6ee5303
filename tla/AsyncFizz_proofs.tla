-------------------------- MODULE AsyncFizz_proofs --------------------------
(***************************************************************************)
(* Proofs about the transports: the handshake callback is called once, and *)
(* reads that back-pressure stopped are started again, for every           *)
(* configuration, every application and every depth of the call stack.     *)
(***************************************************************************)
EXTENDS AsyncFizz, TLAPS

(* A sequence, of whatever.                                                *)
IsSeq(s) == s \in Seq({s[i] : i \in DOMAIN s})

-----------------------------------------------------------------------------
(* The call stack.  Which frames are on it, what a list of actions that is *)
(* being visited still holds, and what lies above or below what.           *)
Has(s, names) == \E i \in DOMAIN s : s[i].f \in names

Holds(as, a) == \E k \in DOMAIN as : as[k].a = a
Visits(s, a) == \E i \in DOMAIN s : s[i].f = "visit" /\ Holds(s[i].actions, a)

(* No action takes the machine back to its beginning, and one that opens   *)
(* it is followed by the report of success.                                *)
ActionsOk(as) ==
  /\ IsSeq(as)
  /\ \A k \in DOMAIN as : as[k].a = "MutateState" =>
       /\ as[k].state # "Uninitialized"
       /\ as[k].state = "Open" =>
            \E n \in DOMAIN as : n > k /\ as[n].a = "ReportHandshakeSuccess"

VisitsOk(s) == \A i \in DOMAIN s : s[i].f = "visit" => ActionsOk(s[i].actions)
OneVisit(s) == \A i, j \in DOMAIN s : s[i].f = "visit" /\ s[j].f = "visit" => i = j

(* Before the machine is moved to the error state the handshake callback   *)
(* is told, and the reader is told afterwards.                             *)
TellsFirst(s) ==
  \A i \in DOMAIN s : s[i].f = "moveToErrorState" =>
    \E j \in DOMAIN s : j < i /\ s[j].f = "deliverHandshakeError"
TellsReader(s) ==
  \A i \in DOMAIN s : s[i].f = "moveToErrorState" =>
    \E j \in DOMAIN s : j > i /\ s[j].f = "deliverError"

(* The visit on the stack is about to call the handshake callback.         *)
Reporters == {"endEarlyData", "reportSuccess", "transportError", "deliverAllErrors",
              "deliverHandshakeError"}
Reporting(s) ==
  \E i \in DOMAIN s :
    /\ s[i].f = "visit"
    /\ \/ Holds(s[i].actions, "ReportHandshakeSuccess")
       \/ \E j \in DOMAIN s : j < i /\ s[j].f \in Reporters

-----------------------------------------------------------------------------
(* The inductive invariant.                                                *)
FieldsInv ==
  /\ {"state", "early", "pending", "guard", "inLoop", "error", "paused",
      "waitForData", "unread", "deferred"} \subseteq DOMAIN fb
  /\ {"readCallback", "appDataBuf", "pendingReadEx", "chain", "buffered",
      "immediate", "reads", "timeout", "underKey"} \subseteq DOMAIN base
  /\ {"callback", "early", "handshakeWrites", "replaySafety", "config"} \subseteq DOMAIN sub
  /\ {"state", "queue"} \subseteq DOMAIN sock
  /\ {"writes", "answers", "wire", "lost", "reports", "produced", "delivered",
      "dropped", "calls", "records", "rekeyFailed"} \subseteq DOMAIN hist
  /\ sub.config \in Configs
  /\ fb.unread \in Nat

StackInv == IsSeq(stack) /\ VisitsOk(stack) /\ OneVisit(stack) /\ TellsReader(stack)

(* The action guard is held while actions are visited or awaited.          *)
GuardInv ==
  /\ ActionsOk(fb.deferred)
  /\ Has(stack, {"visit"}) => fb.guard /\ fb.deferred = <<>>
  /\ fb.deferred # <<>> => fb.guard /\ Role = "server"

(* Nothing has happened to a transport that was not asked to connect.      *)
StartInv ==
  /\ ~Started =>
       /\ stack = <<>> /\ fb.state = "Uninitialized" /\ fb.deferred = <<>>
       /\ ~fb.error /\ ~fb.paused
       /\ ~base.reads /\ ~base.timeout /\ ~base.readCallback /\ base.appDataBuf = <<>>
       /\ sock.state \in {"open", "closed"} /\ sock.queue = <<>>
  /\ Role = "server" => sock.state # "connecting"
                        /\ (fb.state = "Uninitialized" => ~Started)

ReportInv ==
  /\ IsSeq(hist.reports) /\ Len(hist.reports) <= 1
  /\ sub.callback => hist.reports = <<>> /\ ~fb.error /\ TellsFirst(stack)
  /\ sub.callback /\ fb.state = "Open" => Reporting(stack)
  /\ Role = "client" /\ fb.state = "Open" /\ base.timeout
       => Visits(stack, "ReportHandshakeSuccess")

(* No data reach the application before the handshake is reported; where   *)
(* the machine waits for data, it has none.                                *)
DataInv ==
  /\ sub.callback =>
       /\ base.appDataBuf = <<>> /\ ~Has(stack, {"deliverAppData"})
       /\ ~Visits(stack, "DeliverAppData") /\ ~Holds(fb.deferred, "DeliverAppData")
  /\ fb.waitForData \/ Visits(stack, "WaitForData") => fb.unread = 0
  /\ ~Holds(fb.deferred, "WaitForData")

(* A reader or a handshake without the socket's reads: they are about to   *)
(* be started, or it is about to be told of an error.                      *)
Resumers == {"attached", "deliverAllErrors", "deliverHandshakeError"}
ReadInv ==
  /\ Has(stack, {"sockFail"}) => sock.state = "closed"
  /\ (base.readCallback /\ ~fb.paused /\ sock.state = "open" /\ ~base.reads)
       => Has(stack, {"setReadCB", "deliverError", "attached"})
  /\ (sub.callback /\ fb.waitForData /\ ~fb.paused /\ sock.state = "open" /\ ~base.reads)
       => Has(stack, Resumers)
  /\ fb.error /\ base.readCallback => Has(stack, {"setReadCB", "deliverError"})

Inv ==
  FieldsInv /\ StackInv /\ GuardInv /\ StartInv /\ ReportInv /\ DataInv /\ ReadInv
-----------------------------------------------------------------------------
(* Sequences.                                                              *)
LEMMA SeqIsSeq ==
  ASSUME NEW S, NEW s \in Seq(S)
  PROVE  IsSeq(s)
<1>1. Len(s) \in Nat /\ DOMAIN s = 1 .. Len(s) /\ s \in [1 .. Len(s) -> S]
  OBVIOUS
<1>2. s \in [1 .. Len(s) -> {s[i] : i \in DOMAIN s}]
  BY <1>1
<1>. QED  BY <1>1, <1>2, SMTT(60) DEF IsSeq

LEMMA IsSeqDomain ==
  ASSUME NEW s, IsSeq(s)
  PROVE  Len(s) \in Nat /\ DOMAIN s = 1 .. Len(s)
BY DEF IsSeq

LEMMA SeqIndices ==
  ASSUME NEW s, IsSeq(s)
  PROVE  \A i \in DOMAIN s : i \in Nat /\ i >= 1
BY IsSeqDomain

LEMMA TuplesAreSeqs ==
  /\ IsSeq(<<>>)
  /\ \A a : IsSeq(<<a>>)
  /\ \A a, b : IsSeq(<<a, b>>)
  /\ \A a, b, c : IsSeq(<<a, b, c>>)
  /\ \A a, b, c, d : IsSeq(<<a, b, c, d>>)
<1>1. <<>> \in Seq({})
  OBVIOUS
<1>2. \A a : <<a>> \in Seq({a})
  OBVIOUS
<1>3. \A a, b : <<a, b>> \in Seq({a, b})
  OBVIOUS
<1>4. \A a, b, c : <<a, b, c>> \in Seq({a, b, c})
  OBVIOUS
<1>5. \A a, b, c, d : <<a, b, c, d>> \in Seq({a, b, c, d})
  OBVIOUS
<1>. QED  BY <1>1, <1>2, <1>3, <1>4, <1>5, SeqIsSeq

LEMMA ConcatSeqs ==
  ASSUME NEW s, NEW t, IsSeq(s), IsSeq(t)
  PROVE  /\ IsSeq(s \o t)
         /\ Len(s \o t) = Len(s) + Len(t)
         /\ DOMAIN (s \o t) = 1 .. Len(s) + Len(t)
         /\ \A i \in DOMAIN s : (s \o t)[i] = s[i] /\ i \in DOMAIN (s \o t)
         /\ \A i \in DOMAIN t : /\ (s \o t)[Len(s) + i] = t[i]
                                /\ Len(s) + i \in DOMAIN (s \o t)
         /\ \A i \in DOMAIN (s \o t) :
              i \in DOMAIN s \/ \E k \in DOMAIN t : i = Len(s) + k
<1>. DEFINE S == {s[i] : i \in DOMAIN s} \cup {t[i] : i \in DOMAIN t}
<1>1. s \in Seq(S) /\ t \in Seq(S)
  BY DEF IsSeq
<1>2. s \o t \in Seq(S)
  BY <1>1
<1>3. IsSeq(s \o t)
  BY <1>2, SeqIsSeq
<1>4. /\ Len(s) \in Nat /\ DOMAIN s = 1 .. Len(s)
      /\ Len(t) \in Nat /\ DOMAIN t = 1 .. Len(t)
  BY <1>1
<1>5. ASSUME NEW i \in 1 .. Len(s) + Len(t)
      PROVE  i \in 1 .. Len(s) \/ \E k \in 1 .. Len(t) : i = Len(s) + k
  <2>1. CASE i > Len(s)
    <3>1. i - Len(s) \in 1 .. Len(t) /\ i = Len(s) + (i - Len(s))
      BY <2>1, <1>4
    <3>. QED  BY <3>1
  <2>2. CASE i <= Len(s)
    BY <2>2, <1>4
  <2>. QED  BY <2>1, <2>2, <1>4
<1>6. Len(s \o t) = Len(s) + Len(t) /\ DOMAIN (s \o t) = 1 .. Len(s) + Len(t)
  BY <1>1
<1>7. \A i \in DOMAIN s : (s \o t)[i] = s[i] /\ i \in DOMAIN (s \o t)
  BY <1>1, <1>4, <1>6
<1>8. \A i \in DOMAIN t : (s \o t)[Len(s) + i] = t[i] /\ Len(s) + i \in DOMAIN (s \o t)
  BY <1>1, <1>4, <1>6
<1>. QED  BY <1>3, <1>4, <1>5, <1>6, <1>7, <1>8

LEMMA TailSeq ==
  ASSUME NEW s, IsSeq(s), s # <<>>
  PROVE  /\ IsSeq(Tail(s)) /\ Head(s) = s[1] /\ 1 \in DOMAIN s
         /\ \A i \in DOMAIN Tail(s) : Tail(s)[i] = s[i + 1] /\ i + 1 \in DOMAIN s
         /\ \A i \in DOMAIN s : i = 1 \/ \E k \in DOMAIN Tail(s) : i = k + 1
<1>. DEFINE S == {s[i] : i \in DOMAIN s}
<1>1. s \in Seq(S)
  BY DEF IsSeq
<1>2. /\ Tail(s) \in Seq(S) /\ Len(Tail(s)) = Len(s) - 1 /\ Len(s) \in Nat \ {0}
      /\ Head(s) = s[1]
  BY <1>1
<1>3. DOMAIN s = 1 .. Len(s) /\ DOMAIN Tail(s) = 1 .. Len(s) - 1
  BY <1>1, <1>2
<1>4. \A i \in DOMAIN Tail(s) : Tail(s)[i] = s[i + 1] /\ i + 1 \in DOMAIN s
  BY <1>1, <1>2, <1>3
<1>5. ASSUME NEW i \in DOMAIN s, i # 1
      PROVE  \E k \in DOMAIN Tail(s) : i = k + 1
  <2>1. i - 1 \in DOMAIN Tail(s) /\ i = (i - 1) + 1
    BY <1>2, <1>3, <1>5
  <2>. QED  BY <2>1
<1>6. IsSeq(Tail(s))
  BY <1>2, SeqIsSeq
<1>. QED  BY <1>2, <1>3, <1>4, <1>5, <1>6

LEMMA EmptyConcat ==
  ASSUME NEW s, IsSeq(s)
  PROVE  <<>> \o s = s /\ s \o <<>> = s
BY DEF IsSeq
-----------------------------------------------------------------------------
(* What frames put in front of a stack, or taken off it, do to what is     *)
(* said of the stack.                                                      *)
LEMMA HasConcat ==
  ASSUME NEW s, NEW t, NEW names, IsSeq(s), IsSeq(t)
  PROVE  Has(s \o t, names) <=> Has(s, names) \/ Has(t, names)
<1>1. Has(s, names) => Has(s \o t, names)
  BY ConcatSeqs DEF Has
<1>2. ASSUME Has(t, names)
      PROVE  Has(s \o t, names)
  <2>1. PICK k \in DOMAIN t : t[k].f \in names
    BY <1>2 DEF Has
  <2>2. Len(s) + k \in DOMAIN (s \o t) /\ (s \o t)[Len(s) + k] = t[k]
    BY ConcatSeqs
  <2>. QED  BY <2>1, <2>2 DEF Has
<1>3. ASSUME Has(s \o t, names)
      PROVE  Has(s, names) \/ Has(t, names)
  <2>1. PICK i \in DOMAIN (s \o t) : (s \o t)[i].f \in names
    BY <1>3 DEF Has
  <2>2. CASE i \in DOMAIN s
    BY <2>1, <2>2, ConcatSeqs DEF Has
  <2>3. CASE i \notin DOMAIN s
    <3>0. \A n \in DOMAIN (s \o t) : n \in DOMAIN s \/ \E k \in DOMAIN t : n = Len(s) + k
      BY ConcatSeqs, Zenon
    <3>1. PICK k \in DOMAIN t : i = Len(s) + k
      BY <2>3, <3>0
    <3>2. (s \o t)[i] = t[k]
      BY <3>1, ConcatSeqs
    <3>. QED  BY <2>1, <3>2 DEF Has
  <2>. QED  BY <2>2, <2>3
<1>. QED  BY <1>1, <1>2, <1>3

LEMMA HasTail ==
  ASSUME NEW s, NEW names, IsSeq(s), s # <<>>
  PROVE  Has(s, names) <=> Head(s).f \in names \/ Has(Tail(s), names)
<1>1. Has(Tail(s), names) => Has(s, names)
  BY TailSeq DEF Has
<1>2. Head(s).f \in names => Has(s, names)
  BY TailSeq DEF Has
<1>3. Has(s, names) => Head(s).f \in names \/ Has(Tail(s), names)
  BY TailSeq DEF Has
<1>. QED  BY <1>1, <1>2, <1>3

LEMMA HasTuple ==
  ASSUME NEW names
  PROVE  /\ ~Has(<<>>, names)
         /\ \A a : Has(<<a>>, names) <=> a.f \in names
         /\ \A a, b : Has(<<a, b>>, names) <=> a.f \in names \/ b.f \in names
BY DEF Has

LEMMA VisitsConcat ==
  ASSUME NEW s, NEW t, NEW a, IsSeq(s), IsSeq(t)
  PROVE  Visits(s \o t, a) <=> Visits(s, a) \/ Visits(t, a)
<1>1. Visits(s, a) => Visits(s \o t, a)
  BY ConcatSeqs DEF Visits
<1>2. ASSUME Visits(t, a)
      PROVE  Visits(s \o t, a)
  <2>1. PICK k \in DOMAIN t : t[k].f = "visit" /\ Holds(t[k].actions, a)
    BY <1>2 DEF Visits
  <2>2. Len(s) + k \in DOMAIN (s \o t) /\ (s \o t)[Len(s) + k] = t[k]
    BY ConcatSeqs
  <2>. QED  BY <2>1, <2>2 DEF Visits
<1>3. ASSUME Visits(s \o t, a)
      PROVE  Visits(s, a) \/ Visits(t, a)
  <2>1. PICK i \in DOMAIN (s \o t) : (s \o t)[i].f = "visit" /\ Holds((s \o t)[i].actions, a)
    BY <1>3 DEF Visits
  <2>2. CASE i \in DOMAIN s
    BY <2>1, <2>2, ConcatSeqs DEF Visits
  <2>3. CASE i \notin DOMAIN s
    <3>0. \A n \in DOMAIN (s \o t) : n \in DOMAIN s \/ \E k \in DOMAIN t : n = Len(s) + k
      BY ConcatSeqs, Zenon
    <3>1. PICK k \in DOMAIN t : i = Len(s) + k
      BY <2>3, <3>0
    <3>2. (s \o t)[i] = t[k]
      BY <3>1, ConcatSeqs
    <3>. QED  BY <2>1, <3>2 DEF Visits
  <2>. QED  BY <2>2, <2>3
<1>. QED  BY <1>1, <1>2, <1>3

LEMMA VisitsTail ==
  ASSUME NEW s, NEW a, IsSeq(s), s # <<>>
  PROVE  Visits(s, a) <=> \/ Head(s).f = "visit" /\ Holds(Head(s).actions, a)
                          \/ Visits(Tail(s), a)
<1>1. Visits(Tail(s), a) => Visits(s, a)
  BY TailSeq DEF Visits
<1>2. Head(s).f = "visit" /\ Holds(Head(s).actions, a) => Visits(s, a)
  BY TailSeq DEF Visits
<1>3. Visits(s, a) => \/ Head(s).f = "visit" /\ Holds(Head(s).actions, a)
                      \/ Visits(Tail(s), a)
  BY TailSeq DEF Visits
<1>. QED  BY <1>1, <1>2, <1>3

LEMMA VisitsTuple ==
  ASSUME NEW a
  PROVE  ~Visits(<<>>, a) /\ \A as : Visits(<<Visit(as)>>, a) <=> Holds(as, a)
BY DEF Visits, Visit

(* A stack without a visit visits nothing.                                 *)
LEMMA VisitsHas ==
  ASSUME NEW s, NEW a, ~Has(s, {"visit"})
  PROVE  ~Visits(s, a)
BY DEF Visits, Has

(* What is said of the stack alone.                                        *)
WellFormed(s) == IsSeq(s) /\ VisitsOk(s) /\ OneVisit(s) /\ TellsReader(s)

LEMMA WellFormedConcat ==
  ASSUME NEW s, NEW t, WellFormed(s), WellFormed(t),
         ~Has(s, {"visit"}) \/ ~Has(t, {"visit"})
  PROVE  WellFormed(s \o t)
<1>1. IsSeq(s) /\ IsSeq(t) /\ IsSeq(s \o t) /\ Len(s) \in Nat
  BY ConcatSeqs, IsSeqDomain DEF WellFormed
<1>2. VisitsOk(s \o t)
  BY <1>1, ConcatSeqs DEF WellFormed, VisitsOk
<1>3. ASSUME NEW i \in DOMAIN (s \o t), NEW j \in DOMAIN (s \o t),
             (s \o t)[i].f = "visit", (s \o t)[j].f = "visit"
      PROVE  i = j
  <2>1. CASE i \in DOMAIN s /\ j \in DOMAIN s
    BY <1>1, <1>3, <2>1, ConcatSeqs DEF WellFormed, OneVisit
  <2>2. CASE i \notin DOMAIN s /\ j \notin DOMAIN s
    <3>1. PICK m \in DOMAIN t, n \in DOMAIN t : i = Len(s) + m /\ j = Len(s) + n
      BY <1>1, <2>2, ConcatSeqs
    <3>2. t[m].f = "visit" /\ t[n].f = "visit"
      BY <1>1, <1>3, <3>1, ConcatSeqs
    <3>3. m = n
      BY <3>2 DEF WellFormed, OneVisit
    <3>. QED  BY <3>1, <3>3
  <2>3. ASSUME NEW m \in DOMAIN (s \o t), NEW n \in DOMAIN (s \o t),
               m \in DOMAIN s, n \notin DOMAIN s,
               (s \o t)[m].f = "visit", (s \o t)[n].f = "visit"
        PROVE  FALSE
    <3>1. PICK k \in DOMAIN t : n = Len(s) + k
      BY <1>1, <2>3, ConcatSeqs
    <3>2. s[m].f = "visit" /\ t[k].f = "visit"
      BY <1>1, <2>3, <3>1, ConcatSeqs
    <3>. QED  BY <2>3, <3>2 DEF Has
  <2>. QED  BY <1>3, <2>1, <2>2, <2>3
<1>4. ASSUME NEW i \in DOMAIN (s \o t), (s \o t)[i].f = "moveToErrorState"
      PROVE  \E j \in DOMAIN (s \o t) : j > i /\ (s \o t)[j].f = "deliverError"
  <2>1. CASE i \in DOMAIN s
    <3>1. PICK j \in DOMAIN s : j > i /\ s[j].f = "deliverError"
      BY <1>1, <1>4, <2>1, ConcatSeqs DEF WellFormed, TellsReader
    <3>. QED  BY <1>1, <3>1, ConcatSeqs
  <2>2. CASE i \notin DOMAIN s
    <3>1. PICK k \in DOMAIN t : i = Len(s) + k
      BY <1>1, <2>2, ConcatSeqs
    <3>2. PICK n \in DOMAIN t : n > k /\ t[n].f = "deliverError"
      BY <1>1, <1>4, <3>1, ConcatSeqs DEF WellFormed, TellsReader
    <3>3. k \in Nat /\ n \in Nat
      BY <1>1, IsSeqDomain
    <3>4. Len(s) + n > i
      BY <1>1, <3>1, <3>2, <3>3
    <3>. QED  BY <1>1, <3>2, <3>4, ConcatSeqs
  <2>. QED  BY <2>1, <2>2
<1>. QED  BY <1>1, <1>2, <1>3, <1>4 DEF WellFormed, OneVisit, TellsReader

LEMMA WellFormedTail ==
  ASSUME NEW s, WellFormed(s), s # <<>>
  PROVE  /\ WellFormed(Tail(s))
         /\ Head(s).f = "visit" => ActionsOk(Head(s).actions) /\ ~Has(Tail(s), {"visit"})
         /\ Head(s).f = "moveToErrorState" => Has(Tail(s), {"deliverError"})
<1>1. IsSeq(s) /\ IsSeq(Tail(s)) /\ DOMAIN s \subseteq Nat /\ DOMAIN Tail(s) \subseteq Nat
  BY TailSeq, IsSeqDomain DEF WellFormed
<1>2. VisitsOk(Tail(s))
  BY <1>1, TailSeq DEF WellFormed, VisitsOk
<1>3. OneVisit(Tail(s))
  <2>. SUFFICES ASSUME NEW i \in DOMAIN Tail(s), NEW j \in DOMAIN Tail(s),
                       Tail(s)[i].f = "visit", Tail(s)[j].f = "visit"
                PROVE  i = j
    BY DEF OneVisit
  <2>1. /\ i + 1 \in DOMAIN s /\ j + 1 \in DOMAIN s
        /\ s[i + 1].f = "visit" /\ s[j + 1].f = "visit"
    BY <1>1, TailSeq
  <2>2. i + 1 = j + 1
    BY <2>1 DEF WellFormed, OneVisit
  <2>. QED  BY <1>1, <2>2
<1>4. TellsReader(Tail(s))
  <2>. SUFFICES ASSUME NEW i \in DOMAIN Tail(s), Tail(s)[i].f = "moveToErrorState"
                PROVE  \E j \in DOMAIN Tail(s) : j > i /\ Tail(s)[j].f = "deliverError"
    BY DEF TellsReader
  <2>1. i + 1 \in DOMAIN s /\ s[i + 1].f = "moveToErrorState"
    BY <1>1, TailSeq
  <2>2. PICK j \in DOMAIN s : j > i + 1 /\ s[j].f = "deliverError"
    BY <2>1 DEF WellFormed, TellsReader
  <2>3. PICK k \in DOMAIN Tail(s) : j = k + 1
    BY <1>1, <2>2, TailSeq
  <2>. QED  BY <1>1, <2>2, <2>3, TailSeq
<1>5. ASSUME Head(s).f = "visit", Has(Tail(s), {"visit"})
      PROVE  FALSE
  <2>1. PICK k \in DOMAIN Tail(s) : Tail(s)[k].f = "visit"
    BY <1>5 DEF Has
  <2>2. k + 1 \in DOMAIN s /\ s[k + 1].f = "visit" /\ 1 \in DOMAIN s /\ s[1].f = "visit"
    BY <1>1, <1>5, <2>1, TailSeq
  <2>3. k + 1 = 1 /\ k \in Nat /\ k >= 1
    BY <1>1, <2>2, IsSeqDomain DEF WellFormed, OneVisit
  <2>. QED  BY <2>3
<1>6. Head(s).f = "visit" => ActionsOk(Head(s).actions)
  BY <1>1, TailSeq DEF WellFormed, VisitsOk
<1>7. ASSUME Head(s).f = "moveToErrorState"
      PROVE  Has(Tail(s), {"deliverError"})
  <2>1. PICK j \in DOMAIN s : j > 1 /\ s[j].f = "deliverError"
    BY <1>1, <1>7, TailSeq DEF WellFormed, TellsReader
  <2>2. PICK k \in DOMAIN Tail(s) : j = k + 1
    BY <1>1, <2>1, TailSeq
  <2>. QED  BY <1>1, <2>1, <2>2, TailSeq DEF Has
<1>. QED  BY <1>1, <1>2, <1>3, <1>4, <1>5, <1>6, <1>7 DEF WellFormed

LEMMA TellsFirstConcat ==
  ASSUME NEW s, NEW t, IsSeq(s), IsSeq(t), TellsFirst(s),
         TellsFirst(t) \/ Has(s, {"deliverHandshakeError"})
  PROVE  TellsFirst(s \o t)
<1>. SUFFICES ASSUME NEW i \in DOMAIN (s \o t), (s \o t)[i].f = "moveToErrorState"
              PROVE  \E j \in DOMAIN (s \o t) : j < i /\ (s \o t)[j].f = "deliverHandshakeError"
  BY DEF TellsFirst
<1>0. Len(s) \in Nat /\ DOMAIN s = 1 .. Len(s) /\ Len(t) \in Nat /\ DOMAIN t = 1 .. Len(t)
  BY IsSeqDomain
<1>1. CASE i \in DOMAIN s
  <2>1. PICK j \in DOMAIN s : j < i /\ s[j].f = "deliverHandshakeError"
    BY <1>1, ConcatSeqs DEF TellsFirst
  <2>. QED  BY <2>1, ConcatSeqs
<1>2. CASE i \notin DOMAIN s
  <2>1. PICK k \in DOMAIN t : i = Len(s) + k
    BY <1>2, ConcatSeqs
  <2>2. CASE TellsFirst(t)
    <3>0. t[k].f = "moveToErrorState"
      BY <2>1, ConcatSeqs
    <3>1. PICK n \in DOMAIN t : n < k /\ t[n].f = "deliverHandshakeError"
      BY <2>2, <3>0 DEF TellsFirst
    <3>2. Len(s) + n < i
      BY <1>0, <2>1, <3>1
    <3>. QED  BY <3>1, <3>2, ConcatSeqs
  <2>3. CASE Has(s, {"deliverHandshakeError"})
    <3>1. PICK n \in DOMAIN s : s[n].f = "deliverHandshakeError"
      BY <2>3 DEF Has
    <3>2. n < i
      BY <1>0, <2>1, <3>1
    <3>. QED  BY <3>1, <3>2, ConcatSeqs
  <2>. QED  BY <2>2, <2>3
<1>. QED  BY <1>1, <1>2

LEMMA TellsFirstTail ==
  ASSUME NEW s, IsSeq(s), s # <<>>, TellsFirst(s)
  PROVE  /\ Head(s).f # "moveToErrorState"
         /\ Head(s).f # "deliverHandshakeError" => TellsFirst(Tail(s))
<1>0. DOMAIN s = 1 .. Len(s) /\ Len(s) \in Nat
  BY IsSeqDomain
<1>1. Head(s).f # "moveToErrorState"
  BY <1>0, TailSeq DEF TellsFirst
<1>2. ASSUME Head(s).f # "deliverHandshakeError"
      PROVE  TellsFirst(Tail(s))
  <2>. SUFFICES ASSUME NEW i \in DOMAIN Tail(s), Tail(s)[i].f = "moveToErrorState"
                PROVE  \E j \in DOMAIN Tail(s) : j < i /\ Tail(s)[j].f = "deliverHandshakeError"
    BY DEF TellsFirst
  <2>1. i + 1 \in DOMAIN s /\ s[i + 1].f = "moveToErrorState"
    BY TailSeq
  <2>2. PICK j \in DOMAIN s : j < i + 1 /\ s[j].f = "deliverHandshakeError"
    BY <2>1 DEF TellsFirst
  <2>3. j # 1
    BY <1>2, <2>2, TailSeq
  <2>4. PICK k \in DOMAIN Tail(s) : j = k + 1
    BY <2>3, TailSeq
  <2>5. Tail(s)[k].f = "deliverHandshakeError" /\ DOMAIN Tail(s) \subseteq Nat
    BY <2>2, <2>4, TailSeq, IsSeqDomain
  <2>. QED  BY <2>2, <2>4, <2>5
<1>. QED  BY <1>1, <1>2
LEMMA ReportingHas ==
  ASSUME NEW s
  PROVE  /\ Reporting(s) => Has(s, {"visit"})
         /\ Visits(s, "ReportHandshakeSuccess") => Reporting(s)
BY DEF Reporting, Visits, Has

LEMMA ReportingConcat ==
  ASSUME NEW s, NEW t, IsSeq(s), IsSeq(t)
  PROVE  /\ Reporting(t) => Reporting(s \o t)
         /\ Has(s, Reporters) /\ Has(t, {"visit"}) => Reporting(s \o t)
<1>0. Len(s) \in Nat /\ DOMAIN s = 1 .. Len(s) /\ DOMAIN t \subseteq Nat \ {0}
  BY IsSeqDomain
<1>1. ASSUME Reporting(t)
      PROVE  Reporting(s \o t)
  <2>1. PICK i \in DOMAIN t :
          /\ t[i].f = "visit"
          /\ \/ Holds(t[i].actions, "ReportHandshakeSuccess")
             \/ \E j \in DOMAIN t : j < i /\ t[j].f \in Reporters
    BY <1>1 DEF Reporting
  <2>2. Len(s) + i \in DOMAIN (s \o t) /\ (s \o t)[Len(s) + i] = t[i]
    BY ConcatSeqs
  <2>3. CASE Holds(t[i].actions, "ReportHandshakeSuccess")
    BY <2>1, <2>2, <2>3 DEF Reporting
  <2>4. ASSUME NEW j \in DOMAIN t, j < i, t[j].f \in Reporters
        PROVE  Reporting(s \o t)
    <3>1. Len(s) + j \in DOMAIN (s \o t) /\ (s \o t)[Len(s) + j] = t[j]
      BY ConcatSeqs
    <3>2. Len(s) + j < Len(s) + i
      BY <1>0, <2>4
    <3>. QED  BY <2>1, <2>2, <2>4, <3>1, <3>2 DEF Reporting
  <2>. QED  BY <2>1, <2>3, <2>4
<1>a. \A i \in DOMAIN t : Len(s) + i \in DOMAIN (s \o t) /\ (s \o t)[Len(s) + i] = t[i]
  BY ConcatSeqs
<1>2. ASSUME Has(s, Reporters), Has(t, {"visit"})
      PROVE  Reporting(s \o t)
  <2>1. PICK j \in DOMAIN s, i \in DOMAIN t : s[j].f \in Reporters /\ t[i].f = "visit"
    BY <1>2 DEF Has
  <2>2. Len(s) + i \in DOMAIN (s \o t) /\ (s \o t)[Len(s) + i] = t[i]
    BY <1>a, <2>1, Zenon
  <2>3. j \in DOMAIN (s \o t) /\ (s \o t)[j] = s[j]
    BY <2>1, ConcatSeqs, Zenon
  <2>4. j < Len(s) + i
    BY <1>0
  <2>. QED  BY <2>1, <2>2, <2>3, <2>4 DEF Reporting
<1>. QED  BY <1>1, <1>2

LEMMA ReportingTail ==
  ASSUME NEW s, IsSeq(s), s # <<>>, Reporting(s)
  PROVE  /\ Head(s).f \notin Reporters \cup {"visit"} => Reporting(Tail(s))
         /\ Head(s).f # "visit" => Has(Tail(s), {"visit"})
         /\ Head(s).f = "visit" /\ ~Has(Tail(s), {"visit"})
              => Holds(Head(s).actions, "ReportHandshakeSuccess")
<1>0. DOMAIN s = 1 .. Len(s) /\ Len(s) \in Nat /\ DOMAIN Tail(s) \subseteq Nat
  BY IsSeqDomain, TailSeq
<1>1. PICK i \in DOMAIN s :
        /\ s[i].f = "visit"
        /\ \/ Holds(s[i].actions, "ReportHandshakeSuccess")
           \/ \E j \in DOMAIN s : j < i /\ s[j].f \in Reporters
  BY DEF Reporting
<1>2. CASE i = 1
  <2>1. Head(s) = s[1]
    BY TailSeq
  <2>2. ~\E j \in DOMAIN s : j < i
    BY <1>0, <1>2
  <2>. QED  BY <1>1, <1>2, <2>1, <2>2
<1>3. CASE i # 1
  <2>1. PICK k \in DOMAIN Tail(s) : i = k + 1
    BY <1>3, TailSeq
  <2>2. Tail(s)[k] = s[i]
    BY <2>1, TailSeq
  <2>3. Has(Tail(s), {"visit"})
    BY <1>1, <2>2 DEF Has
  <2>4. ASSUME Head(s).f \notin Reporters
        PROVE  Reporting(Tail(s))
    <3>1. CASE Holds(s[i].actions, "ReportHandshakeSuccess")
      BY <1>1, <2>2, <3>1 DEF Reporting
    <3>2. ASSUME NEW j \in DOMAIN s, j < i, s[j].f \in Reporters
          PROVE  Reporting(Tail(s))
      <4>1. j # 1
        BY <2>4, <3>2, TailSeq
      <4>2. PICK n \in DOMAIN Tail(s) : j = n + 1
        BY <4>1, TailSeq
      <4>3. Tail(s)[n] = s[j] /\ n < k
        BY <1>0, <2>1, <3>2, <4>2, TailSeq
      <4>. QED  BY <1>1, <2>2, <3>2, <4>3 DEF Reporting
    <3>. QED  BY <1>1, <3>1, <3>2
  <2>. QED  BY <2>3, <2>4
<1>. QED  BY <1>2, <1>3

-----------------------------------------------------------------------------
(* Lists of actions.                                                       *)
LEMMA HoldsTail ==
  ASSUME NEW as, NEW a, IsSeq(as), as # <<>>
  PROVE  Holds(as, a) <=> Head(as).a = a \/ Holds(Tail(as), a)
<1>1. Holds(Tail(as), a) => Holds(as, a)
  BY TailSeq DEF Holds
<1>2. Head(as).a = a => Holds(as, a)
  BY TailSeq DEF Holds
<1>3. ASSUME Holds(as, a)
      PROVE  Head(as).a = a \/ Holds(Tail(as), a)
  <2>0. \A i \in DOMAIN as : i = 1 \/ \E k \in DOMAIN Tail(as) : i = k + 1
    BY TailSeq, Zenon
  <2>1. PICK i \in DOMAIN as : as[i].a = a
    BY <1>3 DEF Holds
  <2>2. CASE i = 1
    BY <2>1, <2>2, TailSeq
  <2>3. CASE i # 1
    <3>1. PICK k \in DOMAIN Tail(as) : i = k + 1
      BY <2>0, <2>3
    <3>. QED  BY <2>1, <3>1, TailSeq DEF Holds
  <2>. QED  BY <2>2, <2>3
<1>. QED  BY <1>1, <1>2, <1>3

LEMMA ActionsTail ==
  ASSUME NEW as, ActionsOk(as), as # <<>>
  PROVE  /\ IsSeq(as) /\ ActionsOk(Tail(as))
         /\ Head(as).a = "MutateState" =>
              /\ Head(as).state # "Uninitialized"
              /\ Head(as).state = "Open" => Holds(Tail(as), "ReportHandshakeSuccess")
<1>a. IsSeq(as)
  BY DEF ActionsOk
<1>b. IsSeq(Tail(as)) /\ Head(as) = as[1] /\ 1 \in DOMAIN as
  BY <1>a, TailSeq
<1>c. \A i \in DOMAIN as : i = 1 \/ \E k \in DOMAIN Tail(as) : i = k + 1
  BY <1>a, TailSeq, Zenon
<1>d. DOMAIN as \subseteq Nat \ {0}
  <2>1. \A i \in DOMAIN as : i \in Nat /\ i >= 1
    BY <1>a, SeqIndices, Zenon
  <2>. SUFFICES ASSUME NEW i \in DOMAIN as PROVE i \in Nat \ {0}
    OBVIOUS
  <2>2. i \in Nat /\ i >= 1
    BY <2>1, Zenon
  <2>. QED  BY <2>2
<1>e. DOMAIN Tail(as) \subseteq Nat
  <2>1. \A i \in DOMAIN Tail(as) : i \in Nat /\ i >= 1
    BY <1>b, SeqIndices, Zenon
  <2>. QED  BY <2>1, Zenon
<1>0. /\ IsSeq(as) /\ IsSeq(Tail(as)) /\ Head(as) = as[1] /\ 1 \in DOMAIN as
      /\ DOMAIN as \subseteq Nat \ {0} /\ DOMAIN Tail(as) \subseteq Nat
  BY <1>a, <1>b, <1>d, <1>e
<1>1. ASSUME NEW k \in DOMAIN Tail(as), Tail(as)[k].a = "MutateState"
      PROVE  /\ Tail(as)[k].state # "Uninitialized"
             /\ Tail(as)[k].state = "Open" =>
                  \E n \in DOMAIN Tail(as) :
                    n > k /\ Tail(as)[n].a = "ReportHandshakeSuccess"
  <2>1. k + 1 \in DOMAIN as /\ as[k + 1] = Tail(as)[k]
    BY <1>0, TailSeq
  <2>2. as[k + 1].state # "Uninitialized"
    BY <1>1, <2>1 DEF ActionsOk
  <2>3. ASSUME as[k + 1].state = "Open"
        PROVE  \E n \in DOMAIN Tail(as) :
                 n > k /\ Tail(as)[n].a = "ReportHandshakeSuccess"
    <3>1. PICK m \in DOMAIN as : m > k + 1 /\ as[m].a = "ReportHandshakeSuccess"
      BY <1>1, <2>1, <2>3 DEF ActionsOk
    <3>a. m # 1
      BY <1>d, <1>e, <3>1
    <3>2. PICK n \in DOMAIN Tail(as) : m = n + 1
      BY <1>c, <3>1, <3>a, Zenon
    <3>3. Tail(as)[n] = as[m] /\ n > k
      BY <1>0, <3>1, <3>2, TailSeq
    <3>. QED  BY <3>1, <3>3
  <2>. QED  BY <2>1, <2>2, <2>3
<1>2. ASSUME as[1].a = "MutateState"
      PROVE  /\ as[1].state # "Uninitialized"
             /\ as[1].state = "Open" => Holds(Tail(as), "ReportHandshakeSuccess")
  <2>1. as[1].state # "Uninitialized"
    BY <1>0, <1>2 DEF ActionsOk
  <2>2. ASSUME as[1].state = "Open"
        PROVE  Holds(Tail(as), "ReportHandshakeSuccess")
    <3>1. PICK m \in DOMAIN as : m > 1 /\ as[m].a = "ReportHandshakeSuccess"
      BY <1>0, <1>2, <2>2 DEF ActionsOk
    <3>a. m # 1
      BY <1>d, <3>1
    <3>2. PICK n \in DOMAIN Tail(as) : m = n + 1
      BY <1>c, <3>1, <3>a, Zenon
    <3>. QED  BY <1>0, <3>1, <3>2, TailSeq DEF Holds
  <2>. QED  BY <2>1, <2>2
<1>. QED  BY <1>0, <1>1, <1>2 DEF ActionsOk

(* Actions that neither open the machine, nor touch data, nor report.      *)
Mild(x) ==
  /\ x.a \notin {"WaitForData", "DeliverAppData", "ReportHandshakeSuccess"}
  /\ x.a = "MutateState" => x.state \notin {"Uninitialized", "Open"}
AllMild(as) == IsSeq(as) /\ \A k \in DOMAIN as : Mild(as[k])
Unhurried(as) == ActionsOk(as) /\ ~Holds(as, "WaitForData")

LEMMA MildLists ==
  /\ AllMild(<<>>)
  /\ \A x : Mild(x) => AllMild(<<x>>)
  /\ \A x, y : Mild(x) /\ Mild(y) => AllMild(<<x, y>>)
  /\ \A x, y, z : Mild(x) /\ Mild(y) /\ Mild(z) => AllMild(<<x, y, z>>)
BY TuplesAreSeqs DEF AllMild

LEMMA MildConcat ==
  ASSUME NEW s, NEW t, AllMild(s), AllMild(t)
  PROVE  AllMild(s \o t)
<1>1. IsSeq(s) /\ IsSeq(t)
  BY DEF AllMild
<1>2. ASSUME NEW i \in DOMAIN (s \o t)
      PROVE  Mild((s \o t)[i])
  <2>1. CASE i \in DOMAIN s
    BY <1>1, <2>1, ConcatSeqs DEF AllMild
  <2>2. CASE i \notin DOMAIN s
    <3>0. \A n \in DOMAIN (s \o t) : n \in DOMAIN s \/ \E k \in DOMAIN t : n = Len(s) + k
      BY <1>1, ConcatSeqs, Zenon
    <3>1. PICK k \in DOMAIN t : i = Len(s) + k
      BY <2>2, <3>0
    <3>2. (s \o t)[i] = t[k]
      BY <1>1, <3>1, ConcatSeqs
    <3>. QED  BY <3>2 DEF AllMild
  <2>. QED  BY <2>1, <2>2
<1>. QED  BY <1>1, <1>2, ConcatSeqs DEF AllMild

LEMMA MildIsOk ==
  ASSUME NEW as, AllMild(as)
  PROVE  /\ Unhurried(as)
         /\ ~Holds(as, "DeliverAppData") /\ ~Holds(as, "ReportHandshakeSuccess")
BY DEF AllMild, Mild, Unhurried, ActionsOk, Holds

LEMMA FailureIsMild == AllMild(Failure)
BY MildLists DEF Failure, Mutate, Flight, WriteToSocket, Mild

LEMMA EventActionsAreMild ==
  ASSUME NEW e
  PROVE  AllMild(EventActions(e))
<1>. USE DEF Mutate, Flight, WriteToSocket, Mild
<1>1. AllMild(<<Mutate("ExpectingCloseNotify"), Flight>>) /\ AllMild(<<Mutate("Closed")>>)
  BY MildLists
<1>2. AllMild(<<Flight>>)
  BY MildLists
<1>3. AllMild(<<Mutate("Closed")>> \o IF HasWriteLayer THEN <<Flight>> ELSE <<>>)
  BY <1>1, <1>2, MildConcat, MildLists
<1>4. /\ AllMild(<<WriteToSocket(e.token, e.data, FALSE)>>)
      /\ AllMild(<<WriteToSocket(e.token, e.data, fb.state = "Connecting")>>)
      /\ AllMild(<<WriteToSocket(NoToken, <<0>>, FALSE)>>)
      /\ AllMild(<<[a |-> "ReportEarlyWriteFailed", token |-> e.token]>>)
  BY MildLists
<1>. HIDE DEF Mutate, Flight, WriteToSocket, Mild
<1>. QED  BY <1>1, <1>3, <1>4, FailureIsMild DEF EventActions

LEMMA ConnectActionsAreMild ==
  ASSUME NEW early
  PROVE  AllMild(ConnectActions(early))
<1>. USE DEF Mutate, Flight, WriteToSocket, Mild
<1>1. AllMild(<<Mutate("Connecting"), Flight>>)
  BY MildLists
<1>2. AllMild(<<[a |-> "EarlyData", type |-> "Attempted"],
                [a |-> "ReportEarlyHandshakeSuccess"]>>)
  BY MildLists
<1>. HIDE DEF Mutate, Flight, WriteToSocket, Mild
<1>3. CASE early
  <2>1. AllMild(<<Mutate("Connecting"), Flight>> \o
                <<[a |-> "EarlyData", type |-> "Attempted"],
                  [a |-> "ReportEarlyHandshakeSuccess"]>>)
    BY <1>1, <1>2, MildConcat
  <2>. QED  BY <1>3, <2>1, FailureIsMild DEF ConnectActions
<1>4. CASE ~early
  <2>1. AllMild(<<Mutate("Connecting"), Flight>> \o <<>>)
    BY <1>1, MildConcat, MildLists
  <2>. QED  BY <1>4, <2>1, FailureIsMild DEF ConnectActions
<1>. QED  BY <1>3, <1>4

(* Data are delivered by an open machine, or after the report of success.  *)
LEMMA RecordActionsAreOk ==
  ASSUME NEW as \in RecordActions, Role \in {"client", "server"}
  PROVE  /\ Unhurried(as)
         /\ Holds(as, "DeliverAppData") => fb.state = "Open" \/ ~sub.callback
<1>. USE DEF Mutate, Flight, WriteToSocket, Mild
<1>1. \A t : AllMild(<<[a |-> "EarlyData", type |-> t]>>)
  BY MildLists
<1>2. /\ AllMild(<<Flight, Mutate("HalfOpen")>>)
      /\ AllMild(<<Flight, Mutate("HalfOpen"), [a |-> "ReportEarlyHandshakeSuccess"]>>)
      /\ AllMild(<<Mutate("Error"), [a |-> "AttemptVersionFallback"]>>)
  BY MildLists
<1>3. AllMild(CloseNotified) /\ AllMild(<<Flight>>)
  BY MildLists DEF CloseNotified
<1>4. AllMild(<<Flight>> \o CloseNotified)
  BY <1>3, MildConcat
<1>5. \A b : LET l == <<Mutate("Open"), Flight, [a |-> "ReportHandshakeSuccess", accepted |-> b]>>
             IN Unhurried(l) /\ ~Holds(l, "DeliverAppData")
  BY TuplesAreSeqs DEF Unhurried, ActionsOk, Holds
<1>6. \A b : LET l == <<Mutate("Open"), [a |-> "ReportHandshakeSuccess", accepted |-> b]>>
             IN Unhurried(l) /\ ~Holds(l, "DeliverAppData")
  BY TuplesAreSeqs DEF Unhurried, ActionsOk, Holds
<1>7. Unhurried(<<[a |-> "DeliverAppData"]>>)
  BY TuplesAreSeqs DEF Unhurried, ActionsOk, Holds
<1>. HIDE DEF Mutate, Flight, WriteToSocket, Mild
<1>8. AllMild(as) => Unhurried(as) /\ ~Holds(as, "DeliverAppData")
  BY MildIsOk
<1>9. CASE fb.state \notin {"Connecting", "HalfOpen", "Open", "ExpectingCloseNotify"}
  BY <1>8, <1>9, FailureIsMild DEF RecordActions
<1>10. CASE fb.state = "Connecting" /\ Role = "client"
  <2>1. \/ as = Failure
        \/ \E t : as = <<[a |-> "EarlyData", type |-> t]>>
        \/ \E b : as = <<Mutate("Open"), Flight,
                         [a |-> "ReportHandshakeSuccess", accepted |-> b]>>
    <3>1. \/ as = Failure
          \/ as \in {<<[a |-> "EarlyData", type |-> t]>> : t \in {"Accepted", "Rejected"}}
          \/ as \in {<<Mutate("Open"), Flight,
                       [a |-> "ReportHandshakeSuccess", accepted |-> fb.early = "Accepted"]>>}
      BY <1>10 DEF RecordActions
    <3>. QED  BY <3>1, Zenon
  <2>. QED  BY <1>1, <1>5, <1>8, <2>1, FailureIsMild
<1>11. CASE fb.state = "Connecting" /\ Role = "server"
  <2>1. \/ as = Failure
        \/ as = <<Flight, Mutate("HalfOpen")>>
        \/ as = <<Flight, Mutate("HalfOpen"), [a |-> "ReportEarlyHandshakeSuccess"]>>
        \/ as = <<Mutate("Error"), [a |-> "AttemptVersionFallback"]>>
    BY <1>11 DEF RecordActions
  <2>. QED  BY <1>2, <1>8, <2>1, FailureIsMild
<1>12. CASE fb.state = "HalfOpen"
  <2>1. \/ as = Failure
        \/ as = <<Mutate("Open"), [a |-> "ReportHandshakeSuccess", accepted |-> TRUE]>>
        \/ ~sub.callback /\ as = <<[a |-> "DeliverAppData"]>>
    BY <1>12 DEF RecordActions
  <2>. QED  BY <1>6, <1>7, <1>8, <2>1, FailureIsMild
<1>13. CASE fb.state = "Open"
  <2>1. \/ as = Failure
        \/ as = <<[a |-> "DeliverAppData"]>>
        \/ as = <<Flight>> \o CloseNotified
    BY <1>13 DEF RecordActions
  <2>. QED  BY <1>4, <1>7, <1>8, <1>13, <2>1, FailureIsMild
<1>14. CASE fb.state = "ExpectingCloseNotify"
  <2>1. as = Failure \/ as = CloseNotified
    BY <1>14 DEF RecordActions
  <2>. QED  BY <1>3, <1>8, <2>1, FailureIsMild
<1>. QED  BY <1>9, <1>10, <1>11, <1>12, <1>13, <1>14
-----------------------------------------------------------------------------
(* Most of the code takes its own frame off the stack and puts ordinary    *)
(* ones on it.  What the invariant says of the stack then stays.           *)
Ordinary(fs) == WellFormed(fs) /\ TellsFirst(fs) /\ ~Has(fs, {"visit"})
Unordinary == {"visit", "moveToErrorState"}
Special == {"visit", "moveToErrorState", "deliverError", "setReadCB", "attached"}
             \cup Reporters

(* The visit stays, and what was to be told is still to be told.           *)
Keeps(s, t) ==
  /\ WellFormed(t)
  /\ Has(t, {"visit"}) <=> Has(s, {"visit"})
  /\ \A a : Visits(t, a) <=> Visits(s, a)
  /\ TellsFirst(s) => TellsFirst(t)
  /\ Reporting(s) => Reporting(t)

LEMMA PlainIsOrdinary ==
  ASSUME NEW fs, IsSeq(fs), ~Has(fs, Unordinary)
  PROVE  Ordinary(fs)
<1>1. \A i \in DOMAIN fs : fs[i].f \notin Unordinary
  BY DEF Has
<1>2. ~Has(fs, {"visit"})
  BY <1>1 DEF Has, Unordinary
<1>3. VisitsOk(fs) /\ OneVisit(fs) /\ TellsReader(fs) /\ TellsFirst(fs)
  BY <1>1 DEF VisitsOk, OneVisit, TellsReader, TellsFirst, Unordinary
<1>. QED  BY <1>2, <1>3 DEF WellFormed, Ordinary

LEMMA OrdinaryFrames ==
  /\ Ordinary(<<>>)
  /\ \A x : x.f \notin Unordinary => Ordinary(<<x>>)
  /\ \A x, y : x.f \notin Unordinary /\ y.f \notin Unordinary => Ordinary(<<x, y>>)
BY TuplesAreSeqs, HasTuple, PlainIsOrdinary

LEMMA OrdinaryConcat ==
  ASSUME NEW s, NEW t, Ordinary(s), Ordinary(t)
  PROVE  Ordinary(s \o t)
<1>1. IsSeq(s) /\ IsSeq(t)
  BY DEF Ordinary, WellFormed
<1>. QED  BY <1>1, WellFormedConcat, TellsFirstConcat, HasConcat DEF Ordinary

(* What deliverAllErrors does: tell the handshake callback, move the       *)
(* machine to the error state, tell the reader.                            *)
LEMMA ErrorFramesAreOrdinary ==
  ASSUME NEW ex, NEW close
  PROVE  /\ Ordinary(ServerErrorFrames(ex, close)) /\ Ordinary(ClientErrorFrames(ex, close))
         /\ \A fs \in {ServerErrorFrames(ex, close), ClientErrorFrames(ex, close)} :
              /\ Has(fs, Reporters) /\ Has(fs, Resumers)
              /\ Has(fs, {"setReadCB", "deliverError"})
              /\ ~Has(fs, {"deliverAppData"}) /\ ~Has(fs, {"sockFail"})
<1>. DEFINE a == Frame("deliverHandshakeError") b == Frame("failPendingWrites")
            c == Frame("moveToErrorState")
            d == [f |-> "deliverError", ex |-> ex, close |-> close]
<1>1. /\ a.f = "deliverHandshakeError" /\ b.f = "failPendingWrites"
      /\ c.f = "moveToErrorState" /\ d.f = "deliverError"
  BY DEF Frame
<1>2. ServerErrorFrames(ex, close) = <<a, c, d>> /\ ClientErrorFrames(ex, close) = <<a, b, c, d>>
  BY DEF ServerErrorFrames, ClientErrorFrames
<1>. HIDE DEF a, b, c, d
<1>3. Ordinary(<<a, c, d>>)
  <2>1. /\ IsSeq(<<a, c, d>>) /\ VisitsOk(<<a, c, d>>) /\ OneVisit(<<a, c, d>>)
        /\ ~Has(<<a, c, d>>, {"visit"})
    BY <1>1, TuplesAreSeqs DEF VisitsOk, OneVisit, Has
  <2>2. TellsReader(<<a, c, d>>) /\ TellsFirst(<<a, c, d>>)
    BY <1>1 DEF TellsReader, TellsFirst
  <2>. QED  BY <2>1, <2>2 DEF Ordinary, WellFormed
<1>4. Ordinary(<<a, b, c, d>>)
  <2>1. /\ IsSeq(<<a, b, c, d>>) /\ VisitsOk(<<a, b, c, d>>) /\ OneVisit(<<a, b, c, d>>)
        /\ ~Has(<<a, b, c, d>>, {"visit"})
    BY <1>1, TuplesAreSeqs DEF VisitsOk, OneVisit, Has
  <2>2. TellsReader(<<a, b, c, d>>) /\ TellsFirst(<<a, b, c, d>>)
    BY <1>1 DEF TellsReader, TellsFirst
  <2>. QED  BY <2>1, <2>2 DEF Ordinary, WellFormed
<1>5. \A fs \in {<<a, c, d>>, <<a, b, c, d>>} :
        /\ Has(fs, Reporters) /\ Has(fs, Resumers) /\ Has(fs, {"setReadCB", "deliverError"})
        /\ ~Has(fs, {"deliverAppData"}) /\ ~Has(fs, {"sockFail"})
  BY <1>1 DEF Has, Reporters, Resumers
<1>. QED  BY <1>2, <1>3, <1>4, <1>5

LEMMA Pushed ==
  ASSUME NEW s, NEW fs, WellFormed(s), Ordinary(fs)
  PROVE  /\ Keeps(s, fs \o s)
         /\ \A names : Has(fs \o s, names) <=> Has(fs, names) \/ Has(s, names)
<1>0. IsSeq(s) /\ IsSeq(fs) /\ TellsFirst(fs) /\ ~Has(fs, {"visit"})
  BY DEF Ordinary, WellFormed
<1>1. WellFormed(fs \o s)
  BY WellFormedConcat DEF Ordinary
<1>2. \A names : Has(fs \o s, names) <=> Has(fs, names) \/ Has(s, names)
  BY <1>0, HasConcat
<1>3. TellsFirst(s) => TellsFirst(fs \o s)
  BY <1>0, TellsFirstConcat
<1>4. Reporting(s) => Reporting(fs \o s)
  BY <1>0, ReportingConcat
<1>5. \A a : Visits(fs \o s, a) <=> Visits(s, a)
  BY <1>0, VisitsConcat, VisitsHas
<1>. QED  BY <1>0, <1>1, <1>2, <1>3, <1>4, <1>5 DEF Keeps

(* The frame of a function that reports is replaced by one that will.      *)
LEMMA Replaced ==
  ASSUME NEW s, NEW fs, WellFormed(s), s # <<>>, Ordinary(fs), Head(s).f # "visit"
  PROVE  /\ WellFormed(fs \o Tail(s))
         /\ Has(fs \o Tail(s), {"visit"}) <=> Has(s, {"visit"})
         /\ \A a : Visits(fs \o Tail(s), a) <=> Visits(s, a)
         /\ Head(s).f # "deliverHandshakeError" /\ TellsFirst(s) => TellsFirst(fs \o Tail(s))
         /\ (Head(s).f \in Reporters => Has(fs, Reporters)) /\ Reporting(s)
              => Reporting(fs \o Tail(s))
         /\ \A names : Has(fs \o Tail(s), names) <=> Has(fs, names) \/ Has(Tail(s), names)
         /\ \A names : Has(s, names) <=> Head(s).f \in names \/ Has(Tail(s), names)
<1>0. /\ IsSeq(s) /\ IsSeq(Tail(s)) /\ IsSeq(fs) /\ WellFormed(Tail(s))
      /\ TellsFirst(fs) /\ ~Has(fs, {"visit"})
  BY WellFormedTail, TailSeq DEF WellFormed, Ordinary
<1>1. /\ Keeps(Tail(s), fs \o Tail(s))
      /\ \A names : Has(fs \o Tail(s), names) <=> Has(fs, names) \/ Has(Tail(s), names)
  BY <1>0, Pushed
<1>2. \A names : Has(s, names) <=> Head(s).f \in names \/ Has(Tail(s), names)
  BY <1>0, HasTail
<1>3. Has(Tail(s), {"visit"}) <=> Has(s, {"visit"})
  BY <1>0, <1>2
<1>4. \A a : Visits(Tail(s), a) <=> Visits(s, a)
  BY <1>0, VisitsTail
<1>5. Head(s).f # "deliverHandshakeError" /\ TellsFirst(s) => TellsFirst(Tail(s))
  BY <1>0, TellsFirstTail
<1>6. CASE Head(s).f \notin Reporters
  <2>1. Reporting(s) => Reporting(Tail(s))
    BY <1>0, <1>6, ReportingTail
  <2>. QED  BY <1>1, <1>2, <1>3, <1>4, <1>5, <1>6, <2>1 DEF Keeps
<1>7. CASE Head(s).f \in Reporters
  <2>1. Reporting(s) => Has(Tail(s), {"visit"})
    BY <1>0, ReportingTail
  <2>2. Has(fs, Reporters) /\ Reporting(s) => Reporting(fs \o Tail(s))
    BY <1>0, <2>1, ReportingConcat
  <2>. QED  BY <1>1, <1>2, <1>3, <1>4, <1>5, <1>7, <2>2 DEF Keeps
<1>. QED  BY <1>6, <1>7

(* The code of an ordinary frame ran, or the application or the event base *)
(* called a function.                                                      *)
Runs(fs) ==
  /\ Ordinary(fs)
  /\ \/ stack' = fs \o stack
     \/ stack # <<>> /\ Top.f \notin Special /\ stack' = fs \o Tail(stack)

LEMMA RunsKeep ==
  ASSUME NEW fs, StackInv, Runs(fs)
  PROVE  /\ Keeps(stack, stack')
         /\ \A names : Has(stack', names) => Has(stack, names) \/ Has(fs, names)
         /\ \A names \in SUBSET Special : Has(stack, names) => Has(stack', names)
<1>0. WellFormed(stack) /\ Ordinary(fs)
  BY DEF StackInv, WellFormed, Runs
<1>1. CASE stack' = fs \o stack
  BY <1>0, <1>1, Pushed
<1>2. CASE stack # <<>> /\ Top.f \notin Special /\ stack' = fs \o Tail(stack)
  <2>1. Top.f # "visit" /\ Top.f \notin Reporters /\ Top.f # "deliverHandshakeError"
    BY <1>2 DEF Special, Reporters
  <2>2. /\ WellFormed(stack')
        /\ Has(stack', {"visit"}) <=> Has(stack, {"visit"})
        /\ \A a : Visits(stack', a) <=> Visits(stack, a)
        /\ TellsFirst(stack) => TellsFirst(stack')
        /\ Reporting(stack) => Reporting(stack')
        /\ \A names : Has(stack', names) <=> Has(fs, names) \/ Has(Tail(stack), names)
        /\ \A names : Has(stack, names) <=> Top.f \in names \/ Has(Tail(stack), names)
    BY <1>0, <1>2, <2>1, Replaced DEF Top
  <2>3. \A names \in SUBSET Special : Top.f \notin names
    BY <1>2
  <2>. QED  BY <2>2, <2>3 DEF Keeps
<1>. QED  BY <1>1, <1>2 DEF Runs

(* Code outside the visitors: it may only take back what is promised to    *)
(* the handshake callback by calling it.                                   *)
Outside ==
  /\ Started'
  /\ WellFormed(stack')
  /\ Has(stack', {"visit"}) <=> Has(stack, {"visit"})
  /\ \A a : Visits(stack', a) <=> Visits(stack, a)
  /\ sub'.callback =>
       /\ sub.callback /\ TellsFirst(stack') /\ (Reporting(stack) => Reporting(stack'))
       /\ base'.appDataBuf = <<>> /\ ~Has(stack', {"deliverAppData"})
       /\ hist'.reports = <<>> /\ ~fb'.error
  /\ IsSeq(hist'.reports) /\ Len(hist'.reports) <= 1
  /\ base'.timeout => base.timeout
  /\ Role = "server" => sock'.state # "connecting"
  /\ fb'.state = fb.state /\ fb'.waitForData = fb.waitForData
  /\ fb'.unread = fb.unread /\ fb'.deferred = fb.deferred /\ fb'.guard = fb.guard
  /\ FieldsInv' /\ sub'.config = sub.config

LEMMA OutsideKeeps ==
  ASSUME Inv, Started, Outside, ReadInv'
  PROVE  Inv'
<1>1. Role' = Role
  BY DEF Outside, Role
<1>. USE <1>1
<1>2. StackInv'
  BY DEF Outside, WellFormed, StackInv
<1>3. GuardInv'
  BY DEF Inv, GuardInv, Outside
<1>4. StartInv'
  BY DEF Inv, StartInv, Outside
<1>5. ReportInv'
  BY DEF Inv, ReportInv, Outside
<1>6. DataInv'
  BY DEF Inv, DataInv, Outside
<1>. QED  BY <1>2, <1>3, <1>4, <1>5, <1>6 DEF Inv, Outside

(* A step of that kind which changes nothing else that the invariant is    *)
(* about.                                                                  *)
View == <<fb.state, fb.error, fb.paused, fb.waitForData, fb.unread, fb.deferred, fb.guard,
          base.readCallback, base.reads, base.appDataBuf, base.timeout,
          sub.callback, sub.config, sock.state, hist.reports>>

Calls(fs) == /\ Runs(fs) /\ ~Has(fs, {"sockFail"})
             /\ sub.callback => ~Has(fs, {"deliverAppData"})
QuietStep == Started /\ (\E fs : Calls(fs)) /\ FieldsInv' /\ UNCHANGED View

LEMMA ViewUnchanged ==
  ASSUME UNCHANGED View
  PROVE  /\ fb'.state = fb.state /\ fb'.error = fb.error /\ fb'.paused = fb.paused
         /\ fb'.waitForData = fb.waitForData /\ fb'.unread = fb.unread
         /\ fb'.deferred = fb.deferred /\ fb'.guard = fb.guard
         /\ base'.readCallback = base.readCallback /\ base'.reads = base.reads
         /\ base'.appDataBuf = base.appDataBuf /\ base'.timeout = base.timeout
         /\ sub'.callback = sub.callback /\ sub'.config = sub.config
         /\ sock'.state = sock.state /\ hist'.reports = hist.reports
BY DEF View

LEMMA QuietKeeps ==
  ASSUME Inv, QuietStep
  PROVE  Inv'
<1>0. PICK fs : Calls(fs)
  BY DEF QuietStep
<1>1. /\ Keeps(stack, stack')
      /\ \A names : Has(stack', names) => Has(stack, names) \/ Has(fs, names)
      /\ \A names \in SUBSET Special : Has(stack, names) => Has(stack', names)
  BY <1>0, RunsKeep DEF Calls, Inv
<1>. USE ViewUnchanged DEF QuietStep
<1>2. Outside
  <2>1. Started'
    BY DEF Started
  <2>2. sub.callback => ~Has(stack', {"deliverAppData"})
    BY <1>0, <1>1 DEF Calls, Inv, DataInv
  <2>3. sub.callback => TellsFirst(stack') /\ base.appDataBuf = <<>>
                        /\ hist.reports = <<>> /\ ~fb.error
    BY <1>1 DEF Keeps, Inv, DataInv, ReportInv
  <2>4. /\ IsSeq(hist.reports) /\ Len(hist.reports) <= 1
        /\ Role = "server" => sock.state # "connecting"
    BY DEF Inv, ReportInv, StartInv
  <2>. QED  BY <1>1, <2>1, <2>2, <2>3, <2>4 DEF Outside, Keeps
<1>3. ReadInv'
  <2>1. Has(stack', {"sockFail"}) => Has(stack, {"sockFail"})
    BY <1>0, <1>1 DEF Calls
  <2>2. /\ Has(stack, {"setReadCB", "deliverError", "attached"})
             => Has(stack', {"setReadCB", "deliverError", "attached"})
        /\ Has(stack, Resumers) => Has(stack', Resumers)
        /\ Has(stack, {"setReadCB", "deliverError"}) => Has(stack', {"setReadCB", "deliverError"})
    BY <1>1 DEF Special, Resumers, Reporters
  <2>. QED  BY <2>1, <2>2 DEF Inv, ReadInv
<1>. QED  BY <1>2, <1>3, OutsideKeeps

(* Frames of ordinary functions that hand nothing to the reader.           *)
Simple(fs) == Ordinary(fs) /\ ~Has(fs, {"deliverAppData"}) /\ ~Has(fs, {"sockFail"})
Marked == {"visit", "moveToErrorState", "sockFail", "deliverAppData"}

LEMMA SimpleFrames ==
  /\ Simple(<<>>)
  /\ \A x : x.f \notin Marked => Simple(<<x>>)
  /\ \A x, y : x.f \notin Marked /\ y.f \notin Marked => Simple(<<x, y>>)
<1>1. Simple(<<>>)
  BY OrdinaryFrames, HasTuple DEF Simple
<1>2. ASSUME NEW x, x.f \notin Marked
      PROVE  Simple(<<x>>)
  <2>1. Ordinary(<<x>>)
    BY <1>2, OrdinaryFrames DEF Marked, Unordinary
  <2>2. ~Has(<<x>>, {"deliverAppData"}) /\ ~Has(<<x>>, {"sockFail"})
    BY <1>2, HasTuple DEF Marked
  <2>. QED  BY <2>1, <2>2 DEF Simple
<1>3. ASSUME NEW x, NEW y, x.f \notin Marked, y.f \notin Marked
      PROVE  Simple(<<x, y>>)
  <2>1. Ordinary(<<x, y>>)
    BY <1>3, OrdinaryFrames DEF Marked, Unordinary
  <2>2. ~Has(<<x, y>>, {"deliverAppData"}) /\ ~Has(<<x, y>>, {"sockFail"})
    BY <1>3, HasTuple DEF Marked
  <2>. QED  BY <2>1, <2>2 DEF Simple
<1>. QED  BY <1>1, <1>2, <1>3

LEMMA SimpleConcat ==
  ASSUME NEW s, NEW t, Simple(s), Simple(t)
  PROVE  Simple(s \o t)
<1>1. IsSeq(s) /\ IsSeq(t)
  BY DEF Simple, Ordinary, WellFormed
<1>. QED  BY <1>1, OrdinaryConcat, HasConcat DEF Simple

LEMMA SimpleCalls ==
  /\ \A tok : Simple(FailFrames(tok)) /\ Simple(SucceedFrames(tok))
  /\ \A tok, data : Simple(PerformAppWrite(tok, data))
  /\ \A type : Simple(<<[f |-> "submit", event |-> EventOf(type)]>>)
  /\ Simple(<<Frame("app")>>) /\ Simple(<<Frame("sockClose")>>)
  /\ Simple(<<Frame("sockCloseNow")>>) /\ Simple(ConnectErrFrames)
  /\ \A ex, close : Simple(<<AllErrors(ex, close)>>)
BY SimpleFrames DEF FailFrames, SucceedFrames, PerformAppWrite, ConnectErrFrames,
                    AllErrors, Frame, Marked

(* A step leaves alone what the invariant says of everything but the stack.*)
Steady == FieldsInv' /\ UNCHANGED View

LEMMA OnIsStarted ==
  ASSUME Inv, stack # <<>>
  PROVE  Started /\ IsSeq(stack) /\ IsSeq(Tail(stack))
<1>1. Started
  BY DEF Inv, StartInv
<1>2. IsSeq(stack)
  BY DEF Inv, StackInv
<1>. QED  BY <1>1, <1>2, TailSeq

LEMMA QuietCall ==
  ASSUME Inv, Started, Steady, \E fs : Simple(fs) /\ stack' = fs \o stack
  PROVE  Inv'
<1>1. \E fs : Calls(fs)
  BY DEF Calls, Runs, Simple
<1>. QED  BY <1>1, QuietKeeps DEF QuietStep, Steady

LEMMA QuietTailCall ==
  ASSUME Inv, stack # <<>>, Top.f \notin Special, Steady,
         \E fs : Simple(fs) /\ stack' = fs \o Tail(stack)
  PROVE  Inv'
<1>1. \E fs : Calls(fs)
  BY DEF Calls, Runs, Simple
<1>. QED  BY <1>1, OnIsStarted, QuietKeeps DEF QuietStep, Steady

LEMMA QuietReturn ==
  ASSUME Inv, stack # <<>>, Top.f \notin Special, Steady, stack' = Tail(stack)
  PROVE  Inv'
<1>1. stack' = <<>> \o Tail(stack)
  BY OnIsStarted, EmptyConcat
<1>. QED  BY <1>1, QuietTailCall, SimpleFrames

LEMMA QuietUnchanged ==
  ASSUME Inv, Started, Steady, stack' = stack
  PROVE  Inv'
<1>1. stack' = <<>> \o stack
  BY EmptyConcat DEF Inv, StackInv
<1>. QED  BY <1>1, QuietCall, SimpleFrames

-----------------------------------------------------------------------------
(* The functions that only call others.                                    *)
LEMMA AppReturnsKeeps ==
  ASSUME Inv, AppReturns
  PROVE  Inv'
<1>1. Steady
  BY DEF AppReturns, Steady, View, Inv, FieldsInv
<1>. QED  BY <1>1, QuietReturn DEF AppReturns, On, Return, Special, Reporters

LEMMA SubmitKeeps ==
  ASSUME Inv, Submit
  PROVE  Inv'
<1>1. Steady
  BY DEF Submit, Steady, View, Inv, FieldsInv
<1>2. Simple(<<Frame("process")>>)
  BY SimpleFrames DEF Frame, Marked
<1>. QED  BY <1>1, <1>2, QuietTailCall DEF Submit, On, TailCall, Special, Reporters

LEMMA ProcessPendingEventsKeeps ==
  ASSUME Inv, ProcessPendingEvents
  PROVE  Inv'
<1>1. Steady
  BY DEF ProcessPendingEvents, Steady, View, Inv, FieldsInv
<1>2. Simple(<<Frame("loop")>>)
  BY SimpleFrames DEF Frame, Marked
<1>3. stack # <<>> /\ Top.f \notin Special
  BY DEF ProcessPendingEvents, On, Special, Reporters
<1>. QED  BY <1>1, <1>2, <1>3, QuietTailCall, QuietReturn DEF ProcessPendingEvents, TailCall, Return

LEMMA LoopKeeps ==
  ASSUME Inv, Loop
  PROVE  Inv'
<1>1. Steady
  BY DEF Loop, Steady, View, Inv, FieldsInv
<1>. QED  BY <1>1, QuietReturn DEF Loop, On, Return, Special, Reporters

(* The history of a write that is answered.                                *)
LEMMA AnsweredHist ==
  ASSUME FieldsInv
  PROVE  /\ \A id, how : DOMAIN Answer(hist, id, how) = DOMAIN hist
                         /\ Answer(hist, id, how).reports = hist.reports
         /\ \A tok : DOMAIN Failed(tok) = DOMAIN hist /\ Failed(tok).reports = hist.reports
         /\ \A tok : DOMAIN Succeeded(tok) = DOMAIN hist /\ Succeeded(tok).reports = hist.reports
<1>1. \A id, how : DOMAIN Answer(hist, id, how) = DOMAIN hist
                   /\ Answer(hist, id, how).reports = hist.reports
  BY DEF FieldsInv, Answer
<1>. QED  BY <1>1 DEF Failed, Succeeded

LEMMA DrainKeeps ==
  ASSUME Inv, Drain
  PROVE  Inv'
<1>1. Steady
  BY AnsweredHist DEF Drain, Steady, View, Inv, FieldsInv
<1>2. stack # <<>> /\ Top.f \notin Special
  BY DEF Drain, On, Special, Reporters
<1>3. CASE fb.pending = <<>>
  BY <1>1, <1>2, <1>3, QuietReturn DEF Drain, Return
<1>4. CASE fb.pending # <<>>
  BY <1>1, <1>2, <1>4, QuietCall, OnIsStarted, SimpleCalls DEF Drain, Call
<1>. QED  BY <1>3, <1>4
LEMMA SockWriteKeeps ==
  ASSUME NEW now, Inv, SockWrite(now)
  PROVE  Inv'
<1>1. Steady
  <2>1. /\ hist' = Failed(Top.token)
           \/ \E w : \/ hist' = [Succeeded(Top.token) EXCEPT !.wire = w]
                     \/ hist' = [hist EXCEPT !.wire = w]
        /\ sock' = sock \/ \E q : sock' = [sock EXCEPT !.queue = q]
        /\ UNCHANGED <<fb, base, sub>>
    <3>1. CASE sock.state \notin {"open", "eof"}
      BY <3>1 DEF SockWrite
    <3>2. CASE sock.state \in {"open", "eof"}
      <4>1. hist' = [(IF now THEN Succeeded(Top.token) ELSE hist) EXCEPT !.wire = hist'.wire]
        BY <3>2, AnsweredHist DEF SockWrite, Inv, FieldsInv
      <4>. QED  BY <3>2, <4>1 DEF SockWrite
    <3>. QED  BY <3>1, <3>2
  <2>2. DOMAIN hist' = DOMAIN hist /\ hist'.reports = hist.reports
    BY <2>1, AnsweredHist DEF Inv, FieldsInv
  <2>3. DOMAIN sock' = DOMAIN sock /\ sock'.state = sock.state
    BY <2>1 DEF Inv, FieldsInv
  <2>. QED  BY <2>1, <2>2, <2>3 DEF Steady, View, Inv, FieldsInv
<1>2. stack # <<>> /\ Top.f \notin Special
  BY DEF SockWrite, On, Special, Reporters
<1>3. \E fs : Simple(fs) /\ stack' = fs \o Tail(stack)
  BY SimpleFrames, SimpleCalls DEF SockWrite, TailCall
<1>. QED  BY <1>1, <1>2, <1>3, QuietTailCall

LEMMA StartWritingKeeps ==
  ASSUME Inv, StartWriting
  PROVE  Inv'
<1>1. Steady
  BY DEF StartWriting, Steady, View, Inv, FieldsInv
<1>2. stack # <<>> /\ Top.f \notin Special
  BY DEF StartWriting, On, Special, Reporters
<1>3. \E fs : Simple(fs) /\ stack' = fs \o Tail(stack)
  BY SimpleFrames DEF StartWriting, TailCall, Marked
<1>. QED  BY <1>1, <1>2, <1>3, QuietTailCall

LEMMA AdvancedBase ==
  ASSUME FieldsInv
  PROVE  LET b == AdvanceOnBase(base) IN
         /\ DOMAIN b = DOMAIN base
         /\ b.readCallback = base.readCallback /\ b.reads = base.reads
         /\ b.appDataBuf = base.appDataBuf /\ b.timeout = base.timeout
BY DEF FieldsInv, AdvanceOnBase

LEMMA RequestWriteSuccessKeeps ==
  ASSUME Inv, RequestWriteSuccess
  PROVE  Inv'
<1>1. Steady
  <2>1. /\ DOMAIN hist' = DOMAIN hist /\ hist'.reports = hist.reports
        /\ UNCHANGED <<fb, sub, sock>>
    BY AnsweredHist DEF RequestWriteSuccess, Inv
  <2>2. /\ DOMAIN base' = DOMAIN base
        /\ base'.readCallback = base.readCallback /\ base'.reads = base.reads
        /\ base'.appDataBuf = base.appDataBuf /\ base'.timeout = base.timeout
    BY AdvancedBase DEF RequestWriteSuccess, Inv, FieldsInv
  <2>. QED  BY <2>1, <2>2 DEF Steady, View, Inv, FieldsInv
<1>2. stack # <<>> /\ Top.f \notin Special
  BY DEF RequestWriteSuccess, On, Special, Reporters
<1>3. \E fs : Simple(fs) /\ stack' = fs \o Tail(stack)
  BY SimpleFrames DEF RequestWriteSuccess, TailCall, Marked, Frame
<1>. QED  BY <1>1, <1>2, <1>3, QuietTailCall

LEMMA StartNextKeeps ==
  ASSUME Inv, StartNext
  PROVE  Inv'
<1>1. Steady
  BY DEF StartNext, Steady, View, Inv, FieldsInv
<1>2. stack # <<>> /\ Top.f \notin Special
  BY DEF StartNext, On, Special, Reporters
<1>3. stack' = Tail(stack) \/ \E fs : Simple(fs) /\ stack' = fs \o Tail(stack)
  BY SimpleFrames DEF StartNext, TailCall, Return, Marked
<1>. QED  BY <1>1, <1>2, <1>3, QuietTailCall, QuietReturn

LEMMA RequestWriteErrKeeps ==
  ASSUME Inv, RequestWriteErr
  PROVE  Inv'
<1>1. Steady
  <2>1. /\ DOMAIN hist' = DOMAIN hist /\ hist'.reports = hist.reports
        /\ UNCHANGED <<fb, sub, sock>>
    BY AnsweredHist DEF RequestWriteErr, Inv
  <2>2. /\ DOMAIN base' = DOMAIN base
        /\ base'.readCallback = base.readCallback /\ base'.reads = base.reads
        /\ base'.appDataBuf = base.appDataBuf /\ base'.timeout = base.timeout
    BY AdvancedBase DEF RequestWriteErr, Inv
  <2>. QED  BY <2>1, <2>2 DEF Steady, View, Inv, FieldsInv
<1>2. stack # <<>> /\ Top.f \notin Special
  BY DEF RequestWriteErr, On, Special, Reporters
<1>3. stack' = Tail(stack) \/ \E fs : Simple(fs) /\ stack' = fs \o Tail(stack)
  BY SimpleFrames DEF RequestWriteErr, TailCall, Return, Marked, Frame
<1>. QED  BY <1>1, <1>2, <1>3, QuietTailCall, QuietReturn

LEMMA WroteApplicationBytesKeeps ==
  ASSUME Inv, WroteApplicationBytes
  PROVE  Inv'
<1>1. Steady
  BY DEF WroteApplicationBytes, Steady, View, Inv, FieldsInv
<1>2. stack # <<>> /\ Top.f \notin Special
  BY DEF WroteApplicationBytes, On, Special, Reporters
<1>3. \E fs : Simple(fs) /\ stack' = fs \o Tail(stack)
  BY SimpleFrames, SimpleCalls DEF WroteApplicationBytes, TailCall
<1>. QED  BY <1>1, <1>2, <1>3, QuietTailCall

LEMMA WriteAppDataBadKeeps ==
  ASSUME Inv, WriteAppDataBad
  PROVE  Inv'
<1>1. Steady
  BY AnsweredHist DEF WriteAppDataBad, Steady, View, Inv, FieldsInv
<1>2. stack # <<>> /\ Top.f \notin Special
  BY DEF WriteAppDataBad, On, Special, Reporters
<1>3. \E fs : Simple(fs) /\ stack' = fs \o Tail(stack)
  BY SimpleCalls DEF WriteAppDataBad, TailCall
<1>. QED  BY <1>1, <1>2, <1>3, QuietTailCall

LEMMA ServerWriteAppDataKeeps ==
  ASSUME Inv, ServerWriteAppData
  PROVE  Inv'
<1>1. Steady
  BY DEF ServerWriteAppData, Steady, View, Inv, FieldsInv
<1>2. stack # <<>> /\ Top.f \notin Special
  BY DEF ServerWriteAppData, On, Special, Reporters
<1>3. \E fs : Simple(fs) /\ stack' = fs \o Tail(stack)
  BY SimpleCalls DEF ServerWriteAppData, TailCall
<1>. QED  BY <1>1, <1>2, <1>3, QuietTailCall

LEMMA ClientWriteAppDataKeeps ==
  ASSUME Inv, ClientWriteAppData
  PROVE  Inv'
<1>1. Steady
  BY DEF ClientWriteAppData, Steady, View, Inv, FieldsInv
<1>2. stack # <<>> /\ Top.f \notin Special
  BY DEF ClientWriteAppData, On, Special, Reporters
<1>3. stack' = Tail(stack) \/ \E fs : Simple(fs) /\ stack' = fs \o Tail(stack)
  BY SimpleCalls DEF ClientWriteAppData, TailCall, Return
<1>. QED  BY <1>1, <1>2, <1>3, QuietTailCall, QuietReturn

LEMMA ClientWriteEarlyDataKeeps ==
  ASSUME Inv, ClientWriteEarlyData
  PROVE  Inv'
<1>1. Steady
  BY DEF ClientWriteEarlyData, Steady, View, Inv, FieldsInv
<1>2. stack # <<>> /\ Top.f \notin Special
  BY DEF ClientWriteEarlyData, On, Special, Reporters
<1>3. stack' = Tail(stack) \/ \E fs : Simple(fs) /\ stack' = fs \o Tail(stack)
  BY SimpleFrames DEF ClientWriteEarlyData, TailCall, Return, Marked
<1>. QED  BY <1>1, <1>2, <1>3, QuietTailCall, QuietReturn
LEMMA DeliverAppDataKeeps ==
  ASSUME NEW movable, Inv, DeliverAppData(movable)
  PROVE  Inv'
<1>1. Steady
  BY DEF DeliverAppData, Steady, View, Inv, FieldsInv
<1>2. stack # <<>> /\ Top.f = "deliverAppData"
  BY DEF DeliverAppData, On
<1>3. IsSeq(stack) /\ Has(stack, {"deliverAppData"})
  BY <1>2, OnIsStarted, HasTail DEF Top
<1>4. ~sub.callback
  BY <1>3 DEF Inv, DataInv
<1>5. \E fs : Ordinary(fs) /\ ~Has(fs, {"sockFail"}) /\ stack' = fs \o Tail(stack)
  <2>1. Simple(<<Frame("app")>>) /\ Simple(<<>>)
    BY SimpleFrames, SimpleCalls
  <2>2. [Top EXCEPT !.data = Tail(@)].f = "deliverAppData"
    BY <1>2
  <2>3. LET fs == <<[Top EXCEPT !.data = Tail(@)]>> IN Ordinary(fs) /\ ~Has(fs, {"sockFail"})
    BY <2>2, OrdinaryFrames, HasTuple DEF Unordinary
  <2>4. \A s, t : /\ Ordinary(s) /\ ~Has(s, {"sockFail"})
                  /\ Ordinary(t) /\ ~Has(t, {"sockFail"})
                  => Ordinary(s \o t) /\ ~Has(s \o t, {"sockFail"})
    BY OrdinaryConcat, HasConcat DEF Ordinary, WellFormed
  <2>. QED  BY <2>1, <2>3, <2>4 DEF DeliverAppData, TailCall, Simple
<1>6. \E fs : Calls(fs)
  BY <1>2, <1>4, <1>5 DEF Calls, Runs, Special, Reporters
<1>. QED  BY <1>1, <1>2, <1>6, OnIsStarted, QuietKeeps DEF QuietStep, Steady

LEMMA DeliverAppDataThrowsKeeps ==
  ASSUME Inv, DeliverAppDataThrows
  PROVE  Inv'
<1>1. Steady
  BY DEF DeliverAppDataThrows, Steady, View, Inv, FieldsInv
<1>2. stack # <<>> /\ Top.f \notin Special
  BY DEF DeliverAppDataThrows, On, Special, Reporters
<1>3. \E fs : Simple(fs) /\ stack' = fs \o Tail(stack)
  BY SimpleFrames DEF DeliverAppDataThrows, TailCall, Marked
<1>. QED  BY <1>1, <1>2, <1>3, QuietTailCall

LEMMA FailImmediatelyPendingKeeps ==
  ASSUME Inv, FailImmediatelyPending
  PROVE  Inv'
<1>1. Steady
  BY DEF FailImmediatelyPending, Steady, View, Inv, FieldsInv
<1>2. stack # <<>> /\ Top.f \notin Special
  BY DEF FailImmediatelyPending, On, Special, Reporters
<1>3. \E fs : Simple(fs) /\ stack' = fs \o Tail(stack)
  <2>1. Simple(<<[f |-> "writeErr", id |-> base.immediate]>>)
    BY SimpleFrames DEF Marked
  <2>. QED  BY <2>1, SimpleFrames, SimpleCalls, SimpleConcat DEF FailImmediatelyPending, TailCall
<1>. QED  BY <1>1, <1>2, <1>3, QuietTailCall

LEMMA FailPendingWritesKeeps ==
  ASSUME Inv, FailPendingWrites
  PROVE  Inv'
<1>1. Steady
  BY AnsweredHist DEF FailPendingWrites, Steady, View, Inv, FieldsInv
<1>2. stack # <<>> /\ Top.f \notin Special
  BY DEF FailPendingWrites, On, Special, Reporters
<1>3. stack' = Tail(stack) \/ \E fs : Simple(fs) /\ stack' = fs \o stack
  BY SimpleCalls DEF FailPendingWrites, Call, Return
<1>. QED  BY <1>1, <1>2, <1>3, OnIsStarted, QuietCall, QuietReturn

LEMMA OnReplaySafeKeeps ==
  ASSUME Inv, OnReplaySafe
  PROVE  Inv'
<1>1. Steady
  BY DEF OnReplaySafe, Steady, View, Inv, FieldsInv
<1>2. stack # <<>> /\ Top.f \notin Special
  BY DEF OnReplaySafe, On, Special, Reporters
<1>3. \E fs : Simple(fs) /\ stack' = fs \o Tail(stack)
  BY SimpleFrames, SimpleCalls DEF OnReplaySafe, TailCall
<1>. QED  BY <1>1, <1>2, <1>3, QuietTailCall

LEMMA FlushHandshakeWritesKeeps ==
  ASSUME Inv, FlushHandshakeWrites
  PROVE  Inv'
<1>1. Steady
  BY DEF FlushHandshakeWrites, Steady, View, Inv, FieldsInv
<1>2. stack # <<>> /\ Top.f \notin Special
  BY DEF FlushHandshakeWrites, On, Special, Reporters
<1>3. stack' = Tail(stack) \/ \E fs : Simple(fs) /\ stack' = fs \o stack
  BY SimpleCalls DEF FlushHandshakeWrites, Call, Return
<1>. QED  BY <1>1, <1>2, <1>3, OnIsStarted, QuietCall, QuietReturn

LEMMA FlushEarlyWritesKeeps ==
  ASSUME Inv, FlushEarlyWrites
  PROVE  Inv'
<1>1. Steady
  BY DEF FlushEarlyWrites, Steady, View, Inv, FieldsInv
<1>2. stack # <<>> /\ Top.f \notin Special
  BY DEF FlushEarlyWrites, On, Special, Reporters
<1>3. stack' = Tail(stack) \/ \E fs : Simple(fs) /\ stack' = fs \o stack
  BY SimpleCalls DEF FlushEarlyWrites, Call, Return
<1>. QED  BY <1>1, <1>2, <1>3, OnIsStarted, QuietCall, QuietReturn

(* What the application may call at any time.                              *)
LEMMA WriteChainKeeps ==
  ASSUME NEW size, NEW shared, Inv, WriteChain(size, shared)
  PROVE  Inv'
<1>1. Steady
  BY DEF WriteChain, Steady, View, Inv, FieldsInv
<1>2. \E fs : Simple(fs) /\ stack' = fs \o stack
  BY SimpleFrames DEF WriteChain, Call, Marked
<1>. QED  BY <1>1, <1>2, QuietCall DEF WriteChain

LEMMA CloseKeeps ==
  ASSUME Inv, Close
  PROVE  Inv'
<1>1. Steady
  BY DEF Close, Counted, Steady, View, Inv, FieldsInv
<1>2. \E fs : Simple(fs) /\ stack' = fs \o stack
  BY SimpleFrames, SimpleCalls DEF Close, Call, AllErrors, Frame, Marked
<1>. QED  BY <1>1, <1>2, QuietCall DEF Close, AppCall

LEMMA CloseNowKeeps ==
  ASSUME Inv, CloseNow
  PROVE  Inv'
<1>1. Steady
  BY DEF CloseNow, Counted, Steady, View, Inv, FieldsInv
<1>2. \E fs : Simple(fs) /\ stack' = fs \o stack
  <2>1. Simple(<<AllErrors("EOF", FALSE), Frame("sockCloseNow")>>)
    BY SimpleFrames DEF AllErrors, Frame, Marked
  <2>. QED  BY <2>1, SimpleFrames, SimpleCalls, SimpleConcat DEF CloseNow, Call
<1>. QED  BY <1>1, <1>2, QuietCall DEF CloseNow, AppCall

LEMMA TlsShutdownKeeps ==
  ASSUME Inv, TlsShutdown
  PROVE  Inv'
<1>1. Steady
  BY DEF TlsShutdown, Counted, Steady, View, Inv, FieldsInv
<1>2. \E fs : Simple(fs) /\ stack' = fs \o stack
  BY SimpleCalls DEF TlsShutdown, Call
<1>. QED  BY <1>1, <1>2, QuietCall DEF TlsShutdown, AppCall

LEMMA ShutdownWriteKeeps ==
  ASSUME Inv, ShutdownWrite
  PROVE  Inv'
<1>1. Steady
  BY DEF ShutdownWrite, Counted, Steady, View, Inv, FieldsInv
<1>2. \E fs : Simple(fs) /\ stack' = fs \o stack
  BY SimpleFrames DEF ShutdownWrite, Call, Frame, Marked
<1>. QED  BY <1>1, <1>2, QuietCall DEF ShutdownWrite, AppCall
-----------------------------------------------------------------------------
(* The socket, and what stops and starts the reads.                        *)
SocketOnly ==
  /\ FieldsInv'
  /\ fb'.state = fb.state /\ fb'.error = fb.error /\ fb'.waitForData = fb.waitForData
  /\ fb'.unread = fb.unread /\ fb'.deferred = fb.deferred /\ fb'.guard = fb.guard
  /\ sub'.callback = sub.callback /\ sub'.config = sub.config
  /\ base'.timeout => base.timeout
  /\ sub.callback => base'.appDataBuf = <<>>
  /\ hist'.reports = hist.reports
  /\ Role = "server" => sock'.state # "connecting"

LEMMA SocketKeeps ==
  ASSUME Inv, Started, SocketOnly, Keeps(stack, stack'),
         sub.callback => ~Has(stack', {"deliverAppData"})
  PROVE  Outside
<1>1. Started'
  BY DEF Started, SocketOnly
<1>2. sub.callback => TellsFirst(stack') /\ hist.reports = <<>> /\ ~fb.error
  BY DEF Keeps, Inv, ReportInv
<1>3. IsSeq(hist.reports) /\ Len(hist.reports) <= 1
  BY DEF Inv, ReportInv
<1>. QED  BY <1>1, <1>2, <1>3 DEF Outside, Keeps, SocketOnly

LEMMA SocketStep ==
  ASSUME Inv, Started, SocketOnly,
         \E fs : Runs(fs) /\ (sub.callback => ~Has(fs, {"deliverAppData"}))
  PROVE  /\ Outside
         /\ Has(stack, {"setReadCB", "deliverError", "attached"})
              => Has(stack', {"setReadCB", "deliverError", "attached"})
         /\ Has(stack, Resumers) => Has(stack', Resumers)
         /\ Has(stack, {"setReadCB", "deliverError"}) => Has(stack', {"setReadCB", "deliverError"})
<1>0. PICK fs : Runs(fs) /\ (sub.callback => ~Has(fs, {"deliverAppData"}))
  OBVIOUS
<1>1. /\ Keeps(stack, stack')
      /\ \A names : Has(stack', names) => Has(stack, names) \/ Has(fs, names)
      /\ \A names \in SUBSET Special : Has(stack, names) => Has(stack', names)
  BY <1>0, RunsKeep DEF Inv
<1>2. sub.callback => ~Has(stack', {"deliverAppData"})
  BY <1>0, <1>1 DEF Inv, DataInv
<1>3. Outside
  BY <1>1, <1>2, SocketKeeps
<1>. QED  BY <1>1, <1>3 DEF Special, Resumers, Reporters

(* The frame of a function that is not ordinary is replaced.               *)
LEMMA ReplaceStep ==
  ASSUME NEW fs, Inv, Ordinary(fs), SocketOnly, ~Has(fs, {"deliverAppData"}),
         stack # <<>>, Top.f # "visit", Top.f # "deliverHandshakeError",
         Top.f \in Reporters => Has(fs, Reporters), stack' = fs \o Tail(stack)
  PROVE  /\ Started /\ Outside
         /\ \A names : Has(stack', names) <=> Has(fs, names) \/ Has(Tail(stack), names)
         /\ \A names : Has(stack, names) <=> Top.f \in names \/ Has(Tail(stack), names)
<1>0. WellFormed(stack) /\ Started
  BY OnIsStarted DEF Inv, StackInv, WellFormed
<1>1. /\ Keeps(stack, stack')
      /\ \A names : Has(stack', names) <=> Has(fs, names) \/ Has(Tail(stack), names)
      /\ \A names : Has(stack, names) <=> Top.f \in names \/ Has(Tail(stack), names)
  BY <1>0, Replaced DEF Keeps, Top
<1>2. sub.callback => ~Has(stack', {"deliverAppData"})
  BY <1>1 DEF Inv, DataInv
<1>. QED  BY <1>0, <1>1, <1>2, SocketKeeps

(* A call or a return of the code that is running.                         *)
LEMMA RunsOf ==
  ASSUME Inv
  PROVE  /\ \A fs : Simple(fs) /\ stack' = fs \o stack
              => \E gs : Runs(gs) /\ ~Has(gs, {"deliverAppData"}) /\ ~Has(gs, {"sockFail"})
         /\ \A fs : Simple(fs) /\ stack # <<>> /\ Top.f \notin Special
                    /\ stack' = fs \o Tail(stack)
              => \E gs : Runs(gs) /\ ~Has(gs, {"deliverAppData"}) /\ ~Has(gs, {"sockFail"})
         /\ stack # <<>> /\ Top.f \notin Special /\ stack' = Tail(stack)
              => \E gs : Runs(gs) /\ ~Has(gs, {"deliverAppData"}) /\ ~Has(gs, {"sockFail"})
<1>1. ASSUME NEW fs, Simple(fs), stack' = fs \o stack
      PROVE  \E gs : Runs(gs) /\ ~Has(gs, {"deliverAppData"}) /\ ~Has(gs, {"sockFail"})
  BY <1>1 DEF Runs, Simple
<1>2. ASSUME NEW fs, Simple(fs), stack # <<>>, Top.f \notin Special,
             stack' = fs \o Tail(stack)
      PROVE  \E gs : Runs(gs) /\ ~Has(gs, {"deliverAppData"}) /\ ~Has(gs, {"sockFail"})
  BY <1>2 DEF Runs, Simple
<1>3. ASSUME stack # <<>>, stack' = Tail(stack)
      PROVE  stack' = <<>> \o Tail(stack)
  BY <1>3, OnIsStarted, EmptyConcat
<1>. QED  BY <1>1, <1>2, <1>3, SimpleFrames

LEMMA SockCloseNowKeeps ==
  ASSUME NEW tell, Inv, SockCloseNow(tell)
  PROVE  Inv'
<1>1. stack # <<>> /\ Top.f \notin Special /\ Started
  BY OnIsStarted DEF SockCloseNow, On, Special, Reporters
<1>2. SocketOnly /\ sock'.state = "closed"
  BY DEF SockCloseNow, Inv, FieldsInv, StartInv, DataInv, SocketOnly
<1>3. \E fs : Runs(fs) /\ ~Has(fs, {"deliverAppData"})
  <2>. DEFINE r == [f |-> "sockFail", ex |-> "EOF", tell |-> tell]
              x == <<r>>
  <2>0. r.f = "sockFail"
    OBVIOUS
  <2>1. Ordinary(x) /\ ~Has(x, {"deliverAppData"})
    <3>. HIDE DEF r
    <3>. QED  BY <2>0, OrdinaryFrames, HasTuple DEF Unordinary
  <2>2. Ordinary(ConnectErrFrames) /\ ~Has(ConnectErrFrames, {"deliverAppData"})
    BY SimpleCalls DEF Simple
  <2>. HIDE DEF x
  <2>3. Ordinary(ConnectErrFrames \o x) /\ ~Has(ConnectErrFrames \o x, {"deliverAppData"})
    BY <2>1, <2>2, OrdinaryConcat, HasConcat DEF Ordinary, WellFormed
  <2>4. stack' = (ConnectErrFrames \o x) \o Tail(stack)
    BY DEF SockCloseNow, TailCall, x
  <2>. QED  BY <1>1, <2>3, <2>4 DEF Runs
<1>4. /\ Outside
      /\ Has(stack, {"setReadCB", "deliverError"}) => Has(stack', {"setReadCB", "deliverError"})
  BY <1>1, <1>2, <1>3, SocketStep
<1>5. ReadInv'
  BY <1>2, <1>4 DEF Inv, ReadInv, SockCloseNow
<1>. QED  BY <1>1, <1>4, <1>5, OutsideKeeps

LEMMA SockCloseKeeps ==
  ASSUME NEW tell, Inv, SockClose(tell)
  PROVE  Inv'
<1>1. stack # <<>> /\ Top.f \notin Special /\ Started
  BY OnIsStarted DEF SockClose, On, Special, Reporters
<1>2. CASE sock.queue = <<>>
  <2>1. Steady
    BY <1>2 DEF SockClose, Steady, View, Inv, FieldsInv
  <2>. QED  BY <1>1, <1>2, <2>1, QuietTailCall, SimpleCalls DEF SockClose, TailCall
<1>3. CASE sock.queue # <<>>
  <2>1. /\ SocketOnly
        /\ sock'.state = IF sock.state = "closed" THEN "closed" ELSE "closing"
        /\ base'.readCallback = base.readCallback
    BY <1>3 DEF SockClose, Inv, FieldsInv, StartInv, DataInv, SocketOnly
  <2>2. \E fs : Runs(fs) /\ ~Has(fs, {"deliverAppData"}) /\ ~Has(fs, {"sockFail"})
    <3>1. Simple(<<[f |-> "transportError", ex |-> "EOF"]>>)
      BY SimpleFrames DEF Marked
    <3>. QED  BY <1>1, <1>3, <3>1, SimpleFrames, RunsOf DEF SockClose, TailCall
  <2>3. /\ Outside
        /\ Has(stack, {"setReadCB", "deliverError"}) => Has(stack', {"setReadCB", "deliverError"})
    BY <1>1, <2>1, <2>2, SocketStep
  <2>4. Has(stack', {"sockFail"}) => Has(stack, {"sockFail"})
    BY <2>2, RunsKeep DEF Inv
  <2>5. ReadInv'
    BY <2>1, <2>3, <2>4 DEF Inv, ReadInv, SockClose
  <2>. QED  BY <1>1, <2>3, <2>5, OutsideKeeps
<1>. QED  BY <1>2, <1>3

LEMMA SockShutdownWriteKeeps ==
  ASSUME Inv, SockShutdownWrite
  PROVE  Inv'
<1>1. stack # <<>> /\ Top.f \notin Special /\ Started
  BY OnIsStarted DEF SockShutdownWrite, On, Special, Reporters
<1>2. /\ SocketOnly
      /\ sock'.state = IF sock.state = "closed" THEN "closed" ELSE "closing"
      /\ base' = base
  BY DEF SockShutdownWrite, Inv, FieldsInv, StartInv, DataInv, SocketOnly
<1>3. \E fs : Runs(fs) /\ ~Has(fs, {"deliverAppData"}) /\ ~Has(fs, {"sockFail"})
  BY <1>1, RunsOf DEF SockShutdownWrite, Return
<1>4. /\ Outside
      /\ Has(stack, {"setReadCB", "deliverError"}) => Has(stack', {"setReadCB", "deliverError"})
  BY <1>1, <1>2, <1>3, SocketStep
<1>5. Has(stack', {"sockFail"}) => Has(stack, {"sockFail"})
  BY <1>3, RunsKeep DEF Inv
<1>6. ReadInv'
  BY <1>2, <1>4, <1>5 DEF Inv, ReadInv, SockShutdownWrite
<1>. QED  BY <1>1, <1>4, <1>6, OutsideKeeps

LEMMA SockFailAllKeeps ==
  ASSUME Inv, SockFailAll
  PROVE  Inv'
<1>1. stack # <<>> /\ Top.f \notin Special /\ Started
  BY OnIsStarted DEF SockFailAll, On, Special, Reporters
<1>2. CASE sock.queue # <<>>
  <2>1. Steady
    BY <1>2, AnsweredHist DEF SockFailAll, Steady, View, Inv, FieldsInv
  <2>. QED  BY <1>1, <1>2, <2>1, QuietCall, SimpleCalls DEF SockFailAll, Call
<1>3. CASE sock.queue = <<>>
  <2>1. SocketOnly /\ base'.readCallback = base.readCallback
    BY <1>3 DEF SockFailAll, Inv, FieldsInv, StartInv, DataInv, SocketOnly
  <2>2. sock' = sock /\ sock.state = "closed"
    <3>1. Has(stack, {"sockFail"})
      BY <1>1, OnIsStarted, HasTail DEF SockFailAll, On, Top
    <3>. QED  BY <1>3, <3>1 DEF SockFailAll, Inv, ReadInv
  <2>3. \E fs : Runs(fs) /\ ~Has(fs, {"deliverAppData"}) /\ ~Has(fs, {"sockFail"})
    <3>1. Simple(<<[f |-> "transportError", ex |-> Top.ex]>>)
      BY SimpleFrames DEF Marked
    <3>. QED  BY <1>1, <1>3, <3>1, SimpleFrames, RunsOf DEF SockFailAll, TailCall
  <2>4. /\ Outside
        /\ Has(stack, {"setReadCB", "deliverError"}) => Has(stack', {"setReadCB", "deliverError"})
    BY <1>1, <2>1, <2>2, <2>3, SocketStep
  <2>5. ReadInv'
    BY <2>1, <2>2, <2>4 DEF Inv, ReadInv, SockFailAll
  <2>. QED  BY <1>1, <2>4, <2>5, OutsideKeeps
<1>. QED  BY <1>2, <1>3
LEMMA BufferFields ==
  ASSUME NEW b, {"readCallback", "appDataBuf", "reads", "timeout"} \subseteq DOMAIN b
  PROVE  LET c == CheckBufLen(b) IN
         /\ DOMAIN c = DOMAIN b /\ c.readCallback = b.readCallback
         /\ c.appDataBuf = b.appDataBuf /\ c.timeout = b.timeout
         /\ c.reads <=> b.reads /\ ~(~b.readCallback /\ (fb.unread >= MaxBuf
                                                         \/ Len(b.appDataBuf) >= MaxBuf))
BY DEF CheckBufLen

(* A buffer that is full stops the reads, but not those of a handshake     *)
(* that waits for data: it has none.                                       *)
LEMMA BufferStops ==
  ASSUME NEW b, Inv, sub.callback, fb.waitForData, b.appDataBuf = <<>>,
         {"readCallback", "appDataBuf", "reads", "timeout"} \subseteq DOMAIN b
  PROVE  CheckBufLen(b).reads <=> b.reads
<1>1. MaxBuf \in Nat \ {0}
  BY ConfigsAssumption DEF Inv, FieldsInv, MaxBuf, SettingsOf
<1>2. fb.unread = 0
  BY DEF Inv, DataInv
<1>3. Len(b.appDataBuf) = 0
  OBVIOUS
<1>4. ~(fb.unread >= MaxBuf \/ Len(b.appDataBuf) >= MaxBuf)
  BY <1>1, <1>2, <1>3
<1>. QED  BY <1>4, BufferFields

LEMMA CheckBufLenStepKeeps ==
  ASSUME Inv, CheckBufLenStep
  PROVE  Inv'
<1>1. stack # <<>> /\ Top.f \notin Special /\ Started
  BY OnIsStarted DEF CheckBufLenStep, On, Special, Reporters
<1>2. /\ {"readCallback", "appDataBuf", "reads", "timeout"} \subseteq DOMAIN base
      /\ base' = CheckBufLen(base) /\ UNCHANGED <<fb, sub, sock, hist>>
  BY DEF Inv, FieldsInv, CheckBufLenStep
<1>3. /\ DOMAIN base' = DOMAIN base /\ base'.readCallback = base.readCallback
      /\ base'.appDataBuf = base.appDataBuf /\ base'.timeout = base.timeout
      /\ base.readCallback => (base'.reads <=> base.reads)
  BY <1>2, BufferFields
<1>4. SocketOnly
  BY <1>2, <1>3 DEF Inv, FieldsInv, StartInv, DataInv, SocketOnly
<1>5. sub.callback /\ fb.waitForData => (base'.reads <=> base.reads)
  BY <1>2, BufferStops DEF Inv, DataInv
<1>6. \E fs : Runs(fs) /\ ~Has(fs, {"deliverAppData"}) /\ ~Has(fs, {"sockFail"})
  BY <1>1, RunsOf DEF CheckBufLenStep, Return
<1>7. /\ Outside
      /\ Has(stack, {"setReadCB", "deliverError", "attached"})
           => Has(stack', {"setReadCB", "deliverError", "attached"})
      /\ Has(stack, Resumers) => Has(stack', Resumers)
      /\ Has(stack, {"setReadCB", "deliverError"}) => Has(stack', {"setReadCB", "deliverError"})
  BY <1>1, <1>4, <1>6, SocketStep
<1>8. Has(stack', {"sockFail"}) => Has(stack, {"sockFail"})
  BY <1>6, RunsKeep DEF Inv
<1>9. ReadInv'
  BY <1>2, <1>3, <1>5, <1>7, <1>8 DEF Inv, ReadInv
<1>. QED  BY <1>1, <1>7, <1>9, OutsideKeeps

LEMMA DeliverAppDataStopKeeps ==
  ASSUME Inv, DeliverAppDataStop
  PROVE  Inv'
<1>1. stack # <<>> /\ Top.f \notin Special /\ Started
  BY OnIsStarted DEF DeliverAppDataStop, On, Special, Reporters
<1>2. ~sub.callback
  <2>1. Has(stack, {"deliverAppData"})
    BY <1>1, OnIsStarted, HasTail DEF DeliverAppDataStop, On, Top
  <2>. QED  BY <2>1 DEF Inv, DataInv
<1>. DEFINE b == [base EXCEPT !.appDataBuf = Top.data]
<1>3. /\ {"readCallback", "appDataBuf", "reads", "timeout"} \subseteq DOMAIN b
      /\ DOMAIN b = DOMAIN base /\ b.readCallback = base.readCallback
      /\ b.reads = base.reads /\ b.timeout = base.timeout
  BY DEF Inv, FieldsInv
<1>. HIDE DEF b
<1>4. base' = CheckBufLen(b) /\ UNCHANGED <<fb, sub, sock, hist>>
  BY DEF DeliverAppDataStop, b
<1>5. /\ DOMAIN base' = DOMAIN base /\ base'.readCallback = base.readCallback
      /\ base'.timeout = base.timeout
      /\ base.readCallback => (base'.reads <=> base.reads)
  BY <1>3, <1>4, BufferFields
<1>6. SocketOnly
  BY <1>2, <1>4, <1>5 DEF Inv, FieldsInv, StartInv, SocketOnly
<1>7. \E fs : Runs(fs) /\ ~Has(fs, {"deliverAppData"}) /\ ~Has(fs, {"sockFail"})
  BY <1>1, RunsOf DEF DeliverAppDataStop, Return
<1>8. /\ Outside
      /\ Has(stack, {"setReadCB", "deliverError", "attached"})
           => Has(stack', {"setReadCB", "deliverError", "attached"})
      /\ Has(stack, {"setReadCB", "deliverError"}) => Has(stack', {"setReadCB", "deliverError"})
  BY <1>1, <1>6, <1>7, SocketStep
<1>9. Has(stack', {"sockFail"}) => Has(stack, {"sockFail"})
  BY <1>7, RunsKeep DEF Inv
<1>10. ReadInv'
  BY <1>2, <1>4, <1>5, <1>8, <1>9 DEF Inv, ReadInv
<1>. QED  BY <1>1, <1>8, <1>10, OutsideKeeps

LEMMA SetReadCBKeeps ==
  ASSUME NEW set \in BOOLEAN, Inv, SetReadCB(set)
  PROVE  Inv'
<1>1. Started /\ IsSeq(stack)
  BY DEF SetReadCB, AppCall, Inv, StackInv
<1>2. SocketOnly
  BY DEF SetReadCB, Counted, Inv, FieldsInv, StartInv, DataInv, SocketOnly
<1>3. CASE ~set
  <2>1. stack' = stack
    BY <1>1, <1>3, EmptyConcat DEF SetReadCB, Call
  <2>2. \E fs : Runs(fs) /\ ~Has(fs, {"deliverAppData"}) /\ ~Has(fs, {"sockFail"})
    BY <1>3, SimpleFrames, RunsOf DEF SetReadCB, Call
  <2>3. Outside
    BY <1>1, <1>2, <2>2, SocketStep
  <2>4. /\ fb' = fb /\ sub' = sub /\ sock' = sock
        /\ ~base'.readCallback /\ base'.reads = base.reads
    BY <1>3 DEF SetReadCB, Inv, FieldsInv
  <2>5. ReadInv'
    BY <2>1, <2>4 DEF Inv, ReadInv
  <2>. QED  BY <1>1, <2>3, <2>5, OutsideKeeps
<1>4. CASE set
  <2>. DEFINE x == IF base.appDataBuf = <<>> THEN <<>>
                   ELSE <<[f |-> "deliverAppData", data |-> base.appDataBuf]>>
              y == <<Frame("setReadCB")>>
  <2>1. Ordinary(x) /\ ~Has(x, {"sockFail"}) /\ (sub.callback => ~Has(x, {"deliverAppData"}))
    <3>0. [f |-> "deliverAppData", data |-> base.appDataBuf].f = "deliverAppData"
      OBVIOUS
    <3>1. Ordinary(<<[f |-> "deliverAppData", data |-> base.appDataBuf]>>)
      BY <3>0, OrdinaryFrames DEF Unordinary
    <3>2. ~Has(<<[f |-> "deliverAppData", data |-> base.appDataBuf]>>, {"sockFail"})
      BY <3>0, HasTuple
    <3>3. ~Has(<<>>, {"sockFail"}) /\ ~Has(<<>>, {"deliverAppData"})
      BY HasTuple
    <3>. QED  BY <3>1, <3>2, <3>3, OrdinaryFrames DEF Inv, DataInv
  <2>2. /\ Ordinary(y) /\ ~Has(y, {"sockFail"}) /\ ~Has(y, {"deliverAppData"})
        /\ Has(y, {"setReadCB", "deliverError"})
        /\ Has(y, {"setReadCB", "deliverError", "attached"})
    <3>1. Frame("setReadCB").f = "setReadCB"
      BY DEF Frame
    <3>2. Ordinary(y)
      BY <3>1, OrdinaryFrames DEF Unordinary
    <3>3. \A names : Has(y, names) <=> "setReadCB" \in names
      BY <3>1 DEF Has
    <3>. QED  BY <3>2, <3>3
  <2>. HIDE DEF x, y
  <2>3. IsSeq(x) /\ IsSeq(y)
    BY <2>1, <2>2 DEF Ordinary, WellFormed
  <2>4. stack' = (x \o y) \o stack
    BY <1>4 DEF SetReadCB, Call, x, y
  <2>5. \A names : Has(x \o y, names) <=> Has(x, names) \/ Has(y, names)
    BY <2>3, HasConcat
  <2>6. Runs(x \o y)
    BY <2>1, <2>2, <2>4, OrdinaryConcat DEF Runs
  <2>7. Outside /\ (Has(stack, Resumers) => Has(stack', Resumers))
    BY <1>1, <1>2, <2>1, <2>2, <2>5, <2>6, SocketStep
  <2>8. IsSeq(x \o y) /\ \A names : Has(stack', names) <=> Has(x \o y, names) \/ Has(stack, names)
    BY <1>1, <2>3, <2>4, ConcatSeqs, HasConcat
  <2>9. /\ Has(stack', {"sockFail"}) => Has(stack, {"sockFail"})
        /\ Has(stack', {"setReadCB", "deliverError"})
        /\ Has(stack', {"setReadCB", "deliverError", "attached"})
    BY <2>1, <2>2, <2>5, <2>8
  <2>10. /\ fb' = fb /\ sub' = sub /\ sock' = sock /\ base'.reads = base.reads
    BY DEF SetReadCB, Inv, FieldsInv
  <2>11. ReadInv'
    BY <2>7, <2>9, <2>10 DEF Inv, ReadInv
  <2>. QED  BY <1>1, <2>7, <2>11, OutsideKeeps
<1>. QED  BY <1>3, <1>4
LEMMA SetReadCBRestKeeps ==
  ASSUME Inv, SetReadCBRest
  PROVE  Inv'
<1>1. stack # <<>> /\ Top.f = "setReadCB" /\ Top.f \notin Reporters
  BY DEF SetReadCBRest, On, Reporters
<1>2. SocketOnly /\ UNCHANGED <<fb, sub, sock>> /\ base'.readCallback = base.readCallback
  BY DEF SetReadCBRest, Inv, FieldsInv, StartInv, DataInv, SocketOnly
<1>3. ASSUME NEW ex, stack' = <<[f |-> "deliverError", ex |-> ex, close |-> TRUE]>> \o Tail(stack),
             base'.reads = base.reads
      PROVE  Inv'
  <2>. DEFINE r == [f |-> "deliverError", ex |-> ex, close |-> TRUE]
  <2>1. r.f = "deliverError"
    OBVIOUS
  <2>. HIDE DEF r
  <2>2. Ordinary(<<r>>) /\ \A names : Has(<<r>>, names) <=> "deliverError" \in names
    <3>1. Ordinary(<<r>>)
      BY <2>1, OrdinaryFrames DEF Unordinary
    <3>2. \A names : Has(<<r>>, names) <=> "deliverError" \in names
      BY <2>1 DEF Has
    <3>. QED  BY <3>1, <3>2
  <2>3. stack' = <<r>> \o Tail(stack)
    BY <1>3 DEF r
  <2>4. /\ Started /\ Outside
        /\ \A names : Has(stack', names) <=> Has(<<r>>, names) \/ Has(Tail(stack), names)
        /\ \A names : Has(stack, names) <=> Top.f \in names \/ Has(Tail(stack), names)
    BY <1>1, <1>2, <2>2, <2>3, ReplaceStep
  <2>5. /\ Has(stack', {"setReadCB", "deliverError", "attached"})
        /\ Has(stack', {"setReadCB", "deliverError"})
        /\ Has(stack', {"sockFail"}) => Has(stack, {"sockFail"})
        /\ Has(stack, Resumers) => Has(stack', Resumers)
    BY <1>1, <2>2, <2>4 DEF Resumers
  <2>6. ReadInv'
    BY <1>2, <1>3, <2>5 DEF Inv, ReadInv
  <2>. QED  BY <2>4, <2>6, OutsideKeeps
<1>4. ASSUME Good, stack' = Tail(stack), base'.reads
      PROVE  Inv'
  <2>1. stack' = <<>> \o Tail(stack)
    BY <1>1, <1>4, OnIsStarted, EmptyConcat
  <2>2. /\ Started /\ Outside
        /\ \A names : Has(stack', names) <=> Has(<<>>, names) \/ Has(Tail(stack), names)
        /\ \A names : Has(stack, names) <=> Top.f \in names \/ Has(Tail(stack), names)
    BY <1>1, <1>2, <2>1, ReplaceStep, OrdinaryFrames, HasTuple
  <2>3. Has(stack', {"sockFail"}) => Has(stack, {"sockFail"})
    BY <2>2, HasTuple
  <2>4. ReadInv'
    BY <1>2, <1>4, <2>3 DEF Inv, ReadInv, Good, InTerminalState
  <2>. QED  BY <2>2, <2>4, OutsideKeeps
<1>5. CASE base.readCallback /\ base.pendingReadEx # "none"
  BY <1>3, <1>5 DEF SetReadCBRest, TailCall, Inv, FieldsInv
<1>6. CASE ~(base.readCallback /\ base.pendingReadEx # "none") /\ ~Good
  BY <1>3, <1>6 DEF SetReadCBRest, TailCall
<1>7. CASE ~(base.readCallback /\ base.pendingReadEx # "none") /\ Good
  BY <1>4, <1>7 DEF SetReadCBRest, Return, Inv, FieldsInv
<1>. QED  BY <1>5, <1>6, <1>7

LEMMA AttachedKeeps ==
  ASSUME Inv, Attached
  PROVE  Inv'
<1>1. stack # <<>> /\ Top.f = "attached" /\ Top.f \notin Reporters
  BY DEF Attached, On, Reporters
<1>2. /\ SocketOnly /\ UNCHANGED <<fb, sub, sock>> /\ base'.readCallback = base.readCallback
      /\ sock.state = "open" => base'.reads
  BY DEF Attached, TransportGood, Inv, FieldsInv, StartInv, DataInv, SocketOnly
<1>3. \E fs : Simple(fs) /\ stack' = fs \o Tail(stack)
  <2>1. Simple(<<[f |-> "transportError", ex |-> "Error"]>>)
    BY SimpleFrames DEF Marked
  <2>. QED  BY <2>1, SimpleFrames DEF Attached, TailCall
<1>4. PICK fs : Simple(fs) /\ stack' = fs \o Tail(stack)
  BY <1>3
<1>5. /\ Started /\ Outside
      /\ \A names : Has(stack', names) <=> Has(fs, names) \/ Has(Tail(stack), names)
      /\ \A names : Has(stack, names) <=> Top.f \in names \/ Has(Tail(stack), names)
  BY <1>1, <1>2, <1>4, ReplaceStep DEF Simple
<1>6. /\ Has(stack', {"sockFail"}) => Has(stack, {"sockFail"})
      /\ Has(stack, {"setReadCB", "deliverError"}) => Has(stack', {"setReadCB", "deliverError"})
  BY <1>1, <1>4, <1>5 DEF Simple
<1>7. ReadInv'
  BY <1>2, <1>6 DEF Inv, ReadInv
<1>. QED  BY <1>5, <1>7, OutsideKeeps

-----------------------------------------------------------------------------
(* Errors.                                                                 *)
LEMMA DeliverErrorKeeps ==
  ASSUME Inv, DeliverError
  PROVE  Inv'
<1>1. stack # <<>> /\ Top.f = "deliverError" /\ Top.f \notin Reporters
  BY DEF DeliverError, On, Reporters
<1>2. /\ SocketOnly /\ UNCHANGED <<fb, sub, sock>> /\ ~base'.readCallback
      /\ base'.reads = base.reads
  BY DEF DeliverError, Inv, FieldsInv, StartInv, DataInv, SocketOnly
<1>3. \E fs : Simple(fs) /\ stack' = fs \o Tail(stack)
  <2>1. Simple(<<[f |-> "failImmediate", close |-> Top.close]>>)
    BY SimpleFrames DEF Marked
  <2>. QED  BY <2>1, SimpleFrames, SimpleCalls, SimpleConcat DEF DeliverError, TailCall
<1>4. PICK fs : Simple(fs) /\ stack' = fs \o Tail(stack)
  BY <1>3
<1>5. /\ Started /\ Outside
      /\ \A names : Has(stack', names) <=> Has(fs, names) \/ Has(Tail(stack), names)
      /\ \A names : Has(stack, names) <=> Top.f \in names \/ Has(Tail(stack), names)
  BY <1>1, <1>2, <1>4, ReplaceStep DEF Simple
<1>6. /\ Has(stack', {"sockFail"}) => Has(stack, {"sockFail"})
      /\ Has(stack, Resumers) => Has(stack', Resumers)
  BY <1>1, <1>4, <1>5 DEF Simple, Resumers
<1>7. ReadInv'
  BY <1>2, <1>6 DEF Inv, ReadInv
<1>. QED  BY <1>5, <1>7, OutsideKeeps

(* A function that will report is replaced by others that will, and        *)
(* nothing the invariant is about changes.                                 *)
LEMMA ReporterStep ==
  ASSUME Inv, Steady, stack # <<>>, Top.f \in Reporters \ {"deliverHandshakeError"},
         \E fs : /\ Ordinary(fs) /\ Has(fs, Reporters) /\ stack' = fs \o Tail(stack)
                 /\ ~Has(fs, {"deliverAppData"}) /\ ~Has(fs, {"sockFail"})
                 /\ Top.f \in Resumers => Has(fs, Resumers)
  PROVE  Inv'
<1>0. PICK fs : /\ Ordinary(fs) /\ Has(fs, Reporters) /\ stack' = fs \o Tail(stack)
                /\ ~Has(fs, {"deliverAppData"}) /\ ~Has(fs, {"sockFail"})
                /\ Top.f \in Resumers => Has(fs, Resumers)
  OBVIOUS
<1>1. SocketOnly
  BY ViewUnchanged DEF Steady, SocketOnly, Inv, DataInv, StartInv
<1>2. /\ Top.f # "visit" /\ Top.f # "deliverHandshakeError"
      /\ Top.f \notin {"setReadCB", "deliverError", "attached"}
  BY DEF Reporters
<1>3. /\ Started /\ Outside
      /\ \A names : Has(stack', names) <=> Has(fs, names) \/ Has(Tail(stack), names)
      /\ \A names : Has(stack, names) <=> Top.f \in names \/ Has(Tail(stack), names)
  BY <1>0, <1>1, <1>2, ReplaceStep
<1>4. /\ Has(stack, {"setReadCB", "deliverError", "attached"})
           => Has(stack', {"setReadCB", "deliverError", "attached"})
      /\ Has(stack, Resumers) => Has(stack', Resumers)
      /\ Has(stack, {"setReadCB", "deliverError"}) => Has(stack', {"setReadCB", "deliverError"})
      /\ Has(stack', {"sockFail"}) => Has(stack, {"sockFail"})
  BY <1>0, <1>2, <1>3
<1>5. ReadInv'
  BY <1>4, ViewUnchanged DEF Steady, Inv, ReadInv
<1>. QED  BY <1>3, <1>5, OutsideKeeps

LEMMA TransportErrorKeeps ==
  ASSUME Inv, TransportError
  PROVE  Inv'
<1>1. Steady
  BY DEF TransportError, Steady, View, Inv, FieldsInv
<1>2. stack # <<>> /\ Top.f \in Reporters \ {"deliverHandshakeError"} /\ Top.f \notin Resumers
  BY DEF TransportError, On, Reporters, Resumers
<1>3. AllErrors(Top.ex, TRUE).f \in Reporters
  BY DEF AllErrors, Reporters
<1>4. Has(<<AllErrors(Top.ex, TRUE)>>, Reporters)
  BY <1>3, HasTuple
<1>. QED  BY <1>1, <1>2, <1>4, SimpleCalls, ReporterStep DEF TransportError, TailCall, Simple

LEMMA DeliverAllErrorsKeeps ==
  ASSUME Inv, DeliverAllErrors
  PROVE  Inv'
<1>1. Steady
  BY DEF DeliverAllErrors, Steady, View, Inv, FieldsInv
<1>2. stack # <<>> /\ Top.f \in Reporters \ {"deliverHandshakeError"}
  BY DEF DeliverAllErrors, On, Reporters
<1>3. \E fs : /\ Ordinary(fs) /\ Has(fs, Reporters) /\ stack' = fs \o Tail(stack)
              /\ ~Has(fs, {"deliverAppData"}) /\ ~Has(fs, {"sockFail"})
              /\ Has(fs, Resumers)
  BY ErrorFramesAreOrdinary DEF DeliverAllErrors, TailCall
<1>. QED  BY <1>1, <1>2, <1>3, ReporterStep

LEMMA EndEarlyDataKeeps ==
  ASSUME NEW params, Inv, EndEarlyData(params)
  PROVE  Inv'
<1>1. Steady
  BY DEF EndEarlyData, Steady, View, Inv, FieldsInv
<1>2. stack # <<>> /\ Top.f \in Reporters \ {"deliverHandshakeError"} /\ Top.f \notin Resumers
  BY DEF EndEarlyData, On, Reporters, Resumers
<1>. DEFINE x == <<AllErrors("Error", FALSE), Frame("sockCloseNow")>>
            y == <<Frame("flushEarlyWrites"), Frame("reportSuccess")>>
            w == PerformAppWrite(NoToken, sub.early.resend)
<1>3. /\ AllErrors("Error", FALSE).f = "deliverAllErrors"
      /\ Frame("sockCloseNow").f = "sockCloseNow"
      /\ Frame("flushEarlyWrites").f = "flushEarlyWrites"
      /\ Frame("reportSuccess").f = "reportSuccess"
  BY DEF AllErrors, Frame
<1>4. Simple(x) /\ Simple(y) /\ Simple(w) /\ Simple(<<>>)
  BY <1>3, SimpleFrames, SimpleCalls DEF Marked
<1>5. Has(x, Reporters) /\ Has(y, Reporters)
  <2>1. AllErrors("Error", FALSE).f \in Reporters /\ Frame("reportSuccess").f \in Reporters
    BY <1>3 DEF Reporters
  <2>. QED  BY <2>1, HasTuple
<1>6. \/ stack' = x \o Tail(stack)
      \/ stack' = (w \o y) \o Tail(stack)
      \/ stack' = (<<>> \o y) \o Tail(stack)
  BY DEF EndEarlyData, TailCall
<1>. HIDE DEF x, y, w
<1>7. \A s : Simple(s) => Simple(s \o y) /\ Has(s \o y, Reporters)
  BY <1>4, <1>5, SimpleConcat, HasConcat DEF Simple, Ordinary, WellFormed
<1>. QED  BY <1>1, <1>2, <1>4, <1>5, <1>6, <1>7, ReporterStep DEF Simple
(* The handshake callback has been called, or was called before: what was  *)
(* promised to it is no longer asked for.                                  *)
LEMMA ReportedStep ==
  ASSUME NEW fs, Inv, Simple(fs), stack # <<>>, Top.f # "visit", stack' = fs \o Tail(stack),
         Top.f \notin {"setReadCB", "deliverError", "attached"},
         FieldsInv', ~sub'.callback, sub'.config = sub.config, Started',
         IsSeq(hist'.reports), Len(hist'.reports) <= 1,
         base'.timeout => base.timeout, sock'.state = sock.state,
         fb'.state = fb.state, fb'.waitForData = fb.waitForData, fb'.paused = fb.paused,
         fb'.unread = fb.unread, fb'.deferred = fb.deferred, fb'.guard = fb.guard,
         base'.readCallback = base.readCallback, base'.reads = base.reads,
         fb'.error /\ base.readCallback => fb.error \/ Has(stack', {"setReadCB", "deliverError"})
  PROVE  Inv'
<1>0. WellFormed(stack) /\ Started
  BY OnIsStarted DEF Inv, StackInv, WellFormed
<1>1. /\ WellFormed(stack')
      /\ Has(stack', {"visit"}) <=> Has(stack, {"visit"})
      /\ \A a : Visits(stack', a) <=> Visits(stack, a)
      /\ \A names : Has(stack', names) <=> Has(fs, names) \/ Has(Tail(stack), names)
      /\ \A names : Has(stack, names) <=> Top.f \in names \/ Has(Tail(stack), names)
  BY <1>0, Replaced DEF Top, Simple
<1>2. Outside
  BY <1>1 DEF Outside, Inv, StartInv
<1>3. /\ Has(stack, {"setReadCB", "deliverError", "attached"})
           => Has(stack', {"setReadCB", "deliverError", "attached"})
      /\ Has(stack, {"setReadCB", "deliverError"}) => Has(stack', {"setReadCB", "deliverError"})
      /\ Has(stack', {"sockFail"}) => Has(stack, {"sockFail"})
  BY <1>1 DEF Simple
<1>4. ReadInv'
  BY <1>3 DEF Inv, ReadInv
<1>. QED  BY <1>0, <1>2, <1>4, OutsideKeeps

LEMMA FirstReport ==
  ASSUME NEW r, hist.reports = <<>>
  PROVE  /\ Append(hist.reports, r) # <<>> /\ IsSeq(Append(hist.reports, r))
         /\ Len(Append(hist.reports, r)) <= 1
<1>1. Append(hist.reports, r) = <<r>>
  OBVIOUS
<1>2. <<r>> # <<>> /\ Len(<<r>>) = 1
  OBVIOUS
<1>. QED  BY <1>1, <1>2, TuplesAreSeqs

LEMMA MoveToErrorStateKeeps ==
  ASSUME Inv, MoveToErrorState
  PROVE  Inv'
<1>1. stack # <<>> /\ Top.f = "moveToErrorState" /\ IsSeq(stack) /\ WellFormed(stack)
  BY OnIsStarted DEF MoveToErrorState, On, Inv, StackInv, WellFormed
<1>2. ~sub.callback
  BY <1>1, TellsFirstTail DEF Inv, ReportInv, Top
<1>3. Has(Tail(stack), {"deliverError"}) /\ IsSeq(Tail(stack))
  BY <1>1, WellFormedTail, TailSeq DEF Top
<1>4. \E fs : Simple(fs) /\ stack' = fs \o Tail(stack)
  <2>1. Simple(<<Frame("drain")>>) /\ Simple(<<>>)
    BY SimpleFrames DEF Frame, Marked
  <2>2. Tail(stack) = <<>> \o Tail(stack)
    BY <1>3, EmptyConcat
  <2>. QED  BY <2>1, <2>2 DEF MoveToErrorState, TailCall, Return
<1>5. PICK fs : Simple(fs) /\ stack' = fs \o Tail(stack)
  BY <1>4
<1>6. Has(stack', {"deliverError"})
  BY <1>3, <1>5, HasConcat DEF Simple, Ordinary, WellFormed
<1>7. Has(stack', {"setReadCB", "deliverError"})
  BY <1>6 DEF Has
<1>8. /\ FieldsInv' /\ UNCHANGED <<base, sub, sock, hist>>
      /\ fb'.state = fb.state /\ fb'.waitForData = fb.waitForData /\ fb'.paused = fb.paused
      /\ fb'.unread = fb.unread /\ fb'.deferred = fb.deferred /\ fb'.guard = fb.guard
  BY DEF MoveToErrorState, Inv, FieldsInv
<1>9. Started' /\ IsSeq(hist'.reports) /\ Len(hist'.reports) <= 1
  BY <1>1, <1>8, OnIsStarted DEF Started, Inv, ReportInv
<1>. QED  BY <1>1, <1>2, <1>5, <1>7, <1>8, <1>9, ReportedStep

LEMMA DeliverHandshakeErrorKeeps ==
  ASSUME Inv, DeliverHandshakeError
  PROVE  Inv'
<1>1. stack # <<>> /\ Top.f = "deliverHandshakeError" /\ Started /\ IsSeq(Tail(stack))
  BY OnIsStarted DEF DeliverHandshakeError, On
<1>2. \E fs : Simple(fs) /\ stack' = fs \o Tail(stack)
  <2>1. Tail(stack) = <<>> \o Tail(stack)
    BY <1>1, EmptyConcat
  <2>. QED  BY <2>1, SimpleFrames, SimpleCalls DEF DeliverHandshakeError, TailCall, Return
<1>3. PICK fs : Simple(fs) /\ stack' = fs \o Tail(stack)
  BY <1>2
<1>4. /\ FieldsInv' /\ UNCHANGED <<fb, sock>> /\ sub'.config = sub.config /\ ~sub'.callback
      /\ base'.timeout => base.timeout
      /\ base'.readCallback = base.readCallback /\ base'.reads = base.reads
  BY DEF DeliverHandshakeError, Inv, FieldsInv
<1>5. Started' /\ IsSeq(hist'.reports) /\ Len(hist'.reports) <= 1
  <2>1. CASE sub.callback
    <3>1. hist'.reports = Append(hist.reports, "error") /\ hist.reports = <<>>
      BY <2>1 DEF DeliverHandshakeError, Inv, FieldsInv, ReportInv
    <3>. QED  BY <3>1, FirstReport DEF Started
  <2>2. CASE ~sub.callback
    BY <1>1, <2>2 DEF DeliverHandshakeError, Started, Inv, ReportInv
  <2>. QED  BY <2>1, <2>2
<1>. QED  BY <1>1, <1>3, <1>4, <1>5, ReportedStep

LEMMA ReportSuccessKeeps ==
  ASSUME Inv, ReportSuccess
  PROVE  Inv'
<1>1. stack # <<>> /\ Top.f = "reportSuccess" /\ Started
  BY OnIsStarted DEF ReportSuccess, On
<1>2. \E fs : Simple(fs) /\ stack' = fs \o Tail(stack)
  BY SimpleFrames DEF ReportSuccess, TailCall, Frame, Marked
<1>3. PICK fs : Simple(fs) /\ stack' = fs \o Tail(stack)
  BY <1>2
<1>4. FieldsInv' /\ UNCHANGED <<fb, base, sock>> /\ sub'.config = sub.config /\ ~sub'.callback
  BY DEF ReportSuccess, Inv, FieldsInv
<1>5. Started' /\ IsSeq(hist'.reports) /\ Len(hist'.reports) <= 1
  <2>1. CASE sub.callback
    <3>1. hist'.reports = Append(hist.reports, "success") /\ hist.reports = <<>>
      BY <2>1 DEF ReportSuccess, Inv, FieldsInv, ReportInv
    <3>. QED  BY <3>1, FirstReport DEF Started
  <2>2. CASE ~sub.callback
    BY <1>1, <2>2 DEF ReportSuccess, Started, Inv, ReportInv
  <2>. QED  BY <2>1, <2>2
<1>. QED  BY <1>1, <1>3, <1>4, <1>5, ReportedStep
-----------------------------------------------------------------------------
(* The visitors.  The visit goes on below the frames it calls.             *)
LEMMA VisitGoesOn ==
  ASSUME NEW fs, Inv, On("visit"), Top.actions # <<>>, Ordinary(fs), ThenRest(fs)
  PROVE  /\ Started /\ fb.guard /\ fb.deferred = <<>>
         /\ IsSeq(Top.actions) /\ ActionsOk(Top.actions) /\ ActionsOk(Tail(Top.actions))
         /\ WellFormed(stack') /\ Has(stack', {"visit"})
         /\ \A a : Visits(stack, a) <=> Holds(Top.actions, a)
         /\ \A a : Visits(stack', a) <=> Holds(Tail(Top.actions), a)
         /\ TellsFirst(stack) => TellsFirst(stack')
         /\ Reporting(stack) => Holds(Top.actions, "ReportHandshakeSuccess")
         /\ Holds(Tail(Top.actions), "ReportHandshakeSuccess") \/ Has(fs, Reporters)
              => Reporting(stack')
         /\ \A names : "visit" \notin names
              => (Has(stack', names) <=> Has(fs, names) \/ Has(stack, names))
<1>0. stack # <<>> /\ Head(stack) = Top /\ Top.f = "visit" /\ WellFormed(stack) /\ IsSeq(stack)
  BY DEF On, Top, Inv, StackInv, WellFormed
<1>1. Started /\ IsSeq(Tail(stack)) /\ WellFormed(Tail(stack))
  BY <1>0, OnIsStarted, WellFormedTail
<1>2. ActionsOk(Top.actions) /\ ~Has(Tail(stack), {"visit"})
  BY <1>0, WellFormedTail
<1>3. IsSeq(Top.actions) /\ ActionsOk(Tail(Top.actions))
  BY <1>2, ActionsTail
<1>. DEFINE rest == Tail(Top.actions)
            v == Visit(rest)
            t == <<v>> \o Tail(stack)
<1>4. v.f = "visit" /\ v.actions = rest
  BY DEF Visit
<1>. HIDE DEF v, rest
<1>5. WellFormed(<<v>>) /\ IsSeq(<<v>>)
  <2>1. VisitsOk(<<v>>)
    BY <1>3, <1>4 DEF VisitsOk, rest
  <2>2. OneVisit(<<v>>) /\ TellsReader(<<v>>) /\ IsSeq(<<v>>)
    BY <1>4, TuplesAreSeqs DEF OneVisit, TellsReader
  <2>. QED  BY <2>1, <2>2 DEF WellFormed
<1>6. TellsFirst(<<v>>)
  BY <1>4 DEF TellsFirst
<1>7. \A names : Has(<<v>>, names) <=> "visit" \in names
  BY <1>4 DEF Has
<1>8. \A a : Visits(<<v>>, a) <=> Holds(rest, a)
  BY <1>4 DEF Visits
<1>9. IsSeq(fs) /\ WellFormed(fs) /\ TellsFirst(fs) /\ ~Has(fs, {"visit"})
  BY DEF Ordinary, WellFormed
<1>10. stack' = fs \o t
  <2>1. (fs \o <<v>>) \o Tail(stack) = fs \o (<<v>> \o Tail(stack))
    <3>. DEFINE S == {fs[i] : i \in DOMAIN fs} \cup {<<v>>[i] : i \in DOMAIN <<v>>}
                     \cup {Tail(stack)[i] : i \in DOMAIN Tail(stack)}
    <3>1. fs \in Seq(S) /\ <<v>> \in Seq(S) /\ Tail(stack) \in Seq(S)
      BY <1>1, <1>5, <1>9 DEF IsSeq
    <3>. HIDE DEF S
    <3>. QED  BY <3>1
  <2>. QED  BY <2>1 DEF ThenRest, TailCall, v, rest
<1>11. IsSeq(t) /\ WellFormed(t)
  BY <1>1, <1>2, <1>5, WellFormedConcat, ConcatSeqs
<1>12. \A names : Has(t, names) <=> "visit" \in names \/ Has(Tail(stack), names)
  BY <1>1, <1>5, <1>7, HasConcat
<1>13. \A a : Visits(t, a) <=> Holds(rest, a)
  BY <1>1, <1>2, <1>5, <1>8, VisitsConcat, VisitsHas
<1>14. TellsFirst(stack) => TellsFirst(t)
  <2>1. TellsFirst(stack) => TellsFirst(Tail(stack))
    BY <1>0, TellsFirstTail
  <2>. QED  BY <1>1, <1>5, <1>6, <2>1, TellsFirstConcat
<1>15. \A names : Has(stack, names) <=> "visit" \in names \/ Has(Tail(stack), names)
  BY <1>0, HasTail
<1>16. \A a : Visits(stack, a) <=> Holds(Top.actions, a)
  BY <1>0, <1>2, VisitsTail, VisitsHas
<1>17. Reporting(stack) => Holds(Top.actions, "ReportHandshakeSuccess")
  BY <1>0, <1>2, ReportingTail
<1>18. Has(t, {"visit"}) /\ Has(stack, {"visit"})
  BY <1>12, <1>15
<1>. HIDE DEF t
<1>19. /\ Keeps(t, fs \o t)
       /\ \A names : Has(fs \o t, names) <=> Has(fs, names) \/ Has(t, names)
  BY <1>11, Pushed
<1>20. Holds(rest, "ReportHandshakeSuccess") \/ Has(fs, Reporters) => Reporting(fs \o t)
  BY <1>9, <1>11, <1>13, <1>18, <1>19, ReportingHas, ReportingConcat DEF Keeps
<1>21. fb.guard /\ fb.deferred = <<>>
  BY <1>18 DEF Inv, GuardInv
<1>22. /\ WellFormed(stack') /\ Has(stack', {"visit"})
       /\ \A a : Visits(stack', a) <=> Holds(rest, a)
       /\ TellsFirst(stack) => TellsFirst(stack')
  BY <1>10, <1>13, <1>14, <1>18, <1>19 DEF Keeps
<1>23. \A names : "visit" \notin names
         => (Has(stack', names) <=> Has(fs, names) \/ Has(stack, names))
  BY <1>10, <1>12, <1>15, <1>19
<1>. QED  BY <1>1, <1>2, <1>3, <1>10, <1>16, <1>17, <1>20, <1>21, <1>22, <1>23 DEF rest

VisitStep ==
  /\ FieldsInv' /\ Started' /\ sub'.config = sub.config
  /\ fb'.deferred = fb.deferred /\ fb'.guard = fb.guard
  /\ fb'.error = fb.error /\ fb'.paused = fb.paused /\ sock'.state = sock.state
  /\ \/ fb'.state = fb.state
     \/ Action.a = "MutateState" /\ fb'.state = Action.state
  /\ fb'.unread = fb.unread \/ fb'.unread = 0
  /\ fb'.waitForData => fb.waitForData \/ Action.a = "WaitForData"
  /\ IsSeq(hist'.reports) /\ Len(hist'.reports) <= 1
  /\ base'.timeout => base.timeout
  /\ sub'.callback => sub.callback /\ hist'.reports = <<>> /\ base'.appDataBuf = <<>>
  /\ base'.readCallback => base.readCallback
  /\ base.reads => base'.reads
  /\ sub'.callback /\ Action.a = "WaitForData" /\ sock.state = "open" => base'.reads

LEMMA VisitKeeps ==
  ASSUME NEW fs, Inv, VisitStep, On("visit"), Top.actions # <<>>, Ordinary(fs), ThenRest(fs),
         ~Has(fs, {"sockFail"}), sub'.callback => ~Has(fs, {"deliverAppData"}),
         Action.a = "ReportHandshakeSuccess" =>
           Has(fs, Reporters) /\ (Role = "client" => ~base'.timeout)
  PROVE  Inv'
<1>1. /\ Started /\ fb.guard /\ fb.deferred = <<>>
      /\ IsSeq(Top.actions) /\ ActionsOk(Top.actions) /\ ActionsOk(Tail(Top.actions))
      /\ WellFormed(stack') /\ Has(stack', {"visit"})
      /\ \A a : Visits(stack, a) <=> Holds(Top.actions, a)
      /\ \A a : Visits(stack', a) <=> Holds(Tail(Top.actions), a)
      /\ TellsFirst(stack) => TellsFirst(stack')
      /\ Reporting(stack) => Holds(Top.actions, "ReportHandshakeSuccess")
      /\ Holds(Tail(Top.actions), "ReportHandshakeSuccess") \/ Has(fs, Reporters)
           => Reporting(stack')
      /\ \A names : "visit" \notin names
           => (Has(stack', names) <=> Has(fs, names) \/ Has(stack, names))
  BY VisitGoesOn
<1>2. \A a : Holds(Top.actions, a) <=> Action.a = a \/ Holds(Tail(Top.actions), a)
  BY <1>1, HoldsTail DEF Action
<1>3. \A a : Visits(stack', a) => Visits(stack, a)
  BY <1>1, <1>2
<1>4. Action.a = "MutateState" =>
        /\ Action.state # "Uninitialized"
        /\ Action.state = "Open" => Holds(Tail(Top.actions), "ReportHandshakeSuccess")
  BY <1>1, ActionsTail DEF Action
<1>5. Role' = Role
  BY DEF VisitStep, Role
<1>6. StackInv'
  BY <1>1 DEF WellFormed, StackInv
<1>7. GuardInv'
  BY <1>1, <1>5 DEF Inv, GuardInv, VisitStep
<1>8. StartInv'
  BY <1>1, <1>4, <1>5 DEF Inv, StartInv, VisitStep
<1>9. ReportInv'
  <2>1. sub'.callback /\ fb'.state = "Open" => Reporting(stack')
    BY <1>1, <1>2, <1>4 DEF Inv, ReportInv, VisitStep
  <2>2. Role = "client" /\ fb'.state = "Open" /\ base'.timeout
          => Visits(stack', "ReportHandshakeSuccess")
    BY <1>1, <1>2, <1>4 DEF Inv, ReportInv, VisitStep
  <2>. QED  BY <1>1, <1>5, <2>1, <2>2 DEF Inv, ReportInv, VisitStep
<1>10. DataInv'
  <2>1. sub'.callback => ~Has(stack', {"deliverAppData"}) /\ ~Visits(stack', "DeliverAppData")
                         /\ ~Holds(fb.deferred, "DeliverAppData")
    <3>1. sub'.callback => sub.callback
      BY DEF VisitStep
    <3>2. Has(stack', {"deliverAppData"})
            => Has(fs, {"deliverAppData"}) \/ Has(stack, {"deliverAppData"})
      BY <1>1
    <3>. QED  BY <1>3, <3>1, <3>2 DEF Inv, DataInv
  <2>2. fb'.waitForData \/ Visits(stack', "WaitForData") => fb'.unread = 0
    BY <1>1, <1>2, <1>3 DEF Inv, DataInv, VisitStep
  <2>. QED  BY <2>1, <2>2 DEF Inv, DataInv, VisitStep
<1>11. ReadInv'
  <2>1. /\ Has(stack, {"setReadCB", "deliverError", "attached"})
             => Has(stack', {"setReadCB", "deliverError", "attached"})
        /\ Has(stack, Resumers) => Has(stack', Resumers)
        /\ Has(stack, {"setReadCB", "deliverError"}) => Has(stack', {"setReadCB", "deliverError"})
        /\ Has(stack', {"sockFail"}) => Has(stack, {"sockFail"})
    BY <1>1 DEF Resumers
  <2>. QED  BY <2>1 DEF Inv, ReadInv, VisitStep
<1>. QED  BY <1>6, <1>7, <1>8, <1>9, <1>10, <1>11 DEF Inv, VisitStep
LEMMA SteadyVisit ==
  ASSUME Inv, Steady, stack # <<>>, Action.a # "WaitForData"
  PROVE  VisitStep
<1>1. Started'
  BY OnIsStarted, ViewUnchanged DEF Started, Steady
<1>. QED  BY <1>1, ViewUnchanged DEF VisitStep, Steady, Inv, ReportInv, DataInv

LEMMA VisitWriteToSocketKeeps ==
  ASSUME Inv, VisitWriteToSocket
  PROVE  Inv'
<1>1. /\ On("visit") /\ Top.actions # <<>> /\ stack # <<>>
      /\ Action.a = "WriteToSocket"
  BY DEF VisitWriteToSocket, Visiting, On, Action
<1>2. Steady
  BY DEF VisitWriteToSocket, Steady, View, Inv, FieldsInv
<1>3. \E fs : Simple(fs) /\ ThenRest(fs)
  BY SimpleFrames DEF VisitWriteToSocket, Marked
<1>. QED  BY <1>1, <1>2, <1>3, SteadyVisit, VisitKeeps DEF Simple

LEMMA VisitEarlyDataKeeps ==
  ASSUME Inv, VisitEarlyData
  PROVE  Inv'
<1>1. On("visit") /\ Top.actions # <<>> /\ stack # <<>> /\ Action.a = "EarlyData"
  BY DEF VisitEarlyData, Visiting, On, Action
<1>2. Steady
  BY DEF VisitEarlyData, Steady, View, Inv, FieldsInv
<1>3. Simple(<<>>) /\ ThenRest(<<>>)
  BY SimpleFrames DEF VisitEarlyData
<1>. QED  BY <1>1, <1>2, <1>3, SteadyVisit, VisitKeeps DEF Simple

LEMMA VisitReportErrorKeeps ==
  ASSUME Inv, VisitReportError
  PROVE  Inv'
<1>1. On("visit") /\ Top.actions # <<>> /\ stack # <<>> /\ Action.a = "ReportError"
  BY DEF VisitReportError, Visiting, On, Action
<1>2. Steady
  BY DEF VisitReportError, Steady, View, Inv, FieldsInv
<1>3. \E fs : Simple(fs) /\ ThenRest(fs)
  BY SimpleFrames DEF VisitReportError, AllErrors, Frame, Marked
<1>. QED  BY <1>1, <1>2, <1>3, SteadyVisit, VisitKeeps DEF Simple

LEMMA VisitReportEarlyWriteFailedKeeps ==
  ASSUME Inv, VisitReportEarlyWriteFailed
  PROVE  Inv'
<1>1. /\ On("visit") /\ Top.actions # <<>> /\ stack # <<>>
      /\ Action.a = "ReportEarlyWriteFailed"
  BY DEF VisitReportEarlyWriteFailed, Visiting, On, Action
<1>2. Steady
  BY AnsweredHist DEF VisitReportEarlyWriteFailed, Steady, View, Inv, FieldsInv
<1>3. \E fs : Simple(fs) /\ ThenRest(fs)
  BY SimpleCalls DEF VisitReportEarlyWriteFailed
<1>. QED  BY <1>1, <1>2, <1>3, SteadyVisit, VisitKeeps DEF Simple

LEMMA ServerReportKeeps ==
  ASSUME Inv, ServerReportSuccess \/ ServerReportEarlySuccess
  PROVE  Inv'
<1>1. /\ On("visit") /\ Top.actions # <<>> /\ stack # <<>> /\ Role = "server"
      /\ Action.a # "WaitForData" /\ ReportUnlessBroken
  BY DEF ServerReportSuccess, ServerReportEarlySuccess, Visiting, On, Action
<1>2. Steady
  BY <1>1 DEF ReportUnlessBroken, Steady, View, Inv, FieldsInv
<1>3. \E x : x.f \in {"reportSuccess", "transportError"} /\ ThenRest(<<x>>)
  BY <1>1 DEF ReportUnlessBroken, Frame
<1>4. PICK x : x.f \in {"reportSuccess", "transportError"} /\ ThenRest(<<x>>)
  BY <1>3
<1>5. x.f \in Reporters /\ x.f \notin Marked
  BY <1>4 DEF Reporters, Marked
<1>6. Simple(<<x>>) /\ Has(<<x>>, Reporters)
  BY <1>5, SimpleFrames, HasTuple
<1>. QED  BY <1>1, <1>2, <1>4, <1>6, SteadyVisit, VisitKeeps DEF Simple

LEMMA VisitMutateStateKeeps ==
  ASSUME Inv, VisitMutateState
  PROVE  Inv'
<1>1. On("visit") /\ Top.actions # <<>> /\ stack # <<>> /\ Action.a = "MutateState" /\ Started
  BY OnIsStarted DEF VisitMutateState, Visiting, On, Action
<1>2. /\ FieldsInv' /\ UNCHANGED <<base, sub, sock, hist>>
      /\ fb'.state = Action.state /\ fb'.error = fb.error /\ fb'.paused = fb.paused
      /\ fb'.waitForData = fb.waitForData /\ fb'.unread = fb.unread
      /\ fb'.deferred = fb.deferred /\ fb'.guard = fb.guard
  BY DEF VisitMutateState, Inv, FieldsInv
<1>3. VisitStep
  BY <1>1, <1>2 DEF VisitStep, Started, Inv, ReportInv, DataInv
<1>4. Simple(<<>>) /\ ThenRest(<<>>)
  BY SimpleFrames DEF VisitMutateState
<1>. QED  BY <1>1, <1>3, <1>4, VisitKeeps DEF Simple

LEMMA VisitDeliverAppDataKeeps ==
  ASSUME Inv, VisitDeliverAppData
  PROVE  Inv'
<1>1. On("visit") /\ Top.actions # <<>> /\ stack # <<>> /\ Action.a = "DeliverAppData" /\ Started
  BY OnIsStarted DEF VisitDeliverAppData, Visiting, On, Action
<1>2. /\ FieldsInv' /\ UNCHANGED <<fb, sub, sock>> /\ hist'.reports = hist.reports
      /\ base'.timeout = base.timeout /\ base'.readCallback = base.readCallback
      /\ base'.reads = base.reads /\ base'.appDataBuf = <<>>
  BY DEF VisitDeliverAppData, Inv, FieldsInv
<1>3. VisitStep
  BY <1>1, <1>2 DEF VisitStep, Started, Inv, ReportInv
<1>4. PICK x : x.f = "deliverAppData" /\ ThenRest(<<x>>)
  BY DEF VisitDeliverAppData
<1>5. Ordinary(<<x>>) /\ ~Has(<<x>>, {"sockFail"})
  BY <1>4, OrdinaryFrames, HasTuple DEF Unordinary
<1>6. ~sub.callback
  <2>1. /\ IsSeq(Top.actions)
        /\ \A a : Visits(stack, a) <=> Holds(Top.actions, a)
    BY <1>1, <1>4, <1>5, VisitGoesOn
  <2>2. Holds(Top.actions, "DeliverAppData")
    BY <1>1, <2>1, HoldsTail DEF Action
  <2>. QED  BY <2>1, <2>2 DEF Inv, DataInv
<1>. QED  BY <1>1, <1>2, <1>3, <1>4, <1>5, <1>6, VisitKeeps

LEMMA VisitWaitForDataKeeps ==
  ASSUME Inv, VisitWaitForData
  PROVE  Inv'
<1>1. On("visit") /\ Top.actions # <<>> /\ stack # <<>> /\ Action.a = "WaitForData" /\ Started
  BY OnIsStarted DEF VisitWaitForData, Visiting, On, Action
<1>2. /\ FieldsInv' /\ UNCHANGED <<sub, sock, hist>>
      /\ fb'.state = fb.state /\ fb'.error = fb.error /\ fb'.paused = fb.paused
      /\ fb'.unread = fb.unread /\ fb'.deferred = fb.deferred /\ fb'.guard = fb.guard
      /\ base'.timeout = base.timeout /\ base'.readCallback = base.readCallback
      /\ base'.appDataBuf = base.appDataBuf
      /\ base'.reads <=> base.reads \/ (sub.callback /\ TransportGood)
  BY DEF VisitWaitForData, Inv, FieldsInv
<1>3. VisitStep
  BY <1>1, <1>2 DEF VisitStep, Started, TransportGood, Inv, ReportInv, DataInv
<1>4. Simple(<<>>) /\ ThenRest(<<>>)
  BY SimpleFrames DEF VisitWaitForData
<1>. QED  BY <1>1, <1>3, <1>4, VisitKeeps DEF Simple

LEMMA VisitEndOfDataKeeps ==
  ASSUME Inv, VisitEndOfData
  PROVE  Inv'
<1>1. On("visit") /\ Top.actions # <<>> /\ stack # <<>> /\ Action.a = "EndOfData" /\ Started
  BY OnIsStarted DEF VisitEndOfData, Visiting, On, Action
<1>2. /\ FieldsInv' /\ UNCHANGED <<fb, sub, sock, hist>>
      /\ base'.timeout = base.timeout
      /\ base'.readCallback => base.readCallback
      /\ base'.reads = base.reads /\ base'.appDataBuf = base.appDataBuf
  BY DEF VisitEndOfData, Inv, FieldsInv
<1>3. VisitStep
  BY <1>1, <1>2 DEF VisitStep, Started, Inv, ReportInv, DataInv
<1>4. \E fs : Simple(fs) /\ ThenRest(fs)
  <2>1. Simple(<<[f |-> "transportError", ex |-> "Error"]>>)
    BY SimpleFrames DEF Marked
  <2>. QED  BY <2>1, SimpleFrames, SimpleCalls, SimpleConcat DEF VisitEndOfData
<1>. QED  BY <1>1, <1>3, <1>4, VisitKeeps DEF Simple

LEMMA AttemptVersionFallbackKeeps ==
  ASSUME Inv, AttemptVersionFallback
  PROVE  Inv'
<1>1. /\ On("visit") /\ Top.actions # <<>> /\ stack # <<>> /\ Started
      /\ Action.a = "AttemptVersionFallback"
  BY OnIsStarted DEF AttemptVersionFallback, Visiting, On, Action
<1>2. /\ FieldsInv' /\ UNCHANGED <<base, sock>> /\ ~sub'.callback /\ sub'.config = sub.config
      /\ fb'.state = fb.state /\ fb'.error = fb.error /\ fb'.paused = fb.paused
      /\ fb'.unread = fb.unread \/ fb'.unread = 0
      /\ fb'.waitForData = fb.waitForData
      /\ fb'.deferred = fb.deferred /\ fb'.guard = fb.guard
  BY DEF AttemptVersionFallback, Inv, FieldsInv
<1>3. Started' /\ IsSeq(hist'.reports) /\ Len(hist'.reports) <= 1
  <2>1. CASE sub.callback
    <3>1. hist'.reports = Append(hist.reports, "fallback") /\ hist.reports = <<>>
      BY <2>1 DEF AttemptVersionFallback, Inv, FieldsInv, ReportInv
    <3>. QED  BY <3>1, FirstReport DEF Started
  <2>2. CASE ~sub.callback
    BY <1>1, <2>2 DEF AttemptVersionFallback, Started, Inv, ReportInv
  <2>. QED  BY <2>1, <2>2
<1>4. VisitStep
  BY <1>1, <1>2, <1>3 DEF VisitStep
<1>5. \E fs : Simple(fs) /\ ThenRest(fs)
  BY SimpleFrames, SimpleCalls DEF AttemptVersionFallback
<1>. QED  BY <1>1, <1>4, <1>5, VisitKeeps DEF Simple

LEMMA ClientReportEarlySuccessKeeps ==
  ASSUME Inv, ClientReportEarlySuccess
  PROVE  Inv'
<1>1. /\ On("visit") /\ Top.actions # <<>> /\ stack # <<>> /\ Started
      /\ Action.a = "ReportEarlyHandshakeSuccess"
  BY OnIsStarted DEF ClientReportEarlySuccess, Visiting, On, Action
<1>2. FieldsInv' /\ UNCHANGED <<fb, base, sock>> /\ ~sub'.callback /\ sub'.config = sub.config
  BY DEF ClientReportEarlySuccess, Inv, FieldsInv
<1>3. Started' /\ IsSeq(hist'.reports) /\ Len(hist'.reports) <= 1
  <2>1. CASE sub.callback
    <3>1. hist'.reports = Append(hist.reports, "success") /\ hist.reports = <<>>
      BY <2>1 DEF ClientReportEarlySuccess, Inv, FieldsInv, ReportInv
    <3>. QED  BY <3>1, FirstReport DEF Started
  <2>2. CASE ~sub.callback
    BY <1>1, <2>2 DEF ClientReportEarlySuccess, Started, Inv, ReportInv
  <2>. QED  BY <2>1, <2>2
<1>4. VisitStep
  BY <1>1, <1>2, <1>3 DEF VisitStep
<1>5. \E fs : Simple(fs) /\ ThenRest(fs)
  BY SimpleFrames, SimpleCalls DEF ClientReportEarlySuccess
<1>. QED  BY <1>1, <1>4, <1>5, VisitKeeps DEF Simple

LEMMA ClientReportSuccessKeeps ==
  ASSUME Inv, ClientReportSuccess
  PROVE  Inv'
<1>1. /\ On("visit") /\ Top.actions # <<>> /\ stack # <<>> /\ Started
      /\ Action.a = "ReportHandshakeSuccess"
  BY OnIsStarted DEF ClientReportSuccess, Visiting, On, Action
<1>2. /\ FieldsInv' /\ UNCHANGED <<fb, sub, sock, hist>>
      /\ ~base'.timeout /\ base'.readCallback = base.readCallback
      /\ base'.reads = base.reads /\ base'.appDataBuf = base.appDataBuf
  BY DEF ClientReportSuccess, Inv, FieldsInv
<1>3. VisitStep
  BY <1>1, <1>2 DEF VisitStep, Started, Inv, ReportInv, DataInv
<1>4. \E x, y : /\ x.f = "flushHandshakeWrites" /\ y.f = "endEarlyData"
                /\ ThenRest(<<x, y>>)
  BY DEF ClientReportSuccess, Frame
<1>5. PICK x, y : /\ x.f = "flushHandshakeWrites" /\ y.f = "endEarlyData"
                  /\ ThenRest(<<x, y>>)
  BY <1>4
<1>6. y.f \in Reporters /\ x.f \notin Marked /\ y.f \notin Marked
  BY <1>5 DEF Reporters, Marked
<1>7. Simple(<<x, y>>) /\ Has(<<x, y>>, Reporters)
  BY <1>6, SimpleFrames, HasTuple
<1>. QED  BY <1>1, <1>2, <1>3, <1>5, <1>7, VisitKeeps DEF Simple
-----------------------------------------------------------------------------
(* The event base calls into the transport, or the application makes it    *)
(* leave or join one.                                                      *)
LEMMA EventRuns ==
  ASSUME NEW fs, Ordinary(fs), stack = <<>>, stack' = fs
  PROVE  Runs(fs)
<1>1. stack' = fs \o stack
  BY EmptyConcat DEF Ordinary, WellFormed
<1>. QED  BY <1>1 DEF Runs

LEMMA NothingRuns ==
  ASSUME NEW names
  PROVE  ~Has(<<>>, names)
BY HasTuple

LEMMA SockWriteDoneKeeps ==
  ASSUME Inv, SockWriteDone
  PROVE  Inv'
<1>1. stack = <<>> /\ Started
  BY DEF SockWriteDone, Inv, StartInv
<1>2. /\ SocketOnly /\ UNCHANGED <<fb, base, sub>>
      /\ sock'.state = "open" => sock.state = "open"
  BY AnsweredHist DEF SockWriteDone, Inv, FieldsInv, StartInv, DataInv, SocketOnly
<1>3. PICK fs : Simple(fs) /\ stack' = fs
  BY SimpleCalls DEF SockWriteDone
<1>4. Runs(fs) /\ ~Has(fs, {"deliverAppData"}) /\ ~Has(fs, {"sockFail"})
  BY <1>1, <1>3, EventRuns DEF Simple
<1>5. Outside
  BY <1>1, <1>2, <1>4, SocketStep
<1>6. ReadInv'
  BY <1>1, <1>2, <1>3, <1>4, NothingRuns DEF Inv, ReadInv
<1>. QED  BY <1>1, <1>5, <1>6, OutsideKeeps

LEMMA SockEOFKeeps ==
  ASSUME Inv, SockEOF
  PROVE  Inv'
<1>1. stack = <<>> /\ Started
  BY DEF SockEOF, Inv, StartInv
<1>2. /\ SocketOnly /\ UNCHANGED <<fb, sub>> /\ base'.readCallback = base.readCallback
      /\ sock'.state = "eof"
  BY DEF SockEOF, Inv, FieldsInv, StartInv, DataInv, SocketOnly
<1>3. PICK x : x.f = "transportError" /\ stack' = <<x>>
  BY DEF SockEOF
<1>4. Simple(<<x>>)
  BY <1>3, SimpleFrames DEF Marked
<1>5. Runs(<<x>>) /\ ~Has(<<x>>, {"deliverAppData"}) /\ ~Has(<<x>>, {"sockFail"})
  BY <1>1, <1>3, <1>4, EventRuns DEF Simple
<1>6. Outside
  BY <1>1, <1>2, <1>5, SocketStep
<1>7. ReadInv'
  BY <1>1, <1>2, <1>3, <1>5, NothingRuns DEF Inv, ReadInv
<1>. QED  BY <1>1, <1>6, <1>7, OutsideKeeps

LEMMA SockErrorKeeps ==
  ASSUME Inv, SockError
  PROVE  Inv'
<1>1. stack = <<>> /\ Started
  BY DEF SockError
<1>2. SocketOnly /\ UNCHANGED <<fb, base, sub>> /\ sock'.state = "closed"
  BY DEF SockError, Inv, FieldsInv, StartInv, DataInv, SocketOnly
<1>3. PICK x : x.f = "sockFail" /\ stack' = <<x>>
  BY DEF SockError
<1>4. Ordinary(<<x>>) /\ ~Has(<<x>>, {"deliverAppData"})
  BY <1>3, OrdinaryFrames, HasTuple DEF Unordinary
<1>5. Runs(<<x>>)
  BY <1>1, <1>3, <1>4, EventRuns
<1>6. Outside
  BY <1>1, <1>2, <1>4, <1>5, SocketStep
<1>7. ReadInv'
  BY <1>1, <1>2, NothingRuns DEF Inv, ReadInv
<1>. QED  BY <1>1, <1>6, <1>7, OutsideKeeps

LEMMA HandshakeTimeoutExpiredKeeps ==
  ASSUME Inv, HandshakeTimeoutExpired
  PROVE  Inv'
<1>1. stack = <<>> /\ Started
  BY DEF HandshakeTimeoutExpired, Inv, StartInv
<1>2. /\ SocketOnly /\ UNCHANGED <<fb, sub, sock>> /\ base'.readCallback = base.readCallback
      /\ base'.reads = base.reads
  BY DEF HandshakeTimeoutExpired, Inv, FieldsInv, StartInv, DataInv, SocketOnly
<1>3. PICK x : x.f = "transportError" /\ stack' = <<x>>
  BY DEF HandshakeTimeoutExpired
<1>4. Simple(<<x>>)
  BY <1>3, SimpleFrames DEF Marked
<1>5. Runs(<<x>>) /\ ~Has(<<x>>, {"deliverAppData"}) /\ ~Has(<<x>>, {"sockFail"})
  BY <1>1, <1>3, <1>4, EventRuns DEF Simple
<1>6. Outside
  BY <1>1, <1>2, <1>5, SocketStep
<1>7. ReadInv'
  BY <1>1, <1>2, <1>3, <1>5, NothingRuns DEF Inv, ReadInv
<1>. QED  BY <1>1, <1>6, <1>7, OutsideKeeps

LEMMA ConnectErrKeeps ==
  ASSUME Inv, ConnectErr
  PROVE  Inv'
<1>1. stack = <<>> /\ Started
  BY DEF ConnectErr, Inv, StartInv
<1>2. SocketOnly /\ UNCHANGED <<fb, base, sub>> /\ sock'.state = "closed"
  BY DEF ConnectErr, Inv, FieldsInv, StartInv, DataInv, SocketOnly
<1>3. Simple(<<AllErrors("Error", FALSE)>>) /\ stack' = <<AllErrors("Error", FALSE)>>
  BY SimpleCalls DEF ConnectErr
<1>4. \E fs : Runs(fs) /\ ~Has(fs, {"deliverAppData"})
  BY <1>1, <1>3, EventRuns DEF Simple
<1>5. Outside
  BY <1>1, <1>2, <1>4, SocketStep
<1>6. ReadInv'
  BY <1>1, <1>2, NothingRuns DEF Inv, ReadInv
<1>. QED  BY <1>1, <1>5, <1>6, OutsideKeeps

LEMMA DetachKeeps ==
  ASSUME Inv, Detach
  PROVE  Inv'
<1>1. stack = <<>> /\ stack' = <<>> /\ Started
  BY DEF Detach, AppCall
<1>2. /\ SocketOnly /\ UNCHANGED <<sub, sock>> /\ base'.readCallback = base.readCallback
      /\ fb'.paused
  BY DEF Detach, Counted, Inv, FieldsInv, StartInv, DataInv, SocketOnly
<1>3. \E fs : Runs(fs) /\ ~Has(fs, {"deliverAppData"})
  BY <1>1, EventRuns, OrdinaryFrames, NothingRuns
<1>4. Outside
  BY <1>1, <1>2, <1>3, SocketStep
<1>5. ReadInv'
  BY <1>1, <1>2, NothingRuns DEF Inv, ReadInv, SocketOnly
<1>. QED  BY <1>1, <1>4, <1>5, OutsideKeeps

LEMMA AttachKeeps ==
  ASSUME Inv, Attach
  PROVE  Inv'
<1>1. stack = <<>> /\ Started
  BY DEF Attach, Inv, StartInv
<1>2. SocketOnly /\ UNCHANGED <<base, sub, sock>>
  BY DEF Attach, Inv, FieldsInv, StartInv, DataInv, SocketOnly
<1>3. PICK x, y : x.f = "process" /\ y.f = "attached" /\ stack' = <<x, y>>
  BY DEF Attach, Frame
<1>4. Simple(<<x, y>>)
  BY <1>3, SimpleFrames DEF Marked
<1>5. Runs(<<x, y>>) /\ ~Has(<<x, y>>, {"deliverAppData"}) /\ ~Has(<<x, y>>, {"sockFail"})
  BY <1>1, <1>3, <1>4, EventRuns DEF Simple
<1>6. Outside
  BY <1>1, <1>2, <1>5, SocketStep
<1>7. Has(stack', Resumers)
  BY <1>3 DEF Has, Resumers
<1>8. Has(stack', {"setReadCB", "deliverError", "attached"})
  BY <1>3, HasTuple
<1>9. ReadInv'
  BY <1>1, <1>2, <1>3, <1>5, <1>7, <1>8, NothingRuns DEF Inv, ReadInv, SocketOnly
<1>. QED  BY <1>1, <1>6, <1>9, OutsideKeeps

LEMMA TransportDataAvailableKeeps ==
  ASSUME Inv, TransportDataAvailable
  PROVE  Inv'
<1>1. stack = <<>> /\ Started /\ base.reads /\ Role' = Role
  BY DEF TransportDataAvailable, Inv, StartInv, Role
<1>2. /\ FieldsInv' /\ UNCHANGED <<base, sub, sock>> /\ hist'.reports = hist.reports
      /\ fb'.state = fb.state /\ fb'.error = fb.error /\ fb'.paused = fb.paused
      /\ ~fb'.waitForData /\ fb'.deferred = fb.deferred /\ fb'.guard = fb.guard
  BY DEF TransportDataAvailable, Inv, FieldsInv
<1>3. Started'
  BY <1>1, <1>2 DEF Started
<1>4. PICK x, y : x.f = "process" /\ y.f = "checkBufLen" /\ stack' = <<x, y>>
  BY DEF TransportDataAvailable, Frame
<1>5. Simple(<<x, y>>)
  BY <1>4, SimpleFrames DEF Marked
<1>6. /\ WellFormed(stack') /\ TellsFirst(stack') /\ ~Has(stack', {"visit"})
      /\ ~Has(stack', {"deliverAppData"}) /\ ~Has(stack', {"sockFail"})
  BY <1>4, <1>5 DEF Simple, Ordinary
<1>7. \A a : ~Visits(stack', a)
  BY <1>6, VisitsHas
<1>8. ~Has(stack, {"visit"}) /\ ~Reporting(stack)
      /\ ~Visits(stack, "ReportHandshakeSuccess")
      /\ ~Has(stack, {"setReadCB", "deliverError"})
  BY <1>1, NothingRuns, ReportingHas
<1>9. StackInv'
  BY <1>6 DEF StackInv, WellFormed
<1>10. GuardInv'
  BY <1>1, <1>2, <1>6 DEF Inv, GuardInv
<1>11. StartInv'
  BY <1>1, <1>2, <1>3 DEF Inv, StartInv
<1>12. ReportInv'
  BY <1>1, <1>2, <1>6, <1>8 DEF Inv, ReportInv
<1>13. DataInv'
  BY <1>2, <1>6, <1>7 DEF Inv, DataInv
<1>14. ReadInv'
  BY <1>1, <1>2, <1>6, <1>8 DEF Inv, ReadInv
<1>. QED  BY <1>2, <1>9, <1>10, <1>11, <1>12, <1>13, <1>14 DEF Inv

LEMMA AcceptKeeps ==
  ASSUME Inv, Accept
  PROVE  Inv'
<1>1. /\ stack = <<>> /\ ~Started /\ ~sub.callback /\ hist.reports = <<>> /\ fb.deferred = <<>>
      /\ ~fb.error /\ ~base.timeout /\ ~base.readCallback /\ base.appDataBuf = <<>>
      /\ sock.state # "connecting" /\ Role = "server"
  BY DEF Accept, Inv, StartInv, Started
<1>2. /\ FieldsInv' /\ UNCHANGED <<stack, sock, hist>> /\ sub'.config = sub.config
      /\ sub'.callback /\ fb'.state = "Connecting" /\ base'.reads
      /\ fb'.error = fb.error /\ fb'.paused = fb.paused /\ fb'.waitForData = fb.waitForData
      /\ fb'.unread = fb.unread /\ fb'.deferred = fb.deferred /\ fb'.guard = fb.guard
      /\ base'.timeout = base.timeout /\ base'.readCallback = base.readCallback
      /\ base'.appDataBuf = base.appDataBuf
  BY DEF Accept, Inv, FieldsInv
<1>3. Started' /\ Role' = Role
  BY <1>2 DEF Started, Role
<1>4. /\ ~Has(<<>>, {"visit"}) /\ ~Has(<<>>, {"deliverAppData"}) /\ ~Has(<<>>, {"sockFail"})
      /\ TellsFirst(<<>>) /\ \A a : ~Visits(<<>>, a) /\ ~Holds(<<>>, a)
  BY NothingRuns, VisitsHas DEF TellsFirst, Holds
<1>5. StackInv'
  BY <1>2 DEF Inv, StackInv
<1>6. GuardInv'
  BY <1>1, <1>2, <1>3, <1>4 DEF Inv, GuardInv
<1>7. StartInv'
  BY <1>1, <1>2, <1>3 DEF Inv, StartInv
<1>8. ReportInv'
  BY <1>1, <1>2, <1>3, <1>4 DEF Inv, ReportInv
<1>9. DataInv'
  BY <1>1, <1>2, <1>4 DEF Inv, DataInv
<1>10. ReadInv'
  BY <1>1, <1>2, <1>4 DEF Inv, ReadInv
<1>. QED  BY <1>2, <1>5, <1>6, <1>7, <1>8, <1>9, <1>10 DEF Inv

LEMMA ConnectAddressKeeps ==
  ASSUME Inv, ConnectAddress
  PROVE  Inv'
<1>1. /\ stack = <<>> /\ ~sub.callback /\ hist.reports = <<>> /\ fb.deferred = <<>>
      /\ ~fb.error /\ ~base.readCallback /\ base.appDataBuf = <<>>
      /\ fb.state = "Uninitialized" /\ Role = "client"
  BY DEF ConnectAddress, MayConnect, Inv, StartInv, Started
<1>2. /\ FieldsInv' /\ UNCHANGED <<stack, fb, hist>> /\ sub'.config = sub.config
      /\ sub'.callback /\ base'.readCallback = base.readCallback
      /\ base'.appDataBuf = base.appDataBuf /\ sock'.state = "connecting"
  BY DEF ConnectAddress, Inv, FieldsInv
<1>3. Started' /\ Role' = Role
  BY <1>2 DEF Started, Role
<1>4. /\ ~Has(<<>>, {"visit"}) /\ ~Has(<<>>, {"deliverAppData"}) /\ ~Has(<<>>, {"sockFail"})
      /\ TellsFirst(<<>>) /\ \A a : ~Visits(<<>>, a) /\ ~Holds(<<>>, a)
  BY NothingRuns, VisitsHas DEF TellsFirst, Holds
<1>5. StackInv'
  BY <1>2 DEF Inv, StackInv
<1>6. GuardInv'
  BY <1>1, <1>2, <1>3, <1>4 DEF Inv, GuardInv
<1>7. StartInv'
  BY <1>1, <1>2, <1>3 DEF Inv, StartInv
<1>8. ReportInv'
  BY <1>1, <1>2, <1>3, <1>4 DEF Inv, ReportInv
<1>9. DataInv'
  BY <1>1, <1>2, <1>4 DEF Inv, DataInv
<1>10. ReadInv'
  BY <1>1, <1>2, <1>4 DEF Inv, ReadInv
<1>. QED  BY <1>2, <1>5, <1>6, <1>7, <1>8, <1>9, <1>10 DEF Inv
(* The socket breaks before connect.                                       *)
LEMMA SockBreaksEarlyKeeps ==
  ASSUME Inv, SockBreaksEarly
  PROVE  Inv'
<1>1. ~Started /\ Role = "client"
  BY DEF SockBreaksEarly, MayConnect
<1>2. /\ UNCHANGED <<stack, fb, base, sub, hist>> /\ sock'.state = "closed"
      /\ sock'.queue = sock.queue /\ FieldsInv'
  BY DEF SockBreaksEarly, Inv, FieldsInv
<1>3. (Started' <=> Started) /\ Role' = Role
  BY <1>2 DEF Started, Role
<1>4. StackInv'
  BY <1>2 DEF Inv, StackInv
<1>5. GuardInv'
  BY <1>2, <1>3 DEF Inv, GuardInv
<1>6. StartInv'
  BY <1>1, <1>2, <1>3 DEF Inv, StartInv
<1>7. ReportInv'
  BY <1>2, <1>3 DEF Inv, ReportInv
<1>8. DataInv'
  BY <1>2 DEF Inv, DataInv
<1>9. ReadInv'
  BY <1>2 DEF Inv, ReadInv
<1>. QED  BY <1>2, <1>4, <1>5, <1>6, <1>7, <1>8, <1>9 DEF Inv

(* connect fails at once: the transport is not good, or has no socket.     *)
LEMMA ConnectFailsKeeps ==
  ASSUME Inv, ConnectNotGood \/ ConnectAddressNoSocket
  PROVE  Inv'
<1>1. /\ stack = <<>> /\ ~sub.callback /\ hist.reports = <<>> /\ fb.deferred = <<>>
      /\ ~fb.error /\ ~base.readCallback /\ base.appDataBuf = <<>> /\ ~base.reads
      /\ fb.state = "Uninitialized" /\ Role = "client"
  BY DEF ConnectNotGood, ConnectAddressNoSocket, MayConnect, Inv, StartInv, Started
<1>2. /\ FieldsInv' /\ UNCHANGED <<fb, sock, hist>> /\ sub'.config = sub.config
      /\ sub'.callback /\ base'.readCallback = base.readCallback
      /\ base'.appDataBuf = base.appDataBuf
  BY DEF ConnectNotGood, ConnectAddressNoSocket, Inv, FieldsInv
<1>3. Started' /\ Role' = Role
  BY <1>2 DEF Started, Role
<1>. DEFINE fs == <<AllErrors("Error", FALSE)>>
<1>4. Simple(fs) /\ stack' = fs
  BY SimpleCalls DEF ConnectNotGood, ConnectAddressNoSocket
<1>5. Has(fs, Resumers)
  BY HasTuple DEF AllErrors, Resumers
<1>. HIDE DEF fs
<1>6. /\ WellFormed(stack') /\ TellsFirst(stack') /\ ~Has(stack', {"visit"})
      /\ ~Has(stack', {"deliverAppData"}) /\ ~Has(stack', {"sockFail"})
      /\ Has(stack', Resumers)
  BY <1>4, <1>5 DEF Simple, Ordinary
<1>7. \A a : ~Visits(stack', a) /\ ~Holds(<<>>, a)
  BY <1>6, VisitsHas DEF Holds
<1>8. StackInv'
  BY <1>6 DEF StackInv, WellFormed
<1>9. GuardInv'
  BY <1>1, <1>2, <1>3, <1>6 DEF Inv, GuardInv
<1>10. StartInv'
  BY <1>1, <1>3 DEF StartInv
<1>11. ReportInv'
  BY <1>1, <1>2, <1>3, <1>6 DEF Inv, ReportInv
<1>12. DataInv'
  BY <1>1, <1>2, <1>6, <1>7 DEF Inv, DataInv
<1>13. ReadInv'
  BY <1>1, <1>2, <1>6 DEF Inv, ReadInv
<1>. QED  BY <1>2, <1>8, <1>9, <1>10, <1>11, <1>12, <1>13 DEF Inv
-----------------------------------------------------------------------------
(* A visit begins where none is on the stack, and ends.                    *)
LEMMA VisitStarts ==
  ASSUME NEW list, Inv, ActionsOk(list), ~Has(stack, {"visit"}), stack' = <<Visit(list)>> \o stack
  PROVE  /\ WellFormed(stack') /\ Has(stack', {"visit"})
         /\ \A a : Visits(stack', a) <=> Holds(list, a)
         /\ TellsFirst(stack) => TellsFirst(stack')
         /\ \A names : "visit" \notin names => (Has(stack', names) <=> Has(stack, names))
<1>. DEFINE v == Visit(list)
<1>1. v.f = "visit" /\ v.actions = list
  BY DEF Visit
<1>. HIDE DEF v
<1>a. 1 \in DOMAIN <<v>> /\ \A i \in DOMAIN <<v>> : <<v>>[i] = v
  OBVIOUS
<1>2. WellFormed(<<v>>) /\ IsSeq(<<v>>)
  <2>1. VisitsOk(<<v>>)
    BY <1>1, <1>a, Zenon DEF VisitsOk
  <2>2. OneVisit(<<v>>) /\ TellsReader(<<v>>) /\ IsSeq(<<v>>)
    BY <1>1, TuplesAreSeqs DEF OneVisit, TellsReader
  <2>. QED  BY <2>1, <2>2 DEF WellFormed
<1>3. TellsFirst(<<v>>)
  BY <1>1 DEF TellsFirst
<1>4. \A names : Has(<<v>>, names) <=> "visit" \in names
  BY <1>1 DEF Has
<1>5. \A a : Visits(<<v>>, a) <=> Holds(list, a)
  BY <1>1, <1>a, Zenon DEF Visits
<1>6. stack' = <<v>> \o stack /\ IsSeq(stack) /\ WellFormed(stack)
  BY DEF v, Inv, StackInv, WellFormed
<1>7. WellFormed(<<v>> \o stack)
  BY <1>2, <1>6, WellFormedConcat
<1>8. \A names : Has(<<v>> \o stack, names) <=> "visit" \in names \/ Has(stack, names)
  BY <1>2, <1>4, <1>6, HasConcat
<1>9. \A a : Visits(<<v>> \o stack, a) <=> Holds(list, a)
  BY <1>2, <1>5, <1>6, VisitsConcat, VisitsHas
<1>10. TellsFirst(stack) => TellsFirst(<<v>> \o stack)
  BY <1>2, <1>3, <1>6, TellsFirstConcat
<1>. QED  BY <1>6, <1>7, <1>8, <1>9, <1>10

(* Between visits an open machine has reported its handshake.              *)
LEMMA OpenIsReported ==
  ASSUME Inv, ~Has(stack, {"visit"}), fb.state = "Open"
  PROVE  ~sub.callback /\ ~(Role = "client" /\ base.timeout)
BY ReportingHas, VisitsHas DEF Inv, ReportInv

LEMMA VisitBegins ==
  ASSUME NEW as, Inv, ~Has(stack, {"visit"}), ActionsOk(as), stack' = <<Visit(as)>> \o stack,
         FieldsInv', Started', sub'.config = sub.config, fb'.state = fb.state, fb'.guard,
         fb'.deferred = <<>>,
         sub'.callback => /\ hist'.reports = <<>> /\ ~fb'.error /\ base'.appDataBuf = <<>>
                          /\ TellsFirst(stack) /\ ~Has(stack, {"deliverAppData"})
                          /\ ~Holds(as, "DeliverAppData") /\ fb.state # "Open",
         IsSeq(hist'.reports), Len(hist'.reports) <= 1,
         Role = "client" /\ fb.state = "Open" => ~base'.timeout,
         Role = "server" => sock'.state # "connecting" /\ fb.state # "Uninitialized",
         fb'.waitForData \/ Holds(as, "WaitForData") => fb'.unread = 0,
         ReadInv'
  PROVE  Inv'
<1>1. /\ WellFormed(stack') /\ Has(stack', {"visit"})
      /\ \A a : Visits(stack', a) <=> Holds(as, a)
      /\ TellsFirst(stack) => TellsFirst(stack')
      /\ \A names : "visit" \notin names => (Has(stack', names) <=> Has(stack, names))
  BY VisitStarts
<1>2. Role' = Role
  BY DEF Role
<1>3. ActionsOk(<<>>) /\ \A a : ~Holds(<<>>, a)
  BY TuplesAreSeqs DEF ActionsOk, Holds
<1>4. StackInv'
  BY <1>1 DEF StackInv, WellFormed
<1>5. GuardInv'
  BY <1>3 DEF GuardInv
<1>6. StartInv'
  BY <1>2 DEF StartInv
<1>7. ReportInv'
  BY <1>1, <1>2 DEF ReportInv
<1>8. DataInv'
  BY <1>1, <1>3 DEF DataInv
<1>. QED  BY <1>4, <1>5, <1>6, <1>7, <1>8 DEF Inv

(* The event loop starts a visit; nothing but the machine's input changes. *)
LEMMA LoopVisits ==
  ASSUME NEW as, Inv, ~Has(stack, {"visit"}), ActionsOk(as), stack' = <<Visit(as)>> \o stack,
         Started, FieldsInv', fb'.state = fb.state, fb'.guard, fb'.deferred = <<>>,
         fb'.error = fb.error, fb'.paused = fb.paused, fb'.waitForData = fb.waitForData,
         UNCHANGED <<base, sub, sock>>, hist'.reports = hist.reports,
         sub.callback => ~Holds(as, "DeliverAppData"),
         fb.waitForData \/ Holds(as, "WaitForData") => fb'.unread = 0
  PROVE  Inv'
<1>1. fb.state = "Open" => ~sub.callback /\ ~(Role = "client" /\ base.timeout)
  BY OpenIsReported
<1>2. \A names : "visit" \notin names => (Has(stack', names) <=> Has(stack, names))
  BY VisitStarts
<1>3. ReadInv'
  <2>1. /\ Has(stack', {"setReadCB", "deliverError", "attached"})
             <=> Has(stack, {"setReadCB", "deliverError", "attached"})
        /\ Has(stack', Resumers) <=> Has(stack, Resumers)
        /\ Has(stack', {"setReadCB", "deliverError"}) <=> Has(stack, {"setReadCB", "deliverError"})
        /\ Has(stack', {"sockFail"}) <=> Has(stack, {"sockFail"})
    BY <1>2 DEF Resumers
  <2>. QED  BY <2>1 DEF Inv, ReadInv
<1>4. sub'.callback => /\ hist'.reports = <<>> /\ ~fb'.error /\ base'.appDataBuf = <<>>
                       /\ TellsFirst(stack) /\ ~Has(stack, {"deliverAppData"})
                       /\ ~Holds(as, "DeliverAppData") /\ fb.state # "Open"
  BY <1>1 DEF Inv, ReportInv, DataInv
<1>5. /\ Started' /\ sub'.config = sub.config /\ IsSeq(hist'.reports) /\ Len(hist'.reports) <= 1
      /\ Role = "client" /\ fb.state = "Open" => ~base'.timeout
      /\ Role = "server" => sock'.state # "connecting" /\ fb.state # "Uninitialized"
  BY <1>1 DEF Started, Inv, ReportInv, StartInv
<1>. QED  BY <1>3, <1>4, <1>5, VisitBegins

LEMMA GuardIsOff ==
  ASSUME Inv, ~fb.guard
  PROVE  ~Has(stack, {"visit"}) /\ fb.deferred = <<>>
BY DEF Inv, GuardInv

LEMMA LoopEventKeeps ==
  ASSUME Inv, LoopEvent
  PROVE  Inv'
<1>1. ~Has(stack, {"visit"}) /\ fb.deferred = <<>> /\ Started
  BY GuardIsOff, OnIsStarted DEF LoopEvent, MayRun, On
<1>2. PICK e : stack' = <<Visit(EventActions(e))>> \o stack
  BY DEF LoopEvent, Call
<1>3. /\ ActionsOk(EventActions(e)) /\ ~Holds(EventActions(e), "DeliverAppData")
      /\ ~Holds(EventActions(e), "WaitForData")
  BY EventActionsAreMild, MildIsOk DEF Unhurried
<1>4. /\ FieldsInv' /\ fb'.state = fb.state /\ fb'.guard /\ fb'.deferred = fb.deferred
      /\ fb'.error = fb.error /\ fb'.paused = fb.paused /\ fb'.waitForData = fb.waitForData
      /\ fb'.unread = fb.unread /\ hist'.reports = hist.reports
      /\ UNCHANGED <<base, sub, sock>>
  BY DEF LoopEvent, Inv, FieldsInv
<1>5. fb.waitForData => fb.unread = 0
  BY DEF Inv, DataInv
<1>. QED  BY <1>1, <1>2, <1>3, <1>4, <1>5, LoopVisits

LEMMA LoopNoDataKeeps ==
  ASSUME Inv, LoopNoData
  PROVE  Inv'
<1>. DEFINE as == <<[a |-> "WaitForData"]>>
<1>1. ~Has(stack, {"visit"}) /\ fb.deferred = <<>> /\ Started
  BY GuardIsOff, OnIsStarted DEF LoopNoData, MayRun, On
<1>2. stack' = <<Visit(as)>> \o stack
  BY DEF LoopNoData, Call
<1>3. ActionsOk(as) /\ ~Holds(as, "DeliverAppData")
  BY TuplesAreSeqs DEF ActionsOk, Holds
<1>4. /\ FieldsInv' /\ fb'.state = fb.state /\ fb'.guard /\ fb'.deferred = fb.deferred
      /\ fb'.error = fb.error /\ fb'.paused = fb.paused /\ fb'.waitForData = fb.waitForData
      /\ fb'.unread = 0 /\ UNCHANGED <<base, sub, sock, hist>>
  BY DEF LoopNoData, Inv, FieldsInv
<1>. HIDE DEF as
<1>. QED  BY <1>1, <1>2, <1>3, <1>4, LoopVisits

LEMMA LoopRecordKeeps ==
  ASSUME NEW as, NEW later \in BOOLEAN, Inv, LoopRecord(as, later)
  PROVE  Inv'
<1>1. ~Has(stack, {"visit"}) /\ fb.deferred = <<>> /\ Started /\ ~fb.waitForData
  BY GuardIsOff, OnIsStarted DEF LoopRecord, MayRun, On
<1>2. Role \in {"client", "server"}
  BY ConfigsAssumption DEF Inv, FieldsInv, Role, SettingsOf
<1>3. fb.state = "Open" => ~sub.callback /\ ~(Role = "client" /\ base.timeout)
  BY <1>1, OpenIsReported
<1>4. /\ ActionsOk(as) /\ ~Holds(as, "WaitForData")
      /\ sub.callback => ~Holds(as, "DeliverAppData")
  BY <1>2, <1>3, RecordActionsAreOk DEF LoopRecord, Unhurried
<1>5. fb.unread \in Nat /\ fb.unread > 0
  BY DEF LoopRecord, Inv, FieldsInv
<1>6. fb.unread - 1 \in Nat
  BY <1>5
<1>7. /\ FieldsInv' /\ fb'.state = fb.state /\ fb'.guard
      /\ fb'.error = fb.error /\ fb'.paused = fb.paused /\ fb'.waitForData = fb.waitForData
      /\ fb'.deferred = (IF later THEN as ELSE <<>>)
      /\ UNCHANGED <<base, sub, sock, hist>>
  BY <1>6 DEF LoopRecord, Inv, FieldsInv
<1>8. CASE ~later
  BY <1>1, <1>4, <1>7, <1>8, LoopVisits DEF LoopRecord, Call
<1>9. CASE later
  <2>1. stack' = stack /\ fb'.deferred = as /\ Role = "server" /\ Role' = Role /\ Started'
    BY <1>1, <1>7, <1>9 DEF LoopRecord, Role, Started
  <2>2. \A a : ~Visits(stack, a)
    BY <1>1, VisitsHas
  <2>3. StackInv'
    BY <2>1 DEF Inv, StackInv
  <2>4. GuardInv'
    BY <1>1, <1>4, <1>7, <2>1 DEF GuardInv
  <2>5. StartInv'
    BY <1>1, <1>7, <2>1 DEF Inv, StartInv
  <2>6. ReportInv'
    BY <1>3, <1>7, <2>1 DEF Inv, ReportInv
  <2>7. DataInv'
    BY <1>1, <1>4, <1>7, <2>1, <2>2 DEF Inv, DataInv
  <2>8. ReadInv'
    BY <1>7, <2>1 DEF Inv, ReadInv
  <2>. QED  BY <1>7, <2>3, <2>4, <2>5, <2>6, <2>7, <2>8 DEF Inv
<1>. QED  BY <1>8, <1>9

LEMMA FutureCompletesKeeps ==
  ASSUME Inv, FutureCompletes
  PROVE  Inv'
<1>1. stack = <<>> /\ fb.deferred # <<>> /\ fb.guard /\ Started
  BY DEF FutureCompletes, Inv, GuardInv, StartInv
<1>2. ~Has(stack, {"visit"})
  BY <1>1, NothingRuns
<1>3. stack' = <<Visit(fb.deferred)>> \o stack
  BY <1>1, EmptyConcat, TuplesAreSeqs DEF FutureCompletes
<1>4. /\ ActionsOk(fb.deferred) /\ ~Holds(fb.deferred, "WaitForData")
      /\ sub.callback => ~Holds(fb.deferred, "DeliverAppData")
      /\ fb.waitForData => fb.unread = 0
  BY DEF Inv, GuardInv, DataInv
<1>5. /\ FieldsInv' /\ fb'.state = fb.state /\ fb'.guard /\ fb'.deferred = <<>>
      /\ fb'.error = fb.error /\ fb'.paused = fb.paused /\ fb'.waitForData = fb.waitForData
      /\ fb'.unread = fb.unread /\ UNCHANGED <<base, sub, sock, hist>>
  BY <1>1 DEF FutureCompletes, Inv, FieldsInv
<1>. QED  BY <1>1, <1>2, <1>3, <1>4, <1>5, LoopVisits

LEMMA ConnectKeeps ==
  ASSUME NEW early, Inv, Connect(early)
  PROVE  Inv'
<1>1. /\ stack = <<>> /\ hist.reports = <<>> /\ fb.deferred = <<>> /\ ~fb.error
      /\ base.appDataBuf = <<>> /\ ~base.readCallback
      /\ fb.state = "Uninitialized" /\ Role = "client"
  BY DEF Connect, MayConnect, Inv, StartInv, Started
<1>2. ~Has(stack, {"visit"}) /\ ~Has(stack, {"deliverAppData"}) /\ TellsFirst(stack)
  BY <1>1, NothingRuns DEF TellsFirst
<1>3. stack' = <<Visit(ConnectActions(early))>> \o stack
  BY <1>1, EmptyConcat, TuplesAreSeqs DEF Connect
<1>4. LET as == ConnectActions(early) IN
      ActionsOk(as) /\ ~Holds(as, "WaitForData") /\ ~Holds(as, "DeliverAppData")
  BY ConnectActionsAreMild, MildIsOk DEF Unhurried
<1>5. /\ FieldsInv' /\ fb'.state = fb.state /\ fb'.guard /\ fb'.deferred = fb.deferred
      /\ fb'.error = fb.error /\ fb'.paused = fb.paused /\ fb'.waitForData = fb.waitForData
      /\ fb'.unread = fb.unread /\ UNCHANGED <<sock, hist>> /\ sub'.config = sub.config
      /\ sub'.callback /\ base'.reads /\ base'.appDataBuf = base.appDataBuf
      /\ base'.readCallback = base.readCallback
  BY DEF Connect, Inv, FieldsInv
<1>6. /\ Started' /\ IsSeq(hist'.reports) /\ Len(hist'.reports) <= 1
      /\ fb.waitForData => fb.unread = 0
  BY <1>5 DEF Started, Inv, ReportInv, DataInv
<1>7. ReadInv'
  <2>1. Has(stack', {"sockFail"}) <=> Has(stack, {"sockFail"})
    BY <1>2, <1>3, <1>4, VisitStarts
  <2>. QED  BY <1>1, <1>5, <2>1, NothingRuns DEF ReadInv
<1>. QED  BY <1>1, <1>2, <1>3, <1>4, <1>5, <1>6, <1>7, VisitBegins

LEMMA ConnectSuccessKeeps ==
  ASSUME NEW early, Inv, ConnectSuccess(early)
  PROVE  Inv'
<1>1. stack = <<>> /\ Started /\ Role # "server"
  BY DEF ConnectSuccess, Inv, StartInv
<1>2. fb.deferred = <<>>
  BY <1>1 DEF Inv, GuardInv
<1>3. ~Has(stack, {"visit"}) /\ ~Has(stack, {"deliverAppData"}) /\ TellsFirst(stack)
  BY <1>1, NothingRuns DEF TellsFirst
<1>4. stack' = <<Visit(ConnectActions(early))>> \o stack
  BY <1>1, EmptyConcat, TuplesAreSeqs DEF ConnectSuccess
<1>5. LET as == ConnectActions(early) IN
      ActionsOk(as) /\ ~Holds(as, "WaitForData") /\ ~Holds(as, "DeliverAppData")
  BY ConnectActionsAreMild, MildIsOk DEF Unhurried
<1>6. /\ FieldsInv' /\ fb'.state = fb.state /\ fb'.guard /\ fb'.deferred = fb.deferred
      /\ fb'.error = fb.error /\ fb'.paused = fb.paused /\ fb'.waitForData = fb.waitForData
      /\ fb'.unread = fb.unread /\ UNCHANGED <<sub, hist>>
      /\ base'.reads /\ base'.appDataBuf = base.appDataBuf /\ base'.timeout = base.timeout
      /\ base'.readCallback = base.readCallback
  BY DEF ConnectSuccess, Inv, FieldsInv
<1>7. fb.state = "Open" => ~sub.callback /\ ~(Role = "client" /\ base.timeout)
  BY <1>3, OpenIsReported
<1>8. /\ Started' /\ IsSeq(hist'.reports) /\ Len(hist'.reports) <= 1
      /\ fb.waitForData => fb.unread = 0
      /\ sub.callback => hist.reports = <<>> /\ ~fb.error /\ base.appDataBuf = <<>>
  BY <1>1, <1>6 DEF Started, Inv, ReportInv, DataInv
<1>9. ReadInv'
  <2>1. Has(stack', {"sockFail"}) <=> Has(stack, {"sockFail"})
    BY <1>3, <1>4, <1>5, VisitStarts
  <2>2. ~(fb.error /\ base.readCallback)
    BY <1>1, NothingRuns DEF Inv, ReadInv
  <2>. QED  BY <1>1, <1>6, <2>1, <2>2, NothingRuns DEF ReadInv
<1>. QED  BY <1>1, <1>2, <1>3, <1>4, <1>5, <1>6, <1>7, <1>8, <1>9, VisitBegins

LEMMA VisitDoneKeeps ==
  ASSUME Inv, VisitDone
  PROVE  Inv'
<1>1. /\ stack # <<>> /\ Top = Head(stack) /\ Top.f = "visit" /\ Top.actions = <<>>
      /\ WellFormed(stack) /\ IsSeq(stack) /\ Started /\ Role' = Role
  BY OnIsStarted DEF VisitDone, On, Top, Inv, StackInv, WellFormed, Role
<1>2. WellFormed(Tail(stack)) /\ ~Has(Tail(stack), {"visit"}) /\ IsSeq(Tail(stack))
  BY <1>1, WellFormedTail DEF WellFormed
<1>3. \A a : ~Holds(<<>>, a)
  BY DEF Holds
<1>4. ~Reporting(stack) /\ ~Visits(stack, "ReportHandshakeSuccess")
  BY <1>1, <1>2, <1>3, ReportingTail, VisitsTail, VisitsHas, ZenonT(60)
<1>. DEFINE fs == <<Frame("process")>>
<1>5. Simple(fs) /\ stack' = fs \o Tail(stack)
  BY SimpleFrames DEF VisitDone, TailCall, Frame, Marked
<1>. HIDE DEF fs
<1>6. /\ Keeps(Tail(stack), stack')
      /\ \A names : Has(stack', names) <=> Has(fs, names) \/ Has(Tail(stack), names)
  BY <1>2, <1>5, Pushed DEF Simple
<1>7. \A names : Has(stack, names) <=> "visit" \in names \/ Has(Tail(stack), names)
  BY <1>1, HasTail
<1>8. TellsFirst(stack) => TellsFirst(stack')
  <2>1. TellsFirst(stack) => TellsFirst(Tail(stack))
    BY <1>1, TellsFirstTail
  <2>. QED  BY <1>6, <2>1 DEF Keeps
<1>9. ~Has(stack', {"visit"}) /\ WellFormed(stack')
  BY <1>2, <1>6 DEF Keeps
<1>10. \A a : ~Visits(stack', a)
  BY <1>9, VisitsHas
<1>11. /\ Has(stack', {"deliverAppData"}) => Has(stack, {"deliverAppData"})
       /\ Has(stack', {"sockFail"}) => Has(stack, {"sockFail"})
       /\ Has(stack, {"setReadCB", "deliverError", "attached"})
            => Has(stack', {"setReadCB", "deliverError", "attached"})
       /\ Has(stack, Resumers) => Has(stack', Resumers)
       /\ Has(stack, {"setReadCB", "deliverError"}) => Has(stack', {"setReadCB", "deliverError"})
  BY <1>5, <1>6, <1>7 DEF Simple, Resumers
<1>12. /\ FieldsInv' /\ fb'.state = fb.state /\ fb'.deferred = fb.deferred
       /\ fb'.error = fb.error /\ fb'.paused = fb.paused /\ fb'.waitForData = fb.waitForData
       /\ fb'.unread = fb.unread /\ UNCHANGED <<base, sub, sock, hist>>
  BY DEF VisitDone, Inv, FieldsInv
<1>13. fb.deferred = <<>> /\ Started'
  <2>1. Has(stack, {"visit"})
    BY <1>7
  <2>. QED  BY <1>1, <1>12, <2>1 DEF Inv, GuardInv, Started
<1>14. StackInv'
  BY <1>9 DEF StackInv, WellFormed
<1>15. GuardInv'
  BY <1>1, <1>9, <1>12, <1>13 DEF Inv, GuardInv
<1>16. StartInv'
  BY <1>1, <1>12, <1>13 DEF Inv, StartInv
<1>17. ReportInv'
  BY <1>1, <1>4, <1>8, <1>12 DEF Inv, ReportInv
<1>18. DataInv'
  BY <1>10, <1>11, <1>12 DEF Inv, DataInv
<1>19. ReadInv'
  BY <1>11, <1>12 DEF Inv, ReadInv
<1>. QED  BY <1>12, <1>14, <1>15, <1>16, <1>17, <1>18, <1>19 DEF Inv

-----------------------------------------------------------------------------
(* The theorems.                                                           *)
LEMMA InitInv == Init => Inv
<1>. SUFFICES ASSUME Init PROVE Inv
  OBVIOUS
<1>1. PICK c \in Configs :
        sub = [callback |-> FALSE, early |-> NoEarly, handshakeWrites |-> <<>>,
               replaySafety |-> FALSE, config |-> c]
  BY DEF Init
<1>2. FieldsInv
  BY <1>1 DEF Init, FieldsInv
<1>3. /\ stack = <<>> /\ ~sub.callback /\ hist.reports = <<>> /\ ~Started
  BY <1>1 DEF Init, Started
<1>4. IsSeq(<<>>) /\ ActionsOk(<<>>) /\ \A a : ~Holds(<<>>, a)
  BY TuplesAreSeqs DEF ActionsOk, Holds
<1>5. StackInv
  BY <1>3, <1>4 DEF StackInv, VisitsOk, OneVisit, TellsReader
<1>6. GuardInv
  BY <1>3, <1>4, NothingRuns DEF Init, GuardInv
<1>7. StartInv
  BY <1>3 DEF Init, StartInv
<1>8. ReportInv
  BY <1>3, <1>4 DEF Init, ReportInv
<1>9. DataInv
  BY <1>3, <1>4 DEF Init, DataInv
<1>10. ReadInv
  BY <1>3, NothingRuns DEF Init, ReadInv
<1>. QED  BY <1>2, <1>5, <1>6, <1>7, <1>8, <1>9, <1>10 DEF Inv

LEMMA NextKeepsInv == Inv /\ [Next]_vars => Inv'
<1>. SUFFICES ASSUME Inv, [Next]_vars PROVE Inv'
  OBVIOUS
<1>1. CASE ApplicationStep
  BY <1>1, WriteChainKeeps, SetReadCBKeeps, CloseKeeps, CloseNowKeeps, TlsShutdownKeeps,
     ShutdownWriteKeeps, DetachKeeps, AcceptKeeps, ConnectAddressKeeps, ConnectKeeps,
     ConnectFailsKeeps
     DEF ApplicationStep
<1>2. CASE EnvironmentStep
  BY <1>2, TransportDataAvailableKeeps, SockWriteDoneKeeps, SockEOFKeeps, SockErrorKeeps,
     SockBreaksEarlyKeeps,
     HandshakeTimeoutExpiredKeeps, FutureCompletesKeeps, AttachKeeps, ConnectErrKeeps,
     ConnectSuccessKeeps DEF EnvironmentStep
<1>3. CASE CodeStep
  BY <1>3, AppReturnsKeeps, SubmitKeeps, ProcessPendingEventsKeeps, LoopKeeps, LoopEventKeeps,
     LoopNoDataKeeps, LoopRecordKeeps, VisitDoneKeeps, MoveToErrorStateKeeps, DrainKeeps,
     SockWriteKeeps, SockCloseKeeps, SockCloseNowKeeps, SockFailAllKeeps,
     SockShutdownWriteKeeps, StartWritingKeeps, RequestWriteSuccessKeeps, StartNextKeeps,
     RequestWriteErrKeeps, WroteApplicationBytesKeeps, WriteAppDataBadKeeps,
     ServerWriteAppDataKeeps, ClientWriteAppDataKeeps, ClientWriteEarlyDataKeeps,
     CheckBufLenStepKeeps, DeliverAppDataStopKeeps, DeliverAppDataThrowsKeeps,
     DeliverAppDataKeeps, SetReadCBRestKeeps, AttachedKeeps, DeliverErrorKeeps,
     FailImmediatelyPendingKeeps, TransportErrorKeeps, DeliverAllErrorsKeeps,
     DeliverHandshakeErrorKeeps, FailPendingWritesKeeps, VisitMutateStateKeeps,
     VisitEarlyDataKeeps, VisitWriteToSocketKeeps, VisitDeliverAppDataKeeps,
     VisitWaitForDataKeeps, VisitReportErrorKeeps, VisitEndOfDataKeeps, ReportSuccessKeeps,
     OnReplaySafeKeeps, ServerReportKeeps, AttemptVersionFallbackKeeps,
     ClientReportEarlySuccessKeeps, VisitReportEarlyWriteFailedKeeps,
     ClientReportSuccessKeeps, FlushHandshakeWritesKeeps, EndEarlyDataKeeps,
     FlushEarlyWritesKeeps DEF CodeStep
<1>4. CASE UNCHANGED vars
  <2>1. /\ UNCHANGED <<stack, fb, base, sub, sock, hist>>
    BY <1>4 DEF vars
  <2>. QED  BY <2>1 DEF Inv, FieldsInv, StackInv, GuardInv, StartInv, ReportInv, DataInv,
                        ReadInv, Started, Role
<1>. QED  BY <1>1, <1>2, <1>3, <1>4 DEF Next

(* The conjunction of what is said of the stack, of the guard, of the      *)
(* handshake callback, of the data and of the reads holds throughout.      *)
THEOREM TransportInvariant == Spec => []Inv
BY InitInv, NextKeepsInv, PTL DEF Spec

(* Whatever races, the handshake callback of connect or accept is called   *)
(* at most once, a transport that failed has called it, and the handshake  *)
(* timeout of a client cannot fire once the handshake is complete.         *)
THEOREM TransportReportsOnce == Spec => []HandshakeReportedOnce
<1>1. ASSUME Inv
      PROVE  HandshakeReportedOnce
  <2>1. Len(hist.reports) <= 1
    BY <1>1 DEF Inv, ReportInv
  <2>2. Started /\ fb.error => hist.reports # <<>>
    BY <1>1 DEF Inv, ReportInv, Started
  <2>3. Quiet /\ Role = "client" /\ fb.state = "Open" => ~base.timeout
    BY <1>1, OpenIsReported, NothingRuns DEF Quiet
  <2>. QED  BY <2>1, <2>2, <2>3 DEF HandshakeReportedOnce
<1>. QED  BY <1>1, TransportInvariant, PTL

(* Reads that a full buffer, the application or a move between event bases *)
(* stopped are on again whenever a reader or a handshake needs them, and   *)
(* no reader is left on a transport that has failed.                       *)
THEOREM TransportResumesReads == Spec => []ReadsResumed
<1>1. ASSUME Inv
      PROVE  ReadsResumed
  <2>1. Quiet => \A names : ~Has(stack, names)
    BY NothingRuns DEF Quiet
  <2>. QED  BY <1>1, <2>1 DEF Inv, ReadInv, ReadsResumed
<1>. QED  BY <1>1, TransportInvariant, PTL
=============================================================================
