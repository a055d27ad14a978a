---------------------- MODULE LinuxPointerCaptureProofs ----------------------
(***************************************************************************)
(* Proofs about LinuxPointerCapture for any number of calls, revocations   *)
(* and motions.                                                            *)
(***************************************************************************)
EXTENDS LinuxPointerCapture, SequenceTheorems, TLAPS

----------------------------------------------------------------------------
(* The inductive invariant.                                                *)

CallMsgs == [method : {"lock", "unlock"}, generation : Nat, handle : BOOLEAN, wasConfirmed : BOOLEAN]

States  == [type : {"state"}, generation : Nat, locked : BOOLEAN]
Motions == [type : {"motion"}, generation : Nat]
Replies == [type : {"reply"}, method : {"lock", "unlock"}, generation : Nat, ok : BOOLEAN, wasConfirmed : BOOLEAN]
DartMsgs == States \cup Motions \cup Replies

\* Calls are numbered; base of them reached the native side.  A lock carries its own
\* number, an unlock that of the call before it.
base == dartGen - Len(toNative)

Numbered(m, n) == n = IF m.method = "lock" THEN m.generation ELSE m.generation + 1

CallsOK ==
  /\ toNative \in Seq(CallMsgs) /\ dartGen \in Nat /\ dartGen = calls /\ calls <= MaxCalls
  /\ Len(toNative) <= dartGen
  /\ \A i \in 1 .. Len(toNative) : Numbered(toNative[i], base + i)
  /\ toNative # <<>> => (dartRequested <=> toNative[Len(toNative)].method = "lock")

\* The native capture (r)equested, with its (g)eneration, (a)ctive, after b calls.
NativeOK(r, g, a, b) ==
  /\ r \in BOOLEAN /\ g \in Nat /\ a \in BOOLEAN /\ b \in Nat /\ g <= b
  /\ r => g = b /\ g > 0
  /\ a => r

Fails(m)  == m.type = "reply" /\ m.method = "lock" /\ ~m.ok
Tells(m)  == m.type \in {"state", "motion"}
Sets(m, d) == m.type = "state" /\ m.generation = d

\* Dart, of generation d and now (c)onfirmed or not, will be confirmed once it has heard
\* the messages of q before the i-th.
Told(q, d, c, i) ==
  \/ c /\ \A j \in 1 .. i - 1 : ~Sets(q[j], d)
  \/ \E j \in 1 .. i - 1 : Sets(q[j], d) /\ q[j].locked /\ \A l \in j + 1 .. i - 1 : ~Sets(q[l], d)

\* A message of the queue, as Dart will find it.
FoundAt(q, d, c, i) ==
  /\ q[i].type = "motion" /\ q[i].generation = d => Told(q, d, c, i)
  /\ Fails(q[i]) /\ q[i].generation = d => ~Told(q, d, c, i)

\* Nothing is said of a capture after its lock was said to have failed.
Final(q) == \A i \in 1 .. Len(q) : \A j \in i + 1 .. Len(q) :
              Fails(q[i]) /\ Tells(q[j]) => q[i].generation # q[j].generation

\* The messages to Dart: they speak of calls that were handled, and once Dart has heard
\* them all it knows whether the capture of its generation is active.
QueueOK(q, r, g, a, b, d, c, w) ==
  /\ q \in Seq(DartMsgs)
  /\ \A i \in 1 .. Len(q) : q[i].generation <= b
  /\ \A i \in 1 .. Len(q) : Fails(q[i]) => ~(r /\ g = q[i].generation)
  /\ \A i \in 1 .. Len(q) : Tells(q[i]) /\ q[i].generation = d => w
  /\ \A i \in 1 .. Len(q) : FoundAt(q, d, c, i)
  /\ Final(q)
  /\ r /\ g = d => w
  /\ Told(q, d, c, Len(q) + 1) <=> (r /\ a /\ g = d)

\* A call whose reply is awaited, as long as no two overlap.
Awaited(m) ==
  /\ Numbered(m, dartGen)
  /\ m.method = "lock" => ~m.wasConfirmed
  /\ m.method = "unlock" => ~dartRequested /\ (published <=> m.wasConfirmed)

OneCall ==
  /\ Len(toNative) <= 1
  /\ \A i \in 1 .. Len(toDart) : toDart[i].type = "reply" => toNative = <<>> /\ Awaited(toDart[i])
  /\ \A i, j \in 1 .. Len(toDart) : toDart[i].type = "reply" /\ toDart[j].type = "reply" => i = j
  /\ \A i \in 1 .. Len(toNative) : Awaited(toNative[i])
  /\ \/ \E i \in 1 .. Len(toNative) : toNative[i].method = "unlock"
     \/ \E i \in 1 .. Len(toDart) : toDart[i].type = "reply" /\ toDart[i].method = "unlock"
     \/ published <=> dartConfirmed

Flags ==
  /\ dartRequested \in BOOLEAN /\ dartConfirmed \in BOOLEAN /\ published \in BOOLEAN
  /\ overlapped \in BOOLEAN /\ lostMotion = FALSE
  /\ dartConfirmed => dartRequested

SenderOK == relative_sender \in Nat /\ SenderOfPresentCapture

CaptureIInv ==
  /\ CallsOK /\ Flags /\ SenderOK
  /\ NativeOK(requested, generation, active, base)
  /\ QueueOK(toDart, requested, generation, active, base, dartGen, dartConfirmed, dartRequested)
  /\ ~overlapped => OneCall

----------------------------------------------------------------------------
(* Queues of messages.                                                     *)

LEMMA Appended ==
  ASSUME NEW q \in Seq(DartMsgs), NEW m \in DartMsgs
  PROVE  /\ Append(q, m) \in Seq(DartMsgs) /\ Len(Append(q, m)) = Len(q) + 1 /\ Append(q, m)[Len(q) + 1] = m
         /\ \A n \in 1 .. Len(q) : Append(q, m)[n] = q[n]
         /\ Len(q) \in Nat
  BY AppendProperties

LEMMA Kinds ==
  ASSUME NEW m \in DartMsgs
  PROVE  /\ m.generation \in Nat /\ m.type \in {"state", "motion", "reply"}
         /\ m.type = "state" => m.locked \in BOOLEAN
  BY DEF DartMsgs, States, Motions, Replies

\* What Dart is told before the i-th message, when one more follows, ...
LEMMA ToldBefore ==
  ASSUME NEW q \in Seq(DartMsgs), NEW m \in DartMsgs, NEW d, NEW c, NEW i \in 1 .. Len(q) + 1
  PROVE  Told(Append(q, m), d, c, i) <=> Told(q, d, c, i)
<1>1. \A n \in 1 .. i - 1 : Append(q, m)[n] = q[n]
  <2>1. \A n \in 1 .. i - 1 : n \in 1 .. Len(q)
    BY Appended
  <2> QED BY <2>1, Appended, Zenon
<1>2. \A j \in 1 .. i - 1 : \A l \in j + 1 .. i - 1 : l \in 1 .. i - 1
  OBVIOUS
<1> QED BY <1>1, <1>2, Zenon DEF Told

\* ... and when it has heard that one too.
LEMMA ToldMore ==
  ASSUME NEW q \in Seq(DartMsgs), NEW m \in DartMsgs, NEW d, NEW c
  PROVE  /\ Sets(m, d) => (Told(Append(q, m), d, c, Len(q) + 2) <=> m.locked)
         /\ ~Sets(m, d) => (Told(Append(q, m), d, c, Len(q) + 2) <=> Told(q, d, c, Len(q) + 1))
<1>1. PICK p, L : p = Append(q, m) /\ L = Len(q)
  BY Zenon
<1>2. L \in Nat /\ p[L + 1] = m /\ \A n \in 1 .. L : p[n] = q[n]
  BY <1>1, Appended, Zenon
<1>3. (L + 2) - 1 = L + 1 /\ (L + 1) - 1 = L
  BY <1>2
<1>4. ASSUME Sets(m, d) PROVE Told(p, d, c, L + 2) <=> m.locked
  <2>1. L + 1 \in 1 .. L + 1 /\ \A l \in (L + 1) + 1 .. L + 1 : FALSE
    BY <1>2
  <2>2. ASSUME Told(p, d, c, L + 2) PROVE m.locked
    <3>1. PICK j \in 1 .. L + 1 : Sets(p[j], d) /\ p[j].locked /\ \A l \in j + 1 .. L + 1 : ~Sets(p[l], d)
      BY <1>2, <1>3, <1>4, <2>1, <2>2, Zenon DEF Told
    <3>2. j = L + 1 \/ L + 1 \in j + 1 .. L + 1
      BY <1>2, <3>1
    <3> QED BY <1>2, <1>4, <3>1, <3>2, Zenon
  <2>3. ASSUME m.locked PROVE Told(p, d, c, L + 2)
    BY <1>2, <1>3, <1>4, <2>1, <2>3, Zenon DEF Told
  <2> QED BY <2>2, <2>3
<1>5. ASSUME ~Sets(m, d) PROVE Told(p, d, c, L + 2) <=> Told(q, d, c, L + 1)
  <2>1. \A j \in 1 .. L + 1 : j \in 1 .. L \/ j = L + 1
    BY <1>2
  <2>2. \A j \in 1 .. L : j \in 1 .. L + 1
    BY <1>2
  <2>3. \A j \in 1 .. L : \A l \in j + 1 .. L + 1 : (l \in j + 1 .. L /\ l \in 1 .. L) \/ l = L + 1
    BY <1>2
  <2>4. \A j \in 1 .. L : \A l \in j + 1 .. L : l \in j + 1 .. L + 1
    BY <1>2
  <2>5. ASSUME Told(p, d, c, L + 2) PROVE Told(q, d, c, L + 1)
    <3>1. CASE c /\ \A j \in 1 .. L + 1 : ~Sets(p[j], d)
      BY <1>2, <1>3, <2>2, <3>1, Zenon DEF Told
    <3>2. ASSUME NEW j \in 1 .. L + 1, Sets(p[j], d), p[j].locked, \A l \in j + 1 .. L + 1 : ~Sets(p[l], d)
          PROVE  Told(q, d, c, L + 1)
      <4>1. j \in 1 .. L
        BY <1>2, <1>5, <2>1, <3>2, Zenon
      <4>2. \A l \in j + 1 .. L : l \in 1 .. L
        BY <1>2, <4>1
      <4>3. Sets(q[j], d) /\ q[j].locked
        BY <1>2, <3>2, <4>1, Zenon
      <4>4. \A l \in j + 1 .. L : ~Sets(q[l], d)
        BY <1>2, <2>4, <3>2, <4>1, <4>2, Zenon
      <4> QED BY <1>3, <4>1, <4>3, <4>4, Zenon DEF Told
    <3> QED BY <1>3, <2>5, <3>1, <3>2, Zenon DEF Told
  <2>6. ASSUME Told(q, d, c, L + 1) PROVE Told(p, d, c, L + 2)
    <3>1. CASE c /\ \A j \in 1 .. L : ~Sets(q[j], d)
      BY <1>2, <1>3, <1>5, <2>1, <3>1, Zenon DEF Told
    <3>2. ASSUME NEW j \in 1 .. L, Sets(q[j], d), q[j].locked, \A l \in j + 1 .. L : ~Sets(q[l], d)
          PROVE  Told(p, d, c, L + 2)
      <4>1. Sets(p[j], d) /\ p[j].locked /\ j \in 1 .. L + 1
        BY <1>2, <2>2, <3>2, Zenon
      <4>2. \A l \in j + 1 .. L + 1 : ~Sets(p[l], d)
        BY <1>2, <1>5, <2>3, <3>2, Zenon
      <4> QED BY <1>3, <4>1, <4>2, Zenon DEF Told
    <3> QED BY <1>3, <2>6, <3>1, <3>2, Zenon DEF Told
  <2> QED BY <2>5, <2>6
<1> QED BY <1>1, <1>4, <1>5, Zenon

\* Dart has heard m: it is now (x) confirmed as m says, or as it was.
Follows(m, d, c, x) == (Sets(m, d) => (x <=> m.locked)) /\ (~Sets(m, d) => (x <=> c))

LEMMA ToldRest ==
  ASSUME NEW q \in Seq(DartMsgs), q # <<>>, NEW p, p = Tail(q), NEW d, NEW c, NEW x, Follows(q[1], d, c, x),
         NEW i \in 1 .. Len(p) + 1
  PROVE  Told(p, d, x, i) <=> Told(q, d, c, i + 1)
<1> USE DEF Follows
<1>1. /\ Len(p) \in Nat /\ Len(q) = Len(p) + 1 /\ i \in Nat /\ (i + 1) - 1 = i /\ i <= Len(p) + 1
      /\ \A n \in 1 .. Len(p) : p[n] = q[n + 1]
  <2>1. Len(q) \in Nat /\ Len(q) # 0
    BY EmptySeq
  <2>2. Len(p) = Len(q) - 1 /\ \A n \in 1 .. Len(p) : p[n] = q[n + 1]
    BY HeadTailProperties
  <2> QED BY <2>1, <2>2
<1>2. \A n \in 1 .. i - 1 : p[n] = q[n + 1] /\ n + 1 \in 1 .. i
  BY <1>1
<1>3. \A n \in 1 .. i : n = 1 \/ (n - 1 \in 1 .. i - 1 /\ (n - 1) + 1 = n)
  BY <1>1
<1>4. 1 \in 1 .. i
  BY <1>1
<1>5. ASSUME Told(p, d, x, i) PROVE Told(q, d, c, i + 1)
  <2>1. CASE x /\ \A j \in 1 .. i - 1 : ~Sets(p[j], d)
    <3>1. \A n \in 1 .. i : n = 1 \/ ~Sets(q[n], d)
      BY <1>2, <1>3, <2>1, Zenon
    <3>2. CASE Sets(q[1], d)
      <4>1. \A l \in 1 + 1 .. i : l \in 1 .. i /\ l # 1
        BY <1>1
      <4> QED BY <1>1, <1>4, <2>1, <3>1, <3>2, <4>1, Zenon DEF Told
    <3>3. CASE ~Sets(q[1], d)
      BY <1>1, <2>1, <3>1, <3>3, Zenon DEF Told
    <3> QED BY <3>2, <3>3
  <2>2. ASSUME NEW j \in 1 .. i - 1, Sets(p[j], d), p[j].locked, \A l \in j + 1 .. i - 1 : ~Sets(p[l], d)
        PROVE  Told(q, d, c, i + 1)
    <3>1. j + 1 \in 1 .. i /\ Sets(q[j + 1], d) /\ q[j + 1].locked
      BY <1>2, <2>2, Zenon
    <3>2. ASSUME NEW l \in (j + 1) + 1 .. i PROVE ~Sets(q[l], d)
      <4>1. l - 1 \in j + 1 .. i - 1 /\ l - 1 \in 1 .. i - 1 /\ (l - 1) + 1 = l
        BY <1>1, <2>2, <3>2
      <4> QED BY <1>2, <2>2, <4>1, Zenon
    <3> QED BY <1>1, <3>1, <3>2, Zenon DEF Told
  <2> QED BY <1>5, <2>1, <2>2, Zenon DEF Told
<1>6. ASSUME Told(q, d, c, i + 1) PROVE Told(p, d, x, i)
  <2>1. CASE c /\ \A j \in 1 .. i : ~Sets(q[j], d)
    BY <1>2, <1>4, <2>1, Zenon DEF Told
  <2>2. ASSUME NEW j \in 1 .. i, Sets(q[j], d), q[j].locked, \A l \in j + 1 .. i : ~Sets(q[l], d)
        PROVE  Told(p, d, x, i)
    <3>1. CASE j = 1
      <4>1. \A n \in 1 .. i - 1 : n + 1 \in 1 + 1 .. i
        BY <1>1
      <4> QED BY <1>2, <2>2, <3>1, <4>1, Zenon DEF Told
    <3>2. CASE j # 1
      <4>1. j - 1 \in 1 .. i - 1 /\ (j - 1) + 1 = j
        BY <1>1, <2>2, <3>2
      <4>2. \A l \in (j - 1) + 1 .. i - 1 : l \in 1 .. i - 1 /\ l + 1 \in j + 1 .. i
        BY <1>1, <2>2, <3>2
      <4>3. Sets(p[j - 1], d) /\ p[j - 1].locked
        BY <1>2, <2>2, <4>1, Zenon
      <4>4. \A l \in (j - 1) + 1 .. i - 1 : ~Sets(p[l], d)
        BY <1>2, <2>2, <4>2, Zenon
      <4> QED BY <4>1, <4>3, <4>4, Zenon DEF Told
    <3> QED BY <3>1, <3>2
  <2> QED BY <1>1, <1>6, <2>1, <2>2, Zenon DEF Told
<1> QED BY <1>5, <1>6

----------------------------------------------------------------------------
(* The native side: what each thing it does adds to the queue.             *)

\* One more message, and the native capture as it is afterwards.
LEMMA OneMore ==
  ASSUME NEW q, NEW r, NEW g, NEW a, NEW b \in Nat, NEW d, NEW c, NEW w, QueueOK(q, r, g, a, b, d, c, w),
         NEW m \in DartMsgs, NEW s, NEW h, NEW e, m.generation <= b,
         \A i \in 1 .. Len(q) : Fails(q[i]) => ~(s /\ h = q[i].generation),
         Fails(m) => ~(s /\ h = m.generation),
         Tells(m) /\ m.generation = d => w,
         Tells(m) => \A i \in 1 .. Len(q) : Fails(q[i]) => q[i].generation # m.generation,
         m.type = "motion" /\ m.generation = d => r /\ a /\ g = d,
         Fails(m) /\ m.generation = d => ~(r /\ a /\ g = d),
         s /\ h = d => w,
         Sets(m, d) => (m.locked <=> (s /\ e /\ h = d)),
         ~Sets(m, d) => ((r /\ a /\ g = d) <=> (s /\ e /\ h = d))
  PROVE  QueueOK(Append(q, m), s, h, e, b, d, c, w)
<1>1. q \in Seq(DartMsgs)
  BY DEF QueueOK
<1>2. PICK p, L : p = Append(q, m) /\ L = Len(q)
  BY Zenon
<1>3. p \in Seq(DartMsgs) /\ L \in Nat /\ Len(p) = L + 1 /\ p[L + 1] = m /\ \A n \in 1 .. L : p[n] = q[n]
  BY <1>1, <1>2, Appended, Zenon
<1>4. \A i \in 1 .. Len(p) : i = L + 1 \/ i \in 1 .. L
  BY <1>3
<1>5. (Len(p) + 1 = L + 2) /\ L + 1 \in 1 .. L + 1 /\ \A i \in 1 .. L : i \in 1 .. L + 1
  BY <1>3
<1>6. \A i \in 1 .. L + 1 : Told(p, d, c, i) <=> Told(q, d, c, i)
  BY <1>1, <1>2, ToldBefore, Zenon
<1>7. Told(q, d, c, L + 1) <=> (r /\ a /\ g = d)
  BY <1>2, Zenon DEF QueueOK
<1>8. \A i \in 1 .. Len(p) : p[i].generation <= b
  BY <1>2, <1>3, <1>4, Zenon DEF QueueOK
<1>9. \A i \in 1 .. Len(p) : Fails(p[i]) => ~(s /\ h = p[i].generation)
  BY <1>2, <1>3, <1>4, Zenon
<1>10. \A i \in 1 .. Len(p) : Tells(p[i]) /\ p[i].generation = d => w
  BY <1>2, <1>3, <1>4, Zenon DEF QueueOK
<1>11. \A i \in 1 .. Len(p) : FoundAt(p, d, c, i)
  <2>1. ASSUME NEW i \in 1 .. L PROVE FoundAt(p, d, c, i)
    <3>1. FoundAt(q, d, c, i) /\ p[i] = q[i] /\ (Told(p, d, c, i) <=> Told(q, d, c, i))
      BY <1>2, <1>3, <1>5, <1>6, <2>1, Zenon DEF QueueOK
    <3> QED BY <3>1, Zenon DEF FoundAt
  <2>2. FoundAt(p, d, c, L + 1)
    <3>1. Told(p, d, c, L + 1) <=> (r /\ a /\ g = d)
      BY <1>5, <1>6, <1>7, Zenon
    <3> QED BY <1>3, <3>1, Zenon DEF FoundAt
  <2> QED BY <1>4, <2>1, <2>2, Zenon
<1>12. Final(p)
  <2>1. ASSUME NEW i \in 1 .. Len(p), NEW j \in i + 1 .. Len(p), Fails(p[i]), Tells(p[j])
        PROVE  p[i].generation # p[j].generation
    <3>1. i \in 1 .. L /\ (j = L + 1 \/ (j \in i + 1 .. L /\ j \in 1 .. L))
      BY <1>3, <2>1
    <3>2. p[i] = q[i] /\ Fails(q[i])
      BY <1>3, <2>1, <3>1, Zenon
    <3>3. CASE j = L + 1
      BY <1>2, <1>3, <2>1, <3>1, <3>2, <3>3, Zenon
    <3>4. CASE j \in i + 1 .. L /\ j \in 1 .. L
      <4>1. p[j] = q[j]
        BY <1>3, <3>4, Zenon
      <4> QED BY <1>2, <2>1, <3>1, <3>2, <3>4, <4>1, Zenon DEF QueueOK, Final
    <3> QED BY <3>1, <3>3, <3>4
  <2> QED BY <2>1, Zenon DEF Final
<1>13. Told(p, d, c, Len(p) + 1) <=> (s /\ e /\ h = d)
  <2>1. /\ Sets(m, d) => (Told(p, d, c, L + 2) <=> m.locked)
        /\ ~Sets(m, d) => (Told(p, d, c, L + 2) <=> Told(q, d, c, L + 1))
    BY <1>1, <1>2, ToldMore, Zenon
  <2> QED BY <1>5, <1>7, <2>1, Zenon
<1> QED BY <1>2, <1>3, <1>8, <1>9, <1>10, <1>11, <1>12, <1>13, Zenon DEF QueueOK

\* The queue and the native capture, at a point inside a handler.
Holds(q, r, g, a, b) ==
  NativeOK(r, g, a, b) /\ QueueOK(q, r, g, a, b, dartGen, dartConfirmed, dartRequested)

LEMMA MsgFields ==
  ASSUME NEW g \in Nat, NEW x \in BOOLEAN
  PROVE  /\ State(g, x) \in DartMsgs /\ State(g, x).type = "state" /\ State(g, x).generation = g
         /\ State(g, x).locked = x
  BY DEF State, DartMsgs, States

LEMMA ReplyFields ==
  ASSUME NEW m \in CallMsgs, NEW x \in BOOLEAN
  PROVE  /\ Reply(m, x) \in DartMsgs /\ Reply(m, x).type = "reply" /\ Reply(m, x).method = m.method
         /\ Reply(m, x).generation = m.generation /\ Reply(m, x).ok = x
         /\ Reply(m, x).wasConfirmed = m.wasConfirmed
  BY DEF Reply, DartMsgs, Replies, CallMsgs

\* The end of a capture is announced.
LEMMA Releases ==
  ASSUME NEW q, NEW g, NEW a, NEW b, Holds(q, TRUE, g, a, b)
  PROVE  Holds(Append(q, State(g, FALSE)), FALSE, g, FALSE, b)
<1>1. NativeOK(TRUE, g, a, b) /\ QueueOK(q, TRUE, g, a, b, dartGen, dartConfirmed, dartRequested)
  BY DEF Holds
<1>2. g \in Nat /\ b \in Nat /\ g = b /\ g <= b
  BY <1>1 DEF NativeOK
<1>3. PICK m \in DartMsgs : m = State(g, FALSE) /\ m.type = "state" /\ m.generation = g /\ m.locked = FALSE
  BY <1>2, MsgFields, Zenon
<1>4. ~Fails(m) /\ m.type # "motion"
  BY <1>3 DEF Fails
<1>5. NativeOK(FALSE, g, FALSE, b)
  BY <1>2 DEF NativeOK
<1>6. /\ \A i \in 1 .. Len(q) : Fails(q[i]) => q[i].generation # m.generation
      /\ m.generation = dartGen => dartRequested
  BY <1>1, <1>3, Zenon DEF QueueOK
<1>7. QueueOK(Append(q, m), FALSE, g, FALSE, b, dartGen, dartConfirmed, dartRequested)
  <2>1. /\ ~(FALSE /\ FALSE /\ g = dartGen)
        /\ ~Sets(m, dartGen) => g # dartGen
    BY <1>3, Zenon DEF Sets
  <2> QED BY <1>1, <1>2, <1>3, <1>4, <1>6, <2>1, OneMore
<1> QED BY <1>3, <1>5, <1>7, Zenon DEF Holds

\* A capture is confirmed.
LEMMA Confirms ==
  ASSUME NEW q, NEW g, NEW b, Holds(q, TRUE, g, FALSE, b)
  PROVE  Holds(Append(q, State(g, TRUE)), TRUE, g, TRUE, b)
<1>1. NativeOK(TRUE, g, FALSE, b) /\ QueueOK(q, TRUE, g, FALSE, b, dartGen, dartConfirmed, dartRequested)
  BY DEF Holds
<1>2. g \in Nat /\ b \in Nat /\ g = b /\ g <= b /\ g > 0
  BY <1>1 DEF NativeOK
<1>3. PICK m \in DartMsgs : m = State(g, TRUE) /\ m.type = "state" /\ m.generation = g /\ m.locked = TRUE
  BY <1>2, MsgFields, Zenon
<1>4. ~Fails(m) /\ m.type # "motion"
  BY <1>3 DEF Fails
<1>5. NativeOK(TRUE, g, TRUE, b)
  BY <1>2 DEF NativeOK
<1>6. /\ \A i \in 1 .. Len(q) : Fails(q[i]) => g # q[i].generation
      /\ \A i \in 1 .. Len(q) : Fails(q[i]) => q[i].generation # m.generation
      /\ g = dartGen => dartRequested
  BY <1>1, <1>3, Zenon DEF QueueOK
<1>7. QueueOK(Append(q, m), TRUE, g, TRUE, b, dartGen, dartConfirmed, dartRequested)
  <2>1. /\ Sets(m, dartGen) => (m.locked <=> (TRUE /\ TRUE /\ g = dartGen))
        /\ ~Sets(m, dartGen) => ((TRUE /\ FALSE /\ g = dartGen) <=> (TRUE /\ TRUE /\ g = dartGen))
        /\ Tells(m) /\ m.generation = dartGen => dartRequested
    BY <1>3, <1>6, Zenon DEF Sets
  <2>2. /\ \A i \in 1 .. Len(q) : Fails(q[i]) => ~(TRUE /\ g = q[i].generation)
        /\ Fails(m) => ~(TRUE /\ g = m.generation)
        /\ Tells(m) => \A i \in 1 .. Len(q) : Fails(q[i]) => q[i].generation # m.generation
        /\ m.type = "motion" /\ m.generation = dartGen => TRUE /\ FALSE /\ g = dartGen
        /\ Fails(m) /\ m.generation = dartGen => ~(TRUE /\ FALSE /\ g = dartGen)
        /\ TRUE /\ g = dartGen => dartRequested
        /\ m.generation <= b
    BY <1>2, <1>3, <1>4, <1>6, Zenon
  <2> QED BY <1>1, <1>2, <2>1, <2>2, OneMore, Zenon
<1> QED BY <1>3, <1>5, <1>7, Zenon DEF Holds

\* An answer, which is a failed lock's only when there is no capture.
LEMMA Answers ==
  ASSUME NEW q, NEW r, NEW g, NEW a, NEW b, Holds(q, r, g, a, b), NEW m \in CallMsgs, NEW x \in BOOLEAN,
         m.generation <= b, ~r \/ x \/ m.method = "unlock"
  PROVE  Holds(Append(q, Reply(m, x)), r, g, a, b)
<1>1. NativeOK(r, g, a, b) /\ QueueOK(q, r, g, a, b, dartGen, dartConfirmed, dartRequested)
  BY DEF Holds
<1>2. b \in Nat
  BY <1>1 DEF NativeOK
<1>3. PICK y \in DartMsgs : y = Reply(m, x) /\ y.type = "reply" /\ y.method = m.method /\ y.generation = m.generation /\ y.ok = x
  BY ReplyFields, Zenon
<1>4. ~Tells(y) /\ ~Sets(y, dartGen) /\ y.type # "motion"
  BY <1>3 DEF Tells, Sets
<1>5. Fails(y) => ~r
  BY <1>3 DEF Fails
<1>6. /\ \A i \in 1 .. Len(q) : Fails(q[i]) => ~(r /\ g = q[i].generation)
      /\ r /\ g = dartGen => dartRequested
  BY <1>1, Zenon DEF QueueOK
<1>7. QueueOK(Append(q, y), r, g, a, b, dartGen, dartConfirmed, dartRequested)
  BY <1>1, <1>2, <1>3, <1>4, <1>5, <1>6, OneMore
<1> QED BY <1>1, <1>3, <1>7, Zenon DEF Holds

\* A motion of an active capture.
LEMMA Moves ==
  ASSUME NEW q, NEW r, NEW g, NEW a, NEW b, Holds(q, r, g, a, b), a
  PROVE  Holds(Append(q, [type |-> "motion", generation |-> g]), r, g, a, b)
<1>1. NativeOK(r, g, a, b) /\ QueueOK(q, r, g, a, b, dartGen, dartConfirmed, dartRequested)
  BY DEF Holds
<1>2. b \in Nat /\ g \in Nat /\ g <= b /\ r
  BY <1>1 DEF NativeOK
<1>3. PICK y \in DartMsgs : y = [type |-> "motion", generation |-> g] /\ y.type = "motion" /\ y.generation = g
  <2>1. PICK y : y = [type |-> "motion", generation |-> g]
    BY Zenon
  <2>2. y \in DartMsgs /\ y.type = "motion" /\ y.generation = g
    BY <1>2, <2>1 DEF DartMsgs, Motions
  <2> QED BY <2>1, <2>2, Zenon
<1>4. ~Fails(y) /\ ~Sets(y, dartGen)
  BY <1>3 DEF Fails, Sets
<1>5. /\ \A i \in 1 .. Len(q) : Fails(q[i]) => ~(r /\ g = q[i].generation)
      /\ \A i \in 1 .. Len(q) : Fails(q[i]) => q[i].generation # y.generation
      /\ r /\ g = dartGen => dartRequested
  BY <1>1, <1>2, <1>3, Zenon DEF QueueOK
<1>6. QueueOK(Append(q, y), r, g, a, b, dartGen, dartConfirmed, dartRequested)
  <2>1. /\ y.type = "motion" /\ y.generation = dartGen => r /\ a /\ g = dartGen
        /\ Tells(y) /\ y.generation = dartGen => dartRequested
        /\ y.generation <= b
        /\ Fails(y) => ~(r /\ g = y.generation)
    BY <1>2, <1>3, <1>4, <1>5, Zenon
  <2> QED BY <1>1, <1>2, <1>4, <1>5, <2>1, OneMore, Zenon
<1> QED BY <1>1, <1>3, <1>6, Zenon DEF Holds

\* One more call is handled, without a capture or with a new one.
LEMMA Counts ==
  ASSUME NEW q, NEW g, NEW a, NEW b, Holds(q, FALSE, g, a, b)
  PROVE  Holds(q, FALSE, g, FALSE, b + 1)
<1>1. NativeOK(FALSE, g, a, b) /\ QueueOK(q, FALSE, g, a, b, dartGen, dartConfirmed, dartRequested)
  BY DEF Holds
<1>2. NativeOK(FALSE, g, FALSE, b + 1)
  BY <1>1 DEF NativeOK
<1>3. \A i \in 1 .. Len(q) : q[i].generation <= b + 1
  BY <1>1, Kinds DEF QueueOK, NativeOK
<1> QED BY <1>1, <1>2, <1>3, Zenon DEF Holds, QueueOK

LEMMA Begins ==
  ASSUME NEW q, NEW g, NEW a, NEW b, Holds(q, FALSE, g, a, b), b + 1 = dartGen => dartRequested
  PROVE  Holds(q, TRUE, b + 1, FALSE, b + 1)
<1>1. NativeOK(FALSE, g, a, b) /\ QueueOK(q, FALSE, g, a, b, dartGen, dartConfirmed, dartRequested)
  BY DEF Holds
<1>2. NativeOK(TRUE, b + 1, FALSE, b + 1)
  BY <1>1 DEF NativeOK
<1>3. \A i \in 1 .. Len(q) : q[i].generation <= b + 1 /\ b + 1 # q[i].generation
  BY <1>1, Kinds DEF QueueOK, NativeOK
<1> QED BY <1>1, <1>2, <1>3, Zenon DEF Holds, QueueOK

----------------------------------------------------------------------------
(* The native side: its handlers.                                          *)

NoReply(q) == \A i \in 1 .. Len(q) : q[i].type # "reply"

LEMMA Joined ==
  ASSUME NEW q \in Seq(DartMsgs), NEW x \in DartMsgs, NEW y \in DartMsgs
  PROVE  /\ q \o <<>> = q /\ q \o <<x>> = Append(q, x) /\ q \o <<x, y>> = Append(Append(q, x), y)
         /\ Append(q, x) \in Seq(DartMsgs)
<1>1. q \o <<>> = q
  OBVIOUS
<1>2. q \o <<x>> = Append(q, x)
  OBVIOUS
<1>3. q \o <<x, y>> = Append(Append(q, x), y)
  OBVIOUS
<1> QED BY <1>1, <1>2, <1>3

LEMMA StillNoReply ==
  ASSUME NEW q \in Seq(DartMsgs), NEW m \in DartMsgs, m.type # "reply", NoReply(q)
  PROVE  NoReply(Append(q, m))
<1>1. /\ Len(Append(q, m)) = Len(q) + 1 /\ Append(q, m)[Len(q) + 1] = m /\ Len(q) \in Nat
      /\ \A n \in 1 .. Len(q) : Append(q, m)[n] = q[n]
  BY Appended, Zenon
<1>2. \A i \in 1 .. Len(q) + 1 : i = Len(q) + 1 \/ i \in 1 .. Len(q)
  BY <1>1
<1> QED BY <1>1, <1>2, Zenon DEF NoReply

\* release(): the queue with what it announces.
LEMMA ReleasedHolds ==
  ASSUME CaptureIInv
  PROVE  \E q \in Seq(DartMsgs) :
           /\ q = toDart \o Released /\ Holds(q, FALSE, generation, FALSE, base)
           /\ NoReply(toDart) => NoReply(q)
<1>1. Holds(toDart, requested, generation, active, base)
  BY Zenon DEF CaptureIInv, Holds
<1>2. toDart \in Seq(DartMsgs) /\ requested \in BOOLEAN /\ generation \in Nat /\ active \in BOOLEAN /\ (active => requested)
  BY <1>1 DEF Holds, QueueOK, NativeOK
<1>3. CASE requested = TRUE
  <2>1. PICK m \in DartMsgs : m = State(generation, FALSE) /\ m.type = "state"
    BY <1>2, MsgFields, Zenon
  <2>2. toDart \o Released = Append(toDart, m) /\ Append(toDart, m) \in Seq(DartMsgs)
    BY <1>2, <1>3, <2>1, Joined, Zenon DEF Released
  <2>3. Holds(Append(toDart, m), FALSE, generation, FALSE, base)
    <3>1. Holds(toDart, TRUE, generation, active, base)
      BY <1>1, <1>3, Zenon
    <3> QED BY <2>1, <3>1, Releases, Zenon
  <2>4. m.type # "reply"
    BY <2>1
  <2> QED BY <1>2, <2>2, <2>3, <2>4, StillNoReply, Zenon
<1>4. CASE requested = FALSE
  <2>1. active = FALSE
    BY <1>2, <1>4
  <2>2. toDart \o Released = toDart
    <3>1. Released = <<>>
      BY <1>4, Zenon DEF Released
    <3> QED BY <1>2, <3>1
  <2>3. Holds(toDart, FALSE, generation, FALSE, base)
    BY <1>1, <1>4, <2>1, Zenon
  <2> QED BY <1>2, <2>2, <2>3, Zenon
<1> QED BY <1>2, <1>3, <1>4

\* The next call for the native side.
LEMMA NextCall ==
  ASSUME CaptureIInv, toNative # <<>>, toNative' = Tail(toNative), UNCHANGED <<dartGen, dartRequested, calls>>
  PROVE  /\ Head(toNative) \in CallMsgs /\ Numbered(Head(toNative), base + 1) /\ Head(toNative) = toNative[1]
         /\ base \in Nat /\ base' = base + 1 /\ CallsOK'
         /\ Head(toNative).method = "lock" /\ base + 1 = dartGen => dartRequested
         /\ Len(toNative) <= 1 => toNative' = <<>>
<1> DEFINE q == toNative
           p == Tail(q)
<1>1. /\ q \in Seq(CallMsgs) /\ dartGen \in Nat /\ dartGen = calls /\ calls <= MaxCalls /\ Len(q) <= dartGen
      /\ \A i \in 1 .. Len(q) : Numbered(q[i], base + i)
      /\ dartRequested <=> q[Len(q)].method = "lock"
  BY Zenon DEF CaptureIInv, CallsOK
<1>2. Len(q) \in Nat /\ Len(q) # 0
  BY <1>1, EmptySeq
<1>3. /\ p \in Seq(CallMsgs) /\ Len(p) = Len(q) - 1 /\ \A n \in 1 .. Len(p) : p[n] = q[n + 1]
      /\ Head(q) = q[1] /\ Head(q) \in CallMsgs
  BY <1>1, HeadTailProperties
<1>4. base \in Nat /\ base' = base + 1
  BY <1>1, <1>2, <1>3 DEF base
<1>5. Numbered(q[1], base + 1)
  <2>1. 1 \in 1 .. Len(q)
    BY <1>2
  <2> QED BY <1>1, <2>1, Zenon
<1>6. q[1].method = "lock" /\ base + 1 = dartGen => dartRequested
  <2>1. ASSUME base + 1 = dartGen PROVE Len(q) = 1
    <3>1. PICK L \in Nat : L = Len(q)
      BY <1>2
    <3>2. base = dartGen - L /\ dartGen \in Nat
      BY <1>1, <3>1, Zenon DEF base
    <3>3. L = 1
      BY <2>1, <3>2
    <3> QED BY <3>1, <3>3
  <2> QED BY <1>1, <2>1, Zenon
<1>7. Len(q) <= 1 => p = <<>>
  BY <1>2, <1>3, EmptySeq
<1>8. \A i \in 1 .. Len(p) : Numbered(p[i], base' + i)
  <2>1. ASSUME NEW i \in 1 .. Len(p) PROVE i + 1 \in 1 .. Len(q) /\ base' + i = base + (i + 1)
    BY <1>2, <1>3, <1>4, <2>1
  <2> QED BY <1>1, <1>3, <2>1, Zenon
<1>9. p # <<>> => (dartRequested <=> p[Len(p)].method = "lock")
  <2>1. ASSUME p # <<>> PROVE Len(p) \in 1 .. Len(p) /\ Len(p) + 1 = Len(q)
    BY <1>2, <1>3, <2>1, EmptySeq
  <2>2. ASSUME p # <<>> PROVE p[Len(p)] = q[Len(q)]
    BY <1>3, <2>1, <2>2, Zenon
  <2> QED BY <1>1, <2>2, Zenon
<1>10. Len(p) <= dartGen
  BY <1>1, <1>2, <1>3
<1>11. CallsOK'
  BY <1>1, <1>3, <1>8, <1>9, <1>10, Zenon DEF CallsOK, Numbered
<1> QED BY <1>3, <1>4, <1>5, <1>6, <1>7, <1>11, Zenon

\* The native side has answered the call m, the last thing it sent.
Answered(m, q, x, r, g, a, b) ==
  /\ q \in Seq(DartMsgs) /\ x \in BOOLEAN /\ toDart' = Append(q, Reply(m, x)) /\ (NoReply(toDart) => NoReply(q))
  /\ requested' = r /\ generation' = g /\ active' = a /\ Holds(Append(q, Reply(m, x)), r, g, a, b)
  /\ SenderOK'

LEMMA RefusedAnswers ==
  ASSUME CaptureIInv, NEW m \in CallMsgs, m.generation = base + 1, m.generation <= base + 1, RejectSender(m) \/ LockFails(m),
         base + 1 = dartGen => dartRequested
  PROVE  \E q, x, r, g, a : Answered(m, q, x, r, g, a, base + 1)
<1>1. PICK q \in Seq(DartMsgs) :
        /\ q = toDart \o Released /\ Holds(q, FALSE, generation, FALSE, base)
        /\ NoReply(toDart) => NoReply(q)
  BY ReleasedHolds
<1>2. base \in Nat /\ generation \in Nat
  BY <1>1 DEF Holds, NativeOK
<1>3. PICK y \in DartMsgs : y = Reply(m, FALSE)
  BY ReplyFields, Zenon
<1>4. CASE RejectSender(m) \/ (Release /\ toDart' = toDart \o Released \o <<Reply(m, FALSE)>>)
  <2>1. requested' = FALSE /\ active' = FALSE /\ generation' = generation /\ relative_sender' = 0
    <3>1. requested' = FALSE /\ active' = FALSE /\ generation' = generation /\ relative_sender' \in {0, relative_sender}
          /\ (relative_sender' # 0 => ~requested)
      BY <1>4 DEF RejectSender, Release
    <3>2. relative_sender # 0 => requested
      BY DEF CaptureIInv, SenderOK, SenderOfPresentCapture
    <3> QED BY <3>1, <3>2
  <2>2. toDart' = Append(q, y)
    <3>1. toDart' = q \o <<y>>
      BY <1>1, <1>3, <1>4, Zenon DEF RejectSender
    <3> QED BY <1>1, <1>3, <3>1, Joined, Zenon
  <2>3. Holds(Append(q, y), FALSE, generation, FALSE, base + 1)
    <3>1. Holds(q, FALSE, generation, FALSE, base + 1)
      BY <1>1, Counts, Zenon
    <3> QED BY <1>3, <3>1, Answers, Zenon
  <2>4. SenderOK'
    BY <2>1 DEF SenderOK, SenderOfPresentCapture
  <2> QED BY <1>1, <1>3, <2>1, <2>2, <2>3, <2>4, Zenon DEF Answered
<1>5. CASE /\ requested' = FALSE /\ active' = FALSE /\ relative_sender' = 0
           /\ generation' = m.generation
           /\ toDart' = toDart \o Released \o <<State(m.generation, FALSE), Reply(m, FALSE)>>
  <2>1. PICK z \in DartMsgs : z = State(base + 1, FALSE) /\ z.type = "state" /\ z.generation = base + 1
    <3>1. base + 1 \in Nat
      BY <1>2
    <3> QED BY <3>1, MsgFields, Zenon
  <2>2. toDart' = Append(Append(q, z), y) /\ Append(q, z) \in Seq(DartMsgs)
    <3>1. toDart' = q \o <<z, y>>
      BY <1>1, <1>3, <1>5, <2>1, Zenon
    <3> QED BY <1>1, <1>3, <2>1, <3>1, Joined, ZenonT(90)
  <2>3. Holds(Append(q, z), FALSE, base + 1, FALSE, base + 1)
    <3>1. Holds(q, TRUE, base + 1, FALSE, base + 1)
      BY <1>1, Begins, Zenon
    <3> QED BY <2>1, <3>1, Releases, Zenon
  <2>4. Holds(Append(Append(q, z), y), FALSE, base + 1, FALSE, base + 1)
    BY <1>3, <2>3, Answers, Zenon
  <2>5. NoReply(toDart) => NoReply(Append(q, z))
    <3>1. z.type # "reply"
      BY <2>1
    <3> QED BY <1>1, <2>1, <3>1, StillNoReply, Zenon
  <2>6. SenderOK'
    BY <1>5 DEF SenderOK, SenderOfPresentCapture
  <2> QED BY <1>3, <1>5, <2>2, <2>4, <2>5, <2>6, Zenon DEF Answered
<1> QED BY <1>4, <1>5, Zenon DEF LockFails

LEMMA GrantedAnswers ==
  ASSUME CaptureIInv, NEW m \in CallMsgs, m.generation = base + 1, m.generation <= base + 1, LockSucceeds(m),
         base + 1 = dartGen => dartRequested
  PROVE  \E q, x, r, g, a : Answered(m, q, x, r, g, a, base + 1)
<1>1. PICK q \in Seq(DartMsgs) :
        /\ q = toDart \o Released /\ Holds(q, FALSE, generation, FALSE, base)
        /\ NoReply(toDart) => NoReply(q)
  BY ReleasedHolds
<1>2. base \in Nat
  BY <1>1 DEF Holds, NativeOK
<1>3. PICK y \in DartMsgs : y = Reply(m, TRUE)
  BY ReplyFields, Zenon
<1>4. PICK confirmed \in BOOLEAN :
        /\ generation' = m.generation
        /\ requested' = TRUE /\ active' = confirmed
        /\ relative_sender' = IF m.handle THEN m.generation ELSE 0
        /\ toDart' = toDart \o Released
                       \o (IF confirmed THEN <<State(m.generation, TRUE)>> ELSE <<>>)
                       \o <<Reply(m, TRUE)>>
  BY DEF LockSucceeds
<1>5. Holds(q, TRUE, base + 1, FALSE, base + 1)
  BY <1>1, Begins, Zenon
<1>6. SenderOK'
  BY <1>2, <1>4 DEF SenderOK, SenderOfPresentCapture
<1>7. CASE confirmed = TRUE
  <2>1. PICK z \in DartMsgs : z = State(base + 1, TRUE) /\ z.type = "state" /\ z.generation = base + 1
    <3>1. base + 1 \in Nat
      BY <1>2
    <3> QED BY <3>1, MsgFields, Zenon
  <2>2. toDart' = Append(Append(q, z), y) /\ Append(q, z) \in Seq(DartMsgs)
    <3>1. toDart' = q \o <<z>> \o <<y>>
      BY <1>1, <1>3, <1>4, <1>7, <2>1, Zenon
    <3>2. q \o <<z>> = Append(q, z) /\ Append(q, z) \in Seq(DartMsgs)
      BY <2>1, Joined, Zenon
    <3>3. Append(q, z) \o <<y>> = Append(Append(q, z), y)
      BY <1>3, <3>2, Joined, Zenon
    <3> QED BY <3>1, <3>2, <3>3, Zenon
  <2>3. Holds(Append(Append(q, z), y), TRUE, base + 1, TRUE, base + 1)
    <3>1. Holds(Append(q, z), TRUE, base + 1, TRUE, base + 1)
      BY <1>5, <2>1, Confirms, Zenon
    <3> QED BY <1>3, <3>1, Answers, Zenon
  <2>4. NoReply(toDart) => NoReply(Append(q, z))
    <3>1. z.type # "reply"
      BY <2>1
    <3> QED BY <1>1, <2>1, <3>1, StillNoReply, Zenon
  <2> QED BY <1>3, <1>4, <1>6, <1>7, <2>2, <2>3, <2>4, Zenon DEF Answered
<1>8. CASE confirmed = FALSE
  <2>1. toDart' = Append(q, y)
    <3>1. toDart' = q \o <<>> \o <<y>>
      BY <1>1, <1>3, <1>4, <1>8, Zenon
    <3>2. q \o <<>> = q /\ q \o <<y>> = Append(q, y)
      BY <1>3, Joined, Zenon
    <3> QED BY <3>1, <3>2, Zenon
  <2>2. Holds(Append(q, y), TRUE, base + 1, FALSE, base + 1)
    BY <1>3, <1>5, Answers, Zenon
  <2> QED BY <1>1, <1>3, <1>4, <1>6, <1>8, <2>1, <2>2, Zenon DEF Answered
<1> QED BY <1>7, <1>8

LEMMA UnlockAnswers ==
  ASSUME CaptureIInv, NEW m \in CallMsgs, m.method = "unlock", m.generation = base, m.generation <= base + 1, Unlock(m)
  PROVE  \E q, x, r, g, a : Answered(m, q, x, r, g, a, base + 1)
<1>1. PICK y \in DartMsgs : y = Reply(m, TRUE)
  BY ReplyFields, Zenon
<1>2. NativeOK(requested, generation, active, base) /\ SenderOK /\ Holds(toDart, requested, generation, active, base)
  BY Zenon DEF CaptureIInv, Holds
<1>3. CASE m.generation = generation
  <2>1. PICK q \in Seq(DartMsgs) :
          /\ q = toDart \o Released /\ Holds(q, FALSE, generation, FALSE, base)
          /\ NoReply(toDart) => NoReply(q)
    BY ReleasedHolds
  <2>2. Release /\ toDart' = q \o <<y>>
    BY <1>1, <1>3, <2>1, Zenon DEF Unlock
  <2>3. toDart' = Append(q, y)
    BY <1>1, <2>1, <2>2, Joined, Zenon
  <2>4. Holds(Append(q, y), FALSE, generation, FALSE, base + 1)
    <3>1. Holds(q, FALSE, generation, FALSE, base + 1)
      BY <2>1, Counts, Zenon
    <3> QED BY <1>1, <3>1, Answers, Zenon
  <2>5. requested' = FALSE /\ active' = FALSE /\ generation' = generation /\ SenderOK'
    BY <1>2, <2>2 DEF Release, SenderOK, SenderOfPresentCapture
  <2> QED BY <1>1, <2>1, <2>3, <2>4, <2>5, Zenon DEF Answered
<1>4. CASE m.generation # generation
  <2>1. requested = FALSE /\ active = FALSE
    BY <1>2, <1>4 DEF NativeOK
  <2>2. UNCHANGED native /\ toDart' = Append(toDart, y)
    BY <1>1, <1>4, Zenon DEF Unlock
  <2>3. UNCHANGED <<generation, requested, active, relative_sender>>
    BY <2>2, Zenon DEF native
  <2>4. Holds(Append(toDart, y), FALSE, generation, FALSE, base + 1)
    <3>1. Holds(toDart, FALSE, generation, FALSE, base)
      BY <1>2, <2>1, Zenon
    <3>2. Holds(toDart, FALSE, generation, FALSE, base + 1)
      BY <3>1, Counts, Zenon
    <3> QED BY <1>1, <3>2, Answers, Zenon
  <2>5. SenderOK'
    BY <1>2, <2>3, Zenon DEF SenderOK, SenderOfPresentCapture
  <2>6. toDart \in Seq(DartMsgs)
    BY <1>2, Zenon DEF Holds, QueueOK
  <2> QED BY <1>1, <2>1, <2>2, <2>3, <2>4, <2>5, <2>6, Zenon DEF Answered
<1> QED BY <1>3, <1>4

LEMMA HandleAnswers ==
  ASSUME CaptureIInv, HandleCall
  PROVE  \E m \in CallMsgs :
           /\ m = toNative[1] /\ base' = base + 1 /\ CallsOK' /\ (Len(toNative) <= 1 => toNative' = <<>>)
           /\ \E q, x, r, g, a : Answered(m, q, x, r, g, a, base + 1)
<1>1. toNative # <<>> /\ toNative' = Tail(toNative) /\ UNCHANGED <<dartGen, dartRequested, calls>>
  BY Zenon DEF HandleCall, dart
<1>2. PICK m : m = Head(toNative)
  BY Zenon
<1>3. /\ m \in CallMsgs /\ Numbered(m, base + 1) /\ m = toNative[1]
      /\ base \in Nat /\ base' = base + 1 /\ CallsOK'
      /\ m.method = "lock" /\ base + 1 = dartGen => dartRequested
      /\ Len(toNative) <= 1 => toNative' = <<>>
  BY <1>1, <1>2, NextCall, Zenon
<1>4. CASE m.method = "lock" /\ (RejectSender(m) \/ LockFails(m) \/ LockSucceeds(m))
  <2>1. m.generation = base + 1 /\ m.generation <= base + 1
    BY <1>3, <1>4 DEF Numbered
  <2> QED BY <1>3, <1>4, <2>1, RefusedAnswers, GrantedAnswers, Zenon
<1>5. CASE m.method = "unlock" /\ Unlock(m)
  <2>1. m.generation = base /\ m.generation <= base + 1
    BY <1>3, <1>5 DEF Numbered, CallMsgs
  <2> QED BY <1>3, <1>5, <2>1, UnlockAnswers, Zenon
<1> QED BY <1>2, <1>4, <1>5, Zenon DEF HandleCall

LEMMA Primed ==
  ASSUME NativeOK(requested', generation', active', base'),
         QueueOK(toDart', requested', generation', active', base', dartGen', dartConfirmed', dartRequested')
  PROVE  /\ NativeOK(requested, generation, active, base)'
         /\ QueueOK(toDart, requested, generation, active, base, dartGen, dartConfirmed, dartRequested)'
<1>1. NativeOK(requested, generation, active, base)'
  BY DEF NativeOK
<1>2. QueueOK(toDart, requested, generation, active, base, dartGen, dartConfirmed, dartRequested)'
  BY DEF QueueOK, FoundAt, Told, Final, Fails, Tells, Sets
<1> QED BY <1>1, <1>2

LEMMA HandleKeeps ==
  ASSUME CaptureIInv, HandleCall
  PROVE  CaptureIInv'
<1>1. PICK m \in CallMsgs :
        /\ m = toNative[1] /\ base' = base + 1 /\ CallsOK' /\ (Len(toNative) <= 1 => toNative' = <<>>)
        /\ \E q, x, r, g, a : Answered(m, q, x, r, g, a, base + 1)
  BY HandleAnswers
<1>2. PICK q, x, r, g, a : Answered(m, q, x, r, g, a, base + 1)
  BY <1>1
<1>3. PICK b : b = base + 1
  BY Zenon
<1>4. UNCHANGED <<dartGen, dartRequested, dartConfirmed, published, overlapped, lostMotion>> /\ toNative # <<>>
  BY Zenon DEF HandleCall, dart, ghosts
<1>5. PICK y \in DartMsgs :
        /\ y = Reply(m, x) /\ y.type = "reply" /\ y.method = m.method /\ y.generation = m.generation
        /\ y.wasConfirmed = m.wasConfirmed
  BY <1>1, <1>2, ReplyFields, Zenon DEF Answered
<1>6. PICK p : p = Append(q, y)
  BY Zenon
<1>7. /\ toDart' = p /\ requested' = r /\ generation' = g /\ active' = a /\ base' = b /\ SenderOK'
      /\ Holds(p, r, g, a, b) /\ q \in Seq(DartMsgs) /\ (NoReply(toDart) => NoReply(q))
  BY <1>1, <1>2, <1>3, <1>5, <1>6, Zenon DEF Answered
<1>8. /\ NativeOK(requested', generation', active', base')
      /\ QueueOK(toDart', requested', generation', active', base', dartGen', dartConfirmed', dartRequested')
  BY <1>4, <1>7, Zenon DEF Holds
<1>9. /\ NativeOK(requested, generation, active, base)'
      /\ QueueOK(toDart, requested, generation, active, base, dartGen, dartConfirmed, dartRequested)'
  BY <1>8, Primed
<1>10. Flags'
  BY <1>4, Zenon DEF CaptureIInv, Flags
<1>11. ASSUME ~overlapped PROVE OneCall'
  <2>1. OneCall
    BY <1>11, Zenon DEF CaptureIInv
  <2>2. toNative' = <<>> /\ NoReply(q)
    BY <1>1, <1>4, <1>7, <2>1, Zenon DEF OneCall, NoReply
  <2>3. Len(q) \in Nat /\ Len(p) = Len(q) + 1 /\ p[Len(q) + 1] = y /\ \A n \in 1 .. Len(q) : p[n] = q[n]
    BY <1>6, <1>7, Appended, Zenon
  <2>4. \A i \in 1 .. Len(p) : p[i].type = "reply" => i = Len(q) + 1
    <3>1. \A i \in 1 .. Len(p) : i = Len(q) + 1 \/ i \in 1 .. Len(q)
      BY <2>3
    <3> QED BY <2>2, <2>3, <3>1, Zenon DEF NoReply
  <2>5. 1 \in 1 .. Len(toNative) /\ Len(toNative) <= 1 /\ \A i \in 1 .. Len(toNative) : i = 1
    <3>1. Len(toNative) \in Nat /\ Len(toNative) # 0 /\ Len(toNative) <= 1
      BY <1>4, <2>1, EmptySeq DEF CaptureIInv, CallsOK, OneCall
    <3> QED BY <3>1
  <2>6. Awaited(m)
    BY <1>1, <2>1, <2>5, Zenon DEF OneCall
  <2>7. Awaited(y)'
    BY <1>4, <1>5, <2>6, Zenon DEF Awaited, Numbered
  <2>8. Len(toNative') = 0 /\ \A i \in 1 .. 0 : FALSE
    BY <2>2
  <2>9. Len(q) + 1 \in 1 .. Len(p)
    BY <2>3
  <2>10. m.method = "unlock" \/ (published <=> dartConfirmed)
    <3>1. NoReply(toDart)
      BY <1>4, <2>1, Zenon DEF OneCall, NoReply
    <3> QED BY <1>1, <2>1, <2>5, <3>1, Zenon DEF OneCall, NoReply
  <2>11. \A i \in 1 .. Len(p) : p[i].type = "reply" => toNative' = <<>> /\ p[i] = y
    BY <2>2, <2>3, <2>4, Zenon
  <2>12. \/ \E i \in 1 .. Len(p) : p[i].type = "reply" /\ p[i].method = "unlock"
         \/ published' <=> dartConfirmed'
    BY <1>4, <1>5, <2>3, <2>9, <2>10, Zenon
  <2>13. 0 <= 1
    OBVIOUS
  <2> QED BY <1>7, <2>4, <2>7, <2>8, <2>11, <2>12, <2>13, Zenon DEF OneCall
<1> QED BY <1>1, <1>4, <1>7, <1>9, <1>10, <1>11, Zenon DEF CaptureIInv

\* A step of the native side alone, which sends one message at most, and no reply.
LEMMA NativeKeeps ==
  ASSUME CaptureIInv, Holds(toDart', requested', generation', active', base), SenderOK',
         UNCHANGED <<toNative, dart, ghosts, calls>>,
         toDart' = toDart \/ \E m \in DartMsgs : m.type # "reply" /\ toDart' = Append(toDart, m)
  PROVE  CaptureIInv'
<1>1. UNCHANGED <<dartGen, dartRequested, dartConfirmed, published, overlapped, lostMotion, toNative, calls>>
  BY Zenon DEF dart, ghosts
<1>2. base' = base
  BY <1>1, Zenon DEF base
<1>3. /\ NativeOK(requested', generation', active', base')
      /\ QueueOK(toDart', requested', generation', active', base', dartGen', dartConfirmed', dartRequested')
  BY <1>1, <1>2, Zenon DEF Holds
<1>4. /\ NativeOK(requested, generation, active, base)'
      /\ QueueOK(toDart, requested, generation, active, base, dartGen, dartConfirmed, dartRequested)'
  BY <1>3, Primed
<1>5. CallsOK' /\ Flags'
  BY <1>1, <1>2, Zenon DEF CaptureIInv, CallsOK, Flags, Numbered
<1>6. ASSUME ~overlapped PROVE OneCall'
  <2>1. OneCall /\ toDart \in Seq(DartMsgs)
    BY <1>6, Zenon DEF CaptureIInv, QueueOK
  <2>2. PICK p : p = toDart'
    BY Zenon
  <2>3. /\ \A i \in 1 .. Len(p) : p[i].type = "reply" => i \in 1 .. Len(toDart) /\ p[i] = toDart[i]
        /\ \A i \in 1 .. Len(toDart) : i \in 1 .. Len(p) /\ p[i] = toDart[i]
    <3>1. CASE p = toDart
      BY <3>1, Zenon
    <3>2. ASSUME NEW m \in DartMsgs, m.type # "reply", p = Append(toDart, m) PROVE <2>3!:
      <4>1. Len(toDart) \in Nat /\ Len(p) = Len(toDart) + 1 /\ p[Len(toDart) + 1] = m /\ \A n \in 1 .. Len(toDart) : p[n] = toDart[n]
        BY <2>1, <3>2, Appended, Zenon
      <4>2. /\ \A i \in 1 .. Len(p) : i = Len(toDart) + 1 \/ i \in 1 .. Len(toDart)
            /\ \A i \in 1 .. Len(toDart) : i \in 1 .. Len(p)
        BY <4>1
      <4> QED BY <3>2, <4>1, <4>2, Zenon
    <3> QED BY <2>2, <3>1, <3>2, Zenon
  <2>4. ASSUME NEW m, Awaited(m) PROVE Awaited(m)'
    BY <1>1, <2>4, Zenon DEF Awaited, Numbered
  <2>5. \A i \in 1 .. Len(p) : p[i].type = "reply" => toNative' = <<>> /\ Awaited(p[i])
    BY <1>1, <2>1, <2>3, Zenon DEF OneCall
  <2>6. \A i, j \in 1 .. Len(p) : p[i].type = "reply" /\ p[j].type = "reply" => i = j
    BY <2>1, <2>3, Zenon DEF OneCall
  <2>7. \/ \E i \in 1 .. Len(toNative) : toNative[i].method = "unlock"
        \/ \E i \in 1 .. Len(p) : p[i].type = "reply" /\ p[i].method = "unlock"
        \/ published <=> dartConfirmed
    BY <2>1, <2>3, Zenon DEF OneCall
  <2>8. Len(toNative) <= 1 /\ \A i \in 1 .. Len(toNative) : Awaited(toNative[i])
    BY <2>1, Zenon DEF OneCall
  <2>9. \A i \in 1 .. Len(p) : p[i].type = "reply" => Awaited(p[i])'
    BY <2>4, <2>5, Zenon
  <2>10. \A i \in 1 .. Len(toNative) : Awaited(toNative[i])'
    BY <1>1, <2>4, <2>8, Zenon DEF Awaited, Numbered
  <2> QED BY <1>1, <2>2, <2>5, <2>6, <2>7, <2>8, <2>9, <2>10, Zenon DEF OneCall
<1> QED BY <1>1, <1>4, <1>5, <1>6, Zenon DEF CaptureIInv

LEMMA Natively ==
  ASSUME CaptureIInv
  PROVE  /\ toDart \in Seq(DartMsgs) /\ requested \in BOOLEAN /\ generation \in Nat /\ active \in BOOLEAN
         /\ (active => requested) /\ SenderOK /\ Holds(toDart, requested, generation, active, base)
<1>1. Holds(toDart, requested, generation, active, base) /\ SenderOK
  BY Zenon DEF CaptureIInv, Holds
<1> QED BY <1>1, Zenon DEF Holds, NativeOK, QueueOK

LEMMA ConfirmKeeps ==
  ASSUME CaptureIInv, Confirm
  PROVE  CaptureIInv'
<1>1. /\ requested = TRUE /\ active = FALSE /\ active' = TRUE /\ toDart' = Append(toDart, State(generation, TRUE))
      /\ UNCHANGED <<generation, requested, relative_sender>> /\ UNCHANGED <<toNative, dart, ghosts, calls>>
  BY Natively DEF Confirm
<1>2. PICK m \in DartMsgs : m = State(generation, TRUE) /\ m.type = "state"
  BY Natively, MsgFields, Zenon
<1>3. Holds(toDart', requested', generation', active', base)
  <2>1. Holds(toDart, TRUE, generation, FALSE, base)
    BY <1>1, Natively, Zenon
  <2>2. Holds(Append(toDart, State(generation, TRUE)), TRUE, generation, TRUE, base)
    BY <2>1, Confirms, Zenon
  <2> QED BY <1>1, <2>2, Zenon
<1>4. SenderOK' /\ m.type # "reply"
  BY <1>1, <1>2, Natively DEF SenderOK, SenderOfPresentCapture
<1> QED BY <1>1, <1>2, <1>3, <1>4, NativeKeeps, Zenon

LEMMA RevocationKeeps ==
  ASSUME CaptureIInv, Revocation
  PROVE  CaptureIInv'
<1>1. /\ requested = TRUE /\ requested' = FALSE /\ active' = FALSE /\ generation' = generation /\ relative_sender' = 0
      /\ UNCHANGED <<toNative, dart, ghosts, calls>> /\ toDart' = toDart \o <<State(generation, FALSE)>>
  BY Natively DEF Revocation, Release, Released
<1>2. PICK m \in DartMsgs : m = State(generation, FALSE) /\ m.type = "state"
  BY Natively, MsgFields, Zenon
<1>3. toDart' = Append(toDart, m)
  BY <1>1, <1>2, Natively, Joined, Zenon
<1>4. Holds(toDart', requested', generation', active', base)
  <2>1. Holds(toDart, TRUE, generation, active, base)
    BY <1>1, Natively, Zenon
  <2>2. Holds(Append(toDart, m), FALSE, generation, FALSE, base)
    BY <1>2, <2>1, Releases, Zenon
  <2> QED BY <1>1, <1>3, <2>2, Zenon
<1>5. SenderOK' /\ m.type # "reply"
  BY <1>1, <1>2 DEF SenderOK, SenderOfPresentCapture
<1> QED BY <1>1, <1>2, <1>3, <1>4, <1>5, NativeKeeps, Zenon

LEMMA MotionKeeps ==
  ASSUME CaptureIInv, Motion
  PROVE  CaptureIInv'
<1>1. /\ active = TRUE /\ UNCHANGED <<generation, requested, active, relative_sender>>
      /\ UNCHANGED <<toNative, dart, ghosts, calls>>
      /\ toDart' = toDart \/ toDart' = Append(toDart, [type |-> "motion", generation |-> generation])
  BY Natively DEF Motion, native
<1>2. SenderOK'
  BY <1>1, Natively, Zenon DEF SenderOK, SenderOfPresentCapture
<1>3. PICK m : m = [type |-> "motion", generation |-> generation]
  BY Zenon
<1>4. m \in DartMsgs /\ m.type # "reply"
  BY <1>3, Natively DEF DartMsgs, Motions
<1>5. Holds(toDart', requested', generation', active', base)
  BY <1>1, Natively, Moves, Zenon
<1> QED BY <1>1, <1>2, <1>3, <1>4, <1>5, NativeKeeps, Zenon

----------------------------------------------------------------------------
(* Dart: its calls.                                                        *)

\* Nothing that is under way is of a new generation.
LEMMA NewGeneration ==
  ASSUME NEW q, NEW r, NEW g, NEW a, NEW b, NEW d \in Nat, NEW c, NEW w, NEW x,
         NativeOK(r, g, a, b), QueueOK(q, r, g, a, b, d, c, w), b <= d
  PROVE  QueueOK(q, r, g, a, b, d + 1, FALSE, x)
<1>1. q \in Seq(DartMsgs) /\ \A i \in 1 .. Len(q) : q[i].generation <= b
  BY Zenon DEF QueueOK
<1>2. \A i \in 1 .. Len(q) : q[i].generation # d + 1
  BY <1>1, Kinds DEF NativeOK
<1>3. g # d + 1
  BY DEF NativeOK
<1>4. PICK e : e = d + 1
  BY Zenon
<1>5. \A i \in 1 .. Len(q) : ~Sets(q[i], e)
  BY <1>2, <1>4, Zenon DEF Sets
<1>6. (Len(q) + 1) - 1 = Len(q)
  BY <1>1
<1>7. ~Told(q, e, FALSE, Len(q) + 1)
  BY <1>5, <1>6, Zenon DEF Told
<1>8. \A i \in 1 .. Len(q) : FoundAt(q, e, FALSE, i)
  BY <1>2, <1>4, Zenon DEF FoundAt
<1>9. QueueOK(q, r, g, a, b, e, FALSE, x)
  BY <1>2, <1>3, <1>4, <1>7, <1>8, Zenon DEF QueueOK
<1> QED BY <1>4, <1>9, Zenon

LEMMA CallKeeps ==
  ASSUME CaptureIInv, NEW m \in CallMsgs, Numbered(m, dartGen + 1), (m.wasConfirmed <=> dartConfirmed),
         dartGen' = dartGen + 1, dartRequested' = (m.method = "lock"), dartConfirmed' = FALSE, Call(m)
  PROVE  CaptureIInv'
<1>1. /\ CallsOK /\ Flags /\ SenderOK /\ NativeOK(requested, generation, active, base)
      /\ QueueOK(toDart, requested, generation, active, base, dartGen, dartConfirmed, dartRequested)
      /\ ~overlapped => OneCall
  BY Zenon DEF CaptureIInv
<1>2. /\ calls < MaxCalls /\ calls' = calls + 1 /\ toNative' = Append(toNative, m)
      /\ overlapped' = (overlapped \/ Unanswered \/ (m.method = "lock" /\ dartRequested))
      /\ UNCHANGED <<published, toDart, generation, requested, active, relative_sender, lostMotion>>
  BY Zenon DEF Call, native
<1>3. /\ toNative \in Seq(CallMsgs) /\ Len(toNative) \in Nat /\ Len(toNative) <= dartGen /\ dartGen \in Nat
      /\ dartGen = calls /\ toNative' \in Seq(CallMsgs) /\ Len(toNative') = Len(toNative) + 1
      /\ toNative'[Len(toNative) + 1] = m /\ \A n \in 1 .. Len(toNative) : toNative'[n] = toNative[n]
  BY <1>1, <1>2, AppendProperties DEF CallsOK
<1>4. PICK L \in Nat : L = Len(toNative)
  BY <1>3
<1>5. base \in Nat /\ base' = base /\ base <= dartGen /\ base + (L + 1) = dartGen + 1
  BY <1>3, <1>4 DEF base
<1>6. CallsOK'
  <2>1. \A i \in 1 .. Len(toNative') : Numbered(toNative'[i], base' + i)
    <3>1. \A i \in 1 .. Len(toNative') : i = L + 1 \/ i \in 1 .. L
      BY <1>3, <1>4
    <3>2. \A i \in 1 .. L : Numbered(toNative[i], base + i)
      BY <1>1, <1>4, Zenon DEF CallsOK
    <3>3. Numbered(m, base + (L + 1))
      BY <1>5, Zenon
    <3> QED BY <1>3, <1>4, <1>5, <3>1, <3>2, <3>3, Zenon
  <2>2. dartGen' \in Nat /\ dartGen' = calls' /\ calls' <= MaxCalls /\ Len(toNative') <= dartGen'
    BY <1>2, <1>3, CaptureAssumption
  <2>3. dartRequested' <=> toNative'[Len(toNative')].method = "lock"
    BY <1>3, Zenon
  <2> QED BY <1>3, <2>1, <2>2, <2>3, Zenon DEF CallsOK, Numbered
<1>7. /\ NativeOK(requested, generation, active, base)'
      /\ QueueOK(toDart, requested, generation, active, base, dartGen, dartConfirmed, dartRequested)'
  <2>1. QueueOK(toDart, requested, generation, active, base, dartGen + 1, FALSE, dartRequested')
    BY <1>1, <1>3, <1>5, NewGeneration, Zenon
  <2>2. QueueOK(toDart', requested', generation', active', base', dartGen', dartConfirmed', dartRequested')
    BY <1>2, <1>5, <2>1, Zenon
  <2>3. NativeOK(requested', generation', active', base')
    BY <1>1, <1>2, <1>5, Zenon
  <2> QED BY <2>2, <2>3, Primed
<1>8. Flags' /\ SenderOK'
  <2>1. dartRequested' \in BOOLEAN /\ overlapped' \in BOOLEAN
    BY <1>2
  <2> QED BY <1>1, <1>2, <2>1, Zenon DEF Flags, SenderOK, SenderOfPresentCapture
<1>9. ASSUME ~overlapped' PROVE OneCall'
  <2>1. ~overlapped /\ toNative = <<>> /\ NoReply(toDart) /\ (m.method = "lock" => ~dartRequested)
    BY <1>2, <1>9, Zenon DEF Unanswered, NoReply
  <2>2. L = 0
    BY <1>4, <2>1
  <2>3. \A i \in 1 .. L : FALSE
    BY <2>2
  <2>4. published <=> dartConfirmed
    BY <1>1, <1>4, <2>1, <2>3, Zenon DEF OneCall, NoReply
  <2>5. Awaited(m)'
    <3>1. m.method = "lock" => ~m.wasConfirmed
      BY <1>1, <2>1, Zenon DEF Flags
    <3>2. m.method = "unlock" => ~dartRequested' /\ (published' <=> m.wasConfirmed)
      BY <1>2, <2>4
    <3> QED BY <3>1, <3>2, Zenon DEF Awaited, Numbered
  <2>6. Len(toNative') = 1 /\ 1 \in 1 .. Len(toNative') /\ \A i \in 1 .. Len(toNative') : i = 1
    BY <1>3, <1>4, <2>2
  <2>7. toNative'[1] = m
    <3>1. Len(toNative) + 1 = 1
      BY <1>4, <2>2
    <3> QED BY <1>3, <3>1, Zenon
  <2>8. m.method = "lock" => (published' <=> dartConfirmed')
    BY <1>1, <1>2, <2>1, <2>4, Zenon DEF Flags
  <2>9. m.method \in {"lock", "unlock"}
    BY DEF CallMsgs
  <2>10. Len(toNative') <= 1
    BY <2>6
  <2>11. \/ \E i \in 1 .. Len(toNative') : toNative'[i].method = "unlock"
         \/ published' <=> dartConfirmed'
    <3>1. CASE m.method = "unlock"
      BY <2>6, <2>7, <3>1, Zenon
    <3>2. CASE m.method = "lock"
      BY <2>8, <3>2, Zenon
    <3> QED BY <2>9, <3>1, <3>2
  <2>12. \A i \in 1 .. Len(toNative') : Awaited(toNative[i])'
    BY <2>5, <2>6, <2>7, Zenon DEF Awaited, Numbered
  <2>13. \A i \in 1 .. Len(toDart') : toDart'[i].type # "reply"
    BY <1>2, <2>1, Zenon DEF NoReply
  <2> QED BY <2>10, <2>11, <2>12, <2>13, Zenon DEF OneCall
<1> QED BY <1>6, <1>7, <1>8, <1>9, Zenon DEF CaptureIInv

LEMMA CallsKeep ==
  ASSUME CaptureIInv, unlockCursor \/ \E h \in BOOLEAN : lockCursor(h)
  PROVE  CaptureIInv'
<1>1. dartGen \in Nat /\ dartConfirmed \in BOOLEAN
  BY DEF CaptureIInv, CallsOK, Flags
<1>2. ASSUME NEW h \in BOOLEAN, lockCursor(h) PROVE CaptureIInv'
  <2>1. PICK m : m = [method |-> "lock", generation |-> dartGen + 1, handle |-> h, wasConfirmed |-> dartConfirmed]
    BY Zenon
  <2>2. m \in CallMsgs /\ m.method = "lock" /\ m.generation = dartGen + 1
    BY <1>1, <2>1 DEF CallMsgs
  <2>3. Numbered(m, dartGen + 1)
    BY <2>2, Zenon DEF Numbered
  <2>4. m.wasConfirmed <=> dartConfirmed
    BY <2>1
  <2>5. dartGen' = dartGen + 1 /\ dartRequested' = (m.method = "lock") /\ dartConfirmed' = FALSE /\ Call(m)
    <3>1. dartGen' = dartGen + 1 /\ dartRequested' = TRUE /\ dartConfirmed' = FALSE /\ Call(m)
      BY <1>2, <2>1, Zenon DEF lockCursor
    <3> QED BY <2>2, <3>1
  <2> QED BY <2>2, <2>3, <2>4, <2>5, CallKeeps
<1>3. ASSUME unlockCursor PROVE CaptureIInv'
  <2>1. PICK m : m = [method |-> "unlock", generation |-> dartGen, handle |-> FALSE, wasConfirmed |-> dartConfirmed]
    BY Zenon
  <2>2. m \in CallMsgs /\ m.method = "unlock" /\ m.generation = dartGen
    BY <1>1, <2>1 DEF CallMsgs
  <2>3. Numbered(m, dartGen + 1)
    BY <2>2 DEF Numbered
  <2>4. m.wasConfirmed <=> dartConfirmed
    BY <2>1
  <2>5. dartGen' = dartGen + 1 /\ dartRequested' = (m.method = "lock") /\ dartConfirmed' = FALSE /\ Call(m)
    <3>1. dartGen' = dartGen + 1 /\ dartRequested' = FALSE /\ dartConfirmed' = FALSE /\ Call(m)
      BY <1>3, <2>1, Zenon DEF unlockCursor
    <3> QED BY <2>2, <3>1
  <2> QED BY <2>2, <2>3, <2>4, <2>5, CallKeeps
<1> QED BY <1>2, <1>3

----------------------------------------------------------------------------
(* Dart: the messages it hears.                                            *)

LEMMA Rest ==
  ASSUME NEW q \in Seq(DartMsgs), q # <<>>, NEW p, p = Tail(q)
  PROVE  /\ p \in Seq(DartMsgs) /\ Len(p) \in Nat /\ Len(q) = Len(p) + 1 /\ Head(q) = q[1] /\ q[1] \in DartMsgs
         /\ \A n \in 1 .. Len(p) : n + 1 \in 1 .. Len(q) /\ p[n] = q[n + 1]
         /\ 1 \in 1 .. Len(q)
<1>1. Len(q) \in Nat /\ Len(q) # 0
  BY EmptySeq
<1>2. p \in Seq(DartMsgs) /\ Len(p) = Len(q) - 1 /\ Head(q) = q[1] /\ Head(q) \in DartMsgs
  BY HeadTailProperties
<1>3. \A n \in 1 .. Len(p) : p[n] = q[n + 1]
  BY HeadTailProperties
<1>4. Len(p) \in Nat /\ Len(q) = Len(p) + 1 /\ 1 \in 1 .. Len(q) /\ \A n \in 1 .. Len(p) : n + 1 \in 1 .. Len(q)
  BY <1>1, <1>2
<1> QED BY <1>2, <1>3, <1>4, Zenon

\* Dart has heard the first message: x and v are its new flags.
\* The request (w) of generation d, which is v after the message m.
Stays(m, d, w, v) == (v <=> w) \/ (Fails(m) /\ m.generation = d)

LEMMA HeardOne ==
  ASSUME NEW q, NEW r, NEW g, NEW a, NEW b, NEW d, NEW c, NEW w, QueueOK(q, r, g, a, b, d, c, w), q # <<>>,
         NEW p, p = Tail(q), NEW x, NEW v, Follows(q[1], d, c, x),
         Stays(q[1], d, w, v)
  PROVE  QueueOK(p, r, g, a, b, d, x, v)
<1>1. q \in Seq(DartMsgs)
  BY Zenon DEF QueueOK
<1>2. /\ p \in Seq(DartMsgs) /\ Len(p) \in Nat /\ Len(q) = Len(p) + 1
      /\ \A n \in 1 .. Len(p) : n + 1 \in 1 .. Len(q) /\ p[n] = q[n + 1]
      /\ 1 \in 1 .. Len(q)
  BY <1>1, Rest
<1>3. \A i \in 1 .. Len(p) + 1 : Told(p, d, x, i) <=> Told(q, d, c, i + 1)
  <2>1. SUFFICES ASSUME NEW i \in 1 .. Len(p) + 1 PROVE Told(p, d, x, i) <=> Told(q, d, c, i + 1)
    BY Zenon
  <2> QED BY <1>1, <2>1, ToldRest
<1>4. Len(p) + 1 \in 1 .. Len(p) + 1 /\ \A i \in 1 .. Len(p) : i \in 1 .. Len(p) + 1
  BY <1>2
<1>5. \A i \in 1 .. Len(p) : p[i].generation <= b
  BY <1>2, Zenon DEF QueueOK
<1>6. \A i \in 1 .. Len(p) : Fails(p[i]) => ~(r /\ g = p[i].generation)
  BY <1>2, Zenon DEF QueueOK
<1>7. \A i \in 1 .. Len(p) : Tells(p[i]) /\ p[i].generation = d => v
  <2>1. ASSUME NEW i \in 1 .. Len(p), Tells(p[i]), p[i].generation = d PROVE v
    <3>1. w /\ p[i] = q[i + 1] /\ i + 1 \in 1 .. Len(q)
      BY <1>2, <2>1, Zenon DEF QueueOK
    <3>2. i + 1 \in 1 + 1 .. Len(q)
      BY <1>2, <2>1
    <3>3. ~(Fails(q[1]) /\ q[1].generation = d)
      BY <1>2, <2>1, <3>1, <3>2, Zenon DEF QueueOK, Final
    <3> QED BY <3>1, <3>3, Zenon DEF Stays
  <2> QED BY <2>1, Zenon
<1>8. \A i \in 1 .. Len(p) : FoundAt(p, d, x, i)
  <2>1. ASSUME NEW i \in 1 .. Len(p) PROVE FoundAt(p, d, x, i)
    <3>1. FoundAt(q, d, c, i + 1) /\ p[i] = q[i + 1] /\ (Told(p, d, x, i) <=> Told(q, d, c, i + 1))
      BY <1>2, <1>3, <1>4, <2>1, Zenon DEF QueueOK
    <3> QED BY <3>1, Zenon DEF FoundAt
  <2> QED BY <2>1, Zenon
<1>9. Final(p)
  <2>1. ASSUME NEW i \in 1 .. Len(p), NEW j \in i + 1 .. Len(p), Fails(p[i]), Tells(p[j])
        PROVE  p[i].generation # p[j].generation
    <3>1. j \in 1 .. Len(p) /\ j + 1 \in (i + 1) + 1 .. Len(q)
      BY <1>2, <2>1
    <3>2. p[i] = q[i + 1] /\ p[j] = q[j + 1] /\ i + 1 \in 1 .. Len(q)
      BY <1>2, <2>1, <3>1, Zenon
    <3> QED BY <2>1, <3>1, <3>2, Zenon DEF QueueOK, Final
  <2> QED BY <2>1, Zenon DEF Final
<1>10. r /\ g = d => v
  BY <1>2, Zenon DEF QueueOK, Stays
<1>11. Told(p, d, x, Len(p) + 1) <=> (r /\ a /\ g = d)
  <2>1. Told(q, d, c, Len(q) + 1) <=> (r /\ a /\ g = d)
    BY Zenon DEF QueueOK
  <2> QED BY <1>2, <1>3, <1>4, <2>1, Zenon
<1> QED BY <1>2, <1>5, <1>6, <1>7, <1>8, <1>9, <1>10, <1>11, Zenon DEF QueueOK

LEMMA ToldFirst ==
  ASSUME NEW q, NEW d, NEW c
  PROVE  Told(q, d, c, 1) <=> c
<1>1. \A j \in 1 .. 1 - 1 : FALSE
  OBVIOUS
<1> QED BY <1>1, Zenon DEF Told

\* What the three handlers do to the flags of Dart.
Hears(m, x, v, y) ==
  /\ Sets(m, dartGen) => (x <=> m.locked) /\ (y <=> m.locked)
  /\ ~Sets(m, dartGen) => (x <=> dartConfirmed) /\ (m.type # "reply" => (y <=> published))
  /\ (v <=> dartRequested) \/ (Fails(m) /\ m.generation = dartGen)
  /\ m.type = "reply" =>
       (y <=> published /\ ~(m.wasConfirmed /\ ((Fails(m) /\ m.generation = dartGen)
                                                \/ (m.method = "unlock" /\ dartGen = m.generation + 1))))
  /\ Sets(m, dartGen) => dartRequested
  /\ x => v

LEMMA ReceivesHears ==
  ASSUME CaptureIInv, DartReceives
  PROVE  /\ toDart # <<>> /\ toDart' = Tail(toDart) /\ Hears(toDart[1], dartConfirmed', dartRequested', published')
         /\ {dartConfirmed', dartRequested', published'} \subseteq BOOLEAN
         /\ dartGen' = dartGen /\ lostMotion' = FALSE
<1>1. /\ Flags /\ QueueOK(toDart, requested, generation, active, base, dartGen, dartConfirmed, dartRequested)
      /\ toDart \in Seq(DartMsgs) /\ toDart # <<>> /\ toDart' = Tail(toDart)
  BY Zenon DEF CaptureIInv, QueueOK, DartReceives
<1>2. PICK m \in DartMsgs : m = toDart[1] /\ m = Head(toDart) /\ 1 \in 1 .. Len(toDart)
  BY <1>1, Rest, Zenon
<1>3. /\ m.type = "motion" /\ m.generation = dartGen => dartConfirmed
      /\ Fails(m) /\ m.generation = dartGen => ~dartConfirmed
  <2>1. FoundAt(toDart, dartGen, dartConfirmed, 1)
    BY <1>1, <1>2, Zenon DEF QueueOK
  <2>2. Told(toDart, dartGen, dartConfirmed, 1) <=> dartConfirmed
    BY ToldFirst
  <2> QED BY <1>2, <2>1, <2>2, Zenon DEF FoundAt
<1>4. Tells(m) /\ m.generation = dartGen => dartRequested
  BY <1>1, <1>2, Zenon DEF QueueOK
<1>5. /\ dartRequested \in BOOLEAN /\ dartConfirmed \in BOOLEAN /\ published \in BOOLEAN /\ lostMotion = FALSE
      /\ dartConfirmed => dartRequested
  BY <1>1, Zenon DEF Flags
<1>6. CASE m.type = "state" /\ HandleState(m)
  <2>1. ~Fails(m) /\ m.type # "reply" /\ Tells(m) /\ (Sets(m, dartGen) <=> m.generation = dartGen)
    BY <1>6 DEF Fails, Tells, Sets
  <2>2. CASE m.generation = dartGen
    <3>1. /\ dartConfirmed' = m.locked /\ published' = m.locked /\ UNCHANGED <<dartGen, dartRequested, lostMotion>>
          /\ dartRequested
      BY <1>4, <1>6, <2>1, <2>2, Zenon DEF HandleState, Current
    <3>2. m.locked \in BOOLEAN
      BY <1>2, <1>6, Kinds
    <3>3. {dartConfirmed', dartRequested', published'} \subseteq BOOLEAN
      BY <1>5, <3>1, <3>2
    <3> QED BY <1>1, <1>2, <1>5, <2>1, <2>2, <3>1, <3>3, Zenon DEF Hears
  <2>3. CASE m.generation # dartGen
    <3>1. UNCHANGED <<dartGen, dartRequested, dartConfirmed, published, lostMotion>>
      BY <1>6, <2>3, Zenon DEF HandleState, Current, dart
    <3>2. {dartConfirmed', dartRequested', published'} \subseteq BOOLEAN
      BY <1>5, <3>1
    <3> QED BY <1>1, <1>2, <1>5, <2>1, <2>3, <3>1, <3>2, Zenon DEF Hears
  <2> QED BY <2>2, <2>3
<1>7. CASE m.type = "motion" /\ HandleMotion(m)
  <2>1. ~Fails(m) /\ m.type # "reply" /\ ~Sets(m, dartGen)
    BY <1>7 DEF Fails, Sets
  <2>2. UNCHANGED <<dartGen, dartRequested, dartConfirmed, published>> /\ lostMotion' = FALSE
    BY <1>3, <1>5, <1>7, Zenon DEF HandleMotion, Current, dart
  <2>3. {dartConfirmed', dartRequested', published'} \subseteq BOOLEAN
    BY <1>5, <2>2
  <2> QED BY <1>1, <1>2, <1>5, <2>1, <2>2, <2>3, Zenon DEF Hears
<1>8. CASE m.type = "reply" /\ HandleReply(m)
  <2>1. ~Sets(m, dartGen) /\ (Fails(m) <=> m.method = "lock" /\ ~m.ok)
    BY <1>8 DEF Fails, Sets
  <2>2. /\ dartRequested' = (dartRequested /\ ~(m.method = "lock" /\ ~m.ok /\ m.generation = dartGen))
        /\ dartConfirmed' = (dartConfirmed /\ ~(m.method = "lock" /\ ~m.ok /\ m.generation = dartGen))
        /\ published' = (published /\ ~(m.wasConfirmed /\ ((m.method = "lock" /\ ~m.ok /\ m.generation = dartGen)
                                                           \/ (m.method = "unlock" /\ dartGen = m.generation + 1))))
        /\ dartGen' = dartGen /\ lostMotion' = lostMotion
    BY <1>8, Zenon DEF HandleReply
  <2>3. {dartConfirmed', dartRequested', published'} \subseteq BOOLEAN
    BY <2>2
  <2> QED BY <1>1, <1>2, <1>3, <1>5, <1>8, <2>1, <2>2, <2>3, Zenon DEF Hears
<1> QED BY <1>2, <1>6, <1>7, <1>8, Zenon DEF DartReceives

LEMMA ReceivesKeeps ==
  ASSUME CaptureIInv, DartReceives
  PROVE  CaptureIInv'
<1>1. /\ CallsOK /\ Flags /\ SenderOK /\ NativeOK(requested, generation, active, base)
      /\ QueueOK(toDart, requested, generation, active, base, dartGen, dartConfirmed, dartRequested)
      /\ toDart \in Seq(DartMsgs) /\ (~overlapped => OneCall)
  BY Zenon DEF CaptureIInv, QueueOK
<1>2. PICK m, x, v, y : m = toDart[1] /\ x = dartConfirmed' /\ v = dartRequested' /\ y = published'
  BY Zenon
<1>3. /\ toDart # <<>> /\ toDart' = Tail(toDart) /\ Hears(m, x, v, y)
      /\ {x, v, y} \subseteq BOOLEAN
      /\ dartGen' = dartGen /\ lostMotion' = FALSE
  BY <1>2, ReceivesHears, Zenon
<1>4. UNCHANGED <<toNative, generation, requested, active, relative_sender, overlapped, calls, natives>> /\ base' = base
  BY <1>3, Zenon DEF DartReceives, native, base
<1>5. x \in BOOLEAN /\ v \in BOOLEAN /\ y \in BOOLEAN
  BY <1>3
<1>6. PICK p : p = Tail(toDart)
  BY Zenon
<1>7. /\ p \in Seq(DartMsgs) /\ Len(p) \in Nat /\ Len(toDart) = Len(p) + 1 /\ m \in DartMsgs
      /\ \A n \in 1 .. Len(p) : n + 1 \in 1 .. Len(toDart) /\ p[n] = toDart[n + 1]
      /\ 1 \in 1 .. Len(toDart)
  BY <1>1, <1>2, <1>3, <1>6, Rest, Zenon
<1>8. Flags' /\ SenderOK'
  <2>1. x => v
    BY <1>3, Zenon DEF Hears
  <2> QED BY <1>1, <1>2, <1>3, <1>4, <1>5, <2>1, Zenon DEF Flags, SenderOK, SenderOfPresentCapture
<1>9. CallsOK'
  <2>1. ASSUME toNative # <<>> PROVE v <=> dartRequested
    <3>1. Len(toNative) \in Nat /\ Len(toNative) # 0 /\ dartGen \in Nat
      BY <1>1, <2>1, EmptySeq DEF CallsOK
    <3>2. m.generation <= base /\ m.generation \in Nat
      BY <1>1, <1>2, <1>7, Kinds, Zenon DEF QueueOK
    <3>3. m.generation # dartGen
      BY <3>1, <3>2 DEF base
    <3> QED BY <1>3, <3>3, Zenon DEF Hears
  <2>2. toNative # <<>> => (v <=> toNative[Len(toNative)].method = "lock")
    BY <1>1, <2>1, Zenon DEF CallsOK
  <2> QED BY <1>1, <1>2, <1>3, <1>4, <2>2, Zenon DEF CallsOK, Numbered
<1>10. /\ NativeOK(requested, generation, active, base)'
       /\ QueueOK(toDart, requested, generation, active, base, dartGen, dartConfirmed, dartRequested)'
  <2>1. Follows(toDart[1], dartGen, dartConfirmed, x) /\ Stays(toDart[1], dartGen, dartRequested, v)
    BY <1>2, <1>3, Zenon DEF Hears, Follows, Stays
  <2>2. QueueOK(p, requested, generation, active, base, dartGen, x, v)
    <3>1. toDart # <<>> /\ QueueOK(toDart, requested, generation, active, base, dartGen, dartConfirmed, dartRequested)
      BY <1>1, <1>3, Zenon
    <3> QED BY <3>1, <1>6, <2>1, HeardOne, Zenon
  <2>3. QueueOK(toDart', requested', generation', active', base', dartGen', dartConfirmed', dartRequested')
    BY <1>2, <1>3, <1>4, <1>6, <2>2, Zenon
  <2>4. NativeOK(requested', generation', active', base')
    BY <1>1, <1>4, Zenon
  <2> QED BY <2>3, <2>4, Primed
<1>11. ASSUME ~overlapped PROVE OneCall'
  <2>1. OneCall
    BY <1>1, <1>11, Zenon
  <2>2. /\ Len(toNative) <= 1
        /\ \A i \in 1 .. Len(p) : p[i].type = "reply" => toNative = <<>> /\ Awaited(p[i])
        /\ \A i, j \in 1 .. Len(p) : p[i].type = "reply" /\ p[j].type = "reply" => i = j
        /\ \A i \in 1 .. Len(toNative) : Awaited(toNative[i])
    <3>1. ASSUME NEW i \in 1 .. Len(p), NEW j \in 1 .. Len(p), i + 1 = j + 1 PROVE i = j
      BY <1>7, <3>1
    <3>2. \A i, j \in 1 .. Len(p) : p[i].type = "reply" /\ p[j].type = "reply" => i = j
      BY <1>7, <2>1, <3>1, ZenonT(90) DEF OneCall
    <3> QED BY <1>7, <2>1, <3>2, Zenon DEF OneCall
  <2>3. ASSUME NEW z, Awaited(z), m.type # "reply"
        PROVE  /\ Numbered(z, dartGen) /\ (z.method = "lock" => ~z.wasConfirmed)
               /\ z.method = "unlock" => ~v /\ (y <=> z.wasConfirmed)
    <3>1. ~Fails(m)
      BY <2>3 DEF Fails
    <3>2. v <=> dartRequested
      BY <1>3, <3>1, Zenon DEF Hears
    <3>3. ~dartRequested => (y <=> published)
      BY <1>3, <2>3, Zenon DEF Hears
    <3> QED BY <2>3, <3>2, <3>3, Zenon DEF Awaited
  <2>4. ASSUME NEW z, Awaited(z), m.type # "reply" PROVE Awaited(z)'
    <3>1. /\ Numbered(z, dartGen) /\ (z.method = "lock" => ~z.wasConfirmed)
          /\ z.method = "unlock" => ~v /\ (y <=> z.wasConfirmed)
      BY <2>3, <2>4, Zenon
    <3>2. Numbered(z, dartGen')
      BY <1>3, <3>1, Zenon
    <3>3. Numbered(z, dartGen)'
      BY <3>2 DEF Numbered
    <3> QED BY <1>2, <3>1, <3>3, Zenon DEF Awaited
  <2>5. CASE m.type # "reply"
    <3>1. \/ \E i \in 1 .. Len(toNative) : toNative[i].method = "unlock"
          \/ \E i \in 1 .. Len(p) : p[i].type = "reply" /\ p[i].method = "unlock"
          \/ y <=> x
      <4>1. CASE \E i \in 1 .. Len(toNative) : toNative[i].method = "unlock"
        BY <4>1
      <4>2. ASSUME NEW i \in 1 .. Len(toDart), toDart[i].type = "reply", toDart[i].method = "unlock"
            PROVE  \E j \in 1 .. Len(p) : p[j].type = "reply" /\ p[j].method = "unlock"
        <5>1. i # 1
          BY <1>2, <2>5, <4>2, Zenon
        <5>2. i - 1 \in 1 .. Len(p) /\ (i - 1) + 1 = i
          BY <1>7, <4>2, <5>1
        <5>3. p[i - 1] = toDart[i]
          BY <1>7, <5>2, Zenon
        <5> QED BY <4>2, <5>2, <5>3, Zenon
      <4>3. CASE published <=> dartConfirmed
        BY <1>3, <2>5, <4>3, Zenon DEF Hears
      <4> QED BY <2>1, <4>1, <4>2, <4>3, Zenon DEF OneCall
    <3>2. \A i \in 1 .. Len(p) : p[i].type = "reply" => toNative = <<>> /\ Awaited(p[i])'
      BY <2>2, <2>4, <2>5, Zenon
    <3>3. \A i \in 1 .. Len(toNative) : Awaited(toNative[i])'
      <4>1. \A i \in 1 .. Len(toNative) :
              /\ Numbered(toNative[i], dartGen) /\ (toNative[i].method = "lock" => ~toNative[i].wasConfirmed)
              /\ toNative[i].method = "unlock" => ~v /\ (y <=> toNative[i].wasConfirmed)
        BY <2>2, <2>3, <2>5, Zenon
      <4> QED BY <1>2, <1>3, <1>4, <4>1, Zenon DEF Awaited, Numbered
    <3>4. toDart' = p /\ toNative' = toNative
      BY <1>3, <1>4, <1>6, Zenon
    <3> QED BY <1>2, <2>2, <3>1, <3>2, <3>3, <3>4, Zenon DEF OneCall
  <2>6. CASE m.type = "reply"
    <3>1. toNative = <<>> /\ Awaited(m)
      BY <1>2, <1>7, <2>1, <2>6, Zenon DEF OneCall
    <3>2. \A i \in 1 .. Len(p) : p[i].type # "reply"
      <4>1. \A i \in 1 .. Len(p) : i + 1 # 1
        BY <1>7
      <4> QED BY <1>2, <1>7, <2>1, <2>6, <4>1, Zenon DEF OneCall
    <3>3. Len(toNative) = 0 /\ \A i \in 1 .. Len(toNative) : FALSE
      BY <3>1
    <3>4. m.method \in {"lock", "unlock"}
      BY <1>7, <2>6 DEF DartMsgs, States, Motions, Replies
    <3>5. y <=> x
      <4>1. ~Sets(m, dartGen)
        BY <2>6 DEF Sets
      <4>2. /\ x <=> dartConfirmed
            /\ y <=> published /\ ~(m.wasConfirmed /\ ((Fails(m) /\ m.generation = dartGen)
                                                        \/ (m.method = "unlock" /\ dartGen = m.generation + 1)))
        BY <1>3, <2>6, <4>1, Zenon DEF Hears
      <4>3. CASE m.method = "lock"
        <5>1. published <=> dartConfirmed
          <6>1. \A i \in 1 .. Len(toDart) : toDart[i].type = "reply" => toDart[i] = m
            BY <1>2, <1>7, <2>1, <2>6, Zenon DEF OneCall
          <6>2. m.method # "unlock"
            BY <4>3
          <6> QED BY <2>1, <3>3, <6>1, <6>2, Zenon DEF OneCall
        <5> QED BY <3>1, <4>2, <4>3, <5>1, Zenon DEF Awaited
      <4>4. CASE m.method = "unlock"
        <5>1. dartGen = m.generation + 1
          BY <3>1, <4>4 DEF Awaited, Numbered
        <5>2. ~dartConfirmed
          BY <1>1, <3>1, <4>4, Zenon DEF Awaited, Flags
        <5> QED BY <3>1, <4>2, <4>4, <5>1, <5>2, Zenon DEF Awaited
      <4> QED BY <3>4, <4>3, <4>4
    <3>6. toDart' = p /\ toNative' = toNative
      BY <1>3, <1>4, <1>6, Zenon
    <3>7. /\ Len(toNative') <= 1 /\ \A i \in 1 .. Len(toNative') : FALSE
          /\ \A i \in 1 .. Len(toDart') : toDart'[i].type # "reply"
          /\ published' <=> dartConfirmed'
      <4>1. Len(toNative) <= 1 /\ (\A i \in 1 .. Len(toNative) : FALSE)
        BY <2>2, <3>3, Zenon
      <4>2. published' <=> dartConfirmed'
        BY <1>2, <1>5, <3>5, SMT
      <4>3. Len(toNative') <= 1 /\ (\A i \in 1 .. Len(toNative') : FALSE)
        BY <3>6, <4>1, Zenon
      <4>4. \A i \in 1 .. Len(toDart') : toDart'[i].type # "reply"
        BY <3>2, <3>6, Zenon
      <4> QED BY <4>2, <4>3, <4>4, Zenon
    <3> QED BY <3>7, Zenon DEF OneCall
  <2> QED BY <2>5, <2>6
<1> QED BY <1>4, <1>8, <1>9, <1>10, <1>11, Zenon DEF CaptureIInv

----------------------------------------------------------------------------
(* The theorems.                                                           *)

LEMMA InitCapture == Init => CaptureIInv
<1>1. SUFFICES ASSUME Init PROVE CaptureIInv
  OBVIOUS
<1>2. Flags /\ SenderOK
  BY <1>1 DEF Init, Flags, SenderOK, SenderOfPresentCapture
<1>3. base = 0 /\ Len(toDart) = 0 /\ Len(toNative) = 0 /\ \A i \in 1 .. 0 : FALSE
  <2>1. toNative = <<>> /\ toDart = <<>> /\ dartGen = 0
    BY <1>1, Zenon DEF Init
  <2>2. Len(toNative) = 0 /\ Len(toDart) = 0
    BY <2>1
  <2>3. dartGen - Len(toNative) = 0
    <3>1. 0 - 0 = 0
      OBVIOUS
    <3> QED BY <2>1, <2>2, <3>1, Zenon
  <2>4. \A i \in 1 .. 0 : FALSE
    OBVIOUS
  <2> QED BY <2>2, <2>3, <2>4, Zenon DEF base
<1>4. NativeOK(requested, generation, active, base)
  <2>1. requested = FALSE /\ active = FALSE /\ generation = 0
    BY <1>1, Zenon DEF Init
  <2>2. generation \in Nat /\ base \in Nat /\ generation <= base
    BY <1>3, <2>1
  <2> QED BY <2>1, <2>2, Zenon DEF NativeOK
<1>7. CallsOK
  <2>1. toNative = <<>> /\ dartGen = 0 /\ calls = 0
    BY <1>1, Zenon DEF Init
  <2> QED BY <1>3, <2>1, CaptureAssumption DEF CallsOK
<1>5. QueueOK(toDart, requested, generation, active, base, dartGen, dartConfirmed, dartRequested)
  <2>1. toDart \in Seq(DartMsgs) /\ requested = FALSE /\ dartConfirmed = FALSE
    BY <1>1 DEF Init
  <2>2. ~Told(toDart, dartGen, dartConfirmed, Len(toDart) + 1)
    <3>1. \A i \in 1 .. (Len(toDart) + 1) - 1 : FALSE
      BY <1>3
    <3> QED BY <2>1, <3>1, Zenon DEF Told
  <2> QED BY <1>3, <2>1, <2>2, Zenon DEF QueueOK, Final
<1>6. OneCall
  BY <1>1, <1>3 DEF Init, OneCall
<1> QED BY <1>2, <1>4, <1>5, <1>6, <1>7, Zenon DEF CaptureIInv

LEMMA NextCapture == CaptureIInv /\ [Next]_vars => CaptureIInv'
<1>1. SUFFICES ASSUME CaptureIInv, [Next]_vars PROVE CaptureIInv'
  OBVIOUS
<1>2. CASE UNCHANGED vars
  <2>1. UNCHANGED <<toNative, dart, ghosts, calls>> /\ UNCHANGED <<toDart, generation, requested, active, relative_sender>>
    BY <1>2, Zenon DEF vars, native
  <2>2. SenderOK'
    BY <1>1, <2>1, Natively, Zenon DEF SenderOK, SenderOfPresentCapture
  <2>3. Holds(toDart', requested', generation', active', base)
    BY <1>1, <2>1, Natively, Zenon
  <2> QED BY <1>1, <2>1, <2>2, <2>3, NativeKeeps, Zenon
<1> QED
  BY <1>1, <1>2, CallsKeep, ReceivesKeeps, HandleKeeps, ConfirmKeeps, RevocationKeeps, MotionKeeps, Zenon
  DEF Next, Revoke, Timeout

\* Type correctness of the pointer capture and its two channels.
THEOREM TypeCorrect == Spec => []TypeOK
<1>1. CaptureIInv => TypeOK
  <2>1. SUFFICES ASSUME CaptureIInv PROVE TypeOK
    OBVIOUS
  <2>2. /\ CallsOK /\ Flags /\ SenderOK /\ NativeOK(requested, generation, active, base) /\ toDart \in Seq(DartMsgs)
    BY <2>1, Zenon DEF CaptureIInv, QueueOK
  <2>3. base \in Nat /\ base <= dartGen /\ dartGen \in 0 .. MaxCalls
    BY <2>2, CaptureAssumption DEF CallsOK, NativeOK, base
  <2>4. generation \in 0 .. MaxCalls
    BY <2>2, <2>3, CaptureAssumption DEF NativeOK
  <2>5. relative_sender \in 0 .. MaxCalls
    BY <2>2, <2>4, CaptureAssumption DEF SenderOK, SenderOfPresentCapture
  <2>6. {dartRequested, dartConfirmed, published, requested, active, overlapped, lostMotion} \subseteq BOOLEAN
    BY <2>2 DEF Flags, NativeOK
  <2>7. \A i \in 1 .. Len(toNative) : toNative[i].method \in {"lock", "unlock"}
    <3>1. \A i \in 1 .. Len(toNative) : toNative[i] \in CallMsgs
      BY <2>2 DEF CallsOK
    <3>2. \A z \in CallMsgs : z.method \in {"lock", "unlock"}
      BY DEF CallMsgs
    <3> QED BY <3>1, <3>2, Zenon
  <2>8. \A i \in 1 .. Len(toDart) : toDart[i].type \in {"state", "motion", "reply"}
    <3>1. \A i \in 1 .. Len(toDart) : toDart[i] \in DartMsgs
      BY <2>2
    <3> QED BY <3>1, Kinds, Zenon
  <2> QED BY <2>3, <2>4, <2>5, <2>6, <2>7, <2>8 DEF TypeOK
<1> QED BY <1>1, InitCapture, NextCapture, PTL DEF Spec

\* The pointer capture of the Linux viewer, however calls, answers, confirmations,
\* revocations and motions overlap: a capture never outlives its unlock, nor a relative
\* sender its capture; once all is heard Dart and LinuxPointerCapture agree; no motion
\* overtakes its confirmation; and pointerCaptureChanges ends with the native state as
\* long as the application awaits its calls.
THEOREM CapturesAreSound == Spec => []CaptureSound
<1>1. CaptureIInv => CaptureSound
  <2>1. SUFFICES ASSUME CaptureIInv PROVE CaptureSound
    OBVIOUS
  <2>2. /\ CallsOK /\ Flags /\ SenderOK /\ NativeOK(requested, generation, active, base)
        /\ QueueOK(toDart, requested, generation, active, base, dartGen, dartConfirmed, dartRequested)
        /\ ~overlapped => OneCall
    BY <2>1, Zenon DEF CaptureIInv
  <2>3. ASSUME Quiet
        PROVE  /\ requested => generation = dartGen /\ dartRequested
               /\ dartConfirmed <=> active
               /\ Len(toNative) = 0 /\ Len(toDart) = 0 /\ \A i \in 1 .. 0 : FALSE
    <3>1. Len(toNative) = 0 /\ Len(toDart) = 0 /\ toDart = <<>>
      BY <2>3 DEF Quiet
    <3>2. base = dartGen
      BY <2>2, <3>1 DEF base, CallsOK
    <3>3. requested => generation = dartGen /\ dartRequested
      BY <2>2, <3>2, Zenon DEF NativeOK, QueueOK
    <3>4. Told(toDart, dartGen, dartConfirmed, 1) <=> dartConfirmed
      BY ToldFirst
    <3>5. Len(toDart) + 1 = 1
      BY <3>1
    <3>6. dartConfirmed <=> (requested /\ active /\ generation = dartGen)
      BY <2>2, <3>4, <3>5, Zenon DEF QueueOK
    <3>7. active => requested
      BY <2>2, Zenon DEF NativeOK
    <3>8. \A i \in 1 .. 0 : FALSE
      OBVIOUS
    <3> QED BY <3>1, <3>3, <3>6, <3>7, <3>8, Zenon
  <2>4. NoStrandedCapture /\ ConfirmationAgrees
    BY <2>3, Zenon DEF NoStrandedCapture, ConfirmationAgrees
  <2>5. SenderOfPresentCapture /\ NoMotionBeforeConfirmation
    BY <2>2, Zenon DEF SenderOK, Flags, NoMotionBeforeConfirmation
  <2>6. PublishedAgreesWhenAwaited
    BY <2>2, <2>3, Zenon DEF PublishedAgreesWhenAwaited, OneCall
  <2> QED BY <2>4, <2>5, <2>6 DEF CaptureSound
<1> QED BY <1>1, InitCapture, NextCapture, PTL DEF Spec

=============================================================================
