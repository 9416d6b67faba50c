----------------------------- MODULE MertProofs -----------------------------
(***************************************************************************)
(* Proofs about Mert for every number of callers, every size of rt_cfg and *)
(* every buffer of a column dump.                                          *)
(***************************************************************************)
EXTENDS Mert, SequenceTheorems, FiniteSetTheorems, TLAPS

\* The requests not answered yet, the one in hand first.
Pending == IF hand = NoReq THEN requests ELSE <<hand>> \o requests

(* What an entry of the configuration holds once some requests are handled *)

\* What a request writes into entry t of rt_cfg, and into mgmt_pasid.
None == -1
Sets(r, t) == r.op = "SET_RUNTIME_CONFIG" /\ r.ok /\ r.args[1] = t
Gets(r, t) == r.op = "GET_RUNTIME_CONFIG" /\ r.ok /\ r.args[1] = t
Assigns(r) == r.op = "ASSIGN_MGMT_PASID" /\ r.ok
CfgWrite(r, t) == IF Sets(r, t) THEN r.args[2] ELSE None
PasidWrite(r) == IF Assigns(r) THEN r.args[1] ELSE None
CfgWrites(p, t) == [i \in 1 .. Len(p) |-> CfgWrite(p[i], t)]
PasidWrites(p) == [i \in 1 .. Len(p) |-> PasidWrite(p[i])]

\* v is what the n-th request finds where w writes and base was before.
Seen(w, base, n, v) ==
    /\ (\A k \in 1 .. (n - 1) : w[k] = None) => v = base
    /\ \A j \in 1 .. (n - 1) :
          w[j] # None /\ (\A k \in (j + 1) .. (n - 1) : w[k] = None) => v = w[j]

\* Once all of p is handled the configuration is the one wanted, and each request
\* in p to read it finds what it is due.
Settled(p, cfg, pasid, want, want_pasid) ==
    /\ \A t \in Types :
          /\ Seen(CfgWrites(p, t), cfg[t], Len(p) + 1, want[t])
          /\ \A i \in 1 .. Len(p) :
                Gets(p[i], t) => Seen(CfgWrites(p, t), cfg[t], i, p[i].due)
    /\ Seen(PasidWrites(p), pasid, Len(p) + 1, want_pasid)

(* The inductive invariant                                                 *)

\* Requests p and replies rs are those of the calls cl, and each of one call alone.
Owned(p, rs, cl) ==
    /\ \A i \in 1 .. Len(p) : cl[p[i].by] = p[i]
    /\ \A i, j \in 1 .. Len(p) : p[i].by = p[j].by => i = j
    /\ \A i \in 1 .. Len(rs) : cl[rs[i].req.by] = rs[i].req
    /\ \A i, j \in 1 .. Len(rs) : rs[i].req.by = rs[j].req.by => i = j
    /\ \A i \in 1 .. Len(p), j \in 1 .. Len(rs) : p[i].by # rs[j].req.by

\* Each call has a request or a reply, or is a registration the firmware keeps.
Followed(p, rs, cl, registered) ==
    /\ \A c \in Callers : cl[c] # NoReq =>
          \/ \E i \in 1 .. Len(p) : p[i].by = c
          \/ \E i \in 1 .. Len(rs) : rs[i].req.by = c
          \/ Async(cl[c]) /\ registered
    /\ \A i \in 1 .. Len(rs) : ~Async(rs[i].req)
    /\ registered => \E c \in Callers : Async(cl[c])

\* What a request writes is a value of the place it writes to.
Lawful(r) ==
    /\ r.op = "SET_RUNTIME_CONFIG" /\ r.ok => r.args[2] \in Values
    /\ r.op = "ASSIGN_MGMT_PASID" /\ r.ok => r.args[1] \in Pasids

\* The firmware has a registration of a driver that is still there.
Held == async_registered /\ ~left

\* Nothing is left with a firmware that is not alive.
Quiet == ~fw_alive => ~async_registered /\ requests = <<>> /\ hand = NoReq

\* Between column dumps the loop's state is at rest; in one, the bytes written are
\* the first ones of the buffer.
DumpInv ==
    /\ done \in Nat
    /\ ~Dumping => done = 0 /\ wrote = {}
    /\ Dumping => done <= size /\ wrote = addr .. (addr + done - 1)

\* What RepliesReadable, ConfigAsWanted and DumpExact say of a single reply.
Readable(rep) == DriverStruct(rep.req.op) = [size |-> rep.size, at |-> rep.at]
AsDue(rep) ==
    rep.req.op = "GET_RUNTIME_CONFIG" /\ rep.req.ok /\ rep.req.args[1] \in Types =>
        rep.status = "SUCCESS" /\ rep.value = rep.req.due
Exact(rep) ==
    rep.req.op = "COL_STATUS" /\ rep.req.ok =>
        /\ rep.req.args[1] .. (rep.req.args[1] + rep.value - 1) \subseteq rep.wrote
        /\ rep.wrote \subseteq rep.req.args[1] .. (rep.req.args[1] + rep.req.args[2] - 1)
        /\ rep.status = "SUCCESS" <=>
             rep.value = rep.req.args[2] /\ rep.req.args[2] # 0 /\ rep.req.args[1] # 0
Good(rep) == Readable(rep) /\ AsDue(rep) /\ Exact(rep)

Flags ==
    /\ fw_alive \in BOOLEAN /\ fw_suspended \in BOOLEAN
    /\ async_registered \in BOOLEAN /\ left \in BOOLEAN
Configs ==
    /\ rt_cfg \in [Types -> Values] /\ wanted \in [Types -> Values]
    /\ mgmt_pasid \in Pasids /\ wanted_pasid \in Pasids
Queues ==
    /\ requests \in Seq(Requests) /\ replies \in Seq(Replies)
    /\ hand \in Requests \cup {NoReq} /\ call \in [Callers -> Requests \cup {NoReq}]

IInv ==
    /\ Flags /\ Configs /\ Queues /\ Quiet /\ DumpInv
    /\ Owned(Pending, replies, call)
    /\ Followed(Pending, replies, call, Held)
    /\ \A i \in 1 .. Len(Pending) : Lawful(Pending[i])
    /\ Settled(Pending, rt_cfg, mgmt_pasid, wanted, wanted_pasid)
    /\ \A i \in 1 .. Len(replies) : Good(replies[i])
-----------------------------------------------------------------------------
(* Sequences                                                               *)

\* A queue behind which e is appended.
LEMMA AppendFacts ==
    ASSUME NEW S, NEW s \in Seq(S), NEW e \in S
    PROVE  /\ Append(s, e) \in Seq(S)
           /\ Len(s) \in Nat /\ Len(Append(s, e)) = Len(s) + 1
           /\ \A i \in 1 .. Len(s) : Append(s, e)[i] = s[i] /\ s[i] \in S
           /\ Append(s, e)[Len(s) + 1] = e
<1>1. Len(s) \in Nat /\ \A i \in 1 .. Len(s) : s[i] \in S
  BY ElementOfSeq, LenProperties
<1> QED BY <1>1, AppendProperties

\* A queue that loses its oldest member.
LEMMA TailFacts ==
    ASSUME NEW S, NEW s \in Seq(S), s # <<>>
    PROVE  /\ Tail(s) \in Seq(S) /\ Head(s) = s[1] /\ s[1] \in S
           /\ Len(s) \in Nat \ {0} /\ Len(s) = Len(Tail(s)) + 1
           /\ Len(Tail(s)) \in Nat
           /\ \A i \in 1 .. Len(Tail(s)) : Tail(s)[i] = s[i + 1]
<1>1. Len(s) \in Nat \ {0} /\ s[1] \in S
  BY EmptySeq, ElementOfSeq
<1>2. /\ Tail(s) \in Seq(S) /\ Len(Tail(s)) = Len(s) - 1
      /\ \A i \in 1 .. Len(Tail(s)) : Tail(s)[i] = s[i + 1]
  BY HeadTailProperties
<1>3. Head(s) = s[1]
  OBVIOUS
<1> QED BY <1>1, <1>2, <1>3, LenProperties

\* A queue in front of which e is put.
LEMMA ConsFacts ==
    ASSUME NEW S, NEW s \in Seq(S), NEW e \in S
    PROVE  /\ <<e>> \o s \in Seq(S) /\ Len(s) \in Nat
           /\ Len(<<e>> \o s) = Len(s) + 1
           /\ (<<e>> \o s)[1] = e
           /\ \A i \in 1 .. Len(s) : (<<e>> \o s)[i + 1] = s[i]
<1>1. <<e>> \in Seq(S) /\ Len(<<e>>) = 1 /\ <<e>>[1] = e
  OBVIOUS
<1>2. Len(s) \in Nat
  BY LenProperties
<1>3. /\ <<e>> \o s \in Seq(S) /\ Len(<<e>> \o s) = 1 + Len(s)
      /\ \A i \in 1 .. (1 + Len(s)) :
            (<<e>> \o s)[i] = IF i <= 1 THEN <<e>>[i] ELSE s[i - 1]
  BY <1>1, ConcatProperties
<1>4. ASSUME NEW i \in 1 .. Len(s) PROVE (<<e>> \o s)[i + 1] = s[i]
  <2>1. i + 1 \in 1 .. (1 + Len(s)) /\ ~(i + 1 <= 1) /\ (i + 1) - 1 = i
    BY <1>2
  <2> QED BY <1>3, <2>1
<1>5. (<<e>> \o s)[1] = e
  BY <1>1, <1>2, <1>3
<1> QED BY <1>2, <1>3, <1>4, <1>5

\* Taking the oldest member into the hand does not change the order.
LEMMA ConsHeadTail ==
    ASSUME NEW S, NEW s \in Seq(S), s # <<>>
    PROVE  <<Head(s)>> \o Tail(s) = s
<1> DEFINE c == <<Head(s)>> \o Tail(s)
<1>1. /\ Tail(s) \in Seq(S) /\ Head(s) = s[1] /\ s[1] \in S
      /\ Len(s) = Len(Tail(s)) + 1 /\ Len(Tail(s)) \in Nat
      /\ \A i \in 1 .. Len(Tail(s)) : Tail(s)[i] = s[i + 1]
  BY TailFacts
<1>2. /\ c \in Seq(S) /\ Len(c) = Len(s) /\ c[1] = s[1]
      /\ \A i \in 1 .. Len(Tail(s)) : c[i + 1] = s[i + 1]
  BY <1>1, ConsFacts
<1> HIDE DEF c
<1>3. ASSUME NEW i \in 1 .. Len(c) PROVE c[i] = s[i]
  <2>1. CASE i = 1
    BY <1>2, <2>1
  <2>2. CASE i # 1
    <3>1. i - 1 \in 1 .. Len(Tail(s)) /\ (i - 1) + 1 = i
      BY <1>1, <1>2, <2>2
    <3> QED BY <1>2, <3>1
  <2> QED BY <2>1, <2>2
<1>4. c = s
  BY <1>2, <1>3, SeqEqual
<1> QED BY <1>4 DEF c
-----------------------------------------------------------------------------
(* What the next request finds                                             *)

\* Before the first request, what was there before.
LEMMA SeenFirst ==
    ASSUME NEW w, NEW base, NEW v
    PROVE  Seen(w, base, 1, v) <=> v = base
<1>1. 1 .. (1 - 1) = {}
  OBVIOUS
<1> QED BY <1>1 DEF Seen

\* What the n-th request finds depends on the ones before.
LEMMA SeenPrefix ==
    ASSUME NEW w, NEW u, NEW base, NEW v, NEW n \in Nat,
           \A k \in 1 .. (n - 1) : u[k] = w[k],
           Seen(w, base, n, v)
    PROVE  Seen(u, base, n, v)
<1>1. (\A k \in 1 .. (n - 1) : u[k] = None) => v = base
  BY DEF Seen
<1>2. ASSUME NEW j \in 1 .. (n - 1), u[j] # None,
             \A k \in (j + 1) .. (n - 1) : u[k] = None
      PROVE  v = u[j]
  <2>1. \A k \in (j + 1) .. (n - 1) : k \in 1 .. (n - 1)
    OBVIOUS
  <2>2. w[j] # None /\ \A k \in (j + 1) .. (n - 1) : w[k] = None
    BY <1>2, <2>1
  <2> QED BY <2>2 DEF Seen
<1> QED BY <1>1, <1>2 DEF Seen

\* The request after one that writes finds what that one wrote, the request after
\* one that does not finds what that one found.
LEMMA SeenNext ==
    ASSUME NEW w, NEW base, NEW v, NEW n \in Nat \ {0},
           Seen(w, base, n, v)
    PROVE  Seen(w, base, n + 1, IF w[n] = None THEN v ELSE w[n])
<1>0. (n + 1) - 1 = n /\ n \in 1 .. n
  OBVIOUS
<1>1. CASE w[n] # None
  <2>1. ~(\A k \in 1 .. n : w[k] = None)
    BY <1>0, <1>1
  <2>2. ASSUME NEW j \in 1 .. n, w[j] # None, \A k \in (j + 1) .. n : w[k] = None
        PROVE  w[n] = w[j]
    <3>1. CASE j = n
      BY <3>1
    <3>2. CASE j # n
      <4>1. n \in (j + 1) .. n
        BY <3>2
      <4> QED BY <1>1, <2>2, <4>1
    <3> QED BY <3>1, <3>2
  <2>3. Seen(w, base, n + 1, w[n])
    BY <1>0, <2>1, <2>2 DEF Seen
  <2> QED BY <1>1, <2>3
<1>2. CASE w[n] = None
  <2>1. (\A k \in 1 .. n : w[k] = None) => v = base
    <3>1. \A k \in 1 .. (n - 1) : k \in 1 .. n
      OBVIOUS
    <3> QED BY <3>1 DEF Seen
  <2>2. ASSUME NEW j \in 1 .. n, w[j] # None, \A k \in (j + 1) .. n : w[k] = None
        PROVE  v = w[j]
    <3>1. j \in 1 .. (n - 1)
      <4>1. j # n
        BY <1>2, <2>2
      <4> QED BY <4>1
    <3>2. \A k \in (j + 1) .. (n - 1) : w[k] = None
      <4>1. \A k \in (j + 1) .. (n - 1) : k \in (j + 1) .. n
        OBVIOUS
      <4> QED BY <2>2, <4>1
    <3> QED BY <2>2, <3>1, <3>2 DEF Seen
  <2>3. Seen(w, base, n + 1, v)
    BY <1>0, <2>1, <2>2 DEF Seen
  <2> QED BY <1>2, <2>3
<1> QED BY <1>1, <1>2

\* Handling the first request changes what was there before and nothing else.
LEMMA SeenShift ==
    ASSUME NEW w, NEW u, NEW base, NEW v, NEW n \in Nat \ {0},
           \A k \in 1 .. (n - 1) : u[k] = w[k + 1],
           Seen(w, base, n + 1, v)
    PROVE  Seen(u, IF w[1] = None THEN base ELSE w[1], n, v)
<1> DEFINE b == IF w[1] = None THEN base ELSE w[1]
<1>0. (n + 1) - 1 = n /\ 1 \in 1 .. n
  OBVIOUS
<1>1. ASSUME \A k \in 1 .. (n - 1) : u[k] = None PROVE v = b
  <2>1. ASSUME NEW k \in 2 .. n PROVE w[k] = None
    <3>1. k - 1 \in 1 .. (n - 1) /\ (k - 1) + 1 = k
      OBVIOUS
    <3> QED BY <1>1, <3>1
  <2>2. CASE w[1] = None
    <3>1. \A k \in 1 .. n : k = 1 \/ k \in 2 .. n
      OBVIOUS
    <3>2. \A k \in 1 .. n : w[k] = None
      BY <2>1, <2>2, <3>1
    <3> QED BY <1>0, <2>2, <3>2 DEF Seen
  <2>3. CASE w[1] # None
    <3>1. 1 + 1 = 2
      OBVIOUS
    <3>2. \A k \in (1 + 1) .. n : w[k] = None
      BY <2>1, <3>1
    <3>3. v = w[1]
      BY <1>0, <2>3, <3>2 DEF Seen
    <3> QED BY <2>3, <3>3
  <2> QED BY <2>2, <2>3
<1>2. ASSUME NEW j \in 1 .. (n - 1), u[j] # None,
             \A k \in (j + 1) .. (n - 1) : u[k] = None
      PROVE  v = u[j]
  <2>1. j + 1 \in 1 .. n /\ u[j] = w[j + 1]
    OBVIOUS
  <2>2. ASSUME NEW k \in ((j + 1) + 1) .. n PROVE w[k] = None
    <3>1. k - 1 \in (j + 1) .. (n - 1) /\ k - 1 \in 1 .. (n - 1) /\ (k - 1) + 1 = k
      OBVIOUS
    <3> QED BY <1>2, <3>1
  <2>3. v = w[j + 1]
    BY <1>0, <1>2, <2>1, <2>2 DEF Seen
  <2> QED BY <2>1, <2>3
<1> HIDE DEF b
<1>3. Seen(u, b, n, v)
  BY <1>1, <1>2 DEF Seen
<1> QED BY <1>3 DEF b
-----------------------------------------------------------------------------
(* The configuration                                                       *)

\* The fields of a request.
LEMMA RequestFacts ==
    ASSUME NEW r \in Requests
    PROVE  /\ r # NoReq /\ r.by \in Callers /\ r.op \in Ops /\ r.ok \in BOOLEAN
           /\ r.args[1] \in Nat /\ r.args[2] \in Nat /\ r.due \in Values
<1>1. r # NoReq
  BY NoReqAssumption
<1>2. r.by \in Callers /\ r.op \in Ops /\ r.args \in Nat \X Nat /\ r.due \in Values
  BY SMT DEF Requests
<1>3. r.ok \in BOOLEAN
  BY Zenon DEF Requests
<1> QED BY <1>1, <1>2, <1>3

\* Only a request that writes is seen to write.
LEMMA WriteFacts ==
    ASSUME NEW r \in Requests, NEW t
    PROVE  /\ CfgWrite(r, t) = IF Sets(r, t) THEN r.args[2] ELSE None
           /\ CfgWrite(r, t) = None <=> ~Sets(r, t)
           /\ PasidWrite(r) = IF Assigns(r) THEN r.args[1] ELSE None
           /\ PasidWrite(r) = None <=> ~Assigns(r)
<1>1. r.args[1] # None /\ r.args[2] # None
  BY RequestFacts DEF None
<1> QED BY <1>1 DEF CfgWrite, PasidWrite

\* A request more.
LEMMA SettledCall ==
    ASSUME NEW p \in Seq(Requests), NEW r \in Requests,
           NEW cfg, NEW pasid, NEW want, NEW wantP, NEW want2, NEW wantP2,
           Settled(p, cfg, pasid, want, wantP),
           \A t \in Types : want2[t] = IF Sets(r, t) THEN r.args[2] ELSE want[t],
           \A t \in Types : Gets(r, t) => r.due = want[t],
           wantP2 = IF Assigns(r) THEN r.args[1] ELSE wantP
    PROVE  Settled(Append(p, r), cfg, pasid, want2, wantP2)
<1> DEFINE a == Append(p, r)
           n == Len(p) + 1
<1>1. /\ Len(p) \in Nat /\ Len(a) = n /\ a[n] = r /\ n \in Nat \ {0}
      /\ \A i \in 1 .. Len(p) : a[i] = p[i]
  BY AppendFacts
<1>2. n - 1 = Len(p) /\ n \in 1 .. n /\ \A i \in 1 .. Len(p) : i \in 1 .. n /\ i \in Nat
  BY <1>1
<1> HIDE DEF a, n
<1>3. ASSUME NEW t \in Types
      PROVE  /\ Seen(CfgWrites(a, t), cfg[t], n + 1, want2[t])
             /\ \A i \in 1 .. n :
                   Gets(a[i], t) => Seen(CfgWrites(a, t), cfg[t], i, a[i].due)
  <2>1. /\ \A k \in 1 .. Len(p) : CfgWrites(a, t)[k] = CfgWrites(p, t)[k]
        /\ CfgWrites(a, t)[n] = CfgWrite(r, t)
    BY <1>1, <1>2 DEF CfgWrites
  <2>2. Seen(CfgWrites(p, t), cfg[t], n, want[t])
    BY DEF Settled, n
  <2>3. Seen(CfgWrites(a, t), cfg[t], n, want[t])
    BY <1>1, <1>2, <2>1, <2>2, SeenPrefix
  <2>4. Seen(CfgWrites(a, t), cfg[t], n + 1,
             IF CfgWrite(r, t) = None THEN want[t] ELSE CfgWrite(r, t))
    BY <1>1, <2>1, <2>3, SeenNext
  <2>5. want2[t] = IF CfgWrite(r, t) = None THEN want[t] ELSE CfgWrite(r, t)
    BY WriteFacts
  <2>6. ASSUME NEW i \in 1 .. n, Gets(a[i], t)
        PROVE  Seen(CfgWrites(a, t), cfg[t], i, a[i].due)
    <3>1. CASE i = n
      BY <1>1, <2>3, <2>6, <3>1
    <3>2. CASE i # n
      <4>1. i \in 1 .. Len(p) /\ i \in Nat /\ \A k \in 1 .. (i - 1) : k \in 1 .. Len(p)
        BY <1>1, <1>2, <3>2
      <4>2. Gets(p[i], t) /\ a[i].due = p[i].due
        BY <1>1, <2>6, <4>1
      <4>3. Seen(CfgWrites(p, t), cfg[t], i, p[i].due)
        BY <4>1, <4>2 DEF Settled
      <4> QED BY <2>1, <4>1, <4>2, <4>3, SeenPrefix
    <3> QED BY <3>1, <3>2
  <2> QED BY <2>4, <2>5, <2>6
<1>4. Seen(PasidWrites(a), pasid, n + 1, wantP2)
  <2>1. /\ \A k \in 1 .. Len(p) : PasidWrites(a)[k] = PasidWrites(p)[k]
        /\ PasidWrites(a)[n] = PasidWrite(r)
    BY <1>1, <1>2 DEF PasidWrites
  <2>2. Seen(PasidWrites(p), pasid, n, wantP)
    BY DEF Settled, n
  <2>3. Seen(PasidWrites(a), pasid, n, wantP)
    BY <1>1, <1>2, <2>1, <2>2, SeenPrefix
  <2>4. Seen(PasidWrites(a), pasid, n + 1,
             IF PasidWrite(r) = None THEN wantP ELSE PasidWrite(r))
    BY <1>1, <2>1, <2>3, SeenNext
  <2>5. wantP2 = IF PasidWrite(r) = None THEN wantP ELSE PasidWrite(r)
    BY WriteFacts
  <2> QED BY <2>4, <2>5
<1>5. Settled(a, cfg, pasid, want2, wantP2)
  BY <1>1, <1>3, <1>4 DEF Settled
<1> QED BY <1>5 DEF a

\* The first request is handled: q is what remains of p.
LEMMA SettledHandle ==
    ASSUME NEW p \in Seq(Requests), NEW q \in Seq(Requests),
           Len(p) = Len(q) + 1, \A i \in 1 .. Len(q) : p[i + 1] = q[i],
           NEW cfg, NEW pasid, NEW want, NEW wantP, NEW cfg2, NEW pasid2,
           Settled(p, cfg, pasid, want, wantP),
           \A t \in Types : cfg2[t] = IF Sets(p[1], t) THEN p[1].args[2] ELSE cfg[t],
           pasid2 = IF Assigns(p[1]) THEN p[1].args[1] ELSE pasid
    PROVE  Settled(q, cfg2, pasid2, want, wantP)
<1> DEFINE n == Len(q) + 1
<1>1. Len(q) \in Nat /\ Len(p) = n /\ n \in Nat \ {0} /\ n - 1 = Len(q)
  BY LenProperties
<1>2. 1 \in 1 .. n /\ \A k \in 1 .. Len(q) : k + 1 \in 1 .. n
  BY <1>1
<1> HIDE DEF n
<1>3. p[1] \in Requests
  BY <1>1, <1>2, ElementOfSeq
<1>4. ASSUME NEW t \in Types
      PROVE  /\ Seen(CfgWrites(q, t), cfg2[t], n, want[t])
             /\ \A i \in 1 .. Len(q) :
                   Gets(q[i], t) => Seen(CfgWrites(q, t), cfg2[t], i, q[i].due)
  <2>1. /\ \A k \in 1 .. Len(q) : CfgWrites(q, t)[k] = CfgWrites(p, t)[k + 1]
        /\ CfgWrites(p, t)[1] = CfgWrite(p[1], t)
    BY <1>1, <1>2 DEF CfgWrites
  <2>2. cfg2[t] = IF CfgWrites(p, t)[1] = None THEN cfg[t] ELSE CfgWrites(p, t)[1]
    BY <1>3, <2>1, WriteFacts
  <2>3. Seen(CfgWrites(p, t), cfg[t], n + 1, want[t])
    BY <1>1 DEF Settled
  <2>4. Seen(CfgWrites(q, t), cfg2[t], n, want[t])
    BY <1>1, <2>1, <2>2, <2>3, SeenShift
  <2>5. ASSUME NEW i \in 1 .. Len(q), Gets(q[i], t)
        PROVE  Seen(CfgWrites(q, t), cfg2[t], i, q[i].due)
    <3>1. /\ i \in Nat \ {0} /\ \A k \in 1 .. (i - 1) : k \in 1 .. Len(q)
          /\ i + 1 \in 1 .. Len(p)
      BY <1>1, <1>2
    <3>2. Gets(p[i + 1], t) /\ p[i + 1].due = q[i].due
      BY <2>5
    <3>3. Seen(CfgWrites(p, t), cfg[t], i + 1, q[i].due)
      BY <3>1, <3>2 DEF Settled
    <3> QED BY <2>1, <2>2, <3>1, <3>3, SeenShift
  <2> QED BY <2>4, <2>5
<1>5. Seen(PasidWrites(q), pasid2, n, wantP)
  <2>1. /\ \A k \in 1 .. Len(q) : PasidWrites(q)[k] = PasidWrites(p)[k + 1]
        /\ PasidWrites(p)[1] = PasidWrite(p[1])
    BY <1>1, <1>2 DEF PasidWrites
  <2>2. pasid2 = IF PasidWrites(p)[1] = None THEN pasid ELSE PasidWrites(p)[1]
    BY <1>3, <2>1, WriteFacts
  <2>3. Seen(PasidWrites(p), pasid, n + 1, wantP)
    BY <1>1 DEF Settled
  <2>4. Seen(PasidWrites(q),
             IF PasidWrites(p)[1] = None THEN pasid ELSE PasidWrites(p)[1], n, wantP)
    BY <1>1, <2>1, <2>3, SeenShift
  <2> QED BY <2>2, <2>4
<1> QED BY <1>1, <1>4, <1>5 DEF Settled, n

\* With no request left the configuration is the one wanted.
LEMMA SettledEmpty ==
    ASSUME NEW p \in Seq(Requests), Len(p) = 0,
           NEW cfg, NEW pasid, NEW want, NEW wantP
    PROVE  Settled(p, cfg, pasid, want, wantP)
             <=> (\A t \in Types : want[t] = cfg[t]) /\ wantP = pasid
<1>1. Len(p) + 1 = 1 /\ 1 .. Len(p) = {}
  OBVIOUS
<1>2. \A t \in Types : Seen(CfgWrites(p, t), cfg[t], Len(p) + 1, want[t]) <=> want[t] = cfg[t]
  BY <1>1, SeenFirst
<1>3. Seen(PasidWrites(p), pasid, Len(p) + 1, wantP) <=> wantP = pasid
  BY <1>1, SeenFirst
<1> QED BY <1>1, <1>2, <1>3 DEF Settled

\* A request to read the configuration that is first finds what it is due.
LEMMA SettledFirst ==
    ASSUME NEW p \in Seq(Requests), 1 \in 1 .. Len(p), NEW t \in Types, Gets(p[1], t),
           NEW cfg, NEW pasid, NEW want, NEW wantP,
           Settled(p, cfg, pasid, want, wantP)
    PROVE  p[1].due = cfg[t]
<1>1. Seen(CfgWrites(p, t), cfg[t], 1, p[1].due)
  BY DEF Settled
<1> QED BY <1>1, SeenFirst
-----------------------------------------------------------------------------
(* Calls and their requests and replies                                    *)

\* The members of the two queues.
LEMMA MemberFacts ==
    ASSUME NEW p \in Seq(Requests), NEW rs \in Seq(Replies)
    PROVE  /\ Len(p) \in Nat /\ Len(rs) \in Nat
           /\ \A i \in 1 .. Len(p) : p[i] \in Requests /\ p[i] # NoReq /\ p[i].by \in Callers
           /\ \A i \in 1 .. Len(rs) : /\ rs[i] \in Replies /\ rs[i].req \in Requests
                                      /\ rs[i].req # NoReq /\ rs[i].req.by \in Callers
<1>1. Len(p) \in Nat /\ Len(rs) \in Nat
  BY LenProperties
<1>2. ASSUME NEW i \in 1 .. Len(p)
      PROVE  p[i] \in Requests /\ p[i] # NoReq /\ p[i].by \in Callers
  BY ElementOfSeq, RequestFacts
<1>3. ASSUME NEW i \in 1 .. Len(rs)
      PROVE  /\ rs[i] \in Replies /\ rs[i].req \in Requests
             /\ rs[i].req # NoReq /\ rs[i].req.by \in Callers
  <2>1. rs[i] \in Replies
    BY ElementOfSeq
  <2>2. rs[i].req \in Requests
    BY <2>1 DEF Replies
  <2> QED BY <2>1, <2>2, RequestFacts
<1> QED BY <1>1, <1>2, <1>3

\* Nobody calls: nothing is owned.
LEMMA OwnedNone ==
    ASSUME NEW cl, cl = [c \in Callers |-> NoReq]
    PROVE  Owned(<<>>, <<>>, cl) /\ Followed(<<>>, <<>>, cl, FALSE)
<1>1. 1 .. Len(<<>>) = {}
  OBVIOUS
<1> QED BY <1>1 DEF Owned, Followed

\* A caller that waits for nothing has no request and no reply; it posts r.
LEMMA OwnedCall ==
    ASSUME NEW p \in Seq(Requests), NEW rs \in Seq(Replies), NEW reg \in BOOLEAN,
           NEW cl \in [Callers -> Requests \cup {NoReq}], NEW r \in Requests,
           cl[r.by] = NoReq, Owned(p, rs, cl), Followed(p, rs, cl, reg)
    PROVE  /\ Owned(Append(p, r), rs, [cl EXCEPT ![r.by] = r])
           /\ Followed(Append(p, r), rs, [cl EXCEPT ![r.by] = r], reg)
<1> DEFINE a == Append(p, r)
           n == Len(p) + 1
           cl2 == [cl EXCEPT ![r.by] = r]
<1>1. /\ Len(a) = n /\ a[n] = r /\ \A i \in 1 .. Len(p) : a[i] = p[i]
  BY AppendFacts
<1>2. /\ Len(p) \in Nat /\ Len(rs) \in Nat
      /\ \A i \in 1 .. Len(p) : p[i] \in Requests /\ p[i] # NoReq /\ p[i].by \in Callers
      /\ \A i \in 1 .. Len(rs) : rs[i].req # NoReq /\ rs[i].req.by \in Callers
  BY MemberFacts
<1>3. n \in 1 .. n /\ \A i \in 1 .. n : i \in 1 .. Len(p) \/ i = n
  <2>1. Len(p) \in Nat
    BY <1>2
  <2> QED BY ONLY <2>1
<1>4. r.by \in Callers /\ r # NoReq
  BY RequestFacts
<1>5. cl2[r.by] = r /\ \A c \in Callers : c # r.by => cl2[c] = cl[c]
  BY <1>4
<1> HIDE DEF a, n, cl2
<1>6. \A i \in 1 .. Len(p) : p[i].by # r.by
  BY <1>2 DEF Owned
<1>7. \A i \in 1 .. Len(rs) : rs[i].req.by # r.by
  BY <1>2 DEF Owned
<1>8. Owned(a, rs, cl2)
  <2>1. \A i \in 1 .. n : cl2[a[i].by] = a[i]
    BY <1>1, <1>2, <1>3, <1>5, <1>6 DEF Owned
  <2>2. \A i, j \in 1 .. n : a[i].by = a[j].by => i = j
    BY <1>1, <1>3, <1>6 DEF Owned
  <2>3. \A i \in 1 .. Len(rs) : cl2[rs[i].req.by] = rs[i].req
    BY <1>2, <1>5, <1>7 DEF Owned
  <2>4. \A i \in 1 .. n, j \in 1 .. Len(rs) : a[i].by # rs[j].req.by
    BY <1>1, <1>3, <1>7 DEF Owned
  <2>5. \A i, j \in 1 .. Len(rs) : rs[i].req.by = rs[j].req.by => i = j
    BY DEF Owned
  <2> QED BY <1>1, <2>1, <2>2, <2>3, <2>4, <2>5 DEF Owned
<1>9. Followed(a, rs, cl2, reg)
  <2>1. ASSUME NEW c \in Callers, cl2[c] # NoReq
        PROVE  \/ \E i \in 1 .. n : a[i].by = c
               \/ \E i \in 1 .. Len(rs) : rs[i].req.by = c
               \/ Async(cl2[c]) /\ reg
    <3>1. CASE c = r.by
      BY <1>1, <1>3, <3>1
    <3>2. CASE c # r.by
      <4>1. cl2[c] = cl[c]
        BY <1>5, <3>2
      <4>2. \A i \in 1 .. Len(p) : i \in 1 .. n
        BY <1>2 DEF n
      <4> QED BY <1>1, <2>1, <4>1, <4>2 DEF Followed
    <3> QED BY <3>1, <3>2
  <2>2. \A i \in 1 .. Len(rs) : ~Async(rs[i].req)
    BY DEF Followed
  <2>3. ASSUME reg PROVE \E c \in Callers : Async(cl2[c])
    <3>1. PICK c \in Callers : Async(cl[c])
      BY <2>3 DEF Followed
    <3>2. c # r.by
      BY <3>1 DEF Async
    <3> QED BY <1>5, <3>1, <3>2
  <2> QED BY <1>1, <2>1, <2>2, <2>3 DEF Followed
<1> QED BY <1>8, <1>9 DEF a, cl2

\* The oldest reply completes its call.
LEMMA OwnedReturn ==
    ASSUME NEW p \in Seq(Requests), NEW rs \in Seq(Replies), NEW reg \in BOOLEAN,
           NEW cl \in [Callers -> Requests \cup {NoReq}], rs # <<>>,
           Owned(p, rs, cl), Followed(p, rs, cl, reg)
    PROVE  /\ Owned(p, Tail(rs), [cl EXCEPT ![rs[1].req.by] = NoReq])
           /\ Followed(p, Tail(rs), [cl EXCEPT ![rs[1].req.by] = NoReq], reg)
<1> DEFINE us == Tail(rs)
           b == rs[1].req.by
           cl2 == [cl EXCEPT ![b] = NoReq]
<1>1. /\ Len(us) \in Nat /\ Len(rs) = Len(us) + 1
      /\ \A i \in 1 .. Len(us) : us[i] = rs[i + 1]
  BY TailFacts
<1>2. /\ Len(p) \in Nat
      /\ \A i \in 1 .. Len(p) : p[i] # NoReq /\ p[i].by \in Callers
      /\ \A i \in 1 .. Len(rs) : rs[i].req # NoReq /\ rs[i].req.by \in Callers
  BY MemberFacts
<1>3. /\ 1 \in 1 .. Len(rs)
      /\ \A i \in 1 .. Len(us) : i + 1 \in 1 .. Len(rs) /\ i + 1 # 1
      /\ \A i \in 1 .. Len(rs) : i = 1 \/ (i - 1 \in 1 .. Len(us) /\ (i - 1) + 1 = i)
      /\ \A i, j \in 1 .. Len(us) : i + 1 = j + 1 => i = j
  BY <1>1
<1>4. b \in Callers /\ ~Async(cl[b])
  BY <1>2, <1>3 DEF Owned, Followed
<1>5. cl2[b] = NoReq /\ \A c \in Callers : c # b => cl2[c] = cl[c]
  BY <1>4
<1>6. \A i \in 1 .. Len(p) : p[i].by # b
  BY <1>3 DEF Owned
<1>7. \A i \in 1 .. Len(us) : us[i].req.by # b
  BY <1>1, <1>3 DEF Owned
<1> HIDE DEF us, b, cl2
<1>8. Owned(p, us, cl2)
  <2>1. \A i \in 1 .. Len(p) : cl2[p[i].by] = p[i]
    BY <1>2, <1>5, <1>6 DEF Owned
  <2>2. \A i, j \in 1 .. Len(p) : p[i].by = p[j].by => i = j
    BY DEF Owned
  <2>3. \A i \in 1 .. Len(us) : cl2[us[i].req.by] = us[i].req
    BY <1>1, <1>2, <1>3, <1>5, <1>7 DEF Owned
  <2>4. \A i, j \in 1 .. Len(us) : us[i].req.by = us[j].req.by => i = j
    BY SMTT(30), <1>1, <1>3 DEF Owned
  <2>5. \A i \in 1 .. Len(p), j \in 1 .. Len(us) : p[i].by # us[j].req.by
    BY <1>1, <1>3 DEF Owned
  <2> QED BY <2>1, <2>2, <2>3, <2>4, <2>5 DEF Owned
<1>9. Followed(p, us, cl2, reg)
  <2>1. ASSUME NEW c \in Callers, cl2[c] # NoReq
        PROVE  \/ \E i \in 1 .. Len(p) : p[i].by = c
               \/ \E i \in 1 .. Len(us) : us[i].req.by = c
               \/ Async(cl2[c]) /\ reg
    <3>1. c # b /\ cl2[c] = cl[c]
      BY <1>5, <2>1
    <3>2. ASSUME NEW i \in 1 .. Len(rs), rs[i].req.by = c
          PROVE  \E k \in 1 .. Len(us) : us[k].req.by = c
      <4>1. i # 1
        BY <3>1, <3>2 DEF b
      <4>2. i - 1 \in 1 .. Len(us) /\ (i - 1) + 1 = i
        BY <1>3, <4>1
      <4> QED BY <1>1, <3>2, <4>2
    <3> QED BY <2>1, <3>1, <3>2 DEF Followed
  <2>2. \A i \in 1 .. Len(us) : ~Async(us[i].req)
    BY <1>1, <1>3 DEF Followed
  <2>3. ASSUME reg PROVE \E c \in Callers : Async(cl2[c])
    <3>1. PICK c \in Callers : Async(cl[c])
      BY <2>3 DEF Followed
    <3> QED BY <1>4, <1>5, <3>1
  <2> QED BY <2>1, <2>2, <2>3 DEF Followed
<1> QED BY <1>8, <1>9 DEF us, cl2, b

\* The first request of p is answered: q is what remains of p.
LEMMA OwnedAnswer ==
    ASSUME NEW p \in Seq(Requests), NEW q \in Seq(Requests),
           Len(p) = Len(q) + 1, \A i \in 1 .. Len(q) : p[i + 1] = q[i],
           NEW rs \in Seq(Replies), NEW rep \in Replies, rep.req = p[1], ~Async(p[1]),
           NEW cl \in [Callers -> Requests \cup {NoReq}], NEW reg \in BOOLEAN,
           Owned(p, rs, cl), Followed(p, rs, cl, reg)
    PROVE  Owned(q, Append(rs, rep), cl) /\ Followed(q, Append(rs, rep), cl, reg)
<1> DEFINE us == Append(rs, rep)
           n == Len(rs) + 1
<1>1. /\ Len(us) = n /\ us[n] = rep /\ \A i \in 1 .. Len(rs) : us[i] = rs[i]
  BY AppendFacts
<1>2. Len(rs) \in Nat /\ Len(q) \in Nat
  BY LenProperties
<1>3. /\ n \in 1 .. n /\ \A i \in 1 .. n : i \in 1 .. Len(rs) \/ i = n
      /\ \A i \in 1 .. Len(rs) : i \in 1 .. n
  BY ONLY <1>2
<1>4. /\ 1 \in 1 .. Len(p)
      /\ \A i \in 1 .. Len(q) : i + 1 \in 1 .. Len(p) /\ i + 1 # 1
      /\ \A i \in 1 .. Len(p) : i = 1 \/ (i - 1 \in 1 .. Len(q) /\ (i - 1) + 1 = i)
      /\ \A i, j \in 1 .. Len(q) : i + 1 = j + 1 => i = j
  BY <1>2
<1> HIDE DEF us, n
<1>5. \A i \in 1 .. Len(rs) : rs[i].req.by # rep.req.by
  BY <1>4 DEF Owned
<1>6. \A i \in 1 .. Len(q) : q[i].by # rep.req.by
  BY <1>4 DEF Owned
<1>7. Owned(q, us, cl)
  <2>1. \A i \in 1 .. Len(q) : cl[q[i].by] = q[i]
    BY <1>4 DEF Owned
  <2>2. ASSUME NEW i \in 1 .. Len(q), NEW j \in 1 .. Len(q), q[i].by = q[j].by
        PROVE  i = j
    <3>1. /\ i + 1 \in 1 .. Len(p) /\ p[i + 1] = q[i]
          /\ j + 1 \in 1 .. Len(p) /\ p[j + 1] = q[j]
      BY <1>4
    <3>2. \A k, l \in 1 .. Len(p) : p[k].by = p[l].by => k = l
      BY DEF Owned
    <3>3. p[i + 1].by = p[j + 1].by
      BY <2>2, <3>1
    <3>4. i + 1 = j + 1
      BY <3>1, <3>2, <3>3
    <3> QED BY <1>4, <3>4
  <2>3. \A i \in 1 .. n : cl[us[i].req.by] = us[i].req
    BY SMTT(30), <1>1, <1>3, <1>4 DEF Owned
  <2>4. \A i, j \in 1 .. n : us[i].req.by = us[j].req.by => i = j
    BY <1>1, <1>3, <1>5 DEF Owned
  <2>5. ASSUME NEW i \in 1 .. Len(q), NEW j \in 1 .. n PROVE q[i].by # us[j].req.by
    <3>1. CASE j = n
      BY <1>1, <1>6, <3>1
    <3>2. CASE j \in 1 .. Len(rs)
      <4>1. i + 1 \in 1 .. Len(p) /\ p[i + 1] = q[i] /\ us[j] = rs[j]
        BY <1>1, <1>4, <3>2
      <4>2. \A k \in 1 .. Len(p), l \in 1 .. Len(rs) : p[k].by # rs[l].req.by
        BY DEF Owned
      <4>3. p[i + 1].by # rs[j].req.by
        BY ONLY <3>2, <4>1, <4>2
      <4> QED BY ONLY <4>1, <4>3
    <3> QED BY <1>3, <3>1, <3>2
  <2> QED BY <1>1, <2>1, <2>2, <2>3, <2>4, <2>5 DEF Owned
<1>8. Followed(q, us, cl, reg)
  <2>1. ASSUME NEW c \in Callers, cl[c] # NoReq
        PROVE  \/ \E i \in 1 .. Len(q) : q[i].by = c
               \/ \E i \in 1 .. n : us[i].req.by = c
               \/ Async(cl[c]) /\ reg
    <3>1. ASSUME NEW i \in 1 .. Len(p), p[i].by = c
          PROVE  \/ \E k \in 1 .. Len(q) : q[k].by = c
                 \/ \E k \in 1 .. n : us[k].req.by = c
      <4>1. CASE i = 1
        BY <1>1, <1>3, <3>1, <4>1
      <4>2. CASE i # 1
        <5>1. i - 1 \in 1 .. Len(q) /\ (i - 1) + 1 = i
          BY <1>4, <4>2
        <5> QED BY <3>1, <5>1
      <4> QED BY <4>1, <4>2
    <3>2. ASSUME NEW i \in 1 .. Len(rs), rs[i].req.by = c
          PROVE  \E k \in 1 .. n : us[k].req.by = c
      BY <1>1, <1>3, <3>2
    <3> QED BY <2>1, <3>1, <3>2 DEF Followed
  <2>2. \A i \in 1 .. n : ~Async(us[i].req)
    BY <1>1, <1>3 DEF Followed
  <2>3. reg => \E c \in Callers : Async(cl[c])
    BY DEF Followed
  <2> QED BY <1>1, <2>1, <2>2, <2>3 DEF Followed
<1> QED BY <1>7, <1>8 DEF us

\* The first request of p is a registration for events: the firmware keeps it.
LEMMA OwnedKept ==
    ASSUME NEW p \in Seq(Requests), NEW q \in Seq(Requests),
           Len(p) = Len(q) + 1, \A i \in 1 .. Len(q) : p[i + 1] = q[i],
           NEW rs \in Seq(Replies), Async(p[1]),
           NEW cl \in [Callers -> Requests \cup {NoReq}], NEW reg \in BOOLEAN,
           Owned(p, rs, cl), Followed(p, rs, cl, reg)
    PROVE  Owned(q, rs, cl) /\ Followed(q, rs, cl, TRUE)
<1>1. /\ Len(rs) \in Nat /\ Len(q) \in Nat
      /\ \A i \in 1 .. Len(p) : p[i].by \in Callers
  BY LenProperties, MemberFacts
<1>2. /\ 1 \in 1 .. Len(p)
      /\ \A i \in 1 .. Len(q) : i + 1 \in 1 .. Len(p) /\ i + 1 # 1
      /\ \A i \in 1 .. Len(p) : i = 1 \/ (i - 1 \in 1 .. Len(q) /\ (i - 1) + 1 = i)
      /\ \A i, j \in 1 .. Len(q) : i + 1 = j + 1 => i = j
  BY <1>1
<1>3. cl[p[1].by] = p[1] /\ p[1].by \in Callers
  BY <1>1, <1>2 DEF Owned
<1>4. Owned(q, rs, cl)
  <2>1. \A i \in 1 .. Len(q) : cl[q[i].by] = q[i]
    BY <1>2 DEF Owned
  <2>2. ASSUME NEW i \in 1 .. Len(q), NEW j \in 1 .. Len(q), q[i].by = q[j].by
        PROVE  i = j
    <3>1. /\ i + 1 \in 1 .. Len(p) /\ p[i + 1] = q[i]
          /\ j + 1 \in 1 .. Len(p) /\ p[j + 1] = q[j]
      BY <1>2
    <3>2. \A k, l \in 1 .. Len(p) : p[k].by = p[l].by => k = l
      BY DEF Owned
    <3>3. p[i + 1].by = p[j + 1].by
      BY <2>2, <3>1
    <3>4. i + 1 = j + 1
      BY <3>1, <3>2, <3>3
    <3> QED BY <1>2, <3>4
  <2>3. ASSUME NEW i \in 1 .. Len(q), NEW j \in 1 .. Len(rs) PROVE q[i].by # rs[j].req.by
    <3>1. i + 1 \in 1 .. Len(p) /\ p[i + 1] = q[i]
      BY <1>2
    <3> QED BY <3>1 DEF Owned
  <2> QED BY <2>1, <2>2, <2>3 DEF Owned
<1>5. ASSUME NEW c \in Callers, cl[c] # NoReq
      PROVE  \/ \E i \in 1 .. Len(q) : q[i].by = c
             \/ \E i \in 1 .. Len(rs) : rs[i].req.by = c
             \/ Async(cl[c])
  <2>1. ASSUME NEW i \in 1 .. Len(p), p[i].by = c
        PROVE  Async(cl[c]) \/ \E k \in 1 .. Len(q) : q[k].by = c
    <3>1. CASE i = 1
      BY <1>3, <2>1, <3>1
    <3>2. CASE i # 1
      <4>1. i - 1 \in 1 .. Len(q) /\ (i - 1) + 1 = i
        BY <1>2, <3>2
      <4> QED BY <2>1, <4>1
    <3> QED BY <3>1, <3>2
  <2> QED BY <1>5, <2>1 DEF Followed
<1>6. /\ \A i \in 1 .. Len(rs) : ~Async(rs[i].req)
      /\ \E c \in Callers : Async(cl[c])
  BY <1>3 DEF Followed
<1>7. Followed(q, rs, cl, TRUE)
  BY <1>5, <1>6 DEF Followed
<1> QED BY <1>4, <1>7
-----------------------------------------------------------------------------
(* Replies                                                                 *)

\* resp_size_for() and the place of the status agree with the driver's structures.
LEMMA StatusSizes ==
    ASSUME NEW op \in Ops
    PROVE  /\ DriverStruct(op) = [size |-> resp_size_for(op), at |-> status_off(op)]
           /\ resp_size_for(op) \in Nat /\ status_off(op) \in Nat
<1> USE DEF Ops, Queries, NotImplemented, Unknown, WithPayload, ContextOps
<1>1. DriverStruct(op).size = resp_size_for(op) /\ resp_size_for(op) \in Nat
  BY DEF DriverStruct, resp_size_for
<1>2. DriverStruct(op).at = status_off(op) /\ status_off(op) \in Nat
  BY DEF DriverStruct, status_off
<1>3. DriverStruct(op) = [size |-> DriverStruct(op).size, at |-> DriverStruct(op).at]
  BY DEF DriverStruct
<1> QED BY <1>1, <1>2, <1>3

\* The opcodes answered with a structure.
StructOps == Queries \cup {"GET_RUNTIME_CONFIG", "CREATE_CONTEXT", "COL_STATUS"}

\* The structures the handlers fill in are those of the driver.
LEMMA StructSizes ==
    ASSUME NEW op \in StructOps
    PROVE  /\ DriverStruct(op) = [size |-> RespStruct(op).size, at |-> RespStruct(op).at]
           /\ RespStruct(op).size \in Nat /\ RespStruct(op).at \in Nat
<1> USE DEF StructOps, Queries
<1>1. /\ DriverStruct(op).size = RespStruct(op).size /\ RespStruct(op).size \in Nat
      /\ DriverStruct(op).at = RespStruct(op).at /\ RespStruct(op).at \in Nat
  BY DEF DriverStruct, RespStruct
<1>2. DriverStruct(op) = [size |-> DriverStruct(op).size, at |-> DriverStruct(op).at]
  BY DEF DriverStruct
<1> QED BY <1>1, <1>2

\* A reply of a status alone.
LEMMA StatusReply ==
    ASSUME NEW r \in Requests, NEW st \in Statuses, NEW rep, rep = ReplyStatus(r, st)
    PROVE  /\ rep \in Replies /\ rep.req = r /\ Readable(rep)
           /\ rep.status = st /\ rep.value = 0 /\ rep.wrote = {}
<1>1. r.op \in Ops
  BY RequestFacts
<1>2. /\ rep.req = r /\ rep.size = resp_size_for(r.op) /\ rep.at = status_off(r.op)
      /\ rep.status = st /\ rep.value = 0 /\ rep.wrote = {}
  BY DEF ReplyStatus
<1>3. rep \in Replies
  BY <1>1, StatusSizes DEF ReplyStatus, Replies
<1>4. Readable(rep)
  BY <1>1, <1>2, StatusSizes DEF Readable
<1> QED BY <1>2, <1>3, <1>4

\* A reply with a structure, and with what the column dump puts into it.
LEMMA DumpReply ==
    ASSUME NEW r \in Requests, r.op \in StructOps, NEW st \in Statuses, NEW v \in Nat,
           NEW written \in SUBSET Nat, NEW rep,
           rep = [req |-> r, size |-> RespStruct(r.op).size, at |-> RespStruct(r.op).at,
                  status |-> st, value |-> v, wrote |-> written]
    PROVE  /\ rep \in Replies /\ rep.req = r /\ Readable(rep)
           /\ rep.status = st /\ rep.value = v /\ rep.wrote = written
<1>1. /\ rep.req = r /\ rep.size = RespStruct(r.op).size /\ rep.at = RespStruct(r.op).at
      /\ rep.status = st /\ rep.value = v /\ rep.wrote = written
  OBVIOUS
<1>2. rep \in Replies
  BY StructSizes DEF Replies
<1>3. Readable(rep)
  BY <1>1, StructSizes DEF Readable
<1> QED BY <1>1, <1>2, <1>3

\* A reply with a structure of which the handler fills in the value alone.
LEMMA StructReply ==
    ASSUME NEW r \in Requests, r.op \in StructOps, NEW st \in Statuses, NEW v \in Nat,
           NEW rep, rep = ReplyStruct(r, st, v)
    PROVE  /\ rep \in Replies /\ rep.req = r /\ Readable(rep)
           /\ rep.status = st /\ rep.value = v /\ rep.wrote = {}
<1>1. rep = [req |-> r, size |-> RespStruct(r.op).size, at |-> RespStruct(r.op).at,
             status |-> st, value |-> v, wrote |-> {}]
  BY DEF ReplyStruct
<1>2. {} \in SUBSET Nat
  OBVIOUS
<1> QED BY <1>1, <1>2, DumpReply
-----------------------------------------------------------------------------
(* The requests not answered yet                                           *)

\* Pending, by what is in hand.
LEMMA PendingFacts ==
    ASSUME Queues
    PROVE  /\ Pending \in Seq(Requests) /\ Len(requests) \in Nat
           /\ hand = NoReq => Pending = requests
           /\ hand # NoReq => /\ hand \in Requests /\ Pending[1] = hand
                              /\ Len(Pending) = Len(requests) + 1
                              /\ 1 \in 1 .. Len(Pending)
                              /\ \A i \in 1 .. Len(requests) : Pending[i + 1] = requests[i]
<1>1. requests \in Seq(Requests) /\ hand \in Requests \cup {NoReq}
  BY DEF Queues
<1>2. Len(requests) \in Nat
  BY <1>1, LenProperties
<1>3. CASE hand = NoReq
  BY <1>1, <1>2, <1>3 DEF Pending
<1>4. CASE hand # NoReq
  <2>1. hand \in Requests /\ Pending = <<hand>> \o requests
    BY <1>1, <1>4 DEF Pending
  <2>2. /\ Pending \in Seq(Requests) /\ Len(Pending) = Len(requests) + 1
        /\ Pending[1] = hand
        /\ \A i \in 1 .. Len(requests) : Pending[i + 1] = requests[i]
    BY <1>1, <2>1, ConsFacts
  <2> QED BY <1>2, <1>4, <2>1, <2>2
<1> QED BY <1>3, <1>4

\* The handler returns an answer that is good.
LEMMA AnswerStep ==
    ASSUME IInv, hand # NoReq, ~Async(hand),
           NEW rep \in Replies, rep.req = hand, Good(rep), Answered(rep),
           UNCHANGED <<fw_alive, async_registered, left>>, Flags', Configs',
           \A t \in Types : rt_cfg'[t] = IF Sets(hand, t) THEN hand.args[2] ELSE rt_cfg[t],
           mgmt_pasid' = IF Assigns(hand) THEN hand.args[1] ELSE mgmt_pasid
    PROVE  IInv'
<1>1. /\ Queues /\ Quiet /\ Owned(Pending, replies, call)
      /\ Followed(Pending, replies, call, Held)
      /\ \A i \in 1 .. Len(Pending) : Lawful(Pending[i])
      /\ Settled(Pending, rt_cfg, mgmt_pasid, wanted, wanted_pasid)
      /\ \A i \in 1 .. Len(replies) : Good(replies[i])
      /\ Held \in BOOLEAN
  BY DEF IInv, Held
<1>2. /\ Pending \in Seq(Requests) /\ Len(requests) \in Nat /\ Pending[1] = hand
      /\ Len(Pending) = Len(requests) + 1
      /\ \A i \in 1 .. Len(requests) : Pending[i + 1] = requests[i]
  BY <1>1, PendingFacts
<1>3. /\ replies' = Append(replies, rep) /\ hand' = NoReq /\ done' = 0 /\ wrote' = {}
      /\ requests' = requests /\ call' = call /\ wanted' = wanted
      /\ wanted_pasid' = wanted_pasid /\ Pending' = requests
  BY DEF Answered, ghosts, Pending
<1>4. /\ requests \in Seq(Requests) /\ replies \in Seq(Replies)
      /\ call \in [Callers -> Requests \cup {NoReq}]
  BY <1>1 DEF Queues
<1>5. /\ Len(replies) \in Nat /\ replies' \in Seq(Replies)
      /\ Len(replies') = Len(replies) + 1 /\ replies'[Len(replies) + 1] = rep
      /\ \A i \in 1 .. Len(replies) : replies'[i] = replies[i]
  BY <1>3, <1>4, AppendFacts
<1>6. Queues'
  BY <1>3, <1>4, <1>5 DEF Queues
<1>7. Quiet'
  BY <1>1, <1>3 DEF Quiet
<1>8. DumpInv'
  BY <1>3 DEF DumpInv, Dumping, WellFormed, Handles
<1>9. /\ Owned(requests, Append(replies, rep), call)
      /\ Followed(requests, Append(replies, rep), call, Held)
  <2>1. rep.req = Pending[1] /\ ~Async(Pending[1])
    BY <1>2
  <2> QED BY <1>1, <1>2, <1>4, <2>1, OwnedAnswer
<1>10. \A i \in 1 .. Len(requests) : Lawful(requests[i])
  <2>1. \A i \in 1 .. Len(requests) : i + 1 \in 1 .. Len(Pending)
    BY <1>2
  <2> QED BY <1>1, <1>2, <2>1
<1>11. Settled(requests, rt_cfg', mgmt_pasid', wanted, wanted_pasid)
  <2>1. \A t \in Types :
           rt_cfg'[t] = IF Sets(Pending[1], t) THEN Pending[1].args[2] ELSE rt_cfg[t]
    BY <1>2
  <2>2. mgmt_pasid' = IF Assigns(Pending[1]) THEN Pending[1].args[1] ELSE mgmt_pasid
    BY <1>2
  <2> QED BY <1>1, <1>2, <1>4, <2>1, <2>2, SettledHandle
<1>12. \A i \in 1 .. Len(replies') : Good(replies'[i])
  <2>1. \A i \in 1 .. Len(replies') : i \in 1 .. Len(replies) \/ i = Len(replies) + 1
    BY <1>5
  <2> QED BY <1>1, <1>5, <2>1
<1>13. Held' = Held
  BY DEF Held
<1> QED BY <1>3, <1>6, <1>7, <1>8, <1>9, <1>10, <1>11, <1>12, <1>13 DEF IInv

\* The same for an answer to a request that writes nothing.
LEMMA PlainAnswer ==
    ASSUME IInv, hand # NoReq, ~Async(hand), \A t \in Types : ~Sets(hand, t), ~Assigns(hand),
           NEW rep \in Replies, rep.req = hand, Good(rep), Answered(rep),
           UNCHANGED <<fw_alive, async_registered, left, config>>, fw_suspended' \in BOOLEAN
    PROVE  IInv'
<1>1. Flags'
  <2>1. fw_alive' = fw_alive /\ async_registered' = async_registered /\ left' = left
    OBVIOUS
  <2> QED BY Zenon, <2>1 DEF IInv, Flags
<1>2. rt_cfg' = rt_cfg /\ mgmt_pasid' = mgmt_pasid
  BY DEF config
<1>3. Configs'
  <2>1. wanted' = wanted /\ wanted_pasid' = wanted_pasid
    BY DEF Answered, ghosts
  <2> QED BY <1>2, <2>1 DEF IInv, Configs
<1> QED BY <1>1, <1>2, <1>3, AnswerStep

\* Of the replies to most requests, that they are readable is all there is to say.
LEMMA GoodOther ==
    ASSUME NEW rep, Readable(rep),
           \/ rep.req.op \notin {"GET_RUNTIME_CONFIG", "COL_STATUS"}
           \/ ~rep.req.ok
    PROVE  Good(rep)
BY DEF Good, AsDue, Exact

\* The request in hand.
LEMMA HandFacts ==
    ASSUME IInv, hand # NoReq
    PROVE  /\ hand \in Requests /\ hand.op \in Ops /\ hand.ok \in BOOLEAN
           /\ hand.args[1] \in Nat /\ hand.args[2] \in Nat /\ hand.due \in Values
           /\ Lawful(hand)
           /\ fw_suspended \in BOOLEAN
           /\ rt_cfg \in [Types -> Values] /\ mgmt_pasid \in Pasids
           /\ wanted \in [Types -> Values] /\ wanted_pasid \in Pasids
           /\ Values \subseteq Nat
<1>1. Queues /\ \A i \in 1 .. Len(Pending) : Lawful(Pending[i])
  BY DEF IInv
<1>2. hand \in Requests /\ Pending[1] = hand /\ 1 \in 1 .. Len(Pending)
  BY <1>1, PendingFacts
<1>3. Lawful(hand)
  BY <1>1, <1>2
<1>4. /\ rt_cfg \in [Types -> Values] /\ mgmt_pasid \in Pasids
      /\ wanted \in [Types -> Values] /\ wanted_pasid \in Pasids
      /\ Values \subseteq Nat
  BY MertAssumption DEF IInv, Configs
<1>5. fw_suspended \in BOOLEAN
  BY Zenon DEF IInv, Flags
<1> QED BY <1>2, <1>3, <1>4, <1>5, RequestFacts
-----------------------------------------------------------------------------
(* Each step keeps the invariant                                           *)

\* A request that is too short.
LEMMA TooShortKeeps ==
    ASSUME IInv, TooShort
    PROVE  IInv'
<1> DEFINE rep == ReplyStatus(hand, "INVALID_INPUT_BUFFER")
<1>1. /\ hand # NoReq /\ ~hand.ok /\ Answered(rep) /\ UNCHANGED <<fw, config>>
  BY DEF TooShort, Handles
<1>2. hand \in Requests /\ fw_suspended \in BOOLEAN
  BY <1>1, HandFacts
<1>3. "INVALID_INPUT_BUFFER" \in Statuses
  BY DEF Statuses
<1>4. rep \in Replies /\ rep.req = hand /\ Readable(rep)
  BY <1>2, <1>3, StatusReply
<1> HIDE DEF rep
<1>5. Good(rep)
  BY <1>1, <1>4, GoodOther
<1>6. ~Async(hand) /\ (\A t \in Types : ~Sets(hand, t)) /\ ~Assigns(hand)
  BY <1>1 DEF Async, Sets, Assigns
<1>7. UNCHANGED <<fw_alive, async_registered, left, config>> /\ fw_suspended' = fw_suspended
  BY <1>1 DEF fw
<1> QED BY <1>1, <1>2, <1>4, <1>5, <1>6, <1>7, PlainAnswer

\* A query.
LEMMA QueryKeeps ==
    ASSUME IInv, Query
    PROVE  IInv'
<1> DEFINE rep == ReplyStruct(hand, "SUCCESS", 0)
<1>1. /\ hand # NoReq /\ hand.op \in Queries /\ Answered(rep) /\ UNCHANGED <<fw, config>>
  BY DEF Query, Handles
<1>2. hand \in Requests /\ fw_suspended \in BOOLEAN
  BY <1>1, HandFacts
<1>3. "SUCCESS" \in Statuses /\ 0 \in Nat /\ hand.op \in StructOps
  BY <1>1 DEF Statuses, StructOps
<1>4. rep \in Replies /\ rep.req = hand /\ Readable(rep)
  BY <1>2, <1>3, StructReply
<1> HIDE DEF rep
<1>5. hand.op \notin {"GET_RUNTIME_CONFIG", "COL_STATUS", "SET_RUNTIME_CONFIG",
                      "ASSIGN_MGMT_PASID", "REGISTER_ASYNC"}
  BY <1>1 DEF Queries
<1>6. Good(rep)
  BY <1>4, <1>5, GoodOther
<1>7. ~Async(hand) /\ (\A t \in Types : ~Sets(hand, t)) /\ ~Assigns(hand)
  BY <1>5 DEF Async, Sets, Assigns
<1>8. UNCHANGED <<fw_alive, async_registered, left, config>> /\ fw_suspended' = fw_suspended
  BY <1>1 DEF fw
<1> QED BY <1>1, <1>2, <1>4, <1>6, <1>7, <1>8, PlainAnswer

\* SET_RUNTIME_CONFIG writes an entry of rt_cfg, if it names one.
LEMMA SetRuntimeConfigKeeps ==
    ASSUME IInv, SetRuntimeConfig
    PROVE  IInv'
<1> DEFINE t0 == hand.args[1]
           st == IF TypeOutOfRange(t0) THEN "INVALID_PARAM" ELSE "SUCCESS"
           rep == ReplyStatus(hand, st)
<1>1. /\ hand # NoReq /\ hand.op = "SET_RUNTIME_CONFIG" /\ hand.ok
      /\ Answered(rep) /\ UNCHANGED <<fw, mgmt_pasid>>
      /\ rt_cfg' = IF TypeOutOfRange(t0) THEN rt_cfg ELSE [rt_cfg EXCEPT ![t0] = hand.args[2]]
  BY DEF SetRuntimeConfig, WellFormed, Handles
<1>2. /\ hand \in Requests /\ t0 \in Nat /\ Lawful(hand)
      /\ rt_cfg \in [Types -> Values] /\ mgmt_pasid \in Pasids
      /\ wanted \in [Types -> Values] /\ wanted_pasid \in Pasids
  BY <1>1, HandFacts
<1>3. st \in Statuses
  BY DEF Statuses
<1>4. rep \in Replies /\ rep.req = hand /\ Readable(rep)
  BY <1>2, <1>3, StatusReply
<1> HIDE DEF rep, st
<1>5. Good(rep)
  BY <1>1, <1>4, GoodOther
<1>6. ~Async(hand) /\ ~Assigns(hand)
  BY <1>1 DEF Async, Assigns
<1>7. TypeOutOfRange(t0) <=> t0 \notin Types
  BY <1>2, MertAssumption DEF TypeOutOfRange, Types
<1>8. hand.args[2] \in Values
  BY <1>1, <1>2 DEF Lawful
<1>9. /\ rt_cfg' \in [Types -> Values]
      /\ \A t \in Types : rt_cfg'[t] = IF Sets(hand, t) THEN hand.args[2] ELSE rt_cfg[t]
  <2>1. \A t : Sets(hand, t) <=> t = t0
    BY <1>1 DEF Sets
  <2>2. CASE t0 \in Types
    BY <1>1, <1>2, <1>7, <1>8, <2>1, <2>2
  <2>3. CASE t0 \notin Types
    BY <1>1, <1>2, <1>7, <2>1, <2>3
  <2> QED BY <2>2, <2>3
<1>10. Configs'
  <2>1. wanted' = wanted /\ wanted_pasid' = wanted_pasid /\ mgmt_pasid' = mgmt_pasid
    BY <1>1 DEF Answered, ghosts
  <2> QED BY <1>2, <1>9, <2>1 DEF Configs
<1>11. /\ UNCHANGED <<fw_alive, async_registered, left>> /\ fw_suspended' = fw_suspended
       /\ mgmt_pasid' = IF Assigns(hand) THEN hand.args[1] ELSE mgmt_pasid
  BY <1>1, <1>6 DEF fw
<1>12. Flags'
  BY Zenon, <1>11 DEF IInv, Flags
<1> QED BY <1>1, <1>4, <1>5, <1>6, <1>9, <1>10, <1>11, <1>12, AnswerStep

\* GET_RUNTIME_CONFIG finds what it is due.
LEMMA GetRuntimeConfigKeeps ==
    ASSUME IInv, GetRuntimeConfig
    PROVE  IInv'
<1> DEFINE t0 == hand.args[1]
           st == IF TypeOutOfRange(t0) THEN "INVALID_PARAM" ELSE "SUCCESS"
           v == IF TypeOutOfRange(t0) THEN 0 ELSE rt_cfg[t0]
           rep == ReplyStruct(hand, st, v)
<1>1. /\ hand # NoReq /\ hand.op = "GET_RUNTIME_CONFIG" /\ hand.ok
      /\ Answered(rep) /\ UNCHANGED <<fw, config>>
  BY DEF GetRuntimeConfig, WellFormed, Handles
<1>2. /\ hand \in Requests /\ t0 \in Nat /\ fw_suspended \in BOOLEAN
      /\ rt_cfg \in [Types -> Values] /\ Values \subseteq Nat
  BY <1>1, HandFacts
<1>3. TypeOutOfRange(t0) <=> t0 \notin Types
  BY <1>2, MertAssumption DEF TypeOutOfRange, Types
<1>4. st \in Statuses /\ v \in Nat /\ hand.op \in StructOps
  BY <1>1, <1>2, <1>3 DEF Statuses, StructOps
<1>5. t0 \in Types => st = "SUCCESS" /\ v = rt_cfg[t0]
  BY <1>3
<1> HIDE DEF st, v
<1>6. /\ rep \in Replies /\ rep.req = hand /\ Readable(rep)
      /\ rep.status = st /\ rep.value = v
  BY <1>2, <1>4, StructReply
<1> HIDE DEF rep
<1>7. ASSUME t0 \in Types PROVE hand.due = rt_cfg[t0]
  <2>1. /\ Pending \in Seq(Requests) /\ 1 \in 1 .. Len(Pending) /\ Pending[1] = hand
        /\ Settled(Pending, rt_cfg, mgmt_pasid, wanted, wanted_pasid)
    BY <1>1, PendingFacts DEF IInv
  <2>2. Gets(Pending[1], t0)
    BY <1>1, <2>1 DEF Gets
  <2>3. Pending[1].due = rt_cfg[t0]
    BY <1>7, <2>1, <2>2, SettledFirst
  <2> QED BY <2>1, <2>3
<1>8. Good(rep)
  BY <1>1, <1>5, <1>6, <1>7 DEF Good, AsDue, Exact
<1>9. ~Async(hand) /\ (\A t \in Types : ~Sets(hand, t)) /\ ~Assigns(hand)
  BY <1>1 DEF Async, Sets, Assigns
<1>10. UNCHANGED <<fw_alive, async_registered, left, config>> /\ fw_suspended' = fw_suspended
  BY <1>1 DEF fw
<1> QED BY <1>1, <1>2, <1>6, <1>8, <1>9, <1>10, PlainAnswer

\* ASSIGN_MGMT_PASID.
LEMMA AssignMgmtPasidKeeps ==
    ASSUME IInv, AssignMgmtPasid
    PROVE  IInv'
<1> DEFINE rep == ReplyStatus(hand, "SUCCESS")
<1>1. /\ hand # NoReq /\ hand.op = "ASSIGN_MGMT_PASID" /\ hand.ok
      /\ Answered(rep) /\ UNCHANGED <<fw, rt_cfg>> /\ mgmt_pasid' = hand.args[1]
  BY DEF AssignMgmtPasid, WellFormed, Handles
<1>2. /\ hand \in Requests /\ Lawful(hand) /\ rt_cfg \in [Types -> Values]
      /\ wanted \in [Types -> Values] /\ wanted_pasid \in Pasids
  BY <1>1, HandFacts
<1>3. "SUCCESS" \in Statuses
  BY DEF Statuses
<1>4. rep \in Replies /\ rep.req = hand /\ Readable(rep)
  BY <1>2, <1>3, StatusReply
<1> HIDE DEF rep
<1>5. Good(rep)
  BY <1>1, <1>4, GoodOther
<1>6. ~Async(hand) /\ Assigns(hand) /\ \A t \in Types : ~Sets(hand, t)
  BY <1>1 DEF Async, Assigns, Sets
<1>7. Configs'
  <2>1. wanted' = wanted /\ wanted_pasid' = wanted_pasid /\ rt_cfg' = rt_cfg
    BY <1>1 DEF Answered, ghosts
  <2>2. hand.args[1] \in Pasids
    BY <1>1, <1>2 DEF Lawful
  <2> QED BY <1>1, <1>2, <2>1, <2>2 DEF Configs
<1>8. /\ UNCHANGED <<fw_alive, async_registered, left>> /\ fw_suspended' = fw_suspended
      /\ mgmt_pasid' = IF Assigns(hand) THEN hand.args[1] ELSE mgmt_pasid
      /\ \A t \in Types : rt_cfg'[t] = IF Sets(hand, t) THEN hand.args[2] ELSE rt_cfg[t]
  BY <1>1, <1>6 DEF fw
<1>9. Flags'
  BY Zenon, <1>8 DEF IInv, Flags
<1> QED BY <1>1, <1>4, <1>5, <1>6, <1>7, <1>8, <1>9, AnswerStep

\* SUSPEND, RESUME and INVOKE_SELF_TEST.
LEMMA SuspendKeeps ==
    ASSUME IInv, Suspend
    PROVE  IInv'
<1> DEFINE rep == ReplyStatus(hand, "SUCCESS")
<1>1. /\ hand # NoReq /\ hand.op \in {"SUSPEND", "RESUME", "SELF_TEST"}
      /\ Answered(rep) /\ UNCHANGED <<fw_alive, async_registered, left, config>>
      /\ fw_suspended' = CASE hand.op = "SUSPEND" -> TRUE [] hand.op = "RESUME" -> FALSE
                           [] OTHER -> fw_suspended
  BY DEF Suspend, Handles
<1>2. hand \in Requests /\ fw_suspended \in BOOLEAN
  BY <1>1, HandFacts
<1>3. "SUCCESS" \in Statuses
  BY DEF Statuses
<1>4. rep \in Replies /\ rep.req = hand /\ Readable(rep)
  BY <1>2, <1>3, StatusReply
<1> HIDE DEF rep
<1>5. hand.op \notin {"GET_RUNTIME_CONFIG", "COL_STATUS", "SET_RUNTIME_CONFIG",
                      "ASSIGN_MGMT_PASID", "REGISTER_ASYNC"}
  BY <1>1
<1>6. Good(rep)
  BY <1>4, <1>5, GoodOther
<1>7. ~Async(hand) /\ (\A t \in Types : ~Sets(hand, t)) /\ ~Assigns(hand)
  BY <1>5 DEF Async, Sets, Assigns
<1>8. fw_suspended' \in BOOLEAN
  <2>1. CASE hand.op = "SUSPEND"
    <3>1. fw_suspended' = TRUE
      BY SMT, <1>1, <2>1
    <3> QED BY Zenon, <3>1
  <2>2. CASE hand.op = "RESUME"
    <3>1. fw_suspended' = FALSE
      BY SMT, <1>1, <2>2
    <3> QED BY Zenon, <3>1
  <2>3. CASE hand.op = "SELF_TEST"
    <3>1. fw_suspended' = fw_suspended
      BY SMT, <1>1, <2>3
    <3> QED BY Zenon, <1>2, <3>1
  <2> QED BY <1>1, <2>1, <2>2, <2>3
<1> QED BY <1>1, <1>4, <1>6, <1>7, <1>8, PlainAnswer

\* Requests about contexts.
LEMMA ContextKeeps ==
    ASSUME IInv, Context
    PROVE  IInv'
<1>1. hand # NoReq /\ hand.op \in ContextOps /\ UNCHANGED <<fw, config>>
  BY DEF Context, WellFormed, Handles
<1>2. hand \in Requests /\ fw_suspended \in BOOLEAN
  BY <1>1, HandFacts
<1>3. hand.op \notin {"GET_RUNTIME_CONFIG", "COL_STATUS", "SET_RUNTIME_CONFIG",
                      "ASSIGN_MGMT_PASID", "REGISTER_ASYNC"}
  BY <1>1 DEF ContextOps
<1>4. ~Async(hand) /\ (\A t \in Types : ~Sets(hand, t)) /\ ~Assigns(hand)
  BY <1>3 DEF Async, Sets, Assigns
<1>5. UNCHANGED <<fw_alive, async_registered, left, config>> /\ fw_suspended' = fw_suspended
  BY <1>1 DEF fw
<1>6. PICK rep : /\ Answered(rep)
                 /\ \/ \E st \in Statuses : rep = ReplyStatus(hand, st)
                    \/ hand.op = "CREATE_CONTEXT" /\ rep = ReplyStruct(hand, "SUCCESS", 0)
  BY DEF Context, Statuses
<1>7. rep \in Replies /\ rep.req = hand /\ Readable(rep)
  <2>1. CASE \E st \in Statuses : rep = ReplyStatus(hand, st)
    BY <1>2, <2>1, StatusReply
  <2>2. CASE hand.op = "CREATE_CONTEXT" /\ rep = ReplyStruct(hand, "SUCCESS", 0)
    <3>1. "SUCCESS" \in Statuses /\ 0 \in Nat /\ hand.op \in StructOps
      BY <2>2 DEF Statuses, StructOps
    <3> QED BY <1>2, <2>2, <3>1, StructReply
  <2> QED BY <1>6, <2>1, <2>2
<1>8. Good(rep)
  BY <1>3, <1>7, GoodOther
<1> QED BY <1>1, <1>2, <1>4, <1>5, <1>6, <1>7, <1>8, PlainAnswer

\* Opcodes that are not implemented or not known.
LEMMA RefuseKeeps ==
    ASSUME IInv, Refuse
    PROVE  IInv'
<1> DEFINE st == IF hand.op \in Unknown THEN "INVALID_COMMAND" ELSE "INVALID_OPERATION"
           rep == ReplyStatus(hand, st)
<1>1. /\ hand # NoReq /\ hand.op \in NotImplemented \cup Unknown
      /\ Answered(rep) /\ UNCHANGED <<fw, config>>
  BY DEF Refuse, Handles
<1>2. hand \in Requests /\ fw_suspended \in BOOLEAN
  BY <1>1, HandFacts
<1>3. st \in Statuses
  BY DEF Statuses
<1>4. rep \in Replies /\ rep.req = hand /\ Readable(rep)
  BY <1>2, <1>3, StatusReply
<1> HIDE DEF rep, st
<1>5. hand.op \notin {"GET_RUNTIME_CONFIG", "COL_STATUS", "SET_RUNTIME_CONFIG",
                      "ASSIGN_MGMT_PASID", "REGISTER_ASYNC"}
  BY <1>1 DEF NotImplemented, Unknown
<1>6. Good(rep)
  BY <1>4, <1>5, GoodOther
<1>7. ~Async(hand) /\ (\A t \in Types : ~Sets(hand, t)) /\ ~Assigns(hand)
  BY <1>5 DEF Async, Sets, Assigns
<1>8. UNCHANGED <<fw_alive, async_registered, left, config>> /\ fw_suspended' = fw_suspended
  BY <1>1 DEF fw
<1> QED BY <1>1, <1>2, <1>4, <1>6, <1>7, <1>8, PlainAnswer

\* A registration for events is kept, and not answered.
LEMMA RegisterAsyncKeeps ==
    ASSUME IInv, RegisterAsync
    PROVE  IInv'
<1>1. /\ hand # NoReq /\ hand.op = "REGISTER_ASYNC" /\ hand.ok
      /\ hand' = NoReq /\ async_registered' = TRUE /\ left' = FALSE
      /\ UNCHANGED <<requests, replies, done, wrote, call, ghosts>>
      /\ UNCHANGED <<fw_alive, fw_suspended, config>>
  BY DEF RegisterAsync, WellFormed, Handles, AsyncOutcome, Unanswered
<1>2. /\ requests' = requests /\ replies' = replies /\ call' = call
      /\ rt_cfg' = rt_cfg /\ mgmt_pasid' = mgmt_pasid
      /\ wanted' = wanted /\ wanted_pasid' = wanted_pasid
      /\ Pending' = requests
  BY <1>1 DEF config, ghosts, Pending
<1>3. /\ Queues /\ Quiet /\ Owned(Pending, replies, call)
      /\ Followed(Pending, replies, call, Held)
      /\ \A i \in 1 .. Len(Pending) : Lawful(Pending[i])
      /\ Settled(Pending, rt_cfg, mgmt_pasid, wanted, wanted_pasid)
      /\ \A i \in 1 .. Len(replies) : Good(replies[i])
      /\ Held \in BOOLEAN /\ Configs /\ DumpInv
  BY DEF IInv, Held
<1>4. /\ Pending \in Seq(Requests) /\ Len(requests) \in Nat /\ Pending[1] = hand
      /\ Len(Pending) = Len(requests) + 1
      /\ \A i \in 1 .. Len(requests) : Pending[i + 1] = requests[i]
  BY <1>1, <1>3, PendingFacts
<1>5. /\ requests \in Seq(Requests) /\ replies \in Seq(Replies)
      /\ call \in [Callers -> Requests \cup {NoReq}]
  BY <1>3 DEF Queues
<1>6. Queues' /\ Configs'
  BY <1>1, <1>2, <1>3 DEF Queues, Configs
<1>7. Flags'
  BY Zenon, <1>1 DEF IInv, Flags
<1>8. Quiet'
  BY <1>1, <1>3 DEF Quiet
<1>9. DumpInv'
  <2>1. done = 0 /\ wrote = {}
    BY <1>1, <1>3 DEF DumpInv, Dumping, WellFormed, Handles
  <2>2. ~Dumping'
    BY <1>1 DEF Dumping, WellFormed, Handles
  <2> QED BY <1>1, <2>1, <2>2 DEF DumpInv
<1>10. Owned(requests, replies, call) /\ Followed(requests, replies, call, TRUE)
  <2>1. Async(Pending[1])
    BY <1>1, <1>4 DEF Async
  <2> QED BY <1>3, <1>4, <1>5, <2>1, OwnedKept
<1>11. \A i \in 1 .. Len(requests) : Lawful(requests[i])
  <2>1. \A i \in 1 .. Len(requests) : i + 1 \in 1 .. Len(Pending)
    BY <1>4
  <2> QED BY <1>3, <1>4, <2>1
<1>12. Settled(requests, rt_cfg, mgmt_pasid, wanted, wanted_pasid)
  <2>1. ~Assigns(Pending[1]) /\ \A t \in Types : ~Sets(Pending[1], t)
    BY <1>1, <1>4 DEF Assigns, Sets
  <2> QED BY <1>3, <1>4, <1>5, <2>1, SettledHandle
<1>13. Held' = TRUE
  BY <1>1 DEF Held
<1> QED BY <1>1, <1>2, <1>3, <1>6, <1>7, <1>8, <1>9, <1>10, <1>11, <1>12, <1>13 DEF IInv

\* A column dump that is refused.
LEMMA ColStatusRefusedKeeps ==
    ASSUME IInv, ColStatusRefused
    PROVE  IInv'
<1> DEFINE st == IF addr = 0 \/ size = 0 THEN "INVALID_PARAM" ELSE "AIE_DMA_ERROR"
           rep == ReplyStruct(hand, st, 0)
<1>1. /\ hand # NoReq /\ hand.op = "COL_STATUS" /\ Answered(rep) /\ UNCHANGED <<fw, config>>
  BY DEF ColStatusRefused, WellFormed, Handles
<1>2. /\ hand \in Requests /\ fw_suspended \in BOOLEAN
      /\ hand.args[1] \in Nat /\ hand.args[2] \in Nat
  BY <1>1, HandFacts
<1>3. st \in Statuses /\ st # "SUCCESS" /\ 0 \in Nat /\ hand.op \in StructOps
  BY <1>1 DEF Statuses, StructOps
<1>4. /\ rep \in Replies /\ rep.req = hand /\ Readable(rep)
      /\ rep.status = st /\ rep.value = 0 /\ rep.wrote = {}
  BY <1>2, <1>3, StructReply
<1> HIDE DEF rep, st
<1>5. AsDue(rep)
  BY <1>1, <1>4 DEF AsDue
<1>6. Exact(rep)
  <2>1. rep.req.args[1] .. (rep.req.args[1] + rep.value - 1) = {}
    BY <1>2, <1>4
  <2>2. ~(rep.value = rep.req.args[2] /\ rep.req.args[2] # 0)
    BY <1>4
  <2> QED BY <1>3, <1>4, <2>1, <2>2 DEF Exact
<1>7. Good(rep)
  BY <1>4, <1>5, <1>6 DEF Good
<1>8. ~Async(hand) /\ (\A t \in Types : ~Sets(hand, t)) /\ ~Assigns(hand)
  BY <1>1 DEF Async, Sets, Assigns
<1>9. UNCHANGED <<fw_alive, async_registered, left, config>> /\ fw_suspended' = fw_suspended
  BY <1>1 DEF fw
<1> QED BY <1>1, <1>2, <1>4, <1>7, <1>8, <1>9, PlainAnswer

\* Where a column dump is.
LEMMA DumpFacts ==
    ASSUME IInv, Dumping
    PROVE  /\ hand # NoReq /\ hand.op = "COL_STATUS" /\ hand.ok /\ hand \in Requests
           /\ addr = hand.args[1] /\ addr \in Nat \ {0}
           /\ size = hand.args[2] /\ size \in Nat \ {0}
           /\ done \in Nat /\ done <= size /\ wrote = addr .. (addr + done - 1)
           /\ Chunk \in Nat \ {0} /\ Piece \in Int
           /\ done < size => Piece \in 1 .. (size - done)
<1>1. /\ hand # NoReq /\ hand.op = "COL_STATUS" /\ hand.ok /\ addr # 0 /\ size # 0
  BY DEF Dumping, WellFormed, Handles
<1>2. hand \in Requests /\ addr = hand.args[1] /\ size = hand.args[2]
      /\ addr \in Nat /\ size \in Nat
  BY <1>1, HandFacts DEF addr, size
<1>3. done \in Nat /\ done <= size /\ wrote = addr .. (addr + done - 1)
  BY DEF IInv, DumpInv
<1>4. Chunk \in Nat \ {0}
  BY MertAssumption
<1>5. Piece \in Int /\ (done < size => Piece \in 1 .. (size - done))
  BY <1>2, <1>3, <1>4 DEF Piece
<1> QED BY <1>1, <1>2, <1>3, <1>4, <1>5

\* The answer to a column dump of which the first done bytes, and no byte outside the
\* buffer, are written.
LEMMA DumpAnswer ==
    ASSUME IInv, Dumping, NEW st \in {"SUCCESS", "AIE_DMA_ERROR"}, NEW written,
           NEW rep, rep = ReplyDump(st, done, written),
           wrote \subseteq written, written \subseteq addr .. (addr + size - 1),
           st = "SUCCESS" <=> done = size,
           Answered(rep), UNCHANGED <<fw, config>>
    PROVE  IInv'
<1>1. /\ hand # NoReq /\ hand.op = "COL_STATUS" /\ hand \in Requests
      /\ addr = hand.args[1] /\ addr \in Nat \ {0}
      /\ size = hand.args[2] /\ size \in Nat \ {0}
      /\ done \in Nat /\ wrote = addr .. (addr + done - 1)
  BY DumpFacts
<1>2. fw_suspended \in BOOLEAN
  BY <1>1, HandFacts
<1>3. st \in Statuses /\ hand.op \in StructOps /\ written \in SUBSET Nat
  <2>1. addr .. (addr + size - 1) \subseteq Nat
    BY <1>1
  <2> QED BY <1>1, <2>1 DEF Statuses, StructOps
<1>4. rep = [req |-> hand, size |-> RespStruct(hand.op).size,
             at |-> RespStruct(hand.op).at,
             status |-> st, value |-> done, wrote |-> written]
  BY DEF ReplyDump, ReplyStruct
<1>5. /\ rep \in Replies /\ rep.req = hand /\ Readable(rep)
      /\ rep.status = st /\ rep.value = done /\ rep.wrote = written
  <2>1. hand \in Requests /\ done \in Nat
    BY <1>1
  <2> QED BY ONLY <1>3, <1>4, <2>1, DumpReply
<1>6. AsDue(rep)
  BY <1>1, <1>5 DEF AsDue
<1>7. Exact(rep)
  <2>1. rep.req.args[1] = addr /\ rep.req.args[2] = size
    BY <1>1, <1>5
  <2>2. addr .. (addr + rep.value - 1) \subseteq rep.wrote
    BY <1>1, <1>5
  <2>3. rep.wrote \subseteq addr .. (addr + size - 1)
    BY <1>5
  <2>4. rep.status = "SUCCESS" <=> (rep.value = size /\ size # 0 /\ addr # 0)
    BY <1>1, <1>5
  <2> QED BY <2>1, <2>2, <2>3, <2>4 DEF Exact
<1>8. Good(rep)
  BY <1>5, <1>6, <1>7 DEF Good
<1>9. ~Async(hand) /\ (\A t \in Types : ~Sets(hand, t)) /\ ~Assigns(hand)
  BY <1>1 DEF Async, Sets, Assigns
<1>10. UNCHANGED <<fw_alive, async_registered, left, config>> /\ fw_suspended' = fw_suspended
  BY DEF fw
<1> QED BY <1>1, <1>2, <1>5, <1>8, <1>9, <1>10, PlainAnswer

\* The last piece is written.
LEMMA DumpDoneKeeps ==
    ASSUME IInv, DumpDone
    PROVE  IInv'
<1>1. /\ Dumping /\ done >= size /\ Answered(ReplyDump("SUCCESS", done, wrote))
      /\ UNCHANGED <<fw, config>>
  BY DEF DumpDone
<1>2. /\ addr \in Nat /\ size \in Nat /\ done \in Nat /\ done <= size
      /\ wrote = addr .. (addr + done - 1)
  BY <1>1, DumpFacts
<1>3. done = size
  BY <1>1, <1>2
<1>4. wrote \subseteq addr .. (addr + size - 1)
  BY <1>2, <1>3
<1> QED BY <1>1, <1>3, <1>4, DumpAnswer

\* A piece fails: what was written of it lies within the buffer too.
LEMMA DumpFailsKeeps ==
    ASSUME IInv, NEW part \in 0 .. (Chunk - 1), DumpFails(part)
    PROVE  IInv'
<1> DEFINE written == wrote \cup ((addr + done) .. (addr + done + part - 1))
<1>1. /\ Dumping /\ done < size /\ part < Piece
      /\ Answered(ReplyDump("AIE_DMA_ERROR", done, written))
      /\ UNCHANGED <<fw, config>>
  BY DEF DumpFails, Reported
<1>2. /\ addr \in Nat /\ size \in Nat /\ done \in Nat /\ done < size
      /\ wrote = addr .. (addr + done - 1) /\ Piece \in 1 .. (size - done)
      /\ Chunk \in Nat \ {0}
  BY <1>1, DumpFacts
<1>3. wrote \subseteq addr .. (addr + size - 1)
  BY <1>2
<1>4. (addr + done) .. (addr + done + part - 1) \subseteq addr .. (addr + size - 1)
  BY <1>1, <1>2
<1>5. wrote \subseteq written /\ written \subseteq addr .. (addr + size - 1)
  BY <1>3, <1>4
<1>6. done # size
  BY <1>2
<1> HIDE DEF written
<1> QED BY <1>1, <1>5, <1>6, DumpAnswer

\* Another piece is written.
LEMMA DumpPieceKeeps ==
    ASSUME IInv, DumpPiece
    PROVE  IInv'
<1>1. /\ Dumping /\ done < size /\ done' = done + Piece
      /\ wrote' = wrote \cup ((addr + done) .. (addr + done + Piece - 1))
      /\ UNCHANGED <<fw, config, requests, replies, hand, call, ghosts>>
  BY DEF DumpPiece
<1>2. /\ addr \in Nat /\ size \in Nat /\ done \in Nat /\ done < size
      /\ wrote = addr .. (addr + done - 1) /\ Piece \in 1 .. (size - done)
  BY <1>1, DumpFacts
<1>3. /\ fw_alive' = fw_alive /\ fw_suspended' = fw_suspended
      /\ async_registered' = async_registered /\ left' = left
      /\ rt_cfg' = rt_cfg /\ mgmt_pasid' = mgmt_pasid
      /\ wanted' = wanted /\ wanted_pasid' = wanted_pasid
      /\ requests' = requests /\ replies' = replies /\ hand' = hand /\ call' = call
  BY <1>1 DEF fw, config, ghosts
<1>4. Pending' = Pending /\ addr' = addr /\ size' = size /\ (Dumping' <=> Dumping)
  BY <1>3 DEF Pending, addr, size, Dumping, WellFormed, Handles
<1>5. done' \in Nat /\ done' <= size
  BY <1>1, <1>2
<1>6. wrote' = addr .. (addr + done' - 1)
  <2>1. wrote \cup ((addr + done) .. (addr + done + Piece - 1))
          = addr .. (addr + (done + Piece) - 1)
    BY <1>2
  <2> QED BY <1>1, <2>1
<1>7. DumpInv'
  BY <1>1, <1>4, <1>5, <1>6 DEF DumpInv
<1>8. Flags' /\ Configs' /\ Queues' /\ Quiet'
  BY <1>3 DEF IInv, Flags, Configs, Queues, Quiet
<1>9. Held' = Held
  BY <1>3 DEF Held
<1> QED BY <1>3, <1>4, <1>7, <1>8, <1>9 DEF IInv

\* The oldest request comes into hand.
LEMMA TakeKeeps ==
    ASSUME IInv, Take
    PROVE  IInv'
<1>1. /\ hand = NoReq /\ requests # <<>> /\ hand' = Head(requests)
      /\ requests' = Tail(requests)
      /\ UNCHANGED <<fw, config, replies, done, wrote, call, ghosts>>
  BY DEF Take
<1>2. /\ fw_alive' = fw_alive /\ fw_suspended' = fw_suspended
      /\ async_registered' = async_registered /\ left' = left
      /\ rt_cfg' = rt_cfg /\ mgmt_pasid' = mgmt_pasid
      /\ wanted' = wanted /\ wanted_pasid' = wanted_pasid
      /\ replies' = replies /\ call' = call /\ done' = done /\ wrote' = wrote
  BY <1>1 DEF fw, config, ghosts
<1>3. requests \in Seq(Requests)
  BY DEF IInv, Queues
<1>4. hand' \in Requests /\ requests' \in Seq(Requests) /\ hand' # NoReq
  BY <1>1, <1>3, TailFacts, RequestFacts
<1>5. Pending' = Pending
  <2>1. <<Head(requests)>> \o Tail(requests) = requests
    BY <1>1, <1>3, ConsHeadTail
  <2>2. Pending' = <<hand'>> \o requests' /\ Pending = requests
    BY <1>1, <1>4 DEF Pending
  <2> QED BY <1>1, <2>1, <2>2
<1>6. Flags' /\ Configs'
  BY <1>2 DEF IInv, Flags, Configs
<1>7. Queues'
  BY <1>2, <1>4 DEF IInv, Queues
<1>8. Quiet'
  BY <1>1, <1>2 DEF IInv, Quiet
<1>9. DumpInv'
  <2>1. done = 0 /\ wrote = {}
    BY <1>1 DEF IInv, DumpInv, Dumping, WellFormed, Handles
  <2>2. hand'.args[1] \in Nat /\ hand'.args[2] \in Nat
    BY <1>4, RequestFacts
  <2>3. size' \in Nat /\ 0 <= size' /\ {} = addr' .. (addr' + 0 - 1)
    BY <2>2 DEF size, addr
  <2> QED BY <1>2, <2>1, <2>3 DEF DumpInv
<1>10. Held' = Held
  BY <1>2 DEF Held
<1> QED BY <1>2, <1>5, <1>6, <1>7, <1>8, <1>9, <1>10 DEF IInv

\* A call returns.
LEMMA ReturnKeeps ==
    ASSUME IInv, Return
    PROVE  IInv'
<1>1. /\ hand = NoReq /\ replies # <<>> /\ replies' = Tail(replies)
      /\ call' = [call EXCEPT ![Head(replies).req.by] = NoReq]
      /\ UNCHANGED <<fw, config, requests, loop, ghosts>>
  BY DEF Return
<1>2. /\ fw_alive' = fw_alive /\ fw_suspended' = fw_suspended
      /\ async_registered' = async_registered /\ left' = left
      /\ rt_cfg' = rt_cfg /\ mgmt_pasid' = mgmt_pasid
      /\ wanted' = wanted /\ wanted_pasid' = wanted_pasid
      /\ requests' = requests /\ hand' = hand /\ done' = done /\ wrote' = wrote
  BY <1>1 DEF fw, config, ghosts, loop
<1>3. /\ Queues /\ Owned(Pending, replies, call)
      /\ Followed(Pending, replies, call, Held)
      /\ replies \in Seq(Replies) /\ call \in [Callers -> Requests \cup {NoReq}]
      /\ Held \in BOOLEAN
      /\ \A i \in 1 .. Len(replies) : Good(replies[i])
  BY DEF IInv, Queues, Held
<1>4. /\ Tail(replies) \in Seq(Replies) /\ Head(replies) = replies[1]
      /\ Len(replies) = Len(Tail(replies)) + 1 /\ Len(Tail(replies)) \in Nat
      /\ \A i \in 1 .. Len(Tail(replies)) : Tail(replies)[i] = replies[i + 1]
  BY <1>1, <1>3, TailFacts
<1>5. Pending \in Seq(Requests) /\ Pending' = Pending
  BY <1>2, <1>3, PendingFacts DEF Pending
<1>6. call' = [call EXCEPT ![replies[1].req.by] = NoReq]
  BY <1>1, <1>4
<1>7. /\ Owned(Pending, Tail(replies), [call EXCEPT ![replies[1].req.by] = NoReq])
      /\ Followed(Pending, Tail(replies), [call EXCEPT ![replies[1].req.by] = NoReq],
                  Held)
  BY <1>1, <1>3, <1>5, OwnedReturn
<1>8. Owned(Pending', replies', call') /\ Followed(Pending', replies', call', Held')
  <2>1. Held' = Held
    BY <1>2 DEF Held
  <2> QED BY <1>1, <1>2, <1>5, <1>6, <1>7, <2>1
<1>9. \A i \in 1 .. Len(replies') : Good(replies'[i])
  <2>1. \A i \in 1 .. Len(Tail(replies)) : i + 1 \in 1 .. Len(replies)
    BY <1>4
  <2> QED BY <1>1, <1>3, <1>4, <2>1
<1>10. Flags' /\ Configs' /\ Quiet'
  BY <1>2 DEF IInv, Flags, Configs, Quiet
<1>11. Queues'
  <2>1. call' \in [Callers -> Requests \cup {NoReq}]
    BY <1>3, <1>6
  <2> QED BY <1>1, <1>2, <1>3, <1>4, <2>1 DEF Queues
<1>12. DumpInv'
  BY <1>2 DEF IInv, DumpInv, Dumping, WellFormed, Handles, addr, size
<1> QED BY <1>2, <1>5, <1>8, <1>9, <1>10, <1>11, <1>12 DEF IInv

\* A caller posts a request.
LEMMA CallKeeps ==
    ASSUME IInv, NEW c \in Callers, NEW op \in Ops, NEW ok \in BOOLEAN,
           NEW args \in Nat \X Nat, Call(c, op, ok, args),
           op = "SET_RUNTIME_CONFIG" /\ ok => args[2] \in Values,
           op = "ASSIGN_MGMT_PASID" /\ ok => args[1] \in Pasids
    PROVE  IInv'
<1> DEFINE r == Request(c, op, ok, args)
<1>1. /\ hand = NoReq /\ fw_alive /\ call[c] = NoReq
      /\ call' = [call EXCEPT ![c] = r] /\ requests' = Append(requests, r)
      /\ wanted' = IF op = "SET_RUNTIME_CONFIG" /\ ok /\ args[1] \in Types
                   THEN [wanted EXCEPT ![args[1]] = args[2]] ELSE wanted
      /\ wanted_pasid' = IF op = "ASSIGN_MGMT_PASID" /\ ok THEN args[1] ELSE wanted_pasid
      /\ UNCHANGED <<fw, config, replies, loop>>
  BY DEF Call
<1>2. /\ fw_alive' = fw_alive /\ fw_suspended' = fw_suspended
      /\ async_registered' = async_registered /\ left' = left
      /\ rt_cfg' = rt_cfg /\ mgmt_pasid' = mgmt_pasid
      /\ replies' = replies /\ hand' = hand /\ done' = done /\ wrote' = wrote
  BY <1>1 DEF fw, config, loop
<1>3. /\ Queues /\ Owned(requests, replies, call)
      /\ Followed(requests, replies, call, Held)
      /\ \A i \in 1 .. Len(requests) : Lawful(requests[i])
      /\ Settled(requests, rt_cfg, mgmt_pasid, wanted, wanted_pasid)
      /\ requests \in Seq(Requests) /\ replies \in Seq(Replies)
      /\ call \in [Callers -> Requests \cup {NoReq}] /\ Held \in BOOLEAN
      /\ rt_cfg \in [Types -> Values] /\ mgmt_pasid \in Pasids
      /\ wanted \in [Types -> Values] /\ wanted_pasid \in Pasids
  BY <1>1 DEF IInv, Queues, Held, Configs, Pending
<1>4. /\ r \in Requests /\ r.by = c /\ r.op = op /\ r.ok = ok /\ r.args = args
      /\ r.due = Due(op, ok, args)
  <2>1. Due(op, ok, args) \in Values
    BY <1>3, MertAssumption DEF Due
  <2> QED BY <2>1 DEF Request, Requests
<1> HIDE DEF r
<1>5. \A t \in Types : Gets(r, t) => r.due = wanted[t]
  BY <1>4 DEF Gets, Due
<1>6. /\ wanted' \in [Types -> Values]
      /\ \A t \in Types : wanted'[t] = IF Sets(r, t) THEN r.args[2] ELSE wanted[t]
  <2>1. \A t : Sets(r, t) <=> op = "SET_RUNTIME_CONFIG" /\ ok /\ t = args[1]
    BY <1>4 DEF Sets
  <2>2. CASE op = "SET_RUNTIME_CONFIG" /\ ok /\ args[1] \in Types
    BY <1>1, <1>3, <1>4, <2>1, <2>2
  <2>3. CASE ~(op = "SET_RUNTIME_CONFIG" /\ ok /\ args[1] \in Types)
    BY <1>1, <1>3, <1>4, <2>1, <2>3
  <2> QED BY <2>2, <2>3
<1>7. /\ wanted_pasid' \in Pasids
      /\ wanted_pasid' = IF Assigns(r) THEN r.args[1] ELSE wanted_pasid
  BY <1>1, <1>3, <1>4 DEF Assigns
<1>8. Pending' = Append(requests, r)
  BY <1>1, <1>2 DEF Pending
<1>9. Settled(Append(requests, r), rt_cfg, mgmt_pasid, wanted', wanted_pasid')
  BY <1>3, <1>4, <1>5, <1>6, <1>7, SettledCall
<1>10. /\ Owned(Append(requests, r), replies, [call EXCEPT ![c] = r])
       /\ Followed(Append(requests, r), replies, [call EXCEPT ![c] = r], Held)
  BY <1>1, <1>3, <1>4, OwnedCall
<1>11. /\ Append(requests, r) \in Seq(Requests) /\ Len(requests) \in Nat
       /\ Len(Append(requests, r)) = Len(requests) + 1
       /\ Append(requests, r)[Len(requests) + 1] = r
       /\ \A i \in 1 .. Len(requests) : Append(requests, r)[i] = requests[i]
  BY <1>3, <1>4, AppendFacts
<1>12. ASSUME NEW i \in 1 .. Len(Append(requests, r))
       PROVE  Lawful(Append(requests, r)[i])
  <2>1. Lawful(r)
    BY <1>4 DEF Lawful
  <2>2. i \in 1 .. Len(requests) \/ i = Len(requests) + 1
    BY <1>11
  <2> QED BY <1>3, <1>11, <2>1, <2>2
<1>13. Configs'
  BY <1>2, <1>3, <1>6, <1>7 DEF Configs
<1>14. Flags'
  BY <1>2 DEF IInv, Flags
<1>15. Queues'
  <2>1. call' \in [Callers -> Requests \cup {NoReq}]
    BY <1>1, <1>3, <1>4
  <2> QED BY <1>1, <1>2, <1>3, <1>11, <2>1 DEF Queues
<1>16. Quiet'
  BY <1>1, <1>2 DEF Quiet
<1>17. DumpInv'
  BY <1>2 DEF IInv, DumpInv, Dumping, WellFormed, Handles, addr, size
<1>18. Owned(Pending', replies', call') /\ Followed(Pending', replies', call', Held')
  <2>1. Held' = Held
    BY <1>2 DEF Held
  <2> QED BY <1>1, <1>2, <1>8, <1>10, <2>1
<1>19. Settled(Pending', rt_cfg', mgmt_pasid', wanted', wanted_pasid')
  BY <1>2, <1>8, <1>9
<1>20. /\ \A i \in 1 .. Len(Pending') : Lawful(Pending'[i])
       /\ \A i \in 1 .. Len(replies') : Good(replies'[i])
  BY <1>2, <1>8, <1>12 DEF IInv
<1> QED BY <1>13, <1>14, <1>15, <1>16, <1>17, <1>18, <1>19, <1>20 DEF IInv

\* The channel is emptied, all calls are given up, and what was wanted is what there is.
LEMMA EmptyKeeps ==
    ASSUME hand' = NoReq, requests' = <<>>, replies' = <<>>,
           call' = [c \in Callers |-> NoReq], ~Held', fw_alive' \/ ~async_registered',
           done' = 0, wrote' = {}, Flags', Configs',
           wanted' = rt_cfg', wanted_pasid' = mgmt_pasid'
    PROVE  IInv'
<1>1. Pending' = <<>>
  BY DEF Pending
<1>2. /\ <<>> \in Seq(Requests) /\ <<>> \in Seq(Replies) /\ Len(<<>>) = 0
      /\ 1 .. Len(<<>>) = {}
  BY EmptySeq
<1>3. Queues'
  <2>1. [c \in Callers |-> NoReq] \in [Callers -> Requests \cup {NoReq}]
    OBVIOUS
  <2> QED BY <1>2, <2>1 DEF Queues
<1>4. Quiet' /\ DumpInv'
  BY DEF Quiet, DumpInv, Dumping, WellFormed, Handles
<1>5. Owned(<<>>, <<>>, call') /\ Followed(<<>>, <<>>, call', FALSE)
  BY OwnedNone
<1>6. Settled(<<>>, rt_cfg', mgmt_pasid', wanted', wanted_pasid')
  BY <1>2, SettledEmpty
<1>7. Owned(Pending', replies', call') /\ Followed(Pending', replies', call', Held')
  <2>1. Held' = FALSE
    BY DEF Held
  <2> QED BY <1>1, <1>5, <2>1
<1>8. Settled(Pending', rt_cfg', mgmt_pasid', wanted', wanted_pasid')
  BY <1>1, <1>6
<1>9. /\ \A i \in 1 .. Len(Pending') : Lawful(Pending'[i])
      /\ \A i \in 1 .. Len(replies') : Good(replies'[i])
  BY <1>1, <1>2
<1> QED BY <1>3, <1>4, <1>7, <1>8, <1>9 DEF IInv

\* The configuration after a reset.
LEMMA ZerosFacts == Zeros \in [Types -> Values] /\ 0 \in Pasids
BY MertAssumption DEF Zeros

\* Nothing in hand, nothing written.
LEMMA AtRest ==
    ASSUME IInv, hand = NoReq
    PROVE  done = 0 /\ wrote = {}
BY DEF IInv, DumpInv, Dumping, WellFormed, Handles

\* A reset of the device.
LEMMA ResetKeeps ==
    ASSUME IInv, Reset
    PROVE  IInv'
<1>1. /\ hand = NoReq /\ fw_alive' = FALSE /\ fw_suspended' = FALSE
      /\ async_registered' = FALSE /\ left' = FALSE /\ rt_cfg' = Zeros /\ mgmt_pasid' = 0
      /\ wanted' = Zeros /\ wanted_pasid' = 0
      /\ requests' = <<>> /\ replies' = <<>> /\ call' = [c \in Callers |-> NoReq]
      /\ hand' = hand /\ done' = done /\ wrote' = wrote
  BY DEF Reset, ChannelReset, loop
<1>2. Flags'
  BY Zenon, <1>1 DEF Flags
<1>3. Configs'
  BY <1>1, ZerosFacts DEF Configs
<1>4. ~Held' /\ ~async_registered'
  BY <1>1 DEF Held
<1> QED BY <1>1, <1>2, <1>3, <1>4, AtRest, EmptyKeeps

\* A boot: nobody waits, so that a registration is one that was left; requests not
\* handled are lost, and no longer wanted.
LEMMA FwBootKeeps ==
    ASSUME IInv, FwBoot
    PROVE  IInv'
<1>1. /\ hand = NoReq /\ fw_alive' = TRUE /\ fw_suspended' = FALSE
      /\ requests' = <<>> /\ replies' = <<>> /\ call' = [c \in Callers |-> NoReq]
      /\ hand' = hand /\ done' = done /\ wrote' = wrote
      /\ async_registered' = async_registered /\ left' = async_registered
      /\ rt_cfg' = rt_cfg /\ mgmt_pasid' = mgmt_pasid
      /\ wanted' = rt_cfg /\ wanted_pasid' = mgmt_pasid
  BY DEF FwBoot, ChannelReset, WantedIsSet, loop, config
<1>2. ~Held'
  BY <1>1 DEF Held
<1>3. Flags'
  BY Zenon, <1>1 DEF IInv, Flags
<1>4. Configs'
  BY <1>1 DEF IInv, Configs
<1> QED BY <1>1, <1>2, <1>3, <1>4, AtRest, EmptyKeeps

\* A shutdown: the same, and the registration goes too.
LEMMA FwShutdownKeeps ==
    ASSUME IInv, FwShutdown
    PROVE  IInv'
<1>1. /\ hand = NoReq /\ fw_alive' = FALSE /\ async_registered' = FALSE
      /\ fw_suspended' = fw_suspended /\ left' = FALSE
      /\ requests' = <<>> /\ replies' = <<>> /\ call' = [c \in Callers |-> NoReq]
      /\ hand' = hand /\ done' = done /\ wrote' = wrote /\ rt_cfg' = rt_cfg
      /\ mgmt_pasid' = mgmt_pasid /\ wanted' = rt_cfg /\ wanted_pasid' = mgmt_pasid
  BY DEF FwShutdown, Shutdown, ChannelReset, WantedIsSet, loop, config
<1>2. Flags'
  BY Zenon, <1>1 DEF IInv, Flags
<1>3. Configs'
  BY <1>1 DEF IInv, Configs
<1>4. ~Held' /\ ~async_registered'
  BY <1>1 DEF Held
<1> QED BY <1>1, <1>2, <1>3, <1>4, AtRest, EmptyKeeps

\* The arguments of a request.
LEMMA ArgsFacts ==
    ASSUME NEW op \in Ops, NEW args \in ArgsOf(op)
    PROVE  /\ args \in Nat \X Nat
           /\ op = "SET_RUNTIME_CONFIG" => args[2] \in Values
           /\ op = "ASSIGN_MGMT_PASID" => args[1] \in Pasids
BY MertAssumption DEF ArgsOf
-----------------------------------------------------------------------------
(* The theorems                                                            *)

\* The invariant holds at first,
LEMMA InitInv == Init => IInv
<1> SUFFICES ASSUME Init PROVE IInv
  OBVIOUS
<1> USE DEF Init
<1>1. Pending = <<>>
  BY DEF Pending
<1>2. /\ <<>> \in Seq(Requests) /\ <<>> \in Seq(Replies) /\ Len(<<>>) = 0
      /\ 1 .. Len(<<>>) = {}
  BY EmptySeq
<1>3. Queues
  <2>1. [c \in Callers |-> NoReq] \in [Callers -> Requests \cup {NoReq}]
    OBVIOUS
  <2> QED BY <1>2, <2>1 DEF Queues
<1>4. Quiet /\ DumpInv
  BY DEF Quiet, DumpInv, Dumping, WellFormed, Handles
<1>5. Owned(<<>>, <<>>, call) /\ Followed(<<>>, <<>>, call, FALSE)
  BY OwnedNone
<1>6. Settled(<<>>, rt_cfg, mgmt_pasid, wanted, wanted_pasid)
  <2>1. rt_cfg = wanted /\ mgmt_pasid = wanted_pasid
    OBVIOUS
  <2> QED BY ONLY <1>2, <2>1, SettledEmpty
<1>7. Flags
  BY Zenon DEF Flags
<1>8. Configs
  BY ZerosFacts DEF Configs
<1>9. Held = FALSE
  BY DEF Held
<1> QED BY <1>1, <1>2, <1>3, <1>4, <1>5, <1>6, <1>7, <1>8, <1>9 DEF IInv

\* each step keeps it,
LEMMA NextInv == IInv /\ [Next]_vars => IInv'
<1> SUFFICES ASSUME IInv, [Next]_vars PROVE IInv'
  OBVIOUS
<1>1. CASE Reset
  BY <1>1, ResetKeeps
<1>2. CASE FwBoot
  BY <1>2, FwBootKeeps
<1>3. CASE FwShutdown
  BY <1>3, FwShutdownKeeps
<1>4. ASSUME NEW c \in Callers, NEW op \in Ops, NEW args \in ArgsOf(op),
             Call(c, op, TRUE, args)
      PROVE  IInv'
  BY <1>4, ArgsFacts, CallKeeps
<1>5. ASSUME NEW c \in Callers, NEW op \in WithPayload, Call(c, op, FALSE, <<0, 0>>)
      PROVE  IInv'
  <2>1. op \in Ops /\ <<0, 0>> \in Nat \X Nat
    BY DEF Ops
  <2> QED BY <1>5, <2>1, CallKeeps
<1>6. CASE Return
  BY <1>6, ReturnKeeps
<1>7. CASE Handle
  <2>1. CASE \E part \in 0 .. (Chunk - 1) : DumpFails(part)
    BY <2>1, DumpFailsKeeps
  <2>2. CASE ~\E part \in 0 .. (Chunk - 1) : DumpFails(part)
    BY <1>7, <2>2, TakeKeeps, TooShortKeeps, QueryKeeps, SetRuntimeConfigKeeps,
       GetRuntimeConfigKeeps, AssignMgmtPasidKeeps, SuspendKeeps, ContextKeeps,
       RegisterAsyncKeeps, RefuseKeeps, ColStatusRefusedKeeps, DumpPieceKeeps,
       DumpDoneKeeps DEF Handle
  <2> QED BY <2>1, <2>2
<1>8. CASE UNCHANGED vars
  <2>1. /\ UNCHANGED <<fw_alive, fw_suspended, async_registered, left, rt_cfg, mgmt_pasid>>
        /\ UNCHANGED <<requests, replies, hand, done, wrote, call, wanted, wanted_pasid>>
    BY <1>8 DEF vars, fw, config, loop, ghosts
  <2>2. Flags' /\ Configs' /\ Queues' /\ Quiet'
    BY <2>1 DEF IInv, Flags, Configs, Queues, Quiet
  <2>3. DumpInv'
    BY <2>1 DEF IInv, DumpInv, Dumping, WellFormed, Handles, addr, size
  <2>4. Pending' = Pending
    BY <2>1 DEF Pending
  <2>5. Held' = Held
    BY <2>1 DEF Held
  <2> QED BY <2>1, <2>2, <2>3, <2>4, <2>5 DEF IInv
<1> QED BY <1>1, <1>2, <1>3, <1>4, <1>5, <1>6, <1>7, <1>8 DEF Next

\* and so it holds always.
LEMMA InvHolds == Spec => []IInv
BY InitInv, NextInv, PTL DEF Spec

\* What IInv is for: each part of it says one of the properties.
LEMMA InvTyped == IInv => TypeOK
<1> SUFFICES ASSUME IInv PROVE TypeOK
  OBVIOUS
<1>1. Flags
  BY DEF IInv
<1>2. /\ rt_cfg \in [Types -> Values] /\ wanted \in [Types -> Values]
      /\ mgmt_pasid \in Pasids /\ wanted_pasid \in Pasids
      /\ requests \in Seq(Requests) /\ replies \in Seq(Replies)
      /\ hand \in Requests \cup {NoReq} /\ call \in [Callers -> Requests \cup {NoReq}]
  BY DEF IInv, Configs, Queues
<1>3. ASSUME NEW i \in 1 .. Len(replies)
      PROVE  /\ replies[i].req \in Requests /\ replies[i].status \in Statuses
             /\ replies[i].wrote \subseteq Nat
  <2>1. replies[i] \in Replies
    BY <1>2, ElementOfSeq
  <2> QED BY <2>1 DEF Replies
<1>4. done \in Nat /\ (hand = NoReq \/ done <= size)
  <2>1. done \in Nat /\ (~Dumping => done = 0) /\ (Dumping => done <= size)
    BY DEF IInv, DumpInv
  <2>2. hand # NoReq => size \in Nat
    BY HandFacts DEF size
  <2> QED BY <2>1, <2>2
<1> QED BY <1>1, <1>2, <1>3, <1>4 DEF TypeOK, Flags

\* The replies are readable,
LEMMA InvReadable == IInv => RepliesReadable
BY DEF IInv, Good, Readable, RepliesReadable

\* the configuration is as wanted,
LEMMA InvConfig == IInv => ConfigAsWanted
<1> SUFFICES ASSUME IInv PROVE ConfigAsWanted
  OBVIOUS
<1>1. \A i \in 1 .. Len(replies) : AsDue(replies[i])
  BY DEF IInv, Good
<1>2. ASSUME requests = <<>>, hand = NoReq
      PROVE  rt_cfg = wanted /\ mgmt_pasid = wanted_pasid
  <2>1. Pending = <<>> /\ <<>> \in Seq(Requests) /\ Len(<<>>) = 0
    BY <1>2, EmptySeq DEF Pending
  <2>2. Settled(<<>>, rt_cfg, mgmt_pasid, wanted, wanted_pasid)
    BY <2>1 DEF IInv
  <2>3. (\A t \in Types : wanted[t] = rt_cfg[t]) /\ wanted_pasid = mgmt_pasid
    BY <2>1, <2>2, SettledEmpty
  <2> QED BY <2>3 DEF IInv, Configs
<1> QED BY <1>1, <1>2 DEF ConfigAsWanted, AsDue

\* the dumps are exact,
LEMMA InvExact == IInv => DumpExact
BY DEF IInv, Good, Exact, DumpExact

\* How often a number is in a set of at most one number.
LEMMA AtMostOne ==
    ASSUME NEW S, NEW k
    PROVE  (S = {} => Cardinality(S) = 0) /\ (S = {k} => Cardinality(S) = 1)
BY FS_EmptySet, FS_Singleton

\* and calls are answered once.
LEMMA InvAnswered == IInv => AnsweredOnce
<1> SUFFICES ASSUME IInv PROVE AnsweredOnce
  OBVIOUS
<1>1. /\ Queues /\ Owned(Pending, replies, call)
      /\ Followed(Pending, replies, call, Held)
      /\ requests \in Seq(Requests) /\ replies \in Seq(Replies)
      /\ call \in [Callers -> Requests \cup {NoReq}]
  BY DEF IInv, Queues
<1>2. /\ Pending \in Seq(Requests) /\ Len(requests) \in Nat
      /\ hand = NoReq => Pending = requests
      /\ hand # NoReq => /\ Pending[1] = hand /\ Len(Pending) = Len(requests) + 1
                         /\ \A i \in 1 .. Len(requests) : Pending[i + 1] = requests[i]
  BY <1>1, PendingFacts
<1>3. /\ \A i \in 1 .. Len(Pending) : Pending[i] # NoReq
      /\ \A i \in 1 .. Len(replies) : replies[i].req # NoReq
  BY <1>1, <1>2, MemberFacts
\* The number of requests of c that are posted or in hand is that of its places in
\* Pending.
<1>4. ASSUME NEW c \in Callers, \A i \in 1 .. Len(Pending) : Pending[i].by # c
      PROVE  Posted(c) = {} /\ ~InHand(c)
  <2>1. CASE hand = NoReq
    BY <1>2, <1>4, <2>1 DEF Posted, InHand
  <2>2. CASE hand # NoReq
    <3>1. 1 \in 1 .. Len(Pending) /\ \A i \in 1 .. Len(requests) : i + 1 \in 1 .. Len(Pending)
      BY <1>2, <2>2
    <3>2. ~InHand(c)
      BY <1>2, <1>4, <2>2, <3>1 DEF InHand
    <3>3. \A i \in 1 .. Len(requests) : requests[i].by # c
      BY <1>2, <1>4, <2>2, <3>1
    <3> QED BY <3>2, <3>3 DEF Posted
  <2> QED BY <2>1, <2>2
<1>5. ASSUME NEW c \in Callers, NEW k \in 1 .. Len(Pending), Pending[k].by = c
      PROVE  /\ Answers(c) = {}
             /\ \/ Posted(c) = {} /\ InHand(c)
                \/ (\E i : Posted(c) = {i}) /\ ~InHand(c)
  <2>1. Answers(c) = {}
    BY <1>1, <1>5 DEF Answers, Owned
  <2>2. \A i \in 1 .. Len(Pending) : Pending[i].by = c <=> i = k
    BY <1>1, <1>5 DEF Owned
  <2>3. CASE hand = NoReq
    <3>1. Posted(c) = {k}
      BY <1>2, <2>2, <2>3 DEF Posted
    <3> QED BY <2>1, <2>3, <3>1 DEF InHand
  <2>4. CASE hand # NoReq
    <3>1. /\ 1 \in 1 .. Len(Pending)
          /\ \A i \in 1 .. Len(requests) : i + 1 \in 1 .. Len(Pending) /\ i + 1 # 1
          /\ k = 1 \/ (k - 1 \in 1 .. Len(requests) /\ (k - 1) + 1 = k)
          /\ \A i \in 1 .. Len(requests) : i + 1 = k <=> i = k - 1
      BY <1>2, <2>4
    <3>2. \A i \in 1 .. Len(requests) : requests[i].by = c <=> i + 1 = k
      BY <1>2, <2>2, <2>4, <3>1
    <3>3. InHand(c) <=> k = 1
      BY <1>2, <2>2, <2>4, <3>1 DEF InHand
    <3>4. CASE k = 1
      <4>1. Posted(c) = {}
        BY <3>1, <3>2, <3>4 DEF Posted
      <4> QED BY <2>1, <3>3, <3>4, <4>1
    <3>5. CASE k # 1
      <4>1. Posted(c) = {k - 1}
        BY <3>1, <3>2, <3>5 DEF Posted
      <4> QED BY <2>1, <3>3, <3>5, <4>1
    <3> QED BY <3>4, <3>5
  <2> QED BY <2>3, <2>4
<1>6. ASSUME NEW c \in Callers, NEW k \in 1 .. Len(replies), replies[k].req.by = c
      PROVE  Answers(c) = {k} /\ Posted(c) = {} /\ ~InHand(c)
  <2>1. \A i \in 1 .. Len(replies) : replies[i].req.by = c <=> i = k
    BY <1>1, <1>6 DEF Owned
  <2>2. Answers(c) = {k}
    BY <2>1 DEF Answers
  <2>3. \A i \in 1 .. Len(Pending) : Pending[i].by # c
    BY <1>1, <1>6 DEF Owned
  <2> QED BY <1>4, <2>2, <2>3
<1>7. ASSUME NEW c \in Callers, \A i \in 1 .. Len(replies) : replies[i].req.by # c
      PROVE  Answers(c) = {}
  BY <1>7 DEF Answers
<1> DEFINE places(c) == Cardinality(Posted(c)) + Cardinality(Answers(c))
                          + (IF InHand(c) THEN 1 ELSE 0)
<1>8. ASSUME NEW c \in Callers
      PROVE  /\ call[c] = NoReq => places(c) = 0
             /\ call[c] # NoReq => \/ places(c) = 1
                                   \/ places(c) = 0 /\ Async(call[c]) /\ Held
  <2>1. CASE \E k \in 1 .. Len(Pending) : Pending[k].by = c
    <3>1. PICK k \in 1 .. Len(Pending) : Pending[k].by = c
      BY <2>1
    <3>2. call[c] # NoReq
      BY <1>1, <1>3, <3>1 DEF Owned
    <3>3. /\ Answers(c) = {}
          /\ \/ Posted(c) = {} /\ InHand(c)
             \/ (\E i : Posted(c) = {i}) /\ ~InHand(c)
      BY <1>5, <3>1
    <3>4. /\ Cardinality(Answers(c)) = 0
          /\ \/ Cardinality(Posted(c)) = 0 /\ InHand(c)
             \/ Cardinality(Posted(c)) = 1 /\ ~InHand(c)
      BY Zenon, <3>3, AtMostOne
    <3> QED BY <3>2, <3>4
  <2>2. CASE \E k \in 1 .. Len(replies) : replies[k].req.by = c
    <3>1. PICK k \in 1 .. Len(replies) : replies[k].req.by = c
      BY <2>2
    <3>2. call[c] # NoReq
      BY <1>1, <1>3, <3>1 DEF Owned
    <3>3. Answers(c) = {k} /\ Posted(c) = {} /\ ~InHand(c)
      BY <1>6, <3>1
    <3>4. Cardinality(Answers(c)) = 1 /\ Cardinality(Posted(c)) = 0
      BY Zenon, <3>3, AtMostOne
    <3> QED BY <3>2, <3>3, <3>4
  <2>3. CASE /\ \A i \in 1 .. Len(Pending) : Pending[i].by # c
             /\ \A i \in 1 .. Len(replies) : replies[i].req.by # c
    <3>1. Posted(c) = {} /\ Answers(c) = {} /\ ~InHand(c)
      BY <1>4, <1>7, <2>3
    <3>2. Cardinality(Answers(c)) = 0 /\ Cardinality(Posted(c)) = 0
      BY Zenon, <3>1, AtMostOne
    <3>3. call[c] # NoReq => Async(call[c]) /\ Held
      BY <1>1, <2>3 DEF Followed
    <3> QED BY <3>1, <3>2, <3>3
  <2> QED BY <2>1, <2>2, <2>3
<1> HIDE DEF places
<1>9. ASSUME NEW c \in Callers
      PROVE  CASE call[c] = NoReq -> places(c) = 0
               [] Async(call[c])  ->
                    places(c) = 1 \/ (places(c) = 0 /\ async_registered /\ ~left)
               [] OTHER           -> places(c) = 1
  <2>1. ~(call[c] = NoReq /\ Async(call[c]))
    BY DEF Async
  <2> QED BY <1>8, <2>1 DEF Held
<1>10. async_registered /\ ~left => \E c \in Callers : Async(call[c])
  BY <1>1 DEF Followed, Held
<1> QED BY <1>9, <1>10 DEF AnsweredOnce, places

\* Every field keeps its range, and the column dump never passes the end of its
\* buffer, for every number of callers, entries and buffers.
THEOREM MertTyped == Spec => []TypeOK
BY InvHolds, InvTyped, PTL

\* Each answer of xdna_mert_handle(), on every error path too, has the size and the
\* place of the status that the driver's structure for its opcode has.
THEOREM AnswersReadable == Spec => []RepliesReadable
BY InvHolds, InvReadable, PTL

\* Whatever callers write and read the runtime configuration in whatever order, each
\* reads what was asked for last before, across releases and boots of the firmware.
THEOREM ConfigurationKept == Spec => []ConfigAsWanted
BY InvHolds, InvConfig, PTL

\* Wherever the DMA of a column dump fails, what is reported was written, nothing
\* outside the buffer was, and success means all of it.
THEOREM DumpsExact == Spec => []DumpExact
BY InvHolds, InvExact, PTL

\* However many callers there are: the request of a call is in one place, and is
\* answered once; only a registration for events stays with the firmware; and if the
\* firmware thinks it has one and nobody waits, it was booted over.
THEOREM CallsAnsweredOnce == Spec => []AnsweredOnce
BY InvHolds, InvAnswered, PTL
=============================================================================
