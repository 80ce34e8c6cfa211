-------------------------- MODULE BlobTransportProofs --------------------------
(***************************************************************************)
(* The blob store transport, for any request, fragment sizes, responses,   *)
(* number of attempts and faults.                                          *)
(***************************************************************************)
EXTENDS BlobTransport, BytesProofs, FiniteSetTheorems

Attempts == 0..MAX_ALLOWED_REQUEST_ATTEMPTS + 1

ReqBlob(t)  == blobs[ReqKey(t)]
RespBlob(t) == blobs[RespKey(t)]

PacketType ==
  [op : Ops, seq : Nat, try : Attempts, key : Keys, pos : Nat, count : Nat,
   body : Seq(Byte)]

ReplyType ==
  [seq : Nat, code : {0, 12, 20}, mode : Nat, n : Nat, data : Seq(Byte)]

BlobType == [state : {"absent", "open", "final"}, data : Seq(Byte)]

ClientType ==
  /\ request \in Requests
  /\ pc \in Ops \cup {"connect", "ok", "err"}
  /\ seq \in Nat /\ sent \in {0, seq}
  /\ try \in Attempts
  /\ written \in 0..Len(request)
  /\ size \in Nat /\ got \in Seq(Byte)
  /\ pc \in {"connect", "ok", "err"} => sent = 0
  /\ pc \in {"connect", "create"} => written = 0
  /\ pc = "write" => written < Len(request)
  /\ pc = "finalize" => written = Len(request)
  /\ pc \notin {"read", "delete", "ok"} => got = <<>>
  /\ pc = "read" => Len(got) < size
  /\ pc = "delete" => Len(got) = size
  /\ pc = "ok" => Len(got) <= size
  /\ pc # "ok" => result = <<>>

StoreType ==
  /\ blobs \in [Keys -> BlobType]
  /\ executed \in Seq([body : Seq(Byte), try : Attempts, len : RespLens])

(* A packet as it was made.                                                *)
Shape(p) ==
  /\ p \in PacketType /\ p.seq \in 1..seq /\ p.try <= try
  /\ p.key = IF p.op \in {"info", "read", "delete"} THEN RespKey(p.try) ELSE ReqKey(p.try)
  /\ p.op = "write" =>
       /\ p.pos + Len(p.body) <= Len(request) /\ p.body # <<>>
       /\ p.body = SubSeq(request, p.pos + 1, p.pos + Len(p.body))
       /\ WriteHdr + Len(p.body) <= MaxWrite
  /\ p.op = "rest" => p.body = IF FitsOnePacket THEN request ELSE <<>>

(* The packet the client waits for.                                        *)
Current(p) ==
  /\ p.op = pc /\ p.try = try
  /\ p.pos = IF pc = "write" THEN written ELSE Len(got)
  /\ pc = "write" => Len(p.body) = WriteCount
  /\ pc = "read" => p.count = ReadCount

(* There is one packet of an attempt on its way at most, and it is not     *)
(* answered.                                                               *)
WireInv ==
  /\ \A p \in wire :
       /\ Shape(p)
       /\ p.try = try /\ pc # "err" => p.seq = sent
       /\ p.seq = sent => Current(p)
       /\ \A q \in wire : p.seq = q.seq \/ p.try = q.try => p = q
       /\ \A r \in replies : p.seq # r.seq
  /\ \A r \in replies : r \in ReplyType /\ r.seq \in 1..seq

-----------------------------------------------------------------------------
(* THE REQUEST                                                             *)

(* The blob of an attempt holds the beginning of the request, all of it    *)
(* when it is final.                                                       *)
HoldsRequest(t) ==
  /\ ReqBlob(t).state = "open" =>
       /\ Len(ReqBlob(t).data) <= Len(request)
       /\ ReqBlob(t).data = SubSeq(request, 1, Len(ReqBlob(t).data))
  /\ ReqBlob(t).state = "final" => ReqBlob(t).data = request
  /\ t > try => ReqBlob(t).state = "absent"

Holds(t, length) == ReqBlob(t).state = "open" => Len(ReqBlob(t).data) = length

UpInv ==
  /\ \A t \in Attempts : HoldsRequest(t)
  /\ \A p \in wire :
       /\ p.op = "create" => ReqBlob(p.try).state = "absent"
       /\ p.op = "write" => Holds(p.try, p.pos)
       /\ p.op = "finalize" => Holds(p.try, Len(request))
  /\ sent = 0 =>
       /\ pc \in {"connect", "create"} => ReqBlob(try).state = "absent"
       /\ pc = "write" => Holds(try, written)
       /\ pc = "finalize" => Holds(try, Len(request))
  /\ \A r \in replies : Acceptable(r) =>
       /\ pc = "create" => Holds(try, 0)
       /\ pc = "write" => Holds(try, written + WriteCount)

-----------------------------------------------------------------------------
(* THE RESPONSE                                                            *)

ExecutedFor(t) == {e \in DOMAIN executed : executed[e].try = t}

(* Copies of the number of an execution, as its response consists of.      *)
Copies(n, e) == [i \in 1..n |-> e]

NotExecuted(t) == ExecutedFor(t) = {} /\ RespBlob(t).state = "absent"

ExecutedInv ==
  /\ \A e \in DOMAIN executed : executed[e].body = request /\ executed[e].try <= try
  /\ \A e, d \in DOMAIN executed : executed[e].try = executed[d].try => e = d
  /\ \A t \in Attempts :
       /\ t > try => RespBlob(t).state = "absent"
       /\ RespBlob(t).state # "open"
       /\ RespBlob(t).state = "final" =>
            \E e \in ExecutedFor(t) : RespBlob(t).data = Copies(executed[e].len, e)
  /\ \A p \in wire : p.op = "rest" => NotExecuted(p.try)

DownInv ==
  /\ pc \in {"connect", "create", "write", "finalize"} => NotExecuted(try)
  /\ pc = "rest" /\ sent = 0 => NotExecuted(try)
  /\ pc \in {"info", "read", "delete", "ok"} => ExecutedFor(try) # {}
  /\ pc \in {"read", "delete"} => \A e \in ExecutedFor(try) :
       size = executed[e].len /\ got = Copies(Len(got), e)
  /\ pc = "ok" =>
       /\ RespBlob(try).state = "absent"
       /\ \A e \in ExecutedFor(try) : CutAtZero(result) = Copies(executed[e].len, e)

ReplyInv ==
  \A r \in replies : Acceptable(r) =>
    /\ pc = "rest" =>
         /\ ExecutedFor(try) # {}
         /\ r.mode = 0 =>
              /\ RespBlob(try).state = "absent"
              /\ \A e \in ExecutedFor(try) : r.data = Copies(executed[e].len, e)
    /\ pc = "info" => \A e \in ExecutedFor(try) : r.n = executed[e].len
    /\ pc = "read" => \A e \in ExecutedFor(try) :
         r.n \in 1..size - Len(got) /\ r.data = Copies(r.n, e)
    /\ pc = "delete" => RespBlob(try).state = "absent"

TransportInv ==
  ClientType /\ StoreType /\ WireInv /\ UpInv /\ ExecutedInv /\ DownInv /\ ReplyInv

-----------------------------------------------------------------------------
(* Every attempt has keys of its own.                                      *)
LEMMA KeyFacts ==
  ASSUME NEW t \in Attempts, NEW u \in Attempts
  PROVE  /\ ReqKey(t) \in Keys /\ RespKey(t) \in Keys /\ ReqKey(t) # RespKey(u)
         /\ ReqKey(t) = ReqKey(u) => t = u
         /\ RespKey(t) = RespKey(u) => t = u
  BY DEF ReqKey, RespKey, KeyOf, Keys, Attempts

LEMMA RequestFacts ==
  ASSUME request \in Requests
  PROVE  request \in Seq(Byte) /\ request # <<>> /\ Len(request) \in Nat /\ Len(request) > 0
  BY RequestsAssumption, LenProperties, EmptySeq

LEMMA SizeFacts ==
  /\ MAX_ALLOWED_REQUEST_ATTEMPTS \in Nat /\ Attempts \subseteq Nat /\ 0 \in Attempts
  /\ MaxWrite \in Nat /\ WriteHdr \in Nat /\ WriteHdr < MaxWrite
  /\ MaxRead \in Nat /\ ReadHdr \in Nat /\ ReadHdr < MaxRead
  BY SizesAssumption DEF Attempts

LEMMA ExecutedFacts ==
  ASSUME StoreType
  PROVE  /\ Len(executed) \in Nat /\ DOMAIN executed = 1..Len(executed)
         /\ \A e \in DOMAIN executed :
              /\ executed[e].try \in Attempts /\ executed[e].try \in Nat
              /\ executed[e].len \in Nat /\ executed[e].len \in RespLens
              /\ executed[e].body \in Seq(Byte)
              /\ e \in Nat \ {0}
<1> DEFINE Execution == [body : Seq(Byte), try : Attempts, len : RespLens]
<1>1. executed \in Seq(Execution)
  BY DEF StoreType
<1> HIDE DEF Execution
<1>2. /\ Len(executed) \in Nat /\ DOMAIN executed = 1..Len(executed)
      /\ \A e \in DOMAIN executed : executed[e] \in Execution
  BY <1>1, LenProperties, ElementOfSeq
<1>3. RespLens \subseteq Nat
  BY SizesAssumption
<1>4. ASSUME NEW x \in Execution
      PROVE  /\ x.try \in Attempts /\ x.try \in Nat /\ x.body \in Seq(Byte)
             /\ x.len \in Nat /\ x.len \in RespLens
  BY <1>3, SizeFacts DEF Execution
<1>5. \A e \in 1..Len(executed) : e \in Nat \ {0}
  BY <1>2
<1>6. QED
  BY <1>2, <1>4, <1>5

(* A response repeats the number of its execution.                         *)
LEMMA CopiesFacts ==
  ASSUME NEW n \in Nat, NEW e \in Nat
  PROVE  /\ Copies(n, e) \in Seq(Nat) /\ Len(Copies(n, e)) = n
         /\ \A i \in 1..n : Copies(n, e)[i] = e
<1>1. Copies(n, e) \in [1..n -> Nat]
  BY DEF Copies
<1>2. Copies(n, e) \in Seq(Nat)
  BY <1>1, SeqDef
<1>3. DOMAIN Copies(n, e) = 1..n
  BY DEF Copies
<1>4. Len(Copies(n, e)) = n
  BY <1>2, <1>3, LenProperties
<1>5. \A i \in 1..n : Copies(n, e)[i] = e
  BY DEF Copies
<1>6. QED
  BY <1>2, <1>4, <1>5

LEMMA CopiesGrow ==
  ASSUME NEW m \in Nat, NEW n \in Nat, NEW e \in Nat
  PROVE  Copies(m, e) \o Copies(n, e) = Copies(m + n, e)
<1> DEFINE s == Copies(m, e)
           t == Copies(n, e)
           u == Copies(m + n, e)
<1>1. /\ s \in Seq(Nat) /\ Len(s) = m /\ \A i \in 1..m : s[i] = e
      /\ t \in Seq(Nat) /\ Len(t) = n /\ \A i \in 1..n : t[i] = e
      /\ u \in Seq(Nat) /\ Len(u) = m + n /\ \A i \in 1..m + n : u[i] = e
  BY CopiesFacts
<1> HIDE DEF s, t, u
<1>2. /\ s \o t \in Seq(Nat) /\ Len(s \o t) = m + n
      /\ \A i \in 1..m + n : (s \o t)[i] = IF i <= m THEN s[i] ELSE t[i - m]
  BY <1>1, ConcatProperties
<1>3. ASSUME NEW i \in 1..m + n PROVE (s \o t)[i] = u[i]
  <2>1. CASE i <= m
    BY <1>1, <1>2, <2>1
  <2>2. CASE ~(i <= m)
    <3>1. i - m \in 1..n
      BY <2>2
    <3>2. QED
      BY <1>1, <1>2, <2>2, <3>1
  <2>3. QED
    BY <2>1, <2>2
<1>4. s \o t = u
  BY <1>1, <1>2, <1>3, SeqEqual
<1>5. QED
  BY <1>4 DEF s, t, u

(* What an immediate response is followed by begins with a zero.           *)
LEMMA SurplusFacts ==
  ASSUME NEW z \in Surplus, FixedSize \in Nat
  PROVE  z \in Seq(Nat) /\ Len(z) = FixedSize /\ (FixedSize > 0 => z[1] = 0)
<1>1. z \in [1..FixedSize -> {0, 255}] /\ (FixedSize > 0 => z[1] = 0)
  BY DEF Surplus
<1>2. z \in Seq(Nat)
  BY <1>1
<1>3. Len(z) = FixedSize
  BY <1>1, <1>2, LenProperties
<1>4. QED
  BY <1>1, <1>2, <1>3

(* Cutting at the first zero takes off what is behind a response.          *)
LEMMA CutResponse ==
  ASSUME NEW s \in Seq(Nat), NEW n \in Nat, NEW e \in Nat \ {0}, n <= Len(s),
         \A i \in 1..n : s[i] = e, n < Len(s) => s[n + 1] = 0
  PROVE  CutAtZero(s) = Copies(n, e)
<1> DEFINE before == {i \in DOMAIN s : \A j \in 1..i : s[j] # 0}
<1>1. DOMAIN s = 1..Len(s) /\ Len(s) \in Nat
  BY LenProperties
<1>2. ASSUME NEW i \in 1..Len(s) PROVE i \in before <=> i <= n
  <2>1. CASE i <= n
    BY <1>1, <2>1
  <2>2. CASE ~(i <= n)
    <3>1. n + 1 \in 1..i /\ n < Len(s)
      BY <1>1, <2>2
    <3>2. s[n + 1] = 0
      BY <3>1
    <3>3. QED
      BY <2>2, <3>1, <3>2
  <2>3. QED
    BY <2>1, <2>2
<1>3. before = 1..n
  <2>1. before \subseteq 1..Len(s)
    BY <1>1
  <2> HIDE DEF before
  <2>2. \A i \in 1..Len(s) : i \in before <=> i <= n
    BY <1>2
  <2>3. \A i \in 1..n : i \in 1..Len(s) /\ i <= n
    BY <1>1
  <2>4. \A i \in 1..Len(s) : i <= n => i \in 1..n
    BY <1>1
  <2>5. QED
    BY <2>1, <2>2, <2>3, <2>4
<1> HIDE DEF before
<1>4. Cardinality(before) = n
  BY <1>3, FS_Interval
<1>5. CutAtZero(s) = SubSeq(s, 1, n)
  BY <1>4 DEF CutAtZero, before
<1>6. \A i \in 1..n : s[i] \in Nat
  OBVIOUS
<1>7. /\ SubSeq(s, 1, n) \in Seq(Nat)
      /\ Len(SubSeq(s, 1, n)) = IF 1 <= n THEN n - 1 + 1 ELSE 0
      /\ \A i \in 1..n - 1 + 1 : SubSeq(s, 1, n)[i] = s[1 + i - 1]
  BY <1>6, SubSeqProperties
<1>8. Len(SubSeq(s, 1, n)) = n /\ \A i \in 1..n : SubSeq(s, 1, n)[i] = e
  BY <1>7
<1> DEFINE c == Copies(n, e)
<1>9. c \in Seq(Nat) /\ Len(c) = n /\ \A i \in 1..n : c[i] = e
  BY CopiesFacts
<1> HIDE DEF c
<1>10. SubSeq(s, 1, n) = c
  BY <1>7, <1>8, <1>9, SeqEqual
<1>11. QED
  BY <1>5, <1>10 DEF c

(* ... and so what exec returns of an immediate response is the response.   *)
LEMMA CutImmediate ==
  ASSUME NEW n \in Nat, NEW e \in Nat \ {0}, NEW z \in Surplus, FixedSize \in Nat
  PROVE  CutAtZero(Copies(n, e) \o z) = Copies(n, e)
<1>1. e \in Nat
  OBVIOUS
<1>2. PICK d \in Seq(Nat) : /\ d = Copies(n, e) /\ Len(d) = n
                          /\ \A i \in 1..n : d[i] = e
  BY <1>1, CopiesFacts
<1>3. z \in Seq(Nat) /\ Len(z) = FixedSize /\ (FixedSize > 0 => z[1] = 0)
  BY SurplusFacts
<1>4. PICK s \in Seq(Nat) :
        /\ s = d \o z /\ Len(s) = n + FixedSize
        /\ \A i \in 1..n + FixedSize : s[i] = IF i <= n THEN d[i] ELSE z[i - n]
  <2>1. /\ d \o z \in Seq(Nat) /\ Len(d \o z) = Len(d) + Len(z)
        /\ \A i \in 1..Len(d) + Len(z) :
             (d \o z)[i] = IF i <= Len(d) THEN d[i] ELSE z[i - Len(d)]
    BY <1>3, ConcatProperties
  <2>2. Len(d) = n /\ Len(z) = FixedSize
    BY <1>2, <1>3
  <2>3. QED
    BY <2>1, <2>2
<1>5. \A i \in 1..n : s[i] = e
  BY <1>2, <1>4
<1>6. ASSUME n < Len(s) PROVE s[n + 1] = 0
  <2>1. n + 1 \in 1..n + FixedSize /\ ~(n + 1 <= n) /\ (n + 1) - n = 1 /\ FixedSize > 0
    BY <1>4, <1>6
  <2>2. s[n + 1] = z[1]
    BY <1>4, <2>1
  <2>3. QED
    BY <1>3, <2>1, <2>2
<1>7. n <= Len(s)
  BY <1>4
<1>8. CutAtZero(s) = Copies(n, e)
  BY <1>5, <1>6, <1>7, CutResponse
<1>9. QED
  BY <1>2, <1>4, <1>8

LEMMA InitTransport == Init => TransportInv
<1> SUFFICES ASSUME Init PROVE TransportInv
  OBVIOUS
<1>1. ClientType
  BY RequestFacts, SizeFacts, EmptySeq DEF Init, ClientType
<1>2. StoreType
  BY EmptySeq DEF Init, StoreType, BlobType, Absent
<1>3. \A t \in Attempts : ReqBlob(t).state = "absent" /\ RespBlob(t).state = "absent"
  BY KeyFacts DEF Init, ReqBlob, RespBlob, Absent
<1>4. \A t : ExecutedFor(t) = {}
  BY DEF Init, ExecutedFor
<1>5. WireInv /\ UpInv
  BY <1>3, SizeFacts DEF Init, WireInv, UpInv, HoldsRequest
<1>6. ExecutedInv /\ DownInv /\ ReplyInv
  BY <1>3, <1>4, SizeFacts DEF Init, ExecutedInv, DownInv, ReplyInv, NotExecuted
<1>7. QED
  BY <1>1, <1>2, <1>5, <1>6 DEF TransportInv

-----------------------------------------------------------------------------
(* THE CLIENT                                                              *)

(* What the BMC has is the same after a step of the client.                *)
LEMMA StoreFixed ==
  ASSUME UNCHANGED <<request, blobs, executed>>
  PROVE  /\ \A t : ReqBlob(t)' = ReqBlob(t) /\ RespBlob(t)' = RespBlob(t)
         /\ \A t : ExecutedFor(t)' = ExecutedFor(t) /\ NotExecuted(t)' = NotExecuted(t)
         /\ \A t, n : Holds(t, n)' = Holds(t, n)
         /\ FitsOnePacket' = FitsOnePacket
<1>1. \A t : ReqBlob(t)' = ReqBlob(t) /\ RespBlob(t)' = RespBlob(t)
  BY DEF ReqBlob, RespBlob
<1>2. \A t : ExecutedFor(t)' = ExecutedFor(t)
  BY DEF ExecutedFor
<1>3. QED
  BY <1>1, <1>2 DEF NotExecuted, Holds, FitsOnePacket

(* What is on its way stays as it is; the attempts of what is there do not *)
(* come after the client's.                                                *)
LEMMA ShapeKeeps ==
  ASSUME NEW p, Shape(p), request' = request, seq' \in Nat, seq \in Nat, seq <= seq',
         try \in Nat, try' \in Nat, try <= try'
  PROVE  Shape(p)'
<1>1. p.try \in Nat /\ p.seq \in Nat
  BY SizeFacts DEF Shape, PacketType
<1>2. QED
  BY <1>1 DEF Shape, FitsOnePacket

(* An attempt ends, the next begins with keys nobody has used.             *)
LEMMA FailKeeps ==
  ASSUME TransportInv, pc \in Ops, FailAttempt, wire' \subseteq wire,
         replies' \subseteq replies, UNCHANGED <<request, blobs, executed>>
  PROVE  TransportInv'
<1>1. /\ sent' = 0 /\ written' = 0 /\ size' = 0 /\ got' = <<>> /\ UNCHANGED <<seq, result>>
      /\ \/ pc' = "err" /\ try' = try
         \/ pc' \in {"rest", "create"} /\ try' = try + 1 /\ try' \in Attempts
  <2>1. try \in Attempts
    BY DEF TransportInv, ClientType
  <2>2. ~Exhausted => try + 1 \in Attempts
    BY <2>1, SizeFacts DEF Exhausted, Attempts
  <2>3. QED
    BY <2>2 DEF FailAttempt, NextTry, FirstOp
<1>2. /\ try \in Nat /\ try' \in Attempts /\ try' \in Nat /\ try <= try'
      /\ seq \in Nat /\ pc # "ok"
  BY <1>1, SizeFacts DEF TransportInv, ClientType, Ops
<1>3. ClientType'
  BY <1>1, <1>2, RequestFacts, EmptySeq DEF TransportInv, ClientType, Ops
<1>4. StoreType'
  BY DEF TransportInv, StoreType
<1>5. WireInv'
  <2>1. ASSUME NEW p \in wire' PROVE Shape(p)' /\ p.try <= try /\ p.seq # 0
    <3>1. Shape(p)
      BY <2>1 DEF TransportInv, WireInv
    <3>2. QED
      BY <1>1, <1>2, <3>1, ShapeKeeps DEF Shape
  <2>2. ASSUME NEW p \in wire', pc' # "err" PROVE p.try # try'
    <3>1. try' = try + 1 /\ p.try <= try
      BY <1>1, <2>1, <2>2
    <3>2. p.try \in Nat
      BY SizeFacts DEF TransportInv, WireInv, Shape, PacketType
    <3>3. QED
      BY <1>2, <3>1, <3>2
  <2>3. \A p \in wire' : /\ \A q \in wire' : p.seq = q.seq \/ p.try = q.try => p = q
                         /\ \A r \in replies' : p.seq # r.seq
    BY DEF TransportInv, WireInv
  <2>4. \A r \in replies' : r \in ReplyType /\ r.seq \in 1..seq'
    BY <1>1 DEF TransportInv, WireInv
  <2>5. QED
    BY <1>1, <2>1, <2>2, <2>3, <2>4 DEF WireInv
<1>6. \A r \in replies' : ~Acceptable(r)'
  BY <1>1, <1>2 DEF TransportInv, WireInv, Acceptable
<1>7. pc' # "err" => try' > try
  BY <1>1, <1>2
<1>8. UpInv'
  <2>1. \A t \in Attempts : HoldsRequest(t)'
    <3>1. ASSUME NEW t \in Attempts PROVE HoldsRequest(t)'
      <4>1. HoldsRequest(t) /\ (t > try' => t > try)
        BY <1>2, SizeFacts DEF TransportInv, UpInv
      <4>2. QED
        BY <4>1, StoreFixed DEF HoldsRequest
    <3>2. QED
      BY <3>1
  <2>2. \A p \in wire' :
          /\ p.op = "create" => ReqBlob(p.try).state = "absent"
          /\ p.op = "write" => Holds(p.try, p.pos)
          /\ p.op = "finalize" => Holds(p.try, Len(request))
    BY DEF TransportInv, UpInv
  <2>3. pc' # "err" => ReqBlob(try').state = "absent"
    BY <1>2, <1>7 DEF TransportInv, UpInv, HoldsRequest
  <2>4. QED
    BY <1>1, <1>6, <2>1, <2>2, <2>3 DEF UpInv, Holds, ReqBlob
<1>9. ExecutedInv'
  <2>1. \A e \in DOMAIN executed : executed[e].body = request /\ executed[e].try <= try'
    <3>1. ASSUME NEW e \in DOMAIN executed
          PROVE  executed[e].body = request /\ executed[e].try <= try'
      <4>1. executed[e].try \in Nat /\ executed[e].try <= try
        BY ExecutedFacts DEF TransportInv, ExecutedInv
      <4>2. QED
        BY <1>2, <4>1 DEF TransportInv, ExecutedInv
    <3>2. QED
      BY <3>1
  <2>2. \A t \in Attempts : t > try' => RespBlob(t).state = "absent"
    BY <1>2, SizeFacts DEF TransportInv, ExecutedInv
  <2>3. \A e, d \in DOMAIN executed : executed[e].try = executed[d].try => e = d
    BY DEF TransportInv, ExecutedInv
  <2>4. \A t \in Attempts :
          /\ RespBlob(t).state # "open"
          /\ RespBlob(t).state = "final" =>
               \E e \in ExecutedFor(t) : RespBlob(t).data = Copies(executed[e].len, e)
    BY DEF TransportInv, ExecutedInv
  <2>5. \A p \in wire' : p.op = "rest" => NotExecuted(p.try)
    BY DEF TransportInv, ExecutedInv
  <2>6. QED
    BY <2>1, <2>2, <2>3, <2>4, <2>5
    DEF ExecutedInv, NotExecuted, ExecutedFor, RespBlob, Copies
<1>10. pc' # "err" => NotExecuted(try')
  <2>1. SUFFICES ASSUME pc' # "err" PROVE NotExecuted(try')
    OBVIOUS
  <2>2. \A e \in DOMAIN executed : executed[e].try \in Nat /\ executed[e].try <= try
    BY ExecutedFacts DEF TransportInv, ExecutedInv
  <2>3. ExecutedFor(try') = {}
    BY <1>2, <1>7, <2>1, <2>2 DEF ExecutedFor
  <2>4. QED
    BY <1>2, <1>7, <2>1, <2>3 DEF TransportInv, ExecutedInv, NotExecuted
<1>11. DownInv' /\ ReplyInv'
  BY <1>1, <1>6, <1>10 DEF DownInv, ReplyInv, NotExecuted, ExecutedFor, RespBlob
<1>12. QED
  BY <1>3, <1>4, <1>5, <1>8, <1>9, <1>11 DEF TransportInv
LEMMA ConnectKeeps ==
  ASSUME TransportInv, Connect, request' = request
  PROVE  TransportInv'
<1>1. /\ pc = "connect" /\ pc' \in {"rest", "create", "err"}
      /\ UNCHANGED <<sent, seq, try, written, size, got, result, wire, replies,
                     blobs, executed>>
  BY DEF Connect, FirstOp
<1>2. sent = 0 /\ written = 0 /\ got = <<>> /\ result = <<>> /\ seq \in Nat
  BY <1>1 DEF TransportInv, ClientType
<1>3. ClientType' /\ StoreType'
  BY <1>1, <1>2 DEF TransportInv, ClientType, StoreType, Ops
<1>4. \A p \in wire : p.seq # 0
  BY <1>2 DEF TransportInv, WireInv, Shape
<1>5. \A r \in replies : r.seq # 0
  BY <1>2 DEF TransportInv, WireInv
<1>6. WireInv'
  <2>1. \A p \in wire : Shape(p)'
    BY <1>1 DEF TransportInv, WireInv, Shape, FitsOnePacket
  <2>2. QED
    BY <1>1, <1>2, <1>4, <2>1 DEF TransportInv, WireInv
<1>7. \A r \in replies' : ~Acceptable(r)'
  BY <1>1, <1>2, <1>5 DEF Acceptable
<1>8. UpInv'
  BY <1>1, <1>2, <1>7 DEF TransportInv, UpInv, HoldsRequest, Holds, ReqBlob
<1>9. ExecutedInv'
  BY <1>1 DEF TransportInv, ExecutedInv, NotExecuted, ExecutedFor, RespBlob, Copies
<1>10. DownInv' /\ ReplyInv'
  BY <1>1, <1>2, <1>7
  DEF TransportInv, DownInv, ReplyInv, NotExecuted, ExecutedFor, RespBlob
<1>11. QED
  BY <1>3, <1>6, <1>8, <1>9, <1>10 DEF TransportInv

LEMMA StatusErrorKeeps ==
  ASSUME TransportInv, StatusError, request' = request
  PROVE  TransportInv'
<1>1. sent # 0 /\ FailAttempt /\ wire' \subseteq wire /\ replies' \subseteq replies
      /\ UNCHANGED <<blobs, executed>>
  BY DEF StatusError, FailOnStatus
<1>2. pc \in Ops
  BY <1>1 DEF TransportInv, ClientType
<1>3. QED
  BY <1>1, <1>2, FailKeeps

(* The packet the client makes: its fragment is within the request and     *)
(* with its header within a packet.                                        *)
LEMMA PacketShape ==
  ASSUME TransportInv, pc \in Ops
  PROVE  LET p == Packet(pc)
         IN  /\ p \in PacketType /\ p.op = pc /\ p.seq = seq + 1 /\ p.try = try
             /\ p.key = IF pc \in {"info", "read", "delete"} THEN RespKey(try)
                        ELSE ReqKey(try)
             /\ p.pos = IF pc = "write" THEN written ELSE Len(got)
             /\ pc = "write" =>
                  /\ p.pos + Len(p.body) <= Len(request) /\ p.body # <<>>
                  /\ p.body = SubSeq(request, p.pos + 1, p.pos + Len(p.body))
                  /\ WriteHdr + Len(p.body) <= MaxWrite
                  /\ Len(p.body) = WriteCount
             /\ pc = "rest" => p.body = IF FitsOnePacket THEN request ELSE <<>>
             /\ pc = "read" => p.count = ReadCount
<1> DEFINE p == Packet(pc)
<1>1. /\ p = [op |-> p.op, seq |-> p.seq, try |-> p.try, key |-> p.key, pos |-> p.pos,
              count |-> p.count, body |-> p.body]
      /\ p.op = pc /\ p.seq = seq + 1 /\ p.try = try
      /\ p.key = IF pc \in {"info", "read", "delete"} THEN RespKey(try) ELSE ReqKey(try)
      /\ p.pos = IF pc = "write" THEN written ELSE Len(got)
      /\ p.count = IF pc = "read" THEN ReadCount ELSE 0
      /\ pc = "write" => p.body = SubSeq(request, written + 1, written + WriteCount)
      /\ pc = "rest" => p.body = IF FitsOnePacket THEN request ELSE <<>>
      /\ pc \notin {"write", "rest"} => p.body = <<>>
  BY DEF Packet
<1> HIDE DEF p
<1>2. /\ request \in Requests /\ seq \in Nat /\ try \in Attempts /\ written \in Nat
      /\ written <= Len(request) /\ got \in Seq(Byte) /\ size \in Nat
      /\ request \in Seq(Byte) /\ Len(request) \in Nat /\ Len(got) \in Nat
  BY RequestFacts, LenProperties DEF TransportInv, ClientType
<1>3. pc = "read" => ReadCount \in Nat
  <2>1. pc = "read" => Len(got) < size
    BY DEF TransportInv, ClientType
  <2>2. QED
    BY <1>2, <2>1, SizeFacts DEF ReadCount, Shorter
<1>4. ASSUME pc = "write"
      PROVE  /\ p.body \in Seq(Byte) /\ p.body # <<>> /\ Len(p.body) = WriteCount
             /\ WriteCount \in Nat /\ written + WriteCount <= Len(request)
             /\ WriteHdr + WriteCount <= MaxWrite
  <2>1. written < Len(request)
    BY <1>4 DEF TransportInv, ClientType
  <2>2. /\ WriteCount \in Nat /\ WriteCount > 0 /\ written + WriteCount <= Len(request)
        /\ WriteHdr + WriteCount <= MaxWrite
    BY <1>2, <2>1, SizeFacts DEF WriteCount, Shorter
  <2> HIDE DEF WriteCount
  <2>3. written + WriteCount \in Nat /\ written <= written + WriteCount
        /\ (written + WriteCount) - written = WriteCount
    BY <1>2, <2>2
  <2> DEFINE to == written + WriteCount
  <2>4. p.body = SubSeq(request, written + 1, to)
    BY <1>1, <1>4
  <2> HIDE DEF to
  <2>5. to \in Nat /\ written <= to /\ to <= Len(request) /\ to - written = WriteCount
    BY <2>2, <2>3 DEF to
  <2>6. p.body \in Seq(Byte) /\ Len(p.body) = WriteCount
    BY <1>2, <2>4, <2>5, PartBytes
  <2>7. p.body # <<>>
    BY <2>2, <2>6
  <2>8. QED
    BY <2>2, <2>6, <2>7
<1>5. p.body \in Seq(Byte)
  BY <1>1, <1>2, <1>4, EmptySeq
<1>6. p \in PacketType
  <2>1. p.key \in Keys
    BY <1>1, <1>2, KeyFacts
  <2>2. QED
    BY <1>1, <1>2, <1>3, <1>5, <2>1 DEF PacketType
<1>7. QED
  BY <1>1, <1>4, <1>6 DEF p

LEMMA SendKeeps ==
  ASSUME TransportInv, Send, request' = request
  PROVE  TransportInv'
<1>1. PICK n : n = Packet(pc)
  OBVIOUS
<1>2. /\ pc \in Ops /\ sent = 0 /\ seq' = seq + 1 /\ sent' = seq + 1
      /\ wire' = wire \cup {n}
      /\ UNCHANGED <<pc, try, written, size, got, result, replies, blobs, executed>>
  BY <1>1 DEF Send
<1>3. /\ n \in PacketType /\ n.op = pc /\ n.seq = seq + 1 /\ n.try = try
      /\ n.key = IF pc \in {"info", "read", "delete"} THEN RespKey(try) ELSE ReqKey(try)
      /\ n.pos = IF pc = "write" THEN written ELSE Len(got)
      /\ pc = "write" =>
           /\ n.pos + Len(n.body) <= Len(request) /\ n.body # <<>>
           /\ n.body = SubSeq(request, n.pos + 1, n.pos + Len(n.body))
           /\ WriteHdr + Len(n.body) <= MaxWrite
           /\ Len(n.body) = WriteCount
      /\ pc = "rest" => n.body = IF FitsOnePacket THEN request ELSE <<>>
      /\ pc = "read" => n.count = ReadCount
  BY <1>1, <1>2, PacketShape
<1>4. seq \in Nat /\ try \in Attempts /\ try \in Nat
  BY SizeFacts DEF TransportInv, ClientType
<1>5. ClientType' /\ StoreType'
  BY <1>2, <1>4 DEF TransportInv, ClientType, StoreType, Ops
<1>6. \A p \in wire : p.seq \in 1..seq /\ p.try # try
  BY <1>2, <1>4 DEF TransportInv, WireInv, Shape, Ops
<1>7. \A r \in replies : r.seq \in 1..seq
  BY DEF TransportInv, WireInv
<1>8. \A p \in wire : Shape(p)'
  BY <1>2, <1>4, ShapeKeeps DEF TransportInv, WireInv
<1>9. Shape(n)'
  <2>1. n.seq \in 1..seq' /\ n.try <= try'
    BY <1>2, <1>3, <1>4
  <2>2. QED
    BY <1>2, <1>3, <2>1 DEF Shape, FitsOnePacket
<1>10. Current(n)'
  BY <1>2, <1>3 DEF Current, WriteCount, ReadCount
<1>11. WireInv'
  <2>1. ASSUME NEW p \in wire
        PROVE  /\ Shape(p)' /\ p.try # try' /\ p.seq # sent'
               /\ \A q \in wire' : p.seq = q.seq \/ p.try = q.try => p = q
               /\ \A r \in replies' : p.seq # r.seq
    <3>1. p.seq # n.seq /\ p.try # n.try /\ p.seq # sent'
      BY <1>2, <1>3, <1>4, <1>6
    <3>2. QED
      BY <1>2, <1>6, <1>8, <3>1 DEF TransportInv, WireInv
  <2>2. /\ \A q \in wire' : n.seq = q.seq \/ n.try = q.try => n = q
        /\ \A r \in replies' : n.seq # r.seq
        /\ n.seq = sent'
    BY <1>2, <1>3, <1>4, <1>6, <1>7
  <2>3. \A r \in replies' : r \in ReplyType /\ r.seq \in 1..seq'
    BY <1>2, <1>4 DEF TransportInv, WireInv
  <2>4. QED
    BY <1>2, <1>9, <1>10, <2>1, <2>2, <2>3 DEF WireInv
<1>12. \A r \in replies' : ~Acceptable(r)'
  BY <1>2, <1>4, <1>7 DEF Acceptable
<1>13. sent' # 0
  BY <1>2, <1>4
<1>14. UpInv'
  <2>1. \A t \in Attempts : HoldsRequest(t)'
    BY <1>2 DEF TransportInv, UpInv, HoldsRequest, ReqBlob
  <2>2. \A p \in wire' : /\ p.op = "create" => ReqBlob(p.try).state = "absent"
                         /\ p.op = "write" => Holds(p.try, p.pos)
                         /\ p.op = "finalize" => Holds(p.try, Len(request))
    BY <1>2, <1>3 DEF TransportInv, UpInv
  <2>3. QED
    BY <1>2, <1>12, <1>13, <2>1, <2>2 DEF UpInv, Holds, ReqBlob
<1>15. ExecutedInv'
  <2>1. pc = "rest" => NotExecuted(try)
    BY <1>2 DEF TransportInv, DownInv
  <2>2. \A p \in wire' : p.op = "rest" => NotExecuted(p.try)
    BY <1>2, <1>3, <2>1 DEF TransportInv, ExecutedInv
  <2>3. QED
    BY <1>2, <2>2
    DEF TransportInv, ExecutedInv, NotExecuted, ExecutedFor, RespBlob, Copies
<1>16. DownInv' /\ ReplyInv'
  BY <1>2, <1>12, <1>13
  DEF TransportInv, DownInv, ReplyInv, NotExecuted, ExecutedFor, RespBlob, Copies
<1>17. QED
  BY <1>5, <1>11, <1>14, <1>15, <1>16 DEF TransportInv
(* What the client has when it has accepted a reply.                       *)
LEMMA AcceptTypes ==
  ASSUME TransportInv, sent # 0, NEW r \in replies, Acceptable(r), ~Unusable(r),
         Accept(r), request' = request
  PROVE  /\ pc \in Ops /\ pc' \in Ops \cup {"ok"} /\ UNCHANGED <<seq, try>> /\ sent' = 0
         /\ ClientType'
<1>1. /\ UNCHANGED <<seq, try>> /\ sent' = 0
      /\ request \in Seq(Byte) /\ Len(request) \in Nat /\ Len(request) > 0
      /\ size \in Nat /\ got \in Seq(Byte) /\ Len(got) \in Nat /\ written \in 0..Len(request)
      /\ r \in ReplyType /\ r.n \in Nat /\ r.data \in Seq(Byte)
      /\ seq \in Nat /\ try \in Attempts /\ try' \in Attempts /\ seq' \in Nat
      /\ pc \in Ops /\ result = <<>>
      /\ request' \in Requests
  BY RequestFacts, LenProperties
  DEF Accept, TransportInv, ClientType, WireInv, ReplyType, Ops
<1>2. CASE pc = "create"
  <2>1. pc' = "write" /\ UNCHANGED <<written, size, got, result>>
    BY <1>1, <1>2 DEF Accept, AfterFragment
  <2>2. written = 0 /\ got = <<>>
    BY <1>2 DEF TransportInv, ClientType
  <2>3. QED
    BY <1>1, <1>2, <2>1, <2>2 DEF ClientType, Ops
<1>3. CASE pc = "write"
  <2>1. /\ written' = written + WriteCount /\ UNCHANGED <<size, got, result>>
        /\ pc' = IF written' < Len(request) THEN "write" ELSE "finalize"
    BY <1>1, <1>3 DEF Accept, AfterFragment
  <2>2. written < Len(request) /\ got = <<>>
    BY <1>3 DEF TransportInv, ClientType
  <2>3. WriteCount \in Nat /\ written + WriteCount <= Len(request)
    BY <1>1, <2>2, SizeFacts DEF WriteCount, Shorter
  <2>4. written' \in 0..Len(request)
    BY <1>1, <2>1, <2>3
  <2>5. QED
    BY <1>1, <1>3, <2>1, <2>2, <2>4 DEF ClientType, Ops
<1>4. CASE pc = "finalize" \/ (pc = "rest" /\ r.mode = 1)
  <2>1. pc' \in {"rest", "info"} /\ UNCHANGED <<written, size, got, result>>
    BY <1>1, <1>4 DEF Accept
  <2>2. got = <<>>
    BY <1>4 DEF TransportInv, ClientType
  <2>3. QED
    BY <1>1, <1>4, <2>1, <2>2 DEF ClientType, Ops
<1>5. CASE (pc = "rest" /\ r.mode = 0) \/ pc = "delete"
  <2>1. pc' = "ok" /\ UNCHANGED <<written, size, got>>
    BY <1>1, <1>5 DEF Accept
  <2>2. Len(got) <= size
    <3>1. CASE pc = "rest"
      BY <1>1, <3>1, EmptySeq DEF TransportInv, ClientType
    <3>2. CASE pc = "delete"
      BY <1>1, <3>2 DEF TransportInv, ClientType
    <3>3. QED
      BY <1>5, <3>1, <3>2
  <2>3. QED
    BY <1>1, <1>5, <2>1, <2>2 DEF ClientType, Ops
<1>6. CASE pc = "info"
  <2>1. /\ size' = r.n /\ UNCHANGED <<written, got, result>>
        /\ pc' = IF r.n > 0 THEN "read" ELSE "delete"
    BY <1>1, <1>6 DEF Accept
  <2>2. got = <<>> /\ Len(got) = 0
    BY <1>6, EmptySeq DEF TransportInv, ClientType
  <2>3. QED
    BY <1>1, <1>6, <2>1, <2>2 DEF ClientType, Ops
<1>7. CASE pc = "read"
  <2>1. /\ got' = got \o r.data /\ UNCHANGED <<written, size, result>>
        /\ pc' = IF Len(got') < size THEN "read" ELSE "delete"
    BY <1>1, <1>7 DEF Accept, AfterRead
  <2>2. got' \in Seq(Byte) /\ Len(got') = Len(got) + Len(r.data)
    BY <1>1, <2>1, ConcatProperties
  <2>3. PICK e : e \in ExecutedFor(try)
    BY <1>7 DEF TransportInv, DownInv
  <2>4. r.n \in 1..size - Len(got) /\ r.data = Copies(r.n, e) /\ e \in Nat
    BY <1>7, <2>3, ExecutedFacts DEF TransportInv, ReplyInv, ExecutedFor
  <2>5. Len(r.data) = r.n
    BY <1>1, <2>4, CopiesFacts
  <2>6. Len(got') <= size
    BY <1>1, <2>2, <2>4, <2>5
  <2>7. Len(got') \in Nat
    BY <1>1, <2>2, <2>4, <2>5
  <2>8. /\ pc' \in {"read", "delete"} /\ size' = size /\ written' = written
        /\ result' = <<>> /\ got' \in Seq(Byte)
        /\ pc' = "read" => Len(got') < size'
        /\ pc' = "delete" => Len(got') = size'
    BY <1>1, <2>1, <2>2, <2>6, <2>7
  <2>9. QED
    BY <1>1, <2>8 DEF ClientType, Ops
<1>8. QED
  BY <1>1, <1>2, <1>3, <1>4, <1>5, <1>6, <1>7 DEF Ops, Unusable
(* An accepted reply answers the one packet of the attempt: what the       *)
(* client then has is what it asked for.                                   *)
LEMMA AcceptKeeps ==
  ASSUME TransportInv, sent # 0, NEW r \in replies, Acceptable(r), ~Unusable(r),
         Accept(r), replies' = replies \ {r},
         UNCHANGED <<request, wire, blobs, executed>>
  PROVE  TransportInv'
<1>1. /\ pc \in Ops /\ pc' \in Ops \cup {"ok"} /\ UNCHANGED <<seq, try>> /\ sent' = 0
      /\ ClientType'
  BY AcceptTypes
<1>2. /\ seq \in Nat /\ try \in Attempts /\ try \in Nat /\ r.seq = sent
      /\ request \in Seq(Byte) /\ Len(request) \in Nat /\ Len(request) > 0
  BY RequestFacts, SizeFacts DEF TransportInv, ClientType, Acceptable
<1>3. StoreType'
  BY DEF TransportInv, StoreType
<1>4. \A p \in wire : p.seq # 0 /\ p.seq # sent /\ p.try # try
  BY <1>1, <1>2 DEF TransportInv, WireInv, Shape, Ops
<1>5. WireInv'
  <2>1. \A p \in wire : Shape(p)'
    BY <1>1, <1>2, ShapeKeeps DEF TransportInv, WireInv
  <2>2. \A p \in wire : p.seq # sent' /\ p.try # try'
    BY <1>1, <1>4
  <2>3. QED
    BY <1>1, <2>1, <2>2 DEF TransportInv, WireInv
<1>6. \A q \in replies' : ~Acceptable(q)'
  BY <1>1, <1>2 DEF TransportInv, WireInv, Acceptable
<1>7. UpInv'
  <2>1. \A t \in Attempts : HoldsRequest(t)'
    BY <1>1 DEF TransportInv, UpInv, HoldsRequest, ReqBlob
  <2>2. \A p \in wire : /\ p.op = "create" => ReqBlob(p.try).state = "absent"
                        /\ p.op = "write" => Holds(p.try, p.pos)
                        /\ p.op = "finalize" => Holds(p.try, Len(request))
    BY DEF TransportInv, UpInv
  <2>3. CASE pc = "create"
    <3>1. pc' = "write" /\ written' = 0
      BY <1>2, <2>3 DEF Accept, AfterFragment, TransportInv, ClientType
    <3>2. Holds(try, 0)
      BY <2>3 DEF TransportInv, UpInv
    <3>3. QED
      BY <1>1, <1>6, <2>1, <2>2, <3>1, <3>2 DEF UpInv, Holds, ReqBlob
  <2>4. CASE pc = "write"
    <3>1. /\ written' = written + WriteCount
          /\ pc' = IF written' < Len(request) THEN "write" ELSE "finalize"
      BY <2>4 DEF Accept, AfterFragment
    <3>2. Holds(try, written')
      BY <2>4, <3>1 DEF TransportInv, UpInv
    <3>3. pc' = "finalize" => written' = Len(request)
      BY <1>1 DEF ClientType
    <3>4. QED
      BY <1>1, <1>6, <2>1, <2>2, <3>1, <3>2, <3>3 DEF UpInv, Holds, ReqBlob
  <2>5. CASE pc \notin {"create", "write"}
    <3>1. pc' \notin {"connect", "create", "write", "finalize"}
      BY <1>1, <2>5 DEF Accept, AfterRead, Ops
    <3>2. QED
      BY <1>1, <1>6, <2>1, <2>2, <3>1 DEF UpInv, Holds, ReqBlob
  <2>6. QED
    BY <2>3, <2>4, <2>5
<1>8. ExecutedInv'
  BY <1>1 DEF TransportInv, ExecutedInv, NotExecuted, ExecutedFor, RespBlob, Copies
<1>9. \A e \in ExecutedFor(try) : e \in Nat \ {0} /\ executed[e].len \in Nat
  BY ExecutedFacts DEF TransportInv, ExecutedFor
<1>10. DownInv'
  <2>1. CASE pc \in {"create", "write", "finalize"}
    <3>1. pc' \in {"write", "finalize", "rest"}
      BY <2>1 DEF Accept, AfterFragment
    <3>2. NotExecuted(try)
      BY <2>1 DEF TransportInv, DownInv
    <3>3. QED
      BY <1>1, <3>1, <3>2 DEF DownInv, NotExecuted, ExecutedFor, RespBlob
  <2>2. CASE pc = "rest" /\ r.mode = 1
    <3>1. pc' = "info"
      BY <2>2 DEF Accept
    <3>2. ExecutedFor(try) # {}
      BY <2>2 DEF TransportInv, ReplyInv
    <3>3. QED
      BY <1>1, <3>1, <3>2 DEF DownInv, ExecutedFor
  <2>3. CASE pc = "rest" /\ r.mode = 0
    <3>1. PICK z \in Surplus : pc' = "ok" /\ result' = r.data \o z
      <4>1. pc' = "ok" /\ result' \in ImmediateBytes(r)
        BY <2>3 DEF Accept
      <4>2. QED
        BY <4>1 DEF ImmediateBytes
    <3>2. ExecutedFor(try) # {} /\ RespBlob(try).state = "absent"
      BY <2>3 DEF TransportInv, ReplyInv
    <3>3. ASSUME NEW e \in ExecutedFor(try)
          PROVE  CutAtZero(r.data \o z) = Copies(executed[e].len, e)
      <4>1. /\ r.data = Copies(executed[e].len, e) /\ executed[e].len \in Nat
            /\ e \in Nat \ {0} /\ FixedSize \in Nat
        BY <1>9, <2>3, SizesAssumption DEF TransportInv, ReplyInv
      <4>2. PICK n \in Nat : n = executed[e].len
        BY <4>1
      <4>3. CutAtZero(Copies(n, e) \o z) = Copies(n, e)
        BY <4>1, CutImmediate
      <4>4. QED
        BY <4>1, <4>2, <4>3
    <3>4. CutAtZero(result)' = CutAtZero(r.data \o z)
      BY <3>1 DEF CutAtZero
    <3>5. \A e \in ExecutedFor(try) : CutAtZero(result)' = Copies(executed[e].len, e)
      BY <3>3, <3>4
    <3>6. QED
      BY <1>1, <3>1, <3>2, <3>5 DEF DownInv, ExecutedFor, RespBlob, Copies
  <2>4. CASE pc = "info"
    <3>1. size' = r.n /\ got' = got /\ pc' \in {"read", "delete"}
      BY <2>4 DEF Accept
    <3>2. got = <<>>
      BY <2>4 DEF TransportInv, ClientType
    <3>3. ExecutedFor(try) # {} /\ \A e \in ExecutedFor(try) : r.n = executed[e].len
      BY <2>4 DEF TransportInv, ReplyInv, DownInv
    <3>4. Len(got') = 0 /\ \A e : Copies(0, e) = <<>>
      BY <3>1, <3>2, EmptySeq DEF Copies
    <3>5. \A e \in ExecutedFor(try) : got' = Copies(Len(got'), e)
      BY <3>1, <3>2, <3>4
    <3>6. QED
      BY <1>1, <3>1, <3>3, <3>5 DEF DownInv, ExecutedFor, Copies
  <2>5. CASE pc = "read"
    <3>1. got' = got \o r.data /\ size' = size /\ pc' \in {"read", "delete"}
      BY <2>5 DEF Accept, AfterRead
    <3>2. ExecutedFor(try) # {} /\ got \in Seq(Byte) /\ Len(got) \in Nat /\ size \in Nat
      BY <2>5, LenProperties DEF TransportInv, DownInv, ClientType
    <3>3. ASSUME NEW e \in ExecutedFor(try)
          PROVE  size = executed[e].len /\ got' = Copies(Len(got'), e)
      <4>1. /\ size = executed[e].len /\ got = Copies(Len(got), e)
            /\ r.n \in 1..size - Len(got) /\ r.data = Copies(r.n, e) /\ e \in Nat
        BY <1>9, <2>5 DEF TransportInv, DownInv, ReplyInv
      <4>2. r.n \in Nat /\ e \in Nat
        BY <3>2, <4>1
      <4>3. PICK m \in Nat : m = Len(got)
        BY <3>2
      <4>4. got = Copies(m, e)
        BY <4>1, <4>3
      <4>5. PICK n \in Nat : n = r.n
        BY <4>2
      <4>6. PICK k \in Nat : k = m + n
        OBVIOUS
      <4>7. Copies(m, e) \o Copies(n, e) = Copies(k, e) /\ Len(Copies(k, e)) = k
        <5>1. Copies(m, e) \o Copies(n, e) = Copies(m + n, e)
          BY <4>2, CopiesGrow
        <5>2. Len(Copies(k, e)) = k
          BY <4>2, CopiesFacts
        <5>3. QED
          BY <4>6, <5>1, <5>2
      <4>8. got' = Copies(k, e)
        BY <3>1, <4>1, <4>4, <4>5, <4>7
      <4>9. QED
        BY <4>1, <4>7, <4>8
    <3>4. QED
      BY <1>1, <3>1, <3>2, <3>3 DEF DownInv, ExecutedFor, Copies
  <2>6. CASE pc = "delete"
    <3>1. pc' = "ok" /\ result' = got
      BY <2>6 DEF Accept
    <3>2. /\ ExecutedFor(try) # {} /\ RespBlob(try).state = "absent"
          /\ Len(got) = size /\ size \in Nat
      BY <2>6 DEF TransportInv, DownInv, ReplyInv, ClientType
    <3>3. ASSUME NEW e \in ExecutedFor(try)
          PROVE  CutAtZero(got) = Copies(executed[e].len, e)
      <4>1. got = Copies(size, e) /\ size = executed[e].len /\ e \in Nat \ {0}
        BY <1>9, <2>6, <3>2 DEF TransportInv, DownInv
      <4>2. got \in Seq(Nat) /\ Len(got) = size /\ \A i \in 1..size : got[i] = e
        BY <3>2, <4>1, CopiesFacts
      <4>3. CutAtZero(got) = Copies(size, e)
        BY <3>2, <4>1, <4>2, CutResponse
      <4>4. QED
        BY <4>1, <4>3
    <3>4. \A e \in ExecutedFor(try) : CutAtZero(result)' = Copies(executed[e].len, e)
      BY <3>1, <3>3 DEF CutAtZero
    <3>5. QED
      BY <1>1, <3>1, <3>2, <3>4 DEF DownInv, ExecutedFor, RespBlob, Copies
  <2>7. QED
    BY <1>1, <2>1, <2>2, <2>3, <2>4, <2>5, <2>6 DEF Ops, Unusable
<1>11. ReplyInv'
  BY <1>6 DEF ReplyInv
<1>12. QED
  BY <1>1, <1>3, <1>5, <1>7, <1>8, <1>10, <1>11 DEF TransportInv

LEMMA ReceiveKeeps ==
  ASSUME TransportInv, Receive, request' = request
  PROVE  TransportInv'
<1>1. PICK r \in replies :
        /\ replies' = replies \ {r}
        /\ IF Acceptable(r) /\ ~Unusable(r) THEN Accept(r) ELSE FailAttempt
  BY DEF Receive
<1>2. sent # 0 /\ UNCHANGED <<wire, blobs, executed>>
  BY DEF Receive
<1>3. pc \in Ops
  BY <1>2 DEF TransportInv, ClientType
<1>4. CASE Acceptable(r) /\ ~Unusable(r)
  BY <1>1, <1>2, <1>4, AcceptKeeps
<1>5. CASE ~(Acceptable(r) /\ ~Unusable(r))
  BY <1>1, <1>2, <1>3, <1>5, FailKeeps
<1>6. QED
  BY <1>4, <1>5
-----------------------------------------------------------------------------
(* THE BMC                                                                 *)

(* A packet is answered: the reply is for the client's packet only if this *)
(* was it, and no other packet or reply is of its attempt.                 *)
LEMMA AnswerFacts ==
  ASSUME TransportInv, NEW p \in wire, NEW r \in ReplyType, Answer(p, r), r.seq = p.seq,
         UNCHANGED <<request, clientVars>>
  PROVE  /\ ClientType' /\ WireInv' /\ p \in PacketType /\ p.op \in Ops
         /\ p.try \in Attempts /\ p.try <= try /\ p.key \in Keys
         /\ p.try = try => pc = "err" \/ (Current(p) /\ p.seq = sent /\ sent # 0)
         /\ \A q \in wire' : q \in wire /\ q.try # p.try
         /\ \A x \in replies' : Acceptable(x)' =>
              \/ x \in replies /\ Acceptable(x) /\ p.try # try
              \/ x = r /\ r.code \in {0, 20} /\ Current(p)
<1>1. wire' = wire \ {p} /\ replies' = replies \cup {r}
      /\ UNCHANGED <<pc, sent, seq, try, written, size, got, result>>
  BY DEF Answer, clientVars
<1>2. ClientType'
  BY <1>1 DEF TransportInv, ClientType
<1>3. Shape(p) /\ seq \in Nat
  BY DEF TransportInv, WireInv, ClientType
<1>4. /\ p \in PacketType /\ p.op \in Ops /\ p.try \in Attempts /\ p.try <= try
      /\ p.key \in Keys /\ p.seq \in 1..seq /\ p.seq # 0
  BY <1>3 DEF Shape, PacketType
<1>5. /\ p.try = try /\ pc # "err" => p.seq = sent
      /\ p.seq = sent => Current(p)
      /\ \A q \in wire : p.seq = q.seq \/ p.try = q.try => p = q
      /\ \A x \in replies : p.seq # x.seq
  BY DEF TransportInv, WireInv
<1>6. \A q \in wire' : Shape(q)'
  BY <1>1 DEF TransportInv, WireInv, Shape, FitsOnePacket
<1>7. \A q \in wire' : q \in wire /\ q.try # p.try /\ q.seq # r.seq
  BY <1>1, <1>5
<1>8. WireInv'
  <2>1. \A q \in wire' : /\ q.try = try' /\ pc' # "err" => q.seq = sent'
                         /\ q.seq = sent' => Current(q)'
    BY <1>1 DEF TransportInv, WireInv, Current, WriteCount, ReadCount
  <2>2. \A q \in wire' : \A u \in wire' : q.seq = u.seq \/ q.try = u.try => q = u
    BY <1>1 DEF TransportInv, WireInv
  <2>3. \A q \in wire' : \A x \in replies' : q.seq # x.seq
    BY <1>1, <1>7 DEF TransportInv, WireInv
  <2>4. \A x \in replies' : x \in ReplyType /\ x.seq \in 1..seq'
    BY <1>1, <1>4 DEF TransportInv, WireInv
  <2>5. QED
    BY <1>6, <2>1, <2>2, <2>3, <2>4 DEF WireInv
<1>9. ASSUME NEW x \in replies', Acceptable(x)'
      PROVE  \/ x \in replies /\ Acceptable(x) /\ p.try # try
             \/ x = r /\ r.code \in {0, 20} /\ Current(p)
  <2>1. x.seq = sent /\ x.code \in {0, 20} /\ Acceptable(x)
    BY <1>1, <1>9 DEF Acceptable
  <2>2. CASE x \in replies
    <3>1. x.seq # 0 /\ sent # 0
      BY <1>3, <2>1, <2>2 DEF TransportInv, WireInv
    <3>2. pc # "err"
      BY <3>1 DEF TransportInv, ClientType
    <3>3. p.try # try
      BY <1>5, <2>1, <2>2, <3>2
    <3>4. QED
      BY <2>1, <2>2, <3>3
  <2>3. CASE x = r
    BY <1>5, <2>1, <2>3
  <2>4. QED
    BY <1>1, <2>2, <2>3
<1>10. QED
  BY <1>2, <1>4, <1>5, <1>7, <1>8, <1>9

(* The parts of the invariant that are about the store, while one reply    *)
(* comes in and neither blobs nor executions change.                       *)
LEMMA ReadOnlyKeeps ==
  ASSUME TransportInv, NEW p \in wire, NEW r \in ReplyType, Answer(p, r), r.seq = p.seq,
         UNCHANGED <<request, clientVars, blobs, executed>>,
         r.code \in {0, 20} => p.op \in {"info", "read"},
         Current(p) /\ p.op = "info" /\ r.code \in {0, 20} =>
           \A e \in ExecutedFor(try) : r.n = executed[e].len,
         Current(p) /\ p.op = "read" /\ r.code \in {0, 20} =>
           \A e \in ExecutedFor(try) :
             r.n \in 1..size - Len(got) /\ r.data = Copies(r.n, e)
  PROVE  TransportInv'
<1>1. /\ ClientType' /\ WireInv'
      /\ \A q \in wire' : q \in wire
      /\ \A x \in replies' : Acceptable(x)' =>
           \/ x \in replies /\ Acceptable(x)
           \/ x = r /\ r.code \in {0, 20} /\ Current(p)
  BY AnswerFacts
<1>2. StoreType'
  BY DEF TransportInv, StoreType
<1>3. UNCHANGED <<pc, sent, seq, try, written, size, got, result>>
  BY DEF clientVars
<1>4. \A x \in replies' : Acceptable(x)' =>
        \/ x \in replies /\ Acceptable(x)
        \/ x = r /\ pc = p.op /\ p.op \in {"info", "read"} /\ r.code \in {0, 20} /\ Current(p)
  BY <1>1 DEF Current
<1>5. UpInv'
  <2>1. \A t \in Attempts : HoldsRequest(t)'
    BY <1>3 DEF TransportInv, UpInv, HoldsRequest, ReqBlob
  <2>2. \A q \in wire' : /\ q.op = "create" => ReqBlob(q.try).state = "absent"
                         /\ q.op = "write" => Holds(q.try, q.pos)
                         /\ q.op = "finalize" => Holds(q.try, Len(request))
    BY <1>1 DEF TransportInv, UpInv
  <2>3. \A x \in replies' : Acceptable(x)' =>
          /\ pc = "create" => Holds(try, 0)
          /\ pc = "write" => Holds(try, written + WriteCount)
    BY <1>4 DEF TransportInv, UpInv
  <2>4. sent = 0 =>
          /\ pc \in {"connect", "create"} => ReqBlob(try).state = "absent"
          /\ pc = "write" => Holds(try, written)
          /\ pc = "finalize" => Holds(try, Len(request))
    BY DEF TransportInv, UpInv
  <2>5. QED
    BY <1>3, <2>1, <2>2, <2>3, <2>4 DEF UpInv, Holds, ReqBlob, WriteCount
<1>6. ExecutedInv'
  BY <1>1, <1>3 DEF TransportInv, ExecutedInv, NotExecuted, ExecutedFor, RespBlob, Copies
<1>7. DownInv'
  BY <1>3 DEF TransportInv, DownInv, NotExecuted, ExecutedFor, RespBlob, Copies, CutAtZero
<1>8. ReplyInv'
  <2>1. ASSUME NEW x \in replies', Acceptable(x)'
        PROVE  /\ pc = "rest" =>
                    /\ ExecutedFor(try) # {}
                    /\ x.mode = 0 =>
                         /\ RespBlob(try).state = "absent"
                         /\ \A e \in ExecutedFor(try) : x.data = Copies(executed[e].len, e)
               /\ pc = "info" => \A e \in ExecutedFor(try) : x.n = executed[e].len
               /\ pc = "read" => \A e \in ExecutedFor(try) :
                    x.n \in 1..size - Len(got) /\ x.data = Copies(x.n, e)
               /\ pc = "delete" => RespBlob(try).state = "absent"
    <3>1. CASE x \in replies /\ Acceptable(x)
      BY <3>1 DEF TransportInv, ReplyInv
    <3>2. CASE x = r /\ pc = p.op /\ p.op \in {"info", "read"} /\ r.code \in {0, 20}
               /\ Current(p)
      BY <3>2
    <3>3. QED
      BY <1>4, <2>1, <3>1, <3>2
  <2>2. QED
    BY <1>3, <2>1 DEF ReplyInv, ExecutedFor, RespBlob, Copies
<1>9. QED
  BY <1>1, <1>2, <1>5, <1>6, <1>7, <1>8 DEF TransportInv
(* A reply has its packet's number.                                        *)
LEMMA ReplyFacts ==
  ASSUME TransportInv, NEW p \in wire, NEW code \in {0, 12, 20}
  PROVE  /\ Reply(p, code) \in ReplyType
         /\ Reply(p, code).seq = p.seq /\ Reply(p, code).code = code
<1>1. p.seq \in Nat
  BY DEF TransportInv, WireInv, Shape, PacketType
<1>2. QED
  BY <1>1, EmptySeq DEF Reply, ReplyType

LEMMA RefuseKeeps ==
  ASSUME TransportInv, NEW p \in wire, BmcRefuse(p), UNCHANGED <<request, clientVars>>
  PROVE  TransportInv'
<1> DEFINE r == Reply(p, 12)
<1>1. r \in ReplyType /\ r.seq = p.seq /\ r.code = 12
  BY ReplyFacts
<1>2. Answer(p, r) /\ UNCHANGED <<blobs, executed>>
  BY DEF BmcRefuse
<1> HIDE DEF r
<1>3. QED
  BY <1>1, <1>2, ReadOnlyKeeps

LEMMA InfoKeeps ==
  ASSUME TransportInv, NEW p \in wire, BmcInfo(p), UNCHANGED <<request, clientVars>>
  PROVE  TransportInv'
<1> DEFINE r == [Reply(p, 0) EXCEPT !.n = Len(blobs[p.key].data)]
<1>1. /\ p.op = "info" /\ blobs[p.key].state = "final" /\ Answer(p, r)
      /\ UNCHANGED <<blobs, executed>>
  BY DEF BmcInfo
<1>2. /\ p.key \in Keys /\ p.try \in Attempts /\ p.key = RespKey(p.try)
  BY <1>1 DEF TransportInv, WireInv, Shape, PacketType
<1>3. blobs[p.key] \in BlobType
  BY <1>2 DEF TransportInv, StoreType
<1>4. blobs[p.key].data \in Seq(Byte) /\ Len(blobs[p.key].data) \in Nat
  BY <1>3, LenProperties DEF BlobType
<1>5. r \in ReplyType /\ r.seq = p.seq /\ r.code = 0 /\ r.n = Len(blobs[p.key].data)
  <2>1. Reply(p, 0) \in ReplyType /\ Reply(p, 0).seq = p.seq /\ Reply(p, 0).code = 0
    BY ReplyFacts
  <2>2. QED
    BY <1>4, <2>1 DEF ReplyType
<1> HIDE DEF r
<1>6. ASSUME Current(p), NEW e \in ExecutedFor(try) PROVE r.n = executed[e].len
  <2>1. p.try = try
    BY <1>6 DEF Current
  <2>2. PICK d \in ExecutedFor(try) : blobs[p.key].data = Copies(executed[d].len, d)
    BY <1>1, <1>2, <2>1 DEF TransportInv, ExecutedInv, RespBlob
  <2>3. d = e /\ executed[e].len \in Nat /\ e \in Nat
    BY <1>6, ExecutedFacts DEF TransportInv, ExecutedInv, ExecutedFor
  <2>4. PICK m \in Nat : m = executed[e].len
    BY <2>3
  <2>5. PICK k \in Nat : k = e
    BY <2>3
  <2>6. Len(Copies(m, k)) = m
    BY CopiesFacts
  <2>7. QED
    BY <1>5, <2>2, <2>3, <2>4, <2>5, <2>6
<1>7. QED
  BY <1>1, <1>5, <1>6, ReadOnlyKeeps

(* A fragment of a response is some of its copies.                         *)
LEMMA CopiesPart ==
  ASSUME NEW m \in Nat, NEW e \in Nat, NEW from \in Nat, NEW n \in Nat, from + n <= m
  PROVE  SubSeq(Copies(m, e), from + 1, from + n) = Copies(n, e)
<1> DEFINE s == Copies(m, e)
           c == Copies(n, e)
           part == SubSeq(s, from + 1, from + n)
<1>1. /\ s \in Seq(Nat) /\ Len(s) = m /\ \A i \in 1..m : s[i] = e
      /\ c \in Seq(Nat) /\ Len(c) = n /\ \A i \in 1..n : c[i] = e
  BY CopiesFacts
<1> HIDE DEF s, c
<1>2. \A i \in from + 1..from + n : i \in 1..m
  OBVIOUS
<1>3. \A i \in from + 1..from + n : s[i] \in Nat
  BY <1>1, <1>2
<1>4. /\ part \in Seq(Nat)
      /\ Len(part) = IF from + 1 <= from + n THEN from + n - (from + 1) + 1 ELSE 0
      /\ \A i \in 1..from + n - (from + 1) + 1 : part[i] = s[from + 1 + i - 1]
  BY <1>3, SubSeqProperties
<1> HIDE DEF part
<1>5. Len(part) = n /\ from + n - (from + 1) + 1 = n
  BY <1>4
<1>6. ASSUME NEW i \in 1..n PROVE part[i] = c[i]
  <2>1. from + 1 + i - 1 \in 1..m
    OBVIOUS
  <2>2. QED
    BY <1>1, <1>4, <1>5, <2>1
<1>7. part = c
  BY <1>1, <1>4, <1>5, <1>6, SeqEqual
<1>8. QED
  BY <1>7 DEF part, s, c

LEMMA ReadKeeps ==
  ASSUME TransportInv, NEW p \in wire, BmcRead(p), UNCHANGED <<request, clientVars>>
  PROVE  TransportInv'
<1> DEFINE data == blobs[p.key].data
           avail == Shorter(p.count, Len(data) - p.pos)
           r(n) == [Reply(p, 0) EXCEPT !.n = n, !.data = SubSeq(data, p.pos + 1, p.pos + n)]
<1>1. /\ p.op = "read" /\ blobs[p.key].state = "final"
      /\ \E n \in 1..avail : Answer(p, r(n))
      /\ UNCHANGED <<blobs, executed>>
  BY DEF BmcRead
<1>2. PICK n \in 1..avail : Answer(p, r(n))
  BY <1>1
<1>3. /\ p.key \in Keys /\ p.try \in Attempts /\ p.key = RespKey(p.try)
      /\ p.pos \in Nat /\ p.count \in Nat
  BY <1>1 DEF TransportInv, WireInv, Shape, PacketType
<1>4. blobs[p.key] \in BlobType
  BY <1>3 DEF TransportInv, StoreType
<1>5. data \in Seq(Byte) /\ Len(data) \in Nat
  BY <1>4, LenProperties DEF BlobType
<1>6. n \in Nat /\ n >= 1 /\ n <= p.count /\ p.pos + n <= Len(data)
  BY <1>2, <1>3, <1>5, SMTT(30) DEF Shorter
<1> HIDE DEF avail, data
<1>7. SubSeq(data, p.pos + 1, p.pos + n) \in Seq(Byte)
  <2>1. PICK to \in Nat : to = p.pos + n
    BY <1>3, <1>6
  <2>2. p.pos <= to /\ to <= Len(data)
    BY <1>3, <1>6, <2>1
  <2>3. SubSeq(data, p.pos + 1, to) \in Seq(Byte)
    BY <1>3, <1>5, <2>2, PartBytes
  <2>4. QED
    BY <2>1, <2>3
<1>8. /\ r(n) \in ReplyType /\ r(n).seq = p.seq /\ r(n).code = 0 /\ r(n).n = n
      /\ r(n).data = SubSeq(data, p.pos + 1, p.pos + n)
  <2>1. Reply(p, 0) \in ReplyType /\ Reply(p, 0).seq = p.seq /\ Reply(p, 0).code = 0
    BY ReplyFacts
  <2>2. QED
    BY <1>6, <1>7, <2>1 DEF ReplyType
<1>9. PICK x : x = r(n)
  OBVIOUS
<1> HIDE DEF r
<1>10. ASSUME Current(p), NEW e \in ExecutedFor(try)
       PROVE  n \in 1..size - Len(got) /\ SubSeq(data, p.pos + 1, p.pos + n) = Copies(n, e)
  <2>1. p.try = try /\ p.pos = Len(got) /\ p.count = ReadCount
    BY <1>1, <1>10 DEF Current
  <2>2. PICK d \in ExecutedFor(try) : data = Copies(executed[d].len, d)
    BY <1>1, <1>3, <2>1 DEF TransportInv, ExecutedInv, RespBlob, data
  <2>3. d = e /\ executed[e].len \in Nat /\ e \in Nat
    BY <1>10, ExecutedFacts DEF TransportInv, ExecutedInv, ExecutedFor
  <2>4. PICK m \in Nat : m = executed[e].len
    BY <2>3
  <2>5. data = Copies(m, e) /\ Len(data) = m
    BY <2>2, <2>3, <2>4, CopiesFacts
  <2>6. PICK from \in Nat : from = p.pos
    BY <1>3
  <2>7. from + n <= m
    BY <1>6, <2>5, <2>6
  <2>8. SubSeq(Copies(m, e), from + 1, from + n) = Copies(n, e)
    <3>1. PICK i \in Nat : i = n
      BY <1>6
    <3>2. PICK k \in Nat : k = e
      BY <2>3
    <3>3. from + i <= m
      BY <2>7, <3>1
    <3>4. SubSeq(Copies(m, k), from + 1, from + i) = Copies(i, k)
      BY <3>3, CopiesPart
    <3>5. QED
      BY <3>1, <3>2, <3>4
  <2>9. n \in 1..size - Len(got)
    <3>1. size \in Nat /\ Len(got) \in Nat
      BY <1>3, <2>1 DEF TransportInv, ClientType
    <3>2. n <= size - Len(got)
      BY <1>6, <2>1, <3>1, SizeFacts DEF ReadCount, Shorter
    <3>3. QED
      BY <1>6, <3>1, <3>2
  <2>10. QED
    BY <2>5, <2>6, <2>8, <2>9
<1>11. /\ x \in ReplyType /\ Answer(p, x) /\ x.seq = p.seq
       /\ Current(p) => \A e \in ExecutedFor(try) :
            x.n \in 1..size - Len(got) /\ x.data = Copies(x.n, e)
  BY <1>2, <1>8, <1>9, <1>10
<1>12. QED
  BY <1>1, <1>11, ReadOnlyKeeps
(* The blob of a request changes and nothing else does.                    *)
LEMMA UploadKeeps ==
  ASSUME TransportInv, NEW p \in wire, p.op \in {"create", "write", "finalize"},
         NEW r \in ReplyType, Answer(p, r), r.seq = p.seq,
         NEW b \in BlobType, blobs' = [blobs EXCEPT ![p.key] = b],
         UNCHANGED <<request, clientVars, executed>>,
         b.state = "open" => /\ Len(b.data) <= Len(request)
                             /\ b.data = SubSeq(request, 1, Len(b.data)),
         b.state = "final" => b.data = request,
         p.op = "create" /\ b.state = "open" => Len(b.data) = 0,
         p.op = "write" /\ b.state = "open" => Len(b.data) = p.pos + Len(p.body)
  PROVE  TransportInv'
<1>1. /\ ClientType' /\ WireInv'
      /\ p.try \in Attempts /\ p.try <= try /\ p.key \in Keys
      /\ p.try = try => pc = "err" \/ (Current(p) /\ p.seq = sent /\ sent # 0)
      /\ \A q \in wire' : q \in wire /\ q.try # p.try
      /\ \A x \in replies' : Acceptable(x)' =>
           \/ x \in replies /\ Acceptable(x) /\ p.try # try
           \/ x = r /\ r.code \in {0, 20} /\ Current(p)
  BY AnswerFacts
<1>2. /\ UNCHANGED <<pc, sent, seq, try, written, size, got, result>>
      /\ try \in Attempts /\ try \in Nat /\ p.try \in Nat
      /\ pc \in {"connect", "ok", "err"} => sent = 0
  BY <1>1, SizeFacts DEF clientVars, TransportInv, ClientType
<1>3. p.key = ReqKey(p.try)
  BY DEF TransportInv, WireInv, Shape
<1>4. blobs \in [Keys -> BlobType]
  BY DEF TransportInv, StoreType
<1>5. /\ \A t \in Attempts : t # p.try => blobs'[ReqKey(t)] = blobs[ReqKey(t)]
      /\ \A t \in Attempts : blobs'[RespKey(t)] = blobs[RespKey(t)]
      /\ blobs'[ReqKey(p.try)] = b
  <2>1. \A t \in Attempts : /\ ReqKey(t) \in Keys /\ RespKey(t) \in Keys
                            /\ RespKey(t) # p.key /\ (t # p.try => ReqKey(t) # p.key)
    BY <1>1, <1>3, KeyFacts
  <2>2. QED
    BY <1>1, <1>3, <1>4, <2>1
<1>6. StoreType'
  BY <1>1, <1>4 DEF TransportInv, StoreType
<1>7. UpInv'
  <2>1. ASSUME NEW t \in Attempts PROVE HoldsRequest(t)'
    <3>1. CASE t = p.try
      <4>1. ~(t > try)
        BY <1>1, <1>2, <3>1
      <4>2. QED
        BY <1>2, <1>5, <3>1, <4>1 DEF HoldsRequest, ReqBlob
    <3>2. CASE t # p.try
      BY <1>2, <1>5, <3>2 DEF TransportInv, UpInv, HoldsRequest, ReqBlob
    <3>3. QED
      BY <3>1, <3>2
  <2>2. ASSUME NEW q \in wire'
        PROVE  /\ q.op = "create" => ReqBlob(q.try)'.state = "absent"
               /\ q.op = "write" => Holds(q.try, q.pos)'
               /\ q.op = "finalize" => Holds(q.try, Len(request))'
    <3>1. q \in wire /\ q.try # p.try /\ q.try \in Attempts
      BY <1>1 DEF TransportInv, WireInv, Shape, PacketType
    <3>2. blobs'[ReqKey(q.try)] = blobs[ReqKey(q.try)]
      BY <1>5, <3>1
    <3>3. QED
      BY <3>1, <3>2 DEF TransportInv, UpInv, Holds, ReqBlob
  <2>3. CASE p.try # try
    <3>1. blobs'[ReqKey(try)] = blobs[ReqKey(try)]
      BY <1>2, <1>5, <2>3
    <3>2. \A x \in replies' : Acceptable(x)' => x \in replies /\ Acceptable(x)
      BY <1>1, <2>3 DEF Current
    <3>3. sent = 0 =>
            /\ pc \in {"connect", "create"} => blobs'[ReqKey(try)].state = "absent"
            /\ pc = "write" => Holds(try, written)
            /\ pc = "finalize" => Holds(try, Len(request))
      BY <3>1 DEF TransportInv, UpInv, ReqBlob
    <3>4. \A x \in replies' : Acceptable(x)' =>
            /\ pc = "create" => Holds(try, 0)
            /\ pc = "write" => Holds(try, written + WriteCount)
      BY <3>2 DEF TransportInv, UpInv
    <3>5. QED
      BY <1>2, <2>1, <2>2, <3>1, <3>3, <3>4 DEF UpInv, Holds, ReqBlob, WriteCount
  <2>4. CASE p.try = try
    <3>1. sent = 0 => pc = "err"
      BY <1>1, <2>4
    <3>2. ASSUME NEW x \in replies', Acceptable(x)', b.state = "open"
          PROVE  /\ pc = "create" => Len(b.data) = 0
                 /\ pc = "write" => Len(b.data) = written + WriteCount
      BY <1>1, <2>4, <3>2 DEF Current
    <3>3. QED
      BY <1>2, <1>5, <2>1, <2>2, <2>4, <3>1, <3>2 DEF UpInv, Holds, ReqBlob, WriteCount
  <2>5. QED
    BY <2>3, <2>4
<1>8. ExecutedInv'
  <2>1. \A q \in wire' : q.op = "rest" => NotExecuted(q.try) /\ q.try \in Attempts
    BY <1>1 DEF TransportInv, ExecutedInv, WireInv, Shape, PacketType
  <2>2. \A q \in wire' : q.op = "rest" => NotExecuted(q.try)'
    BY <1>5, <2>1 DEF NotExecuted, ExecutedFor, RespBlob
  <2>3. \A t \in Attempts :
          /\ (t > try => RespBlob(t).state = "absent")'
          /\ (RespBlob(t).state # "open")'
          /\ (RespBlob(t).state = "final" =>
               \E e \in ExecutedFor(t) : RespBlob(t).data = Copies(executed[e].len, e))'
    BY <1>2, <1>5 DEF TransportInv, ExecutedInv, ExecutedFor, RespBlob, Copies
  <2>4. /\ \A e \in DOMAIN executed' :
             executed'[e].body = request' /\ executed'[e].try <= try'
        /\ \A e, d \in DOMAIN executed' : executed'[e].try = executed'[d].try => e = d
    BY <1>2 DEF TransportInv, ExecutedInv
  <2>5. QED
    BY <2>2, <2>3, <2>4 DEF ExecutedInv
<1>9. DownInv'
  BY <1>2, <1>5
  DEF TransportInv, DownInv, NotExecuted, ExecutedFor, RespBlob, Copies, CutAtZero
<1>10. ReplyInv'
  <2>1. ASSUME NEW x \in replies', Acceptable(x)', pc \in {"rest", "info", "read", "delete"}
        PROVE  x \in replies /\ Acceptable(x)
    BY <1>1, <2>1 DEF Current
  <2>2. QED
    BY <1>2, <1>5, <2>1 DEF TransportInv, ReplyInv, ExecutedFor, RespBlob, Copies
<1>11. QED
  BY <1>1, <1>6, <1>7, <1>8, <1>9, <1>10 DEF TransportInv
LEMMA CreateKeeps ==
  ASSUME TransportInv, NEW p \in wire, BmcCreate(p), UNCHANGED <<request, clientVars>>
  PROVE  TransportInv'
<1> DEFINE b == [state |-> "open", data |-> <<>>]
           r == Reply(p, 0)
<1>1. /\ p.op = "create" /\ p.key = ReqKey(p.try) /\ p.try \in Attempts /\ p.key \in Keys
  BY DEF BmcCreate, TransportInv, WireInv, Shape, PacketType
<1>2. blobs[p.key].state = "absent"
  BY <1>1 DEF TransportInv, UpInv, ReqBlob
<1>3. Answer(p, r) /\ blobs' = [blobs EXCEPT ![p.key] = b] /\ UNCHANGED executed
  BY <1>2 DEF BmcCreate
<1>4. r \in ReplyType /\ r.seq = p.seq
  BY ReplyFacts
<1>5. b \in BlobType /\ b.state = "open" /\ b.data = <<>> /\ Len(b.data) = 0
  BY EmptySeq DEF BlobType
<1>6. Len(request) \in Nat
  BY RequestFacts DEF TransportInv, ClientType
<1>7. SubSeq(request, 1, 0) = <<>>
  BY SubSeqEmpty
<1> HIDE DEF b, r
<1>8. Len(b.data) <= Len(request) /\ b.data = SubSeq(request, 1, Len(b.data))
  BY <1>5, <1>6, <1>7
<1>9. QED
  BY <1>1, <1>3, <1>4, <1>5, <1>8, UploadKeeps

LEMMA WriteKeeps ==
  ASSUME TransportInv, NEW p \in wire, BmcWrite(p), UNCHANGED <<request, clientVars>>
  PROVE  TransportInv'
<1> DEFINE old == blobs[p.key].data
           b == [blobs[p.key] EXCEPT !.data = Patch(old, p.pos, p.body)]
           r == Reply(p, 0)
<1>1. /\ p.op = "write" /\ p.key = ReqKey(p.try) /\ p.try \in Attempts /\ p.key \in Keys
      /\ p.pos \in Nat /\ p.body \in Seq(Byte) /\ p.body # <<>> /\ Len(p.body) \in Nat
      /\ p.pos + Len(p.body) <= Len(request)
      /\ p.body = SubSeq(request, p.pos + 1, p.pos + Len(p.body))
  BY LenProperties DEF BmcWrite, TransportInv, WireInv, Shape, PacketType
<1>2. /\ blobs[p.key].state = "open" /\ Answer(p, r) /\ UNCHANGED executed
      /\ blobs' = [blobs EXCEPT ![p.key].data = Patch(@, p.pos, p.body)]
  BY DEF BmcWrite
<1>3. blobs \in [Keys -> BlobType] /\ blobs[p.key] \in BlobType
  BY <1>1 DEF TransportInv, StoreType
<1>4. old \in Seq(Byte)
  BY <1>3 DEF BlobType
<1>5. Len(old) = p.pos /\ old = SubSeq(request, 1, Len(old))
  BY <1>1, <1>2 DEF TransportInv, UpInv, HoldsRequest, Holds, ReqBlob
<1>6. request \in Seq(Byte) /\ Len(request) \in Nat
  BY RequestFacts DEF TransportInv, ClientType
<1> DEFINE new == Patch(old, p.pos, p.body)
<1>7. blobs' = [blobs EXCEPT ![p.key] = b]
  BY <1>2, <1>3
<1>8. b.data = new /\ b.state = "open" /\ (new \in Seq(Byte) => b \in BlobType)
  BY <1>2, <1>3 DEF BlobType
<1> HIDE DEF b
<1>9. PICK from \in Nat : from = p.pos
  BY <1>1
<1>10. PICK n \in Nat : n = p.pos + Len(p.body)
  BY <1>1
<1>11. from < n /\ n <= Len(request) /\ p.body = SubSeq(request, from + 1, n)
  <2>1. Len(p.body) # 0
    BY <1>1, EmptySeq
  <2>2. QED
    BY <1>1, <1>9, <1>10, <2>1, SMTT(30)
<1>12. new = Patch(old, from, SubSeq(request, from + 1, n))
  BY <1>9, <1>11
<1> HIDE DEF old, new
<1>13. new \in Seq(Byte)
  BY <1>1, <1>4, PatchType DEF new
<1>14. /\ Len(new) = IF n > Len(old) THEN n ELSE Len(old)
       /\ \A i \in 1..Len(new) :
            new[i] = IF i \in from + 1..n THEN request[i]
                     ELSE IF i <= Len(old) THEN old[i] ELSE 0
  BY <1>4, <1>6, <1>11, <1>12, ChunkBytes, SMTT(30)
<1>15. Len(new) = n
  BY <1>5, <1>9, <1>11, <1>14
<1>16. new = SubSeq(request, 1, n)
  <2>1. SubSeq(request, 0 + 1, n) \in Seq(Byte) /\ Len(SubSeq(request, 0 + 1, n)) = n - 0
        /\ \A i \in 1..n - 0 : SubSeq(request, 0 + 1, n)[i] = request[0 + i]
    BY <1>6, <1>11, PartBytes
  <2>2. SubSeq(request, 1, n) \in Seq(Byte) /\ Len(SubSeq(request, 1, n)) = n
        /\ \A i \in 1..n : SubSeq(request, 1, n)[i] = request[i]
    BY <2>1
  <2>3. SubSeq(request, 0 + 1, from) \in Seq(Byte)
        /\ \A i \in 1..from - 0 : SubSeq(request, 0 + 1, from)[i] = request[0 + i]
    BY <1>6, <1>11, PartBytes
  <2>4. \A i \in 1..from : old[i] = request[i]
    BY <1>5, <1>9, <2>3
  <2>5. ASSUME NEW i \in 1..n PROVE new[i] = request[i]
    <3>1. i \in from + 1..n \/ i \in 1..from
      OBVIOUS
    <3>2. i \in 1..Len(new)
      BY <1>15
    <3>3. CASE i \in from + 1..n
      BY <1>14, <3>2, <3>3
    <3>4. CASE i \in 1..from
      BY <1>5, <1>9, <1>14, <2>4, <3>2, <3>4
    <3>5. QED
      BY <3>1, <3>3, <3>4
  <2>6. QED
    BY <1>13, <1>15, <2>2, <2>5, SeqEqual
<1>17. r \in ReplyType /\ r.seq = p.seq
  BY ReplyFacts
<1> HIDE DEF r
<1>18. b \in BlobType /\ Len(b.data) = p.pos + Len(p.body) /\ Len(b.data) <= Len(request)
       /\ b.data = SubSeq(request, 1, Len(b.data))
  BY <1>1, <1>8, <1>10, <1>13, <1>15, <1>16
<1>19. QED
  BY <1>1, <1>2, <1>7, <1>8, <1>17, <1>18, UploadKeeps

LEMMA FinalizeKeeps ==
  ASSUME TransportInv, NEW p \in wire, BmcFinalize(p), UNCHANGED <<request, clientVars>>
  PROVE  TransportInv'
<1> DEFINE b == [blobs[p.key] EXCEPT !.state = "final"]
           r == Reply(p, 0)
<1>1. /\ p.op = "finalize" /\ p.key = ReqKey(p.try) /\ p.try \in Attempts /\ p.key \in Keys
      /\ blobs[p.key].state = "open" /\ Answer(p, r) /\ UNCHANGED executed
      /\ blobs' = [blobs EXCEPT ![p.key].state = "final"]
  BY DEF BmcFinalize, TransportInv, WireInv, Shape, PacketType
<1>2. blobs \in [Keys -> BlobType] /\ blobs[p.key] \in BlobType
  BY <1>1 DEF TransportInv, StoreType
<1>3. /\ blobs' = [blobs EXCEPT ![p.key] = b]
      /\ b \in BlobType /\ b.state = "final" /\ b.data = blobs[p.key].data
  BY <1>1, <1>2 DEF BlobType
<1>4. /\ Len(blobs[p.key].data) = Len(request)
      /\ blobs[p.key].data = SubSeq(request, 1, Len(blobs[p.key].data))
  BY <1>1 DEF TransportInv, UpInv, HoldsRequest, Holds, ReqBlob
<1>5. request \in Seq(Byte)
  BY RequestFacts DEF TransportInv, ClientType
<1>6. b.data = request
  BY <1>3, <1>4, <1>5, SubSeqFull
<1>7. r \in ReplyType /\ r.seq = p.seq
  BY ReplyFacts
<1> HIDE DEF b, r
<1>8. QED
  BY <1>1, <1>3, <1>6, <1>7, UploadKeeps
(* A blob may go at any time: nothing relies on one being there.           *)
LEMMA GoneKeeps ==
  ASSUME TransportInv, ClientType', WireInv', UNCHANGED <<request, clientVars, executed>>,
         wire' \subseteq wire,
         NEW k \in Keys, blobs' = [blobs EXCEPT ![k] = Absent],
         \A x \in replies' : Acceptable(x)' =>
           \/ x \in replies /\ Acceptable(x)
           \/ pc = "delete" /\ k = RespKey(try)
  PROVE  TransportInv'
<1>1. /\ UNCHANGED <<pc, sent, seq, try, written, size, got, result>>
      /\ try \in Attempts
  BY DEF clientVars, TransportInv, ClientType
<1>2. blobs \in [Keys -> BlobType] /\ Absent \in BlobType /\ Absent.state = "absent"
  BY EmptySeq DEF TransportInv, StoreType, BlobType, Absent
<1>3. StoreType'
  BY <1>2 DEF TransportInv, StoreType
<1>4. \A t \in Attempts :
        /\ blobs'[ReqKey(t)] = blobs[ReqKey(t)] \/ blobs'[ReqKey(t)].state = "absent"
        /\ blobs'[RespKey(t)] = blobs[RespKey(t)] \/ blobs'[RespKey(t)].state = "absent"
  BY <1>2, KeyFacts
<1> DEFINE Kept(t) == blobs'[ReqKey(t)] = blobs[ReqKey(t)]
<1>5. \A q \in wire : q.try \in Attempts
  BY DEF TransportInv, WireInv, Shape, PacketType
<1>6. UpInv'
  <2>1. \A t \in Attempts : HoldsRequest(t)'
    BY <1>1, <1>4 DEF TransportInv, UpInv, HoldsRequest, ReqBlob
  <2>2. \A t \in Attempts : \A n : Holds(t, n) => Holds(t, n)'
    BY <1>4 DEF Holds, ReqBlob
  <2>3. \A q \in wire' :
          /\ q.op = "create" => blobs'[ReqKey(q.try)].state = "absent"
          /\ q.op = "write" => Holds(q.try, q.pos)'
          /\ q.op = "finalize" => Holds(q.try, Len(request))'
    <3>1. ASSUME NEW q \in wire'
          PROVE /\ q.op = "create" => blobs'[ReqKey(q.try)].state = "absent"
                /\ q.op = "write" => Holds(q.try, q.pos)'
                /\ q.op = "finalize" => Holds(q.try, Len(request))'
      <4>1. q \in wire /\ q.try \in Attempts
        BY <1>5
      <4>2. /\ q.op = "create" => blobs'[ReqKey(q.try)].state = "absent"
            /\ q.op = "write" => Holds(q.try, q.pos)
            /\ q.op = "finalize" => Holds(q.try, Len(request))
        BY <1>4, <4>1 DEF TransportInv, UpInv, ReqBlob
      <4>3. QED
        BY <1>1, <1>4, <4>1, <4>2 DEF Holds, ReqBlob
    <3>2. QED
      BY <3>1
  <2>4. sent = 0 =>
          /\ pc \in {"connect", "create"} => blobs'[ReqKey(try)].state = "absent"
          /\ pc = "write" => Holds(try, written)
          /\ pc = "finalize" => Holds(try, Len(request))
    BY <1>1, <1>4 DEF TransportInv, UpInv, ReqBlob
  <2>5. \A x \in replies' : Acceptable(x)' =>
          /\ pc = "create" => Holds(try, 0)
          /\ pc = "write" => Holds(try, written + WriteCount)
    BY DEF TransportInv, UpInv
  <2>6. \A n : Holds(try, n) =>
          (blobs'[ReqKey(try)].state = "open" => Len(blobs'[ReqKey(try)].data) = n)
    BY <1>1, <1>4 DEF Holds, ReqBlob
  <2> HIDE DEF Holds
  <2>7. QED
    BY <1>1, <2>1, <2>3, <2>4, <2>5, <2>6 DEF UpInv, Holds, ReqBlob, WriteCount
<1>7. ExecutedInv'
  <2>1. \A q \in wire' : q.op = "rest" => NotExecuted(q.try)'
    BY <1>4, <1>5 DEF TransportInv, ExecutedInv, NotExecuted, ExecutedFor, RespBlob
  <2>2. \A t \in Attempts :
          /\ (t > try => RespBlob(t).state = "absent")'
          /\ (RespBlob(t).state # "open")'
          /\ (RespBlob(t).state = "final" =>
               \E e \in ExecutedFor(t) : RespBlob(t).data = Copies(executed[e].len, e))'
    BY <1>1, <1>4 DEF TransportInv, ExecutedInv, ExecutedFor, RespBlob, Copies
  <2>3. /\ \A e \in DOMAIN executed' :
             executed'[e].body = request' /\ executed'[e].try <= try'
        /\ \A e, d \in DOMAIN executed' : executed'[e].try = executed'[d].try => e = d
    BY <1>1 DEF TransportInv, ExecutedInv
  <2>4. QED
    BY <2>1, <2>2, <2>3 DEF ExecutedInv
<1>8. RespBlob(try).state = "absent" => blobs'[RespKey(try)].state = "absent"
  BY <1>1, <1>4 DEF RespBlob
<1>9. DownInv'
  BY <1>1, <1>8
  DEF TransportInv, DownInv, NotExecuted, ExecutedFor, RespBlob, Copies, CutAtZero
<1>10. ReplyInv'
  <2>1. ASSUME NEW x \in replies', Acceptable(x)'
        PROVE  /\ pc = "rest" =>
                    /\ ExecutedFor(try) # {}
                    /\ x.mode = 0 =>
                         /\ blobs'[RespKey(try)].state = "absent"
                         /\ \A e \in ExecutedFor(try) : x.data = Copies(executed[e].len, e)
               /\ pc = "info" => \A e \in ExecutedFor(try) : x.n = executed[e].len
               /\ pc = "read" => \A e \in ExecutedFor(try) :
                    x.n \in 1..size - Len(got) /\ x.data = Copies(x.n, e)
               /\ pc = "delete" => blobs'[RespKey(try)].state = "absent"
    <3>1. CASE x \in replies /\ Acceptable(x)
      BY <1>8, <3>1 DEF TransportInv, ReplyInv
    <3>2. CASE pc = "delete" /\ k = RespKey(try)
      BY <1>1, <1>2, <3>2, KeyFacts
    <3>3. QED
      BY <2>1, <3>1, <3>2
  <2>2. QED
    BY <1>1, <2>1 DEF ReplyInv, ExecutedFor, RespBlob, Copies
<1>11. QED
  BY <1>3, <1>6, <1>7, <1>9, <1>10 DEF TransportInv

LEMMA DeleteKeeps ==
  ASSUME TransportInv, NEW p \in wire, BmcDelete(p), UNCHANGED <<request, clientVars>>
  PROVE  TransportInv'
<1> DEFINE r == Reply(p, 0)
<1>1. /\ p.op = "delete" /\ Answer(p, r) /\ UNCHANGED executed
      /\ blobs' = [blobs EXCEPT ![p.key] = Absent]
  BY DEF BmcDelete
<1>2. p.key = RespKey(p.try)
  BY <1>1 DEF TransportInv, WireInv, Shape
<1>3. r \in ReplyType /\ r.seq = p.seq
  BY ReplyFacts
<1> HIDE DEF r
<1>4. /\ ClientType' /\ WireInv' /\ p.key \in Keys
      /\ \A q \in wire' : q \in wire
      /\ \A x \in replies' : Acceptable(x)' =>
           (x \in replies /\ Acceptable(x)) \/ Current(p)
  BY <1>1, <1>3, AnswerFacts
<1>5. Current(p) => pc = "delete" /\ p.key = RespKey(try)
  BY <1>1, <1>2 DEF Current
<1>6. QED
  BY <1>1, <1>4, <1>5, GoneKeeps

LEMMA ExpireKeeps ==
  ASSUME TransportInv, Expire, request' = request
  PROVE  TransportInv'
<1>1. PICK k \in Keys : blobs' = [blobs EXCEPT ![k] = Absent]
  BY DEF Expire
<1>2. UNCHANGED <<request, clientVars, wire, replies, executed>>
      /\ UNCHANGED <<pc, sent, seq, try, written, size, got, result>>
  BY DEF Expire, clientVars
<1>3. ClientType'
  BY <1>2 DEF TransportInv, ClientType
<1>4. WireInv'
  <2>1. \A q \in wire : Shape(q)' /\ (Current(q) => Current(q)')
    BY <1>2 DEF TransportInv, WireInv, Shape, Current, FitsOnePacket, WriteCount, ReadCount
  <2>2. QED
    BY <1>2, <2>1 DEF TransportInv, WireInv
<1>5. \A x \in replies' : Acceptable(x)' => x \in replies /\ Acceptable(x)
  BY <1>2 DEF Acceptable
<1>6. QED
  BY <1>1, <1>2, <1>3, <1>4, <1>5, GoneKeeps
(* Every attempt makes the BMC execute the request once at most, so there  *)
(* are no more executions than attempts.                                   *)
LEMMA AnExecutionLeft ==
  ASSUME TransportInv, NEW p \in wire, p.op = "rest"
  PROVE  /\ Len(executed) + 1 <= MAX_ALLOWED_REQUEST_ATTEMPTS + 2
         /\ Len(executed) + 1 \in Byte
<1> DEFINE n == Len(executed) + 1
           f == [e \in 1..n |-> IF e \in DOMAIN executed THEN executed[e].try ELSE p.try]
<1>1. /\ Len(executed) \in Nat /\ DOMAIN executed = 1..Len(executed)
      /\ \A e \in DOMAIN executed : executed[e].try \in Attempts
      /\ p.try \in Attempts
  BY ExecutedFacts DEF TransportInv, WireInv, Shape, PacketType
<1>2. \A e \in DOMAIN executed : executed[e].try # p.try
  BY DEF TransportInv, ExecutedInv, NotExecuted, ExecutedFor
<1>3. f \in [1..n -> Attempts]
  BY <1>1
<1>4. ASSUME NEW e \in 1..n, NEW d \in 1..n, f[e] = f[d] PROVE e = d
  <2>1. e \in DOMAIN executed \/ e = n
    BY <1>1
  <2>2. d \in DOMAIN executed \/ d = n
    BY <1>1
  <2>3. CASE e \in DOMAIN executed /\ d \in DOMAIN executed
    BY <1>4, <2>3 DEF TransportInv, ExecutedInv
  <2>4. CASE e \notin DOMAIN executed \/ d \notin DOMAIN executed
    BY <1>1, <1>2, <1>4, <2>1, <2>2, <2>4
  <2>5. QED
    BY <2>3, <2>4
<1>5. f \in Injection(1..n, Attempts)
  BY <1>3, <1>4 DEF Injection, IsInjective
<1> HIDE DEF f
<1>6. /\ IsFiniteSet(1..n) /\ Cardinality(1..n) = n
  BY <1>1, FS_Interval
<1>7. /\ IsFiniteSet(Attempts)
      /\ Cardinality(Attempts) = MAX_ALLOWED_REQUEST_ATTEMPTS + 2
  BY SizeFacts, FS_Interval DEF Attempts
<1>8. Cardinality(1..n) <= Cardinality(Attempts)
  BY <1>5, <1>7, FS_Injection
<1>9. n <= MAX_ALLOWED_REQUEST_ATTEMPTS + 2
  BY <1>6, <1>7, <1>8
<1>10. MAX_ALLOWED_REQUEST_ATTEMPTS + 2 \in Byte /\ MAX_ALLOWED_REQUEST_ATTEMPTS \in Nat
  BY SizesAssumption
<1>11. n \in Nat
  BY <1>1
<1> HIDE DEF n
<1>12. n <= MAX_ALLOWED_REQUEST_ATTEMPTS + 2 /\ n \in Byte
  BY <1>9, <1>10, <1>11 DEF Byte
<1>13. QED
  BY <1>12 DEF n

LEMMA RestKeeps ==
  ASSUME TransportInv, NEW p \in wire, BmcRest(p), UNCHANGED <<request, clientVars>>
  PROVE  TransportInv'
<1> DEFINE n == Len(executed) + 1
           rsp == RespKey(p.try)
           Bytes_(len) == [i \in 1..len |-> n]
           Body == IF p.body # <<>> THEN p.body ELSE blobs[p.key].data
           Reply_(len, mode) == [Reply(p, 0) EXCEPT !.mode = mode, !.n = len,
                                   !.data = IF mode = 0 THEN Bytes_(len) ELSE <<>>]
<1>1. PICK len \in RespLens, mode \in Modes :
        /\ executed' = Append(executed, [body |-> Body, try |-> p.try, len |-> len])
        /\ blobs' = [blobs EXCEPT ![rsp] =
             IF mode = 1 /\ @.state = "absent"
             THEN [state |-> "final", data |-> Bytes_(len)] ELSE @]
        /\ Answer(p, Reply_(len, mode))
  BY DEF BmcRest
<1>2. /\ p.op = "rest" /\ (p.body # <<>> \/ blobs[p.key].state = "final")
      /\ p.try \in Attempts /\ p.key = ReqKey(p.try) /\ p.key \in Keys /\ p.try \in Nat
      /\ p.body = (IF FitsOnePacket THEN request ELSE <<>>)
  BY SizeFacts DEF BmcRest, TransportInv, WireInv, Shape, PacketType
<1>3. /\ request \in Seq(Byte) /\ request # <<>>
      /\ try \in Attempts /\ try \in Nat /\ p.try <= try
  BY RequestFacts, SizeFacts DEF TransportInv, ClientType, WireInv, Shape
<1>4. Body = request
  BY <1>2, <1>3 DEF TransportInv, UpInv, HoldsRequest, ReqBlob
<1>5. NotExecuted(p.try)
  BY <1>2 DEF TransportInv, ExecutedInv
<1>6. n \in Byte /\ n \in Nat /\ len \in Nat /\ mode \in Nat /\ len \in RespLens
  <2>1. n \in Byte
    BY <1>2, AnExecutionLeft
  <2>2. n \in Nat
    BY <2>1 DEF Byte
  <2>3. QED
    BY <2>1, <2>2, SizesAssumption
<1> DEFINE bytes == Copies(len, n)
<1>7. Bytes_(len) = bytes
  BY DEF Copies
<1>8. bytes \in Seq(Byte)
  <2>1. Bytes_(len) \in [1..len -> Byte]
    BY <1>6
  <2>2. QED
    BY <1>6, <1>7, <2>1, SeqDef
<1> DEFINE x == [body |-> request, try |-> p.try, len |-> len]
           r == Reply_(len, mode)
           b == IF mode = 1 THEN [state |-> "final", data |-> bytes] ELSE blobs[rsp]
<1>9. executed' = Append(executed, x)
  BY <1>1, <1>4
<1>10. rsp \in Keys /\ blobs \in [Keys -> BlobType] /\ blobs[rsp].state = "absent"
  BY <1>2, <1>5, KeyFacts DEF TransportInv, StoreType, NotExecuted, RespBlob
<1>11. blobs' = [blobs EXCEPT ![rsp] = b]
  BY <1>1, <1>7, <1>10
<1>12. /\ r \in ReplyType /\ r.seq = p.seq /\ r.code = 0 /\ r.mode = mode
       /\ mode = 0 => r.data = bytes
  <2>1. Reply(p, 0) \in ReplyType /\ Reply(p, 0).seq = p.seq /\ Reply(p, 0).code = 0
    BY ReplyFacts
  <2>2. QED
    BY <1>6, <1>7, <1>8, <2>1, EmptySeq DEF ReplyType
<1>13. Answer(p, r)
  BY <1>1
<1>14. /\ b \in BlobType /\ b.state # "open"
       /\ b.state = "final" => mode = 1 /\ b.data = bytes
       /\ mode # 1 => b.state = "absent"
  BY <1>8, <1>10 DEF BlobType
<1> HIDE DEF b, r, Body, Bytes_, Reply_, bytes
<1>15. /\ ClientType' /\ WireInv'
       /\ p.try = try => pc = "err" \/ (Current(p) /\ p.seq = sent /\ sent # 0)
       /\ \A q \in wire' : q \in wire /\ q.try # p.try
       /\ \A y \in replies' : Acceptable(y)' =>
            \/ y \in replies /\ Acceptable(y) /\ p.try # try
            \/ y = r /\ r.code \in {0, 20} /\ Current(p)
  BY <1>12, <1>13, AnswerFacts
<1>16. /\ UNCHANGED <<pc, sent, seq, try, written, size, got, result>>
       /\ pc \in {"connect", "ok", "err"} => sent = 0
  BY DEF clientVars, TransportInv, ClientType
<1>17. Current(p) => pc = "rest" /\ p.try = try
  BY <1>2 DEF Current
<1>18. /\ \A t \in Attempts : blobs'[ReqKey(t)] = blobs[ReqKey(t)]
       /\ \A t \in Attempts : t # p.try => blobs'[RespKey(t)] = blobs[RespKey(t)]
       /\ blobs'[rsp] = b
  <2>1. \A t \in Attempts : /\ ReqKey(t) \in Keys /\ RespKey(t) \in Keys
                            /\ ReqKey(t) # rsp /\ (t # p.try => RespKey(t) # rsp)
    BY <1>2, KeyFacts
  <2>2. QED
    BY <1>10, <1>11, <2>1
<1> DEFINE Execution == [body : Seq(Byte), try : Attempts, len : RespLens]
<1>19. x \in Execution /\ executed \in Seq(Execution)
  BY <1>2, <1>3, <1>6 DEF TransportInv, StoreType
<1> HIDE DEF Execution
<1>20. /\ executed' \in Seq(Execution) /\ Len(executed) \in Nat /\ Len(executed') = n
       /\ \A e \in 1..Len(executed) : executed'[e] = executed[e]
       /\ executed'[n] = x
  BY <1>9, <1>19, AppendProperties, LenProperties
<1>21. /\ DOMAIN executed = 1..Len(executed) /\ DOMAIN executed' = 1..n
       /\ \A e : e \in DOMAIN executed' <=> e \in DOMAIN executed \/ e = n
       /\ n \notin DOMAIN executed
  BY <1>19, <1>20, LenProperties
<1>22. /\ \A e \in DOMAIN executed : executed'[e] = executed[e]
       /\ x.try = p.try /\ x.body = request /\ x.len = len
  BY <1>20, <1>21
<1> HIDE DEF n, x
<1>23. ExecutedFor(p.try)' = {n}
  BY <1>5, <1>20, <1>21, <1>22 DEF NotExecuted, ExecutedFor
<1>24. \A t : t # p.try => ExecutedFor(t)' = ExecutedFor(t)
  <2>1. ASSUME NEW t, t # p.try PROVE ExecutedFor(t)' = ExecutedFor(t)
    <3>1. \A e : e \in ExecutedFor(t)' <=> e \in ExecutedFor(t)
      BY <1>20, <1>21, <1>22, <2>1 DEF ExecutedFor
    <3>2. QED
      BY <3>1
  <2>2. QED
    BY <2>1
<1>25. StoreType'
  <2>1. blobs' \in [Keys -> BlobType]
    BY <1>10, <1>11, <1>14
  <2>2. QED
    BY <1>20, <2>1 DEF StoreType, Execution
<1>26. UpInv'
  <2>1. \A t \in Attempts : HoldsRequest(t)'
    BY <1>16, <1>18 DEF TransportInv, UpInv, HoldsRequest, ReqBlob
  <2>2. ASSUME NEW q \in wire'
        PROVE  /\ q.op = "create" => ReqBlob(q.try)'.state = "absent"
               /\ q.op = "write" => Holds(q.try, q.pos)'
               /\ q.op = "finalize" => Holds(q.try, Len(request))'
    <3>1. q \in wire /\ q.try \in Attempts
      BY <1>15 DEF TransportInv, WireInv, Shape, PacketType
    <3>2. QED
      BY <1>18, <3>1 DEF TransportInv, UpInv, Holds, ReqBlob
  <2>3. sent = 0 =>
          /\ pc \in {"connect", "create"} => ReqBlob(try).state = "absent"
          /\ pc = "write" => Holds(try, written)
          /\ pc = "finalize" => Holds(try, Len(request))
    BY DEF TransportInv, UpInv
  <2>4. \A y \in replies' : Acceptable(y)' =>
          /\ pc = "create" => Holds(try, 0)
          /\ pc = "write" => Holds(try, written + WriteCount)
    BY <1>15, <1>17 DEF TransportInv, UpInv
  <2>5. blobs'[ReqKey(try)] = blobs[ReqKey(try)]
    BY <1>3, <1>18
  <2>6. QED
    BY <1>16, <2>1, <2>2, <2>3, <2>4, <2>5 DEF UpInv, Holds, ReqBlob, WriteCount
<1>27. ExecutedInv'
  <2>1. ASSUME NEW e \in DOMAIN executed'
        PROVE  executed'[e].body = request /\ executed'[e].try <= try
    BY <1>3, <1>20, <1>21, <1>22 DEF TransportInv, ExecutedInv
  <2>2. \A e \in DOMAIN executed : executed[e].try # p.try
    BY <1>5 DEF NotExecuted, ExecutedFor
  <2>3. ASSUME NEW e \in DOMAIN executed', NEW d \in DOMAIN executed',
               executed'[e].try = executed'[d].try
        PROVE  e = d
    BY <1>20, <1>21, <1>22, <2>2, <2>3 DEF TransportInv, ExecutedInv
  <2>4. ASSUME NEW t \in Attempts, t # p.try
        PROVE  /\ t > try => blobs'[RespKey(t)].state = "absent"
               /\ blobs'[RespKey(t)].state # "open"
               /\ blobs'[RespKey(t)].state = "final" =>
                    \E e \in ExecutedFor(t)' :
                      blobs'[RespKey(t)].data = Copies(executed'[e].len, e)
    <3>1. /\ blobs'[RespKey(t)] = blobs[RespKey(t)]
          /\ ExecutedFor(t)' = ExecutedFor(t)
          /\ \A e \in ExecutedFor(t) : executed'[e] = executed[e]
      BY <1>18, <1>22, <1>24, <2>4 DEF ExecutedFor
    <3>2. QED
      BY <2>4, <3>1 DEF TransportInv, ExecutedInv, RespBlob
  <2>5. /\ ~(p.try > try)
        /\ blobs'[RespKey(p.try)].state # "open"
        /\ blobs'[RespKey(p.try)].state = "final" =>
             \E e \in ExecutedFor(p.try)' :
               blobs'[RespKey(p.try)].data = Copies(executed'[e].len, e)
    BY <1>2, <1>3, <1>14, <1>18, <1>20, <1>22, <1>23 DEF bytes
  <2>6. ASSUME NEW q \in wire', q.op = "rest" PROVE NotExecuted(q.try)'
    <3>1. q \in wire /\ q.try # p.try /\ q.try \in Attempts
      BY <1>15 DEF TransportInv, WireInv, Shape, PacketType
    <3>2. NotExecuted(q.try)
      BY <2>6, <3>1 DEF TransportInv, ExecutedInv
    <3>3. blobs'[RespKey(q.try)] = blobs[RespKey(q.try)]
      BY <1>18, <3>1
    <3>4. \A e \in DOMAIN executed' : executed'[e].try # q.try
      BY <1>20, <1>21, <1>22, <3>1, <3>2 DEF NotExecuted, ExecutedFor
    <3>5. QED
      BY <3>2, <3>3, <3>4 DEF NotExecuted, ExecutedFor, RespBlob
  <2>7. \A t \in Attempts :
          /\ t > try => blobs'[RespKey(t)].state = "absent"
          /\ blobs'[RespKey(t)].state # "open"
          /\ blobs'[RespKey(t)].state = "final" =>
               \E e \in ExecutedFor(t)' :
                 blobs'[RespKey(t)].data = Copies(executed'[e].len, e)
    BY <2>4, <2>5
  <2>8. QED
    BY <1>16, <2>1, <2>3, <2>6, <2>7 DEF ExecutedInv, RespBlob, Copies
<1>28. DownInv'
  <2>1. CASE p.try = try
    <3>1. pc = "err" \/ (pc = "rest" /\ sent # 0)
      BY <1>15, <1>17, <2>1
    <3>2. QED
      BY <1>16, <3>1 DEF DownInv
  <2>2. CASE p.try # try
    <3>1. /\ blobs'[RespKey(try)] = blobs[RespKey(try)]
          /\ ExecutedFor(try)' = ExecutedFor(try)
          /\ \A e \in ExecutedFor(try) : executed'[e] = executed[e]
      <4>1. ExecutedFor(try)' = {e \in DOMAIN executed' : executed'[e].try = try}
        BY <1>16 DEF ExecutedFor
      <4>2. \A e : e \in ExecutedFor(try)' <=> e \in ExecutedFor(try)
        BY <1>20, <1>21, <1>22, <2>2, <4>1 DEF ExecutedFor
      <4>3. QED
        BY <1>3, <1>18, <1>22, <2>2, <4>2 DEF ExecutedFor
    <3>2. NotExecuted(try)' <=> NotExecuted(try)
      BY <1>16, <3>1 DEF NotExecuted, RespBlob
    <3>3. CutAtZero(result)' = CutAtZero(result)
      BY <1>16 DEF CutAtZero
    <3>4. \A e \in ExecutedFor(try) :
            (Copies(executed[e].len, e))' = Copies(executed[e].len, e)
      BY <3>1 DEF Copies
    <3>5. QED
      BY <1>16, <3>1, <3>2, <3>3, <3>4 DEF TransportInv, DownInv, RespBlob, Copies
  <2>3. QED
    BY <2>1, <2>2
<1>29. ReplyInv'
  <2>1. ASSUME NEW y \in replies', Acceptable(y)', p.try # try
        PROVE  /\ pc = "rest" =>
                    /\ ExecutedFor(try)' # {}
                    /\ y.mode = 0 =>
                         /\ blobs'[RespKey(try)].state = "absent"
                         /\ \A e \in ExecutedFor(try)' : y.data = Copies(executed'[e].len, e)
               /\ pc = "info" => \A e \in ExecutedFor(try)' : y.n = executed'[e].len
               /\ pc = "read" => \A e \in ExecutedFor(try)' :
                    y.n \in 1..size - Len(got) /\ y.data = Copies(y.n, e)
               /\ pc = "delete" => blobs'[RespKey(try)].state = "absent"
    <3>1. y \in replies /\ Acceptable(y)
      BY <1>15, <1>17, <2>1
    <3>2. /\ blobs'[RespKey(try)] = blobs[RespKey(try)]
          /\ ExecutedFor(try)' = ExecutedFor(try)
          /\ \A e \in ExecutedFor(try) : executed'[e] = executed[e]
      <4>1. ExecutedFor(try)' = {e \in DOMAIN executed' : executed'[e].try = try}
        BY <1>16 DEF ExecutedFor
      <4>2. \A e : e \in ExecutedFor(try)' <=> e \in ExecutedFor(try)
        BY <1>20, <1>21, <1>22, <2>1, <4>1 DEF ExecutedFor
      <4>3. QED
        BY <1>3, <1>18, <1>22, <2>1, <4>2 DEF ExecutedFor
    <3>3. QED
      BY <3>1, <3>2 DEF TransportInv, ReplyInv, RespBlob
  <2>2. ASSUME NEW y \in replies', Acceptable(y)', p.try = try
        PROVE  /\ pc = "rest" /\ ExecutedFor(try)' = {n}
               /\ y.mode = 0 => /\ blobs'[RespKey(try)].state = "absent"
                                /\ y.data = Copies(executed'[n].len, n)
    <3>1. y = r /\ pc = "rest"
      BY <1>15, <1>17, <2>2
    <3>2. ExecutedFor(try)' = {n}
      BY <1>16, <1>23, <2>2 DEF ExecutedFor
    <3>3. executed'[n].len = len
      BY <1>20, <1>22
    <3>4. y.mode = 0 => mode # 1 /\ y.data = bytes
      BY <1>12, <3>1
    <3>5. QED
      BY <1>14, <1>18, <2>2, <3>1, <3>2, <3>3, <3>4 DEF bytes
  <2>3. pc \in {"info", "read", "delete"} => p.try # try
    BY <1>15, <1>17
  <2>4. ASSUME NEW y \in replies', Acceptable(y)'
        PROVE  /\ pc = "rest" =>
                    /\ ExecutedFor(try)' # {}
                    /\ y.mode = 0 =>
                         /\ blobs'[RespKey(try)].state = "absent"
                         /\ \A e \in ExecutedFor(try)' : y.data = Copies(executed'[e].len, e)
               /\ pc = "info" => \A e \in ExecutedFor(try)' : y.n = executed'[e].len
               /\ pc = "read" => \A e \in ExecutedFor(try)' :
                    y.n \in 1..size - Len(got) /\ y.data = Copies(y.n, e)
               /\ pc = "delete" => blobs'[RespKey(try)].state = "absent"
    <3>1. CASE p.try # try
      BY <2>1, <2>4, <3>1
    <3>2. CASE p.try = try
      BY <2>2, <2>4, <3>2
    <3>3. QED
      BY <3>1, <3>2
  <2>5. QED
    BY <1>16, <2>4 DEF ReplyInv, RespBlob, ExecutedFor, Copies
<1>30. QED
  BY <1>15, <1>25, <1>26, <1>27, <1>28, <1>29 DEF TransportInv
-----------------------------------------------------------------------------
(* Everything together.                                                    *)
LEMMA TransportStep == TransportInv /\ [Next]_vars => TransportInv'
<1> SUFFICES ASSUME TransportInv, [Next]_vars PROVE TransportInv'
  OBVIOUS
<1>1. CASE Next
  <2>1. request' = request
    BY <1>1 DEF Next
  <2>2. CASE Client
    BY <2>1, <2>2, ConnectKeeps, SendKeeps, StatusErrorKeeps, ReceiveKeeps DEF Client
  <2>3. CASE Bmc
    BY <2>1, <2>3, CreateKeeps, WriteKeeps, FinalizeKeeps, RestKeeps, InfoKeeps,
       ReadKeeps, DeleteKeeps, RefuseKeeps DEF Bmc
  <2>4. CASE Expire
    BY <2>1, <2>4, ExpireKeeps
  <2>5. QED
    BY <1>1, <2>2, <2>3, <2>4 DEF Next
<1>2. CASE UNCHANGED vars
  <2>1. UNCHANGED <<request, pc, sent, seq, try, written, size, got, result, wire,
                    replies, blobs, executed>>
    BY <1>2 DEF vars, clientVars
  <2>2. ClientType' /\ StoreType'
    BY <2>1 DEF TransportInv, ClientType, StoreType
  <2>3. WireInv'
    BY <2>1 DEF TransportInv, WireInv, Shape, Current, FitsOnePacket, WriteCount, ReadCount
  <2>4. UpInv'
    BY <2>1 DEF TransportInv, UpInv, HoldsRequest, Holds, ReqBlob, Acceptable, WriteCount
  <2>5. ExecutedInv'
    BY <2>1 DEF TransportInv, ExecutedInv, NotExecuted, ExecutedFor, RespBlob, Copies
  <2>6. DownInv'
    BY <2>1 DEF TransportInv, DownInv, NotExecuted, ExecutedFor, RespBlob, Copies, CutAtZero
  <2>7. ReplyInv'
    BY <2>1 DEF TransportInv, ReplyInv, ExecutedFor, RespBlob, Copies, Acceptable
  <2>8. QED
    BY <2>2, <2>3, <2>4, <2>5, <2>6, <2>7 DEF TransportInv
<1>3. QED
  BY <1>1, <1>2

LEMMA TransportAlways == Spec => []TransportInv
  BY InitTransport, TransportStep, PTL DEF Spec

(* Every variable keeps its type: no more attempts than the code allows,   *)
(* no more bytes written or read than there are, and no packet or reply    *)
(* under a number the library has not used.                                *)
THEOREM TransportTypeCorrect == Spec => []TypeOK
<1>1. TransportInv => TypeOK
  <2> SUFFICES ASSUME TransportInv PROVE TypeOK
    OBVIOUS
  <2>1. /\ pc \in Ops \cup {"connect", "ok", "err"} /\ sent \in {0, seq}
        /\ try \in 0..MAX_ALLOWED_REQUEST_ATTEMPTS + 1 /\ written \in 0..Len(request)
    BY DEF TransportInv, ClientType, Attempts
  <2>2. Len(got) <= size
    <3>1. Len(got) \in Nat /\ size \in Nat
      BY LenProperties DEF TransportInv, ClientType
    <3>2. CASE pc \in {"read", "delete", "ok"}
      BY <3>1, <3>2 DEF TransportInv, ClientType
    <3>3. CASE pc \notin {"read", "delete", "ok"}
      BY <3>1, <3>3, EmptySeq DEF TransportInv, ClientType
    <3>4. QED
      BY <3>2, <3>3
  <2>3. \A p \in wire : p.op \in Ops /\ p.seq \in 1..seq /\ p.key \in Keys
    BY DEF TransportInv, WireInv, Shape, PacketType
  <2>4. \A r \in replies : r.seq \in 1..seq /\ r.code \in {0, 2, 12, 20}
    BY DEF TransportInv, WireInv, ReplyType
  <2>5. blobs \in [Keys -> [state : {"absent", "open", "final"}, data : Seq(Byte)]]
    BY DEF TransportInv, StoreType, BlobType
  <2>6. QED
    BY <2>1, <2>2, <2>3, <2>4, <2>5 DEF TypeOK
<1>2. QED
  BY <1>1, TransportAlways, PTL

(* The BMC executes the whole request or nothing, whatever is lost, late,  *)
(* refused or forgotten between the fragments.                             *)
THEOREM RequestsArriveWhole == Spec => []NeverTorn
<1>1. TransportInv => NeverTorn
  BY DEF TransportInv, ExecutedInv, NeverTorn
<1>2. QED
  BY <1>1, TransportAlways, PTL

(* A fragment packet is never longer than the library takes.               *)
THEOREM FragmentsWithinPackets == Spec => []FragmentsFit
<1>1. TransportInv => FragmentsFit
  BY DEF TransportInv, WireInv, Shape, FragmentsFit
<1>2. QED
  BY <1>1, TransportAlways, PTL

LEMMA OwnResult == TransportInv => ResultOfThisAttempt
<1> SUFFICES ASSUME TransportInv, pc = "ok"
             PROVE  /\ \E e \in DOMAIN executed :
                         /\ executed[e].try = try /\ CutAtZero(result) = Response(e)
                         /\ \A d \in DOMAIN executed : executed[d].try = try => d = e
                    /\ blobs[RespKey(try)].state = "absent"
  BY DEF ResultOfThisAttempt
<1>1. PICK e : e \in ExecutedFor(try)
  BY DEF TransportInv, DownInv
<1>2. CutAtZero(result) = Copies(executed[e].len, e) /\ RespBlob(try).state = "absent"
  BY <1>1 DEF TransportInv, DownInv
<1>3. e \in DOMAIN executed /\ executed[e].try = try
  BY <1>1 DEF ExecutedFor
<1>4. \A d \in DOMAIN executed : executed[d].try = try => d = e
  BY <1>3 DEF TransportInv, ExecutedInv
<1>5. QED
  BY <1>2, <1>3, <1>4 DEF Response, Copies, RespBlob

(* What exec returns is, up to zeros behind it, the whole response to the  *)
(* one execution its last attempt caused, whatever earlier attempts left   *)
(* behind; that attempt's response blob is gone.                           *)
THEOREM ResultIsOfThisAttempt == Spec => []ResultOfThisAttempt
  BY OwnResult, TransportAlways, PTL

-----------------------------------------------------------------------------
(* THE CALL                                                                *)

Executions == [e \in DOMAIN executed |-> [body |-> executed[e].body, len |-> executed[e].len]]

Status == IF Done THEN pc ELSE "busy"

LEMMA CutNothing == CutAtZero(<<>>) = <<>>
<1>1. {i \in DOMAIN <<>> : \A j \in 1..i : <<>>[j] # 0} = {}
  OBVIOUS
<1>2. Cardinality({i \in DOMAIN <<>> : \A j \in 1..i : <<>>[j] # 0}) = 0
  BY <1>1, FS_EmptySet
<1>3. QED
  BY <1>2, SubSeqEmpty DEF CutAtZero

(* A request executed is one more execution of the call.                   *)
LEMMA OneMore ==
  ASSUME TransportInv, TransportInv', NEW p \in wire, BmcRest(p), request' = request
  PROVE  /\ Len(Executions) < MAX_ALLOWED_REQUEST_ATTEMPTS + 2
         /\ \E len \in RespLens :
              Executions' = Append(Executions, [body |-> request, len |-> len])
<1>1. PICK x : executed' = Append(executed, x)
  BY DEF BmcRest
<1>2. p.op = "rest"
  BY DEF BmcRest
<1> DEFINE Execution == [body : Seq(Byte), try : Attempts, len : RespLens]
<1>3. executed \in Seq(Execution) /\ executed' \in Seq(Execution)
  BY DEF TransportInv, StoreType
<1> HIDE DEF Execution
<1>4. PICK n \in Nat : n = Len(executed)
  BY <1>3, LenProperties
<1>5. DOMAIN executed = 1..n /\ Len(executed') \in Nat /\ DOMAIN executed' = 1..Len(executed')
  BY <1>3, <1>4, LenProperties
<1>6. Len(executed') = n + 1 /\ \A e \in 1..n : executed'[e] = executed[e]
  BY <1>1, <1>3, <1>4
<1>7. /\ n + 1 \in DOMAIN executed' /\ executed'[n + 1].body = request
      /\ executed'[n + 1] \in Execution
  <2>1. n + 1 \in 1..Len(executed') /\ n + 1 \in DOMAIN executed'
    BY <1>5, <1>6
  <2>2. executed'[n + 1] \in Execution
    BY <1>3, <2>1, ElementOfSeq
  <2>3. QED
    BY <2>1, <2>2 DEF TransportInv, ExecutedInv
<1>8. executed'[n + 1].len \in RespLens
  BY <1>7 DEF Execution
<1> DEFINE len == executed'[n + 1].len
           Call_ == [body : Seq(Byte), len : RespLens]
<1>9. /\ \A e \in DOMAIN executed : [body |-> executed[e].body, len |-> executed[e].len] \in Call_
      /\ request \in Seq(Byte)
  BY ExecutedFacts, RequestFacts DEF TransportInv, ClientType
<1> HIDE DEF Call_
<1>10. /\ Executions \in Seq(Call_) /\ Len(Executions) = n
       /\ \A e \in 1..n : Executions[e] = [body |-> executed[e].body, len |-> executed[e].len]
  <2>1. Executions \in [1..n -> Call_]
    BY <1>5, <1>9 DEF Executions
  <2>2. Executions \in Seq(Call_)
    BY <2>1, SeqDef
  <2>3. DOMAIN Executions = 1..n
    BY <2>1
  <2>4. Len(Executions) = n
    BY <2>2, <2>3, LenProperties
  <2>5. QED
    BY <1>5, <2>2, <2>4 DEF Executions
<1>11. [body |-> request, len |-> len] \in Call_
  BY <1>8, <1>9 DEF Call_
<1>12. Executions' = Append(Executions, [body |-> request, len |-> len])
  <2> DEFINE new == Append(Executions, [body |-> request, len |-> len])
  <2>1. /\ new \in Seq(Call_) /\ Len(new) = n + 1
        /\ \A e \in 1..n : new[e] = Executions[e]
        /\ new[n + 1] = [body |-> request, len |-> len]
    BY <1>10, <1>11, AppendProperties
  <2>2. DOMAIN new = 1..n + 1
    BY <2>1, LenProperties
  <2> HIDE DEF new
  <2>3. new = [e \in 1..n + 1 |-> new[e]]
    BY <2>1, <2>2
  <2>4. Executions' =
          [e \in 1..n + 1 |-> [body |-> executed'[e].body, len |-> executed'[e].len]]
    BY <1>5, <1>6 DEF Executions
  <2>5. ASSUME NEW e \in 1..n + 1
        PROVE  new[e] = [body |-> executed'[e].body, len |-> executed'[e].len]
    <3>1. CASE e \in 1..n
      BY <1>6, <1>10, <2>1, <3>1
    <3>2. CASE e = n + 1
      BY <1>7, <2>1, <3>2
    <3>3. QED
      BY <3>1, <3>2
  <2>6. Executions' = new
    BY <2>3, <2>4, <2>5
  <2>7. QED
    BY <2>6 DEF new
<1>13. n + 1 <= MAX_ALLOWED_REQUEST_ATTEMPTS + 2
  BY <1>2, <1>4, AnExecutionLeft
<1>14. QED
  BY <1>8, <1>10, <1>12, <1>13, SizeFacts
LEMMA CallBegins == Init => Call!Init
<1> SUFFICES ASSUME Init PROVE Call!Init
  OBVIOUS
<1>1. request \in Requests /\ pc = "connect" /\ result = <<>> /\ executed = <<>>
  BY DEF Init
<1>2. Executions = <<>>
  BY <1>1 DEF Executions
<1>3. Status = "busy"
  BY <1>1 DEF Status, Done
<1>4. CutAtZero(result) = <<>>
  BY <1>1, CutNothing
<1>5. QED
  BY <1>1, <1>2, <1>3, <1>4 DEF Call!Init, Executions, Status

(* A step of the transport is one of the call: the BMC executes, the call  *)
(* succeeds or fails, or nothing its caller could tell.                    *)
LEMMA CallStep ==
  ASSUME TransportInv, TransportInv', [Next]_vars
  PROVE  Call!Next \/ UNCHANGED Call!vars
<1> DEFINE Unseen == request' = request /\ Executions' = Executions /\ Status' = Status
                     /\ CutAtZero(result)' = CutAtZero(result)
<1>1. Unseen => UNCHANGED Call!vars
  BY DEF Call!vars, Executions, Status
<1>2. /\ executed' = executed => Executions' = Executions
      /\ result' = result => CutAtZero(result)' = CutAtZero(result)
      /\ pc' = pc => Status' = Status
  BY DEF Executions, CutAtZero, Status, Done
<1>3. ASSUME request' = request, executed' = executed, pc \notin {"ok", "err"}, pc' = "err",
             result' = result
      PROVE  Call!Next
  <2>1. Status = "busy" /\ Status' = "err"
    BY <1>3 DEF Status, Done
  <2>2. QED
    BY <1>2, <1>3, <2>1 DEF Call!Next, Call!Fail, Executions, Status
<1>4. ASSUME request' = request, executed' = executed, pc \notin {"ok", "err"}, pc' = "ok"
      PROVE  Call!Next
  <2>1. Status = "busy" /\ Status' = "ok"
    BY <1>4 DEF Status, Done
  <2>2. PICK e \in DOMAIN executed : CutAtZero(result)' = [i \in 1..executed[e].len |-> e]
    <3>1. ResultOfThisAttempt'
      BY OwnResult, PTL
    <3>2. QED
      BY <1>4, <3>1 DEF ResultOfThisAttempt, Response
  <2>3. e \in DOMAIN Executions /\ Executions[e].len = executed[e].len
    BY DEF Executions
  <2>4. \E d \in DOMAIN Executions : CutAtZero(result)' = [i \in 1..Executions[d].len |-> d]
    BY <2>2, <2>3
  <2>5. QED
    BY <1>2, <1>4, <2>1, <2>4
    DEF Call!Next, Call!Succeed, Call!Response, Executions, Status
<1>5. ASSUME request' = request, executed' = executed, result' = result,
             pc \notin {"ok", "err"}, pc' \notin {"ok", "err"}
      PROVE  Unseen
  BY <1>2, <1>5 DEF Status, Done
<1>6. CASE UNCHANGED vars
  BY <1>1, <1>2, <1>6 DEF vars, clientVars
<1>7. CASE Next
  <2>1. request' = request
    BY <1>7 DEF Next
  <2>2. CASE Connect
    <3>1. /\ pc = "connect" /\ UNCHANGED <<result, executed>>
          /\ pc' \in {"rest", "create", "err"}
      BY <2>2 DEF Connect, FirstOp
    <3>2. QED
      BY <1>1, <1>3, <1>5, <2>1, <3>1
  <2>3. CASE Send
    BY <1>1, <1>2, <2>1, <2>3 DEF Send
  <2>4. ASSUME FailAttempt, pc \in Ops, executed' = executed
        PROVE  Call!Next \/ UNCHANGED Call!vars
    <3>1. result' = result /\ pc' \in {"rest", "create", "err"}
      BY <2>4 DEF FailAttempt, FirstOp
    <3>2. pc \notin {"ok", "err"}
      BY <2>4 DEF Ops
    <3>3. QED
      BY <1>1, <1>3, <1>5, <2>1, <2>4, <3>1, <3>2
  <2>5. CASE StatusError
    <3>1. FailAttempt /\ executed' = executed /\ pc \in Ops
      BY <2>5 DEF StatusError, FailOnStatus, TransportInv, ClientType
    <3>2. QED
      BY <2>4, <3>1
  <2>6. CASE Receive
    <3>1. PICK r \in replies :
            IF Acceptable(r) /\ ~Unusable(r) THEN Accept(r) ELSE FailAttempt
      BY <2>6 DEF Receive
    <3>2. executed' = executed /\ pc \in Ops /\ pc \notin {"ok", "err"}
      BY <2>6 DEF Receive, TransportInv, ClientType, Ops
    <3>3. CASE Acceptable(r) /\ ~Unusable(r)
      <4>1. Accept(r)
        BY <3>1, <3>3
      <4>2. pc' = "ok" \/ (result' = result /\ pc' \notin {"ok", "err"})
        BY <4>1 DEF Accept, AfterFragment, AfterRead
      <4>3. QED
        BY <1>1, <1>4, <1>5, <2>1, <3>2, <4>2
    <3>4. CASE ~(Acceptable(r) /\ ~Unusable(r))
      BY <2>4, <3>1, <3>2, <3>4
    <3>5. QED
      BY <3>3, <3>4
  <2>7. CASE Bmc
    <3>1. PICK p \in wire :
            \/ BmcCreate(p) \/ BmcWrite(p) \/ BmcFinalize(p) \/ BmcRest(p)
            \/ BmcInfo(p) \/ BmcRead(p) \/ BmcDelete(p) \/ BmcRefuse(p)
      BY <2>7 DEF Bmc
    <3>2. pc' = pc /\ result' = result
      BY <2>7 DEF Bmc, clientVars
    <3>3. CASE BmcRest(p)
      <4>1. /\ Len(Executions) < MAX_ALLOWED_REQUEST_ATTEMPTS + 2
            /\ \E len \in RespLens :
                 Executions' = Append(Executions, [body |-> request, len |-> len])
        BY <2>1, <3>3, OneMore
      <4>2. QED
        BY <1>2, <2>1, <3>2, <4>1 DEF Call!Next, Call!Execute, Executions, Status
    <3>4. CASE ~BmcRest(p)
      <4>1. executed' = executed
        BY <3>1, <3>4
        DEF BmcCreate, BmcWrite, BmcFinalize, BmcInfo, BmcRead, BmcDelete, BmcRefuse
      <4>2. QED
        BY <1>1, <1>2, <2>1, <3>2, <4>1
    <3>5. QED
      BY <3>3, <3>4
  <2>8. CASE Expire
    BY <1>1, <1>2, <2>1, <2>8 DEF Expire, clientVars
  <2>9. QED
    BY <1>7, <2>2, <2>3, <2>5, <2>6, <2>7, <2>8 DEF Next, Client
<1>8. QED
  BY <1>6, <1>7

(* For its caller an exec is one call: the request is executed as it is, a *)
(* bounded number of times, and what is returned is the whole response to  *)
(* one of the executions, or an error.                                     *)
THEOREM ExecIsACall == Spec => ImplementsCall
<1>1. TransportInv /\ TransportInv' /\ [Next]_vars => [Call!Next]_(Call!vars)
  BY CallStep
<1>2. QED
  BY <1>1, CallBegins, TransportAlways, PTL DEF Spec, ImplementsCall, Call!Spec

=============================================================================
