----------------------------- MODULE BlobTransport -----------------------------
(***************************************************************************)
(* One RestClient::exec (src/src/lib/ilorest/rest.rs) over Blobstore2      *)
(* (blobstore.rs): an HTTP request is sent to the iLO BMC packet by packet *)
(* and retried as a whole when any packet exchange fails.                  *)
(*                                                                         *)
(*   short request   one packet that carries it                            *)
(*   long request    create a blob, write fragments, finalize, then one    *)
(*                   packet that names the blob                            *)
(*   short response  inside the answer to that packet                      *)
(*   long response   a blob: its size, fragments, delete                   *)
(*                                                                         *)
(* The BMC and the closed ilorest_chif.so are outside the repository; they *)
(* are modelled by what the code relies on.  A packet may be lost, refused *)
(* or late, its reply may be lost or arrive during a later exchange, and   *)
(* the volatile namespace may forget a blob at any time.                   *)
(***************************************************************************)
EXTENDS Bytes, FiniteSets

CONSTANTS
  Requests,      \* the requests exec may be called with, as bytes
  RespLens,      \* lengths a response may have
  Modes,         \* receive modes the BMC answers with
  MaxWrite,      \* max_write_size
  WriteHdr,      \* size_of_writeRequest
  ImmHdr,        \* size_of_restImmediateRequest
  MaxRead,       \* max_read_size
  ReadHdr,       \* size_of_readRequest
  FixedSize,     \* size_of_restResponseFixed
  MaxBuffer,     \* get_max_buffer_size, the length of every receive buffer
  MAX_ALLOWED_REQUEST_ATTEMPTS,
  Faulty         \* what may go wrong

Faults == {"connect", "lost", "late", "refused", "expired"}

ASSUME RequestsAssumption == Requests \subseteq Seq(Byte) \ {<<>>}
ASSUME SizesAssumption ==
  /\ RespLens \subseteq Nat
  /\ Modes \subseteq Nat
  /\ MaxWrite \in Nat /\ WriteHdr \in Nat /\ WriteHdr < MaxWrite
  /\ MaxRead \in Nat /\ ReadHdr \in Nat /\ ReadHdr < MaxRead
  /\ ImmHdr \in Nat /\ FixedSize \in Nat /\ MaxBuffer \in Nat
  /\ MAX_ALLOWED_REQUEST_ATTEMPTS \in Nat
  /\ MAX_ALLOWED_REQUEST_ATTEMPTS + 2 \in Byte   \* executions are told apart by bytes
ASSUME FaultsAssumption == Faulty \subseteq Faults

VARIABLES
  request,   \* the request being made
  pc,        \* the packet exchange the client is at
  sent,      \* sequence number of the packet awaiting its reply, 0 for none
  seq,       \* last sequence number the library has used
  try,       \* current_try
  written,   \* bytes_written of write_multi_packet
  size,      \* the response blob's size
  got,       \* read_data_buffer
  result,    \* what exec returns
  wire,      \* packets on their way to the BMC
  replies,   \* replies on their way back
  blobs,     \* the BMC's volatile namespace
  executed   \* the requests the BMC has executed

clientVars == <<pc, sent, seq, try, written, size, got, result>>
vars == <<request, clientVars, wire, replies, blobs, executed>>

MayFail(fault) == fault \in Faulty

-----------------------------------------------------------------------------
(* KEYS AND PACKETS                                                        *)

(* make_request draws new keys: one pair per attempt.                      *)
KeyOf_OncePerExec(n) == 0

KeyOf(n) == n

ReqKey(n)  == <<"req", KeyOf(n)>>
RespKey(n) == <<"resp", KeyOf(n)>>

Keys == {"req", "resp"} \X (0..MAX_ALLOWED_REQUEST_ATTEMPTS + 1)

Absent == [state |-> "absent", data |-> <<>>]

Shorter(m, n) == IF m < n THEN m ELSE n

(* The fragment sizes of write_multi_packet and read_multi_packet: a       *)
(* fragment and its header fill a packet at most.                          *)
WriteCount_NoHeader == Shorter(MaxWrite, Len(request) - written)

WriteCount == Shorter(MaxWrite - WriteHdr, Len(request) - written)

ReadCount == Shorter(MaxRead - ReadHdr, size - Len(got))

(* A request this short is sent directly.                                  *)
FitsOnePacket == Len(request) < MaxWrite + ImmHdr

Packet(op) ==
  [op    |-> op,
   seq   |-> seq + 1,
   try   |-> try,
   key   |-> IF op \in {"info", "read", "delete"} THEN RespKey(try) ELSE ReqKey(try),
   pos   |-> IF op = "write" THEN written ELSE Len(got),
   count |-> IF op = "read" THEN ReadCount ELSE 0,
   body  |-> CASE op = "write" -> SubSeq(request, written + 1, written + WriteCount)
               [] op = "rest" /\ FitsOnePacket -> request
               [] OTHER -> <<>>]

-----------------------------------------------------------------------------
Init ==
  /\ request \in Requests
  /\ pc = "connect"
  /\ sent = 0
  /\ seq = 0
  /\ try = 0
  /\ written = 0
  /\ size = 0
  /\ got = <<>>
  /\ result = <<>>
  /\ wire = {}
  /\ replies = {}
  /\ blobs = [k \in Keys |-> Absent]
  /\ executed = <<>>

FirstOp == IF FitsOnePacket THEN "rest" ELSE "create"

(* get_lib, IloRestChif::new, ping and set_recv_timeout, once per exec.    *)
Connect ==
  /\ pc = "connect"
  /\ pc' \in {FirstOp} \cup (IF MayFail("connect") THEN {"err"} ELSE {})
  /\ UNCHANGED <<sent, seq, try, written, size, got, result, wire, replies,
                 blobs, executed>>

Ops == {"create", "write", "finalize", "rest", "info", "read", "delete"}

(* exchange_packet hands a packet to the library ...                       *)
Send ==
  /\ pc \in Ops /\ sent = 0
  /\ seq' = seq + 1
  /\ sent' = seq + 1
  /\ wire' = wire \cup {Packet(pc)}
  /\ UNCHANGED <<pc, try, written, size, got, result, replies, blobs, executed>>

(* ... and any failure ends the attempt: `break resp' or another turn of   *)
(* exec's loop, with everything make_request had built gone.               *)
Exhausted_OffByOne == try > MAX_ALLOWED_REQUEST_ATTEMPTS + 1

Exhausted == try > MAX_ALLOWED_REQUEST_ATTEMPTS

NextTry_Uncounted == try

NextTry == try + 1

FailAttempt ==
  /\ sent' = 0
  /\ written' = 0
  /\ size' = 0
  /\ got' = <<>>
  /\ IF Exhausted THEN pc' = "err" /\ UNCHANGED try
                  ELSE pc' = FirstOp /\ try' = NextTry
  /\ UNCHANGED <<seq, result>>

FailOnStatus_Wait == UNCHANGED clientVars

FailOnStatus == FailAttempt

(* The library reports a status other than success: the packet or its      *)
(* reply is lost, or merely late.                                          *)
StatusError ==
  /\ sent # 0
  /\ \/ MayFail("lost") /\ wire' = {p \in wire : p.seq # sent}
                        /\ replies' = {r \in replies : r.seq # sent}
     \/ MayFail("late") /\ UNCHANGED <<wire, replies>>
  /\ FailOnStatus
  /\ UNCHANGED <<blobs, executed>>

(* Success or NotModified, in an answer to the packet just sent.           *)
Acceptable_AnySeq(r) == r.code \in {0, 20}

Acceptable(r) == r.seq = sent /\ r.code \in {0, 20}

AfterFragment(n) == IF n < Len(request) THEN "write" ELSE "finalize"

AfterRead_Keep(n) == IF n < size THEN "read" ELSE "ok"

AfterRead_Short(n) == IF n + 1 < size THEN "read" ELSE "delete"

AfterRead(n) == IF n < size THEN "read" ELSE "delete"

(* The ImmediateResponse branch skips the fixed part of the reply and then *)
(* reads its size once more than the data is long.  Behind the data comes a *)
(* zero, and behind that may come "some random strings after the null      *)
(* bytes in ilo4" (requests.rs:360-361).                                   *)
ImmediateFits(r) == 2 * FixedSize + r.n <= MaxBuffer

Surplus == {s \in [1..FixedSize -> {0, 255}] : FixedSize > 0 => s[1] = 0}

ImmediateBytes(r) == {r.data \o s : s \in Surplus}

(* What the code does with an acceptable reply, by the packet it answers.  *)
Accept(r) ==
  /\ UNCHANGED <<seq, try>>
  /\ sent' = 0
  /\ \/ /\ pc = "create"
        /\ pc' = AfterFragment(0)
        /\ UNCHANGED <<written, size, got, result>>
     \/ /\ pc = "write"
        /\ written' = written + WriteCount
        /\ pc' = AfterFragment(written')
        /\ UNCHANGED <<size, got, result>>
     \/ /\ pc = "finalize"
        /\ pc' = "rest"
        /\ UNCHANGED <<written, size, got, result>>
     \/ /\ pc = "rest" /\ r.mode = 1
        /\ pc' = "info"
        /\ UNCHANGED <<written, size, got, result>>
     \/ /\ pc = "rest" /\ r.mode = 0 /\ ImmediateFits(r)
        /\ result' \in ImmediateBytes(r)
        /\ pc' = "ok"
        /\ UNCHANGED <<written, size, got>>
     \/ /\ pc = "info"
        /\ size' = r.n
        /\ pc' = IF r.n > 0 THEN "read" ELSE "delete"
        /\ UNCHANGED <<written, got, result>>
     \/ /\ pc = "read"
        /\ got' = got \o r.data
        /\ pc' = AfterRead(Len(got'))
        /\ UNCHANGED <<written, size, result>>
     \/ /\ pc = "delete"
        /\ result' = got
        /\ pc' = "ok"
        /\ UNCHANGED <<written, size, got>>

(* Replies the code turns into an Err, besides those it does not accept.   *)
Unusable(r) ==
  pc = "rest" /\ (r.mode \notin {0, 1} \/ (r.mode = 0 /\ ~ImmediateFits(r)))

Receive ==
  /\ sent # 0
  /\ \E r \in replies :
       /\ replies' = replies \ {r}
       /\ IF Acceptable(r) /\ ~Unusable(r) THEN Accept(r) ELSE FailAttempt
  /\ UNCHANGED <<wire, blobs, executed>>

-----------------------------------------------------------------------------
(* THE BMC                                                                 *)

(* The e-th request it has executed has this response.                     *)
Response(e) == [i \in 1..executed[e].len |-> e]

Reply(p, code) == [seq |-> p.seq, code |-> code, mode |-> 1, n |-> 0, data |-> <<>>]

Answer(p, r) == wire' = wire \ {p} /\ replies' = replies \cup {r}

BmcCreate(p) ==
  /\ p.op = "create"
  /\ \/ /\ blobs[p.key].state = "absent"
        /\ blobs' = [blobs EXCEPT ![p.key] = [state |-> "open", data |-> <<>>]]
        /\ Answer(p, Reply(p, 0))
     \/ /\ blobs[p.key].state # "absent"
        /\ Answer(p, Reply(p, 20))
        /\ UNCHANGED blobs
  /\ UNCHANGED executed

BmcWrite(p) ==
  /\ p.op = "write" /\ blobs[p.key].state = "open"
  /\ blobs' = [blobs EXCEPT ![p.key].data = Patch(@, p.pos, p.body)]
  /\ Answer(p, Reply(p, 0))
  /\ UNCHANGED executed

BmcFinalize(p) ==
  /\ p.op = "finalize" /\ blobs[p.key].state = "open"
  /\ blobs' = [blobs EXCEPT ![p.key].state = "final"]
  /\ Answer(p, Reply(p, 0))
  /\ UNCHANGED executed

(* The request, from the packet or from its blob, is executed.  A short    *)
(* response is part of the reply, a long one becomes a blob, unless there  *)
(* is one under that key.                                                  *)
BmcRest(p) ==
  /\ p.op = "rest" /\ (p.body # <<>> \/ blobs[p.key].state = "final")
  /\ \E len \in RespLens, mode \in Modes :
       LET rsp   == RespKey(p.try)
           bytes == [i \in 1..len |-> Len(executed) + 1]
       IN  /\ mode = 0 => FixedSize + len <= MaxBuffer
           /\ executed' = Append(executed,
                [body |-> IF p.body # <<>> THEN p.body ELSE blobs[p.key].data,
                 try  |-> p.try, len |-> len])
           /\ blobs' = [blobs EXCEPT ![rsp] =
                IF mode = 1 /\ @.state = "absent"
                THEN [state |-> "final", data |-> bytes] ELSE @]
           /\ Answer(p, [Reply(p, 0) EXCEPT
                           !.mode = mode, !.n = len,
                           !.data = IF mode = 0 THEN bytes ELSE <<>>])

BmcInfo(p) ==
  /\ p.op = "info" /\ blobs[p.key].state = "final"
  /\ Answer(p, [Reply(p, 0) EXCEPT !.n = Len(blobs[p.key].data)])
  /\ UNCHANGED <<blobs, executed>>

(* A read may return less than was asked for, but something.               *)
BmcRead(p) ==
  LET data  == blobs[p.key].data
      avail == Shorter(p.count, Len(data) - p.pos)
  IN  /\ p.op = "read" /\ blobs[p.key].state = "final"
      /\ \E n \in 1..avail :
           Answer(p, [Reply(p, 0) EXCEPT
                        !.n = n, !.data = SubSeq(data, p.pos + 1, p.pos + n)])
      /\ UNCHANGED <<blobs, executed>>

BmcDelete(p) ==
  /\ p.op = "delete" /\ blobs[p.key].state # "absent"
  /\ blobs' = [blobs EXCEPT ![p.key] = Absent]
  /\ Answer(p, Reply(p, 0))
  /\ UNCHANGED executed

(* What a packet asks for is impossible, or the BMC refuses it anyway.     *)
Impossible(p) ==
  \/ p.op \in {"write", "finalize"} /\ blobs[p.key].state # "open"
  \/ p.op = "rest" /\ p.body = <<>> /\ blobs[p.key].state # "final"
  \/ p.op = "info" /\ blobs[p.key].state # "final"
  \/ /\ p.op = "read"
     /\ blobs[p.key].state # "final" \/ Len(blobs[p.key].data) <= p.pos
  \/ p.op = "delete" /\ blobs[p.key].state = "absent"

BmcRefuse(p) ==
  /\ Impossible(p) \/ MayFail("refused")
  /\ Answer(p, Reply(p, 12))
  /\ UNCHANGED <<blobs, executed>>

Bmc ==
  /\ \E p \in wire :
       \/ BmcCreate(p) \/ BmcWrite(p) \/ BmcFinalize(p) \/ BmcRest(p)
       \/ BmcInfo(p) \/ BmcRead(p) \/ BmcDelete(p) \/ BmcRefuse(p)
  /\ UNCHANGED clientVars

(* The volatile namespace is cleared now and then.                         *)
Expire ==
  /\ MayFail("expired")
  /\ \E k \in Keys : blobs[k].state # "absent" /\ blobs' = [blobs EXCEPT ![k] = Absent]
  /\ UNCHANGED <<clientVars, wire, replies, executed>>

-----------------------------------------------------------------------------
Client == Connect \/ Send \/ StatusError \/ Receive

Next == (Client \/ Bmc \/ Expire) /\ UNCHANGED request

Spec == Init /\ [][Next]_vars

(* The library answers every exchange or gives up (set_recv_timeout), and  *)
(* the program does not wait for anything else.                            *)
FairSpec == Spec /\ WF_vars(Client /\ UNCHANGED request)
            /\ WF_vars(Bmc /\ UNCHANGED request)

-----------------------------------------------------------------------------
(* PROPERTIES                                                              *)

Done == pc \in {"ok", "err"}

TypeOK ==
  /\ pc \in Ops \cup {"connect", "ok", "err"}
  /\ sent \in {0, seq}
  /\ try \in 0..MAX_ALLOWED_REQUEST_ATTEMPTS + 1
  /\ written \in 0..Len(request)
  /\ Len(got) <= size
  /\ \A p \in wire : p.op \in Ops /\ p.seq \in 1..seq /\ p.key \in Keys
  /\ \A r \in replies : r.seq \in 1..seq /\ r.code \in {0, 2, 12, 20}
  /\ blobs \in [Keys -> [state : {"absent", "open", "final"}, data : Seq(Byte)]]

(* The BMC never executes anything but the whole request: a blob is named  *)
(* in a request packet only when every fragment and the finalize have been *)
(* acknowledged, whatever was lost, late or refused (blobstore.rs:92-110).  *)
NeverTorn == \A e \in DOMAIN executed : executed[e].body = request

(* remove_null_bytes of requests.rs: everything before the first zero.     *)
CutAtZero(bytes) ==
  SubSeq(bytes, 1, Cardinality({i \in DOMAIN bytes : \A j \in 1..i : bytes[j] # 0}))

(* What exec returns is, up to its first zero, the complete response to    *)
(* the one execution its last attempt caused: never that of an earlier     *)
(* attempt, nor a part (blobstore.rs:69-70, 115-142).  "HP's CLI tool      *)
(* deletes this response blob ... We will emulate this behavior"           *)
(* (blobstore.rs:123-125): no response blob of its own is left.  Failed    *)
(* attempts before it may leave theirs.                                    *)
ResultOfThisAttempt ==
  pc = "ok" =>
    /\ \E e \in DOMAIN executed :
         /\ executed[e].try = try /\ CutAtZero(result) = Response(e)
         /\ \A d \in DOMAIN executed : executed[d].try = try => d = e
    /\ blobs[RespKey(try)].state = "absent"

(* No fragment packet is longer than max_write_size (blobstore.rs:298-302).*)
FragmentsFit == \A p \in wire : p.op = "write" => WriteHdr + Len(p.body) <= MaxWrite

(* exec returns, if the BMC makes progress in every read it grants.        *)
ExecReturns == <>Done

(* "Receive Mode 0 means the data is part of rest response itself"         *)
(* (blobstore.rs:131), and make_request "returns bytes" (:67): exactly     *)
(* those.                                                                  *)
ResponseExact ==
  pc = "ok" => \E e \in DOMAIN executed : result = Response(e)

-----------------------------------------------------------------------------
(* For its callers an exec is what RestCall specifies (rest.rs:126-181).   *)
(* The request is executed at most MAX_ALLOWED_REQUEST_ATTEMPTS + 2 times, *)
(* as the loop of rest.rs:156-167 counts from 0 and compares with >.       *)
Call == INSTANCE RestCall WITH
  MaxExecutions <- MAX_ALLOWED_REQUEST_ATTEMPTS + 2,
  executions    <- [e \in DOMAIN executed |->
                      [body |-> executed[e].body, len |-> executed[e].len]],
  status        <- IF Done THEN pc ELSE "busy",
  result        <- CutAtZero(result)

ImplementsCall == Call!Spec

=============================================================================
