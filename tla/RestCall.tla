------------------------------- MODULE RestCall -------------------------------
(***************************************************************************)
(* What RestClient::exec promises its callers: the BMC executes nothing    *)
(* but the request, a bounded number of times, any of them perhaps after   *)
(* the call has returned; what the call returns is the response to one of  *)
(* the executions, whole, or an error.  There are no packets here, no      *)
(* blobs and no attempts.                                                  *)
(***************************************************************************)
EXTENDS Naturals, Sequences

CONSTANTS Requests, RespLens, MaxExecutions

VARIABLES
  request,     \* the request the call makes
  executions,  \* what the BMC has executed: [body, len]
  status,      \* "busy", "ok" or "err"
  result       \* the response

vars == <<request, executions, status, result>>

Response(e) == [i \in 1..executions[e].len |-> e]

Init ==
  /\ request \in Requests
  /\ executions = <<>>
  /\ status = "busy"
  /\ result = <<>>

Execute ==
  /\ Len(executions) < MaxExecutions
  /\ \E len \in RespLens :
       executions' = Append(executions, [body |-> request, len |-> len])
  /\ UNCHANGED <<status, result>>

Succeed ==
  /\ status = "busy"
  /\ \E e \in DOMAIN executions : result' = Response(e)
  /\ status' = "ok"
  /\ UNCHANGED executions

Fail ==
  /\ status = "busy"
  /\ status' = "err"
  /\ UNCHANGED <<executions, result>>

Next == (Execute \/ Succeed \/ Fail) /\ UNCHANGED request

Spec == Init /\ [][Next]_vars

=============================================================================
