---------------------------- MODULE Binding_proofs ----------------------------
(***************************************************************************)
(* Proofs about Binding: type correctness, that the peer's conclusions are *)
(* so, that reports go where their cluster is bound, that all of them do   *)
(* unless one fails, and that a network is joined with an empty table.     *)
(***************************************************************************)
EXTENDS Binding, TLAPS

Wanted(op) == IF op = "bind" THEN "bound" ELSE "unbound"

(***************************************************************************)
(* A request under way is the last one or an older one, and it would leave *)
(* the table as the peer already takes it to be.                           *)
(***************************************************************************)
Held(r) ==
    /\ r.seq <= requests
    /\ r.seq = requests => r = latest
    /\ agreed[r.binding] # "unknown" => agreed[r.binding] = Wanted(r.op)

\* The same after a step.
StillHeld(r) ==
    /\ r.seq <= requests'
    /\ r.seq = requests' => r = latest'
    /\ agreed'[r.binding] # "unknown" => agreed'[r.binding] = Wanted(r.op)

WireOK ==
    /\ \A i \in 1..Len(wire) : Held(wire[i])
    /\ \A i, j \in 1..Len(wire) : i <= j => wire[i].seq <= wire[j].seq

\* The request being handled is not newer than those under way, and the table is
\* as it wants it once it is handled.
CurOK ==
    cur # NoRequest =>
        /\ Held(cur)
        /\ \A i \in 1..Len(wire) : cur.seq <= wire[i].seq
        /\ pc = "answer" => (cur.binding \in table <=> cur.op = "bind")

\* While the last request is not answered, the peer knows nothing of its binding.
PeerOK ==
    /\ latest # NoRequest => latest.seq = requests
    /\ waiting => agreed[latest.binding] = "unknown"

TalkInv == WireOK /\ CurOK /\ PeerOK /\ AgreedIsBound

\* Nothing but an empty table is ever saved.
FreshInv ==
    /\ stored = {}
    /\ pc \in {"away", "announce"} => table = {}
    /\ FreshStart

\* The report is sent over bindings of its cluster; until a transfer fails, those
\* with an address are served or to come.
SendInv ==
    /\ pc = "send" => /\ \A b \in queue \cup served : b \in table /\ b.source = src
                      /\ ~failed => Reachable(src) \subseteq queue \cup served
    /\ pc # "send" => served = {} /\ ~failed

-----------------------------------------------------------------------------
\* A request names its operation, its binding and its number.
LEMMA RequestIsOne ==
    ASSUME NEW r \in Request
    PROVE  /\ r # NoRequest
           /\ r.op \in Ops /\ r.binding \in Bindings /\ r.seq \in 1..MaxRequests
BY DEF Request, NoRequest, Ops

\* A copy put at the end of the requests under way.
LEMMA AppendOK ==
    ASSUME wire \in Seq(Request), NEW r \in Request, wire' = Append(wire, r)
    PROVE  /\ wire' \in Seq(Request)
           /\ Len(wire') = Len(wire) + 1
           /\ \A i \in 1..Len(wire') :
                 wire'[i] = IF i = Len(wire) + 1 THEN r ELSE wire[i]
OBVIOUS

\* The first request taken from those under way.
LEMMA TailOK ==
    ASSUME wire \in Seq(Request), wire # <<>>, wire' = Tail(wire)
    PROVE  /\ wire' \in Seq(Request)
           /\ Len(wire) \in Nat \ {0}
           /\ Len(wire') = Len(wire) - 1
           /\ \A i \in 1..Len(wire') : wire'[i] = wire[i + 1]
           /\ Head(wire) = wire[1] /\ wire[1] \in Request
OBVIOUS

\* The bounds are natural numbers.
LEMMA BoundsAreNat ==
    /\ MaxRequests \in Nat /\ MaxCopies \in Nat
    /\ MaxLosses \in Nat /\ MaxInterruptions \in Nat
BY BoundsAssumption

\* The empty queue is a sequence of requests.
LEMMA EmptyOK == <<>> \in Seq(Request)
OBVIOUS

\* The initial states are of their types.
LEMMA TypeInit == Init => TypeOK
<1> SUFFICES ASSUME Init
             PROVE  TypeOK
    OBVIOUS
<1>1. wire \in Seq(Request)
    BY EmptyOK DEF Init
<1>2. agreed \in [Bindings -> {"unknown", "bound", "unbound"}]
    BY DEF Init
<1>3. requests \in 0..MaxRequests /\ losses \in 0..MaxLosses
         /\ interruptions \in 0..MaxInterruptions
    BY BoundsAreNat DEF Init
<1> QED
    BY <1>1, <1>2, <1>3 DEF Init, TypeOK

\* Every step keeps the types.
LEMMA TypeNext == TypeOK /\ [Next]_vars => TypeOK'
<1> SUFFICES ASSUME TypeOK, [Next]_vars
             PROVE  TypeOK'
    OBVIOUS
<1> USE BoundsAreNat
<1>1. ASSUME NEW op \in Ops, NEW b \in Bindings, Ask(op, b)
      PROVE  TypeOK'
  <2>1. latest' \in Request
      BY <1>1 DEF Ask, TypeOK, Request
  <2>2. wire' \in Seq(Request)
      BY <1>1, <2>1, AppendOK DEF Ask, TypeOK
  <2>3. requests' \in 0..MaxRequests /\ latest' # NoRequest
      BY <1>1, <2>1, RequestIsOne DEF Ask, TypeOK
  <2> QED
      BY <1>1, <2>1, <2>2, <2>3 DEF Ask, TypeOK, nodeVars, reportVars
<1>2. CASE Repeat
  <2>1. latest \in Request
      BY <1>2 DEF Repeat, TypeOK
  <2>2. wire' \in Seq(Request)
      BY <1>2, <2>1, AppendOK DEF Repeat, TypeOK
  <2> QED
      BY <1>2, <2>2 DEF Repeat, TypeOK, nodeVars, reportVars
<1>3. CASE LoseRequest
  <2>1. wire' \in Seq(Request)
      BY <1>3, TailOK DEF LoseRequest, TypeOK
  <2> QED
      BY <1>3, <2>1 DEF LoseRequest, TypeOK, nodeVars, reportVars
<1>4. CASE Receive
  <2>1. wire' \in Seq(Request) /\ cur' \in Request
      BY <1>4, TailOK DEF Receive, TypeOK
  <2>2. cur' # NoRequest
      BY <2>1, RequestIsOne
  <2> QED
      BY <1>4, <2>1, <2>2 DEF Receive, TypeOK, nodeVars, reportVars
<1>5. CASE Change
  <2>1. cur.binding \in Bindings
      BY <1>5, RequestIsOne DEF Change, TypeOK
  <2>2. table' \subseteq Bindings /\ asked' \subseteq Bindings
      BY <1>5, <2>1 DEF Change, Bind, Unbind, TypeOK
  <2> QED
      BY <1>5, <2>2 DEF Change, TypeOK, reportVars, peerVars
<1>6. CASE Respond
  <2>1. agreed' \in [Bindings -> {"unknown", "bound", "unbound"}] /\ waiting' \in BOOLEAN
      BY <1>6 DEF Respond, Conclude, TypeOK
  <2>2. waiting' => latest' # NoRequest
      BY <1>6 DEF Respond, Conclude, TypeOK
  <2> QED
      BY <1>6, <2>1, <2>2 DEF Respond, TypeOK, nodeVars, reportVars
<1>7. CASE LoseAnswer
    BY <1>7 DEF LoseAnswer, TypeOK, nodeVars, reportVars, peerVars
<1>8. ASSUME NEW d \in Devices, Learn(d) \/ Forget(d)
      PROVE  TypeOK'
  <2>1. CASE Learn(d)
      BY <2>1 DEF Learn, TypeOK, reportVars, peerVars
  <2>2. CASE Forget(d)
      BY <2>2 DEF Forget, TypeOK, reportVars, peerVars
  <2> QED
      BY <1>8, <2>1, <2>2
<1>9. ASSUME NEW s \in SUBSET Sources, CollectReports(s)
      PROVE  TypeOK'
    BY <1>9 DEF CollectReports, TypeOK, nodeVars, peerVars
<1>10. ASSUME NEW s \in SUBSET Sources, CutHandler(s)
       PROVE  TypeOK'
    BY <1>10 DEF CutHandler, TypeOK, nodeVars, peerVars
<1>11. ASSUME NEW s \in Sources, Begin(s)
       PROVE  TypeOK'
    BY <1>11 DEF Begin, Reachable, TypeOK, nodeVars, peerVars
<1>12. ASSUME NEW b \in Bindings, Send(b) \/ SendFails(b)
       PROVE  TypeOK'
  <2>1. CASE Send(b)
      BY <2>1 DEF Send, TypeOK, nodeVars, peerVars
  <2>2. CASE SendFails(b)
      BY <2>2 DEF SendFails, TypeOK, nodeVars, peerVars
  <2> QED
      BY <1>12, <2>1, <2>2
<1>13. CASE EndSend
    BY <1>13 DEF EndSend, TypeOK, nodeVars, peerVars
<1>14. CASE EndReports
    BY <1>14 DEF EndReports, TypeOK, nodeVars, reportVars, peerVars
<1>15. CASE Leave \/ Restart
  <2>1. Depart /\ stored' = stored
      BY <1>15 DEF Leave, Restart
  <2>2. wire' \in Seq(Request)
      BY <2>1, EmptyOK DEF Depart
  <2>3. agreed' \in [Bindings -> {"unknown", "bound", "unbound"}]
      BY <2>1 DEF Depart
  <2>4. interruptions' \in 0..MaxInterruptions
      BY <2>1 DEF Depart, TypeOK
  <2>5. /\ table' = {} /\ known' = {} /\ asked' = {} /\ pc' = "away" /\ cur' = NoRequest
        /\ due' = {} /\ queue' = {} /\ served' = {} /\ failed' = FALSE /\ waiting' = FALSE
        /\ UNCHANGED <<src, latest, requests, losses>>
      BY <2>1 DEF Depart
  <2> QED
      BY <2>1, <2>2, <2>3, <2>4, <2>5 DEF TypeOK
<1>16. CASE Join \/ Rejoin
    BY <1>16 DEF Join, Rejoin, TypeOK, reportVars, peerVars
<1>17. CASE Persist
    BY <1>17 DEF Persist, TypeOK, reportVars, peerVars
<1>18. CASE UNCHANGED vars
    BY <1>18 DEF TypeOK, vars
<1> QED
    BY <1>1, <1>2, <1>3, <1>4, <1>5, <1>6, <1>7, <1>8, <1>9, <1>10, <1>11, <1>12,
       <1>13, <1>14, <1>15, <1>16, <1>17, <1>18 DEF Next

(***************************************************************************)
(* Every variable keeps its type, for all devices, groups, clusters and    *)
(* bindings: a handler is under way exactly when there is a request in it. *)
(***************************************************************************)
THEOREM TypeCorrect == Spec => []TypeOK
BY TypeInit, TypeNext, PTL DEF Spec

-----------------------------------------------------------------------------
\* Every step keeps what FreshInv says of bindings made on an earlier
\* network.
LEMMA FreshNext == TypeOK /\ FreshInv /\ [Next]_vars => FreshInv'
<1> SUFFICES ASSUME TypeOK, FreshInv, [Next]_vars
             PROVE  FreshInv'
    OBVIOUS
<1> USE DEF FreshInv, FreshStart
<1>1. ASSUME NEW op \in Ops, NEW b \in Bindings, Ask(op, b)
      PROVE  FreshInv'
    BY <1>1 DEF Ask, nodeVars
<1>2. CASE Repeat \/ LoseRequest \/ Receive \/ Respond \/ LoseAnswer
    BY <1>2 DEF Repeat, LoseRequest, Receive, Respond, LoseAnswer, nodeVars
<1>3. CASE Change
    BY <1>3 DEF Change, Bind, Unbind
<1>4. ASSUME NEW d \in Devices, Learn(d) \/ Forget(d)
      PROVE  FreshInv'
    BY <1>4 DEF Learn, Forget
<1>5. ASSUME NEW s \in SUBSET Sources, CollectReports(s) \/ CutHandler(s)
      PROVE  FreshInv'
    BY <1>5 DEF CollectReports, CutHandler, nodeVars
<1>6. ASSUME NEW s \in Sources, Begin(s)
      PROVE  FreshInv'
    BY <1>6 DEF Begin, nodeVars
<1>7. ASSUME NEW b \in Bindings, Send(b) \/ SendFails(b)
      PROVE  FreshInv'
    BY <1>7 DEF Send, SendFails, nodeVars
<1>8. CASE EndSend \/ EndReports
    BY <1>8 DEF EndSend, EndReports, nodeVars
<1>9. CASE Leave \/ Restart
    BY <1>9 DEF Leave, Restart, Depart
<1>10. CASE Join \/ Rejoin
    BY <1>10 DEF Join, Rejoin
<1>11. CASE Persist
    BY <1>11 DEF Persist
<1>12. CASE UNCHANGED vars
    BY <1>12 DEF vars
<1> QED
    BY <1>1, <1>2, <1>3, <1>4, <1>5, <1>6, <1>7, <1>8, <1>9, <1>10, <1>11, <1>12 DEF Next

\* FreshInv holds in every reachable state.
LEMMA FreshAlways == Spec => []FreshInv
<1>1. Init => FreshInv
    BY DEF Init, FreshInv, FreshStart
<1> QED
    BY <1>1, TypeCorrect, FreshNext, PTL DEF Spec

(***************************************************************************)
(* A network is joined with an empty binding table, whatever the storage   *)
(* region was loaded and saved for: no binding of an earlier one returns.  *)
(***************************************************************************)
THEOREM Fresh == Spec => []FreshStart
<1>1. FreshInv => FreshStart
    BY DEF FreshInv
<1> QED
    BY <1>1, FreshAlways, PTL

-----------------------------------------------------------------------------
\* Every step keeps what SendInv says of the report under way.
LEMMA SendNext == TypeOK /\ SendInv /\ [Next]_vars => SendInv'
<1> SUFFICES ASSUME TypeOK, SendInv, [Next]_vars
             PROVE  SendInv'
    OBVIOUS
<1> USE DEF SendInv
<1>1. ASSUME NEW op \in Ops, NEW b \in Bindings, Ask(op, b)
      PROVE  SendInv'
    BY <1>1 DEF Ask, nodeVars, reportVars, Reachable
<1>2. CASE Repeat \/ LoseRequest
    BY <1>2 DEF Repeat, LoseRequest, nodeVars, reportVars, Reachable
<1>3. CASE Receive \/ Respond \/ LoseAnswer
    BY <1>3 DEF Receive, Respond, LoseAnswer, reportVars
<1>4. CASE Change
    BY <1>4 DEF Change, reportVars
<1>5. ASSUME NEW d \in Devices, Learn(d) \/ Forget(d)
      PROVE  SendInv'
    BY <1>5 DEF Learn, Forget, reportVars, Reachable
<1>6. ASSUME NEW s \in SUBSET Sources, CollectReports(s) \/ CutHandler(s)
      PROVE  SendInv'
    BY <1>6 DEF CollectReports, CutHandler
<1>7. ASSUME NEW s \in Sources, Begin(s)
      PROVE  SendInv'
    BY <1>7 DEF Begin, nodeVars, Reachable
<1>8. ASSUME NEW b \in Bindings, Send(b) \/ SendFails(b)
      PROVE  SendInv'
    BY <1>8 DEF Send, SendFails, nodeVars, Reachable
<1>9. CASE EndSend \/ EndReports
    BY <1>9 DEF EndSend, EndReports, reportVars
<1>10. CASE Leave \/ Restart
    BY <1>10 DEF Leave, Restart, Depart
<1>11. CASE Join \/ Rejoin \/ Persist
    BY <1>11 DEF Join, Rejoin, Persist, reportVars
<1>12. CASE UNCHANGED vars
    BY <1>12 DEF vars, Reachable
<1> QED
    BY <1>1, <1>2, <1>3, <1>4, <1>5, <1>6, <1>7, <1>8, <1>9, <1>10, <1>11, <1>12 DEF Next

\* SendInv holds in every reachable state.
LEMMA SendAlways == Spec => []SendInv
<1>1. Init => SendInv
    BY DEF Init, SendInv
<1> QED
    BY <1>1, TypeCorrect, SendNext, PTL DEF Spec

(***************************************************************************)
(* A report goes to bindings of its own cluster that are in the table at   *)
(* the moment it is sent, for any bindings and any number of clusters.     *)
(***************************************************************************)
THEOREM SentBound == Spec => []SentWasBound
<1>1. SendInv => SentWasBound
    BY DEF SendInv, SentWasBound
<1> QED
    BY <1>1, SendAlways, PTL

(***************************************************************************)
(* A report that is not given up goes to every binding of its cluster that *)
(* has an address: only a failed transfer keeps one from it.               *)
(***************************************************************************)
THEOREM Served == Spec => []ServedUnlessFailed
<1>1. SendInv => ServedUnlessFailed
    BY DEF SendInv, ServedUnlessFailed
<1> QED
    BY <1>1, SendAlways, PTL

-----------------------------------------------------------------------------
\* A step that leaves the conversation and the table alone and at most drops the
\* handler changes nothing of what is known.
LEMMA TalkSame ==
    ASSUME TypeOK, TalkInv,
           UNCHANGED <<table, agreed, wire, latest, waiting, requests>>,
           cur' = NoRequest \/ (cur' = cur /\ (pc' = "answer" => pc = "answer"))
    PROVE  TalkInv'
<1>1. WireOK'
    BY DEF TalkInv, WireOK, Held
<1>2. CurOK'
    BY DEF TalkInv, CurOK, Held
<1>3. PeerOK' /\ AgreedIsBound'
    BY DEF TalkInv, PeerOK, AgreedIsBound
<1> QED
    BY <1>1, <1>2, <1>3 DEF TalkInv

\* A new request does not disturb what was concluded from the answers.
LEMMA AskTalk ==
    ASSUME TypeOK, TalkInv, NEW op \in Ops, NEW b \in Bindings, Ask(op, b)
    PROVE  TalkInv'
<1> USE BoundsAreNat
<1>1. /\ latest' = [op |-> op, binding |-> b, seq |-> requests'] /\ latest' \in Request
      /\ requests' = requests + 1 /\ requests \in Nat
      /\ agreed' = [agreed EXCEPT ![b] = "unknown"]
      /\ wire' = Append(wire, latest')
      /\ UNCHANGED <<table, cur, pc>>
    BY DEF Ask, TypeOK, Request, nodeVars
<1>2. /\ Len(wire') = Len(wire) + 1 /\ Len(wire) \in Nat
      /\ \A i \in 1..Len(wire') : wire'[i] = IF i = Len(wire) + 1 THEN latest' ELSE wire[i]
    BY <1>1, AppendOK DEF TypeOK
<1>3. agreed'[b] = "unknown" /\ \A c \in Bindings \ {b} : agreed'[c] = agreed[c]
    BY <1>1 DEF TypeOK
<1>4. ASSUME NEW r \in Request, Held(r)
      PROVE  StillHeld(r)
  <2>1. r.seq \in Nat /\ r.binding \in Bindings
      BY <1>4, RequestIsOne
  <2> QED
      BY <1>1, <1>3, <1>4, <2>1 DEF Held, StillHeld
<1>5. StillHeld(latest')
    BY <1>1, <1>3 DEF StillHeld
<1>6. \A i \in 1..Len(wire) : wire[i] \in Request /\ wire[i].seq \in Nat /\ wire[i].seq <= requests
    BY RequestIsOne DEF TypeOK, TalkInv, WireOK, Held
<1>7. WireOK'
  <2>1. ASSUME NEW i \in 1..Len(wire')
        PROVE  StillHeld(wire'[i])
    <3>1. CASE i = Len(wire) + 1
        BY <1>2, <1>5, <3>1
    <3>2. CASE i # Len(wire) + 1
      <4>1. i \in 1..Len(wire) /\ wire'[i] = wire[i]
          BY <1>2, <3>2
      <4>2. StillHeld(wire[i])
          BY <1>4, <1>6, <4>1 DEF TalkInv, WireOK
      <4> QED
          BY <4>1, <4>2
    <3> QED
        BY <3>1, <3>2
  <2>2. \A i, j \in 1..Len(wire') : i <= j => wire'[i].seq <= wire'[j].seq
      BY <1>1, <1>2, <1>6 DEF TalkInv, WireOK
  <2> QED
      BY <2>1, <2>2 DEF WireOK, Held, StillHeld
<1>8. CurOK'
  <2> SUFFICES ASSUME cur # NoRequest
               PROVE  CurOK'
      BY <1>1 DEF CurOK
  <2>1. cur \in Request /\ Held(cur) /\ cur.seq \in Nat
      BY RequestIsOne DEF TypeOK, TalkInv, CurOK
  <2>2. StillHeld(cur) /\ cur.seq <= requests
      BY <1>1, <1>4, <2>1 DEF Held
  <2>3. \A i \in 1..Len(wire') : cur.seq <= wire'[i].seq
      BY <1>1, <1>2, <2>1, <2>2 DEF TalkInv, CurOK
  <2> QED
      BY <1>1, <2>2, <2>3 DEF TalkInv, CurOK, Held, StillHeld
<1>9. PeerOK' /\ AgreedIsBound'
    BY <1>1, <1>3 DEF TalkInv, PeerOK, AgreedIsBound
<1> QED
    BY <1>7, <1>8, <1>9 DEF TalkInv

\* Neither does repeating one.
LEMMA RepeatTalk ==
    ASSUME TypeOK, TalkInv, Repeat
    PROVE  TalkInv'
<1>1. /\ waiting /\ latest \in Request /\ wire' = Append(wire, latest)
      /\ UNCHANGED <<table, cur, pc, latest, waiting, agreed, requests>>
    BY DEF Repeat, TypeOK, nodeVars
<1>2. /\ Len(wire') = Len(wire) + 1 /\ Len(wire) \in Nat
      /\ \A i \in 1..Len(wire') : wire'[i] = IF i = Len(wire) + 1 THEN latest ELSE wire[i]
    BY <1>1, AppendOK DEF TypeOK
<1>3. latest.seq = requests /\ requests \in Nat /\ Held(latest)
    BY <1>1, RequestIsOne DEF TalkInv, PeerOK, Held, TypeOK
<1>4. \A r : Held(r) => StillHeld(r)
    BY <1>1 DEF Held, StillHeld
<1>5. \A i \in 1..Len(wire) : wire[i].seq \in Nat /\ wire[i].seq <= requests
    BY RequestIsOne DEF TypeOK, TalkInv, WireOK, Held
<1>6. WireOK'
  <2>1. \A i \in 1..Len(wire') : Held(wire'[i])
      BY <1>2, <1>3 DEF TalkInv, WireOK
  <2>2. \A i, j \in 1..Len(wire') : i <= j => wire'[i].seq <= wire'[j].seq
      BY <1>2, <1>3, <1>5 DEF TalkInv, WireOK
  <2> QED
      BY <1>4, <2>1, <2>2 DEF WireOK, Held, StillHeld
<1>7. CurOK'
  <2> SUFFICES ASSUME cur # NoRequest
               PROVE  CurOK'
      BY <1>1 DEF CurOK
  <2>1. StillHeld(cur) /\ cur.seq <= requests
      BY <1>4 DEF TalkInv, CurOK, Held
  <2>2. \A i \in 1..Len(wire') : cur.seq <= wire'[i].seq
      BY <1>2, <1>3, <2>1 DEF TalkInv, CurOK
  <2> QED
      BY <1>1, <2>1, <2>2 DEF TalkInv, CurOK, Held, StillHeld
<1>8. PeerOK' /\ AgreedIsBound'
    BY <1>1 DEF TalkInv, PeerOK, AgreedIsBound
<1> QED
    BY <1>6, <1>7, <1>8 DEF TalkInv

\* The oldest request under way is lost, or taken by the listener.
LEMMA TakeTalk ==
    ASSUME TypeOK, TalkInv, LoseRequest \/ Receive
    PROVE  TalkInv'
<1>1. /\ wire # <<>> /\ wire' = Tail(wire)
      /\ UNCHANGED <<table, latest, waiting, agreed, requests>>
      /\ \/ UNCHANGED <<cur, pc>>
         \/ cur' = Head(wire) /\ pc' = "handle"
    BY DEF LoseRequest, Receive, nodeVars
<1>2. /\ Len(wire) \in Nat \ {0} /\ Len(wire') = Len(wire) - 1
      /\ \A i \in 1..Len(wire') : wire'[i] = wire[i + 1]
      /\ Head(wire) = wire[1]
    BY <1>1, TailOK DEF TypeOK
<1>3. \A r : Held(r) => StillHeld(r)
    BY <1>1 DEF Held, StillHeld
<1>4. \A i \in 1..Len(wire') : i + 1 \in 1..Len(wire)
    BY <1>2
<1>5. \A i \in 1..Len(wire') : StillHeld(wire'[i])
    BY <1>2, <1>3, <1>4 DEF TalkInv, WireOK
<1>6. \A i, j \in 1..Len(wire') : i <= j => wire'[i].seq <= wire'[j].seq
    BY <1>2, <1>4 DEF TalkInv, WireOK
<1>7. WireOK'
    BY <1>5, <1>6 DEF WireOK, Held, StillHeld
<1>8. CurOK'
  <2>1. CASE UNCHANGED <<cur, pc>>
    <3> SUFFICES ASSUME cur # NoRequest
                 PROVE  CurOK'
        BY <2>1 DEF CurOK
    <3>1. StillHeld(cur)
        BY <1>3 DEF TalkInv, CurOK
    <3>2. \A i \in 1..Len(wire') : cur.seq <= wire'[i].seq
        BY <1>2, <1>4 DEF TalkInv, CurOK
    <3> QED
        BY <1>1, <2>1, <3>1, <3>2 DEF TalkInv, CurOK, Held, StillHeld
  <2>2. CASE cur' = Head(wire) /\ pc' = "handle"
    <3>1. StillHeld(wire[1])
        BY <1>2, <1>3 DEF TalkInv, WireOK
    <3>2. \A i \in 1..Len(wire') : wire[1].seq <= wire'[i].seq
        BY <1>2, <1>4 DEF TalkInv, WireOK
    <3> QED
        BY <1>2, <2>2, <3>1, <3>2 DEF CurOK, Held, StillHeld
  <2> QED
      BY <1>1, <2>1, <2>2
<1>9. PeerOK' /\ AgreedIsBound'
    BY <1>1 DEF TalkInv, PeerOK, AgreedIsBound
<1> QED
    BY <1>7, <1>8, <1>9 DEF TalkInv

\* A handler leaves alone whatever the peer knows: what it changes is as the peer
\* knows it already, or is not known.
LEMMA ChangeTalk ==
    ASSUME TypeOK, TalkInv, Change
    PROVE  TalkInv'
<1>1. /\ table' = IF cur.op = "bind" THEN table \cup {cur.binding} ELSE table \ {cur.binding}
      /\ UNCHANGED <<cur, latest, waiting, agreed, wire, requests>>
    BY DEF Change, Bind, Unbind, peerVars
<1>2. cur \in Request /\ cur # NoRequest /\ cur.op \in Ops
    BY RequestIsOne DEF Change, TypeOK
<1>3. Held(cur) /\ \A i \in 1..Len(wire) : cur.seq <= wire[i].seq
    BY <1>2 DEF TalkInv, CurOK
<1>4. cur.binding \in table' <=> cur.op = "bind"
    BY <1>1
<1>5. WireOK'
    BY <1>1 DEF TalkInv, WireOK, Held
<1>6. CurOK'
    BY <1>1, <1>3, <1>4 DEF CurOK, Held
<1>7. PeerOK'
    BY <1>1 DEF TalkInv, PeerOK
<1>8. AgreedIsBound'
  <2> SUFFICES ASSUME NEW b \in Bindings
               PROVE  /\ agreed[b] = "bound" => b \in table'
                      /\ agreed[b] = "unbound" => b \notin table'
      BY <1>1 DEF AgreedIsBound
  <2>1. CASE b = cur.binding
      BY <1>2, <1>3, <1>4, <2>1 DEF Held, Wanted, Ops
  <2>2. CASE b # cur.binding
      BY <1>1, <2>2 DEF TalkInv, AgreedIsBound
  <2> QED
      BY <2>1, <2>2
<1> QED
    BY <1>5, <1>6, <1>7, <1>8 DEF TalkInv

\* An answer tells the peer about its last request only, and then the copies still
\* under way are of that request too.
LEMMA RespondTalk ==
    ASSUME TypeOK, TalkInv, Respond
    PROVE  TalkInv'
<1>1. /\ pc = "answer" /\ cur' = NoRequest
      /\ UNCHANGED <<table, latest, wire, requests>>
    BY DEF Respond, nodeVars
<1>2. /\ cur \in Request /\ cur # NoRequest /\ cur.op \in Ops
      /\ cur.binding \in Bindings /\ cur.seq \in Nat
    BY <1>1, RequestIsOne DEF TypeOK
<1>3. /\ Held(cur) /\ (cur.binding \in table <=> cur.op = "bind")
      /\ \A i \in 1..Len(wire) : cur.seq <= wire[i].seq
    BY <1>1, <1>2 DEF TalkInv, CurOK
<1>4. CASE waiting /\ cur.seq = latest.seq
  <2>1. /\ waiting' = FALSE
        /\ agreed' = [agreed EXCEPT ![cur.binding] = Wanted(cur.op)]
      BY <1>4 DEF Respond, Conclude, Wanted
  <2>2. agreed'[cur.binding] = Wanted(cur.op)
        /\ \A c \in Bindings \ {cur.binding} : agreed'[c] = agreed[c]
      BY <1>2, <2>1 DEF TypeOK
  <2>3. latest # NoRequest /\ latest.seq = requests /\ cur = latest /\ requests \in Nat
      BY <1>3, <1>4 DEF TypeOK, TalkInv, PeerOK, Held
  <2>4. ASSUME NEW i \in 1..Len(wire)
        PROVE  wire[i] = cur
    <3>1. wire[i].seq \in Nat /\ wire[i].seq <= requests /\ cur.seq <= wire[i].seq
        BY <1>3, RequestIsOne DEF TypeOK, TalkInv, WireOK, Held
    <3>2. wire[i].seq = requests
        BY <2>3, <3>1
    <3> QED
        BY <2>3, <3>2 DEF TalkInv, WireOK, Held
  <2>5. WireOK'
    <3>1. \A i \in 1..Len(wire) : StillHeld(wire[i])
        BY <1>1, <2>2, <2>3, <2>4 DEF StillHeld
    <3> QED
        BY <1>1, <3>1 DEF TalkInv, WireOK, Held, StillHeld
  <2>6. CurOK' /\ PeerOK'
      BY <1>1, <2>1 DEF TalkInv, CurOK, PeerOK
  <2>7. AgreedIsBound'
    <3> SUFFICES ASSUME NEW b \in Bindings
                 PROVE  /\ agreed'[b] = "bound" => b \in table
                        /\ agreed'[b] = "unbound" => b \notin table
        BY <1>1 DEF AgreedIsBound
    <3>1. CASE b = cur.binding
        BY <1>2, <1>3, <2>2, <3>1 DEF Wanted
    <3>2. CASE b # cur.binding
        BY <2>2, <3>2 DEF TalkInv, AgreedIsBound
    <3> QED
        BY <3>1, <3>2
  <2> QED
      BY <2>5, <2>6, <2>7 DEF TalkInv
<1>5. CASE ~(waiting /\ cur.seq = latest.seq)
  <2>1. UNCHANGED <<waiting, agreed>>
      BY <1>5 DEF Respond, Conclude
  <2> QED
      BY <1>1, <2>1, TalkSame
<1> QED
    BY <1>4, <1>5

\* Every step keeps what TalkInv says of requests, answers and conclusions.
LEMMA TalkNext == TypeOK /\ FreshInv /\ TalkInv /\ [Next]_vars => TalkInv'
<1> SUFFICES ASSUME TypeOK, FreshInv, TalkInv, [Next]_vars
             PROVE  TalkInv'
    OBVIOUS
<1>1. ASSUME NEW op \in Ops, NEW b \in Bindings, Ask(op, b)
      PROVE  TalkInv'
    BY <1>1, AskTalk
<1>2. CASE Repeat
    BY <1>2, RepeatTalk
<1>3. CASE LoseRequest \/ Receive
    BY <1>3, TakeTalk
<1>4. CASE Change
    BY <1>4, ChangeTalk
<1>5. CASE Respond
    BY <1>5, RespondTalk
<1>6. CASE LoseAnswer
    BY <1>6, TalkSame DEF LoseAnswer, nodeVars, peerVars
<1>7. ASSUME NEW d \in Devices, Learn(d) \/ Forget(d)
      PROVE  TalkInv'
    BY <1>7, TalkSame DEF Learn, Forget, peerVars
<1>8. ASSUME NEW s \in SUBSET Sources, CollectReports(s) \/ CutHandler(s)
      PROVE  TalkInv'
    BY <1>8, TalkSame DEF CollectReports, CutHandler, nodeVars, peerVars
<1>9. ASSUME NEW s \in Sources, Begin(s)
      PROVE  TalkInv'
    BY <1>9, TalkSame DEF Begin, nodeVars, peerVars
<1>10. ASSUME NEW b \in Bindings, Send(b) \/ SendFails(b)
       PROVE  TalkInv'
    BY <1>10, TalkSame DEF Send, SendFails, nodeVars, peerVars
<1>11. CASE EndSend \/ EndReports
    BY <1>11, TalkSame DEF EndSend, EndReports, nodeVars, peerVars
<1>12. CASE Leave \/ Restart
  <2>1. /\ table' = {} /\ cur' = NoRequest /\ wire' = <<>> /\ waiting' = FALSE
        /\ agreed' = [b \in Bindings |-> "unknown"]
        /\ UNCHANGED <<latest, requests>>
      BY <1>12 DEF Leave, Restart, Depart
  <2>2. WireOK' /\ CurOK'
      BY <2>1 DEF WireOK, CurOK
  <2>3. PeerOK' /\ AgreedIsBound'
      BY <2>1 DEF TalkInv, PeerOK, AgreedIsBound
  <2> QED
      BY <2>2, <2>3 DEF TalkInv
<1>13. CASE Join \/ Rejoin \/ Persist
  <2>1. UNCHANGED <<table, cur, latest, waiting, agreed, wire, requests>> /\ pc' # "answer"
      BY <1>13 DEF Join, Rejoin, Persist, FreshInv, peerVars
  <2> QED
      BY <2>1, TalkSame
<1>14. CASE UNCHANGED vars
    BY <1>14, TalkSame DEF vars
<1> QED
    BY <1>1, <1>2, <1>3, <1>4, <1>5, <1>6, <1>7, <1>8, <1>9, <1>10, <1>11, <1>12,
       <1>13, <1>14 DEF Next

(***************************************************************************)
(* What the peer concludes from the answers is so, for any number of       *)
(* requests, copies of them, losses and interruptions.                     *)
(***************************************************************************)
THEOREM Agreement == Spec => []AgreedIsBound
<1>1. Init => TalkInv
    BY DEF Init, TalkInv, WireOK, CurOK, PeerOK, AgreedIsBound
<1>2. TalkInv => AgreedIsBound
    BY DEF TalkInv
<1> QED
    BY <1>1, <1>2, TypeCorrect, FreshAlways, TalkNext, PTL DEF Spec
=============================================================================
