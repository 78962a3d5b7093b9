------------------------------- MODULE Binding -------------------------------
(***************************************************************************)
(* The binding table of a joined node: the ZDP requests that fill and      *)
(* empty it, the reports that are sent to whatever a cluster is bound to,  *)
(* and the storage region the table is loaded from.                        *)
(*                                                                         *)
(* The requests come from a peer that repeats a request until it is        *)
(* answered, over a link that keeps the order of frames and loses some.    *)
(* listen_task handles them for a second at a time; the end of the second  *)
(* cuts off a handler at whatever it awaits, and the reports that are due  *)
(* are sent before the next second starts.                                 *)
(***************************************************************************)
EXTENDS Integers, Sequences

CONSTANTS
    Devices,           \* the devices a cluster can be bound to
    Groups,            \* the groups it can be bound to
    Self,              \* the node's own address
    Sources,           \* the clusters of the node: endpoint and cluster id
    Bindings,          \* the bindings the peer may ask for
    MaxRequests,       \* bound on the requests of the peer
    MaxCopies,         \* bound on the requests under way
    MaxLosses,         \* bound on lost requests, lost answers and cut handlers
    MaxInterruptions   \* bound on departures from the network and restarts

(***************************************************************************)
(* A binding names the device it is meant for, which need not be the node: *)
(* neither the request handlers nor a data request look at it.             *)
(***************************************************************************)
Binding == [owner: Devices \cup {Self}, source: Sources,
            dst: Devices \cup Groups \cup {Self}]

ASSUME BindingsAssumption ==
    /\ Bindings \subseteq Binding
    /\ Self \notin Devices \cup Groups
ASSUME BoundsAssumption ==
    {MaxRequests, MaxCopies, MaxLosses, MaxInterruptions} \subseteq Nat

Ops == {"bind", "unbind"}
Request == [op: Ops, binding: Bindings, seq: 1..MaxRequests]
NoRequest == [op |-> "none"]

VARIABLES
    table,          \* binding_table
    known,          \* the devices whose short address the node can find
    stored,         \* the table the storage region holds
    pc,             \* what the node is at; "away" when it is not on a network
    cur,            \* the request being handled
    due,            \* the clusters with a report still to be sent
    src, queue,     \* the cluster whose report is being sent, and where it has to go
    served,         \* the bindings it was sent to
    failed,         \* whether sending it was given up
    latest, waiting, \* the peer's last request, and whether it lacks an answer
    agreed,         \* what the peer may conclude from the answers
    asked,          \* the bindings asked for since the node joined
    wire,           \* the copies of requests under way
    requests, losses, interruptions

nodeVars == <<table, known, stored>>
reportVars == <<due, src, queue, served, failed>>
peerVars == <<latest, waiting, agreed, wire, requests>>
vars == <<table, known, stored, pc, cur, due, src, queue, served, failed,
          latest, waiting, agreed, asked, wire, requests, losses, interruptions>>

TypeOK ==
    /\ table \subseteq Bindings
    /\ known \subseteq Devices
    /\ stored \subseteq Bindings
    /\ pc \in {"away", "announce", "listen", "handle", "answer", "report", "send"}
    /\ cur \in Request \cup {NoRequest}
    /\ pc \in {"handle", "answer"} <=> cur # NoRequest
    /\ due \subseteq Sources
    /\ src \in Sources
    /\ queue \subseteq Bindings /\ served \subseteq Bindings
    /\ failed \in BOOLEAN
    /\ latest \in Request \cup {NoRequest}
    /\ waiting \in BOOLEAN
    /\ waiting => latest # NoRequest
    /\ agreed \in [Bindings -> {"unknown", "bound", "unbound"}]
    /\ asked \subseteq Bindings
    /\ wire \in Seq(Request)
    /\ requests \in 0..MaxRequests
    /\ losses \in 0..MaxLosses
    /\ interruptions \in 0..MaxInterruptions

Init ==
    /\ table = {} /\ known = {} /\ stored = {}
    /\ pc = "away"
    /\ cur = NoRequest
    /\ due = {} /\ src \in Sources /\ queue = {} /\ served = {} /\ failed = FALSE
    /\ latest = NoRequest /\ waiting = FALSE
    /\ agreed = [b \in Bindings |-> "unknown"]
    /\ asked = {} /\ wire = <<>>
    /\ requests = 0 /\ losses = 0 /\ interruptions = 0

-----------------------------------------------------------------------------
(* The peer and the link. *)

\* A new request: until it is answered, the peer knows nothing of its binding.
Ask(op, b) ==
    /\ pc # "away" /\ ~waiting /\ requests < MaxRequests
    /\ Len(wire) < MaxCopies
    /\ requests' = requests + 1
    /\ latest' = [op |-> op, binding |-> b, seq |-> requests']
    /\ waiting' = TRUE
    /\ agreed' = [agreed EXCEPT ![b] = "unknown"]
    /\ wire' = Append(wire, latest')
    /\ UNCHANGED <<nodeVars, pc, cur, reportVars, asked, losses, interruptions>>

Repeat ==
    /\ pc # "away" /\ waiting /\ Len(wire) < MaxCopies
    /\ wire' = Append(wire, latest)
    /\ UNCHANGED <<nodeVars, pc, cur, reportVars, latest, waiting, agreed, asked,
                   requests, losses, interruptions>>

LoseRequest ==
    /\ wire # <<>> /\ losses < MaxLosses
    /\ losses' = losses + 1
    /\ wire' = Tail(wire)
    /\ UNCHANGED <<nodeVars, pc, cur, reportVars, latest, waiting, agreed, asked,
                   requests, interruptions>>

\* Bound or not, the binding is as the request wanted it.
Conclude(r) ==
    IF waiting /\ r.seq = latest.seq
    THEN /\ waiting' = FALSE
         /\ agreed' = [agreed EXCEPT ![r.binding] =
                           IF r.op = "bind" THEN "bound" ELSE "unbound"]
    ELSE UNCHANGED <<waiting, agreed>>

-----------------------------------------------------------------------------
(* The request handlers. *)

\* The listener takes a request and acknowledges it; the table is still as it was.
Receive ==
    /\ pc = "listen" /\ wire # <<>>
    /\ cur' = Head(wire)
    /\ wire' = Tail(wire)
    /\ pc' = "handle"
    /\ UNCHANGED <<nodeVars, reportVars, latest, waiting, agreed, asked,
                   requests, losses, interruptions>>

Bind(b) == table \cup {b}

\* Faulty variant: the destination is not looked at.
UnbindCluster(b) == {c \in table : c.source # b.source}
Unbind(b) == table \ {b}

\* Faulty variant: there is no answer to an unbind request that finds nothing.
ChangeQuietly ==
    /\ pc = "handle"
    /\ table' = IF cur.op = "bind" THEN Bind(cur.binding) ELSE Unbind(cur.binding)
    /\ asked' = IF cur.op = "bind" THEN asked \cup {cur.binding} ELSE asked
    /\ IF cur.op = "unbind" /\ cur.binding \notin table
       THEN pc' = "listen" /\ cur' = NoRequest
       ELSE pc' = "answer" /\ UNCHANGED cur
    /\ UNCHANGED <<known, stored, reportVars, peerVars, losses, interruptions>>

\* handle_bind_request and handle_unbind_request up to the answer: a binding that
\* is there already is bound again, and the set never gets full.
Change ==
    /\ pc = "handle"
    /\ table' = IF cur.op = "bind" THEN Bind(cur.binding) ELSE Unbind(cur.binding)
    /\ asked' = IF cur.op = "bind" THEN asked \cup {cur.binding} ELSE asked
    /\ pc' = "answer"
    /\ UNCHANGED <<known, stored, cur, reportVars, peerVars, losses, interruptions>>

\* A peer takes NoEntry for what it is: the binding is not there.
Respond ==
    /\ pc = "answer"
    /\ Conclude(cur)
    /\ pc' = "listen" /\ cur' = NoRequest
    /\ UNCHANGED <<nodeVars, reportVars, latest, asked, wire, requests,
                   losses, interruptions>>

LoseAnswer ==
    /\ pc = "answer" /\ losses < MaxLosses
    /\ losses' = losses + 1
    /\ pc' = "listen" /\ cur' = NoRequest
    /\ UNCHANGED <<nodeVars, reportVars, peerVars, asked, interruptions>>

\* A frame or an announcement tells the address of d, perhaps one that was
\* another's until then.
Learn(d) ==
    /\ pc = "listen"
    /\ \E lost \in {{}} \cup {{e} : e \in known \ {d}} :
          known' = (known \cup {d}) \ lost
    /\ UNCHANGED <<table, stored, pc, cur, reportVars, peerVars, asked,
                   losses, interruptions>>

\* The periodic task cleans the neighbors while the other one waits for whatever it
\* does, and with them goes an address that is in no other table.
Forget(d) ==
    /\ pc # "away" /\ d \in known
    /\ known' = known \ {d}
    /\ UNCHANGED <<table, stored, pc, cur, reportVars, peerVars, asked,
                   losses, interruptions>>

-----------------------------------------------------------------------------
(* Reports. *)

\* The second is over and clusters have something to report.
CollectReports(s) ==
    /\ pc = "listen"
    /\ due' = s
    /\ pc' = "report"
    /\ UNCHANGED <<nodeVars, cur, src, queue, served, failed, peerVars, asked,
                   losses, interruptions>>

\* Faulty variant: the handler is kept for the next second.
CutHandlerKeeping(s) ==
    /\ pc \in {"handle", "answer"} /\ losses < MaxLosses
    /\ losses' = losses + 1
    /\ due' = s
    /\ pc' = "report"
    /\ UNCHANGED <<nodeVars, cur, src, queue, served, failed, peerVars, asked, interruptions>>

\* The second is over while a handler waits: it is dropped, with its answer.
CutHandler(s) ==
    /\ pc \in {"handle", "answer"} /\ losses < MaxLosses
    /\ losses' = losses + 1
    /\ cur' = NoRequest
    /\ due' = s
    /\ pc' = "report"
    /\ UNCHANGED <<nodeVars, src, queue, served, failed, peerVars, asked, interruptions>>

\* Where a report of cluster s goes: a binding to the node itself and a device
\* without a known address are passed over.
Reachable(s) ==
    {b \in table : b.source = s /\ b.dst \in known \cup Groups}

\* Faulty variant: the bindings of every cluster are served.
BeginUnfiltered(s) ==
    /\ pc = "report" /\ s \in due
    /\ due' = due \ {s}
    /\ src' = s
    /\ queue' = {b \in table : b.dst \in known \cup Groups}
    /\ pc' = "send"
    /\ UNCHANGED <<nodeVars, cur, served, failed, peerVars, asked, losses, interruptions>>

\* aps_data_request without a destination; with no binding at all it fails with
\* NoBoundDevice, which the caller drops.
Begin(s) ==
    /\ pc = "report" /\ s \in due
    /\ due' = due \ {s}
    /\ src' = s
    /\ queue' = Reachable(s)
    /\ pc' = "send"
    /\ UNCHANGED <<nodeVars, cur, served, failed, peerVars, asked, losses, interruptions>>

Send(b) ==
    /\ pc = "send" /\ b \in queue
    /\ queue' = queue \ {b}
    /\ served' = served \cup {b}
    /\ UNCHANGED <<nodeVars, pc, cur, due, src, failed, peerVars, asked,
                   losses, interruptions>>

\* Faulty variant: a failed transfer ends the loop as if it had succeeded.
SendFailsSilently(b) ==
    /\ pc = "send" /\ b \in queue
    /\ queue' = {}
    /\ UNCHANGED <<nodeVars, pc, cur, due, src, served, failed, peerVars, asked,
                   losses, interruptions>>

\* The first transfer that fails ends the request: the rest is not tried.
SendFails(b) ==
    /\ pc = "send" /\ b \in queue
    /\ queue' = {}
    /\ failed' = TRUE
    /\ UNCHANGED <<nodeVars, pc, cur, due, src, served, peerVars, asked,
                   losses, interruptions>>

EndSend ==
    /\ pc = "send" /\ queue = {}
    /\ pc' = "report"
    /\ served' = {} /\ failed' = FALSE
    /\ UNCHANGED <<nodeVars, cur, due, src, queue, peerVars, asked, losses, interruptions>>

EndReports ==
    /\ pc = "report" /\ due = {}
    /\ pc' = "listen"
    /\ UNCHANGED <<nodeVars, cur, reportVars, peerVars, asked, losses, interruptions>>

-----------------------------------------------------------------------------
(* Departures, restarts and the storage region. *)

\* The node is gone and so is its table; the peer hears it announce itself anew,
\* and frames for its old address go nowhere.
Depart ==
    /\ interruptions < MaxInterruptions
    /\ interruptions' = interruptions + 1
    /\ pc' = "away"
    /\ cur' = NoRequest
    /\ table' = {} /\ known' = {} /\ asked' = {}
    /\ due' = {} /\ queue' = {} /\ served' = {} /\ failed' = FALSE
    /\ waiting' = FALSE /\ wire' = <<>>
    /\ agreed' = [b \in Bindings |-> "unknown"]
    /\ UNCHANGED <<src, latest, requests, losses>>

\* Faulty variant: the table of the network that is left is kept for the next one.
LeaveSaving ==
    /\ pc = "listen"
    /\ Depart
    /\ stored' = table

Leave ==
    /\ pc = "listen"
    /\ Depart
    /\ UNCHANGED stored

Restart ==
    /\ Depart
    /\ UNCHANGED stored

\* load_or_default after an association: nothing is written.
Join ==
    /\ pc = "away"
    /\ pc' = "listen"
    /\ table' = stored
    /\ UNCHANGED <<known, stored, cur, reportVars, peerVars, asked, losses, interruptions>>

\* The same after a rejoin, up to the announcement of the node.
Rejoin ==
    /\ pc = "away"
    /\ pc' = "announce"
    /\ table' = stored
    /\ UNCHANGED <<known, stored, cur, reportVars, peerVars, asked, losses, interruptions>>

\* The only place the table is saved; a failure is ignored.
Persist ==
    /\ pc = "announce"
    /\ pc' = "listen"
    /\ stored' \in {stored, table}
    /\ UNCHANGED <<table, known, cur, reportVars, peerVars, asked, losses, interruptions>>

Next ==
    \/ \E op \in Ops, b \in Bindings : Ask(op, b)
    \/ Repeat
    \/ LoseRequest
    \/ Receive
    \/ Change
    \/ Respond
    \/ LoseAnswer
    \/ \E d \in Devices : Learn(d)
    \/ \E d \in Devices : Forget(d)
    \/ \E s \in SUBSET Sources : CollectReports(s)
    \/ \E s \in SUBSET Sources : CutHandler(s)
    \/ \E s \in Sources : Begin(s)
    \/ \E b \in Bindings : Send(b)
    \/ \E b \in Bindings : SendFails(b)
    \/ EndSend
    \/ EndReports
    \/ Leave
    \/ Restart
    \/ Join
    \/ Rejoin
    \/ Persist

(***************************************************************************)
(* The executor polls the node's task, which never stops at a transfer:    *)
(* each ends, well or not.  The peer repeats what is not answered.         *)
(* Listening goes on after a collection, so that the listener takes a      *)
(* frame that waits although reports may always come first.                *)
(***************************************************************************)
Fairness ==
    /\ WF_vars(Repeat)
    /\ SF_vars(Receive)
    /\ WF_vars(Change)
    /\ WF_vars(Respond)
    /\ WF_vars(\E s \in Sources : Begin(s))
    /\ WF_vars(\E b \in Bindings : Send(b) \/ SendFails(b))
    /\ WF_vars(EndSend)
    /\ WF_vars(EndReports)
    /\ WF_vars(Join)
    /\ WF_vars(Persist)

Spec == Init /\ [][Next]_vars
FairSpec == Spec /\ Fairness

-----------------------------------------------------------------------------
(* Properties. *)

\* What the peer may conclude from the answers is so, although its requests are
\* repeated, handled twice, acknowledged and dropped, or cut off unanswered.
AgreedIsBound ==
    \A b \in Bindings :
        /\ agreed[b] = "bound" => b \in table
        /\ agreed[b] = "unbound" => b \notin table

\* A report only goes where its own cluster is bound at that moment, however
\* long the transfers before it took.
SentWasBound ==
    pc = "send" => \A b \in queue \cup served : b \in table /\ b.source = src

\* No binding made on an earlier network is in force after the node has joined
\* again: all of them were asked for since.
FreshStart == table \subseteq asked

\* A report that was not given up reached every binding of its cluster that has
\* an address: none is made or gets its address while the report is being sent.
ServedUnlessFailed ==
    pc = "send" /\ queue = {} /\ ~failed => Reachable(src) \subseteq served

\* A peer that keeps asking is answered in the end, whatever gets lost, unless
\* the node leaves.
Concluded == waiting ~> ~waiting
=============================================================================
