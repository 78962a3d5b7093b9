------------------------------ MODULE LinkStatus ------------------------------
(***************************************************************************)
(* How two neighboring routers learn the cost of the link between them.    *)
(*                                                                         *)
(* The reporter sends, once a period, the sorted contents of its neighbor  *)
(* table in one or several link status commands, each the continuation of  *)
(* the one before; the receiver looks itself up in every command that      *)
(* covers its address and takes over the cost the reporter sees, as the    *)
(* outgoing cost of its own entry for the reporter.  Each command goes     *)
(* over the air on its own and may be lost.                                *)
(*                                                                         *)
(* How the tables come to be is the subject of NeighborTable: here the     *)
(* reporter's table is any of Tables, and the receiver's entry for the     *)
(* reporter may disappear and come back at any time.                       *)
(***************************************************************************)
EXTENDS Naturals, Sequences

CONSTANTS
    ShortAddress, \* network addresses, which are numbers
    Receiver,     \* the receiver's own address
    Cost,         \* LinkCost
    Unknown,      \* LinkCost::Unknown
    DefaultCost,  \* LinkCost::default()
    NoEntry,      \* the receiver's table has no entry for the reporter
    FrameEntries, \* entries that fit in one command: 16
    Tables,       \* what the reporter's table may hold, cleaned and sorted
    MaxExpired    \* bound: entries one cleanup may drop

Link == [addr : ShortAddress, cost : Cost]

\* sort_by_key: ascending addresses.
Sorted(s) == \A p, q \in 1..Len(s) : p <= q => s[p].addr <= s[q].addr

ASSUME LinkConstants ==
    /\ ShortAddress \subseteq Nat
    /\ Receiver \in ShortAddress
    /\ Unknown \in Cost
    /\ DefaultCost \in Cost
    /\ NoEntry \notin Cost
    /\ FrameEntries \in Nat \ {0, 1}
    /\ Tables \subseteq {s \in Seq(Link) : Sorted(s)}
    /\ MaxExpired \in Nat

VARIABLES
    links,    \* the table the commands of this report are made from
    len,      \* its length, taken before the cleanup
    next,     \* the next command of the report to send, counted from 0
    outgoing, \* outgoing_cost of the receiver's entry, or NoEntry
    heard     \* history: what this report has told the receiver so far

linkVars == <<links, len, next, outgoing, heard>>

-----------------------------------------------------------------------------
\* make_link_status_commands: command i lists the entries of Window(i).

Stride == FrameEntries - 1

Frames == IF len <= FrameEntries THEN 1 ELSE ((len - FrameEntries) \div Stride) + 1

Start(i) == i * Stride + 1

End(i) == IF i * Stride + FrameEntries <= Len(links)
          THEN i * Stride + FrameEntries
          ELSE Len(links)

Window(i) == Start(i)..End(i)

\* The first_frame bit is set in every command, the last_frame bit only if the
\* table held one entry.
LastFrame == len = 1

-----------------------------------------------------------------------------
\* handle_link_status_command.

Lists(i) == \E p \in Window(i) : links[p].addr = Receiver

\* Faulty variant of Concerns: the first_frame bit is not looked at.
ConcernsUpwards(i) ==
    /\ outgoing # NoEntry
    /\ Window(i) # {}
    /\ ~(LastFrame /\ Receiver > links[End(i)].addr)

\* The command covers the receiver's address.
Concerns(i) ==
    /\ outgoing # NoEntry
    /\ Window(i) # {}
    /\ ~(Receiver < links[Start(i)].addr)
    /\ ~(LastFrame /\ Receiver > links[End(i)].addr)

\* Faulty variant of Unlisted: no cost at all.
UnlistedIsNone == NoEntry

\* unwrap_or_default.
Unlisted == DefaultCost

\* The cost of the first matching entry of command i.
Told(i, c) ==
    \/ /\ ~Lists(i)
       /\ c = Unlisted
    \/ \E p \in Window(i) :
        /\ links[p].addr = Receiver
        /\ \A q \in Window(i) : links[q].addr = Receiver => p <= q
        /\ c = links[p].cost

-----------------------------------------------------------------------------
LinkInit ==
    /\ links = << >>
    /\ len = 0
    /\ next = 1
    /\ outgoing = NoEntry
    /\ heard = "nothing"

\* The ticker fires once the commands of the last report are sent.
Report ==
    /\ next = Frames
    /\ links' \in Tables
    /\ \E expired \in 0..MaxExpired : len' = Len(links') + expired
    /\ next' = 0
    /\ heard' = "nothing"
    /\ UNCHANGED outgoing

\* The next command reaches the receiver.
Deliver ==
    /\ next < Frames
    /\ next' = next + 1
    /\ \/ /\ ~Concerns(next)
          /\ UNCHANGED <<outgoing, heard>>
       \/ /\ Concerns(next)
          /\ \E c \in Cost \cup {NoEntry} : Told(next, c) /\ outgoing' = c
          /\ heard' = IF Lists(next) \/ heard = "listed" THEN "listed" ELSE "unlisted"
    /\ UNCHANGED <<links, len>>

\* The next command is not transmitted, or not heard.
Lose ==
    /\ next < Frames
    /\ next' = next + 1
    /\ UNCHANGED <<links, len, outgoing, heard>>

\* The receiver drops its entry for the reporter, or enters the reporter anew.
ForgetReporter ==
    /\ outgoing # NoEntry
    /\ outgoing' = NoEntry
    /\ heard' = "nothing"
    /\ UNCHANGED <<links, len, next>>

EnterReporter ==
    /\ outgoing = NoEntry
    /\ outgoing' = DefaultCost
    /\ heard' = "nothing"
    /\ UNCHANGED <<links, len, next>>

LinkNext ==
    \/ Report
    \/ Deliver
    \/ Lose
    \/ ForgetReporter
    \/ EnterReporter

LinkSpec == LinkInit /\ [][LinkNext]_linkVars

-----------------------------------------------------------------------------
\* Correctness.

\* Every variable has its type, and a receiver that took a cost has an entry
\* to keep it in (link_status.rs:88-135).
LinkTypeOK ==
    /\ links \in Seq(Link) /\ Sorted(links)
    /\ len \in Nat
    /\ next \in 0..Frames
    /\ outgoing \in Cost \cup {NoEntry}
    /\ heard \in {"nothing", "unlisted", "listed"}
    /\ heard # "nothing" => outgoing # NoEntry

\* "When sending multiple frames, the last network address in the link status
\* list for frame N is equal to the first network address in the link status
\* list for frame N+1" (link_status.rs:144-146), however many entries the
\* cleanup dropped after the number of commands was derived from the length.
Chained ==
    \A i \in 0..Frames : i + 1 < Frames /\ Window(i + 1) # {} =>
        links[End(i)].addr = links[Start(i + 1)].addr

\* Once the receiver heard the cost the reporter lists for it, no other command
\* of the report overwrites it, whichever of them are lost, although every one
\* of them claims to be the first and none the last (link_status.rs:105-134,
\* 189-190).
ListedCostKept ==
    heard = "listed" =>
        \E p \in 1..Len(links) :
            links[p].addr = Receiver /\ outgoing = links[p].cost
=============================================================================
