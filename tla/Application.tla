----------------------------- MODULE Application -----------------------------
(***************************************************************************)
(* The applications of a joined node: endpoints with an On/Off cluster,    *)
(* the ZCL commands that change their attributes, the task that counts     *)
(* their timers down, the reports of their state, and the storage region   *)
(* they are saved to and loaded from.                                      *)
(*                                                                         *)
(* The node runs two futures: listen_task, which handles commands for one  *)
(* second at a time and then collects and emits reports, and               *)
(* update_apps_task.  A handler can be cut off by the end of its second,   *)
(* between the change it made and the answer it owes.                      *)
(***************************************************************************)
EXTENDS Integers, Sequences

CONSTANTS
    Endpoints,         \* the endpoints that hold an application
    First,             \* the smallest of them
    Commands,          \* the commands a peer may send
    Forever,           \* 0xffff: u16::MAX
    MaxCommands,       \* bound on the commands handled
    MaxToggles,        \* bound on the presses of a button
    MaxInterruptions,  \* bound on restarts and departures from the network
    MaxLosses          \* bound on the reports that get lost

U16 == 0..Forever

(***************************************************************************)
(* A record of a write command names an attribute, the value and whether   *)
(* the value has the attribute's type.  "onOff" stands for the attributes  *)
(* that cannot be written, "none" for those the cluster does not have.     *)
(***************************************************************************)
Attributes == {"onTime", "offWait", "onOff", "none"}
WriteRecord == [attr: Attributes, value: U16, typed: BOOLEAN]

(***************************************************************************)
(* A command is quiet when it was broadcast or asks for no default         *)
(* response.  "read" stands for every command that changes nothing.        *)
(***************************************************************************)
Command ==
         [op: {"on", "off", "toggle", "recall", "read"}, quiet: BOOLEAN]
    \cup [op: {"timed"}, onlyWhenOn: BOOLEAN, time: U16, wait: U16, quiet: BOOLEAN]
    \cup [op: {"write", "undivided", "unanswered"}, records: Seq(WriteRecord),
          quiet: BOOLEAN]
    \cup [op: {"configure"}, min: U16, max: U16, quiet: BOOLEAN]

ASSUME EndpointsAssumption == First \in Endpoints
ASSUME CommandsAssumption == Commands \subseteq Command
ASSUME BoundsAssumption ==
    /\ Forever \in Nat \ {0}
    /\ {MaxCommands, MaxToggles, MaxInterruptions, MaxLosses} \subseteq Nat

(***************************************************************************)
(* An application: the attributes of its cluster, the interval its state   *)
(* is reported in, the lamp its handler drives and the seconds since its   *)
(* last report.  One second more than Forever stands for longer than every *)
(* interval, and for Instant::MIN: nothing was reported since the start.   *)
(***************************************************************************)
App == [on: BOOLEAN, onTime: U16, offWait: U16, scene: BOOLEAN,
        min: U16, max: U16, lamp: BOOLEAN, age: 0..Forever + 1]

Fresh == [on |-> FALSE, onTime |-> 0, offWait |-> 0, scene |-> FALSE,
          min |-> 0, max |-> Forever, lamp |-> FALSE, age |-> Forever + 1]

\* What is written to storage: the attributes and the interval, not the lamp
\* and not the time of the last report.
Image == [on: BOOLEAN, onTime: U16, offWait: U16, scene: BOOLEAN,
          min: U16, max: U16, owner: Endpoints]
Blank == [blank |-> TRUE]

ImageOf(a, e) ==
    [on |-> a.on, onTime |-> a.onTime, offWait |-> a.offWait,
     scene |-> a.scene, min |-> a.min, max |-> a.max, owner |-> e]

VARIABLES
    app,            \* [Endpoints -> App]
    store,          \* what the region holds at offset 0
    pc,             \* what listen_task is at; "away" when not on a network
    answer,         \* the answer the handler owes
    reports,        \* the reports collected and not yet emitted
    told,           \* the state a peer has last heard of an endpoint
    unsaved,        \* the endpoints whose last change could not be saved
    commands, toggles, interruptions, losses

vars == <<app, store, pc, answer, reports, told, unsaved,
          commands, toggles, interruptions, losses>>

Ops == {"none", "on", "off", "toggle", "recall", "read", "timed", "write",
        "undivided", "unanswered", "configure"}
NoAnswer == [ep |-> First, op |-> "none", statuses |-> <<>>]
Status == {"success", "failure"}

TypeOK ==
    /\ app \in [Endpoints -> App]
    /\ store \in Image \cup {Blank}
    /\ pc \in {"away", "listen", "answer", "report"}
    /\ answer \in [ep: Endpoints, op: Ops, statuses: Seq(Status)]
    /\ reports \subseteq [ep: Endpoints, on: BOOLEAN]
    /\ told \in [Endpoints -> BOOLEAN]
    /\ unsaved \subseteq Endpoints
    /\ commands \in 0..MaxCommands
    /\ toggles \in 0..MaxToggles
    /\ interruptions \in 0..MaxInterruptions
    /\ losses \in 0..MaxLosses

Init ==
    /\ app = [e \in Endpoints |-> Fresh]
    /\ store = Blank
    /\ pc = "away"
    /\ answer = NoAnswer
    /\ reports = {}
    /\ told = [e \in Endpoints |-> FALSE]
    /\ unsaved = {}
    /\ commands = 0 /\ toggles = 0 /\ interruptions = 0 /\ losses = 0

-----------------------------------------------------------------------------
(* The On/Off cluster. *)

\* Each drives the lamp by the handler of the application.
SwitchOn(a) == [a EXCEPT !.on = TRUE, !.offWait = 0, !.lamp = TRUE]

\* Faulty variant: the handler is not called.
SwitchOffSilently(a) == [a EXCEPT !.on = FALSE, !.onTime = 0]
SwitchOff(a) == [a EXCEPT !.on = FALSE, !.onTime = 0, !.lamp = FALSE]
Toggled(a) == IF a.on THEN SwitchOff(a) ELSE SwitchOn(a)

Recalled(a) ==
    IF a.scene THEN a
    ELSE [a EXCEPT !.scene = TRUE,
                   !.offWait = IF a.onTime = 0 THEN 0 ELSE @]

Smaller(i, j) == IF i <= j THEN i ELSE j
Larger(i, j) == IF i <= j THEN j ELSE i

\* On With Timed Off: it either guards an application that is off, or switches
\* on for at least the time asked for.
TimedOn(a, c) ==
    IF c.onlyWhenOn /\ ~a.on THEN a
    ELSE IF c.wait > 0 /\ ~a.on THEN [a EXCEPT !.offWait = Smaller(c.wait, @)]
    ELSE [a EXCEPT !.onTime = Larger(c.time, @), !.on = TRUE, !.lamp = TRUE]

\* Faulty variant: the waiting time is counted down past zero.
UpdatedWrapping(a) ==
    IF a.on /\ a.onTime > 0 /\ a.onTime # Forever
    THEN IF a.onTime = 1 THEN [SwitchOff(a) EXCEPT !.offWait = 0]
         ELSE [a EXCEPT !.onTime = @ - 1]
    ELSE [a EXCEPT !.offWait = @ - 1]

\* Faulty variant: the light stays on when its time is over.
UpdatedOnly(a) ==
    IF a.on /\ a.onTime > 0 /\ a.onTime # Forever
    THEN [a EXCEPT !.onTime = @ - 1]
    ELSE [a EXCEPT !.offWait = IF @ = 0 THEN 0 ELSE @ - 1]

\* One call of the update handler, every 100 ms.
Updated(a) ==
    IF a.on /\ a.onTime > 0 /\ a.onTime # Forever
    THEN IF a.onTime = 1 THEN [SwitchOff(a) EXCEPT !.offWait = 0]
         ELSE [a EXCEPT !.onTime = @ - 1]
    ELSE [a EXCEPT !.offWait = IF @ = 0 THEN 0 ELSE @ - 1]

-----------------------------------------------------------------------------
(* The global commands. *)

\* The status of one record: the attribute exists, can be written and the value
\* has its type.
StatusOf(r) ==
    IF r.attr \in {"onTime", "offWait"} /\ r.typed THEN "success" ELSE "failure"
Statuses(records) == [i \in DOMAIN records |-> StatusOf(records[i])]

\* The value an attribute has after the records were written one by one.
Stored(records, attr, old) ==
    LET accepted == {i \in DOMAIN records :
                        records[i].attr = attr /\ StatusOf(records[i]) = "success"}
        last == {i \in accepted : \A j \in accepted : j <= i}
    IN  IF last = {} THEN old ELSE records[CHOOSE i \in last : TRUE].value

Written(a, records) ==
    [a EXCEPT !.onTime = Stored(records, "onTime", @),
              !.offWait = Stored(records, "offWait", @)]

\* An undivided write validates all records before it writes the first.
Accepted(records) == \A i \in DOMAIN records : StatusOf(records[i]) = "success"

\* Faulty variant: the accepted records are written whatever the others are.
WrittenOneByOne(a, records) == Written(a, records)
WrittenUndivided(a, records) ==
    IF Accepted(records) THEN Written(a, records) ELSE a

\* The pair (0xffff, 0) asks for the default interval; the code copies the
\* default and then overwrites it with the pair.
Configurable(c) == c.min <= c.max \/ (c.max = 0 /\ c.min = Forever)
Configured(a, c) ==
    IF Configurable(c) THEN [a EXCEPT !.min = c.min, !.max = c.max] ELSE a

After(a, c) ==
    CASE c.op = "on" -> SwitchOn(a)
      [] c.op = "off" -> SwitchOff(a)
      [] c.op = "toggle" -> Toggled(a)
      [] c.op = "recall" -> Recalled(a)
      [] c.op = "timed" -> TimedOn(a, c)
      [] c.op \in {"write", "unanswered"} -> Written(a, c.records)
      [] c.op = "undivided" -> WrittenUndivided(a, c.records)
      [] c.op = "configure" -> Configured(a, c)
      [] OTHER -> a

\* Commands with a response of their own are always answered, the others by a
\* default response unless they are quiet.
Answered(c) ==
    c.op \in {"read", "write", "undivided", "configure"} \/ ~c.quiet

AnswerTo(e, c) ==
    [ep |-> e, op |-> c.op,
     statuses |-> IF c.op \in {"write", "undivided"} THEN Statuses(c.records)
                  ELSE <<>>]

-----------------------------------------------------------------------------
(* Handling a command: the change, the save and the answer. *)

SaveFails(e) ==
    /\ store' \in {store, Blank}
    /\ unsaved' = unsaved \cup {e}

\* The handler up to its first await: the change is made and all of the
\* application is saved at offset 0, whichever endpoint it belongs to.
Handle(e, c) ==
    /\ pc = "listen" /\ commands < MaxCommands
    /\ commands' = commands + 1
    /\ app' = [app EXCEPT ![e] = After(@, c)]
    /\ \/ /\ store' = ImageOf(app'[e], e)
          /\ unsaved' = unsaved \ {e}
          /\ answer' = IF Answered(c) THEN AnswerTo(e, c) ELSE NoAnswer
          /\ pc' = IF Answered(c) THEN "answer" ELSE "listen"
       \/ /\ SaveFails(e)
          /\ UNCHANGED <<answer, pc>>
    /\ UNCHANGED <<reports, told, toggles, interruptions, losses>>

\* The answer is handed to the APS layer; it may still get lost on its way.
Respond ==
    /\ pc = "answer"
    /\ pc' = "listen"
    /\ answer' = NoAnswer
    /\ UNCHANGED <<app, store, reports, told, unsaved,
                   commands, toggles, interruptions, losses>>

-----------------------------------------------------------------------------
(* Reports. *)

\* Faulty variant: a report that is overdue is not made any more.
DueInside(a) == a.max # Forever /\ a.age > a.min /\ a.age <= a.max

\* The minimum interval is the only one that is looked at.
Due(a) == a.max # Forever /\ a.age > a.min

\* A second of listening is over: a handler that still owes its answer is
\* dropped, and every application that is due is marked as reported.
CollectReports ==
    /\ pc \in {"listen", "answer"}
    /\ reports' = {[ep |-> e, on |-> app[e].on] : e \in {d \in Endpoints : Due(app[d])}}
    /\ app' = [e \in Endpoints |->
                  IF Due(app[e]) THEN [app[e] EXCEPT !.age = 0] ELSE app[e]]
    /\ pc' = IF reports' = {} THEN "listen" ELSE "report"
    /\ answer' = NoAnswer
    /\ UNCHANGED <<store, told, unsaved, commands, toggles, interruptions, losses>>

Emitted(r) ==
    /\ pc = "report" /\ r \in reports
    /\ reports' = reports \ {r}
    /\ pc' = IF reports' = {} THEN "listen" ELSE "report"
    /\ UNCHANGED <<app, store, answer, unsaved, commands, toggles, interruptions>>

EmitReport(r) ==
    /\ Emitted(r)
    /\ told' = [told EXCEPT ![r.ep] = r.on]
    /\ UNCHANGED losses

\* No device is bound, the frame cannot be sent or does not arrive: the error is
\* dropped and the report is not repeated.
LoseReport(r) ==
    /\ losses < MaxLosses
    /\ Emitted(r)
    /\ losses' = losses + 1
    /\ UNCHANGED told

-----------------------------------------------------------------------------
(* The rest of the node. *)

\* One round of update_apps_task, which only runs while the node is on a network.
UpdateApps ==
    /\ pc # "away"
    /\ app' = [e \in Endpoints |-> Updated(app[e])]
    /\ UNCHANGED <<store, pc, answer, reports, told, unsaved,
                   commands, toggles, interruptions, losses>>

Older(a) == [a EXCEPT !.age = IF @ = Forever + 1 THEN @ ELSE @ + 1]

Second ==
    /\ app' = [e \in Endpoints |-> Older(app[e])]
    /\ UNCHANGED <<store, pc, answer, reports, told, unsaved,
                   commands, toggles, interruptions, losses>>

\* A button is pressed: the change is not saved.
Press(e) ==
    /\ toggles < MaxToggles
    /\ toggles' = toggles + 1
    /\ app' = [app EXCEPT ![e] = Toggled(@)]
    /\ UNCHANGED <<store, pc, answer, reports, told, unsaved,
                   commands, interruptions, losses>>

Start ==
    /\ pc = "away"
    /\ pc' = "listen"
    /\ UNCHANGED <<app, store, answer, reports, told, unsaved,
                   commands, toggles, interruptions, losses>>

Leave ==
    /\ pc = "listen" /\ interruptions < MaxInterruptions
    /\ interruptions' = interruptions + 1
    /\ pc' = "away"
    /\ UNCHANGED <<app, store, answer, reports, told, unsaved,
                   commands, toggles, losses>>

\* Faulty variant: the interval is not restored.
LoadedAttributes(e) ==
    IF e = First /\ store # Blank
    THEN [Fresh EXCEPT !.on = store.on, !.onTime = store.onTime,
                       !.offWait = store.offWait, !.scene = store.scene]
    ELSE Fresh

\* load_all reads the region of the endpoint with index i at i * 1024: only the
\* first finds something there, whoever wrote it.  The handler is not called.
Loaded(e) ==
    IF e = First /\ store # Blank
    THEN [Fresh EXCEPT !.on = store.on, !.onTime = store.onTime,
                       !.offWait = store.offWait, !.scene = store.scene,
                       !.min = store.min, !.max = store.max]
    ELSE Fresh

Restart ==
    /\ interruptions < MaxInterruptions
    /\ interruptions' = interruptions + 1
    /\ app' = [e \in Endpoints |-> Loaded(e)]
    /\ pc' = "away"
    /\ answer' = NoAnswer
    /\ reports' = {}
    /\ unsaved' = {}
    /\ UNCHANGED <<store, told, commands, toggles, losses>>

Next ==
    \/ \E e \in Endpoints, c \in Commands : Handle(e, c)
    \/ Respond
    \/ CollectReports
    \/ \E r \in reports : EmitReport(r)
    \/ \E r \in reports : LoseReport(r)
    \/ UpdateApps
    \/ Second
    \/ \E e \in Endpoints : Press(e)
    \/ Start
    \/ Leave
    \/ Restart

(***************************************************************************)
(* The executor polls both tasks and the timers they wait for, a transfer  *)
(* ends, and a node that is not on a network gets back to one.             *)
(***************************************************************************)
Fairness ==
    /\ WF_vars(CollectReports)
    /\ WF_vars(\E r \in reports : EmitReport(r))
    /\ WF_vars(UpdateApps)
    /\ WF_vars(Second)
    /\ WF_vars(Start)

Spec == Init /\ [][Next]_vars
FairSpec == Spec /\ Fairness

-----------------------------------------------------------------------------
(* Properties. *)

\* The lamp is never lit while the attribute says off.
LitIsOn == \A e \in Endpoints : app[e].lamp => app[e].on

\* The reporting interval of the first application is the one a restart brings
\* back, as long as it was the last to handle a command and that could be saved.
\* The other fields have no such property: buttons and timers change them unsaved.
ConfigSaved ==
    store # Blank /\ store.owner = First /\ First \notin unsaved =>
        store.min = app[First].min /\ store.max = app[First].max

\* Only a restart parts the lamp from its attribute: load_all restores the
\* attribute and does not call the handler.
OnlyRestartParts ==
    [][\A e \in Endpoints :
          app[e].lamp = app[e].on =>
              app'[e].lamp = app'[e].on \/ pc' = "away"]_vars

\* An undivided write is answered with success for all of its records, or has
\* changed no attribute.
AllOrNothing ==
    [][\A e \in Endpoints :
          answer' # answer /\ answer'.op = "undivided" /\ answer'.ep = e =>
              \/ \A i \in DOMAIN answer'.statuses : answer'.statuses[i] = "success"
              \/ app'[e] = app[e]]_vars

\* Once no more commands come, a light that is on for a time goes off, unless the
\* node is cut off from its network first; when it is back, what is left of the
\* time (after a restart: what was saved of it) is counted down again.
Timed(a) == a.on /\ a.onTime > 0 /\ a.onTime # Forever
TimedGoesOff ==
    \A e \in Endpoints :
        Timed(app[e]) /\ commands = MaxCommands ~> ~app[e].on \/ pc = "away"

\* As long as reporting is configured, the peer learns the state in the end,
\* whatever reports are lost.
Reporting(a) == a.max # Forever
PeerIsTold ==
    \A e \in Endpoints :
        Reporting(app[e]) ~> (told[e] = app[e].on \/ ~Reporting(app[e]))
=============================================================================
