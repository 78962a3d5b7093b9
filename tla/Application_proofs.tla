------------------------- MODULE Application_proofs -------------------------
(***************************************************************************)
(* Proofs about Application: the type invariant, the two safety invariants *)
(* and the two action properties, for any endpoints, commands and bounds.  *)
(***************************************************************************)
EXTENDS Application, TLAPS

\* The ranges of the numbers.
LEMMA Ranges ==
    /\ 0 \in U16 /\ Forever \in U16
    /\ 0 \in 0..Forever + 1 /\ Forever + 1 \in 0..Forever + 1
    /\ \A n \in U16 : n # 0 => n - 1 \in U16
    /\ \A n \in 0..Forever + 1 : n # Forever + 1 => n + 1 \in 0..Forever + 1
BY BoundsAssumption DEF U16

\* The value of an attribute after a write is in the range of the attribute.
LEMMA StoredType ==
    ASSUME NEW records \in Seq(WriteRecord), NEW attr, NEW old \in U16
    PROVE  Stored(records, attr, old) \in U16
<1> DEFINE accepted == {i \in DOMAIN records :
                          records[i].attr = attr /\ StatusOf(records[i]) = "success"}
<1> DEFINE last == {i \in accepted : \A j \in accepted : j <= i}
<1>1. CASE last = {}
  BY <1>1 DEF Stored
<1>2. CASE last # {}
  <2> DEFINE i == CHOOSE k \in last : TRUE
  <2>1. i \in DOMAIN records
    BY <1>2
  <2>2. records[i] \in WriteRecord
    BY <2>1
  <2>3. records[i].value \in U16
    BY <2>2 DEF WriteRecord
  <2> QED BY <1>2, <2>3 DEF Stored
<1> QED BY <1>1, <1>2

\* A write keeps an application in its type and leaves all but the two writable
\* attributes alone.
LEMMA WrittenType ==
    ASSUME NEW a \in App, NEW records \in Seq(WriteRecord)
    PROVE  /\ Written(a, records) \in App
           /\ Written(a, records).on = a.on
           /\ Written(a, records).lamp = a.lamp
<1>1. a.onTime \in U16 /\ a.offWait \in U16
  BY DEF App
<1>2. /\ Stored(records, "onTime", a.onTime) \in U16
      /\ Stored(records, "offWait", a.offWait) \in U16
  BY <1>1, StoredType
<1> QED BY <1>2 DEF Written, App

\* A timed switch keeps an application in its type; it never leaves a lamp that
\* differs from its attribute where they agreed.
LEMMA TimedOnType ==
    ASSUME NEW a \in App, NEW c, c.time \in U16, c.wait \in U16
    PROVE  /\ TimedOn(a, c) \in App
           /\ a.lamp = a.on => TimedOn(a, c).lamp = TimedOn(a, c).on
           /\ (a.lamp => a.on) => (TimedOn(a, c).lamp => TimedOn(a, c).on)
<1>1. a.onTime \in U16 /\ a.offWait \in U16
  BY DEF App
<1>2. /\ Larger(c.time, a.onTime) \in U16
      /\ Smaller(c.wait, a.offWait) \in U16
  BY <1>1 DEF Larger, Smaller
<1> QED BY <1>2 DEF TimedOn, App

\* Every command keeps the type and the relation of the lamp to the attribute.
LEMMA AfterType ==
    ASSUME NEW a \in App, NEW c \in Command
    PROVE  /\ After(a, c) \in App
           /\ a.lamp = a.on => After(a, c).lamp = After(a, c).on
           /\ (a.lamp => a.on) => (After(a, c).lamp => After(a, c).on)
<1>0. 0 \in U16
  BY BoundsAssumption DEF U16
<1>1. CASE c.op = "on"
  <2>1. After(a, c) = SwitchOn(a)
    BY <1>1 DEF After
  <2> QED BY <2>1, <1>0 DEF SwitchOn, App
<1>2. CASE c.op = "off"
  <2>1. After(a, c) = SwitchOff(a)
    BY <1>2 DEF After
  <2> QED BY <2>1, <1>0 DEF SwitchOff, App
<1>3. CASE c.op = "toggle"
  <2>1. After(a, c) = Toggled(a)
    BY <1>3 DEF After
  <2> QED BY <2>1, <1>0 DEF Toggled, SwitchOn, SwitchOff, App
<1>4. CASE c.op = "recall"
  <2>1. After(a, c) = Recalled(a)
    BY <1>4 DEF After
  <2> QED BY <2>1, <1>0 DEF Recalled, App
<1>5. CASE c.op = "timed"
  <2>1. After(a, c) = TimedOn(a, c)
    BY <1>5 DEF After
  <2>2. c.time \in U16 /\ c.wait \in U16
    BY <1>5 DEF Command
  <2> QED BY <2>1, <2>2, TimedOnType
<1>6. CASE c.op \in {"write", "unanswered", "undivided"}
  <2>1. c.records \in Seq(WriteRecord)
    BY <1>6 DEF Command
  <2>2. After(a, c) = Written(a, c.records) \/ After(a, c) = a
    BY <1>6 DEF After, WrittenUndivided
  <2> QED BY <2>1, <2>2, WrittenType
<1>7. CASE c.op = "configure"
  <2>1. After(a, c) = Configured(a, c)
    BY <1>7 DEF After
  <2>2. c.min \in U16 /\ c.max \in U16
    BY <1>7 DEF Command
  <2> QED BY <2>1, <2>2 DEF Configured, App
<1>8. CASE c.op \notin {"on", "off", "toggle", "recall", "timed", "write",
                        "unanswered", "undivided", "configure"}
  BY <1>8 DEF After
<1> QED BY <1>1, <1>2, <1>3, <1>4, <1>5, <1>6, <1>7, <1>8

\* A press of the button: the type, the lamp and the interval.
LEMMA ToggledType ==
    ASSUME NEW a \in App
    PROVE  /\ Toggled(a) \in App
           /\ Toggled(a).lamp = Toggled(a).on
           /\ Toggled(a).min = a.min /\ Toggled(a).max = a.max
BY Ranges DEF Toggled, SwitchOn, SwitchOff, App

\* A round of the update task: the type, the lamp and the interval.
LEMMA UpdatedType ==
    ASSUME NEW a \in App
    PROVE  /\ Updated(a) \in App
           /\ a.lamp = a.on => Updated(a).lamp = Updated(a).on
           /\ (a.lamp => a.on) => (Updated(a).lamp => Updated(a).on)
           /\ Updated(a).min = a.min /\ Updated(a).max = a.max
<1>1. a.onTime \in U16 /\ a.offWait \in U16
  BY DEF App
<1>2. CASE a.on /\ a.onTime > 0 /\ a.onTime # Forever /\ a.onTime = 1
  BY <1>2, Ranges DEF Updated, SwitchOff, App
<1>3. CASE a.on /\ a.onTime > 0 /\ a.onTime # Forever /\ a.onTime # 1
  <2>1. a.onTime - 1 \in U16
    BY <1>1, <1>3, Ranges
  <2>2. Updated(a) = [a EXCEPT !.onTime = @ - 1]
    BY <1>3 DEF Updated
  <2> QED BY <2>1, <2>2 DEF App
<1>4. CASE ~(a.on /\ a.onTime > 0 /\ a.onTime # Forever)
  <2>1. (IF a.offWait = 0 THEN 0 ELSE a.offWait - 1) \in U16
    BY <1>1, Ranges
  <2>2. Updated(a) = [a EXCEPT !.offWait = IF @ = 0 THEN 0 ELSE @ - 1]
    BY <1>4 DEF Updated
  <2> QED BY <2>1, <2>2 DEF App
<1> QED BY <1>2, <1>3, <1>4

\* The passing of time and the marking of a report change the age only.
LEMMA AgeType ==
    ASSUME NEW a \in App
    PROVE  /\ Older(a) \in App
           /\ Older(a).lamp = a.lamp /\ Older(a).on = a.on
           /\ Older(a).min = a.min /\ Older(a).max = a.max
           /\ [a EXCEPT !.age = 0] \in App
<1>1. (IF a.age = Forever + 1 THEN a.age ELSE a.age + 1) \in 0..Forever + 1
  BY Ranges DEF App
<1> QED BY <1>1, Ranges DEF Older, App

\* What a restart loads is an application, dark, with the interval of the store.
LEMMA LoadedType ==
    ASSUME TypeOK, NEW e \in Endpoints
    PROVE  /\ Loaded(e) \in App
           /\ ~Loaded(e).lamp
           /\ e = First /\ store # Blank =>
                Loaded(e).min = store.min /\ Loaded(e).max = store.max
<1>1. CASE e = First /\ store # Blank
  <2>1. store \in Image
    BY <1>1 DEF TypeOK
  <2>2. Fresh \in App /\ ~Fresh.lamp
    BY Ranges DEF Fresh, App
  <2>3. /\ store.on \in BOOLEAN /\ store.scene \in BOOLEAN
        /\ store.onTime \in U16 /\ store.offWait \in U16
        /\ store.min \in U16 /\ store.max \in U16
    BY <2>1 DEF Image
  <2>4. Loaded(e) = [Fresh EXCEPT !.on = store.on, !.onTime = store.onTime,
                       !.offWait = store.offWait, !.scene = store.scene,
                       !.min = store.min, !.max = store.max]
    BY <1>1 DEF Loaded
  <2> HIDE DEF Fresh
  <2> QED BY <2>2, <2>3, <2>4 DEF App
<1>2. CASE ~(e = First /\ store # Blank)
  BY <1>2, Ranges DEF Loaded, Fresh, App
<1> QED BY <1>1, <1>2

\* What is saved is an image of the application, and not the blank region.
LEMMA ImageType ==
    ASSUME NEW a \in App, NEW e \in Endpoints
    PROVE  /\ ImageOf(a, e) \in Image
           /\ ImageOf(a, e).owner = e
           /\ ImageOf(a, e).min = a.min /\ ImageOf(a, e).max = a.max
BY DEF ImageOf, Image, App

\* The answer to a command names the endpoint and one status per record.
LEMMA AnswerType ==
    ASSUME NEW e \in Endpoints, NEW c \in Command
    PROVE  AnswerTo(e, c) \in [ep: Endpoints, op: Ops, statuses: Seq(Status)]
<1>1. c.op \in Ops
  BY DEF Command, Ops
<1>2. CASE c.op \in {"write", "undivided"}
  <2>1. c.records \in Seq(WriteRecord)
    BY <1>2 DEF Command
  <2>2. Statuses(c.records) \in Seq(Status)
    BY <2>1 DEF Statuses, StatusOf, Status
  <2> QED BY <1>1, <1>2, <2>2 DEF AnswerTo
<1>3. CASE c.op \notin {"write", "undivided"}
  BY <1>1, <1>3 DEF AnswerTo
<1> QED BY <1>2, <1>3
-----------------------------------------------------------------------------

\* The inductive invariant: the type and the two safety invariants.
Inv == TypeOK /\ LitIsOn /\ ConfigSaved

\* It holds in the initial state.
LEMMA InitInv == Init => Inv
<1> SUFFICES ASSUME Init PROVE Inv
  OBVIOUS
<1>1. Fresh \in App /\ ~Fresh.lamp
  BY Ranges DEF Fresh, App
<1>2. NoAnswer \in [ep: Endpoints, op: Ops, statuses: Seq(Status)]
  BY EndpointsAssumption DEF NoAnswer, Ops
<1>3. TypeOK
  BY <1>1, <1>2, BoundsAssumption DEF Init, TypeOK
<1>4. LitIsOn
  BY <1>1 DEF Init, LitIsOn
<1>5. ConfigSaved
  BY DEF Init, ConfigSaved
<1> QED BY <1>3, <1>4, <1>5 DEF Inv

\* Nothing but the application of e changes, and it keeps its type, lamp and
\* interval: what a press of a button and the tasks have in common.
LEMMA QuietChange ==
    ASSUME Inv,
           app' \in [Endpoints -> App],
           \A e \in Endpoints :
               /\ (app[e].lamp => app[e].on) => (app'[e].lamp => app'[e].on)
               /\ app'[e].min = app[e].min /\ app'[e].max = app[e].max,
           UNCHANGED <<store, unsaved>>
    PROVE  LitIsOn' /\ ConfigSaved'
<1>1. LitIsOn'
  BY DEF Inv, LitIsOn
<1>2. ConfigSaved'
  BY EndpointsAssumption DEF Inv, ConfigSaved
<1> QED BY <1>1, <1>2

\* Every step preserves it.
LEMMA NextInv == Inv /\ [Next]_vars => Inv'
<1> SUFFICES ASSUME Inv, [Next]_vars PROVE Inv'
  OBVIOUS
<1>0. TypeOK
  BY DEF Inv
<1>1. ASSUME NEW e \in Endpoints, NEW c \in Commands, Handle(e, c) PROVE Inv'
  <2>1. c \in Command
    BY CommandsAssumption
  <2>2. app[e] \in App
    BY <1>0 DEF TypeOK
  <2>3. /\ After(app[e], c) \in App
        /\ (app[e].lamp => app[e].on) => (After(app[e], c).lamp => After(app[e], c).on)
    BY <2>1, <2>2, AfterType
  <2>4. app' = [app EXCEPT ![e] = After(app[e], c)]
    BY <1>1 DEF Handle
  <2>5. app' \in [Endpoints -> App] /\ app'[e] \in App
    BY <2>3, <2>4, <1>0 DEF TypeOK
  <2>6. LitIsOn'
    BY <2>3, <2>4, <1>0 DEF Inv, LitIsOn, TypeOK
  <2>c. commands' \in 0..MaxCommands
    BY <1>0, <1>1, BoundsAssumption DEF Handle, TypeOK
  <2>u. UNCHANGED <<reports, told, toggles, interruptions, losses>>
    BY <1>1 DEF Handle
  <2>7. CASE /\ store' = ImageOf(app'[e], e)
             /\ unsaved' = unsaved \ {e}
             /\ answer' = IF Answered(c) THEN AnswerTo(e, c) ELSE NoAnswer
             /\ pc' = IF Answered(c) THEN "answer" ELSE "listen"
    <3>1. store' \in Image /\ store'.owner = e
          /\ store'.min = app'[e].min /\ store'.max = app'[e].max
      BY <2>5, <2>7, ImageType
    <3>2. answer' \in [ep: Endpoints, op: Ops, statuses: Seq(Status)]
      BY <2>1, <2>7, AnswerType, EndpointsAssumption DEF NoAnswer, Ops
    <3>3. unsaved' \subseteq Endpoints /\ pc' \in {"away", "listen", "answer", "report"}
      BY <1>0, <2>7 DEF TypeOK
    <3>4. TypeOK'
      BY <1>0, <2>5, <2>c, <2>u, <3>1, <3>2, <3>3 DEF TypeOK
    <3>5. ConfigSaved'
      BY <3>1 DEF ConfigSaved
    <3> QED BY <2>6, <3>4, <3>5 DEF Inv
  <2>8. CASE SaveFails(e) /\ UNCHANGED <<answer, pc>>
    <3>1. TypeOK'
      BY <1>0, <2>5, <2>8, <2>c, <2>u DEF TypeOK, SaveFails
    <3>2. ConfigSaved'
      <4>1. CASE e = First
        BY <2>8, <4>1 DEF SaveFails, ConfigSaved
      <4>2. CASE e # First
        <5>1. app'[First] = app[First]
          BY <2>4, <4>2, <1>0, EndpointsAssumption DEF TypeOK
        <5> QED BY <5>1, <2>8, <4>2 DEF SaveFails, ConfigSaved, Inv
      <4> QED BY <4>1, <4>2
    <3> QED BY <2>6, <3>1, <3>2 DEF Inv
  <2> QED BY <1>1, <2>7, <2>8 DEF Handle
<1>2. CASE Respond
  <2>1. TypeOK'
    BY <1>0, <1>2, EndpointsAssumption DEF Respond, TypeOK, NoAnswer, Ops
  <2>2. LitIsOn' /\ ConfigSaved'
    BY <1>2 DEF Respond, Inv, LitIsOn, ConfigSaved
  <2> QED BY <2>1, <2>2 DEF Inv
<1>3. CASE CollectReports
  <2>1. \A e \in Endpoints :
            app[e] \in App /\ app'[e] = IF Due(app[e]) THEN [app[e] EXCEPT !.age = 0]
                                        ELSE app[e]
    BY <1>0, <1>3 DEF CollectReports, TypeOK
  <2>2. \A e \in Endpoints :
            /\ app'[e] \in App
            /\ app'[e].lamp = app[e].lamp /\ app'[e].on = app[e].on
            /\ app'[e].min = app[e].min /\ app'[e].max = app[e].max
    <3> SUFFICES ASSUME NEW e \in Endpoints
                 PROVE  /\ app'[e] \in App
                        /\ app'[e].lamp = app[e].lamp /\ app'[e].on = app[e].on
                        /\ app'[e].min = app[e].min /\ app'[e].max = app[e].max
      OBVIOUS
    <3>1. CASE Due(app[e])
      <4>1. app[e] \in App /\ app'[e] = [app[e] EXCEPT !.age = 0]
        BY <2>1, <3>1
      <4>2. app'[e] \in App
        BY <4>1, AgeType
      <4> QED BY <4>1, <4>2 DEF App
    <3>2. CASE ~Due(app[e])
      BY <2>1, <3>2
    <3> QED BY <3>1, <3>2
  <2>3. app' \in [Endpoints -> App]
    BY <1>3, <2>2 DEF CollectReports
  <2>4. reports' \subseteq [ep: Endpoints, on: BOOLEAN]
    BY <1>3, <2>1 DEF CollectReports, App
  <2>5. TypeOK'
    BY <1>0, <1>3, <2>3, <2>4, EndpointsAssumption DEF CollectReports, TypeOK, NoAnswer, Ops
  <2>6. LitIsOn' /\ ConfigSaved'
    BY <1>3, <2>2, <2>3, QuietChange DEF CollectReports
  <2> QED BY <2>5, <2>6 DEF Inv
<1>4. ASSUME NEW r \in reports, EmitReport(r) \/ LoseReport(r) PROVE Inv'
  <2>1. r \in [ep: Endpoints, on: BOOLEAN]
    BY <1>0 DEF TypeOK
  <2>2. told' \in [Endpoints -> BOOLEAN]
    BY <1>0, <1>4, <2>1 DEF EmitReport, LoseReport, TypeOK
  <2>3. losses' \in 0..MaxLosses
    BY <1>0, <1>4, BoundsAssumption DEF EmitReport, LoseReport, TypeOK
  <2>4. TypeOK'
    BY <1>0, <1>4, <2>2, <2>3 DEF EmitReport, LoseReport, Emitted, TypeOK
  <2>5. LitIsOn' /\ ConfigSaved'
    BY <1>4 DEF EmitReport, LoseReport, Emitted, Inv, LitIsOn, ConfigSaved
  <2> QED BY <2>4, <2>5 DEF Inv
<1>5. CASE UpdateApps
  <2>1. \A e \in Endpoints : app[e] \in App /\ app'[e] = Updated(app[e])
    BY <1>0, <1>5 DEF UpdateApps, TypeOK
  <2>2. app' \in [Endpoints -> App]
    BY <1>5, <2>1, UpdatedType DEF UpdateApps
  <2>3. \A e \in Endpoints :
            /\ (app[e].lamp => app[e].on) => (app'[e].lamp => app'[e].on)
            /\ app'[e].min = app[e].min /\ app'[e].max = app[e].max
    BY <2>1, UpdatedType
  <2>4. TypeOK'
    BY <1>0, <1>5, <2>2 DEF UpdateApps, TypeOK
  <2> QED BY <1>5, <2>2, <2>3, <2>4, QuietChange DEF UpdateApps, Inv
<1>6. CASE Second
  <2>1. \A e \in Endpoints : app[e] \in App /\ app'[e] = Older(app[e])
    BY <1>0, <1>6 DEF Second, TypeOK
  <2>2. app' \in [Endpoints -> App]
    BY <1>6, <2>1, AgeType DEF Second
  <2>3. \A e \in Endpoints :
            /\ (app[e].lamp => app[e].on) => (app'[e].lamp => app'[e].on)
            /\ app'[e].min = app[e].min /\ app'[e].max = app[e].max
    BY <2>1, AgeType
  <2>4. TypeOK'
    BY <1>0, <1>6, <2>2 DEF Second, TypeOK
  <2> QED BY <1>6, <2>2, <2>3, <2>4, QuietChange DEF Second, Inv
<1>7. ASSUME NEW e \in Endpoints, Press(e) PROVE Inv'
  <2>1. app[e] \in App /\ app' = [app EXCEPT ![e] = Toggled(app[e])]
    BY <1>0, <1>7 DEF Press, TypeOK
  <2>2. app' \in [Endpoints -> App]
    BY <1>0, <2>1, ToggledType DEF TypeOK
  <2>3. \A d \in Endpoints :
            /\ (app[d].lamp => app[d].on) => (app'[d].lamp => app'[d].on)
            /\ app'[d].min = app[d].min /\ app'[d].max = app[d].max
    BY <1>0, <2>1, ToggledType DEF TypeOK
  <2>4. TypeOK'
    BY <1>0, <1>7, <2>2, BoundsAssumption DEF Press, TypeOK
  <2> QED BY <1>7, <2>2, <2>3, <2>4, QuietChange DEF Press, Inv
<1>8. CASE Start
  BY <1>0, <1>8 DEF Start, Inv, TypeOK, LitIsOn, ConfigSaved
<1>9. CASE Leave
  BY <1>0, <1>9, BoundsAssumption DEF Leave, Inv, TypeOK, LitIsOn, ConfigSaved
<1>10. CASE Restart
  <2>1. \A e \in Endpoints : app'[e] = Loaded(e) /\ Loaded(e) \in App
    BY <1>0, <1>10, LoadedType DEF Restart
  <2>2. app' \in [Endpoints -> App]
    BY <1>10, <2>1 DEF Restart
  <2>3. TypeOK'
    BY <1>0, <1>10, <2>2, EndpointsAssumption, BoundsAssumption
       DEF Restart, TypeOK, NoAnswer, Ops
  <2>4. LitIsOn'
    BY <1>0, <2>1, LoadedType DEF LitIsOn
  <2>5. ConfigSaved'
    BY <1>0, <1>10, <2>1, LoadedType, EndpointsAssumption DEF Restart, ConfigSaved
  <2> QED BY <2>3, <2>4, <2>5 DEF Inv
<1>11. CASE UNCHANGED vars
  BY <1>11 DEF vars, Inv, TypeOK, LitIsOn, ConfigSaved
<1> QED BY <1>1, <1>2, <1>3, <1>4, <1>5, <1>6, <1>7, <1>8, <1>9, <1>10, <1>11
        DEF Next

\* The invariant holds of every behaviour.
THEOREM Invariance == Spec => []Inv
BY InitInv, NextInv, PTL DEF Spec

\* Every variable keeps its type, whatever commands come.
THEOREM TypeCorrect == Spec => []TypeOK
<1>1. Inv => TypeOK
  BY DEF Inv
<1> QED BY <1>1, Invariance, PTL

\* A lit lamp has its attribute on.
THEOREM LitIsAlwaysOn == Spec => []LitIsOn
<1>1. Inv => LitIsOn
  BY DEF Inv
<1> QED BY <1>1, Invariance, PTL

\* The saved interval of the first application is the one in force.
THEOREM ConfigAlwaysSaved == Spec => []ConfigSaved
<1>1. Inv => ConfigSaved
  BY DEF Inv
<1> QED BY <1>1, Invariance, PTL

-----------------------------------------------------------------------------
(* The action properties. *)

\* A command that is answered as an undivided write with a failure among its
\* statuses leaves its application as it was.
LEMMA UndividedAnswer ==
    ASSUME NEW a \in App, NEW e \in Endpoints, NEW c \in Command,
           AnswerTo(e, c).op = "undivided"
    PROVE  \/ \A i \in DOMAIN AnswerTo(e, c).statuses :
                 AnswerTo(e, c).statuses[i] = "success"
           \/ After(a, c) = a
<1>1. c.op = "undivided" /\ AnswerTo(e, c).statuses = Statuses(c.records)
  BY DEF AnswerTo
<1>2. After(a, c) = WrittenUndivided(a, c.records)
  BY <1>1 DEF After
<1>3. CASE Accepted(c.records)
  <2>1. \A i \in DOMAIN Statuses(c.records) : Statuses(c.records)[i] = "success"
    BY <1>3 DEF Accepted, Statuses
  <2> QED BY <1>1, <2>1
<1>4. CASE ~Accepted(c.records)
  BY <1>2, <1>4 DEF WrittenUndivided
<1> QED BY <1>3, <1>4

\* An undivided write is answered with success throughout or has changed nothing.
THEOREM UndividedWrites == Spec => AllOrNothing
<1> DEFINE Kept == \A e \in Endpoints :
        answer' # answer /\ answer'.op = "undivided" /\ answer'.ep = e =>
            \/ \A i \in DOMAIN answer'.statuses : answer'.statuses[i] = "success"
            \/ app'[e] = app[e]
<1>1. Inv /\ [Next]_vars => [Kept]_vars
  <2> SUFFICES ASSUME Inv, Next, NEW e \in Endpoints,
                      answer' # answer, answer'.op = "undivided", answer'.ep = e
               PROVE  \/ \A i \in DOMAIN answer'.statuses : answer'.statuses[i] = "success"
                      \/ app'[e] = app[e]
    OBVIOUS
  <2>1. answer' # NoAnswer
    BY DEF NoAnswer
  <2>2. PICK d \in Endpoints, c \in Commands : Handle(d, c)
    BY <2>1 DEF Next, Respond, CollectReports, EmitReport, LoseReport, Emitted,
                UpdateApps, Second, Press, Start, Leave, Restart
  <2>3. answer' = AnswerTo(d, c)
    BY <2>1, <2>2 DEF Handle
  <2>4. d = e
    BY <2>3 DEF AnswerTo
  <2>5. app[e] \in App /\ app'[e] = After(app[e], c)
    BY <2>2, <2>4 DEF Handle, Inv, TypeOK
  <2> QED BY <2>3, <2>4, <2>5, UndividedAnswer, CommandsAssumption
<1> QED BY <1>1, Invariance, PTL DEF Spec, AllOrNothing

\* A step that parts a lamp from its attribute is a restart.
THEOREM RestartParts == Spec => OnlyRestartParts
<1> DEFINE Together == \A e \in Endpoints :
        app[e].lamp = app[e].on => app'[e].lamp = app'[e].on \/ pc' = "away"
<1>1. Inv /\ [Next]_vars => [Together]_vars
  <2> SUFFICES ASSUME Inv, Next, NEW e \in Endpoints, app[e].lamp = app[e].on
               PROVE  app'[e].lamp = app'[e].on \/ pc' = "away"
    OBVIOUS
  <2>1. app \in [Endpoints -> App] /\ app[e] \in App
    BY DEF Inv, TypeOK
  <2>2. ASSUME NEW d \in Endpoints, NEW c \in Commands, Handle(d, c)
        PROVE  app'[e].lamp = app'[e].on
    <3>1. app' = [app EXCEPT ![d] = After(app[d], c)]
      BY <2>2 DEF Handle
    <3>2. c \in Command
      BY CommandsAssumption
    <3>3. CASE d = e
      BY <2>1, <3>1, <3>2, <3>3, AfterType
    <3>4. CASE d # e
      BY <2>1, <3>1, <3>4
    <3> QED BY <3>3, <3>4
  <2>3. CASE CollectReports
    <3>1. app'[e] = IF Due(app[e]) THEN [app[e] EXCEPT !.age = 0] ELSE app[e]
      BY <2>3 DEF CollectReports
    <3>2. CASE Due(app[e])
      <4>1. app'[e] = [app[e] EXCEPT !.age = 0]
        BY <3>1, <3>2
      <4> QED BY <2>1, <4>1 DEF App
    <3>3. CASE ~Due(app[e])
      BY <3>1, <3>3
    <3> QED BY <3>2, <3>3
  <2>4. CASE UpdateApps
    BY <2>1, <2>4, UpdatedType DEF UpdateApps
  <2>5. CASE Second
    BY <2>1, <2>5, AgeType DEF Second
  <2>6. ASSUME NEW d \in Endpoints, Press(d) PROVE app'[e].lamp = app'[e].on
    <3>1. app' = [app EXCEPT ![d] = Toggled(app[d])] /\ app[d] \in App
      BY <2>1, <2>6 DEF Press
    <3>2. CASE d = e
      BY <2>1, <3>1, <3>2, ToggledType
    <3>3. CASE d # e
      BY <2>1, <3>1, <3>3
    <3> QED BY <3>2, <3>3
  <2>7. CASE UNCHANGED app
    BY <2>7
  <2>8. CASE Restart
    BY <2>8 DEF Restart
  <2> QED BY <2>2, <2>3, <2>4, <2>5, <2>6, <2>7, <2>8
          DEF Next, Respond, EmitReport, LoseReport, Emitted, Start, Leave
<1> QED BY <1>1, Invariance, PTL DEF Spec, OnlyRestartParts
=============================================================================
