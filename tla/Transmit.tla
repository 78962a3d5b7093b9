------------------------------- MODULE Transmit -------------------------------
(***************************************************************************)
(* Secured frames on their way to the radio of a joined device.            *)
(*                                                                         *)
(* Two futures of one task (select3) send frames through clones of the     *)
(* same driver: listen_task answers, relays and reports, and the periodic  *)
(* task (link_status_task or end_device_keepalive_task) sends a frame on   *)
(* each tick, after a random jitter.  They share the frame counter of the  *)
(* network key, behind a mutex, and TX_SIGNAL, the one completion signal   *)
(* of the ESP32 driver, which no mutex ties to a transmission.             *)
(*                                                                         *)
(* The completion interrupt may come at any moment, and wakes the task, in *)
(* which whoever is polled first takes the signal.  What the radio does    *)
(* with a frame handed over while another goes out is not the driver's to  *)
(* say: it may abort the first or complete both.                           *)
(***************************************************************************)
EXTENDS Naturals

CONSTANTS
    MaxCounter, \* u32::MAX, the counter value that is refused
    MaxPending  \* completions the radio may owe at a time

ASSUME CounterAssumption ==
    /\ MaxCounter \in Nat
    /\ MaxPending \in Nat \ {0}

VARIABLES
    counter,    \* outgoing_frame_counter of the active network key
    pc,         \* what each future does: "idle", "jitter" or "waiting"
    held,       \* the counter of the frame the periodic task has built
    cancelable, \* the listener is inside listen(), which is cancelled after 1 s
    signal,     \* TX_SIGNAL is signaled
    radio,      \* transmissions whose completion is still to come
    panicked,   \* an unwrap failed
    aired,      \* history: counters of frames handed to the radio
    overlapped  \* history: transmit was called again while this future waited
                \* in it, or this one called it while the other waited

transmitVars == <<counter, pc, held, cancelable, signal, radio, panicked, aired, overlapped>>

Future == {"listen", "periodic"}

Running == ~panicked

-----------------------------------------------------------------------------
\* make_encrypted_frame: the counter of the frame, and the next one.

\* Faulty variant of NextCounter: the increment is left out.
SameCounter == counter

NextCounter == counter + 1

\* Faulty variant of CounterLeft: no counter value is refused.
CounterLeftAlways == TRUE

CounterLeft == counter # MaxCounter

\* What the radio may owe once it has taken one more frame: it aborts what it
\* was transmitting, or completes that too.
Busy == {1} \cup ({radio + 1} \cap 1..MaxPending)

\* Faulty variant of Armed: the signal is reset after the frame is handed to
\* the radio.
ArmedLate ==
    [radio : Busy, signal : {FALSE}] \cup {[radio |-> r - 1, signal |-> FALSE] : r \in Busy}

\* reset(), then transmit_raw(): a completion of an earlier frame may come in
\* between.
Armed ==
    [radio : Busy, signal : {FALSE}]
        \cup IF radio > 0 THEN {[radio |-> radio, signal |-> TRUE]} ELSE {}

\* Esp32Driver::transmit, up to its wait: future f hands over a frame,
\* encrypted under at most one counter.  A frame the radio refuses has reset
\* the signal all the same, and start_receive may end what was going out.
HandOver(f, counters) ==
    /\ \/ /\ pc' = [pc EXCEPT ![f] = "idle"]
          /\ signal' = FALSE
          /\ radio' \in {0, radio}
          /\ UNCHANGED aired
       \/ /\ pc' = [pc EXCEPT ![f] = "waiting"]
          /\ \E armed \in Armed : radio' = armed.radio /\ signal' = armed.signal
          /\ aired' = aired \cup counters
    /\ overlapped' =
        [g \in Future |->
            IF g = f THEN \E h \in Future \ {f} : pc[h] = "waiting"
                     ELSE overlapped[g] \/ pc[g] = "waiting"]

-----------------------------------------------------------------------------
TransmitInit ==
    /\ counter = 0
    /\ pc = [f \in Future |-> "idle"]
    /\ held = 0
    /\ cancelable = FALSE
    /\ signal = FALSE
    /\ radio = 0
    /\ panicked = FALSE
    /\ aired = {}
    /\ overlapped = [f \in Future |-> FALSE]

\* The listener encrypts and hands over a frame in one poll: from listen(), or
\* when it reports attributes.
Answer ==
    /\ Running
    /\ pc["listen"] = "idle"
    /\ CounterLeft
    /\ counter' = NextCounter
    /\ cancelable' \in BOOLEAN
    /\ HandOver("listen", {counter})
    /\ UNCHANGED <<held, panicked>>

\* A MAC command or a frame without NWK security, always from listen().
AnswerInClear ==
    /\ Running
    /\ pc["listen"] = "idle"
    /\ cancelable' = TRUE
    /\ HandOver("listen", {})
    /\ UNCHANGED <<counter, held, panicked>>

\* The periodic task builds its frame before it waits for the jitter.
Prepare ==
    /\ Running
    /\ pc["periodic"] = "idle"
    /\ CounterLeft
    /\ counter' = NextCounter
    /\ held' = counter
    /\ pc' = [pc EXCEPT !["periodic"] = "jitter"]
    /\ UNCHANGED <<cancelable, signal, radio, panicked, aired, overlapped>>

\* build_mac_payload(..).unwrap() when the counter is used up.
Exhausted ==
    /\ Running
    /\ pc["periodic"] = "idle"
    /\ ~CounterLeft
    /\ panicked' = TRUE
    /\ UNCHANGED <<counter, pc, held, cancelable, signal, radio, aired, overlapped>>

Send ==
    /\ Running
    /\ pc["periodic"] = "jitter"
    /\ HandOver("periodic", {held})
    /\ UNCHANGED <<counter, held, cancelable, panicked>>

\* tx_callback.
TxDone ==
    /\ Running
    /\ radio > 0
    /\ radio' = radio - 1
    /\ signal' = TRUE
    /\ UNCHANGED <<counter, pc, held, cancelable, panicked, aired, overlapped>>

\* TX_SIGNAL.wait() returns to the future that is polled first.
Woken(f) ==
    /\ Running
    /\ signal
    /\ pc[f] = "waiting"
    /\ signal' = FALSE
    /\ pc' = [pc EXCEPT ![f] = "idle"]
    /\ UNCHANGED <<counter, held, cancelable, radio, panicked, aired, overlapped>>

\* Faulty variant of Cancel: only a frame still in the air is given up.
CancelBusy ==
    /\ Running
    /\ pc["listen"] = "waiting"
    /\ cancelable
    /\ radio > 0
    /\ pc' = [pc EXCEPT !["listen"] = "idle"]
    /\ UNCHANGED <<counter, held, cancelable, signal, radio, panicked, aired,
                   overlapped>>

\* listen() ran for its second and is dropped at its await.
Cancel ==
    /\ Running
    /\ pc["listen"] = "waiting"
    /\ cancelable
    /\ pc' = [pc EXCEPT !["listen"] = "idle"]
    /\ UNCHANGED <<counter, held, cancelable, signal, radio, panicked, aired,
                   overlapped>>

\* The device was told to leave and has joined anew: both futures were dropped
\* and the network key is installed with a new counter, while the driver's
\* signal and the radio are as they were.
Reinstall ==
    /\ Running
    /\ pc["listen"] = "idle"
    /\ counter' = 0
    /\ aired' = {}
    /\ pc' = [pc EXCEPT !["periodic"] = "idle"]
    /\ UNCHANGED <<held, cancelable, signal, radio, panicked, overlapped>>

TransmitNext ==
    \/ Answer
    \/ AnswerInClear
    \/ Prepare
    \/ Exhausted
    \/ Send
    \/ TxDone
    \/ \E f \in Future : Woken(f)
    \/ Cancel
    \/ Reinstall

\* The radio completes what it transmits, the completion wakes the task, which
\* polls the futures, and timers fire.
TransmitFairness ==
    /\ WF_transmitVars(TxDone)
    /\ \A f \in Future : WF_transmitVars(Woken(f))
    /\ WF_transmitVars(Cancel)
    /\ WF_transmitVars(Send)

TransmitSpec == TransmitInit /\ [][TransmitNext]_transmitVars /\ TransmitFairness

-----------------------------------------------------------------------------
\* Correctness.

\* Every variable has its type (driver.rs:14, security.rs:42-88).
TransmitTypeOK ==
    /\ counter \in 0..MaxCounter
    /\ pc \in [Future -> {"idle", "jitter", "waiting"}]
    /\ pc["listen"] # "jitter"
    /\ held \in Nat
    /\ cancelable \in BOOLEAN
    /\ signal \in BOOLEAN
    /\ radio \in 0..MaxPending
    /\ panicked \in BOOLEAN
    /\ aired \subseteq Nat
    /\ overlapped \in [Future -> BOOLEAN]

\* Under one installation of the network key no counter goes on the air twice:
\* the frame the periodic task holds through its jitter, and the one encrypted
\* next, both have counters no frame before them had, whatever the listener
\* sent meanwhile (security.rs:42-88, link_status.rs:240-252).
CountersFresh ==
    /\ pc["periodic"] = "jitter" => held \notin aired \cup {counter}
    /\ counter \notin aired

\* A future waits for a completion that can no longer come only if two
\* transmissions overlapped, the second reset discarding the completion of the
\* first or the first waiter taking that of the second; a transmission alone is
\* never lost, not even after a cancelled one (driver.rs:126-148,
\* zdo/mod.rs:713, 796).
StuckOnlyByOverlap ==
    \A f \in Future :
        pc[f] = "waiting" /\ radio = 0 /\ ~signal => overlapped[f]

\* A transmission that no other overlaps comes to its end (driver.rs:143-146).
WokenUnlessOverlapped ==
    \A f \in Future :
        pc[f] = "waiting" ~>
            pc[f] # "waiting" \/ overlapped[f] \/ panicked

\* Whatever overlapped it, a wait inside listen() comes to its end, as the
\* timeout of one second drops it (zdo/mod.rs:796).
ListenReleased ==
    pc["listen"] = "waiting" /\ cancelable ~> pc["listen"] # "waiting" \/ panicked
=============================================================================
