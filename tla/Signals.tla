------------------------------- MODULE Signals -------------------------------
(***************************************************************************)
(* Signals: _sig_handler (proc.c), process_signals and the turns of        *)
(* main_loop (dlog.c).                                                     *)
(*                                                                         *)
(* _sig_handler may interrupt the main program between any two             *)
(* instructions; the main program stands still until it returns, so that a *)
(* delivery is one step.  process_signals, called once in every turn of    *)
(* main_loop, loads and stores the same flags one after the other; each of *)
(* these accesses is a step of its own.                                    *)
(***************************************************************************)
EXTENDS Naturals, Sequences

CONSTANTS
    Table,       \* the signals of signals[], in the order of the table
    Final,       \* those whose action does not return: restart and shutdown
    MaxSent      \* how often each signal is sent (bound of the model)

Sig == {Table[k] : k \in 1..Len(Table)}

ASSUME SignalsAssumption ==
    /\ Table \in Seq(STRING)
    /\ \A j, k \in 1..Len(Table) : Table[j] = Table[k] => j = k
    /\ Final \subseteq Sig
    /\ MaxSent \in Nat

VARIABLES
    main,            \* where the main program is, one of Places
    i,               \* the entry of the table process_signals looks at
    flag,            \* flag[s]: signals[].flag
    sig_delivered,   \* dlogenv->sig_delivered
    sent,            \* sent[s]: deliveries of s so far (history)
    served,          \* served[s]: how often the action of s was started (history)
    unserved,        \* s was delivered and its action not started since (history)
    late             \* flags raised while process_signals was at work (history)

signalVars == <<main, i, flag, sig_delivered, sent, served, unserved, late>>

\* process_signals is at one of the places of Busy; "waiting" is EVT_LOOP and the
\* rest of the turn, "exited" the end of the process.
Busy == {"scanning", "serving", "lowering", "finishing"}
Places == Busy \cup {"testing", "waiting", "exited"}

SignalsInit == /\ main = "testing"
               /\ i = 1
               /\ flag = [s \in Sig |-> FALSE]
               /\ sig_delivered = FALSE
               /\ sent = [s \in Sig |-> 0]
               /\ served = [s \in Sig |-> 0]
               /\ unserved = {}
               /\ late = {}

\* _sig_handler
Deliver(s) == /\ main # "exited"
              /\ sent[s] < MaxSent
              /\ flag' = [flag EXCEPT ![s] = TRUE]
              /\ sig_delivered' = TRUE
              /\ sent' = [sent EXCEPT ![s] = @ + 1]
              /\ unserved' = unserved \cup {s}
              /\ late' = IF main \in Busy THEN late \cup {s} ELSE late
              /\ UNCHANGED <<main, i, served>>

\* sig++
NextEntry(k) == k + 1

\* process_signals: if (dlogenv->sig_delivered)
Test == /\ main = "testing"
        /\ IF sig_delivered THEN main' = "scanning" /\ i' = 1
                            ELSE main' = "waiting" /\ UNCHANGED i
        /\ UNCHANGED <<flag, sig_delivered, sent, served, unserved, late>>

\* while (sig->handler) { if (sig->flag) ...
Look == /\ main = "scanning"
        /\ IF i > Len(Table) THEN main' = "finishing" /\ UNCHANGED i
           ELSE IF flag[Table[i]] THEN main' = "serving" /\ UNCHANGED i
           ELSE i' = NextEntry(i) /\ UNCHANGED main
        /\ UNCHANGED <<flag, sig_delivered, sent, served, unserved, late>>

\* The switch: dlog_sig_rotlog returns, dlog_sig_restart and dlog_sig_shutdown exit.
Serve == /\ main = "serving"
         /\ main' = IF Table[i] \in Final THEN "exited" ELSE "lowering"
         /\ served' = [served EXCEPT ![Table[i]] = @ + 1]
         /\ unserved' = unserved \ {Table[i]}
         /\ UNCHANGED <<i, flag, sig_delivered, sent, late>>

\* Bug: the flag of a signal stays raised after its action.
NotLowered(f, s) == f

\* sig->flag = false
Lowered(f, s) == [f EXCEPT ![s] = FALSE]

\* Bug: the break meant for the switch leaves the loop.
LowerBreaksOff == /\ main = "lowering"
                  /\ main' = "scanning"
                  /\ flag' = Lowered(flag, Table[i])
                  /\ late' = late \ {Table[i]}
                  /\ i' = Len(Table) + 1
                  /\ UNCHANGED <<sig_delivered, sent, served, unserved>>

Lower == /\ main = "lowering"
         /\ main' = "scanning"
         /\ flag' = Lowered(flag, Table[i])
         /\ late' = late \ {Table[i]}
         /\ i' = NextEntry(i)
         /\ UNCHANGED <<sig_delivered, sent, served, unserved>>

\* dlogenv->sig_delivered = 0
Finish == /\ main = "finishing"
          /\ main' = "waiting"
          /\ sig_delivered' = FALSE
          /\ UNCHANGED <<i, flag, sent, served, unserved, late>>

\* EVT_LOOP returns after DLOG_EVENTLOOP_TIMEOUT, with events or with EINTR.
Turn == /\ main = "waiting"
        /\ main' = "testing"
        /\ UNCHANGED <<i, flag, sig_delivered, sent, served, unserved, late>>

\* EVT_LOOP fails otherwise: main_loop returns and with it main.
Abort == /\ main = "waiting"
         /\ main' = "exited"
         /\ UNCHANGED <<i, flag, sig_delivered, sent, served, unserved, late>>

MainStep == Test \/ Look \/ Serve \/ Lower \/ Finish \/ Turn

SignalsNext == (\E s \in Sig : Deliver(s)) \/ MainStep \/ Abort

\* The main program never blocks: EVT_LOOP has a timeout.
SignalsSpec == SignalsInit /\ [][SignalsNext]_signalVars /\ WF_signalVars(MainStep)

-----------------------------------------------------------------------------
\* The table index stays in the table or just behind it.
SignalsTypeOK == /\ main \in Places
                 /\ i \in 1..(Len(Table) + 1)
                 /\ flag \in [Sig -> BOOLEAN]
                 /\ sig_delivered \in BOOLEAN
                 /\ sent \in [Sig -> Nat]
                 /\ served \in [Sig -> Nat]
                 /\ unserved \subseteq Sig
                 /\ late \subseteq Sig
                 /\ main \in {"serving", "lowering"} => i <= Len(Table)

\* process_signals never runs the action of a signal more often than the signal
\* was delivered: one USR1 is at most one rotation, however its delivery falls.
ServedOnlyIfSent == \A s \in Sig : served[s] <= sent[s]

\* Between two calls of process_signals a raised flag is passed over by the test of
\* sig_delivered only if it was raised while process_signals was at work.
OverlookedOnlyIfLate ==
    main \in {"testing", "waiting"} /\ ~sig_delivered =>
        \A s \in Sig : flag[s] => s \in late

\* A signal that is announced to main_loop between two calls of process_signals is
\* served, or another one ends the process first.
AnnouncedIsServed ==
    \A s \in Sig : main = "waiting" /\ sig_delivered /\ flag[s] ~> (~flag[s] \/ main = "exited")
=============================================================================
