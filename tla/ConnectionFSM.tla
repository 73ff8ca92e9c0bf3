--------------------------- MODULE ConnectionFSM ---------------------------
(***************************************************************************)
(* What PCPClient::Connection promises about the state it reports: the     *)
(* FSM "initialized - connecting - open - closing - closed" that the       *)
(* comment in connect() names (lib/src/connector/connection.cc:247-254),   *)
(* next to the WebSocket session it reports about.  There are no threads,  *)
(* mutexes or handlers here.                                               *)
(*                                                                         *)
(* The report lags behind the session, so a close() that overtakes the     *)
(* report of onOpen makes 'closing' precede 'open'; but a session is       *)
(* reported open only while it has been open and is not over, it is        *)
(* reported closed only when it is over, and no attempt is started while   *)
(* there is a session.                                                     *)
(***************************************************************************)
VARIABLES
    state,      \* the reported ConnectionState
    session     \* the session: none, connecting, open, closing or over

fsmVars == <<state, session>>

FSMInit == state = "initialized" /\ session = "none"

StartAttempt ==
    /\ state \in {"initialized", "closed"} /\ session = "none"
    /\ state' = "connecting"
    /\ UNCHANGED session

OpenSession ==
    /\ state = "connecting" /\ session = "none"
    /\ session' = "connecting"
    /\ UNCHANGED state

\* The session moves on by itself, or because close() asked it to.
Progress ==
    /\ \/ session = "connecting" /\ session' \in {"open", "over"}
       \/ session = "open"       /\ session' \in {"closing", "over"}
       \/ session = "closing"    /\ session' = "over"
    /\ UNCHANGED state

ReportOpen ==
    /\ state \in {"connecting", "closing"} /\ session \in {"open", "closing"}
    /\ state' = "open"
    /\ UNCHANGED session

ReportClosing ==
    /\ state \in {"connecting", "open"} /\ session \in {"closing", "over"}
    /\ state' = "closing"
    /\ UNCHANGED session

ReportClosed ==
    /\ state \in {"connecting", "open", "closing"} /\ session = "over"
    /\ state' = "closed"
    /\ session' = "none"

FSMNext == \/ StartAttempt \/ OpenSession \/ Progress
           \/ ReportOpen \/ ReportClosing \/ ReportClosed

FSMSpec == FSMInit /\ [][FSMNext]_fsmVars
=============================================================================
