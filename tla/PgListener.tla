----------------------------- MODULE PgListener -----------------------------
(***************************************************************************)
(* database/postgres/pgnotify: a Listener keeps a LISTEN standing across   *)
(* reconnects and turns notifications into wakes of one poller, which      *)
(* reads the table when it is woken and not otherwise.                     *)
(*                                                                         *)
(* The goroutines are Run, the one that turns stop into a cancelled        *)
(* context, callers of Close, and outside the package the poller and the   *)
(* writers of rows. A notification reaches the sessions that listen when   *)
(* its row commits and is gone with the session. Rows are counted; the     *)
(* reconnect delay only delays, so its growth is left out.                 *)
(***************************************************************************)
EXTENDS Naturals

CONSTANTS Closer,    \* callers of Close
          MaxRows    \* bound: rows ever written

ASSUME ListenerAssumption == MaxRows \in Nat

VARIABLES loop,      \* where Run is
          started,   \* l.started
          stopped,   \* l.stop is closed
          ctxDone,   \* Run's context is cancelled
          link,      \* the connection, as the server sees it
          inbox,     \* notifications on their way to the session
          signal,    \* the wake channel, of capacity one, is full
          poller,    \* the consumer of Signal
          rows,      \* rows committed
          read,      \* rows the poller has read
          caller     \* where each caller of Close is

listenerVars == <<loop, started, stopped, ctxDone, link, inbox, signal, poller,
                  rows, read, caller>>
outside == <<poller, rows, read>>

ListenerTypeOK ==
    /\ loop \in {"off", "check", "dial", "listen", "gap", "wait", "wake", "teardown",
                 "ended", "sleep", "returned"}
    /\ started \in BOOLEAN /\ stopped \in BOOLEAN /\ ctxDone \in BOOLEAN
    /\ link \in {"none", "dialled", "listening", "broken"}
    /\ inbox \in 0..MaxRows /\ signal \in BOOLEAN
    /\ poller \in {"idle", "reading"}
    /\ rows \in 0..MaxRows /\ read \in 0..MaxRows
    /\ caller \in [Closer -> {"none", "looks", "waits", "nil", "expired"}]

ListenerInit ==
    /\ loop = "off" /\ started = FALSE /\ stopped = FALSE /\ ctxDone = FALSE
    /\ link = "none" /\ inbox = 0 /\ signal = FALSE
    /\ poller = "idle" /\ rows = 0 /\ read = 0
    /\ caller = [c \in Closer |-> "none"]

-----------------------------------------------------------------------------
(* Run.                                                                    *)
RunListener ==
    /\ loop = "off"
    /\ started' = TRUE /\ loop' = "check"
    /\ UNCHANGED <<stopped, ctxDone, link, inbox, signal, outside, caller>>

\* stopping(): before a session, and after one.
Goes(from, where) ==
    /\ loop = from
    /\ loop' = IF stopped THEN "returned" ELSE where
    /\ UNCHANGED <<started, stopped, ctxDone, link, inbox, signal, outside, caller>>
CheckStop == Goes("check", "dial")
AfterSession == Goes("ended", "sleep")

Dial ==
    /\ loop = "dial" /\ ~ctxDone
    /\ link' = "dialled" /\ loop' = "listen"
    /\ UNCHANGED <<started, stopped, ctxDone, inbox, signal, outside, caller>>

DialFails ==
    /\ loop = "dial"
    /\ loop' = "ended"
    /\ UNCHANGED <<started, stopped, ctxDone, link, inbox, signal, outside, caller>>

Listen ==
    /\ loop = "listen" /\ link = "dialled" /\ ~ctxDone
    /\ link' = "listening" /\ loop' = "gap"
    /\ UNCHANGED <<started, stopped, ctxDone, inbox, signal, outside, caller>>

\* The connection of a failed LISTEN is closed before connect returns.
ListenFails ==
    /\ loop = "listen"
    /\ link' = "none" /\ loop' = "ended"
    /\ UNCHANGED <<started, stopped, ctxDone, inbox, signal, outside, caller>>

(* wake never blocks: a full channel stays full. A session begins with a   *)
(* wake, for whatever was sent while there was none.                       *)
(* Variant: a session that begins does not wake the poller.                *)
WakeWhenNotified ==
    /\ loop \in {"gap", "wake"}
    /\ signal' = (signal \/ loop = "wake") /\ loop' = "wait"
    /\ UNCHANGED <<started, stopped, ctxDone, link, inbox, outside, caller>>

WakePoller ==
    /\ loop \in {"gap", "wake"}
    /\ signal' = TRUE /\ loop' = "wait"
    /\ UNCHANGED <<started, stopped, ctxDone, link, inbox, outside, caller>>

Receive ==
    /\ loop = "wait" /\ inbox > 0
    /\ inbox' = inbox - 1 /\ loop' = "wake"
    /\ UNCHANGED <<started, stopped, ctxDone, link, signal, outside, caller>>

\* WaitForNotification fails: the session is lost, or the context is done.
WaitFails ==
    /\ loop = "wait" /\ (link = "broken" \/ ctxDone)
    /\ loop' = "teardown"
    /\ UNCHANGED <<started, stopped, ctxDone, link, inbox, signal, outside, caller>>

\* The deferred conn.Close, on a context of its own.
CloseConn ==
    /\ loop = "teardown"
    /\ link' = "none" /\ inbox' = 0 /\ loop' = "ended"
    /\ UNCHANGED <<started, stopped, ctxDone, signal, outside, caller>>

SleepOut ==
    /\ loop = "sleep"
    /\ loop' \in IF ctxDone THEN {"check", "returned"} ELSE {"check"}
    /\ UNCHANGED <<started, stopped, ctxDone, link, inbox, signal, outside, caller>>

\* The goroutine Run starts: stop becomes a cancelled context.
StopCancels ==
    /\ started /\ stopped /\ loop # "returned" /\ ~ctxDone
    /\ ctxDone' = TRUE
    /\ UNCHANGED <<loop, started, stopped, link, inbox, signal, outside, caller>>

-----------------------------------------------------------------------------
(* Close.                                                                  *)
(* Variant: a Listener that was never run is not told to stop.             *)
CloseUnlessUnstarted(c) ==
    /\ caller[c] \in {"none", "expired"}
    /\ stopped' = (stopped \/ started)
    /\ caller' = [caller EXCEPT ![c] = "looks"]
    /\ UNCHANGED <<loop, started, ctxDone, link, inbox, signal, outside>>

CloseListener(c) ==
    /\ caller[c] \in {"none", "expired"}
    /\ stopped' = TRUE
    /\ caller' = [caller EXCEPT ![c] = "looks"]
    /\ UNCHANGED <<loop, started, ctxDone, link, inbox, signal, outside>>

LooksStarted(c) ==
    /\ caller[c] = "looks"
    /\ caller' = [caller EXCEPT ![c] = IF started THEN "waits" ELSE "nil"]
    /\ UNCHANGED <<loop, started, stopped, ctxDone, link, inbox, signal, outside>>

CloseAnswers(c) ==
    /\ caller[c] = "waits"
    /\ \/ loop = "returned" /\ caller' = [caller EXCEPT ![c] = "nil"]
       \/ caller' = [caller EXCEPT ![c] = "expired"]
    /\ UNCHANGED <<loop, started, stopped, ctxDone, link, inbox, signal, outside>>

-----------------------------------------------------------------------------
(* The server and the poller.                                              *)
CommitRow ==
    /\ rows < MaxRows
    /\ rows' = rows + 1
    /\ inbox' = IF link = "listening" THEN inbox + 1 ELSE inbox
    /\ UNCHANGED <<loop, started, stopped, ctxDone, link, signal, poller, read, caller>>

\* What the session had not been sent is lost with it.
LoseSession ==
    /\ link \in {"dialled", "listening"}
    /\ link' = "broken" /\ inbox' = 0
    /\ UNCHANGED <<loop, started, stopped, ctxDone, signal, outside, caller>>

PollerWakes ==
    /\ poller = "idle" /\ signal
    /\ signal' = FALSE /\ poller' = "reading"
    /\ UNCHANGED <<loop, started, stopped, ctxDone, link, inbox, rows, read, caller>>

PollerReads ==
    /\ poller = "reading"
    /\ read' = rows /\ poller' = "idle"
    /\ UNCHANGED <<loop, started, stopped, ctxDone, link, inbox, signal, rows, caller>>

RunAdvances ==
    \/ CheckStop \/ AfterSession \/ DialFails \/ ListenFails
    \/ WakePoller \/ Receive \/ WaitFails \/ CloseConn \/ SleepOut

ListenerNext ==
    \/ RunListener \/ RunAdvances \/ Dial \/ Listen \/ StopCancels
    \/ \E c \in Closer : CloseListener(c) \/ LooksStarted(c) \/ CloseAnswers(c)
    \/ CommitRow \/ LoseSession \/ PollerWakes \/ PollerReads

ListenerSpec == ListenerInit /\ [][ListenerNext]_listenerVars

-----------------------------------------------------------------------------
(* A row is read without polling, whatever sessions are lost while it is   *)
(* written, as long as connecting works again and again and nobody closes  *)
(* the Listener: the wake of a new session stands for every notification   *)
(* that was lost (pgnotify.go, session: "Every session begins with a       *)
(* gap").                                                                  *)
RowsAreRead ==
    \A n \in 1..MaxRows : (started /\ rows >= n) ~> (read >= n \/ stopped)

(* Once a Close has returned nil, no connection is open and none will be,  *)
(* even when Run begins only now (pgnotify.go, Close: "a Run racing this   *)
(* Close returns without dialing").                                        *)
ClosedHoldsNothing ==
    (\E c \in Closer : caller[c] = "nil") =>
        link = "none" /\ loop \in {"off", "check", "returned"} /\ stopped
=============================================================================
