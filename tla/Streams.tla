------------------------------ MODULE Streams ------------------------------
(***************************************************************************)
(* eventstream.StreamManager under notifications/async/websocket: every    *)
(* accepted connection becomes a stream, registered under its member, and  *)
(* a goroutine of its own deregisters the member once the stream is done.  *)
(*                                                                         *)
(* One channel (group) is modelled: channels share nothing. A stream is    *)
(* one connection; member says whose. The manager's methods hold its lock, *)
(* so each is one action; a broadcast copies the group under the lock and  *)
(* sends after it has let go.                                              *)
(***************************************************************************)
CONSTANTS Stream, Member, NoStream,
          MemberOf    \* MemberOf[s]: the member that s is accepted for

ASSUME StreamAssumption ==
    /\ MemberOf \in [Stream -> Member]
    /\ NoStream \notin Stream

VARIABLES registered,  \* the manager's map for the channel
          wire,        \* each connection
          done,        \* streams that are closed: s.closed, and s.done
          place,       \* each stream's way through AcceptConnection
          newest,      \* the stream last registered for each member
          pub,         \* the one caller of Publish
          sending,     \* the broadcast's copy of the group, less what was sent
          wanted,      \* connected clients when the copy was made
          reached          \* streams whose client has the event

streamVars == <<registered, wire, done, place, newest, pub, sending, wanted, reached>>
pubVars == <<pub, sending, wanted, reached>>

StreamTypeOK ==
    /\ registered \in [Member -> Stream \cup {NoStream}]
    /\ newest \in [Member -> Stream \cup {NoStream}]
    /\ wire \in [Stream -> {"none", "up", "dead"}]
    /\ place \in [Stream -> {"new", "upgraded", "watched", "removed"}]
    /\ done \subseteq Stream
    /\ pub \in {"idle", "sending", "failing", "nil", "error"}
    /\ sending \subseteq Stream /\ wanted \subseteq Stream /\ reached \subseteq Stream

StreamInit ==
    /\ registered = [m \in Member |-> NoStream]
    /\ newest = [m \in Member |-> NoStream]
    /\ wire = [s \in Stream |-> "none"]
    /\ place = [s \in Stream |-> "new"]
    /\ done = {}
    /\ pub = "idle" /\ sending = {} /\ wanted = {} /\ reached = {}

-----------------------------------------------------------------------------
(* AcceptConnection: the upgrade, the registration, and the goroutine that *)
(* waits for the stream's end.                                             *)
Upgrade(s) ==
    /\ place[s] = "new"
    /\ place' = [place EXCEPT ![s] = "upgraded"]
    /\ wire' = [wire EXCEPT ![s] = "up"]
    /\ UNCHANGED <<registered, done, newest, pubVars>>

Add(s) ==
    /\ place[s] = "upgraded"
    /\ place' = [place EXCEPT ![s] = "watched"]
    /\ registered' = [registered EXCEPT ![MemberOf[s]] = s]
    /\ newest' = [newest EXCEPT ![MemberOf[s]] = s]
    /\ UNCHANGED <<wire, done, pubVars>>

\* Remove takes the member, not the stream: whichever is registered goes.
Remove(s) ==
    /\ place[s] = "watched" /\ s \in done
    /\ place' = [place EXCEPT ![s] = "removed"]
    /\ registered' = [registered EXCEPT ![MemberOf[s]] = NoStream]
    /\ UNCHANGED <<wire, done, newest, pubVars>>

-----------------------------------------------------------------------------
(* The connection. A client that goes away, or stops answering pings, is   *)
(* noticed by the read pump, whose deadline lapses, or by the heartbeat.   *)
Disconnect(s) ==
    /\ wire[s] = "up"
    /\ wire' = [wire EXCEPT ![s] = "dead"]
    /\ UNCHANGED <<registered, done, place, newest, pubVars>>

(* Variant: a pump that fails returns without closing the stream.          *)
PumpReturns(s) ==
    /\ wire[s] = "dead"
    /\ UNCHANGED streamVars

PumpCloses(s) ==
    /\ wire[s] = "dead" /\ s \notin done
    /\ done' = done \cup {s}
    /\ UNCHANGED <<registered, wire, place, newest, pubVars>>

-----------------------------------------------------------------------------
(* Publish, which is BroadcastToGroup; the filtered broadcast and          *)
(* SendToMember copy, look up and send in the same way for some members.   *)
Copied(some) == {registered[m] : m \in some} \ {NoStream}
Connected(some) ==
    {s \in Stream : /\ MemberOf[s] \in some /\ newest[MemberOf[s]] = s
                    /\ place[s] = "watched" /\ wire[s] = "up"}
Snapshot(some) ==
    /\ pub \in {"idle", "nil", "error"}
    /\ pub' = "sending" /\ sending' = Copied(some) /\ wanted' = Connected(some)
    /\ reached' = {}
    /\ UNCHANGED <<registered, wire, done, place, newest>>

\* A write on a dead connection may be reported or lost in a buffer. One that
\* outlasts its deadline fails, and the connection takes no write after it.
Send(s) ==
    /\ pub \in {"sending", "failing"} /\ s \in sending
    /\ sending' = sending \ {s}
    /\ \/ /\ s \notin done /\ wire[s] = "up"
          /\ reached' = reached \cup {s} /\ UNCHANGED <<pub, wire>>
       \/ /\ s \notin done /\ wire[s] = "up"
          /\ wire' = [wire EXCEPT ![s] = "dead"] /\ pub' = "failing" /\ UNCHANGED reached
       \/ /\ s \notin done /\ wire[s] = "dead"
          /\ pub' \in {pub, "failing"} /\ UNCHANGED <<reached, wire>>
       \/ /\ s \in done
          /\ pub' = "failing" /\ UNCHANGED <<reached, wire>>
    /\ UNCHANGED <<registered, done, place, newest, wanted>>

PublishReturns ==
    /\ pub \in {"sending", "failing"} /\ sending = {}
    /\ pub' = IF pub = "sending" THEN "nil" ELSE "error"
    /\ UNCHANGED <<registered, wire, done, place, newest, sending, wanted, reached>>

StreamNext ==
    \/ \E s \in Stream : Upgrade(s) \/ Add(s) \/ Remove(s)
                         \/ Disconnect(s) \/ PumpCloses(s) \/ Send(s)
    \/ \E some \in SUBSET Member : Snapshot(some)
    \/ PublishReturns

StreamSpec == StreamInit /\ [][StreamNext]_streamVars

-----------------------------------------------------------------------------
(* What the manager has registered for a member is the connection that     *)
(* member made last, never one it replaced, and the goroutine that will    *)
(* deregister it is still waiting: Add and Remove of several connections   *)
(* of one member may lose the newest, and never bring back an older one.   *)
RegisteredIsNewest ==
    \A m \in Member : registered[m] # NoStream =>
        /\ registered[m] = newest[m]
        /\ place[registered[m]] = "watched" /\ MemberOf[registered[m]] = m

(* A broken stream does not stay registered (websocket.go, heartbeatLoop:  *)
(* "Close the stream so `done` fires and the manager deregisters it,       *)
(* instead of leaving a broken stream registered").                        *)
BrokenIsRemoved ==
    \A s \in Stream : (wire[s] = "dead" /\ registered[MemberOf[s]] = s)
                          ~> registered[MemberOf[s]] # s

(* "Publish sends an event to all connected clients on the given channel"  *)
(* (notifications/async/websocket), and says nil when it did: of each      *)
(* member the connection it last made, if that is still up. The code       *)
(* does not do it.                                                         *)
PublishReachesConnected ==
    pub = "nil" => \A s \in wanted : s \in reached \/ wire[s] # "up"
=============================================================================
