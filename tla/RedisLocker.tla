---------------------------- MODULE RedisLocker ----------------------------
(***************************************************************************)
(* distributedlock/redis: a lock is a key whose value is the token of the  *)
(* Acquire that set it, and whose TTL the server keeps. Release and        *)
(* Refresh are scripts that compare the token first.                       *)
(*                                                                         *)
(* A Ticket is one Acquire, its token, and what its caller does with the   *)
(* Lock; tickets of several processes meet at the server. One lock name is *)
(* modelled. A command is sent, carried out and answered in three steps;   *)
(* go-redis may send it again when no answer came, and a caller that gave  *)
(* up leaves a command behind that the server may still carry out. A       *)
(* caller that has called Release does not refresh any more. The ttl a     *)
(* call is given counts halves of a millisecond, and the clock, like the   *)
(* server, whole ones.                                                     *)
(***************************************************************************)
EXTENDS Integers

CONSTANTS Ticket, NoTicket,
          RedisTTL,    \* what Acquire and Refresh may be given for a ttl
          LongestTTL

ASSUME RedisAssumption ==
    /\ LongestTTL \in Nat /\ RedisTTL \subseteq 1..LongestTTL
    /\ NoTicket \notin Ticket

VARIABLES token,   \* the value of the key, or NoTicket: there is none
          ttl,     \* the time the server keeps it for
          doing,   \* what the caller of a ticket is doing
          asked,   \* the ttl of the command it waits for
          reply,   \* that command's answer, if it was carried out
          pend,    \* what is left of the lease it asks for, since it was sent
          trust,   \* how long the caller may count on its lease
          cap,     \* the shortest lease it asked for and saw no answer to
          leftover     \* commands whose callers have given up

redisVars == <<token, ttl, doing, asked, reply, pend, trust, cap, leftover>>

Op == {"set", "pexpire", "del"}
Awaiting == {"acquiring", "refreshing", "releasing"}
Sends == [acquiring |-> "set", refreshing |-> "pexpire", releasing |-> "del"]
Asked == RedisTTL \cup {0}   \* a release asks for none

RedisTypeOK ==
    /\ token \in Ticket \cup {NoTicket} /\ ttl \in 0..LongestTTL
    /\ doing \in [Ticket -> Awaiting \cup {"new", "holding", "leaving", "over"}]
    /\ reply \in [Ticket -> {"none", "sent", "yes", "no"}]
    /\ asked \in [Ticket -> Asked]
    /\ \A v \in {pend, trust, cap} : v \in [Ticket -> 0..LongestTTL]
    /\ leftover \subseteq Ticket \X Op \X Asked

RedisInit ==
    /\ token = NoTicket /\ ttl = 0
    /\ doing = [t \in Ticket |-> "new"]
    /\ reply = [t \in Ticket |-> "none"]
    /\ asked = [t \in Ticket |-> 0]
    /\ pend = [t \in Ticket |-> 0] /\ trust = [t \in Ticket |-> 0]
    /\ cap = [t \in Ticket |-> LongestTTL]
    /\ leftover = {}

\* ttl.Milliseconds(), which drops what is under one.
Millis(d) == d \div 2
\* go-redis, for SET: a duration under a millisecond is sent as one.
SetMillis(d) == IF d < 2 THEN 1 ELSE Millis(d)
Shorter(m, n) == IF m < n THEN m ELSE n

-----------------------------------------------------------------------------
(* The caller: Acquire, Refresh, and Release, which may be tried again.    *)
Call(t, from, what, d) ==
    /\ doing[t] \in from
    /\ doing' = [doing EXCEPT ![t] = what]
    /\ asked' = [asked EXCEPT ![t] = d]
    /\ reply' = [reply EXCEPT ![t] = "sent"]
    /\ pend' = [pend EXCEPT ![t] = Shorter(Millis(d), cap[t])]
    /\ trust' = [trust EXCEPT ![t] = Shorter(@, Millis(d))]
    /\ UNCHANGED <<token, ttl, cap, leftover>>

RedisAcquire(t, d) == Call(t, {"new"}, "acquiring", d)
RedisRefresh(t, d) == Call(t, {"holding"}, "refreshing", d)
RedisRelease(t) == Call(t, {"holding", "leaving"}, "releasing", 0)

\* Where a call leaves its caller when it returns nil, not held, or an error.
AfterYes == [acquiring |-> "holding", refreshing |-> "holding", releasing |-> "over"]
AfterNo == [acquiring |-> "over", refreshing |-> "over", releasing |-> "over"]
AfterError == [acquiring |-> "over", refreshing |-> "holding", releasing |-> "leaving"]

Leaves(t, where) ==
    /\ doing' = [doing EXCEPT ![t] = where]
    /\ asked' = [asked EXCEPT ![t] = 0]
    /\ reply' = [reply EXCEPT ![t] = "none"]
    /\ pend' = [pend EXCEPT ![t] = 0]
    /\ UNCHANGED <<token, ttl>>

Answered(t) ==
    /\ reply[t] \in {"yes", "no"}
    /\ Leaves(t, IF reply[t] = "yes" THEN AfterYes[doing[t]] ELSE AfterNo[doing[t]])
    /\ trust' = [trust EXCEPT ![t] = IF doing[t] = "releasing" \/ reply[t] = "no"
                                     THEN @ ELSE pend[t]]
    /\ UNCHANGED <<cap, leftover>>

\* The deadline, a broken connection or Close: the command may be under way.
GivesUp(t) ==
    /\ doing[t] \in Awaiting
    /\ Leaves(t, AfterError[doing[t]])
    /\ \/ /\ reply[t] = "sent"
          /\ leftover' = leftover \cup {<<t, Sends[doing[t]], asked[t]>>}
       \/ UNCHANGED leftover
    /\ cap' = [cap EXCEPT ![t] = Shorter(@, Millis(asked[t]))]
    /\ UNCHANGED trust

\* The breaker is open, or the client closed: nothing is sent.
Refused(t) ==
    /\ \/ doing[t] = "new" /\ Leaves(t, "over") /\ UNCHANGED trust
       \/ doing[t] = "holding" /\ Leaves(t, "leaving")
                               /\ trust' = [trust EXCEPT ![t] = 0]
    /\ UNCHANGED <<cap, leftover>>

\* go-redis: the answer was lost, so the command is sent again.
Resend(t) ==
    /\ reply[t] \in {"yes", "no"}
    /\ reply' = [reply EXCEPT ![t] = "sent"]
    /\ UNCHANGED <<token, ttl, doing, asked, pend, trust, cap, leftover>>

-----------------------------------------------------------------------------
(* The server. Each command, and each script, is atomic. A PEXPIRE of zero *)
(* deletes the key, and answers 1.                                         *)
SetNX(t, d) ==
    IF token = NoTicket THEN token' = t /\ ttl' = SetMillis(d)
                        ELSE UNCHANGED <<token, ttl>>

RefreshScript(t, d) ==
    IF token = t THEN /\ ttl' = Millis(d)
                      /\ token' = IF Millis(d) = 0 THEN NoTicket ELSE t
                 ELSE UNCHANGED <<token, ttl>>

(* Variant: the key is deleted without a look at its value.                *)
DelOnly(t) ==
    /\ token' = NoTicket /\ ttl' = 0

ReleaseScript(t) ==
    IF token = t THEN token' = NoTicket /\ ttl' = 0
                 ELSE UNCHANGED <<token, ttl>>

Execute(t, op, d) ==
    \/ op = "set" /\ SetNX(t, d)
    \/ op = "pexpire" /\ RefreshScript(t, d)
    \/ op = "del" /\ ReleaseScript(t)

Says(t, op) == IF (op = "set" /\ token = NoTicket) \/ (op # "set" /\ token = t)
               THEN "yes" ELSE "no"

CarriesOut(t) ==
    /\ reply[t] = "sent"
    /\ Execute(t, Sends[doing[t]], asked[t])
    /\ reply' = [reply EXCEPT ![t] = Says(t, Sends[doing[t]])]
    /\ UNCHANGED <<doing, asked, pend, trust, cap, leftover>>

CarriesOutLate(t, op, d) ==
    /\ <<t, op, d>> \in leftover
    /\ Execute(t, op, d)
    /\ leftover' = leftover \ {<<t, op, d>>}
    /\ UNCHANGED <<doing, asked, reply, pend, trust, cap>>

Less(n) == IF n = 0 THEN 0 ELSE n - 1
RedisTick ==
    /\ ttl' = Less(ttl)
    /\ token' = IF ttl = 1 THEN NoTicket ELSE token
    /\ pend' = [t \in Ticket |-> Less(pend[t])]
    /\ trust' = [t \in Ticket |-> Less(trust[t])]
    /\ UNCHANGED <<doing, asked, reply, cap, leftover>>

RedisNext ==
    \/ \E t \in Ticket, d \in RedisTTL : RedisAcquire(t, d) \/ RedisRefresh(t, d)
    \/ \E t \in Ticket :
          \/ RedisRelease(t) \/ Answered(t) \/ GivesUp(t) \/ Refused(t) \/ Resend(t)
          \/ CarriesOut(t)
    \/ \E t \in Ticket, op \in Op, d \in Asked : CarriesOutLate(t, op, d)
    \/ RedisTick

RedisSpec == RedisInit /\ [][RedisNext]_redisVars

-----------------------------------------------------------------------------
(* A caller whose Acquire or Refresh returned nil owns the key for what is *)
(* left of the ttl, in whole milliseconds, counted from the moment it      *)
(* called, whatever commands, its own or other callers', are lost,         *)
(* repeated or carried out late; but for no longer than a ttl it has since *)
(* asked for, nor than one it once asked for in a Refresh that failed,     *)
(* which may still be carried out. A Refresh for less than a millisecond   *)
(* promises nothing: it deletes the key and returns nil (redis.go,         *)
(* releaseScript: "only if its current value matches the supplied          *)
(* ownership token").                                                      *)
TrustedIsHeld == \A t \in Ticket : trust[t] > 0 => token = t /\ ttl >= trust[t]
=============================================================================
