--------------------------- MODULE KafkaConsumer ---------------------------
(***************************************************************************)
(* messagequeue/kafka: consumers of one group reading one partition. Each  *)
(* fetches, runs the handler, and only then commits the offset; commits    *)
(* are cumulative, so a handler's error ends the consumer.                 *)
(*                                                                         *)
(* A Reader is one process's consumer; when it has returned, the process   *)
(* may be started again. Of the group only what the code relies on is      *)
(* modelled: the partition has one reader at a time, who starts at the     *)
(* committed offset, and a rebalance does not wait for a handler. A commit *)
(* by a reader that has lost the partition may be refused or be taken.     *)
(***************************************************************************)
EXTENDS Naturals

CONSTANTS Reader, NoReader,
          LogLength   \* bound: messages in the partition, from offset 0

ASSUME KafkaAssumption ==
    /\ LogLength \in Nat
    /\ NoReader \notin Reader

VARIABLES committed,  \* the group's offset: the next message to deliver
          assigned,   \* the reader that has the partition
          offset,     \* the next offset each reader fetches
          message,    \* the offset of the message each reader has
          stage,      \* where each Consume loop is
          quit,       \* readers whose context is cancelled
          succeeded   \* offsets a handler has returned nil for

kafkaVars == <<committed, assigned, offset, message, stage, quit, succeeded>>

KafkaTypeOK ==
    /\ committed \in 0..LogLength /\ succeeded \subseteq 0..LogLength
    /\ assigned \in Reader \cup {NoReader}
    /\ offset \in [Reader -> 0..LogLength] /\ message \in [Reader -> 0..LogLength]
    /\ stage \in [Reader -> {"off", "fetch", "fetchFailed", "backoff", "handle",
                             "handleFailed", "commit", "commitFailed", "returned"}]
    /\ quit \subseteq Reader

KafkaInit ==
    /\ committed = 0 /\ assigned = NoReader /\ succeeded = {} /\ quit = {}
    /\ offset = [r \in Reader |-> 0] /\ message = [r \in Reader |-> 0]
    /\ stage = [r \in Reader |-> "off"]

At(r, where) == stage' = [stage EXCEPT ![r] = where]
\* The deferred reader.Close leaves the group.
Returns(r) ==
    /\ At(r, "returned")
    /\ assigned' = IF assigned = r THEN NoReader ELSE assigned

-----------------------------------------------------------------------------
(* The group.                                                              *)
StartReader(r) ==
    /\ stage[r] \in {"off", "returned"}
    /\ At(r, "fetch") /\ quit' = quit \ {r}
    /\ UNCHANGED <<committed, assigned, offset, message, succeeded>>

Assign(r) ==
    /\ stage[r] \notin {"off", "returned"}
    /\ assigned' = r
    /\ offset' = [offset EXCEPT ![r] = committed]
    /\ UNCHANGED <<committed, message, stage, quit, succeeded>>

CancelReader(r) ==
    /\ stage[r] \notin {"off", "returned"}
    /\ quit' = quit \cup {r}
    /\ UNCHANGED <<committed, assigned, offset, message, stage, succeeded>>

\* The process dies; the group gives the partition to somebody else.
KillReader(r) ==
    /\ stage[r] \notin {"off", "returned"}
    /\ Returns(r)
    /\ UNCHANGED <<committed, offset, message, quit, succeeded>>

-----------------------------------------------------------------------------
(* Consume.                                                                *)
Fetch(r) ==
    /\ stage[r] = "fetch" /\ assigned = r /\ offset[r] < LogLength
    /\ message' = [message EXCEPT ![r] = offset[r]]
    /\ offset' = [offset EXCEPT ![r] = @ + 1]
    /\ At(r, "handle")
    /\ UNCHANGED <<committed, assigned, quit, succeeded>>

FetchFails(r) ==
    /\ stage[r] = "fetch"
    /\ IF r \in quit THEN Returns(r) ELSE At(r, "fetchFailed") /\ UNCHANGED assigned
    /\ UNCHANGED <<committed, offset, message, quit, succeeded>>

\* The error is taken from errs, or Send ends with the context; then the wait.
FetchReported(r) ==
    /\ stage[r] = "fetchFailed"
    /\ At(r, "backoff")
    /\ UNCHANGED <<committed, assigned, offset, message, quit, succeeded>>

BackOff(r) ==
    /\ stage[r] = "backoff"
    /\ \/ At(r, "fetch") /\ UNCHANGED assigned
       \/ r \in quit /\ Returns(r)
    /\ UNCHANGED <<committed, offset, message, quit, succeeded>>

HandlerSucceeds(r) ==
    /\ stage[r] = "handle"
    /\ succeeded' = succeeded \cup {message[r]}
    /\ At(r, "commit")
    /\ UNCHANGED <<committed, assigned, offset, message, quit>>

HandlerFails(r) ==
    /\ stage[r] = "handle"
    /\ At(r, "handleFailed")
    /\ UNCHANGED <<committed, assigned, offset, message, quit, succeeded>>

(* Variant: as the other brokers' consumers do, go on with the next one.   *)
FailureContinues(r) ==
    /\ stage[r] = "handleFailed"
    /\ At(r, "fetch")
    /\ UNCHANGED <<committed, assigned, offset, message, quit, succeeded>>

FailureReported(r) ==
    /\ stage[r] = "handleFailed"
    /\ Returns(r)
    /\ UNCHANGED <<committed, offset, message, quit, succeeded>>

Commit(r) ==
    /\ stage[r] = "commit"
    /\ committed' = message[r] + 1
    /\ At(r, "fetch")
    /\ UNCHANGED <<assigned, offset, message, quit, succeeded>>

\* Refused, or the answer is lost: the offset may have been taken.
CommitFails(r) ==
    /\ stage[r] = "commit"
    /\ committed' \in {committed, message[r] + 1}
    /\ At(r, "commitFailed")
    /\ UNCHANGED <<assigned, offset, message, quit, succeeded>>

CommitReported(r) ==
    /\ stage[r] = "commitFailed"
    /\ At(r, "fetch")
    /\ UNCHANGED <<committed, assigned, offset, message, quit, succeeded>>

KafkaNext ==
    \E r \in Reader :
        \/ StartReader(r) \/ Assign(r) \/ CancelReader(r) \/ KillReader(r)
        \/ Fetch(r) \/ FetchFails(r) \/ FetchReported(r) \/ BackOff(r)
        \/ HandlerSucceeds(r) \/ HandlerFails(r) \/ FailureReported(r)
        \/ Commit(r) \/ CommitFails(r) \/ CommitReported(r)

KafkaSpec == KafkaInit /\ [][KafkaNext]_kafkaVars

-----------------------------------------------------------------------------
(* The group never passes over a message that no handler has accepted,     *)
(* through failed commits, rebalances under a running handler, deaths and  *)
(* restarts (consumer.go, Consume: "committing a later message would       *)
(* advance the group past this failed one and lose it").                   *)
NothingSkipped == \A o \in 0..LogLength - 1 : o < committed => o \in succeeded
=============================================================================
