---------------------------- MODULE ViolationStream ----------------------------
(***************************************************************************)
(* The way of a violation from the engine to the object store.  The        *)
(* publisher of a run hands its violations to a Kafka producer, reports    *)
(* their number to the API and flushes the producer when it stops.  The    *)
(* consumer gathers a batch over several polls, writes it as one object    *)
(* and lets the Kafka client commit the offsets on its own: a poll, and    *)
(* the closing of the consumer, commit the position reached so far.        *)
(*                                                                         *)
(* The topic has one partition.  The producer, the broker and the          *)
(* commits are external: a producer delivers in order what it accepted,    *)
(* or drops it after its retries.                                          *)
(***************************************************************************)
EXTENDS Naturals, Sequences, SequencesExt, FiniteSets

CONSTANTS
    Runs,
    Found,         \* the violations a run found, in order
    Invalid,       \* violations that lack a required field
    SendBatch,     \* KAFKA_BATCH_SIZE: the publisher flushes at this many
    MaxPoll,       \* KAFKA_CONSUMER_MAX_POLL_RECORDS
    BatchSize,     \* KAFKA_CONSUMER_BATCH_SIZE
    MaxFaults,     \* bound: faults
    MaxSignals     \* bound: SIGTERMs to the consumer

ASSUME StreamAssumption ==
    /\ DOMAIN Found = Runs
    /\ \A r \in Runs : Found[r] \in Seq(Range(Found[r])) /\ IsInjective(Found[r])
    /\ \A r, s \in Runs : r # s => Range(Found[r]) \cap Range(Found[s]) = {}
    /\ {SendBatch, MaxPoll, BatchSize} \subseteq Nat \ {0}
    /\ {MaxFaults, MaxSignals} \subseteq Nat

VARIABLES
    step,       \* where the publisher of a run is
    sent,       \* how many violations it went through
    tracked,    \* how many it sent since its last flush
    buffer,     \* accepted by the producer, not yet at the broker
    counted,    \* runs whose number of violations the API knows
    log,        \* the topic
    committed,  \* the group's offset: that many messages are done with
    position,   \* the consumer's position in the topic
    batch,      \* the messages in the consumer's hands
    objects,    \* the objects written, each a batch
    consumer,   \* where the consumer is
    term,       \* the consumer's _shutdown
    signals,    \* SIGTERMs so far
    failed      \* the kinds of faults that happened

publisherVars == <<step, sent, tracked, buffer, counted>>
consumerVars == <<committed, position, batch, objects, consumer, term>>
streamVars == <<publisherVars, log, consumerVars, signals, failed>>

Violations == UNION {Range(Found[r]) : r \in Runs}
\* A kind of fault happens once.
Fault(kind) ==
    /\ kind \notin failed /\ Cardinality(failed) < MaxFaults
    /\ failed' = failed \cup {kind}

(***************************************************************************)
(* The publisher of a run.                                                 *)
(***************************************************************************)
StepTo(r, s) == step' = [step EXCEPT ![r] = s]

(* The producer is created; every violation of the run is checked before   *)
(* the first is sent, and one that is invalid raises out of the report.    *)
BeginPublish(r) ==
    /\ step[r] = "start"
    /\ StepTo(r, IF Range(Found[r]) \cap Invalid = {} THEN "publish" ELSE "stop")
    /\ UNCHANGED <<sent, tracked, buffer, counted, log, consumerVars, signals, failed>>

(* Without a producer the violations are skipped and the report goes on.   *)
BeginWithoutProducer(r) ==
    /\ step[r] = "start" /\ Fault("connect")
    /\ StepTo(r, "report")
    /\ UNCHANGED <<sent, tracked, buffer, counted, log, consumerVars, signals>>

Send(r) ==
    /\ step[r] = "publish" /\ sent[r] < Len(Found[r])
    /\ sent' = [sent EXCEPT ![r] = @ + 1]
    /\ tracked' = [tracked EXCEPT ![r] = @ + 1]
    /\ buffer' = [buffer EXCEPT ![r] = Append(@, Found[r][sent'[r]])]
    /\ IF tracked'[r] >= SendBatch THEN StepTo(r, "flush") ELSE UNCHANGED step
    /\ UNCHANGED <<counted, log, consumerVars, signals, failed>>

(* A send that raises is logged, and the loop goes on.                     *)
SendFails(r) ==
    /\ step[r] = "publish" /\ sent[r] < Len(Found[r]) /\ Fault("send")
    /\ sent' = [sent EXCEPT ![r] = @ + 1]
    /\ UNCHANGED <<step, tracked, buffer, counted, log, consumerVars, signals>>

(* _flush_batch waits until the producer's buffer is empty.                *)
FlushTracked(r) ==
    /\ step[r] = "flush" /\ buffer[r] = <<>>
    /\ tracked' = [tracked EXCEPT ![r] = 0]
    /\ StepTo(r, "publish")
    /\ UNCHANGED <<sent, buffer, counted, log, consumerVars, signals, failed>>

Published(r) ==
    /\ step[r] = "publish" /\ sent[r] = Len(Found[r])
    /\ StepTo(r, "report")
    /\ UNCHANGED <<sent, tracked, buffer, counted, log, consumerVars, signals, failed>>

(* Only the number of the violations goes to the API.                      *)
ReportRun(r) ==
    /\ step[r] = "report"
    /\ counted' = counted \cup {r}
    /\ StepTo(r, "stop")
    /\ UNCHANGED <<sent, tracked, buffer, log, consumerVars, signals, failed>>

ReportRaises(r) ==
    /\ step[r] = "report" /\ Fault("report")
    /\ StepTo(r, "stop")
    /\ UNCHANGED <<sent, tracked, buffer, counted, log, consumerVars, signals>>

(* Mutant of Stop: the producer is closed without a flush.                 *)
StopUnflushed(r) ==
    /\ step[r] = "stop"
    /\ buffer' = [buffer EXCEPT ![r] = <<>>]
    /\ tracked' = [tracked EXCEPT ![r] = 0]
    /\ StepTo(r, "stopped")
    /\ UNCHANGED <<sent, counted, log, consumerVars, signals, failed>>

(* The finally clause: the producer is flushed and closed.                 *)
Stop(r) ==
    /\ step[r] = "stop" /\ buffer[r] = <<>>
    /\ tracked' = [tracked EXCEPT ![r] = 0]
    /\ StepTo(r, "stopped")
    /\ UNCHANGED <<sent, buffer, counted, log, consumerVars, signals, failed>>

EngineDies(r) ==
    /\ step[r] \notin {"start", "stopped", "dead"} /\ Fault("engine")
    /\ buffer' = [buffer EXCEPT ![r] = <<>>]
    /\ StepTo(r, "dead")
    /\ UNCHANGED <<sent, tracked, counted, log, consumerVars, signals>>

Deliver(r) ==
    /\ buffer[r] # <<>>
    /\ log' = Append(log, Head(buffer[r]))
    /\ buffer' = [buffer EXCEPT ![r] = Tail(@)]
    /\ UNCHANGED <<step, sent, tracked, counted, consumerVars, signals, failed>>

(* Nobody looks at the future of a send.                                   *)
DeliveryFails(r) ==
    /\ buffer[r] # <<>> /\ Fault("deliver")
    /\ buffer' = [buffer EXCEPT ![r] = Tail(@)]
    /\ UNCHANGED <<step, sent, tracked, counted, log, consumerVars, signals>>

(***************************************************************************)
(* The consumer.                                                           *)
(***************************************************************************)
Start ==
    /\ consumer = "down"
    /\ consumer' = "poll" /\ position' = committed
    /\ UNCHANGED <<publisherVars, log, committed, batch, objects, term, signals, failed>>

(* A poll first commits the position when the commit is due, and then      *)
(* takes up to MaxPoll messages.  The signal is looked at between polls.   *)
Poll(n, due) ==
    /\ consumer = "poll" /\ ~term
    /\ position + n <= Len(log)
    /\ committed' = IF due THEN position ELSE committed
    /\ position' = position + n
    /\ batch' = batch \o SubSeq(log, position + 1, position + n)
    /\ consumer' = IF Len(batch') >= BatchSize THEN "flush" ELSE "poll"
    /\ UNCHANGED <<publisherVars, log, objects, term, signals, failed>>

(* Mutant of EndPoll: the signal ends the consumer before the batch is     *)
(* written.                                                                *)
EndPollDropping ==
    /\ consumer = "poll"
    /\ consumer' = IF batch = <<>> \/ term THEN "sleep" ELSE "flush"
    /\ batch' = IF term THEN <<>> ELSE batch
    /\ UNCHANGED <<publisherVars, log, committed, position, objects, term, signals, failed>>

(* The deadline of the batch, or the signal.                               *)
EndPoll ==
    /\ consumer = "poll"
    /\ consumer' = IF batch = <<>> THEN "sleep" ELSE "flush"
    /\ UNCHANGED <<publisherVars, log, committed, position, batch, objects, term, signals, failed>>

(* A poll that raises leaves run through its finally clause.               *)
PollRaises ==
    /\ consumer = "poll" /\ ~term /\ Fault("poll")
    /\ consumer' = "close" /\ batch' = <<>>
    /\ UNCHANGED <<publisherVars, log, committed, position, objects, term, signals>>

(* The key of an object holds the time, so that a batch written again is   *)
(* another object.                                                         *)
WriteBatch ==
    /\ consumer = "flush"
    /\ objects' = Append(objects, batch)
    /\ batch' = <<>> /\ consumer' = "sleep"
    /\ UNCHANGED <<publisherVars, log, committed, position, term, signals, failed>>

(* A write that fails is logged.                                           *)
WriteFails ==
    /\ consumer = "flush" /\ Fault("write")
    /\ batch' = <<>> /\ consumer' = "sleep"
    /\ UNCHANGED <<publisherVars, log, committed, position, objects, term, signals>>

Wake ==
    /\ consumer = "sleep"
    /\ consumer' = IF term THEN "close" ELSE "poll"
    /\ UNCHANGED <<publisherVars, log, committed, position, batch, objects, term, signals, failed>>

(* Mutant of Close: the consumer leaves without committing.                *)
CloseUncommitted ==
    /\ consumer = "close"
    /\ consumer' = "down" /\ term' = FALSE
    /\ UNCHANGED <<publisherVars, log, committed, position, batch, objects, signals, failed>>

(* Closing commits the position; the container is started again.           *)
Close ==
    /\ consumer = "close"
    /\ committed' = position
    /\ consumer' = "down" /\ term' = FALSE
    /\ UNCHANGED <<publisherVars, log, position, batch, objects, signals, failed>>

CloseFails ==
    /\ consumer = "close" /\ Fault("commit")
    /\ consumer' = "down" /\ term' = FALSE
    /\ UNCHANGED <<publisherVars, log, committed, position, batch, objects, signals>>

HandleSignal ==
    /\ consumer # "down" /\ ~term /\ signals < MaxSignals
    /\ term' = TRUE /\ signals' = signals + 1
    /\ UNCHANGED <<publisherVars, log, committed, position, batch, objects, consumer, failed>>

ConsumerCrash ==
    /\ consumer # "down" /\ Fault("crash")
    /\ consumer' = "down" /\ batch' = <<>> /\ term' = FALSE
    /\ UNCHANGED <<publisherVars, log, committed, position, objects, signals>>

StreamInit ==
    /\ step = [r \in Runs |-> "start"]
    /\ sent = [r \in Runs |-> 0] /\ tracked = [r \in Runs |-> 0]
    /\ buffer = [r \in Runs |-> <<>>]
    /\ counted = {}
    /\ log = <<>> /\ committed = 0 /\ position = 0
    /\ batch = <<>> /\ objects = <<>>
    /\ consumer = "down" /\ term = FALSE
    /\ signals = 0 /\ failed = {}

PublisherNext(r) ==
    \/ BeginPublish(r) \/ BeginWithoutProducer(r)
    \/ Send(r) \/ SendFails(r) \/ FlushTracked(r) \/ Published(r)
    \/ ReportRun(r) \/ ReportRaises(r)
    \/ Stop(r) \/ EngineDies(r)
    \/ Deliver(r) \/ DeliveryFails(r)

ConsumerNext ==
    \/ Start
    \/ \E n \in 0..MaxPoll, due \in BOOLEAN : Poll(n, due)
    \/ EndPoll \/ PollRaises
    \/ WriteBatch \/ WriteFails
    \/ Wake \/ Close \/ CloseFails
    \/ HandleSignal \/ ConsumerCrash

StreamNext == (\E r \in Runs : PublisherNext(r)) \/ ConsumerNext

StreamSpec == StreamInit /\ [][StreamNext]_streamVars

(* The publisher and the producer run on unless they die, the container    *)
(* is restarted, a poll returns what there is, and every wait has a        *)
(* deadline.                                                               *)
FairStreamSpec ==
    /\ StreamSpec
    /\ \A r \in Runs :
          WF_streamVars(\/ BeginPublish(r) \/ Send(r) \/ FlushTracked(r)
                        \/ Published(r) \/ ReportRun(r) \/ Stop(r) \/ Deliver(r))
    /\ WF_streamVars(Start \/ EndPoll \/ WriteBatch \/ Wake \/ Close)
    /\ SF_streamVars(\E n \in 1..MaxPoll, due \in BOOLEAN : Poll(n, due))

(***************************************************************************)
(* Properties.                                                             *)
(***************************************************************************)
Stored(v) == \E k \in DOMAIN objects : v \in Range(objects[k])

Objects(v) == {k \in DOMAIN objects : v \in Range(objects[k])}

(* No message is in two objects, over restarts by signal, writes and polls *)
(* that fail: the consumer commits its position when it closes (run).      *)
(* Only a lost commit or a crash makes it read messages again.             *)
RepetitionCostsAFault ==
    failed \cap {"commit", "crash"} = {} =>
        \A v \in Violations : Cardinality(Objects(v)) <= 1

(* The violations of a run that is over and that the API counts are in     *)
(* the topic, although the report goes out while they are still in the     *)
(* producer's buffer (report_run, stop).  Only a fault of the producer or  *)
(* of its process, which the report does not see, breaks that.             *)
CountedLossCostsAFault ==
    failed \cap {"connect", "send", "deliver", "engine"} = {} =>
        \A r \in counted :
            step[r] = "stopped" => Range(Found[r]) \subseteq Range(log)

(* What is in the topic gets to the store, through signals and lost        *)
(* commits and over batches of several polls, unless a write or a poll     *)
(* fails or the consumer dies with a batch in its hands.                   *)
MessageIsStored ==
    \A v \in Violations :
        (v \in Range(log))
            ~> (Stored(v) \/ failed \cap {"write", "poll", "crash"} # {})
=============================================================================
