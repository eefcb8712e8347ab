--------------------------- MODULE ReadinessStream ---------------------------
(***************************************************************************)
(* How readiness reaches an SSE consumer of GET /readiness/events.  A      *)
(* method of `ServerState` changes the ReadinessState and takes a numbered *)
(* copy of all records while it holds the mutex, releases the mutex, and   *)
(* only then broadcasts the copy: two handlers may send in the opposite    *)
(* order.  `readiness_records_stream` subscribes, then reads a baseline,   *)
(* then filters what it receives; a consumer that falls behind by more     *)
(* than the channel holds is told `Lagged` and reads the state again.      *)
(*                                                                         *)
(* The consumer watches one target, and a broadcast of the four records of *)
(* one copy is one message here: only the record of that target can reach  *)
(* the consumer, and the channel (32 slots at least) is counted in copies. *)
(***************************************************************************)
EXTENDS Readiness, Sequences

CONSTANTS
  Handlers,    (* tasks that serve POST /plugin/state or call the library     *)
  Reports,     (* the facts the plugin reports                                *)
  Watched,     (* the targets a consumer may ask for                          *)
  Capacity,    (* copies the broadcast channel keeps for a slow consumer      *)
  MaxEvents    (* bound on event_seq (u64 in the code)                        *)

ASSUME StreamAssumption ==
  Reports \subseteq Facts /\ Watched \subseteq Targets /\ Capacity \in Nat \ {0}

VARIABLES
  eventSeq,    (* ReadinessState::event_seq                                   *)
  announced,   (* the records copied when eventSeq was last incremented       *)
  sending,     (* per handler: the numbered copy it has still to broadcast    *)
  consumer     (* the stream: target, phase, unread messages, lagged,         *)
               (* last_sequence, the record shown and where it came from      *)

streamVars == <<readiness, eventSeq, announced, sending, consumer>>

NotSending == [seq |-> 0, rec |-> Bootstrap.rec]

-----------------------------------------------------------------------------
StreamInit ==
  /\ Init
  /\ eventSeq = 0
  /\ announced = Bootstrap.rec
  /\ sending = [h \in Handlers |-> NotSending]
  /\ \E t \in Watched :
       consumer = [target |-> t, phase |-> "idle", unread |-> << >>, lagged |-> FALSE,
                   lastSeq |-> 0, shown |-> Bootstrap.rec[t], readFromState |-> FALSE]

(* next_readiness_snapshot under the mutex, and the copy kept for sending. *)
Announce(h) ==
  /\ eventSeq < MaxEvents
  /\ eventSeq' = eventSeq + 1
  /\ announced' = readiness'.rec
  /\ sending' = [sending EXCEPT ![h] = [seq |-> eventSeq + 1, rec |-> readiness'.rec]]
  /\ UNCHANGED consumer

Silently == UNCHANGED <<eventSeq, announced, sending, consumer>>

(* ServerState::merge_plugin_state_facts broadcasts on Ok(true) alone: a   *)
(* merge that a rejection cut short is not announced, whatever it changed. *)
HandleReport(h, f) ==
  LET m == Merge(readiness, f) IN
  /\ sending[h] = NotSending
  /\ MergePluginStateFacts(f)
  /\ IF m.changed /\ ~ m.rejected THEN Announce(h) ELSE Silently

HandleInvalidation(h, t) ==
  /\ sending[h] = NotSending
  /\ AdvanceEpochIfInvalidated(t)
  /\ Announce(h)

HandleRotation(h) ==
  /\ sending[h] = NotSending
  /\ RotateIncarnation
  /\ Announce(h)

HandleUpdate(h, t, r) ==
  /\ sending[h] = NotSending
  /\ UpdateReadiness(t, r)
  /\ Announce(h)

(* The marker of a successful start is not announced: no record changes.   *)
HandleSuccess(h) ==
  /\ sending[h] = NotSending
  /\ RecordSuccessfulFullBakeStart
  /\ Silently

BroadcastDroppingWhenFull(h) ==
  LET message == [seq |-> sending[h].seq, record |-> sending[h].rec[consumer.target]] IN
  /\ sending[h] # NotSending
  /\ sending' = [sending EXCEPT ![h] = NotSending]
  /\ consumer' = IF consumer.phase = "idle" \/ Len(consumer.unread) = Capacity
                   THEN consumer
                   ELSE [consumer EXCEPT !.unread = Append(@, message)]
  /\ UNCHANGED <<readiness, eventSeq, announced>>
(* broadcast_readiness_snapshot, after the mutex has been released.  When  *)
(* the channel is full its oldest message is overwritten.                  *)
Broadcast(h) ==
  LET message == [seq |-> sending[h].seq, record |-> sending[h].rec[consumer.target]]
      full    == Len(consumer.unread) = Capacity
      longer  == Append(consumer.unread, message)
  IN
  /\ sending[h] # NotSending
  /\ sending' = [sending EXCEPT ![h] = NotSending]
  /\ consumer' = IF consumer.phase = "idle" THEN consumer
                 ELSE [consumer EXCEPT !.unread = IF full THEN Tail(longer) ELSE longer,
                                       !.lagged = @ \/ full]
  /\ UNCHANGED <<readiness, eventSeq, announced>>

(* readiness_records_stream: subscribe first, read the baseline second; the *)
(* variant makes do with the baseline from before it subscribed.           *)
Subscribe ==
  /\ consumer.phase = "idle"
  /\ consumer' = [consumer EXCEPT !.phase = "subscribed"]
  /\ UNCHANGED <<readiness, eventSeq, announced, sending>>

KeepOldBaseline ==
  /\ consumer.phase = "subscribed"
  /\ consumer' = [consumer EXCEPT !.phase = "streaming"]
  /\ UNCHANGED <<readiness, eventSeq, announced, sending>>
ReadBaseline ==
  /\ consumer.phase = "subscribed"
  /\ consumer' = [consumer EXCEPT !.phase = "streaming", !.lastSeq = eventSeq,
                                  !.shown = readiness.rec[consumer.target],
                                  !.readFromState = TRUE]
  /\ UNCHANGED <<readiness, eventSeq, announced, sending>>

ReceiveUnfiltered ==
  /\ consumer.phase = "streaming" /\ ~ consumer.lagged /\ consumer.unread # << >>
  /\ consumer' = [consumer EXCEPT !.unread = Tail(@), !.lastSeq = Head(consumer.unread).seq,
                                  !.shown = Head(consumer.unread).record]
  /\ UNCHANGED <<readiness, eventSeq, announced, sending>>
Receive ==
  LET message == Head(consumer.unread) IN
  /\ consumer.phase = "streaming" /\ ~ consumer.lagged /\ consumer.unread # << >>
  /\ consumer' = IF message.seq <= consumer.lastSeq
                   THEN [consumer EXCEPT !.unread = Tail(@)]
                   ELSE [consumer EXCEPT !.unread = Tail(@), !.lastSeq = message.seq,
                                         !.shown = message.record, !.readFromState = FALSE]
  /\ UNCHANGED <<readiness, eventSeq, announced, sending>>

(* The arm for BroadcastStreamRecvError::Lagged.                           *)
Resync ==
  /\ consumer.phase = "streaming" /\ consumer.lagged
  /\ consumer' = [consumer EXCEPT !.lagged = FALSE, !.lastSeq = eventSeq,
                                  !.shown = readiness.rec[consumer.target],
                                  !.readFromState = TRUE]
  /\ UNCHANGED <<readiness, eventSeq, announced, sending>>

StreamNext ==
  \/ \E h \in Handlers :
       \/ \E f \in Reports : HandleReport(h, f)
       \/ \E t \in Targets : HandleInvalidation(h, t)
       \/ HandleRotation(h)
       \/ \E t \in Targets : \E r \in Offered(t) : HandleUpdate(h, t, r)
       \/ HandleSuccess(h)
       \/ Broadcast(h)
  \/ Subscribe
  \/ ReadBaseline
  \/ Receive
  \/ Resync

(* A handler that has taken its copy sends it, and an open SSE connection  *)
(* keeps polling its stream: both are runnable tasks of the async runtime. *)
StreamFairness ==
  /\ \A h \in Handlers : WF_streamVars(Broadcast(h))
  /\ WF_streamVars(Receive)
  /\ WF_streamVars(Resync)

StreamSpec == StreamInit /\ [][StreamNext]_streamVars /\ StreamFairness

-----------------------------------------------------------------------------
Settled ==
  /\ consumer.phase = "streaming" /\ ~ consumer.lagged /\ consumer.unread = << >>
  /\ \A h \in Handlers : sending[h] = NotSending

(* Every announced change arrives: once nothing is in flight, the consumer *)
(* shows the record of the last announcement, or one no older that it read *)
(* from the state since, however sends interleave and however it lags.     *)
Older(r, s) == r.inc < s.inc \/ (r.inc = s.inc /\ r.epoch < s.epoch)
NothingAnnouncedIsLost ==
  Settled => /\ consumer.lastSeq = eventSeq
             /\ IF consumer.readFromState
                  THEN ~ Older(consumer.shown, announced[consumer.target])
                  ELSE consumer.shown = announced[consumer.target]

(* What the consumer shows never goes back in time, although broadcasts    *)
(* may be sent out of order (the last_sequence filter).                    *)
StreamNeverRewinds ==
  [][consumer.phase = "streaming" => /\ consumer'.lastSeq >= consumer.lastSeq
                                     /\ ~ Older(consumer'.shown, consumer.shown)]_consumer

(* A connected consumer gets every announcement or a later one.            *)
AnnouncementsArrive ==
  \A n \in 1..MaxEvents :
    (consumer.phase = "streaming" /\ eventSeq = n) ~> consumer.lastSeq >= n

(* The consumer ends up with what GET /readiness answers.                  *)
StreamMatchesQuery == Settled => consumer.shown = readiness.rec[consumer.target]
=============================================================================
