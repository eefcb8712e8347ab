---------------------------- MODULE SnapshotClient ----------------------------
(***************************************************************************)
(* How the Studio plugin follows the snapshots of the server               *)
(* (assets/plugin_src/00_main.lua): full snapshots on request, GET         *)
(* /diff?since=<hash> while it polls, and the events of GET /ws while its  *)
(* socket is connected, when it does not poll.  A request is two or three  *)
(* steps, so that messages arrive and snapshots are installed while it is  *)
(* under way.  What has been sent and not yet received on the socket is    *)
(* what the handler of the connection has still to forward from `sent`.    *)
(***************************************************************************)
EXTENDS SnapshotStore

CONSTANT
  Capacity       (* events the broadcast channel keeps for a slow receiver    *)

ASSUME ClientAssumption == Capacity \in Nat \ {0}

VARIABLES
  client,        (* lastHash, resyncRequested, the request under way, the     *)
                 (* fingerprint it started from and the answer to it          *)
  socket         (* the connection: its phase, the fingerprint it greeted     *)
                 (* with and how much of `sent` it has been through           *)

clientVars == <<storeVars, client, socket>>

Unknown == [content |-> "unknown", ignored |-> FALSE]      (* lastHash is nil *)

ClientInit ==
  /\ StoreInit
  /\ client = [hash |-> Unknown, resync |-> TRUE, request |-> "none",
               base |-> Unknown, answer |-> Unknown]
  /\ socket = [phase |-> "closed", greeting |-> Unknown, read |-> 0]

-----------------------------------------------------------------------------
(* tickSyncManager runs one request at a time.                             *)
Ticking == client.request = "none"
Connected == socket.phase \in {"welcomed", "open"}

(* syncFromSnapshot: the server answers with `current` ...                 *)
AskSnapshot ==
  /\ Ticking /\ (client.resync \/ client.hash = Unknown)
  /\ client' = [client EXCEPT !.request = "snapshot", !.answer = current]
  /\ UNCHANGED <<storeVars, socket>>

(* ... and the answer is taken over, whatever arrived in between.          *)
TakeSnapshot ==
  /\ client.request = "snapshot"
  /\ client' = [hash |-> client.answer, resync |-> FALSE, request |-> "none",
                base |-> Unknown, answer |-> Unknown]
  /\ UNCHANGED <<storeVars, socket>>

(* pollDiff and diff_since_fingerprint: the base is looked up in history,  *)
(* and an unknown one (404) makes the plugin ask for a snapshot.           *)
AskDiffOnly ==
  /\ Ticking /\ ~ client.resync /\ client.hash # Unknown /\ ~ Connected
  /\ Free("history") /\ client.hash \in history
  /\ client' = [client EXCEPT !.request = "diff", !.base = client.hash]
  /\ UNCHANGED <<storeVars, socket>>
AskDiff ==
  /\ Ticking /\ ~ client.resync /\ client.hash # Unknown /\ ~ Connected
  /\ Free("history")
  /\ client' = IF client.hash \in history
                 THEN [client EXCEPT !.request = "diff", !.base = client.hash]
                 ELSE [client EXCEPT !.resync = TRUE]
  /\ UNCHANGED <<storeVars, socket>>

(* ... then `current` is read under its own mutex ...                      *)
AnswerDiff ==
  /\ client.request = "diff"
  /\ client' = [client EXCEPT !.request = "diffed", !.answer = current]
  /\ UNCHANGED <<storeVars, socket>>

(* ... and the plugin moves on to the fingerprint the diff leads to, if it *)
(* leads away from the base.                                               *)
TakeDiff ==
  /\ client.request = "diffed"
  /\ client' = [client EXCEPT !.hash = IF client.answer = client.base THEN @ ELSE client.answer,
                              !.request = "none", !.base = Unknown, !.answer = Unknown]
  /\ UNCHANGED <<storeVars, socket>>

(* A request that fails is given up; the next tick asks again.             *)
LoseRequest ==
  /\ ~ Ticking
  /\ client' = [client EXCEPT !.request = "none", !.base = Unknown, !.answer = Unknown]
  /\ UNCHANGED <<storeVars, socket>>

-----------------------------------------------------------------------------
(* handle_ws_connection reads the fingerprint and greets ...               *)
Connect ==
  /\ socket.phase = "closed" /\ Ticking /\ ~ client.resync /\ client.hash # Unknown
  /\ socket' = [socket EXCEPT !.phase = "greeting", !.greeting = current]
  /\ UNCHANGED <<storeVars, client>>

(* ... the plugin compares the greeting with lastHash ...                  *)
Welcome ==
  /\ socket.phase = "greeting"
  /\ socket' = [socket EXCEPT !.phase = "welcomed"]
  /\ client' = IF client.hash # socket.greeting THEN [client EXCEPT !.resync = TRUE] ELSE client
  /\ UNCHANGED storeVars

(* ... and only after the greeting does the server subscribe.              *)
SubscribeSocket ==
  /\ socket.phase = "welcomed"
  /\ socket' = [socket EXCEPT !.phase = "open", !.read = Len(sent)]
  /\ UNCHANGED <<storeVars, client>>

(* The next event, or `lagged` when the channel no longer holds it.        *)
Forward ==
  /\ socket.phase = "open" /\ socket.read < Len(sent)
  /\ IF Len(sent) - socket.read > Capacity
       THEN /\ client' = [client EXCEPT !.resync = TRUE]
            /\ socket' = [socket EXCEPT !.read = Len(sent) - Capacity]
       ELSE /\ client' = [client EXCEPT !.hash = sent[socket.read + 1].hash]
            /\ socket' = [socket EXCEPT !.read = socket.read + 1]
  /\ UNCHANGED storeVars

(* Missed pongs, a failed send, a closed or broken connection.             *)
Disconnect ==
  /\ socket.phase # "closed"
  /\ socket' = [phase |-> "closed", greeting |-> Unknown, read |-> 0]
  /\ UNCHANGED <<storeVars, client>>

-----------------------------------------------------------------------------
Request == AskSnapshot \/ TakeSnapshot \/ AskDiff \/ AnswerDiff \/ TakeDiff

ClientNext ==
  \/ StoreNext /\ UNCHANGED <<client, socket>>
  \/ Request
  \/ LoseRequest
  \/ Connect
  \/ Welcome
  \/ SubscribeSocket
  \/ Forward
  \/ Disconnect

(* The plugin ticks for ever, and requests do not fail for ever.  Nothing  *)
(* is assumed of the socket.                                               *)
ClientFairness ==
  /\ StoreFairness
  /\ WF_clientVars(Request)
  /\ SF_clientVars(TakeSnapshot) /\ SF_clientVars(AnswerDiff) /\ SF_clientVars(TakeDiff)

ClientSpec == ClientInit /\ [][ClientNext]_clientVars /\ ClientFairness

-----------------------------------------------------------------------------
(* Whatever a socket missed or delivered late, a plugin that has fallen    *)
(* back to polling for good ends up with the tree as the server serves it, *)
(* through evicted bases, failed requests and snapshots it asked for too   *)
(* early, and it stops asking for full snapshots, where the poller alone   *)
(* installs snapshots.                                                     *)
PollingCatchesUp ==
  <>[](socket.phase = "closed") =>
    <>[](client.hash = Build("poller", disk) /\ ~ client.resync)

(* A full snapshot makes good for a base the history does not contain:     *)
(* "normal recovery behavior ... No action needed"                         *)
(* (docs/troubleshooting.md:121), so that once the tree is left alone the  *)
(* plugin does not ask for full snapshots for ever (pollDiff against       *)
(* diff_since_fingerprint).                                                *)
ResyncRecovers == <>[](socket.phase = "closed") => <>[](~ client.resync)

(* File changes are delivered: when the tree has been served, every event  *)
(* has been received and no request is under way, a connected plugin has   *)
(* the snapshot the server has.                                            *)
AllQuiet ==
  /\ \A p \in Tasks : task[p] = Idle
  /\ current = Build("poller", disk)
  /\ socket.phase = "open" /\ socket.read = Len(sent)
  /\ Ticking /\ ~ client.resync
SocketDelivers == AllQuiet => client.hash = current
=============================================================================
