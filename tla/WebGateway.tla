----------------------------- MODULE WebGateway -----------------------------
(***************************************************************************)
(* The web gateway (src/src/web-gateway.ts) and its channel                *)
(* (src/src/channels/web-channel.ts) on top of the registry: a user who    *)
(* connects is registered as a group, the socket becomes a session and     *)
(* subscribes to the group's events.  The gateway's stop is part of the    *)
(* orchestrator's: the queue is drained first, and the process ends when   *)
(* the server has lost its last connection, those that are not upgraded    *)
(* (yet) included.                                                         *)
(*                                                                         *)
(* Connections that are refused (origin, proxy, token, rate limit) do not  *)
(* appear; the messages of a session are MessageLoop's.                    *)
(***************************************************************************)
EXTENDS GroupRegistry

CONSTANTS
  Sockets,    (* connections a browser may open                            *)
  UserOf,     (* the group web:<user> a connection is authenticated as     *)
  WebFolder,  (* createFolderName of each such group                       *)
  Invalid     (* a folder name isValidGroupFolder refuses: it is too long  *)

ASSUME GatewayAssumption ==
  /\ UserOf \in [Sockets -> Groups]
  /\ Invalid \notin Folders
  /\ WebFolder \in [Range(UserOf) -> Folders \cup {Invalid}]

VARIABLES
  socket,       (* state of each connection: none, accepted (its request   *)
                (* is not complete), open (upgraded), closing              *)
  sessions,     (* WebGateway.sockets                                      *)
  subscribers,  (* WebChannel.subscribers                                  *)
  stopping,     (* how far stop() is: "no", "draining", "closing"          *)
  outside       (* history: connections whose group another process had    *)
                (* changed since the last sync when they were made         *)

webVars == <<socket, sessions, subscribers, stopping, outside>>
allVars == <<regVars, webVars>>

WebInit ==
  /\ RegInit
  /\ socket = [s \in Sockets |-> "none"]
  /\ sessions = {}
  /\ subscribers = {}
  /\ stopping = "no"
  /\ outside = {}

(* ensureRegisteredWebGroup: the registration is asked for in the name of  *)
(* the main group, and fails if that is not a main group any more.         *)
(* Mutant: a group is taken for registered when its folder is.             *)
EnsureRegisteredIfNoFolder(g) ==
  \/ \E h \in DOMAIN Visible : Visible[h].folder = WebFolder[g] /\ UNCHANGED <<table, registeredGroups, foreign, changes>>
  \/ /\ \A h \in DOMAIN Visible : Visible[h].folder # WebFolder[g]
     /\ IsMain(Control) /\ WebFolder[g] # Invalid
     /\ Change /\ Register(g, WebFolder[g], TRUE)
EnsureRegistered(g) ==
  \/ Known(g) /\ UNCHANGED <<table, registeredGroups, foreign, changes>>
  \/ /\ ~Known(g) /\ IsMain(Control) /\ WebFolder[g] # Invalid
     /\ Change /\ Register(g, WebFolder[g], TRUE)

(* The server takes a connection, until it is closed.                      *)
Accept(s) ==
  /\ up /\ stopping # "closing"
  /\ socket[s] = "none"
  /\ socket' = [socket EXCEPT ![s] = "accepted"]
  /\ UNCHANGED <<regVars, sessions, subscribers, stopping, outside>>

(* The upgrade of a connection and handleSocket.  Nothing here looks       *)
(* whether stop() has closed the server meanwhile.                         *)
Connect(s) ==
  /\ up /\ socket[s] = "accepted"
  /\ EnsureRegistered(UserOf[s])
  /\ socket' = [socket EXCEPT ![s] = "open"]
  /\ sessions' = sessions \cup {s}
  /\ subscribers' = subscribers \cup {s}
  /\ outside' = IF UserOf[s] \in foreign THEN outside \cup {s} ELSE outside \ {s}
  /\ UNCHANGED <<up, jobs, stopping>>

(* The connection ends: a request was refused or was no upgrade, the       *)
(* browser went away, answered the gateway's close, or did not within the  *)
(* library's timeout.                                                      *)
SocketCloses(s) ==
  /\ socket[s] # "none"
  /\ socket' = [socket EXCEPT ![s] = "none"]
  /\ sessions' = sessions \ {s}
  /\ subscribers' = subscribers \ {s}
  /\ UNCHANGED <<regVars, stopping, outside>>

(* stop() of the orchestrator; the queue's shutdown follows.               *)
Stop ==
  /\ up /\ stopping = "no"
  /\ stopping' = "draining"
  /\ UNCHANGED <<regVars, socket, sessions, subscribers, outside>>

(* The queue is drained: the gateway closes its sockets.  It forgets them  *)
(* before it unsubscribes those it knows, so the subscriptions go with the *)
(* close events.  Mutant: it forgets them before it closes them.           *)
ClosedAfterClear == socket
ClosedByStop == [s \in Sockets |-> IF s \in sessions THEN "closing" ELSE socket[s]]
GatewayStop ==
  /\ stopping = "draining"
  /\ socket' = ClosedByStop
  /\ sessions' = {}
  /\ stopping' = "closing"
  /\ UNCHANGED <<regVars, subscribers, outside>>

(* The end of the process, by itself when the last connection is gone and  *)
(* the channels are disconnected, or by a crash at any time.               *)
Gone ==
  /\ Down
  /\ socket' = [s \in Sockets |-> "none"]
  /\ sessions' = {}
  /\ subscribers' = {}
  /\ outside' = {}
  /\ stopping' = "no"
Exit == stopping = "closing" /\ (\A s \in Sockets : socket[s] = "none") /\ Gone
Crash == Gone

RegistryMoves ==
  /\ \/ Boot \/ Sync \/ OtherStarts \/ OtherCommand
     \/ \E g \in Groups : MainCommand(g) \/ ToolRequest(g)
  /\ UNCHANGED webVars

WebNext ==
  \/ RegistryMoves \/ Stop \/ GatewayStop \/ Exit \/ Crash
  \/ \E s \in Sockets : Accept(s) \/ Connect(s) \/ SocketCloses(s)
WebSpec == WebInit /\ [][WebNext]_allVars

(* The queue's shutdown completes (see GroupQueue), a socket that was told *)
(* to close does so or is terminated, and stop() goes on.  Browsers may    *)
(* stay connected for ever, with or without a complete request.            *)
WebFairness ==
  /\ WF_allVars(GatewayStop)
  /\ WF_allVars(Exit)
  /\ \A s \in Sockets : WF_allVars(socket[s] = "closing" /\ SocketCloses(s))
WebFairSpec == WebSpec /\ WebFairness
-----------------------------------------------------------------------------

(* While a browser is connected its group is in memory, so its messages    *)
(* are queued and not ignored as those of an unregistered group, whatever  *)
(* registrations do to its row; except when another process had changed    *)
(* the group and no sync had seen that: then the group was found in the    *)
(* table, where the row may be replaced before the memory has it.          *)
SessionIsServed ==
  \A s \in subscribers \ outside : UserOf[s] \in DOMAIN registeredGroups

(* stop() ends, whatever users do who were connected when it closed the    *)
(* sockets, those included who connected while the queue was draining.     *)
(* What can hold it up for good is only a connection the server had taken  *)
(* and not yet upgraded by then, which nobody closes: it stays incomplete, *)
(* or is upgraded and put into the map after the map was cleared.          *)
Unclosed(s) == socket[s] = "accepted" \/ s \in sessions
StopEnds ==
  stopping # "no" ~> ~up \/ [](stopping = "closing" /\ \E s \in Sockets : Unclosed(s))
=============================================================================
