------------------------------ MODULE EventLoop ------------------------------
(***************************************************************************)
(* The two loops of a node.  The swarm task reports what happens on the    *)
(* network through a bounded channel, and waits when the channel is full.  *)
(* The application task handles the events one at a time; some handlers    *)
(* send the swarm a command and wait for its reply, and those of the       *)
(* mobile service hold the mutex around the core.  Threads of the user     *)
(* interface send commands too, each with a reply channel of its own.  The *)
(* reply comes when the remote peer has answered or the request has        *)
(* failed.                                                                 *)
(***************************************************************************)
EXTENDS Integers, SequencesExt

CONSTANTS
    EVENT_CAPACITY,     \* 100 in the mobile service, 256 in the CLI
    EventKinds,         \* the events the network produces
    AwaitingKinds,      \* those whose handler waits for a reply of the swarm
    LockingKinds,       \* those whose handler holds the core mutex
    ReenteringKinds,    \* those that lock it again, through the delegate
    LoopUsers,          \* threads of the user interface
    MaxEvents,          \* bound on the events
    MaxUserCommands     \* bound on the commands of the user interface

VARIABLES
    channel,      \* events sent and not yet received
    swarmTask,    \* "select", or the event the task is sending
    loopCommands,     \* the callers whose commands the swarm has not yet taken
    remote,       \* the callers whose requests are with a remote peer
    replied,      \* the callers whose reply channel holds the reply
    appTask,      \* where the application task is
    coreMutex,    \* who holds the core: "free", "app" or "ui"
    produced, handled, userCommands

loopVars == <<channel, swarmTask, loopCommands, remote, replied, appTask, coreMutex,
              produced, handled, userCommands>>
requestVars == <<loopCommands, remote, replied>>

Receiving == [at |-> "recv"]
Selecting == [at |-> "select"]

LoopInit ==
    /\ channel = <<>>
    /\ swarmTask = Selecting
    /\ loopCommands = <<>> /\ remote = {} /\ replied = {}
    /\ appTask = Receiving
    /\ coreMutex = "free"
    /\ produced = 0 /\ handled = 0 /\ userCommands = 0

AwaitsReply(c) == c \in ToSet(loopCommands) \cup remote \cup replied

-----------------------------------------------------------------------------
(* The swarm task.                                                           *)
NetworkEvent(e) ==
    /\ swarmTask = Selecting
    /\ produced < MaxEvents
    /\ produced' = produced + 1
    /\ swarmTask' = [at |-> "send", event |-> e]
    /\ UNCHANGED <<channel, requestVars, appTask, coreMutex, handled, userCommands>>

(* event_tx.send(..).await: nothing else is polled until there is room.      *)
SendEvent ==
    /\ swarmTask.at = "send"
    /\ Len(channel) < EVENT_CAPACITY
    /\ channel' = Append(channel, swarmTask.event)
    /\ swarmTask' = Selecting
    /\ UNCHANGED <<requestVars, appTask, coreMutex, produced, handled, userCommands>>

TakeCommand ==
    /\ swarmTask = Selecting
    /\ loopCommands # <<>>
    /\ loopCommands' = Tail(loopCommands)
    /\ remote' = remote \cup {Head(loopCommands)}
    /\ UNCHANGED <<replied, channel, swarmTask, appTask, coreMutex, produced, handled, userCommands>>

(* The answer of the remote peer is polled and passed on.                    *)
RemoteAnswer(c) ==
    /\ swarmTask = Selecting
    /\ c \in remote
    /\ remote' = remote \ {c}
    /\ replied' = replied \cup {c}
    /\ UNCHANGED <<loopCommands, channel, swarmTask, appTask, coreMutex, produced, handled, userCommands>>

(* Mutant: the reply of a request that failed stays in the table.            *)
RequestFailsUnreported(c) ==
    /\ swarmTask = Selecting
    /\ c \in remote
    /\ remote' = remote \ {c}
    /\ UNCHANGED <<loopCommands, replied, channel, swarmTask, appTask, coreMutex, produced, handled, userCommands>>

(* So is the failure of the request, which libp2p reports after a while.     *)
RequestFails(c) ==
    /\ swarmTask = Selecting
    /\ c \in remote
    /\ remote' = remote \ {c}
    /\ replied' = replied \cup {c}
    /\ UNCHANGED <<loopCommands, channel, swarmTask, appTask, coreMutex, produced, handled, userCommands>>

-----------------------------------------------------------------------------
(* The application task: receive, build the registration and wait for its    *)
(* reply where the handler asks for one, lock the core where it needs it, be *)
(* done.                                                                     *)
ReceiveEvent ==
    /\ appTask = Receiving
    /\ channel # <<>>
    /\ channel' = Tail(channel)
    /\ appTask' = [at |-> IF Head(channel) \in AwaitingKinds THEN "build"
                          ELSE IF Head(channel) \in LockingKinds THEN "lock" ELSE "done",
                   event |-> Head(channel)]
    /\ UNCHANGED <<swarmTask, requestVars, coreMutex, produced, handled, userCommands>>

AfterReply == IF appTask.event \in LockingKinds THEN "lock" ELSE "done"

(* The core is locked for as long as the request is built; a headless node   *)
(* and a core without identity have none to send.                            *)
BuildRequest(built) ==
    /\ appTask.at = "build"
    /\ coreMutex = "free"
    /\ appTask' = [appTask EXCEPT !.at = IF built THEN "ask" ELSE AfterReply]
    /\ UNCHANGED <<channel, swarmTask, requestVars, coreMutex, produced, handled, userCommands>>

(* A fresh reply channel goes with every command.  The command channel holds *)
(* 256, more than there are callers.                                         *)
Ask ==
    /\ appTask.at = "ask"
    /\ loopCommands' = Append(loopCommands, "app")
    /\ appTask' = [appTask EXCEPT !.at = "await"]
    /\ UNCHANGED <<remote, replied, channel, swarmTask, coreMutex, produced, handled, userCommands>>

GetReply ==
    /\ appTask.at = "await"
    /\ "app" \in replied
    /\ replied' = replied \ {"app"}
    /\ appTask' = [appTask EXCEPT !.at = AfterReply]
    /\ UNCHANGED <<loopCommands, remote, channel, swarmTask, coreMutex, produced, handled, userCommands>>

(* The mutex is not reentrant.  notify_peer_disconnected calls the delegate, *)
(* and that the service, which fetches the core, locking it again, to reset  *)
(* the ratchet session of the peer.                                          *)
LockCore ==
    /\ appTask.at \in {"lock", "lock again"}
    /\ coreMutex = "free"
    /\ coreMutex' = "app"
    /\ appTask' = [appTask EXCEPT !.at =
                     IF appTask.event \in ReenteringKinds /\ appTask.at = "lock"
                       THEN "lock again" ELSE "done"]
    /\ UNCHANGED <<channel, swarmTask, requestVars, produced, handled, userCommands>>

HandlerDone ==
    /\ appTask.at = "done"
    /\ coreMutex' = IF coreMutex = "app" THEN "free" ELSE coreMutex
    /\ handled' = handled + 1
    /\ appTask' = Receiving
    /\ UNCHANGED <<channel, swarmTask, requestVars, produced, userCommands>>

-----------------------------------------------------------------------------
(* Other threads fetch the core: get_core, set_relay_budget.                 *)
UserLocks ==
    /\ coreMutex = "free"
    /\ coreMutex' = "ui"
    /\ UNCHANGED <<channel, swarmTask, requestVars, appTask, produced, handled, userCommands>>

UserUnlocks ==
    /\ coreMutex = "ui"
    /\ coreMutex' = "free"
    /\ UNCHANGED <<channel, swarmTask, requestVars, appTask, produced, handled, userCommands>>

(* SwarmBridge::send_message and its like clone the handle and block.        *)
UserCommand(u) ==
    /\ ~AwaitsReply(u)
    /\ userCommands < MaxUserCommands
    /\ userCommands' = userCommands + 1
    /\ loopCommands' = Append(loopCommands, u)
    /\ UNCHANGED <<remote, replied, channel, swarmTask, appTask, coreMutex, produced, handled>>

UserReply(u) ==
    /\ u \in replied
    /\ replied' = replied \ {u}
    /\ UNCHANGED <<loopCommands, remote, channel, swarmTask, appTask, coreMutex, produced, handled, userCommands>>

AppStep == ReceiveEvent \/ Ask \/ GetReply \/ HandlerDone
GetsCore == LockCore \/ \E built \in BOOLEAN : BuildRequest(built)
Callers == LoopUsers \cup {"app"}

LoopNext ==
    \/ \E e \in EventKinds : NetworkEvent(e)
    \/ SendEvent \/ TakeCommand
    \/ \E c \in Callers : RemoteAnswer(c) \/ RequestFails(c)
    \/ AppStep \/ GetsCore \/ UserLocks \/ UserUnlocks
    \/ \E u \in LoopUsers : UserCommand(u) \/ UserReply(u)

(* The runtime runs both tasks, and a command or an answer that waits is     *)
(* taken once the events are; libp2p ends every request; the mutex is fair   *)
(* in the long run and its holders release it.                               *)
LoopFairness ==
    /\ WF_loopVars(SendEvent)
    /\ WF_loopVars(TakeCommand)
    /\ \A c \in Callers : WF_loopVars(RemoteAnswer(c) \/ RequestFails(c))
    /\ WF_loopVars(AppStep)
    /\ SF_loopVars(GetsCore)
    /\ WF_loopVars(UserUnlocks)
    /\ \A u \in LoopUsers : WF_loopVars(UserReply(u))

LoopSpec == LoopInit /\ [][LoopNext]_loopVars
LoopLiveSpec == LoopSpec /\ LoopFairness

-----------------------------------------------------------------------------
(* The one state in which the loops wait for each other: the swarm task for  *)
(* room in the channel, the handler for a reply of the swarm task.           *)
LoopsJammed ==
    swarmTask.at = "send" /\ Len(channel) = EVENT_CAPACITY /\ appTask.at = "await" /\ "app" \notin replied

(* Every event the network produces is handled and every command of another  *)
(* thread answered in the end, although handlers wait for the very task that *)
(* feeds them (mobile_bridge.rs, start_swarm): the loops stop only when the  *)
(* channel fills up while a handler waits.                                   *)
LoopsServe ==
    /\ \A n \in 1..MaxEvents : (produced >= n) ~> (handled >= n \/ LoopsJammed)
    /\ \A u \in LoopUsers : AwaitsReply(u) ~> (~AwaitsReply(u) \/ LoopsJammed)

(* "Reset the ratchet session for a peer when they disconnect": once the     *)
(* handler of a disconnection is inside the delegate, it gets to the reset.  *)
SessionResetOnDisconnect ==
    (appTask.at = "lock again") ~> (appTask.at = "done")
=============================================================================
