----------------------------- MODULE MCProgress -----------------------------
(***************************************************************************)
(* The components with properties of progress, model-checked side by side. *)
(*                                                                         *)
(* focus names the component that takes steps; the others stay in an       *)
(* initial state, so that every behaviour is one of a single component.    *)
(***************************************************************************)
EXTENDS
    CliDialing, CliNode, RelayCustody, EventLoop, Reconnect, RelayBootstrap,
    SwarmDelivery, TLC

VARIABLE focus

(* The second address is the first one's host on a well-known port.        *)
MCFallbackOf == [a \in DialAddrs |-> IF a = "a" THEN {"b"} ELSE {}]

MCCliPeers == {"alice"}
MCCliMessages == {1, 2}
MCCliRecipient == [m \in CliMessages |-> "alice"]

MCIdentityOfKey == [k \in Keys |-> CHOOSE i \in Identities : TRUE]

MCRelayBackoff == [n \in 0..2 |-> n + 1]

MCBootstrapNodes == << <<<<"dns4", "h">>, <<"tcp", 443>>, <<"wss", "/">>>>, <<<<"ip4", "i">>, <<"tcp", 9001>>>> >>

MCKinds == [c \in Calls |-> {"send", "register", "reflect", "query", "endpoint", "ranking", "post", "shutdown"}]

ProgressInit ==
    /\ focus \in {"dial", "cli", "custody", "loop", "reconnect", "bootstrap",
                   "delivery"}
    /\ DialInit
    /\ CliInit /\ (focus = "cli" \/ \A m \in CliMessages : cliFate[m] = "unsent")
    /\ Init
    /\ LoopInit
    /\ ReconnectInit /\ (focus = "reconnect" \/ up = {})
    /\ BootstrapInit
    /\ DeliveryInit /\ (focus = "delivery" \/ kindOf = [c \in Calls |-> "send"])
    /\ PaceInit

(* What a step of the component f leaves alone. *)
OthersIdle(f) ==
    /\ UNCHANGED focus
    /\ f # "dial" => UNCHANGED dialVars
    /\ f # "cli" => UNCHANGED cliVars
    /\ f # "custody" => UNCHANGED vars
    /\ f # "loop" => UNCHANGED loopVars
    /\ f # "reconnect" => UNCHANGED reconnectVars
    /\ f # "bootstrap" => UNCHANGED bootVars
    /\ f # "delivery" => UNCHANGED deliveryVars
    /\ UNCHANGED paceVars

ProgressNext ==
    \/ focus = "dial" /\ DialNext /\ OthersIdle("dial")
    \/ focus = "cli" /\ CliNext /\ OthersIdle("cli")
    \/ focus = "custody" /\ Next /\ OthersIdle("custody")
    \/ focus = "loop" /\ LoopNext /\ OthersIdle("loop")
    \/ focus = "reconnect" /\ ReconnectNext /\ OthersIdle("reconnect")
    \/ focus = "bootstrap" /\ BootstrapNext /\ OthersIdle("bootstrap")
    \/ focus = "delivery" /\ DeliveryNext /\ OthersIdle("delivery")

ProgressVars ==
    <<focus, dialVars, cliVars, vars, loopVars, reconnectVars, bootVars,
      deliveryVars>>

ProgressSpec ==
    /\ ProgressInit /\ [][ProgressNext]_ProgressVars
    /\ WF_dialVars(focus = "dial" /\ TimePasses) /\ WF_dialVars(focus = "dial" /\ Redial)
    /\ WF_dialVars(focus = "dial" /\ RefreshAddresses) /\ WF_dialVars(focus = "dial" /\ (\E a \in DialAddrs : DialPlanned(a)))
    /\ WF_cliVars(focus = "cli" /\ StartDaemon) /\ WF_cliVars(focus = "cli" /\ LoopStep)
    /\ \A p \in CliPeers : /\ SF_cliVars(focus = "cli" /\ PeerLinks(p)) /\ SF_cliVars(focus = "cli" /\ PeerUnlinks(p))
                            /\ SF_cliVars(focus = "cli" /\ (Reachable(p) /\ p \notin knownPeers /\ OnPeerDiscovered(p)))
    /\ \A m \in CliMessages : SF_cliVars(focus = "cli" /\ FlushSent(m))
    /\ WF_vars(focus = "custody" /\ CustodyPullTick)
    /\ \A d \in Destinations : WF_vars(focus = "custody" /\ (d \notin connected /\ ConnectionEstablished(d)))
    /\ WF_vars(focus = "custody" /\ (\E p \in wire : RecipientReceives(p)))
    /\ WF_vars(focus = "custody" /\ (\E a \in acks : RecipientAck(a) \/ RecipientRejected(a)))
    /\ WF_loopVars(focus = "loop" /\ SendEvent)
    /\ WF_loopVars(focus = "loop" /\ TakeCommand)
    /\ \A c \in Callers : WF_loopVars(focus = "loop" /\ (RemoteAnswer(c) \/ RequestFails(c)))
    /\ WF_loopVars(focus = "loop" /\ AppStep)
    /\ SF_loopVars(focus = "loop" /\ GetsCore)
    /\ WF_loopVars(focus = "loop" /\ UserUnlocks)
    /\ \A u \in LoopUsers : WF_loopVars(focus = "loop" /\ UserReply(u))
    /\ WF_reconnectVars(focus = "reconnect" /\ RelayReconnectTick({}))
    /\ WF_reconnectVars(focus = "reconnect" /\ BootstrapReconnectTick({}))
    /\ WF_reconnectVars(focus = "reconnect" /\ Time)
    /\ \A b \in BootstrapPeers : WF_reconnectVars(focus = "reconnect" /\ ((DialSucceeds(b) \/ DialFails(b))))
    /\ WF_bootVars(focus = "bootstrap" /\ BootstrapStep)
    /\ \A c \in Calls : WF_deliveryVars(focus = "delivery" /\ Serve(c))
    /\ \A c \in Calls : WF_deliveryVars(focus = "delivery" /\ RegistrationFailure(c))
    /\ WF_deliveryVars(focus = "delivery" /\ (\E r \in inFlight : Resolve(r)))
    /\ \A id \in MsgIds : WF_deliveryVars(focus = "delivery" /\ (\E due \in SUBSET MsgIds : id \in due /\ RetryTick(due)))

(* One component alone.                                                    *)
CliAlone == focus = "cli" /\ ProgressSpec
ReconnectAlone == focus = "reconnect" /\ ProgressSpec
=============================================================================
