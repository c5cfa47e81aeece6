-------------------------------- MODULE MCHost --------------------------------
(***************************************************************************)
(* Machines of one project on one host: the scheduling lease, the daemon,  *)
(* the pseudo-terminal relays, the OpenCode backend, the user deployment,  *)
(* the dependency graph and the notifications.  A behaviour runs one of    *)
(* them, so that their state spaces add up; the others stay as they began. *)
(***************************************************************************)
EXTENDS Lease, Daemon, Relay, Provider, Deploy, SpecGraph, Alerts

CONSTANTS s1, s2, s3, r1

VARIABLE part

others == <<providerVars, deployVars, graphVars, alertVars>>
hostVars == <<vars, daemonVars, relayVars, others, part>>

Alone(name, A, rest) == part = name /\ A /\ UNCHANGED <<rest, part>>

InLease(A) == Alone("lease", A, <<daemonVars, relayVars, others>>)
InDaemon(A) == Alone("daemon", A, <<vars, relayVars, others>>)
InRelay(A) == Alone("relay", A, <<vars, daemonVars, others>>)

InProvider(A) ==
  Alone("provider", A, <<vars, daemonVars, relayVars, deployVars, graphVars, alertVars>>)
InDeploy(A) ==
  Alone("deploy", A, <<vars, daemonVars, relayVars, providerVars, graphVars, alertVars>>)
InGraph(A) ==
  Alone("graph", A, <<vars, daemonVars, relayVars, providerVars, deployVars, alertVars>>)
InAlerts(A) ==
  Alone("alerts", A, <<vars, daemonVars, relayVars, providerVars, deployVars, graphVars>>)

OneHost == host = [service |-> "systemd", desktop |-> TRUE] /\ tkinter
NothingFound == \A p \in DOMAIN disk : disk[p] = "none"

EmptyGraph ==
  /\ declared = <<>> /\ color = <<>> /\ todo = <<>> /\ stack = <<>>
  /\ completed = {} /\ found = {} /\ stop = "none"

MCInit ==
  /\ part \in {"lease", "daemon", "relay", "provider", "deploy", "graph", "alerts"}
  /\ Init /\ DaemonInit /\ RelayInit /\ ProviderInit /\ DeployInit /\ AlertsInit
  /\ part # "deploy" => OneHost /\ NothingFound
  /\ \/ part = "graph" /\ GraphInit
     \/ part # "graph" /\ EmptyGraph

MCNext ==
  \/ InLease(Next) \/ InDaemon(DaemonNext) \/ InRelay(RelayNext)
  \/ InProvider(ProviderNext) \/ InDeploy(DeployNext) \/ InGraph(GraphNext)
  \/ InAlerts(AlertsNext)

MCFairness ==
  /\ \A p \in Pids : WF_hostVars(InDaemon(Shutdown(p)))
  /\ \A r \in Recoverers : WF_hostVars(InLease(GoesOn(r)))

MCSpec == MCInit /\ [][MCNext]_hostVars /\ MCFairness

DeployOnly == MCInit /\ part = "deploy" /\ [][InDeploy(DeployNext)]_hostVars
=============================================================================
