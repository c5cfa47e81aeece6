------------------------------- MODULE Relay -------------------------------
(***************************************************************************)
(* One pseudo-terminal session: the relay processes that own a provider    *)
(* (pty_relay.py), and the driver that creates, uses and terminates the    *)
(* session from any Ariadex process (terminal.py, PtyDriver).  The two     *)
(* meet in a record file, which names a relay by process identity, and a   *)
(* socket path, which belongs to whoever bound it last.  Relays are        *)
(* numbered in the order they are spawned; the log file, key names and     *)
(* message bounds are left out.                                            *)
(***************************************************************************)
EXTENDS Naturals, FiniteSets

CONSTANTS Drivers,     \* Ariadex processes that use the session
          MaxRelays,   \* bound: relays ever spawned
          SerialUse    \* TRUE: one driver call at a time; see ClientDies

ASSUME RelayAssumption == MaxRelays \in Nat \ {0} /\ SerialUse \in BOOLEAN

VARIABLES relay,       \* [relay -> [pc, child, term]]
          socket,      \* the relay whose socket is at the path, 0 for none
          ptyRecord,   \* the relay the record file names, 0 for none
          client       \* [client -> [op, pc, seen]]

relayVars == <<relay, socket, ptyRecord, client>>

Relays == 1 .. MaxRelays
Idle == [op |-> "none", pc |-> "idle", seen |-> 0]

RelayInit ==
  /\ relay = [r \in Relays |-> [pc |-> "none", child |-> "none", term |-> FALSE]]
  /\ socket = 0 /\ ptyRecord = 0
  /\ client = [c \in Drivers |-> Idle]

Runs(r) == r # 0 /\ relay[r].pc \notin {"none", "gone"}

\* The recorded pid exists and was created when the record says: a pid that
\* went to another process is no relay.
IdentityOk(r) == Runs(r)

Answers(r) == r # 0 /\ relay[r].pc = "serving" /\ ~relay[r].term

----------------------------------------------------------------------------
(* The relay process.                                                       *)

\* Whatever is at the path is unlinked; then the new socket is bound.
BindsSocket(r) ==
  /\ relay[r].pc = "starting"
  /\ relay' = [relay EXCEPT ![r].pc = "bound"]
  /\ socket' = r
  /\ UNCHANGED <<ptyRecord, client>>

\* The provider is forked, then the signal handlers are installed.
Forks(r) ==
  /\ relay[r].pc = "bound"
  /\ relay' = [relay EXCEPT ![r].pc = "forked", ![r].child = "alive"]
  /\ UNCHANGED <<socket, ptyRecord, client>>

Handles(r) ==
  /\ relay[r].pc = "forked"
  /\ relay' = [relay EXCEPT ![r].pc = "serving"]
  /\ UNCHANGED <<socket, ptyRecord, client>>

\* serve() ends: a signal or a kill request, or the provider has been gone
\* for EXIT_GRACE_S.
ChildGone(r) == relay[r].child = "dead"

ServeEnds(r) ==
  /\ relay[r].pc = "serving"
  /\ relay[r].term \/ ChildGone(r)
  /\ relay' = [relay EXCEPT ![r].pc = "reaping"]
  /\ UNCHANGED <<socket, ptyRecord, client>>

\* SIGTERM, two seconds, SIGKILL: the provider does not outlive its relay.
Reaps(r) ==
  /\ relay[r].pc = "reaping"
  /\ relay' = [relay EXCEPT ![r].pc = "closing", ![r].child = "dead"]
  /\ UNCHANGED <<socket, ptyRecord, client>>

\* The path is unlinked whoever's socket is there by now.
Closes(r) ==
  /\ relay[r].pc = "closing"
  /\ relay' = [relay EXCEPT ![r].pc = "gone"]
  /\ socket' = 0
  /\ UNCHANGED <<ptyRecord, client>>

----------------------------------------------------------------------------
(* The driver.  Each call is a chain of steps of one client.               *)

Goes(c, label) == client' = [client EXCEPT ![c].pc = label]
Returns(c) == client' = [client EXCEPT ![c] = Idle]

\* Only a relay that has not yet bound its socket is ended.
Terminated_EarlyOnly(rel, r) ==
  IF rel[r].pc \in {"starting", "bound"}
    THEN [rel EXCEPT ![r].pc = "gone", ![r].child = IF @ = "none" THEN @ ELSE "dead"]
    ELSE rel

\* SIGTERM before the handlers are in place ends the relay at once; its
\* terminal hangs up and the provider with it.
Terminated(rel, r) ==
  IF rel[r].pc \in {"starting", "bound", "forked"}
    THEN [rel EXCEPT ![r].pc = "gone", ![r].child = IF @ = "none" THEN @ ELSE "dead"]
    ELSE [rel EXCEPT ![r].term = TRUE]

\* _drop_record: the relay of the record is signalled if it is still the same
\* process; socket and record are unlinked whoever they belong to.
Drops(r) ==
  /\ relay' = IF IdentityOk(r) THEN Terminated(relay, r) ELSE relay
  /\ socket' = 0 /\ ptyRecord' = 0

Calls(c, op) ==
  /\ client[c].pc = "idle"
  /\ SerialUse => \A d \in Drivers : client[d].pc = "idle"
  /\ client' = [client EXCEPT ![c] = [op |-> op, pc |-> "look", seen |-> 0]]
  /\ UNCHANGED <<relay, socket, ptyRecord>>

\* session_alive reads the record.  Without one the session does not exist.
Looks(c) ==
  /\ client[c].pc = "look"
  /\ client' =
       IF ptyRecord = 0
         THEN IF client[c].op = "create" THEN [client EXCEPT ![c].pc = "drop"]
                                         ELSE [client EXCEPT ![c] = Idle]
         ELSE [client EXCEPT ![c].seen = ptyRecord,
                             ![c].pc = IF client[c].op = "terminate" THEN "kill" ELSE "ping"]
  /\ UNCHANGED <<relay, socket, ptyRecord>>

\* A living session: connected, or ready to be given input.
Found(c) == IF client[c].op = "create" THEN Returns(c) ELSE Goes(c, "request")
Missing(c) == IF client[c].op = "create" THEN Goes(c, "drop") ELSE Returns(c)

PingAnswered(c) ==
  /\ client[c].pc = "ping"
  /\ Answers(socket)
  /\ IF relay[socket].child = "alive" THEN Found(c) ELSE Missing(c)
  /\ UNCHANGED <<relay, socket, ptyRecord>>

\* Nobody answers.  The identity of the recorded process decides whether the
\* session counts as gone or as alive but unreachable.
PingFails(c) ==
  /\ client[c].pc = "ping"
  /\ ~Answers(socket)
  /\ IF IdentityOk(client[c].seen)
       THEN Found(c) /\ UNCHANGED <<relay, socket, ptyRecord>>
       ELSE Missing(c) /\ Drops(client[c].seen)

\* create_or_connect drops the record it now reads, then spawns.
DropsOld(c) ==
  /\ client[c].pc = "drop"
  /\ Drops(ptyRecord) /\ Goes(c, "spawn")

Spawns(c) ==
  /\ client[c].pc = "spawn"
  /\ \E r \in Relays :
       /\ relay[r].pc = "none" /\ \A q \in 1 .. (r - 1) : relay[q].pc # "none"
       /\ relay' = [relay EXCEPT ![r].pc = "starting"]
       /\ client' = [client EXCEPT ![c].pc = "await", ![c].seen = r]
  /\ UNCHANGED <<socket, ptyRecord>>

\* A ping on the path succeeds, whoever answers it.
Ready(c) ==
  /\ client[c].pc = "await"
  /\ IdentityOk(client[c].seen) /\ Answers(socket)
  /\ Goes(c, "write")
  /\ UNCHANGED <<relay, socket, ptyRecord>>

\* A relay that never became ready is left running.
NeverReady_Leaves(c) ==
  /\ client[c].pc = "await"
  /\ Returns(c)
  /\ UNCHANGED <<relay, socket, ptyRecord>>

\* The relay has ended, or the ten seconds are over: it is terminated.
NeverReady(c) ==
  /\ client[c].pc = "await"
  /\ relay' = IF Runs(client[c].seen) THEN Terminated(relay, client[c].seen) ELSE relay
  /\ Returns(c)
  /\ UNCHANGED <<socket, ptyRecord>>

WritesPtyRecord(c) ==
  /\ client[c].pc = "write"
  /\ ptyRecord' = client[c].seen
  /\ Returns(c)
  /\ UNCHANGED <<relay, socket>>

\* send_input: one request, text and Enter in one write.
Delivers(c) ==
  /\ client[c].pc = "request"
  /\ Answers(socket)
  /\ Returns(c)
  /\ UNCHANGED <<relay, socket, ptyRecord>>

DeliveryFails(c) ==
  /\ client[c].pc = "request"
  /\ ~Answers(socket)
  /\ IF ptyRecord = 0 \/ IdentityOk(ptyRecord) THEN UNCHANGED <<relay, socket, ptyRecord>>
                                         ELSE Drops(ptyRecord)
  /\ Returns(c)

\* terminate: ask for the kill if anyone answers; then drop the record read at
\* the start.
Kills(c) ==
  /\ client[c].pc = "kill"
  /\ relay' = IF Answers(socket) THEN [relay EXCEPT ![socket].term = TRUE] ELSE relay
  /\ Goes(c, "forget")
  /\ UNCHANGED <<socket, ptyRecord>>

DropsSeen(c) ==
  /\ client[c].pc = "forget"
  /\ Drops(client[c].seen)
  /\ Returns(c)

----------------------------------------------------------------------------
(* What happens outside.                                                    *)

ProviderEnds(r) ==
  /\ relay[r].child = "alive"
  /\ relay' = [relay EXCEPT ![r].child = "dead"]
  /\ UNCHANGED <<socket, ptyRecord, client>>

\* A relay is killed; its socket stays and its terminal hangs up.
RelayDies(r) ==
  /\ Runs(r)
  /\ relay' = [relay EXCEPT ![r].pc = "gone", ![r].child = IF @ = "none" THEN @ ELSE "dead"]
  /\ UNCHANGED <<socket, ptyRecord, client>>

\* Under SerialUse a client is not killed between the spawn and the record: a
\* relay that was never recorded is found by nobody.
ClientDies(c) ==
  /\ client[c].pc # "idle"
  /\ SerialUse => client[c].pc \notin {"await", "write"}
  /\ Returns(c)
  /\ UNCHANGED <<relay, socket, ptyRecord>>

----------------------------------------------------------------------------

RelaySteps(r) == BindsSocket(r) \/ Forks(r) \/ Handles(r) \/ ServeEnds(r) \/ Reaps(r) \/ Closes(r)

DriverSteps(c) ==
  \/ \E op \in {"create", "send", "terminate"} : Calls(c, op)
  \/ Looks(c) \/ PingAnswered(c) \/ PingFails(c)
  \/ DropsOld(c) \/ Spawns(c) \/ Ready(c) \/ NeverReady(c) \/ WritesPtyRecord(c)
  \/ Delivers(c) \/ DeliveryFails(c) \/ Kills(c) \/ DropsSeen(c) \/ ClientDies(c)

RelayNext ==
  \/ \E c \in Drivers : DriverSteps(c)
  \/ \E r \in Relays : RelaySteps(r) \/ ProviderEnds(r) \/ RelayDies(r)

RelaySpec == RelayInit /\ [][RelayNext]_relayVars

----------------------------------------------------------------------------

\* A provider that nobody has told to end.
Kept(r) == relay[r].child = "alive" /\ relay[r].pc # "reaping" /\ ~relay[r].term

\* One session has one provider: a new relay is spawned only after the old
\* one ended or was told to (portable-terminal-transport, "instead of spawning
\* a duplicate").  Between a session's calls no second provider works on the
\* project's files.
NoDuplicateProvider == Cardinality({r \in Relays : Kept(r)}) <= 1

\* Input goes to the relay the record names, whatever older relays that gave
\* up, were dropped or never answered still do to the path.
InputReachesRecordedRelay ==
  [][(\E c \in Drivers : Delivers(c)) => socket = ptyRecord]_relayVars
=============================================================================
