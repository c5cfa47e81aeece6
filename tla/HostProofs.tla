----------------------------- MODULE HostProofs -----------------------------
(***************************************************************************)
(* Theorems about Provider, Relay, Deploy and Alerts, for any number of    *)
(* backends and relays, of models and of processes that use them, any      *)
(* sequence of interrupted installs, and any limit on notifications.       *)
(***************************************************************************)
EXTENDS Provider, Relay, Deploy, Alerts, FiniteSetTheorems, TLAPS

(* A set without two different elements has at most one.                   *)
LEMMA AtMostOne ==
  ASSUME NEW S, \A a, b \in S : a = b
  PROVE  Cardinality(S) <= 1
<1>1. CASE S = {}
  BY <1>1, FS_EmptySet
<1>2. CASE S # {}
  <2>1. PICK a \in S : TRUE
    BY <1>2
  <2>2. S = {a}
    BY <2>1
  <2>3. QED
    BY <2>2, FS_Singleton
<1>3. QED
  BY <1>1, <1>2

-----------------------------------------------------------------------------
(* Backends.                                                               *)

AdapterCalls ==
  [op : {"none", "start", "terminate", "switch"},
   pc : {"idle", "probe", "decide", "create", "record", "kill", "own"},
   rec : Backends \union {0, Attached, Gone}, found : Backends \union {0}, answers : Backends \union {0, Stranger},
   attach : BOOLEAN]

ProviderTypeOK ==
  /\ backend \in [Backends -> [up : {"none", "alive", "dead"}, model : Models \union {NoModel}]]
  /\ port \in Backends \union {0, Stranger}
  /\ pane \in Backends \union {0, Attached}
  /\ runtime \in Backends \union {0, Attached, Gone}
  /\ override \in Models \union {NoModel}
  /\ call \in AdapterCalls

(* The record names the live backend, but while the call that launched it  *)
(* has yet to write it; and a call knows what the record names.            *)
LiveIsRecorded ==
  /\ call.pc # "record" => \A b \in Backends : BackendAlive(b) => runtime = b
  /\ call.pc \in {"decide", "kill", "own"} =>
       call.rec = runtime \/ (call.rec = Attached /\ runtime = Gone)

(* A launch comes after everything recorded has ended.                     *)
LaunchIsAlone ==
  call.pc = "create" /\ ~call.attach => \A b \in Backends : ~BackendAlive(b)

OneAlive == \A a, b \in Backends : BackendAlive(a) /\ BackendAlive(b) => a = b

(* From the moment a switch has ended what was recorded, all that runs was *)
(* launched with the new model.                                            *)
SwitchedAlone ==
  call.op = "switch" /\ call.pc \notin {"kill", "own"} =>
    \A b \in Backends : BackendAlive(b) => backend[b].model = override

BackendInv == ProviderTypeOK /\ LiveIsRecorded /\ LaunchIsAlone /\ OneAlive /\ SwitchedAlone

LEMMA NoBackend ==
  /\ 0 \notin Backends /\ Stranger \notin Backends /\ Attached \notin Backends /\ Gone \notin Backends
  /\ Attached \notin {0, Stranger, Gone} /\ Gone \notin {0, Stranger}
BY ProviderAssumption DEF Backends, Stranger, Attached, Gone

LEMMA BackendInit == ProviderInit => BackendInv
BY NoBackend DEF ProviderInit, BackendInv, ProviderTypeOK, AdapterCalls, LiveIsRecorded, LaunchIsAlone,
       OneAlive, SwitchedAlone, BackendAlive, NoCall, NoModel

LEMMA NoCallType == NoCall \in AdapterCalls
BY DEF NoCall, AdapterCalls

LEMMA FoundType == FoundProcesses \subseteq Backends \union {0}
BY DEF FoundProcesses, BackendAlive

(* A backend that ends takes nothing else along.                           *)
LEMMA EndedType ==
  ASSUME ProviderTypeOK, NEW b \in Backends, ProcessEnds(b)
  PROVE  /\ backend' = [backend EXCEPT ![b].up = "dead"]
         /\ backend' \in [Backends -> [up : {"none", "alive", "dead"}, model : Models \union {NoModel}]]
         /\ port' \in Backends \union {0, Stranger} /\ pane' \in Backends \union {0, Attached}
         /\ ~BackendAlive(b)'
         /\ \A a \in Backends : a # b => (BackendAlive(a)' <=> BackendAlive(a)) /\ backend'[a] = backend[a]
BY DEF ProviderTypeOK, ProcessEnds, BackendAlive

(* Ending what the call has read as recorded ends all there is.            *)
LEMMA OwnedEnds ==
  ASSUME BackendInv, call.pc \in {"decide", "own"}, call.rec # 0, TerminatesOwned(call.rec)
  PROVE  /\ \A b \in Backends : ~BackendAlive(b)'
         /\ backend' \in [Backends -> [up : {"none", "alive", "dead"}, model : Models \union {NoModel}]]
         /\ port' \in Backends \union {0, Stranger} /\ pane' \in Backends \union {0, Attached}
         /\ runtime' = 0
<1>1. /\ ProviderTypeOK /\ runtime' = 0
      /\ \A b \in Backends : BackendAlive(b) => b = call.rec
  BY NoBackend DEF BackendInv, LiveIsRecorded, TerminatesOwned
<1>2. CASE BackendAlive(call.rec)
  <2>1. ProcessEnds(call.rec) /\ call.rec \in Backends
    BY <1>2 DEF TerminatesOwned, SameProcess, BackendAlive
  <2>2. QED
    BY <1>1, <2>1, EndedType
<1>3. CASE ~BackendAlive(call.rec)
  <2>1. UNCHANGED <<backend, port>> /\ pane' \in {0, pane}
    BY <1>1, <1>3, NoBackend DEF TerminatesOwned, SameProcess, ProcessEnds, ProviderTypeOK
  <2>2. QED
    BY <1>1, <1>3, <2>1 DEF ProviderTypeOK, BackendAlive
<1>4. QED
  BY <1>2, <1>3

LEMMA BackendStep ==
  ASSUME ~LostRecords, BackendInv, [ProviderNext]_providerVars
  PROVE  BackendInv'
<1> USE NoBackend, NoCallType, FoundType
    DEF BackendInv, ProviderTypeOK, LiveIsRecorded, LaunchIsAlone, OneAlive, SwitchedAlone, BackendAlive,
        Finishes, Proceeds
<1>1. CASE Starts
  BY <1>1 DEF Starts, NoCall, AdapterCalls
<1>2. CASE Terminates
  BY <1>2 DEF Terminates, NoCall, AdapterCalls
<1>3. CASE Switches
  BY <1>3 DEF Switches, NoCall, AdapterCalls
<1>4. CASE Probes
  <2>1. PICK f \in FoundProcesses :
          call' = [call EXCEPT !.pc = "decide", !.rec = runtime, !.found = f, !.answers = port]
    BY <1>4 DEF Probes
  <2>2. call' \in AdapterCalls /\ call'.pc = "decide" /\ call'.rec = runtime /\ call'.op = call.op
    BY <2>1 DEF AdapterCalls
  <2>3. call.pc = "probe" /\ UNCHANGED <<backend, port, pane, runtime, override>>
    BY <1>4 DEF Probes
  <2>4. QED
    BY <2>2, <2>3
<1>5. CASE Attaches
  <2>1. call.pc = "decide" /\ UNCHANGED <<backend, port, pane, override>>
    BY <1>5 DEF Attaches
  <2>2. call' = [call EXCEPT !.pc = "create", !.attach = TRUE]
    BY <1>5 DEF Attaches
  <2>3. call' \in AdapterCalls /\ call'.pc = "create" /\ call'.attach /\ call'.op = call.op
    BY <2>2 DEF AdapterCalls
  <2>4. runtime' = runtime \/ (call.rec = 0 /\ runtime' = call.found)
    BY <1>5 DEF Attaches
  <2>5. /\ runtime' \in Backends \union {0, Attached, Gone}
        /\ \A b \in Backends : BackendAlive(b) => runtime' = b
    BY <2>1, <2>4 DEF AdapterCalls
  <2>6. QED
    BY <2>1, <2>3, <2>5
<1>6. CASE Replaces
  <2>1. /\ call.pc = "decide" /\ call.rec # 0 /\ TerminatesOwned(call.rec)
        /\ call' = [call EXCEPT !.pc = "create"] /\ UNCHANGED override
    BY <1>6 DEF Replaces
  <2>2. /\ \A b \in Backends : ~BackendAlive(b)'
        /\ backend' \in [Backends -> [up : {"none", "alive", "dead"}, model : Models \union {NoModel}]]
        /\ port' \in Backends \union {0, Stranger} /\ pane' \in Backends \union {0, Attached}
        /\ runtime' = 0
    <3> HIDE DEF BackendInv, ProviderTypeOK, LiveIsRecorded, LaunchIsAlone, OneAlive, SwitchedAlone, BackendAlive
    <3>1. QED
      BY <2>1, OwnedEnds
  <2>3. call' \in AdapterCalls /\ call'.pc = "create"
    BY <2>1 DEF AdapterCalls
  <2>4. QED
    BY <2>1, <2>2, <2>3
<1>7. CASE Refuses
  BY <1>7 DEF Refuses, NoCall
<1>8. CASE LaunchesFresh
  BY <1>8 DEF LaunchesFresh, AdapterCalls
<1>9. CASE Connects
  <2>1. UNCHANGED <<backend, port, pane, runtime, override>> /\ call.pc = "create"
    BY <1>9 DEF Connects
  <2>2. CASE call.attach /\ call' = NoCall
    BY <2>1, <2>2 DEF NoCall
  <2>3. CASE ~call.attach /\ call' = [call EXCEPT !.pc = "record"]
    BY <2>1, <2>3 DEF AdapterCalls
  <2>4. QED
    BY <1>9, <2>2, <2>3 DEF Connects
<1>10. CASE CreatesAttached
  BY <1>10 DEF CreatesAttached, NoCall
<1>11. CASE Creates
  <2>1. /\ call.pc = "create" /\ ~call.attach /\ call' = [call EXCEPT !.pc = "record"]
        /\ UNCHANGED <<port, runtime, override>>
    BY <1>11 DEF Creates
  <2>2. PICK b \in Backends :
          backend' = [backend EXCEPT ![b] = [up |-> "alive", model |-> override]] /\ pane' = b
    BY <1>11 DEF Creates
  <2>3. \A a \in Backends : BackendAlive(a)' => a = b
    BY <2>1, <2>2
  <2>4. backend'[b].model = override'
    BY <2>1, <2>2
  <2>5. call' \in AdapterCalls /\ call'.pc = "record" /\ call'.op = call.op
    BY <2>1 DEF AdapterCalls
  <2>6. backend' \in [Backends -> [up : {"none", "alive", "dead"}, model : Models \union {NoModel}]]
    BY <2>2
  <2>7. QED
    BY <2>1, <2>2, <2>3, <2>4, <2>5, <2>6
<1>12. CASE CreateFails
  BY <1>12 DEF CreateFails, NoCall
<1>13. CASE RecordsBackend
  BY <1>13 DEF RecordsBackend, FoundProcesses, NoCall
<1>14. CASE KillsSession
  BY <1>14 DEF KillsSession, SessionEnds, AdapterCalls
<1>15. CASE KillFails
  BY <1>15 DEF KillFails, NoCall
<1>16. CASE KillsOwned
  <2>1. call.pc = "own" /\ UNCHANGED override
    BY <1>16 DEF KillsOwned
  <2>2. /\ \A b \in Backends : ~BackendAlive(b)'
        /\ backend' \in [Backends -> [up : {"none", "alive", "dead"}, model : Models \union {NoModel}]]
        /\ port' \in Backends \union {0, Stranger} /\ pane' \in Backends \union {0, Attached}
        /\ runtime' = 0
    <3>1. CASE call.rec = 0
      BY <1>16, <2>1, <3>1 DEF KillsOwned
    <3>2. CASE call.rec # 0
      <4>1. TerminatesOwned(call.rec)
        BY <1>16, <2>1, <3>2 DEF KillsOwned
      <4> HIDE DEF BackendInv, ProviderTypeOK, LiveIsRecorded, LaunchIsAlone, OneAlive, SwitchedAlone, BackendAlive
      <4>2. QED
        BY <2>1, <3>2, <4>1, OwnedEnds
    <3>3. QED
      BY <3>1, <3>2
  <2>3. call' \in AdapterCalls /\ call'.pc \in {"probe", "idle"}
    <3>1. call' = [call EXCEPT !.pc = "probe"] \/ call' = NoCall
      BY <1>16, Zenon DEF KillsOwned, Finishes
    <3>2. call \in AdapterCalls
      OBVIOUS
    <3> HIDE DEF BackendInv, ProviderTypeOK, LiveIsRecorded, LaunchIsAlone, OneAlive, SwitchedAlone, BackendAlive
    <3>3. QED
      BY <3>1, <3>2 DEF NoCall, AdapterCalls
  <2>4. QED
    BY <2>1, <2>2, <2>3
<1>17. CASE \E b \in Backends : Serves(b)
  BY <1>17 DEF Serves
<1>18. ASSUME NEW b \in Backends, BackendDies(b) PROVE BackendInv'
  <2>1. ProcessEnds(b) /\ UNCHANGED <<runtime, override, call>>
    BY <1>18 DEF BackendDies
  <2>2. /\ \A a \in Backends : BackendAlive(a)' => BackendAlive(a) /\ backend'[a] = backend[a]
        /\ backend' \in [Backends -> [up : {"none", "alive", "dead"}, model : Models \union {NoModel}]]
        /\ port' \in Backends \union {0, Stranger} /\ pane' \in Backends \union {0, Attached}
    <3>1. ProviderTypeOK
      OBVIOUS
    <3> HIDE DEF BackendInv, ProviderTypeOK, LiveIsRecorded, LaunchIsAlone, OneAlive, SwitchedAlone, BackendAlive
    <3>2. QED
      BY <2>1, <3>1, EndedType
  <2>3. QED
    BY <2>1, <2>2
<1>19. CASE Hangs \/ StrangerServes \/ TerminalCloses
  BY <1>19 DEF Hangs, StrangerServes, TerminalCloses, SessionEnds
<1>20. CASE CallerDies
  BY <1>20 DEF CallerDies, NoCall, NoModel
<1>21. CASE UNCHANGED providerVars
  BY <1>21 DEF providerVars
<1>22. QED
  BY <1>1, <1>2, <1>3, <1>4, <1>5, <1>6, <1>7, <1>8, <1>9, <1>10, <1>11, <1>12, <1>13, <1>14, <1>15, <1>16,
     <1>17, <1>18, <1>19, <1>20, <1>21, Zenon DEF ProviderNext

LEMMA BackendsAlways == ~LostRecords => (ProviderSpec => []BackendInv)
<1>1. SUFFICES ASSUME ~LostRecords PROVE ProviderSpec => []BackendInv
  OBVIOUS
<1>2. BackendInv /\ [ProviderNext]_providerVars => BackendInv'
  BY <1>1, BackendStep
<1>3. QED
  BY <1>2, BackendInit, PTL DEF ProviderSpec

(* If no caller is killed between a launch and its record, a project has   *)
(* one backend, whatever hangs, closes, dies or takes the port.            *)
THEOREM BackendIsOne == ~LostRecords => (ProviderSpec => []OneBackend)
<1>1. BackendInv => OneBackend
  BY AtMostOne DEF BackendInv, OneAlive, OneBackend
<1>2. QED
  BY <1>1, BackendsAlways, PTL

(* And when a switch returns, what runs was launched with the new model.   *)
THEOREM SwitchIsDone == ~LostRecords => (ProviderSpec => SwitchedModelRuns)
<1>1. BackendInv
        => [(Connects \/ CreatesAttached \/ RecordsBackend) /\ call.op = "switch"
              => \A b \in Backends : BackendAlive(b) => backend[b].model = override]_providerVars
  BY DEF BackendInv, SwitchedAlone, Connects, CreatesAttached, RecordsBackend
<1>2. QED
  BY <1>1, BackendsAlways, PTL DEF SwitchedModelRuns

-----------------------------------------------------------------------------
(* Relays.                                                                 *)

RelayRecords ==
  [pc : {"none", "starting", "bound", "forked", "serving", "reaping", "closing", "gone"},
   child : {"none", "alive", "dead"}, term : BOOLEAN]

DriverCalls ==
  [op : {"none", "create", "send", "terminate"},
   pc : {"idle", "look", "ping", "drop", "spawn", "await", "write", "request", "kill", "forget"},
   seen : Relays \union {0}]

RelayTypeOK ==
  /\ relay \in [Relays -> RelayRecords]
  /\ socket \in Relays \union {0} /\ ptyRecord \in Relays \union {0}
  /\ client \in [Drivers -> DriverCalls]

(* A relay that neither ended nor was told to.                             *)
Unended(r) == relay[r].pc \in {"starting", "bound", "forked", "serving"} /\ ~relay[r].term

(* Providers live inside their relays.                                     *)
ChildInside == \A r \in Relays : relay[r].child = "alive" => relay[r].pc \in {"forked", "serving", "reaping"}

(* One call at a time, and it knows what the record names.                 *)
OneCall ==
  /\ \A c, d \in Drivers : client[c].pc # "idle" /\ client[d].pc # "idle" => c = d
  /\ \A c \in Drivers :
       client[c].pc \in {"ping", "request", "kill", "forget"} => client[c].seen \in {ptyRecord} \/ ptyRecord = 0

(* A relay at work is the recorded one, or that of the call creating it.   *)
WorksForOne ==
  \A r \in Relays : Unended(r) =>
    \/ r = ptyRecord /\ \A c \in Drivers : client[c].pc \notin {"spawn", "await", "write"}
    \/ \E c \in Drivers : client[c].pc \in {"await", "write"} /\ client[c].seen = r

RelayInv == RelayTypeOK /\ ChildInside /\ OneCall /\ WorksForOne

LEMMA NoRelay == 0 \notin Relays
BY RelayAssumption DEF Relays

LEMMA IdleType == Idle \in DriverCalls
BY DEF Idle, DriverCalls

LEMMA RelayInvInit == RelayInit => RelayInv
BY NoRelay DEF RelayInit, RelayInv, RelayTypeOK, RelayRecords, DriverCalls, Idle, ChildInside, OneCall,
   WorksForOne, Unended

(* What the relays and the outside do only takes relays out of work.       *)
LEMMA RelaysStep ==
  ASSUME RelayInv, NEW r \in Relays, RelaySteps(r) \/ ProviderEnds(r) \/ RelayDies(r)
  PROVE  RelayInv'
<1>1. /\ relay' \in [Relays -> RelayRecords] /\ socket' \in Relays \union {0}
      /\ UNCHANGED <<ptyRecord, client>>
      /\ \A q \in Relays : q # r => relay'[q] = relay[q]
  BY DEF RelayInv, RelayTypeOK, RelayRecords, RelaySteps, BindsSocket, Forks, Handles, ServeEnds, Reaps,
         Closes, ProviderEnds, RelayDies
<1>2. Unended(r)' => Unended(r)
  BY DEF RelayInv, RelayTypeOK, RelayRecords, RelaySteps, BindsSocket, Forks, Handles, ServeEnds, Reaps,
         Closes, ProviderEnds, RelayDies, Unended
<1>3. relay'[r].child = "alive" => relay'[r].pc \in {"forked", "serving", "reaping"}
  BY DEF RelayInv, RelayTypeOK, RelayRecords, RelaySteps, BindsSocket, Forks, Handles, ServeEnds, Reaps,
         Closes, ProviderEnds, RelayDies, ChildInside
<1>4. QED
  BY <1>1, <1>2, <1>3 DEF RelayInv, RelayTypeOK, ChildInside, OneCall, WorksForOne, Unended

(* A relay that is terminated is out of work.                              *)
LEMMA TerminatedRelay ==
  ASSUME RelayInv, NEW r \in Relays
  PROVE  LET new == Terminated(relay, r) IN
         /\ new \in [Relays -> RelayRecords]
         /\ \A q \in Relays : q # r => new[q] = relay[q]
         /\ ~(new[r].pc \in {"starting", "bound", "forked", "serving"} /\ ~new[r].term)
         /\ new[r].child = "alive" => new[r].pc \in {"forked", "serving", "reaping"}
BY DEF RelayInv, RelayTypeOK, RelayRecords, ChildInside, Terminated

LEMMA DroppedRelay ==
  ASSUME RelayInv, NEW r \in Relays \union {0}, Drops(r)
  PROVE  /\ relay' \in [Relays -> RelayRecords] /\ socket' = 0 /\ ptyRecord' = 0
         /\ ChildInside'
         /\ \A q \in Relays : Unended(q)' => Unended(q) /\ q # r
<1>1. CASE IdentityOk(r)
  BY <1>1, NoRelay, TerminatedRelay DEF Drops, IdentityOk, Runs, RelayInv, ChildInside, Unended
<1>2. CASE ~IdentityOk(r)
  BY <1>2, NoRelay DEF Drops, IdentityOk, Runs, RelayInv, RelayTypeOK, ChildInside, Unended
<1>3. QED
  BY <1>1, <1>2

(* While one client is in a call, the relays at work are told by its label *)
(* alone.                                                                  *)
LEMMA AtWork ==
  ASSUME RelayInv, NEW c \in Drivers, client[c].pc # "idle", NEW r \in Relays, Unended(r)
  PROVE  IF client[c].pc \in {"await", "write"} THEN r = client[c].seen
         ELSE r = ptyRecord /\ client[c].pc # "spawn"
BY DEF RelayInv, OneCall, WorksForOne

(* How a step of a client keeps the invariant: the type, and what is at    *)
(* work for the label it goes to.                                          *)
LEMMA ClientMoves ==
  ASSUME RelayInv, NEW c \in Drivers, NEW rec \in DriverCalls,
         client' = [client EXCEPT ![c] = rec],
         \A d \in Drivers : d # c => client[d].pc = "idle",
         relay' \in [Relays -> RelayRecords], socket' \in Relays \union {0}, ptyRecord' \in Relays \union {0},
         ChildInside',
         rec.pc \in {"ping", "request", "kill", "forget"} => rec.seen = ptyRecord' \/ ptyRecord' = 0,
         \A r \in Relays : Unended(r)' =>
           IF rec.pc \in {"await", "write"} THEN r = rec.seen ELSE r = ptyRecord' /\ rec.pc # "spawn"
  PROVE  RelayInv'
<1>1. client \in [Drivers -> DriverCalls]
  BY DEF RelayInv, RelayTypeOK
<1>2. client'[c] = rec /\ \A d \in Drivers : d # c => client'[d] = client[d] /\ client'[d].pc = "idle"
  BY <1>1
<1>3. RelayTypeOK'
  BY <1>1 DEF RelayTypeOK
<1>4. OneCall'
  BY <1>2 DEF OneCall
<1>5. WorksForOne'
  BY <1>2 DEF WorksForOne
<1>6. QED
  BY <1>3, <1>4, <1>5 DEF RelayInv

(* A step that leaves relays and record alone.                             *)
LEMMA ClientOnly ==
  ASSUME RelayInv, NEW c \in Drivers, NEW rec \in DriverCalls,
         client' = [client EXCEPT ![c] = rec],
         \A d \in Drivers : d # c => client[d].pc = "idle",
         UNCHANGED <<relay, socket, ptyRecord>>,
         rec.pc \in {"ping", "request", "kill", "forget"} => rec.seen = ptyRecord \/ ptyRecord = 0,
         \A r \in Relays : Unended(r) =>
           IF rec.pc \in {"await", "write"} THEN r = rec.seen ELSE r = ptyRecord /\ rec.pc # "spawn"
  PROVE  RelayInv'
<1>1. /\ relay' \in [Relays -> RelayRecords] /\ socket' \in Relays \union {0} /\ ptyRecord' \in Relays \union {0}
      /\ ChildInside' /\ \A r \in Relays : Unended(r)' = Unended(r)
  BY DEF RelayInv, RelayTypeOK, ChildInside, Unended
<1>2. QED
  BY <1>1, ClientMoves

(* Where a client goes that found the session, or did not.                 *)
LEMMA FoundOrMissing ==
  ASSUME RelayInv, NEW c \in Drivers, Found(c) \/ Missing(c)
  PROVE  \E rec \in DriverCalls :
           /\ client' = [client EXCEPT ![c] = rec]
           /\ rec.pc \in {"idle", "drop"} \/ (rec.pc = "request" /\ rec.seen = client[c].seen)
<1>1. client \in [Drivers -> DriverCalls] /\ client[c] \in DriverCalls
  BY DEF RelayInv, RelayTypeOK
<1>2. CASE Returns(c)
  BY <1>2, IdleType DEF Returns, Idle
<1>3. ASSUME NEW l \in {"drop", "request"}, Goes(c, l)
      PROVE  \E rec \in DriverCalls :
               client' = [client EXCEPT ![c] = rec] /\ rec.pc = l /\ rec.seen = client[c].seen
  <2> DEFINE rec == [client[c] EXCEPT !.pc = l]
  <2>1. rec \in DriverCalls /\ rec.pc = l /\ rec.seen = client[c].seen
    BY <1>1 DEF DriverCalls
  <2>2. client' = [client EXCEPT ![c] = rec]
    BY <1>1, <1>3 DEF Goes
  <2>3. QED
    BY <2>1, <2>2
<1>4. Returns(c) \/ Goes(c, "drop") \/ Goes(c, "request")
  BY DEF Found, Missing
<1>5. QED
  <2>1. CASE Goes(c, "drop")
    BY <2>1, <1>3
  <2>2. CASE Goes(c, "request")
    BY <2>2, <1>3
  <2>3. QED
    BY <1>2, <1>4, <2>1, <2>2

LEMMA DriverStep ==
  ASSUME SerialUse, RelayInv, NEW c \in Drivers, DriverSteps(c)
  PROVE  RelayInv'
<1> USE DEF Goes, Returns
<1>0. /\ client \in [Drivers -> DriverCalls] /\ client[c] \in DriverCalls
      /\ socket \in Relays \union {0} /\ ptyRecord \in Relays \union {0}
      /\ relay \in [Relays -> RelayRecords]
  BY DEF RelayInv, RelayTypeOK
<1>a. \A l : client[c] \in DriverCalls /\ l \in {"drop", "request", "spawn", "write", "forget"}
        => /\ [client[c] EXCEPT !.pc = l] \in DriverCalls /\ [client[c] EXCEPT !.pc = l].pc = l
           /\ [client[c] EXCEPT !.pc = l].seen = client[c].seen
           /\ [client EXCEPT ![c].pc = l] = [client EXCEPT ![c] = [client[c] EXCEPT !.pc = l]]
  BY <1>0 DEF DriverCalls
<1>b. client[c].pc # "idle" => \A d \in Drivers : d # c => client[d].pc = "idle"
  BY DEF RelayInv, OneCall
<1>1. ASSUME NEW op \in {"create", "send", "terminate"}, Calls(c, op) PROVE RelayInv'
  <2> DEFINE rec == [op |-> op, pc |-> "look", seen |-> 0]
  <2>1. rec \in DriverCalls /\ \A d \in Drivers : client[d].pc = "idle"
    BY <1>1 DEF Calls, DriverCalls
  <2>2. \A r \in Relays : Unended(r) => r = ptyRecord
    BY <2>1 DEF RelayInv, WorksForOne
  <2>3. QED
    BY <1>1, <2>1, <2>2, ClientOnly DEF Calls
<1>2. CASE Looks(c)
  <2>1. PICK rec \in DriverCalls :
          /\ client' = [client EXCEPT ![c] = rec]
          /\ rec.pc \in {"idle", "drop"} \/ (rec.pc \in {"kill", "ping"} /\ rec.seen = ptyRecord)
    <3>1. CASE ptyRecord = 0
      <4>1. client' = [client EXCEPT ![c] = Idle] \/ client' = [client EXCEPT ![c].pc = "drop"]
        BY <1>2, <3>1 DEF Looks
      <4>2. CASE client' = [client EXCEPT ![c] = Idle]
        <5>1. Idle.pc \in {"idle", "drop"}
          BY DEF Idle
        <5>2. QED
          BY <4>2, <5>1, IdleType
      <4>3. CASE client' = [client EXCEPT ![c].pc = "drop"]
        <5> DEFINE rec == [client[c] EXCEPT !.pc = "drop"]
        <5>1. rec \in DriverCalls /\ rec.pc = "drop" /\ client' = [client EXCEPT ![c] = rec]
          BY <4>3, <1>0, <1>a
        <5>2. QED
          BY <5>1
      <4>4. QED
        BY <4>1, <4>2, <4>3
    <3>2. CASE ptyRecord # 0
      <4> DEFINE rec == [client[c] EXCEPT !.seen = ptyRecord,
                           !.pc = IF client[c].op = "terminate" THEN "kill" ELSE "ping"]
      <4>1. rec \in DriverCalls /\ rec.pc \in {"kill", "ping"} /\ rec.seen = ptyRecord
        BY <1>0 DEF DriverCalls
      <4>2. client' = [client EXCEPT ![c] = rec]
        BY <1>2, <3>2, <1>0 DEF Looks, DriverCalls
      <4>3. QED
        BY <4>1, <4>2
    <3>3. QED
      BY <3>1, <3>2
  <2>2. client[c].pc = "look" /\ UNCHANGED <<relay, socket, ptyRecord>>
    BY <1>2 DEF Looks
  <2>3. \A r \in Relays : Unended(r) => r = ptyRecord
    BY <2>2, AtWork
  <2>4. QED
    BY <2>1, <2>2, <2>3, <1>b, ClientOnly
<1>3. CASE PingAnswered(c)
  <2>1. PICK rec \in DriverCalls :
          /\ client' = [client EXCEPT ![c] = rec]
          /\ rec.pc \in {"idle", "drop"} \/ (rec.pc = "request" /\ rec.seen = client[c].seen)
    BY <1>3, IdleType, FoundOrMissing DEF PingAnswered, Idle
  <2>2. client[c].pc = "ping" /\ UNCHANGED <<relay, socket, ptyRecord>>
    BY <1>3 DEF PingAnswered
  <2>3. \A r \in Relays : Unended(r) => r = ptyRecord
    BY <2>2, AtWork
  <2>4. client[c].seen = ptyRecord \/ ptyRecord = 0
    BY <2>2 DEF RelayInv, OneCall
  <2>5. QED
    BY <2>1, <2>2, <2>3, <2>4, <1>b, ClientOnly
<1>4. CASE PingFails(c)
  <2>1. PICK rec \in DriverCalls :
          /\ client' = [client EXCEPT ![c] = rec]
          /\ rec.pc \in {"idle", "drop"} \/ (rec.pc = "request" /\ rec.seen = client[c].seen)
    BY <1>4, IdleType, FoundOrMissing DEF PingFails, Idle
  <2>2. client[c].pc = "ping"
    BY <1>4 DEF PingFails
  <2>3. \A r \in Relays : Unended(r) => r = ptyRecord
    BY <2>2, AtWork
  <2>4. client[c].seen = ptyRecord \/ ptyRecord = 0
    BY <2>2 DEF RelayInv, OneCall
  <2>5. CASE UNCHANGED <<relay, socket, ptyRecord>>
    BY <2>1, <2>2, <2>3, <2>4, <2>5, <1>b, ClientOnly
  <2>6. CASE Drops(client[c].seen)
    <3>1. client[c].seen \in Relays \union {0}
      BY <1>0 DEF DriverCalls
    <3>2. /\ relay' \in [Relays -> RelayRecords] /\ socket' = 0 /\ ptyRecord' = 0 /\ ChildInside'
          /\ \A q \in Relays : ~Unended(q)'
      BY <2>6, <3>1, <2>3, <2>4, NoRelay, DroppedRelay
    <3>3. QED
      BY <3>2, <2>1, <2>2, <1>b, ClientMoves
  <2>7. QED
    BY <2>5, <2>6, <1>4 DEF PingFails
<1>5. CASE DropsOld(c)
  <2>1. client[c].pc = "drop" /\ Drops(ptyRecord) /\ client' = [client EXCEPT ![c].pc = "spawn"]
    BY <1>5 DEF DropsOld
  <2>2. /\ relay' \in [Relays -> RelayRecords] /\ socket' = 0 /\ ptyRecord' = 0 /\ ChildInside'
        /\ \A q \in Relays : ~Unended(q)'
    BY <2>1, <1>0, AtWork, DroppedRelay
  <2>3. QED
    BY <2>1, <2>2, <1>0, <1>a, <1>b, ClientMoves
<1>6. CASE Spawns(c)
  <2>1. PICK r \in Relays :
          /\ relay[r].pc = "none" /\ relay' = [relay EXCEPT ![r].pc = "starting"]
          /\ client' = [client EXCEPT ![c].pc = "await", ![c].seen = r]
    BY <1>6 DEF Spawns
  <2>2. client[c].pc = "spawn" /\ UNCHANGED <<socket, ptyRecord>>
    BY <1>6 DEF Spawns
  <2> DEFINE rec == [client[c] EXCEPT !.pc = "await", !.seen = r]
  <2>3. rec \in DriverCalls /\ rec.pc = "await" /\ rec.seen = r
    BY <1>0 DEF DriverCalls
  <2>4. client' = [client EXCEPT ![c] = rec]
    BY <1>0, <2>1 DEF DriverCalls
  <2>5. relay' \in [Relays -> RelayRecords] /\ ChildInside'
    BY <2>1, <1>0 DEF RelayRecords, RelayInv, ChildInside
  <2>6. \A q \in Relays : Unended(q)' => q = r
    BY <2>1, <2>2, <1>0, AtWork DEF Unended
  <2>7. QED
    BY <2>2, <2>3, <2>4, <2>5, <2>6, <1>0, <1>b, ClientMoves
<1>7. CASE Ready(c)
  <2>1. client[c].pc = "await" /\ client' = [client EXCEPT ![c].pc = "write"] /\ UNCHANGED <<relay, socket, ptyRecord>>
    BY <1>7 DEF Ready
  <2>2. \A r \in Relays : Unended(r) => r = client[c].seen
    BY <2>1, AtWork
  <2>3. QED
    BY <2>1, <2>2, <1>0, <1>a, <1>b, ClientOnly
<1>8. CASE NeverReady(c)
  <2>1. /\ client[c].pc = "await" /\ client' = [client EXCEPT ![c] = Idle] /\ UNCHANGED <<socket, ptyRecord>>
        /\ relay' = IF Runs(client[c].seen) THEN Terminated(relay, client[c].seen) ELSE relay
    BY <1>8 DEF NeverReady
  <2>2. client[c].seen \in Relays \union {0}
    BY <1>0 DEF DriverCalls
  <2>3. /\ relay' \in [Relays -> RelayRecords] /\ ChildInside'
        /\ \A q \in Relays : Unended(q)' => Unended(q) /\ q # client[c].seen
    <3>1. CASE Runs(client[c].seen)
      BY <2>1, <2>2, <3>1, TerminatedRelay DEF Runs, RelayInv, ChildInside, Unended
    <3>2. CASE ~Runs(client[c].seen)
      BY <2>1, <2>2, <3>2, <1>0, NoRelay DEF Runs, RelayInv, ChildInside, Unended
    <3>3. QED
      BY <3>1, <3>2
  <2>4. \A q \in Relays : ~Unended(q)'
    BY <2>1, <2>3, AtWork
  <2>5. QED
    BY <2>1, <2>3, <2>4, <1>0, <1>b, IdleType, ClientMoves DEF Idle
<1>9. CASE WritesPtyRecord(c)
  <2>1. /\ client[c].pc = "write" /\ client' = [client EXCEPT ![c] = Idle]
        /\ ptyRecord' = client[c].seen /\ UNCHANGED <<relay, socket>>
    BY <1>9 DEF WritesPtyRecord
  <2>2. client[c].seen \in Relays \union {0}
    BY <1>0 DEF DriverCalls
  <2>3. ChildInside' /\ \A q \in Relays : Unended(q)' => q = ptyRecord'
    BY <2>1, AtWork DEF RelayInv, ChildInside, Unended
  <2>4. QED
    BY <2>1, <2>2, <2>3, <1>0, <1>b, IdleType, ClientMoves DEF Idle
<1>10. CASE Delivers(c)
  <2>1. /\ client[c].pc = "request" /\ client' = [client EXCEPT ![c] = Idle] /\ UNCHANGED <<relay, socket, ptyRecord>>
    BY <1>10 DEF Delivers
  <2>2. \A r \in Relays : Unended(r) => r = ptyRecord
    BY <2>1, AtWork
  <2>3. QED
    BY <2>1, <2>2, <1>b, IdleType, ClientOnly DEF Idle
<1>11. CASE DeliveryFails(c)
  <2>1. client[c].pc = "request" /\ client' = [client EXCEPT ![c] = Idle]
    BY <1>11 DEF DeliveryFails
  <2>2. \A r \in Relays : Unended(r) => r = ptyRecord
    BY <2>1, AtWork
  <2>3. CASE UNCHANGED <<relay, socket, ptyRecord>>
    BY <2>1, <2>2, <2>3, <1>b, IdleType, ClientOnly DEF Idle
  <2>4. CASE Drops(ptyRecord)
    <3>1. /\ relay' \in [Relays -> RelayRecords] /\ socket' = 0 /\ ptyRecord' = 0 /\ ChildInside'
          /\ \A q \in Relays : ~Unended(q)'
      BY <2>2, <2>4, <1>0, DroppedRelay
    <3>2. QED
      BY <3>1, <2>1, <1>b, IdleType, ClientMoves DEF Idle
  <2>5. QED
    BY <2>3, <2>4, <1>11 DEF DeliveryFails
<1>12. CASE Kills(c)
  <2>1. /\ client[c].pc = "kill" /\ client' = [client EXCEPT ![c].pc = "forget"] /\ UNCHANGED <<socket, ptyRecord>>
        /\ relay' = IF Answers(socket) THEN [relay EXCEPT ![socket].term = TRUE] ELSE relay
    BY <1>12 DEF Kills
  <2>2. \A r \in Relays : Unended(r) => r = ptyRecord
    BY <2>1, AtWork
  <2>3. client[c].seen = ptyRecord \/ ptyRecord = 0
    BY <2>1 DEF RelayInv, OneCall
  <2>4. relay' \in [Relays -> RelayRecords] /\ ChildInside' /\ \A q \in Relays : Unended(q)' => Unended(q)
    <3>1. CASE Answers(socket)
      BY <2>1, <3>1, <1>0 DEF Answers, RelayRecords, RelayInv, ChildInside, Unended
    <3>2. CASE ~Answers(socket)
      BY <2>1, <3>2, <1>0 DEF RelayInv, ChildInside, Unended
    <3>3. QED
      BY <3>1, <3>2
  <2>5. /\ \A q \in Relays : Unended(q)' => q = ptyRecord'
        /\ socket' \in Relays \union {0} /\ ptyRecord' \in Relays \union {0}
        /\ client[c].seen = ptyRecord' \/ ptyRecord' = 0
    BY <2>1, <2>2, <2>3, <2>4, <1>0
  <2> DEFINE rec == [client[c] EXCEPT !.pc = "forget"]
  <2>6. /\ rec \in DriverCalls /\ rec.pc = "forget" /\ rec.seen = client[c].seen
        /\ client' = [client EXCEPT ![c] = rec]
    BY <2>1, <1>0, <1>a
  <2>7. \A d \in Drivers : d # c => client[d].pc = "idle"
    BY <2>1, <1>b
  <2> HIDE DEF rec
  <2>8. QED
    BY <2>4, <2>5, <2>6, <2>7, ClientMoves
<1>13. CASE DropsSeen(c)
  <2>1. client[c].pc = "forget" /\ client' = [client EXCEPT ![c] = Idle] /\ Drops(client[c].seen)
    BY <1>13 DEF DropsSeen
  <2>2. client[c].seen \in Relays \union {0}
    BY <1>0 DEF DriverCalls
  <2>3. client[c].seen = ptyRecord \/ ptyRecord = 0
    BY <2>1 DEF RelayInv, OneCall
  <2>4. /\ relay' \in [Relays -> RelayRecords] /\ socket' = 0 /\ ptyRecord' = 0 /\ ChildInside'
        /\ \A q \in Relays : ~Unended(q)'
    BY <2>1, <2>2, <2>3, NoRelay, AtWork, DroppedRelay
  <2>5. QED
    BY <2>4, <2>1, <1>b, IdleType, ClientMoves DEF Idle
<1>14. CASE ClientDies(c)
  <2>1. /\ client[c].pc \notin {"idle", "await", "write"} /\ client' = [client EXCEPT ![c] = Idle]
        /\ UNCHANGED <<relay, socket, ptyRecord>>
    BY <1>14 DEF ClientDies
  <2>2. \A r \in Relays : Unended(r) => r = ptyRecord
    BY <2>1, AtWork
  <2>3. QED
    BY <2>1, <2>2, <1>b, IdleType, ClientOnly DEF Idle
<1>15. QED
  BY <1>1, <1>2, <1>3, <1>4, <1>5, <1>6, <1>7, <1>8, <1>9, <1>10, <1>11, <1>12, <1>13, <1>14, Zenon DEF DriverSteps

LEMMA RelaysAlways == SerialUse => (RelaySpec => []RelayInv)
<1>1. SUFFICES ASSUME SerialUse PROVE RelaySpec => []RelayInv
  OBVIOUS
<1>2. RelayInv /\ [RelayNext]_relayVars => RelayInv'
  <2>1. ASSUME RelayInv, UNCHANGED relayVars PROVE RelayInv'
    BY <2>1 DEF relayVars, RelayInv, RelayTypeOK, ChildInside, OneCall, WorksForOne, Unended
  <2>2. QED
    BY <1>1, <2>1, DriverStep, RelaysStep, Zenon DEF RelayNext
<1>3. QED
  BY <1>2, RelayInvInit, PTL DEF RelaySpec

(* With one call at a time, and no caller killed before it recorded what   *)
(* it spawned, no session ever has two providers that nobody told to end.  *)
THEOREM ProviderIsOne == SerialUse => (RelaySpec => []NoDuplicateProvider)
<1>1. RelayInv => NoDuplicateProvider
  <2> SUFFICES ASSUME RelayInv PROVE NoDuplicateProvider
    OBVIOUS
  <2>1. \A r \in Relays : Kept(r) => Unended(r)
    BY DEF RelayInv, ChildInside, Kept, Unended
  <2>2. \A q, r \in Relays : Unended(q) /\ Unended(r) => q = r
    BY DEF RelayInv, WorksForOne, OneCall
  <2>3. \A q, r \in {p \in Relays : Kept(p)} : q = r
    BY <2>1, <2>2
  <2>4. QED
    BY <2>3, AtMostOne DEF NoDuplicateProvider
<1>2. QED
  BY <1>1, RelaysAlways, PTL

(* And what answers at the path when input is delivered is the relay the   *)
(* record names.                                                           *)
THEOREM InputIsForRecorded == SerialUse => (RelaySpec => InputReachesRecordedRelay)
<1>1. RelayInv => [(\E c \in Drivers : Delivers(c)) => socket = ptyRecord]_relayVars
  <2> SUFFICES ASSUME RelayInv, NEW c \in Drivers, Delivers(c) PROVE socket = ptyRecord
    OBVIOUS
  <2>1. client[c].pc = "request" /\ socket \in Relays /\ Unended(socket)
    BY DEF Delivers, Answers, Unended, RelayInv, RelayTypeOK
  <2>2. QED
    BY <2>1, AtWork
<1>2. QED
  BY <1>1, RelaysAlways, PTL DEF InputReachesRecordedRelay
-----------------------------------------------------------------------------
(* Deployment.                                                             *)

Installing == {"dependencies", "launchers", "claim", "unit", "register", "autostart", "save"}
Uninstalling == {"disable", "unlink", "forget"}

CallStates ==
  [op : {"none", "install", "uninstall"}, pc : Installing \union Uninstalling \union {"idle"},
   owned : SUBSET OwnPaths, todo : SUBSET OwnPaths, purge : BOOLEAN]

DeployTypeOK ==
  /\ disk \in [OwnPaths \union {UserConfig} -> {"none", "ours", "theirs"}]
  /\ manifest \in SUBSET OwnPaths /\ untracked \in SUBSET OwnPaths /\ left \in SUBSET OwnPaths
  /\ cmd \in CallStates

(* What a step of the call relies on of the steps before it.               *)
CallInv ==
  /\ cmd.pc = "idle" => cmd.owned = {}
  /\ cmd.pc \in {"dependencies", "launchers"} => cmd.owned = {} /\ manifest = {}
  /\ cmd.pc = "claim" => cmd.owned = Launchers /\ manifest = {}
  /\ cmd.pc \in {"unit", "register"} => manifest = cmd.owned
  /\ cmd.pc \in {"autostart", "save"} => manifest \subseteq cmd.owned
  /\ cmd.pc \in Installing => cmd.op = "install"
  /\ cmd.pc \in Uninstalling => cmd.op = "uninstall" /\ manifest = cmd.owned
  /\ cmd.pc = "disable" => cmd.todo = cmd.owned
  /\ cmd.pc = "forget" => cmd.todo = {}

(* A file that was created is recorded, or will be by the call under way,  *)
(* which writes the unit file before it owns it.                           *)
Claimed ==
  \A p \in OwnPaths :
    disk[p] = "ours" =>
      \/ p \in manifest \union untracked \union cmd.owned
      \/ p = Unit /\ cmd.pc = "register"

(* What an uninstall is done with is gone, or will be reported.            *)
Handled ==
  cmd.pc \in Uninstalling =>
    \A p \in cmd.owned \ cmd.todo : disk[p] = "ours" => p \in left

DeployInv == DeployTypeOK /\ CallInv /\ Claimed /\ Handled

LEMMA DeployInvInit == DeployInit => DeployInv
BY DEF DeployInit, DeployInv, DeployTypeOK, CallInv, Claimed, Handled, NoOp, CallStates, Installing,
   Uninstalling, OwnPaths, UserConfig, Launchers, Unit, Autostart

LEMMA DeployInvStep == DeployInv /\ [DeployNext]_deployVars => DeployInv'
<1> SUFFICES ASSUME DeployInv, [DeployNext]_deployVars
             PROVE  DeployInv'
  OBVIOUS
<1> USE DEF DeployInv, DeployTypeOK, CallInv, Claimed, Handled, NoOp, CallStates, Installing, Uninstalling,
        OwnPaths, UserConfig, Launchers, Unit, Autostart, StepTo, EndsWith, Writes
<1>1. CASE InstallRefused
  BY <1>1 DEF InstallRefused
<1>2. CASE InstallAlready
  BY <1>2 DEF InstallAlready
<1>3. CASE InstallBegins
  BY <1>3 DEF InstallBegins
<1>4. CASE EnsuresDependencies
  BY <1>4 DEF EnsuresDependencies
<1>5. CASE WritesLaunchers
  BY <1>5 DEF WritesLaunchers
<1>6. CASE ClaimsLaunchers
  BY <1>6 DEF ClaimsLaunchers
<1>7. CASE SkipsUnit
  BY <1>7 DEF SkipsUnit
<1>8. CASE InstallsUnit
  BY <1>8 DEF InstallsUnit
<1>9. CASE Registers
  BY <1>9 DEF Registers
<1>10. CASE RegistrationFails
  BY <1>10 DEF RegistrationFails
<1>11. CASE RegistrationFailsKept
  BY <1>11 DEF RegistrationFailsKept
<1>12. CASE InstallsAutostart
  <2>1. CASE UNCHANGED <<disk, untracked>> /\ StepTo("save")
    BY <1>12, <2>1 DEF InstallsAutostart
  <2>2. CASE Writes({Autostart}) /\ cmd' = [cmd EXCEPT !.pc = "save", !.owned = @ \union {Autostart}]
    <3>1. UNCHANGED <<manifest, left>> /\ cmd.pc = "autostart" /\ manifest \subseteq cmd.owned
      BY <1>12 DEF InstallsAutostart
    <3>2. DeployTypeOK' /\ CallInv' /\ Handled'
      BY <2>2, <3>1
    <3>3. Claimed'
      BY <2>2, <3>1
    <3>4. QED
      BY <3>2, <3>3
  <2>3. QED
    BY <1>12, <2>1, <2>2 DEF InstallsAutostart
<1>13. CASE SavesManifest
  BY <1>13 DEF SavesManifest
<1>14. CASE UninstallAlready
  BY <1>14 DEF UninstallAlready
<1>15. CASE UninstallBegins
  <2>1. PICK purge \in BOOLEAN :
          cmd' = [NoOp EXCEPT !.op = "uninstall", !.pc = "disable",
                               !.owned = manifest, !.todo = manifest, !.purge = purge]
    BY <1>15, Zenon DEF UninstallBegins
  <2>2. /\ cmd'.op = "uninstall" /\ cmd'.pc = "disable" /\ cmd'.owned = manifest /\ cmd'.todo = manifest
        /\ cmd' \in CallStates
    BY <2>1
  <2>3. UNCHANGED <<disk, manifest, untracked>> /\ left' = {} /\ cmd.pc = "idle" /\ cmd.owned = {}
    BY <1>15 DEF UninstallBegins
  <2>4. QED
    BY <2>2, <2>3
<1>16. CASE Disables
  BY <1>16 DEF Disables
<1>17. ASSUME NEW p \in OwnPaths, Unlinks(p)
      PROVE  DeployInv'
  BY <1>17 DEF Unlinks
<1>18. ASSUME NEW p \in OwnPaths, UnlinkFails(p)
      PROVE  DeployInv'
  BY <1>18 DEF UnlinkFails
<1>19. CASE Purges
  BY <1>19 DEF Purges
<1>20. CASE ForgetsOwned
  <2>1. manifest' \in SUBSET OwnPaths /\ untracked' = untracked \union left /\ cmd' = NoOp
    BY <1>20, Zenon DEF ForgetsOwned, StillOwned
  <2>2. \A p \in OwnPaths : disk[p] = "ours" => p \in untracked'
    BY <1>20, <2>1 DEF ForgetsOwned
  <2>3. QED
    BY <1>20, <2>1, <2>2 DEF ForgetsOwned
<1>21. CASE Interrupted
  BY <1>21 DEF Interrupted
<1>22. CASE UNCHANGED deployVars
  BY <1>22 DEF deployVars
<1>23. QED
  BY <1>1, <1>2, <1>3, <1>4, <1>5, <1>6, <1>7, <1>8, <1>9, <1>10, <1>11, <1>12, <1>13, <1>14, <1>15, <1>16, <1>17, <1>18, <1>19, <1>20, <1>21, <1>22
     DEF DeployNext

(* Everything Ariadex created is in the manifest when a call has returned, *)
(* or was written by an install that was cut short, or left behind.        *)
THEOREM NothingIsLost == DeploySpec => []OwnedIsRecorded
<1>1. DeployInv => OwnedIsRecorded
  BY DEF DeployInv, CallInv, Claimed, OwnedIsRecorded
<1>2. QED
  BY <1>1, DeployInvInit, DeployInvStep, PTL DEF DeploySpec

-----------------------------------------------------------------------------
(* Notifications.                                                          *)

Steps == {"idle", "decide", "suppressed", "send", "told", "failed"}

Callers ==
  [step : Steps, kind : Kinds, loaded : [Kinds -> SUBSET Nat], updated : [Kinds -> SUBSET Nat], stamp : Nat]

AlertsTypeOK ==
  /\ clock \in Nat /\ excused \in BOOLEAN
  /\ notify \in [Kinds -> SUBSET Nat] /\ told \in [Kinds -> SUBSET Nat]
  /\ caller \in [Announcers -> Callers]

(* Stamps come from the past, a decided one from a decision.               *)
StampsArePast ==
  /\ \A k \in Kinds : told[k] \subseteq 1..clock
  /\ \A a \in Announcers :
       /\ caller[a].stamp <= clock
       /\ caller[a].step \notin {"idle", "decide"} => caller[a].stamp >= 1

(* What the files and the processes count was told: a stamp is written     *)
(* back only when its event reached the operator.                          *)
CountedWasTold ==
  \A k \in Kinds :
    /\ notify[k] \subseteq told[k]
    /\ \A a \in Announcers :
         /\ caller[a].loaded[k] \subseteq told[k]
         /\ caller[a].step \in {"suppressed", "told"} => caller[a].updated[k] \subseteq told[k]
         /\ caller[a].step = "send" =>
              caller[a].updated[k]
                \subseteq told[k] \union (IF k = caller[a].kind THEN {caller[a].stamp} ELSE {})

ToldInv == AlertsTypeOK /\ StampsArePast /\ CountedWasTold /\ WithheldWasTold

(* Where nothing that may cost the limit has happened, one process at a    *)
(* time announces, and what it read is what the file still holds.          *)
Stamped(c) ==
  [k \in Kinds |-> IF k = c.kind THEN Cleaned(c.loaded, c.stamp)[k] \union {c.stamp}
                                 ELSE Cleaned(c.loaded, c.stamp)[k]]

Undisturbed ==
  \A a \in Announcers : caller[a].step # "idle" =>
    LET c == caller[a] IN
      /\ \A b \in Announcers : caller[b].step # "idle" => a = b
      /\ c.loaded = notify
      /\ c.step # "decide" => c.stamp = clock
      /\ c.step = "suppressed" => c.updated = Cleaned(c.loaded, c.stamp)
      /\ c.step \in {"send", "told"} => c.updated = Stamped(c)
      /\ c.step = "send" =>
           /\ Cardinality(Recent(c.loaded[c.kind], c.stamp)) < Limit
           /\ \A k \in Kinds : \A t \in told[k] : t < c.stamp

(* And what was told in the window is in the file, or about to be.         *)
ToldIsCounted ==
  \A k \in Kinds : \A t \in told[k] :
    t + Window >= clock =>
      \/ t \in notify[k]
      \/ \E a \in Announcers : caller[a].step = "told" /\ caller[a].kind = k /\ caller[a].stamp = t

BudgetInv == ~excused => Undisturbed /\ ToldIsCounted /\ NeverFlooded

-----------------------------------------------------------------------------
(* What the operators keep.                                                *)

LEMMA RecentType ==
  ASSUME NEW stamps \in SUBSET Nat, NEW now
  PROVE  Recent(stamps, now) \subseteq stamps
BY DEF Recent

LEMMA CleanedType ==
  ASSUME NEW state \in [Kinds -> SUBSET Nat], NEW now
  PROVE  /\ Cleaned(state, now) \in [Kinds -> SUBSET Nat]
         /\ \A k \in Kinds : Cleaned(state, now)[k] = Recent(state[k], now)
BY DEF Cleaned, Recent

(* Whatever the bound on keys, nothing is added.                           *)
LEMMA EvictedType ==
  ASSUME NEW state \in [Kinds -> SUBSET Nat]
  PROVE  /\ Evicted(state) \in [Kinds -> SUBSET Nat]
         /\ \A k \in Kinds : Evicted(state)[k] \subseteq state[k]
<1> DEFINE oldest == Min(UNION {state[k] : k \in Kinds})
           without == [k \in Kinds |-> IF oldest \in state[k] THEN {} ELSE state[k]]
<1>1. Evicted(state) \in {state, without}
  BY Zenon DEF Evicted
<1> HIDE DEF oldest
<1>2. without \in [Kinds -> SUBSET Nat] /\ \A k \in Kinds : without[k] \subseteq state[k]
  OBVIOUS
<1> HIDE DEF without
<1>3. QED
  BY <1>1, <1>2

(* Sets of past stamps are finite, so that they can be compared by size.   *)
LEMMA PastIsFinite ==
  ASSUME NEW n \in Nat, NEW stamps, stamps \subseteq 1..n
  PROVE  IsFiniteSet(stamps) /\ Cardinality(stamps) \in Nat
<1>1. IsFiniteSet(stamps)
  <2>1. IsFiniteSet(1..n)
    BY FS_Interval
  <2>2. QED
    BY <2>1, FS_Subset
<1>2. QED
  BY <1>1, FS_CardinalityType

LEMMA SmallerIsSmaller ==
  ASSUME NEW n \in Nat, NEW more, more \subseteq 1..n, NEW less, less \subseteq more
  PROVE  Cardinality(less) <= Cardinality(more) /\ Cardinality(less) \in Nat /\ Cardinality(more) \in Nat
BY PastIsFinite, FS_Subset

-----------------------------------------------------------------------------
(* Nothing is withheld without reason.                                     *)

LEMMA QuietType == Quiet \in Callers /\ NoStamps \in [Kinds -> SUBSET Nat]
<1>1. (CHOOSE k \in Kinds : TRUE) \in Kinds
  BY AlertsAssumption DEF AlertsAssumption
<1>2. NoStamps \in [Kinds -> SUBSET Nat]
  BY DEF NoStamps
<1>3. QED
  BY <1>1, <1>2 DEF Quiet, Callers, Steps

LEMMA ToldInit == AlertsInit => ToldInv
<1> SUFFICES ASSUME AlertsInit
             PROVE  ToldInv
  OBVIOUS
<1>1. AlertsTypeOK
  <2>1. caller \in [Announcers -> Callers]
    BY QuietType DEF AlertsInit
  <2>2. QED
    BY <2>1, QuietType DEF AlertsInit, AlertsTypeOK
<1>2. \A a \in Announcers : /\ caller[a].step = "idle" /\ caller[a].stamp = 0
                            /\ caller[a].loaded = NoStamps /\ caller[a].updated = NoStamps
  BY DEF AlertsInit, Quiet
<1>3. StampsArePast /\ CountedWasTold /\ WithheldWasTold
  BY <1>2 DEF AlertsInit, NoStamps, StampsArePast, CountedWasTold, WithheldWasTold
<1>4. QED
  BY <1>1, <1>3 DEF ToldInv

(* Only one process's entry changes in a step, and only a delivery tells.  *)
Others(a) == \A b \in Announcers \ {a} : caller'[b] = caller[b]

LEMMA Announced ==
  ASSUME ToldInv, NEW a \in Announcers, NEW k \in Kinds, Announces(a, k)
  PROVE  ToldInv'
<1>1. PICK loaded \in {notify, NoStamps} :
        /\ caller' = [caller EXCEPT ![a] =
                        [Quiet EXCEPT !.step = "decide", !.kind = k, !.loaded = loaded]]
        /\ excused' = (excused \/ Overlaps(a) \/ loaded # notify)
  BY Zenon DEF Announces
<1>2. UNCHANGED <<clock, notify, told>>
  BY DEF Announces
<1>3. loaded \in [Kinds -> SUBSET Nat] /\ \A j \in Kinds : loaded[j] \subseteq told[j]
  BY <1>1, QuietType DEF ToldInv, AlertsTypeOK, CountedWasTold, NoStamps
<1>4. /\ caller'[a] \in Callers /\ caller'[a].step = "decide" /\ caller'[a].stamp = 0
      /\ caller'[a].loaded = loaded
  BY <1>1, <1>3, QuietType DEF ToldInv, AlertsTypeOK, Quiet, Callers, Steps
<1>5. Others(a) /\ caller' \in [Announcers -> Callers] /\ excused' \in BOOLEAN
  BY <1>1, <1>4 DEF ToldInv, AlertsTypeOK, Others
<1>6. AlertsTypeOK'
  BY <1>2, <1>5 DEF ToldInv, AlertsTypeOK
<1>7. StampsArePast' /\ CountedWasTold' /\ WithheldWasTold'
  BY <1>2, <1>3, <1>4, <1>5
     DEF ToldInv, AlertsTypeOK, StampsArePast, CountedWasTold, WithheldWasTold, Others
<1>8. QED
  BY <1>6, <1>7 DEF ToldInv

(* What a decision does, whichever it is.                                  *)
LEMMA DecisionOf ==
  ASSUME AlertsTypeOK, NEW a \in Announcers, Decides(a)
  PROVE  LET now == clock + 1  c == caller[a]  cleaned == Cleaned(c.loaded, now)
             stamped == [cleaned EXCEPT ![c.kind] = @ \union {now}]
         IN /\ c.step = "decide" /\ clock' = now /\ UNCHANGED <<notify, told>> /\ Others(a)
            /\ caller' \in [Announcers -> Callers] /\ excused' \in BOOLEAN
            /\ caller'[a].kind = c.kind /\ caller'[a].loaded = c.loaded /\ caller'[a].stamp = now
            /\ \/ /\ Cardinality(cleaned[c.kind]) >= Limit /\ excused' = excused
                  /\ caller'[a].step = "suppressed" /\ caller'[a].updated = cleaned
               \/ /\ Cardinality(cleaned[c.kind]) < Limit
                  /\ caller'[a].step = "send" /\ caller'[a].updated = Evicted(stamped)
                  /\ excused' = (excused \/ Evicted(stamped) # stamped)
<1> DEFINE now == clock + 1
           c == caller[a]
           cleaned == Cleaned(c.loaded, now)
           stamped == [cleaned EXCEPT ![c.kind] = @ \union {now}]
<1>1. c \in Callers /\ now \in Nat
  BY DEF AlertsTypeOK
<1>2. cleaned \in [Kinds -> SUBSET Nat]
  BY <1>1, CleanedType DEF Callers
<1>3. stamped \in [Kinds -> SUBSET Nat]
  BY <1>1, <1>2 DEF Callers
<1>4. Evicted(stamped) \in [Kinds -> SUBSET Nat]
  BY <1>3, EvictedType
<1>5. /\ c.step = "decide" /\ clock' = now /\ UNCHANGED <<notify, told>>
      /\ \/ /\ Cardinality(cleaned[c.kind]) >= Limit /\ excused' = excused
            /\ caller' = [caller EXCEPT ![a].step = "suppressed", ![a].updated = cleaned, ![a].stamp = now]
         \/ /\ Cardinality(cleaned[c.kind]) < Limit
            /\ caller' = [caller EXCEPT ![a].step = "send", ![a].updated = Evicted(stamped), ![a].stamp = now]
            /\ excused' = (excused \/ Evicted(stamped) # stamped)
  BY Zenon DEF Decides
<1> HIDE DEF cleaned, stamped, now
<1>6. CASE /\ Cardinality(cleaned[c.kind]) >= Limit /\ excused' = excused
           /\ caller' = [caller EXCEPT ![a].step = "suppressed", ![a].updated = cleaned, ![a].stamp = now]
  <2>1. Others(a) /\ caller' \in [Announcers -> Callers]
    BY <1>1, <1>2, <1>6 DEF AlertsTypeOK, Callers, Steps, Others
  <2>2. /\ caller'[a].kind = c.kind /\ caller'[a].loaded = c.loaded /\ caller'[a].stamp = now
        /\ caller'[a].step = "suppressed" /\ caller'[a].updated = cleaned
    BY <1>6 DEF AlertsTypeOK, Callers
  <2>3. QED
    BY <1>5, <1>6, <2>1, <2>2 DEF cleaned, now, AlertsTypeOK
<1>7. CASE /\ Cardinality(cleaned[c.kind]) < Limit
           /\ caller' = [caller EXCEPT ![a].step = "send", ![a].updated = Evicted(stamped), ![a].stamp = now]
           /\ excused' = (excused \/ Evicted(stamped) # stamped)
  <2>1. Others(a) /\ caller' \in [Announcers -> Callers]
    BY <1>1, <1>4, <1>7 DEF AlertsTypeOK, Callers, Steps, Others
  <2>2. /\ caller'[a].kind = c.kind /\ caller'[a].loaded = c.loaded /\ caller'[a].stamp = now
        /\ caller'[a].step = "send" /\ caller'[a].updated = Evicted(stamped)
    BY <1>7 DEF AlertsTypeOK, Callers
  <2>3. excused' \in BOOLEAN
    BY <1>7
  <2>4. QED
    BY <1>5, <1>7, <2>1, <2>2, <2>3, Zenon DEF cleaned, stamped, now
<1>8. QED
  BY <1>5, <1>6, <1>7

LEMMA Decided ==
  ASSUME ToldInv, NEW a \in Announcers, Decides(a)
  PROVE  ToldInv'
<1> DEFINE now == clock + 1
           c == caller[a]
           cleaned == Cleaned(c.loaded, now)
           stamped == [cleaned EXCEPT ![c.kind] = @ \union {now}]
<1>1. /\ c.step = "decide" /\ clock' = now /\ UNCHANGED <<notify, told>> /\ Others(a)
      /\ caller' \in [Announcers -> Callers] /\ excused' \in BOOLEAN
      /\ caller'[a].kind = c.kind /\ caller'[a].loaded = c.loaded /\ caller'[a].stamp = now
      /\ \/ /\ Cardinality(cleaned[c.kind]) >= Limit
            /\ caller'[a].step = "suppressed" /\ caller'[a].updated = cleaned
         \/ caller'[a].step = "send" /\ caller'[a].updated = Evicted(stamped)
  BY DecisionOf DEF ToldInv
<1>2. /\ now \in Nat /\ c.kind \in Kinds /\ c.loaded \in [Kinds -> SUBSET Nat]
      /\ told \in [Kinds -> SUBSET Nat] /\ clock \in Nat
  BY DEF ToldInv, AlertsTypeOK, Callers
<1>3. \A k \in Kinds : cleaned[k] = Recent(c.loaded[k], now) /\ cleaned[k] \subseteq told[k]
  BY <1>2, CleanedType DEF ToldInv, CountedWasTold, Recent
<1>4. /\ stamped \in [Kinds -> SUBSET Nat]
      /\ \A k \in Kinds : stamped[k] = IF k = c.kind THEN cleaned[k] \union {now} ELSE cleaned[k]
  <2>1. cleaned \in [Kinds -> SUBSET Nat]
    BY <1>2, CleanedType
  <2>2. stamped = [cleaned EXCEPT ![c.kind] = @ \union {now}]
    OBVIOUS
  <2> HIDE DEF cleaned, stamped, now
  <2>3. QED
    BY <1>2, <2>1, <2>2
<1>5. \A k \in Kinds : Evicted(stamped)[k] \subseteq stamped[k]
  BY <1>4, EvictedType
<1>6. Cardinality(cleaned[c.kind]) <= Cardinality(Recent(told[c.kind], now))
      /\ Cardinality(cleaned[c.kind]) \in Nat /\ Cardinality(Recent(told[c.kind], now)) \in Nat
  <2>1. cleaned[c.kind] \subseteq Recent(told[c.kind], now)
    BY <1>2, <1>3 DEF Recent
  <2>2. Recent(told[c.kind], now) \subseteq 1..clock
    BY <1>2 DEF Recent, ToldInv, StampsArePast
  <2>3. QED
    BY <1>2, <2>1, <2>2, SmallerIsSmaller
<1> HIDE DEF cleaned, stamped, now
<1>7. AlertsTypeOK'
  BY <1>1, <1>2 DEF ToldInv, AlertsTypeOK
<1>8. StampsArePast'
  <2>1. clock' = clock + 1 /\ now = clock + 1
    BY <1>1 DEF now
  <2>2. \A k \in Kinds : told'[k] \subseteq 1..clock'
    BY <1>1, <1>2, <2>1 DEF ToldInv, StampsArePast
  <2>3. ASSUME NEW b \in Announcers
        PROVE  /\ caller'[b].stamp <= clock'
               /\ caller'[b].step \notin {"idle", "decide"} => caller'[b].stamp >= 1
    <3>1. CASE b = a
      BY <1>1, <1>2, <2>1, <3>1
    <3>2. CASE b # a
      BY <1>1, <1>2, <2>1, <3>2 DEF ToldInv, AlertsTypeOK, Callers, StampsArePast, Others
    <3>3. QED
      BY <3>1, <3>2
  <2>4. QED
    BY <2>2, <2>3 DEF StampsArePast
<1>9. CountedWasTold'
  BY <1>1, <1>3, <1>4, <1>5, <1>2 DEF ToldInv, CountedWasTold, Others
<1>10. WithheldWasTold'
  <2>1. caller'[a].step = "suppressed" => Cardinality(Recent(told[c.kind], now)) >= Limit
    BY <1>1, <1>6, AlertsAssumption DEF AlertsAssumption
  <2>2. QED
    BY <1>1, <2>1 DEF ToldInv, WithheldWasTold, Others
<1>11. QED
  BY <1>7, <1>8, <1>9, <1>10 DEF ToldInv

(* A delivery only adds to what was told.                                  *)
LEMMA Told ==
  ASSUME ToldInv, NEW a \in Announcers, Tells(a)
  PROVE  ToldInv'
<1> DEFINE c == caller[a]
<1>1. /\ c.step = "send" /\ UNCHANGED <<clock, notify, excused>> /\ c \in Callers
      /\ told' = [told EXCEPT ![c.kind] = @ \union {c.stamp}]
      /\ caller' = [caller EXCEPT ![a].step = "told"]
  BY DEF Tells, ToldInv, AlertsTypeOK
<1>2. /\ caller' \in [Announcers -> Callers] /\ Others(a) /\ caller'[a].step = "told"
      /\ caller'[a].kind = c.kind /\ caller'[a].loaded = c.loaded /\ caller'[a].stamp = c.stamp
      /\ caller'[a].updated = c.updated
  BY <1>1 DEF ToldInv, AlertsTypeOK, Callers, Steps, Others
<1>3. /\ told' \in [Kinds -> SUBSET Nat] /\ c.kind \in Kinds /\ c.stamp \in 1..clock
      /\ \A k \in Kinds : told'[k] = told[k] \union (IF k = c.kind THEN {c.stamp} ELSE {})
  BY <1>1 DEF ToldInv, AlertsTypeOK, Callers, StampsArePast
<1>4. AlertsTypeOK' /\ StampsArePast'
  BY <1>1, <1>2, <1>3 DEF ToldInv, AlertsTypeOK, StampsArePast, Others
<1>5. CountedWasTold'
  BY <1>1, <1>2, <1>3 DEF ToldInv, CountedWasTold, Others
<1>6. WithheldWasTold'
  <2>1. ASSUME NEW b \in Announcers, caller'[b].step = "suppressed"
        PROVE  Cardinality(Recent(told'[caller'[b].kind], caller'[b].stamp)) >= Limit
    <3>1. caller'[b] = caller[b] /\ caller[b].kind \in Kinds
      BY <1>2, <2>1 DEF Others, ToldInv, AlertsTypeOK, Callers
    <3>2. Cardinality(Recent(told[caller[b].kind], caller[b].stamp)) >= Limit
      BY <2>1, <3>1 DEF ToldInv, WithheldWasTold
    <3>3. Recent(told'[caller[b].kind], caller[b].stamp) \subseteq 1..clock
      BY <1>1, <1>4, <3>1 DEF StampsArePast, Recent
    <3>4. Recent(told[caller[b].kind], caller[b].stamp) \subseteq Recent(told'[caller[b].kind], caller[b].stamp)
      BY <1>3, <3>1 DEF Recent
    <3>5. QED
      BY <3>1, <3>2, <3>3, <3>4, SmallerIsSmaller, AlertsAssumption
         DEF AlertsAssumption, ToldInv, AlertsTypeOK
  <2>2. QED
    BY <2>1 DEF WithheldWasTold
<1>7. QED
  BY <1>4, <1>5, <1>6 DEF ToldInv

LEMMA Failed ==
  ASSUME ToldInv, NEW a \in Announcers, TellsNobody(a)
  PROVE  ToldInv'
<1>1. /\ caller[a].step = "send" /\ UNCHANGED <<clock, notify, told, excused>> /\ caller[a] \in Callers
      /\ caller' = [caller EXCEPT ![a].step = "failed"]
  BY DEF TellsNobody, ToldInv, AlertsTypeOK
<1>2. /\ caller' \in [Announcers -> Callers] /\ Others(a) /\ caller'[a].step = "failed"
      /\ caller'[a].loaded = caller[a].loaded /\ caller'[a].stamp = caller[a].stamp
  BY <1>1 DEF ToldInv, AlertsTypeOK, Callers, Steps, Others
<1>3. QED
  BY <1>1, <1>2 DEF ToldInv, AlertsTypeOK, StampsArePast, CountedWasTold, WithheldWasTold, Others

(* What is written back was told; a process that ends remembers nothing.   *)
LEMMA Ended ==
  ASSUME ToldInv, NEW a \in Announcers, Keeps(a) \/ AnnouncerDies(a)
  PROVE  ToldInv'
<1>1. caller' = [caller EXCEPT ![a] = Quiet] /\ UNCHANGED <<clock, told>>
  BY DEF Keeps, AnnouncerDies
<1>2. /\ caller' \in [Announcers -> Callers] /\ Others(a) /\ caller'[a] = Quiet
  BY <1>1, QuietType DEF ToldInv, AlertsTypeOK, Others
<1>3. /\ Quiet.step = "idle" /\ Quiet.stamp = 0
      /\ \A k \in Kinds : Quiet.loaded[k] = {}
  BY DEF Quiet, NoStamps
<1>4. /\ notify' \in [Kinds -> SUBSET Nat] /\ \A k \in Kinds : notify'[k] \subseteq told[k]
  <2>1. CASE notify' = notify
    BY <2>1 DEF ToldInv, AlertsTypeOK, CountedWasTold
  <2>2. CASE notify' = WrittenBack(caller[a]) /\ caller[a].step \in {"suppressed", "told", "failed"}
    BY <2>2 DEF WrittenBack, ToldInv, AlertsTypeOK, Callers, CountedWasTold
  <2>3. QED
    BY <2>1, <2>2 DEF Keeps, AnnouncerDies
<1>5. excused' \in BOOLEAN
  BY DEF Keeps, AnnouncerDies, ToldInv, AlertsTypeOK
<1>6. QED
  BY <1>1, <1>2, <1>3, <1>4, <1>5
     DEF ToldInv, AlertsTypeOK, StampsArePast, CountedWasTold, WithheldWasTold, Others

LEMMA ToldStep == ToldInv /\ [AlertsNext]_alertVars => ToldInv'
<1> SUFFICES ASSUME ToldInv, [AlertsNext]_alertVars
             PROVE  ToldInv'
  OBVIOUS
<1>1. CASE UNCHANGED alertVars
  BY <1>1 DEF alertVars, ToldInv, AlertsTypeOK, StampsArePast, CountedWasTold, WithheldWasTold
<1>2. QED
  BY <1>1, Announced, Decided, Told, Failed, Ended DEF AlertsNext

(* Whatever happens, nothing is withheld from an operator who was not told *)
(* as often in this window.                                                *)
THEOREM NothingWithheld == AlertsSpec => []WithheldWasTold
<1>1. ToldInv => WithheldWasTold
  BY DEF ToldInv
<1>2. QED
  BY <1>1, ToldInit, ToldStep, PTL DEF AlertsSpec

-----------------------------------------------------------------------------
(* And nothing is told too often, where nothing that excuses it happened.  *)

LEMMA BudgetInit == AlertsInit => BudgetInv
<1> SUFFICES ASSUME AlertsInit
             PROVE  Undisturbed /\ ToldIsCounted /\ NeverFlooded
  BY DEF BudgetInv
<1>1. (\A a \in Announcers : caller[a].step = "idle") /\ \A k \in Kinds : told[k] = {}
  BY DEF AlertsInit, Quiet, NoStamps
<1>2. QED
  BY <1>1 DEF Undisturbed, ToldIsCounted, NeverFlooded

(* While one process announces, the others are idle.                       *)
LEMMA Alone ==
  ASSUME Undisturbed, NEW a \in Announcers, caller[a].step # "idle"
  PROVE  \A b \in Announcers \ {a} : caller[b].step = "idle"
BY DEF Undisturbed

LEMMA BudgetAnnounced ==
  ASSUME ToldInv, BudgetInv, NEW a \in Announcers, NEW k \in Kinds, Announces(a, k), ~excused'
  PROVE  Undisturbed' /\ ToldIsCounted' /\ NeverFlooded'
<1>1. PICK loaded \in {notify, NoStamps} :
        /\ caller' = [caller EXCEPT ![a] =
                        [Quiet EXCEPT !.step = "decide", !.kind = k, !.loaded = loaded]]
        /\ excused' = (excused \/ Overlaps(a) \/ loaded # notify)
  BY Zenon DEF Announces
<1>2. ~excused /\ ~Overlaps(a) /\ loaded = notify /\ UNCHANGED <<clock, notify, told>>
      /\ caller[a].step = "idle"
  BY <1>1, Zenon DEF Announces
<1>3. caller'[a].step = "decide" /\ caller'[a].loaded = notify /\ Others(a)
  BY <1>1, <1>2 DEF ToldInv, AlertsTypeOK, Quiet, Others
<1>4. \A b \in Announcers : caller[b].step = "idle"
  BY <1>2 DEF Overlaps
<1>5. Undisturbed'
  BY <1>2, <1>3, <1>4 DEF Undisturbed, Others
<1>6. ToldIsCounted'
  BY <1>2, <1>4 DEF BudgetInv, ToldIsCounted
<1>7. NeverFlooded'
  BY <1>2, <1>1 DEF BudgetInv, NeverFlooded
<1>8. QED
  BY <1>5, <1>6, <1>7

LEMMA BudgetDecided ==
  ASSUME ToldInv, BudgetInv, NEW a \in Announcers, Decides(a), ~excused'
  PROVE  Undisturbed' /\ ToldIsCounted' /\ NeverFlooded'
<1> DEFINE now == clock + 1
           c == caller[a]
           cleaned == Cleaned(c.loaded, now)
           stamped == [cleaned EXCEPT ![c.kind] = @ \union {now}]
<1>1. /\ c.step = "decide" /\ clock' = now /\ UNCHANGED <<notify, told>> /\ Others(a)
      /\ caller'[a].kind = c.kind /\ caller'[a].loaded = c.loaded /\ caller'[a].stamp = now
      /\ \/ caller'[a].step = "suppressed" /\ caller'[a].updated = cleaned /\ excused' = excused
         \/ /\ Cardinality(cleaned[c.kind]) < Limit
            /\ caller'[a].step = "send" /\ caller'[a].updated = Evicted(stamped)
            /\ excused' = (excused \/ Evicted(stamped) # stamped)
  BY DecisionOf, Zenon DEF ToldInv
<1>2. ~excused /\ (caller'[a].step = "send" => caller'[a].updated = stamped)
  <2> HIDE DEF stamped
  <2>1. CASE caller'[a].step = "suppressed" /\ excused' = excused
    BY <2>1
  <2>2. CASE caller'[a].updated = Evicted(stamped) /\ excused' = (excused \/ Evicted(stamped) # stamped)
    BY <2>2, Zenon
  <2>3. QED
    BY <1>1, <2>1, <2>2, Zenon
<1>3. Undisturbed /\ ToldIsCounted /\ NeverFlooded
  BY <1>2 DEF BudgetInv
<1>4. \A b \in Announcers \ {a} : caller'[b].step = "idle"
  BY <1>1, <1>3, Alone DEF Others
<1>5. c.loaded = notify /\ now \in Nat /\ clock \in Nat /\ c.kind \in Kinds
      /\ told \in [Kinds -> SUBSET Nat] /\ notify \in [Kinds -> SUBSET Nat]
  BY <1>1, <1>3 DEF Undisturbed, ToldInv, AlertsTypeOK, Callers
<1>6. /\ cleaned \in [Kinds -> SUBSET Nat]
      /\ \A k \in Kinds : cleaned[k] = Recent(c.loaded[k], now)
  BY <1>5, CleanedType
<1>7. stamped = Stamped(caller'[a])
  <2>1. Stamped(caller'[a]) = [k \in Kinds |-> IF k = c.kind THEN cleaned[k] \union {now} ELSE cleaned[k]]
    BY <1>1 DEF Stamped
  <2>2. stamped = [k \in Kinds |-> IF k = c.kind THEN cleaned[k] \union {now} ELSE cleaned[k]]
    <3> HIDE DEF cleaned, now
    <3>1. QED
      BY <1>5, <1>6
  <2>3. QED
    BY <2>1, <2>2
<1>8. \A k \in Kinds : \A t \in told[k] : t < now
  BY <1>5 DEF ToldInv, StampsArePast
<1>9. caller'[a].step = "suppressed" => caller'[a].updated = Cleaned(caller'[a].loaded, caller'[a].stamp)
  BY <1>1
<1>10. caller'[a].step = "send" => Cardinality(Recent(caller'[a].loaded[c.kind], now)) < Limit
  BY <1>1, <1>5, <1>6
<1> HIDE DEF cleaned, stamped
<1>11. Undisturbed'
  <2>1. caller'[a].step \in {"suppressed", "send"} /\ caller'[a].loaded = notify' /\ caller'[a].stamp = clock'
    BY <1>1, <1>5
  <2>2. ASSUME NEW d \in Announcers, caller'[d].step # "idle"
        PROVE  d = a
    BY <1>4, <2>2
  <2>3. QED
    BY <1>1, <1>2, <1>7, <1>8, <1>9, <1>10, <2>1, <2>2 DEF Undisturbed
<1>12. ToldIsCounted'
  <2>1. ASSUME NEW k \in Kinds, NEW t \in told[k], t + Window >= now
        PROVE  t \in notify[k]
    <3>1. t \in Nat /\ t + Window >= clock
      BY <1>5, <2>1, AlertsAssumption DEF AlertsAssumption
    <3>2. \A b \in Announcers : caller[b].step # "told"
      BY <1>1, <1>3, Alone
    <3>3. QED
      BY <1>3, <3>1, <3>2 DEF ToldIsCounted
  <2>2. QED
    BY <1>1, <2>1 DEF ToldIsCounted
<1>13. NeverFlooded'
  BY <1>1, <1>2, <1>3 DEF NeverFlooded
<1>14. QED
  BY <1>11, <1>12, <1>13

(* The stamp that is told is the last one, and there was room for it.      *)
LEMMA BudgetTold ==
  ASSUME ToldInv, BudgetInv, NEW a \in Announcers, Tells(a), ~excused'
  PROVE  Undisturbed' /\ ToldIsCounted' /\ NeverFlooded'
<1> DEFINE c == caller[a]
<1>1. /\ c.step = "send" /\ UNCHANGED <<clock, notify, excused>> /\ c \in Callers
      /\ told' = [told EXCEPT ![c.kind] = @ \union {c.stamp}]
      /\ caller' = [caller EXCEPT ![a].step = "told"]
  BY DEF Tells, ToldInv, AlertsTypeOK
<1>2. /\ Others(a) /\ caller'[a].step = "told"
      /\ caller'[a].kind = c.kind /\ caller'[a].loaded = c.loaded /\ caller'[a].stamp = c.stamp
      /\ caller'[a].updated = c.updated
  BY <1>1 DEF ToldInv, AlertsTypeOK, Callers, Others
<1>3. /\ \A k \in Kinds : told'[k] = told[k] \union (IF k = c.kind THEN {c.stamp} ELSE {})
      /\ \A k \in Kinds : told[k] \subseteq 1..clock
      /\ c.kind \in Kinds /\ c.stamp \in Nat /\ clock \in Nat
      /\ told \in [Kinds -> SUBSET Nat]
  BY <1>1 DEF ToldInv, AlertsTypeOK, Callers, StampsArePast
<1>4. Undisturbed /\ ToldIsCounted /\ NeverFlooded
  BY <1>1 DEF BudgetInv
<1>5. \A b \in Announcers \ {a} : caller[b].step = "idle" /\ caller'[b].step = "idle"
  BY <1>1, <1>2, <1>4, Alone DEF Others
<1>6. /\ c.loaded = notify /\ c.stamp = clock /\ c.updated = Stamped(c)
      /\ Cardinality(Recent(c.loaded[c.kind], c.stamp)) < Limit
      /\ \A k \in Kinds : \A t \in told[k] : t < c.stamp
  BY <1>1, <1>4 DEF Undisturbed
<1>7. Undisturbed'
  <2>1. Stamped(c)' = Stamped(c)
    BY <1>2 DEF Stamped
  <2>2. QED
    BY <1>1, <1>2, <1>5, <1>6, <2>1 DEF Undisturbed
<1>8. ToldIsCounted'
  <2>1. \A k \in Kinds : \A t \in told[k] : t + Window >= clock => t \in notify[k]
    BY <1>1, <1>4, <1>5 DEF ToldIsCounted
  <2>2. QED
    BY <1>1, <1>2, <1>3, <2>1 DEF ToldIsCounted
<1>9. NeverFlooded'
  <2>1. ASSUME NEW k \in Kinds, NEW t \in told[k]
        PROVE  Cardinality(Recent({u \in told'[k] : u <= t}, t)) <= Limit
    <3>1. {u \in told'[k] : u <= t} = {u \in told[k] : u <= t}
      BY <1>3, <1>6, <2>1
    <3>2. QED
      BY <1>1, <1>4, <2>1, <3>1 DEF NeverFlooded
  <2>2. Cardinality(Recent({u \in told'[c.kind] : u <= c.stamp}, c.stamp)) <= Limit
    <3> DEFINE before == Recent(told[c.kind], c.stamp)
               after == Recent({u \in told'[c.kind] : u <= c.stamp}, c.stamp)
    <3>1. after \subseteq before \union {c.stamp}
      BY <1>3 DEF Recent
    <3>2. before \subseteq Recent(c.loaded[c.kind], c.stamp)
      BY <1>1, <1>3, <1>4, <1>5, <1>6 DEF Recent, ToldIsCounted
    <3>3. Recent(c.loaded[c.kind], c.stamp) \subseteq 1..clock /\ before \subseteq 1..clock
      BY <1>3, <1>6 DEF Recent, ToldInv, CountedWasTold
    <3>4. Cardinality(before) < Limit /\ Cardinality(before) \in Nat /\ IsFiniteSet(before)
      BY <1>3, <1>6, <3>2, <3>3, SmallerIsSmaller, PastIsFinite, AlertsAssumption DEF AlertsAssumption
    <3> HIDE DEF before
    <3>5. /\ IsFiniteSet(before \union {c.stamp})
          /\ Cardinality(before \union {c.stamp}) <= Cardinality(before) + 1
          /\ Cardinality(before \union {c.stamp}) \in Nat
      <4>1. /\ IsFiniteSet(before \union {c.stamp})
            /\ Cardinality(before \union {c.stamp})
                 = IF c.stamp \in before THEN Cardinality(before) ELSE Cardinality(before) + 1
        BY <3>4, FS_AddElement
      <4>2. QED
        BY <3>4, <4>1
    <3> HIDE DEF after
    <3>6. Cardinality(after) <= Cardinality(before \union {c.stamp}) /\ Cardinality(after) \in Nat
      <4>1. IsFiniteSet(after) /\ Cardinality(after) <= Cardinality(before \union {c.stamp})
        BY <3>1, <3>5, FS_Subset
      <4>2. QED
        BY <4>1, FS_CardinalityType
    <3>7. Cardinality(after) <= Limit
      BY <3>4, <3>5, <3>6, AlertsAssumption DEF AlertsAssumption
    <3>8. QED
      BY <3>7 DEF after
  <2>3. ASSUME NEW k \in Kinds, NEW t \in told'[k]
        PROVE  Cardinality(Recent({u \in told'[k] : u <= t}, t)) <= Limit
    <3>1. t \in told[k] \/ (k = c.kind /\ t = c.stamp)
      BY <1>3, <2>3
    <3>2. QED
      BY <2>1, <2>2, <3>1, Zenon
  <2>4. QED
    BY <2>3, Zenon DEF NeverFlooded
<1>10. QED
  BY <1>7, <1>8, <1>9

LEMMA BudgetFailed ==
  ASSUME ToldInv, BudgetInv, NEW a \in Announcers, TellsNobody(a), ~excused'
  PROVE  Undisturbed' /\ ToldIsCounted' /\ NeverFlooded'
<1>1. /\ caller[a].step = "send" /\ UNCHANGED <<clock, notify, told, excused>> /\ caller[a] \in Callers
      /\ caller' = [caller EXCEPT ![a].step = "failed"]
  BY DEF TellsNobody, ToldInv, AlertsTypeOK
<1>2. /\ Others(a) /\ caller'[a].step = "failed"
      /\ caller'[a].loaded = caller[a].loaded /\ caller'[a].stamp = caller[a].stamp
  BY <1>1 DEF ToldInv, AlertsTypeOK, Callers, Others
<1>3. Undisturbed /\ ToldIsCounted /\ NeverFlooded
  BY <1>1 DEF BudgetInv
<1>4. \A b \in Announcers \ {a} : caller[b].step = "idle" /\ caller'[b].step = "idle"
  BY <1>1, <1>2, <1>3, Alone DEF Others
<1>5. QED
  BY <1>1, <1>2, <1>3, <1>4 DEF Undisturbed, ToldIsCounted, NeverFlooded

(* What is written back holds what was told in the window.                 *)
LEMMA BudgetKept ==
  ASSUME ToldInv, BudgetInv, NEW a \in Announcers, Keeps(a), ~excused'
  PROVE  Undisturbed' /\ ToldIsCounted' /\ NeverFlooded'
<1> DEFINE c == caller[a]
<1>1. /\ caller' = [caller EXCEPT ![a] = Quiet] /\ notify' = WrittenBack(c) /\ UNCHANGED <<clock, told, excused>>
      /\ c.step \in {"suppressed", "told", "failed"} /\ c \in Callers
  BY DEF Keeps, ToldInv, AlertsTypeOK
<1>2. Undisturbed /\ ToldIsCounted /\ NeverFlooded
  BY <1>1 DEF BudgetInv
<1>3. \A b \in Announcers \ {a} : caller[b].step = "idle"
  BY <1>1, <1>2, Alone
<1>4. \A b \in Announcers : caller'[b].step = "idle"
  BY <1>1, <1>3 DEF ToldInv, AlertsTypeOK, Quiet
<1>5. c.loaded = notify /\ c.stamp = clock
  BY <1>1, <1>2 DEF Undisturbed
<1>6. ASSUME NEW k \in Kinds, NEW t \in told[k], t + Window >= clock
      PROVE  t \in notify'[k]
  <2>1. t \in notify[k] \/ (c.step = "told" /\ c.kind = k /\ c.stamp = t)
    BY <1>2, <1>3, <1>6 DEF ToldIsCounted
  <2>2. t \in notify[k] => t \in Cleaned(c.loaded, c.stamp)[k]
    BY <1>5, <1>6 DEF Cleaned, Recent
  <2>3. CASE c.step = "suppressed"
    BY <1>1, <1>2, <2>1, <2>2, <2>3 DEF Undisturbed, WrittenBack
  <2>4. CASE c.step = "told"
    <3>1. notify' = Stamped(c)
      BY <1>1, <1>2, <2>4 DEF Undisturbed, WrittenBack
    <3>2. QED
      BY <2>1, <2>2, <3>1 DEF Stamped
  <2>5. CASE c.step = "failed"
    BY <1>1, <1>5, <2>1, <2>5 DEF WrittenBack
  <2>6. QED
    BY <1>1, <2>3, <2>4, <2>5
<1>7. QED
  BY <1>1, <1>2, <1>4, <1>6 DEF Undisturbed, ToldIsCounted, NeverFlooded

LEMMA BudgetStep == ToldInv /\ BudgetInv /\ [AlertsNext]_alertVars => BudgetInv'
<1> SUFFICES ASSUME ToldInv, BudgetInv, [AlertsNext]_alertVars, ~excused'
             PROVE  Undisturbed' /\ ToldIsCounted' /\ NeverFlooded'
  BY DEF BudgetInv
<1>1. CASE UNCHANGED alertVars
  BY <1>1 DEF alertVars, BudgetInv, Undisturbed, ToldIsCounted, NeverFlooded
<1>2. \A a \in Announcers : ~AnnouncerDies(a)
  BY DEF AnnouncerDies
<1>3. QED
  BY <1>1, <1>2, BudgetAnnounced, BudgetDecided, BudgetTold, BudgetFailed, BudgetKept DEF AlertsNext

(* The rate of notifications of one kind is the configured one, for every  *)
(* limit and window.                                                       *)
THEOREM AlertsRationed == AlertsSpec => []AlertsAreRationed
<1>1. ToldInv /\ BudgetInv => AlertsAreRationed
  BY DEF ToldInv, BudgetInv, AlertsAreRationed, NeverFlooded
<1>2. QED
  BY <1>1, ToldInit, ToldStep, BudgetInit, BudgetStep, PTL DEF AlertsSpec
=============================================================================
