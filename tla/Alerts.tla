------------------------------- MODULE Alerts -------------------------------
(***************************************************************************)
(* Attention events and their notifications (announce and notify_event in  *)
(* observability.py): a process that observed something records it, and    *)
(* tells the operator at most Limit times in Window for each kind, counted *)
(* in notify.json.  The runner and `ariadex recover` announce from         *)
(* processes of their own; nothing locks the file.  Time is the number of  *)
(* decisions taken, so that no two of them have the same stamp.            *)
(***************************************************************************)
EXTENDS Naturals, FiniteSets, FiniteSetsExt

CONSTANTS Announcers,  \* processes that announce
          Kinds,       \* dedup_key: a type of event and an action
          Limit, Window, MaxKeys,
          MaxTime      \* bound: decisions taken

ASSUME AlertsAssumption ==
  /\ Kinds # {}
  /\ Limit \in Nat \ {0} /\ Window \in Nat \ {0} /\ MaxKeys \in Nat \ {0} /\ MaxTime \in Nat

VARIABLES clock,      \* the time of the last decision
          notify,     \* notify.json: [kind -> the stamps kept]
          caller,     \* [announcer -> [step, kind, loaded, updated, stamp]]
          told,       \* history: [kind -> the stamps of what reached the operator]
          excused     \* history: something happened that may cost the limit

alertVars == <<clock, notify, caller, told, excused>>

NoStamps == [k \in Kinds |-> {}]
Quiet == [step |-> "idle", kind |-> CHOOSE k \in Kinds : TRUE,
          loaded |-> NoStamps, updated |-> NoStamps, stamp |-> 0]

AlertsInit ==
  /\ clock = 0 /\ notify = NoStamps /\ told = NoStamps /\ excused = FALSE
  /\ caller = [a \in Announcers |-> Quiet]

Overlaps(a) == \E b \in Announcers \ {a} : caller[b].step # "idle"

\* record_event comes first: what cannot be recorded is not notified.  The
\* state is then read; one that cannot be read counts as empty.
Announces(a, k) ==
  /\ caller[a].step = "idle" /\ clock < MaxTime
  /\ \E loaded \in {notify, NoStamps} :
       /\ caller' = [caller EXCEPT ![a] = [Quiet EXCEPT !.step = "decide", !.kind = k, !.loaded = loaded]]
       /\ excused' = (excused \/ Overlaps(a) \/ loaded # notify)
  /\ UNCHANGED <<clock, notify, told>>

\* What lies in the window that ends now.
Recent(stamps, now) == {t \in stamps : t + Window >= now}

Cleaned(state, now) == [k \in Kinds |-> Recent(state[k], now)]

\* Over the bound on keys, the one with the oldest stamp is forgotten.
Evicted(state) ==
  IF Cardinality({k \in Kinds : state[k] # {}}) <= MaxKeys THEN state
  ELSE LET oldest == Min(UNION {state[k] : k \in Kinds})
       IN [k \in Kinds |-> IF oldest \in state[k] THEN {} ELSE state[k]]

\* notify_allowed
Decides(a) ==
  LET now == clock + 1  c == caller[a]  cleaned == Cleaned(c.loaded, now)
      stamped == [cleaned EXCEPT ![c.kind] = @ \union {now}]
  IN /\ c.step = "decide" /\ clock < MaxTime
     /\ clock' = now
     /\ \/ /\ Cardinality(cleaned[c.kind]) >= Limit
           /\ caller' = [caller EXCEPT ![a].step = "suppressed", ![a].updated = cleaned, ![a].stamp = now]
           /\ UNCHANGED excused
        \/ /\ Cardinality(cleaned[c.kind]) < Limit
           /\ caller' = [caller EXCEPT ![a].step = "send", ![a].updated = Evicted(stamped), ![a].stamp = now]
           /\ excused' = (excused \/ Evicted(stamped) # stamped)
     /\ UNCHANGED <<notify, told>>

\* Each sink is tried; one that takes the event is enough.
Tells(a) ==
  /\ caller[a].step = "send"
  /\ told' = [told EXCEPT ![caller[a].kind] = @ \union {caller[a].stamp}]
  /\ caller' = [caller EXCEPT ![a].step = "told"]
  /\ UNCHANGED <<clock, notify, excused>>

\* Every sink failed, timed out or refused: recorded, and not retried.
TellsNobody(a) ==
  /\ caller[a].step = "send"
  /\ caller' = [caller EXCEPT ![a].step = "failed"]
  /\ UNCHANGED <<clock, notify, told, excused>>

WrittenBack_Budget(c) == c.updated

\* Only a delivery uses up budget: otherwise what was read is written back.
WrittenBack(c) == IF c.step = "failed" THEN c.loaded ELSE c.updated

\* The file is replaced as a whole, or not at all.
Keeps(a) ==
  /\ caller[a].step \in {"suppressed", "told", "failed"}
  /\ \/ notify' = WrittenBack(caller[a]) /\ UNCHANGED excused
     \/ UNCHANGED notify /\ excused' = TRUE
  /\ caller' = [caller EXCEPT ![a] = Quiet]
  /\ UNCHANGED <<clock, told>>

AnnouncerDies(a) ==
  /\ caller[a].step # "idle"
  /\ caller' = [caller EXCEPT ![a] = Quiet]
  /\ excused' = TRUE
  /\ UNCHANGED <<clock, notify, told>>

AlertsNext ==
  \E a \in Announcers :
    \/ \E k \in Kinds : Announces(a, k)
    \/ Decides(a) \/ Tells(a) \/ TellsNobody(a) \/ Keeps(a) \/ AnnouncerDies(a)

AlertsSpec == AlertsInit /\ [][AlertsNext]_alertVars

----------------------------------------------------------------------------
\* "Ariadex emits at most the configured notification rate"
\* (openspec/specs/observability/spec.md:22), unless a process died, a file
\* could not be read or written, keys were evicted, or two announced at once.
NeverFlooded ==
  ~excused => \A k \in Kinds : \A t \in told[k] : Cardinality(Recent({u \in told[k] : u <= t}, t)) <= Limit

\* And, whatever happened, nothing is withheld from an operator who was not
\* told as often in this window: "Consume rate budget only on actual delivery"
\* (observability.py:559), across processes that overwrite each other's count.
WithheldWasTold ==
  \A a \in Announcers : caller[a].step = "suppressed" =>
    Cardinality(Recent(told[caller[a].kind], caller[a].stamp)) >= Limit

\* The rate of notifications of one kind is the configured one: not more when
\* nothing goes wrong, and never less than was observed without reason.
AlertsAreRationed == NeverFlooded /\ WithheldWasTold
=============================================================================
