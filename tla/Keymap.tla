------------------------------- MODULE Keymap -------------------------------
(***************************************************************************)
(* The global keys of Ariadex's windows (ariadex/companion.py): a widget   *)
(* of each project with one key, and two kinds of hub window that offer a  *)
(* key for each of their actions: that of a foreground watch grabs all of  *)
(* them, the hub process that all projects share only one.  They share the *)
(* user's settings file companion.json, which every save reads and         *)
(* rewrites as a whole, and the keys of the X server, which grants each to *)
(* one client.                                                             *)
(***************************************************************************)
EXTENDS Naturals, FiniteSets

CONSTANTS
  Widgets,         \* CompanionWindow of run_companion
  WatchHub,        \* RobotHubWindow of run_robot_hub, with an adapter for each action
  SharedHub,       \* RobotHubWindow of run_hub_window, with one adapter
  KEYMAP_ACTIONS, DEFAULT_KEYMAP,
  Keys,            \* keys an operator may choose
  Legacy,          \* what a file of an older version may hold as its one hotkey
  Unset,
  MaxSaves         \* bound of the model

(* No two defaults are the same key; Unset is Python's None.               *)
ASSUME KeymapAssumption ==
  /\ WatchHub # SharedHub /\ {WatchHub, SharedHub} \cap Widgets = {}
  /\ "yield" \in KEYMAP_ACTIONS /\ Unset \notin KEYMAP_ACTIONS
  /\ DEFAULT_KEYMAP \in [KEYMAP_ACTIONS -> Keys]
  /\ \A a, b \in KEYMAP_ACTIONS : DEFAULT_KEYMAP[a] = DEFAULT_KEYMAP[b] => a = b
  /\ Legacy \subseteq Keys \cup {Unset} /\ Unset \notin Keys
  /\ Unset \notin [KEYMAP_ACTIONS -> Keys \cup {Unset}]
  /\ Unset \notin (Widgets \cup {WatchHub, SharedHub}) \X KEYMAP_ACTIONS

VARIABLES
  stored,    \* the file's "keymap": Unset, or the actions an operator has set
  legacy,    \* the file's "hotkey"
  save,      \* the save of each window: its step, what it patches, what it has read
  keys,      \* the keys each open window shows
  hotkey,    \* self.hotkey of SharedHub
  grabbed,   \* the X server: the <<window, action>> that holds each key, or Unset
  saves      \* how many saves were begun

keymapVars == <<stored, legacy, save, keys, hotkey, grabbed, saves>>

Windows == Widgets \cup {WatchHub, SharedHub}

(* What an operator may bind in a window.                                  *)
ActionsOf(w) == IF w \in Widgets THEN {"yield"} ELSE KEYMAP_ACTIONS

(* effective_keymap: the stored keys over the defaults; the old hotkey is  *)
(* the yield key as long as no map is stored.                              *)
Effective(map, old) ==
  [action \in KEYMAP_ACTIONS |->
     IF map # Unset THEN IF map[action] # Unset THEN map[action] ELSE DEFAULT_KEYMAP[action]
     ELSE IF action = "yield" /\ old # Unset THEN old ELSE DEFAULT_KEYMAP[action]]

(* configured_hotkey: a map without a yield key leaves the old hotkey.     *)
Configured(map, old) ==
  IF map # Unset /\ map["yield"] # Unset THEN map["yield"]
  ELSE IF old # Unset THEN old ELSE DEFAULT_KEYMAP["yield"]

Opened(w, map, old) ==
  IF w \in Widgets THEN [Effective(map, old) EXCEPT !["yield"] = Configured(map, old)]
  ELSE Effective(map, old)

NoSave == [step |-> "none", action |-> Unset, key |-> Unset, map |-> Unset, old |-> Unset]

Distinct(map) == \A a, b \in KEYMAP_ACTIONS : map[a] = map[b] => a = b

KeymapInit ==
  /\ stored = Unset /\ legacy \in Legacy
  /\ save = [w \in Windows |-> NoSave]
  /\ keys = [w \in Windows |-> Unset] /\ hotkey = Unset
  /\ grabbed = [k \in Keys |-> Unset]
  /\ saves = 0

-----------------------------------------------------------------------------
(* Grabs.  A key someone holds already, or one the server refuses, stays   *)
(* with its holder and is reported as inactive.                            *)

Released(w) == [k \in Keys |-> IF grabbed[k] # Unset /\ grabbed[k][1] = w THEN Unset ELSE grabbed[k]]

(* _register_keymap: without an adapter_factory only self.hotkey is asked  *)
(* for, whatever the map says.                                             *)
Asked(w, map, fixed) ==
  IF w = SharedHub THEN [action \in {"yield"} |-> fixed] ELSE [action \in ActionsOf(w) |-> map[action]]

(* The server grants some of the keys that are free, each to one action.   *)
Grabs(w, asked, before) ==
  LET free == {action \in DOMAIN asked : before[asked[action]] = Unset}
  IN  {[k \in Keys |-> IF \E action \in granted : asked[action] = k
                       THEN <<w, CHOOSE action \in granted : asked[action] = k>> ELSE before[k]] :
         granted \in {G \in SUBSET free : \A a, b \in G : asked[a] = asked[b] => a = b}}

Rebinds_WithoutRelease(w, asked) == grabbed' \in Grabs(w, asked, grabbed)

(* The old grabs are released before the new ones are asked for.           *)
Rebinds(w, asked) == grabbed' \in Grabs(w, asked, Released(w))

Opens(w) ==
  /\ keys[w] = Unset
  /\ keys' = [keys EXCEPT ![w] = Opened(w, stored, legacy)]
  /\ hotkey' = IF w = SharedHub THEN Configured(stored, legacy) ELSE hotkey
  /\ Rebinds(w, Asked(w, Opened(w, stored, legacy), hotkey'))
  /\ UNCHANGED <<stored, legacy, save, saves>>

(* A window that closes, or whose process dies, during a save too.         *)
Closes(w) ==
  /\ keys[w] # Unset
  /\ keys' = [keys EXCEPT ![w] = Unset]
  /\ save' = [save EXCEPT ![w] = NoSave]
  /\ hotkey' = IF w = SharedHub THEN Unset ELSE hotkey
  /\ grabbed' = Released(w)
  /\ UNCHANGED <<stored, legacy, saves>>

-----------------------------------------------------------------------------
(* save_keymap and save_user_config.                                       *)

Idle(w) ==
  /\ keys[w] # Unset /\ save[w] = NoSave
  /\ saves < MaxSaves

(* The operator applies a key; one bound to another action is refused.     *)
SaveBegins(w) ==
  /\ Idle(w)
  /\ \E action \in ActionsOf(w), key \in Keys :
       /\ Distinct([Effective(stored, legacy) EXCEPT ![action] = key])
       /\ save' = [save EXCEPT ![w] = [NoSave EXCEPT !.step = "merge", !.action = action, !.key = key]]
  /\ saves' = saves + 1
  /\ UNCHANGED <<stored, legacy, keys, hotkey, grabbed>>

NoKeys == [action \in KEYMAP_ACTIONS |-> Unset]

(* The stored map is read again and patched.                               *)
SaveMerges(w) ==
  /\ save[w].step = "merge"
  /\ LET map == IF stored = Unset THEN NoKeys ELSE stored
     IN  save' = [save EXCEPT ![w].step = "load", ![w].map = [map EXCEPT ![save[w].action] = save[w].key]]
  /\ UNCHANGED <<stored, legacy, keys, hotkey, grabbed, saves>>

(* The whole file is read a last time; its keymap is the one to replace.   *)
SaveLoads(w) ==
  /\ save[w].step = "load"
  /\ save' = [save EXCEPT ![w].step = "write", ![w].old = legacy]
  /\ UNCHANGED <<stored, legacy, keys, hotkey, grabbed, saves>>

(* The file is replaced; the window takes the key and asks for it.  A      *)
(* widget that got its key repeats it as the hotkey older versions read.   *)
SaveWrites(w) ==
  /\ save[w].step = "write"
  /\ stored' = save[w].map /\ legacy' = save[w].old
  /\ keys' = [keys EXCEPT ![w][save[w].action] = save[w].key]
  /\ Rebinds(w, Asked(w, [keys[w] EXCEPT ![save[w].action] = save[w].key], hotkey))
  /\ save' = [save EXCEPT ![w] =
       IF w \in Widgets /\ grabbed'[save[w].key] = <<w, "yield">>
       THEN [NoSave EXCEPT !.step = "reload", !.key = save[w].key] ELSE NoSave]
  /\ UNCHANGED <<hotkey, saves>>

SaveFails(w) ==
  /\ save[w].step = "write"
  /\ save' = [save EXCEPT ![w] = NoSave]
  /\ UNCHANGED <<stored, legacy, keys, hotkey, grabbed, saves>>

(* Any other setting is saved the same way, the position of a window too.  *)
GeometryBegins(w) ==
  /\ w \in Widgets /\ Idle(w)
  /\ save' = [save EXCEPT ![w] = [NoSave EXCEPT !.step = "reload"]]
  /\ saves' = saves + 1
  /\ UNCHANGED <<stored, legacy, keys, hotkey, grabbed>>

OtherLoads(w) ==
  /\ save[w].step = "reload"
  /\ save' = [save EXCEPT ![w].step = "rewrite", ![w].map = stored,
                          ![w].old = IF save[w].key # Unset THEN save[w].key ELSE legacy]
  /\ UNCHANGED <<stored, legacy, keys, hotkey, grabbed, saves>>

OtherWrites(w) ==
  /\ save[w].step = "rewrite"
  /\ \/ stored' = save[w].map /\ legacy' = save[w].old
     \/ UNCHANGED <<stored, legacy>>
  /\ save' = [save EXCEPT ![w] = NoSave]
  /\ UNCHANGED <<keys, hotkey, grabbed, saves>>

KeymapNext ==
  \E w \in Windows :
    \/ Opens(w) \/ Closes(w)
    \/ SaveBegins(w) \/ SaveMerges(w) \/ SaveLoads(w) \/ SaveWrites(w) \/ SaveFails(w)
    \/ GeometryBegins(w) \/ OtherLoads(w) \/ OtherWrites(w)

KeymapSpec == KeymapInit /\ [][KeymapNext]_keymapVars

-----------------------------------------------------------------------------
(* "rebinding never stacks listeners" (companion.py:3758): however saves   *)
(* of several windows overlap and whatever the server refuses, a window    *)
(* holds no key but those of its last request.  With an adapter for each   *)
(* action they are the keys it shows; the shared hub holds the one it was  *)
(* opened with; a closed window holds none.                                *)
NoStaleGrabs ==
  \A k \in Keys : grabbed[k] # Unset =>
    LET w == grabbed[k][1]  action == grabbed[k][2]  asked == Asked(w, keys[w], hotkey)
    IN  keys[w] # Unset /\ action \in DOMAIN asked /\ asked[action] = k

(* "a keymap menu listing every global binding with its current key"       *)
(* (hub-controls/spec.md:32): the keys a window holds are those it shows.  *)
GrabsAreShown ==
  \A k \in Keys : grabbed[k] # Unset =>
    LET w == grabbed[k][1] IN keys[w] # Unset /\ keys[w][grabbed[k][2]] = k

(* "Duplicates across actions are refused" (companion.py:638): no key      *)
(* means two actions.                                                      *)
KeysStayApart == Distinct(Effective(stored, legacy))
=============================================================================
