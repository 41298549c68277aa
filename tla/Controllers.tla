------------------------------ MODULE Controllers ------------------------------
(* The controller of one port: what its buttons, its sticks, its rumble, LED *)
(* and gyro are mapped to, how an edit of the input editor writes it to the  *)
(* configuration in several saves, what a session started later makes of it, *)
(* and how the events of the keyboard reach the mappings.                    *)
(*                                                                           *)
(* Every change of a console variable below is followed by its Save() before *)
(* the next one: ids, data and hasConfig are both the variables and the file *)
(* (what a Save does is ConsoleVariable), and the program may be killed      *)
(* between two of them.                                                      *)
EXTENDS Integers, FiniteSets, Sequences, SequencesExt

CONSTANTS
  Ports,           \* the first, which has default mappings, is 1
  Buttons, Sticks, Directions,
  Rumble, LED, Gyro,
  Keys,            \* keys of the keyboard
  Mice,            \* mouse buttons and the directions of its wheel
  Pads,            \* buttons and axes of gamepads
  SDL,             \* what rumble, LED and gyro are mapped to
  Defaults,        \* ControllerDefaultMappings: the game's
  Rank,            \* the order in which the tables of mappings are run through
  None,
  MaxEdits,        \* bound: edits of the mappings, over all sessions
  MaxStops         \* bound: sessions that end

ASSUME HoldersDiffer ==
  /\ Rumble # LED /\ LED # Gyro /\ Rumble # Gyro
  /\ {Rumble, LED, Gyro} \intersect (Buttons \union Sticks) = {}
  /\ Buttons \intersect Sticks = {}
ASSUME InputsDiffer ==
  /\ Keys \intersect Mice = {} /\ (Keys \union Mice) \intersect Pads = {}
  /\ SDL \notin Keys \union Mice \union Pads
  /\ None \notin Keys \union Mice \union Pads \union {SDL}

Inputs == Keys \union Mice \union Pads

(* A mapping's id names its port, its button or direction and its input, so *)
(* a mapping is its id; that of rumble, LED and gyro is the port alone.     *)
Mappings ==
  [holder : Buttons, direction : {None}, input : Inputs]
    \union [holder : Sticks, direction : Directions, input : Inputs]
    \union [holder : {Rumble, LED, Gyro}, direction : {None}, input : {SDL}]

ASSUME HoldersAreFinite == IsFiniteSet(Buttons) /\ IsFiniteSet(Sticks)
ASSUME BoundsAssumption == MaxEdits \in Nat /\ MaxStops \in Nat

ASSUME DefaultsAreMappings ==
  Defaults \subseteq {m \in Mappings : m.holder \in Buttons \union Sticks /\ m.input \notin Mice}
ASSUME RankOrders == /\ Rank \in [Mappings -> Nat]
                     /\ \A m, n \in Mappings : Rank[m] = Rank[n] => m = n

DeviceTypes == {"Keyboard", "Mouse", "SDLGamepad"}

TypeOf(m) == CASE m.input \in Keys -> "Keyboard"
               [] m.input \in Mice -> "Mouse"
               [] OTHER -> "SDLGamepad"

VARIABLES
  port,       \* the controller's port
  mappings,   \* mButtonMappings, mAxisDirectionMappings, ...: those in memory
  known,      \* the <<stick, direction>> that have an entry in its table
  ids,        \* the mappings the lists of ids in the configuration name
  data,       \* the mappings whose own variables are in the configuration
  hasConfig,  \* the port's HasConfig
  todo,       \* what is left to do of the edit under way
  program,    \* "running"; "stopped"; "dead": it dereferenced a null pointer
  held,       \* the keys that were last reported down
  pressed,    \* the keyboard mappings whose mKeyPressed is set
  listening,  \* mUseEventInputToCreateNewMapping of a button or stick
  newKey,     \* mKeyboardScancodeForNewMapping of a button or stick
  about,      \* what the edit under way may add or remove
  cut,        \* what edits cut short by the end of a session were about
  edits, stops

memory  == <<mappings, known>>
config  == <<ids, data, hasConfig>>
keys    == <<held, pressed, listening, newKey>>
history == <<port, about, cut, edits, stops>>
vars    == <<memory, config, todo, program, keys, history>>

Mapped == Buttons \union Sticks      \* what keys and mice can be mapped to
Of(h, S) == {m \in S : m.holder = h}
GyroMapping == [holder |-> Gyro, direction |-> None, input |-> SDL]

(***************************************************************************)
(* The steps of an edit.  Each ends with a Save, but "add".                *)
(***************************************************************************)

Do(what, h, S) == [do |-> what, holder |-> h, these |-> S]

(* EraseFromConfig or SaveToConfig of each of S in turn. *)
Each(what, h, S) == IF S = {} THEN <<>> ELSE <<Do(what, h, S)>>

(* Save...MappingIdsToConfig of h.  A stick writes the lists of those       *)
(* directions alone that its table has an entry for.                        *)
RelistedUnlessEmpty(h, now, entries) ==
  IF Of(h, now) = {} THEN ids
  ELSE {m \in ids : m.holder = h => h \in Sticks /\ <<h, m.direction>> \notin entries}
         \union Of(h, now)

Relisted(h, now, entries) ==
  {m \in ids : m.holder = h => h \in Sticks /\ <<h, m.direction>> \notin entries}
    \union Of(h, now)

Entries(S) == {<<m.holder, m.direction>> : m \in {n \in S : n.holder \in Sticks}}

(* Clear...Mapping of mappings S of h, as the "x" of the editor calls it. *)
Removal(h, S) == Each("erase", h, S) \o <<Do("forget", h, S)>>

(* ClearAll...Mappings.  A gyro without a mapping returns early; a stick   *)
(* empties its table before it saves the lists, so that none is written.   *)
ClearAll(h) ==
  LET S == Of(h, mappings)
  IN CASE h = Gyro /\ S = {} -> <<>>
       [] h \in Sticks -> Each("erase", h, S) \o <<Do("drop", h, S)>>
       [] OTHER -> Removal(h, S)

(* ClearAll...MappingsForDeviceType.  The loop of a stick erases from      *)
(* copies of its tables: nothing leaves memory, or the lists.              *)
ClearType(h, type) ==
  LET S == {m \in Of(h, mappings) : TypeOf(m) = type}
  IN CASE h = Gyro /\ S = {} -> <<>>
       [] h \in Sticks -> Each("erase", h, S) \o <<Do("list", h, {})>>
       [] OTHER -> Removal(h, S)

(* What AddDefaultMappings adds to h.  Rumble does not look at the type. *)
DefaultsFor(h, type) ==
  IF h = Rumble THEN {[holder |-> Rumble, direction |-> None, input |-> SDL]}
                ELSE {m \in Of(h, Defaults) : TypeOf(m) = type}

(* AddDefaultMappings of h when its table holds S: each mapping of the table *)
(* is saved, those that were there before too.                               *)
AddDefaultsOnly(h, S, type) ==
  LET D == DefaultsFor(h, type)
  IN Each("add", h, D) \o Each("store", h, D) \o <<Do("list", h, {})>>

AddDefaults(h, S, type) ==
  LET D == DefaultsFor(h, type)
  IN Each("add", h, D) \o Each("store", h, S \union D) \o <<Do("list", h, {})>>

(* What ClearType(_, type) leaves in memory. *)
Kept(type) == {m \in mappings : TypeOf(m) = type => m.holder \in Sticks}

(* Controller: its buttons, its sticks, then the rest. *)
First == SetToSeq(Buttons) \o SetToSeq(Sticks)

InTurn(Steps(_), holders) == FlattenSeq([i \in DOMAIN holders |-> Steps(holders[i])])

(* Controller::AddDefaultMappings when the tables hold S. *)
ControllerDefaults(S, type) ==
  InTurn(LAMBDA h : AddDefaults(h, Of(h, S), type), First \o <<Rumble>>)
    \o <<Do("config", None, {})>>

DefaultsOf(types) == UNION {DefaultsFor(h, t) : h \in Mapped \union {Rumble}, t \in types}

(***************************************************************************)
(* One step of the edit under way, up to its Save.                         *)
(***************************************************************************)

Rest(step, m) ==
  IF step.these = {m} THEN Tail(todo)
                      ELSE <<[step EXCEPT !.these = @ \ {m}]>> \o Tail(todo)

Erase(step) ==
  \E m \in step.these :
    /\ data' = data \ {m}
    /\ todo' = Rest(step, m)
    /\ UNCHANGED <<memory, ids, hasConfig, pressed>>

Store(step) ==
  \E m \in step.these :
    /\ data' = data \union {m}
    /\ todo' = Rest(step, m)
    /\ UNCHANGED <<memory, ids, hasConfig, pressed>>

(* A mapping added anew is a new object, with its key up. *)
Add(step) ==
  /\ mappings' = mappings \union step.these
  /\ known' = known \union Entries(step.these)
  /\ pressed' = pressed \ step.these
  /\ todo' = Tail(todo)
  /\ UNCHANGED config

ForgetButPressed(step) ==
  /\ mappings' = mappings \ step.these
  /\ ids' = Relisted(step.holder, mappings', known)
  /\ todo' = Tail(todo)
  /\ UNCHANGED <<known, data, hasConfig, pressed>>

Forget(step) ==
  /\ mappings' = mappings \ step.these
  /\ pressed' = pressed \ step.these
  /\ ids' = Relisted(step.holder, mappings', known)
  /\ todo' = Tail(todo)
  /\ UNCHANGED <<known, data, hasConfig>>

Drop(step) ==
  /\ mappings' = mappings \ step.these
  /\ pressed' = pressed \ step.these
  /\ known' = {e \in known : e[1] # step.holder}
  /\ ids' = Relisted(step.holder, mappings', known')
  /\ todo' = Tail(todo)
  /\ UNCHANGED <<data, hasConfig>>

SaveIds(step) ==
  /\ ids' = Relisted(step.holder, mappings, known)
  /\ todo' = Tail(todo)
  /\ UNCHANGED <<memory, data, hasConfig, pressed>>

SetHasConfig(step) ==
  /\ hasConfig' = TRUE
  /\ todo' = Tail(todo)
  /\ UNCHANGED <<memory, ids, data, pressed>>

Edit ==
  /\ program = "running"
  /\ todo # <<>>
  /\ LET step == Head(todo)
     IN CASE step.do = "erase"  -> Erase(step)
          [] step.do = "store"  -> Store(step)
          [] step.do = "add"    -> Add(step)
          [] step.do = "forget" -> Forget(step)
          [] step.do = "drop"   -> Drop(step)
          [] step.do = "list"   -> SaveIds(step)
          [] step.do = "config" -> SetHasConfig(step)
  /\ about' = IF todo' = <<>> THEN {} ELSE about
  /\ UNCHANGED <<port, program, held, listening, newKey, cut, edits, stops>>

(***************************************************************************)
(* The input editor.  It and the events run on the game's thread: an edit  *)
(* is over before the next begins.                                         *)
(***************************************************************************)

Idle == program = "running" /\ todo = <<>>

Begin(steps, mine) ==
  /\ Idle
  /\ edits < MaxEdits
  /\ edits' = edits + 1
  /\ todo' = steps
  /\ about' = IF steps = <<>> THEN {} ELSE mine
  /\ UNCHANGED <<port, memory, config, program, held, pressed, cut, stops>>

(* AddOrEdit...MappingFromRawPress finds nothing pressed, and from now on   *)
(* wants to hear of the next key before the mappings do.  The popup that    *)
(* calls it may be cancelled: nothing stops the listening then.             *)
Listen(h) ==
  /\ Idle
  /\ newKey[h] = None
  /\ listening' = [listening EXCEPT ![h] = TRUE]
  /\ UNCHANGED <<memory, config, todo, program, held, pressed, newKey, history>>

(* What it finds: the key it was told of, or else a mouse button or gamepad *)
(* input pressed right now.                                                 *)
Found(h) == IF newKey[h] # None THEN {newKey[h]} ELSE Mice \union Pads

(* It maps what it found, in place of the mapping it edits if there is one. *)
AddOrEdit(h, d, input, olds) ==
  LET new == [holder |-> h, direction |-> d, input |-> input]
  IN /\ new \in Mappings
     /\ input \in Found(h)
     /\ Begin((IF olds = {} THEN <<>> ELSE Removal(h, olds))
                \o <<Do("add", h, {new}), Do("store", h, {new}), Do("list", h, {}),
                     Do("config", None, {})>>,
              olds \union {new})
     /\ newKey' = [newKey EXCEPT ![h] = None]
     /\ listening' = [listening EXCEPT ![h] = FALSE]

AddOrEditAny ==
  \E h \in Mapped, d \in Directions \union {None}, input \in Inputs :
    \E olds \in {{}} \union {{m} : m \in {n \in Of(h, mappings) : n.direction = d}} :
      AddOrEdit(h, d, input, olds)

(* Add...MappingFromRawPress of rumble and LED, SetGyroMappingFromRawPress. *)
SetOutput(h) ==
  LET new == [holder |-> h, direction |-> None, input |-> SDL]
  IN /\ Begin(<<Do("add", h, {new}), Do("store", h, {new}), Do("list", h, {}),
                Do("config", None, {})>>, {new})
     /\ UNCHANGED <<listening, newKey>>

ClearMapping(m) ==
  /\ m \in mappings
  /\ Begin(Removal(m.holder, {m}), {m})
  /\ UNCHANGED <<listening, newKey>>

ClearAllMappings ==
  /\ Begin(InTurn(ClearAll, First \o <<Gyro, Rumble, LED>>), mappings)
  /\ UNCHANGED <<listening, newKey>>

(* "Set Defaults": ClearAllMappingsForDeviceType, then AddDefaultMappings. *)
SetDefaults(type) ==
  /\ Begin(InTurn(LAMBDA h : ClearType(h, type), First \o <<Gyro, Rumble, LED>>)
             \o ControllerDefaults(Kept(type), type),
           {m \in mappings : TypeOf(m) = type} \union DefaultsOf({type}))
  /\ UNCHANGED <<listening, newKey>>

(* Reading the pad, or drawing the editor, looks up each direction of each *)
(* stick with operator[], which makes the entries that were missing.       *)
ReadPad ==
  /\ Idle
  /\ known' = Sticks \X Directions
  /\ UNCHANGED <<mappings, config, todo, program, keys, history>>

(***************************************************************************)
(* The keyboard.                                                           *)
(***************************************************************************)

Keyed(h, S) == {m \in Of(h, S) : m.input \in Keys}

(* "result = result || mapping->ProcessKeyboardEvent": once a mapping of a  *)
(* button or stick has taken the event, those after it do not see it.       *)
Takes(S) == {m \in S : \A n \in S : Rank[m] <= Rank[n]}

Hears(h, key) == Takes({m \in Keyed(h, mappings) : m.input = key})

KeyDown(key) ==
  /\ Idle
  /\ held' = held \union {key}
  /\ pressed' = pressed \union UNION {Hears(h, key) : h \in {g \in Mapped : ~listening[g]}}
  /\ newKey' = [h \in Mapped |-> IF listening[h] THEN key ELSE newKey[h]]
  /\ UNCHANGED <<memory, config, todo, program, listening, history>>

KeyUpUnnoticed(key) ==
  /\ Idle
  /\ held' = held \ {key}
  /\ pressed' = pressed \ UNION {Hears(h, key) : h \in Mapped}
  /\ UNCHANGED <<memory, config, todo, program, listening, newKey, history>>

KeyUp(key) ==
  /\ Idle
  /\ held' = held \ {key}
  /\ pressed' = pressed \ UNION {Hears(h, key) : h \in Mapped}
  /\ newKey' = [h \in Mapped |-> IF listening[h] THEN None ELSE newKey[h]]
  /\ UNCHANGED <<memory, config, todo, program, listening, history>>

(* The window lost the focus: every key counts as released, and each       *)
(* keyboard mapping takes the event.                                       *)
AllKeysUp ==
  /\ Idle
  /\ held' = {}
  /\ pressed' = pressed \ UNION {Takes(Keyed(h, mappings)) : h \in Mapped}
  /\ newKey' = [h \in Mapped |-> IF listening[h] THEN None ELSE newKey[h]]
  /\ UNCHANGED <<memory, config, todo, program, listening, history>>

(***************************************************************************)
(* Sessions.                                                               *)
(***************************************************************************)

(* The program ends, perhaps killed between two Saves of an edit. *)
Stop ==
  /\ program = "running"
  /\ stops < MaxStops
  /\ stops' = stops + 1
  /\ program' = "stopped"
  /\ mappings' = {} /\ known' = {} /\ todo' = <<>>
  /\ held' = {} /\ pressed' = {}
  /\ listening' = [h \in Mapped |-> FALSE] /\ newKey' = [h \in Mapped |-> None]
  /\ about' = {} /\ cut' = cut \union about
  /\ UNCHANGED <<port, config, edits>>

(* Create...MappingFromConfig of each id listed: without its data there is   *)
(* no mapping.                                                               *)
Loadable == ids \intersect data

(* ReloadGyroMappingFromConfig uses what the factory gave it, a null pointer *)
(* included.                                                                 *)
GyroFails == GyroMapping \in ids \ Loadable

(* Controller::ReloadAllMappingsFromConfig. *)
Reload ==
  IF GyroFails
  THEN program' = "dead" /\ UNCHANGED <<memory, todo, about>>
  ELSE /\ program' = "running"
       /\ mappings' = Loadable
       /\ known' = Entries(mappings')
       /\ UNCHANGED <<todo, about>>

(* ControlDeck::Init.  The first port gets defaults if it has no config. *)
Start ==
  /\ program = "stopped"
  /\ \/ hasConfig /\ Reload
     \/ /\ ~hasConfig
        /\ program' = "running"
        /\ LET Defaulted(S, type) == S \union DefaultsOf({type})
               k == Defaulted({}, "Keyboard")
               m == Defaulted(k, "Mouse")
           IN todo' = IF port = 1
                      THEN ControllerDefaults({}, "Keyboard")
                             \o ControllerDefaults(k, "Mouse")
                             \o ControllerDefaults(m, "SDLGamepad")
                      ELSE <<>>
        /\ about' = IF port = 1 THEN DefaultsOf(DeviceTypes) ELSE {}
        /\ UNCHANGED memory
  /\ UNCHANGED <<port, config, keys, cut, edits, stops>>

Init ==
  /\ port \in Ports
  /\ mappings = {} /\ known = {}
  /\ ids = {} /\ data = {} /\ hasConfig = FALSE
  /\ todo = <<>>
  /\ program = "stopped"
  /\ held = {} /\ pressed = {}
  /\ listening = [h \in Mapped |-> FALSE]
  /\ newKey = [h \in Mapped |-> None]
  /\ about = {} /\ cut = {}
  /\ edits = 0 /\ stops = 0

Next ==
  \/ Edit
  \/ AddOrEditAny
  \/ \E h \in Mapped : Listen(h)
  \/ \E h \in {Rumble, LED, Gyro} : SetOutput(h)
  \/ \E m \in mappings : ClearMapping(m)
  \/ ClearAllMappings
  \/ \E type \in DeviceTypes : SetDefaults(type)
  \/ ReadPad
  \/ \E key \in Keys : KeyDown(key) \/ KeyUp(key)
  \/ AllKeysUp
  \/ Stop
  \/ Start

Spec == Init /\ [][Next]_vars

(***************************************************************************)
(* Properties.                                                             *)
(***************************************************************************)

Steps == [do : {"erase", "store", "add", "forget", "drop", "list", "config"},
          holder : Mapped \union {Rumble, LED, Gyro, None}, these : SUBSET Mappings]

(* Every variable keeps its type, entries of sticks are made before they    *)
(* hold anything, and the keys pressed belong to mappings in memory.        *)
TypeOK ==
  /\ port \in Ports
  /\ mappings \subseteq Mappings
  /\ Entries(mappings) \subseteq known /\ known \subseteq Sticks \X Directions
  /\ ids \subseteq Mappings /\ data \subseteq Mappings /\ hasConfig \in BOOLEAN
  /\ todo \in Seq(Steps)
  /\ program \in {"running", "stopped", "dead"}
  /\ held \subseteq Keys /\ pressed \subseteq {m \in mappings : m.input \in Keys}
  /\ listening \in [Mapped -> BOOLEAN]
  /\ newKey \in [Mapped -> Keys \union {None}]
  /\ about \subseteq Mappings /\ cut \subseteq Mappings
  /\ edits \in 0..MaxEdits /\ stops \in 0..MaxStops

(* Killed at any moment, the program finds in its next session the mappings *)
(* it had, but for those the edit under way, or one a kill cut short         *)
(* before, was about: lists and data, saved one after the other by every     *)
(* kind of holder, never lose or bring back any other.                       *)
Survives ==
  program = "running" /\ hasConfig =>
    /\ mappings \ about \subseteq Loadable
    /\ Loadable \subseteq mappings \union about \union cut

(* A session fails to start only when an earlier one was killed while it   *)
(* was adding or removing the gyro's mapping.                              *)
BootsUp == program = "dead" => GyroMapping \in cut

(* What a button or stick is about to be mapped to is a key that is down,   *)
(* through popups cancelled and opened again and the focus lost meanwhile.  *)
CapturedIsHeld == \A h \in Mapped : newKey[h] \in held \union {None}

===============================================================================
