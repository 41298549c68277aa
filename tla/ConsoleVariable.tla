--------------------------- MODULE ConsoleVariable ---------------------------
(***************************************************************************)
(* Ship::ConsoleVariable (src/src/ship/config/ConsoleVariable.cpp): the    *)
(* CVars of a program over its sessions, kept in a map, and in the file of *)
(* Config between sessions.  Set, Copy and Load change the map, Clear the  *)
(* map and Config's object, and Save copies the map into that object and   *)
(* saves it together with everything else.                                 *)
(***************************************************************************)
EXTENDS Config, FiniteSets

CONSTANTS
  Kinds,     \* for each name, the kinds of values the program gives it
  Blocks,    \* the prefixes ClearBlock is called with
  Null,      \* an entry of mVariables whose pointer is null
  Migrating, \* may the first session find a cvars.cfg?
  Crashes    \* may the program be killed?

(* A number or a string is one leaf, a colour an object.                   *)
Variable == [kind : {"plain", "colour"}, value : Values]

ASSUME KindAssumption == Kinds \in [Names -> SUBSET {"plain", "colour"}]
ASSUME BlockAssumption == \A b \in Blocks : b \in Seq(STRING) /\ b # <<>>
ASSUME FlagAssumption == Migrating \in BOOLEAN /\ Crashes \in BOOLEAN
ASSUME NullAssumption == None \notin Variable /\ Null \notin Variable \union {None}

(* The discipline under which the properties hold: a program never gives a *)
(* name a number at one time and a colour at another, and names nothing    *)
(* inside a colour.                                                        *)
Disciplined ==
  /\ \A n \in Names : Kinds[n] # {"plain", "colour"}
  /\ \A m, n \in Names : IsStrictPrefix(m, n) => "colour" \notin Kinds[m]

VARIABLES
  mVariables, \* an absent name is None
  legacy,     \* what cvars.cfg says of each name
  block,      \* the argument of the running ClearBlock
  since       \* history: the values a name has had since its last save

cvarVars == <<mVariables, legacy, block, since>>
vars == <<flat, file, stage, after, updates, mVariables, legacy, block, since>>

Saved == Variable \union {None}
Given(n) == {v \in Variable : v.kind \in Kinds[n]}

TypeOK ==
  /\ ConfigType
  /\ mVariables \in [Names -> Variable \union {None, Null}]
  /\ legacy \in [Names -> Saved]
  /\ block \in Blocks \union {None}
  /\ since \in [Names -> SUBSET Saved]

Init ==
  /\ ConfigInit
  /\ mVariables = [n \in Names |-> None]
  /\ legacy \in [Names -> Saved]
  /\ \A n \in Names : legacy[n] \in (IF Migrating THEN Given(n) ELSE {}) \union {None}
  /\ block = None
  /\ since = [n \in Names |-> {None}]

------------------------------------------------------------------------------
Get(n) == IF mVariables[n] = Null THEN None ELSE mVariables[n]

(* What LoadFromPath makes of the leaves of n.  The "Type" of an object    *)
(* makes it a colour, and what else is in it is not looked at.             *)
Inside(cvars, n) ==
  \E m \in Names : IsStrictPrefix(m, n) /\ cvars[Key(m, "Type")] # None

LoadedVariable(cvars, n) ==
  IF Inside(cvars, n) THEN None
  ELSE IF cvars[Key(n, "own")] # None
  THEN [kind |-> "plain", value |-> cvars[Key(n, "own")]]
  ELSE IF cvars[Key(n, "Type")] = RGBA
  THEN [kind |-> "colour", value |-> cvars[Key(n, "R")]]
  ELSE None

Load(s) == [n \in Names |-> LoadedVariable(s.cvars, n)]

(* The program starts: Config reads its file, ConsoleVariable loads from   *)
(* it, and LoadLegacy overrides that with cvars.cfg and removes it.        *)
Start ==
  /\ stage = "down"
  /\ stage' = "running"
  /\ flat' = Readable(file)
  /\ mVariables' = [n \in Names |-> IF legacy[n] # None THEN legacy[n]
                                    ELSE Load(Readable(file))[n]]
  /\ legacy' = [n \in Names |-> None]
  /\ since' = [n \in Names |-> {Load(Readable(file))[n], mVariables'[n]}]
  /\ UNCHANGED <<file, after, updates, block>>

(* n becomes v in the map, and unsaved.                                    *)
Become(n, v) ==
  /\ mVariables' = [mVariables EXCEPT ![n] = v]
  /\ since' = [since EXCEPT ![n] = @ \union {v}]

(* SetInteger, SetFloat, SetString, SetColor and SetColor24.               *)
Set(n, v) ==
  /\ stage = "running"
  /\ Become(n, v)
  /\ UNCHANGED <<configVars, legacy, block>>

(* RegisterInteger, RegisterFloat, RegisterString, RegisterColor...        *)
Register(n, v) == Get(n) = None /\ Set(n, v)

(* Mutant of PartsCleared: a colour's own key is erased, not its object.   *)
PartsForgotten(v) == {"own"}

(* Mutant of PartsCleared: the object's tag is not erased.                 *)
PartsButTag(v) ==
  IF v # None /\ v.kind = "colour" THEN {"own", "R"} ELSE {"own"}

(* The leaves ClearVariable erases: a colour's object goes with it.        *)
PartsCleared(v) ==
  IF v # None /\ v.kind = "colour" THEN {"own", "R", "Type"} ELSE {"own"}

ClearVariable(n) ==
  /\ stage = "running"
  /\ flat' = [flat EXCEPT !.cvars =
       [k \in Keys |-> IF k.name = n /\ k.part \in PartsCleared(Get(n)) THEN None
                       ELSE flat.cvars[k]]]
  /\ Become(n, None)
  /\ UNCHANGED <<file, stage, after, updates, legacy, block>>

(* CopyVariable: operator[] leaves a null entry for a missing source.      *)
CopyVariable(from, to) ==
  /\ stage = "running"
  /\ IF Get(from) # None
     THEN Become(to, Get(from))
     ELSE /\ mVariables' = [mVariables EXCEPT ![from] = Null]
          /\ UNCHANGED since
  /\ UNCHANGED <<configVars, legacy, block>>

(* ClearBlock: EraseBlock and its Save ...                                 *)
ClearBlock(b) ==
  /\ stage = "running"
  /\ OpenFile([flat EXCEPT !.cvars = WithoutBlock(flat.cvars, b)], "block")
  /\ block' = b
  /\ UNCHANGED <<updates, mVariables, legacy, since>>

(* ... and Load, which drops whatever the map held unsaved.                *)
BlockCleared ==
  /\ WriteFile /\ after = "block"
  /\ mVariables' = Load(flat)
  /\ since' = [n \in Names |-> IF IsPrefix(block, n) THEN {None} ELSE since[n]]
  /\ block' = None
  /\ UNCHANGED legacy

------------------------------------------------------------------------------
(* The leaf that Save's SetInt, SetString, SetUInt... give v at a part.    *)
SavedPart(v, part) ==
  CASE v.kind = "plain" /\ part = "own" -> v.value
    [] v.kind = "colour" /\ part = "R" -> v.value
    [] v.kind = "colour" /\ part = "Type" -> RGBA
    [] OTHER -> None

(* Save's loop over the map: a name it lacks keeps the leaves it has.      *)
SavedLeaves ==
  [k \in Keys |->
     IF mVariables[k.name] # None /\ SavedPart(mVariables[k.name], k.part) # None
     THEN SavedPart(mVariables[k.name], k.part)
     ELSE flat.cvars[k]]

Save ==
  /\ stage = "running"
  /\ \A n \in Names : mVariables[n] # Null
  /\ OpenFile([flat EXCEPT !.cvars = SavedLeaves], "variables")
  /\ UNCHANGED <<updates, cvarVars>>

(* Save looks at Type before it looks at the pointer.                      *)
SaveNull ==
  /\ stage = "running"
  /\ \E n \in Names : mVariables[n] = Null
  /\ Dies
  /\ UNCHANGED cvarVars

(* The variables are saved: what they are is what the file must say.       *)
VariablesSaved ==
  /\ WriteFile /\ after = "variables"
  /\ since' = [n \in Names |-> {mVariables[n]}]
  /\ UNCHANGED <<mVariables, legacy, block>>

OthersSaved == WriteFile /\ after \in {"caller", "updater", "exit"} /\ UNCHANGED cvarVars

------------------------------------------------------------------------------
Next ==
  \/ Start
  \/ \E n \in Names : \E v \in Given(n) : Set(n, v) \/ Register(n, v)
  \/ \E n \in Names : ClearVariable(n)
  \/ \E from, to \in Names : Kinds[from] \subseteq Kinds[to] /\ CopyVariable(from, to)
  \/ \E b \in Blocks : ClearBlock(b)
  \/ BlockCleared \/ Save \/ SaveNull \/ VariablesSaved \/ OthersSaved
  \/ RunVersionUpdates /\ UNCHANGED cvarVars
  \/ (SaveSettings \/ Quit) /\ UNCHANGED cvarVars
  \/ SaveThrows /\ UNCHANGED cvarVars
  \/ Crashes /\ Crash /\ UNCHANGED cvarVars

Spec == Init /\ [][Next]_vars

------------------------------------------------------------------------------
(* ConsoleVariable.h:45: "persists CVar values across sessions": unless a  *)
(* Save was cut short, the next session starts, for every variable, with   *)
(* the value last saved or one it has had since.  In particular a cleared  *)
(* variable does not come back once a Save has returned.                   *)
Persists ==
  file # Torn => \A n \in Names : Load(file)[n] \in since[n]

(* Config.h:169: Save "flushes in-memory values to the config file on      *)
(* disk": when no Save is under way, the file holds settings.              *)
NeverLost == stage # "saving" => file # Torn
==============================================================================
