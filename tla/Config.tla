------------------------------- MODULE Config --------------------------------
(***************************************************************************)
(* Ship::Config (src/src/ship/config/Config.cpp): settings kept in memory  *)
(* as a flattened JSON object and written to one file, over the sessions   *)
(* of a program that may be killed at any time.                            *)
(*                                                                         *)
(* The object is split in three: the leaves below "CVars", whose keys and  *)
(* operations matter to ConsoleVariable, "ConfigVersion", and the layout   *)
(* of everything else, told by whether each updater has run on it never,   *)
(* once or more often.  An empty object and the null it flattens to read as*)
(* absent.                                                                 *)
(***************************************************************************)
EXTENDS Naturals, SequencesExt

CONSTANTS
  Names,      \* CVar names, split at their dots
  Values,     \* what a number, a string or a colour channel may be
  RGBA,       \* the tag of a colour object
  None,       \* no such key
  Torn,       \* a file Save has emptied and not written
  MaxVersion  \* the highest version an updater brings the settings to

ASSUME NameAssumption == \A n \in Names : n \in Seq(STRING) /\ n # <<>>
ASSUME ValueAssumption == RGBA \notin Values /\ None \notin Values /\ RGBA # None
ASSUME VersionAssumption == MaxVersion \in Nat

(* The leaves a variable may have in the object: its own, or those of a    *)
(* colour object, of whose channels R stands for all.                      *)
Keys == [name : Names, part : {"own", "R", "Type"}]
Key(n, part) == [name |-> n, part |-> part]

Leaves == [Keys -> Values \union {RGBA, None}]
Updaters == 1 .. MaxVersion    \* each named by the version it leads to
Versions == {0} \union Updaters
NoLeaves == [k \in Keys |-> None]
NewSettings == [cvars |-> NoLeaves, version |-> 0, layout |-> [u \in Updaters |-> 0]]

Settings == [cvars : Leaves, version : Versions, layout : [Updaters -> 0 .. 2]]

VARIABLES
  flat,   \* mFlattenedJson
  file,   \* what the file at mPath holds; NewSettings if it does not exist
  stage,  \* "down", "running", "updating": RunVersionUpdates is in its loop,
          \* or "saving": Save has opened the file
  after,  \* what Save returns to
  visit,  \* the updaters the loop has still to visit
  updater, \* the one whose Update runs, or 0
  cut     \* history: updaters whose own Save is in the file, but not their version,
          \* because the program ended in between

updates == <<visit, updater, cut>>
configVars == <<flat, file, stage, after, updates>>

Returns == {"caller", "variables", "block", "updater", "exit"}

ConfigType ==
  /\ flat \in Settings
  /\ file \in Settings \union {Torn}
  /\ stage \in {"down", "running", "updating", "saving"}
  /\ after \in Returns
  /\ visit \subseteq Updaters /\ updater \in Versions /\ cut \subseteq Updaters

ConfigInit ==
  /\ flat = NewSettings
  /\ file = NewSettings
  /\ stage = "down"
  /\ after = "caller"
  /\ visit = {} /\ updater = 0 /\ cut = {}

------------------------------------------------------------------------------
(* Is the node of key l inside the value of leaf k?                        *)
Below(k, l) ==
  /\ k.part = "own"
  /\ \/ k.name = l.name /\ l.part # "own"
     \/ IsStrictPrefix(k.name, l.name)

(* unflatten() can build the nested object: no leaf is below another.      *)
Unflattens(cvars) ==
  \A k, l \in Keys : cvars[k] # None /\ cvars[l] # None => ~Below(k, l)

(* Reload reads what a missing or unparsable file leaves it as empty.      *)
Readable(f) == IF f = Torn THEN NewSettings ELSE f

(* Config::Save begins: ofstream empties the file.                         *)
OpenFile(s, ret) ==
  /\ stage' = "saving"
  /\ flat' = s
  /\ file' = Torn
  /\ after' = ret

(* The updaters that have run on settings of a version below theirs.       *)
Ahead(s) == {u \in Updaters : s.layout[u] # 0 /\ s.version < u}

(* The program ends, and what only its memory held is gone.                *)
Dies ==
  /\ stage' = "down"
  /\ flat' = NewSettings
  /\ after' = "caller"
  /\ visit' = {} /\ updater' = 0
  /\ cut' = IF file = Torn THEN {} ELSE cut \union Ahead(file)
  /\ UNCHANGED file

(* unflatten() throws, nothing catches it, and the file stays empty.  Only *)
(* here: what Reload parses and what erasing leaves of it unflattens, so   *)
(* that EraseBlock and GetUInt, which unflatten too, find leaves that do.  *)
SaveThrows ==
  /\ stage = "saving" /\ ~Unflattens(flat.cvars)
  /\ Dies

(* The rest of Save, and the step to what follows it.                      *)
WriteFile ==
  /\ stage = "saving" /\ Unflattens(flat.cvars)
  /\ file' = flat
  /\ stage' = CASE after = "exit" -> "down" [] after = "updater" -> "updating" [] OTHER -> "running"
  /\ after' = "caller"
  /\ UNCHANGED <<flat, updates>>

(* EraseBlock: the leaves at and below a node are gone.                    *)
WithoutBlock(cvars, block) ==
  [k \in Keys |-> IF IsPrefix(block, k.name) THEN None ELSE cvars[k]]

------------------------------------------------------------------------------
(* Mutant of Due: the comparison lets the last updater run again.          *)
DueAgain(u) == flat.version <= u

(* Each updater is compared with the version its predecessors have left.   *)
Due(u) == flat.version < u

(* RunVersionUpdates walks a std::map: ascending.                          *)
BeginUpdates(updaters) ==
  /\ stage = "running"
  /\ stage' = "updating"
  /\ visit' = updaters
  /\ UNCHANGED <<flat, file, after, updater, cut>>

At(u) == stage = "updating" /\ updater = 0 /\ u \in visit /\ \A v \in visit : u <= v

SkipUpdater(u) ==
  /\ At(u) /\ ~Due(u)
  /\ visit' = visit \ {u}
  /\ UNCHANGED <<flat, file, stage, after, updater, cut>>

StartUpdater(u) ==
  /\ At(u) /\ Due(u)
  /\ updater' = u
  /\ flat' = [flat EXCEPT !.layout[u] = IF @ = 0 THEN 1 ELSE 2]
  /\ UNCHANGED <<file, stage, after, visit, cut>>

(* Update calls EraseBlock or SetBlock, which Save what it has done so far.*)
SaveInUpdater ==
  /\ stage = "updating" /\ updater # 0
  /\ OpenFile(flat, "updater")
  /\ UNCHANGED updates

(* Update returns and its version is set, in memory.                       *)
EndUpdater ==
  /\ stage = "updating" /\ updater # 0
  /\ flat' = [flat EXCEPT !.version = updater]
  /\ visit' = visit \ {updater}
  /\ updater' = 0
  /\ UNCHANGED <<file, stage, after, cut>>

(* The Save after the loop.                                                *)
EndUpdates ==
  /\ stage = "updating" /\ updater = 0 /\ visit = {}
  /\ OpenFile(flat, "caller")
  /\ UNCHANGED updates

RunVersionUpdates ==
  \/ \E updaters \in SUBSET Updaters : BeginUpdates(updaters)
  \/ \E u \in Updaters : SkipUpdater(u) \/ StartUpdater(u)
  \/ SaveInUpdater \/ EndUpdater \/ EndUpdates

(* SetWindowBackend, SetCurrentAudioBackend, ... save the settings.        *)
SaveSettings ==
  /\ stage = "running"
  /\ OpenFile(flat, "caller")
  /\ UNCHANGED updates

(* Context's destructor saves, and the program ends.                       *)
Quit ==
  /\ stage = "running"
  /\ OpenFile(flat, "exit")
  /\ UNCHANGED updates

(* The program is killed, or aborts.                                       *)
Crash ==
  /\ stage # "down"
  /\ Dies

------------------------------------------------------------------------------
(* Config.h: "Version migration ... call RunVersionUpdates() on startup":  *)
(* whatever the crashes, whichever updaters a session registers and however*)
(* often one saves by itself, no update is on the settings in the file     *)
(* twice, or once above their version, unless the program has ended between*)
(* the update's own Save and the Save of its version (or is between them). *)
(* And the update that gave the file its version is never missing.         *)
UpdatedOnce ==
  file # Torn => \A u \in Updaters :
    /\ file.layout[u] = 2 => u \in cut
    /\ u \in Ahead(file) => \/ u \in cut
                            \/ stage = "updating" /\ (u = updater \/ u <= flat.version)
    /\ file.version = u => file.layout[u] # 0
==============================================================================
