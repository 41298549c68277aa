------------------------ MODULE ConsoleVariable_proofs -----------------------
(***************************************************************************)
(* Proofs about ConsoleVariable, for any names, values, updaters and       *)
(* blocks, of programs that keep to Disciplined.                           *)
(***************************************************************************)
EXTENDS ConsoleVariable, TLAPS

(* Leaves as a disciplined program leaves them: no tag without a channel.  *)
Proper(cvars) ==
  /\ cvars \in Leaves
  /\ \A n \in Names :
       /\ cvars[Key(n, "own")] # None =>
            "plain" \in Kinds[n] /\ cvars[Key(n, "own")] \in Values
       /\ cvars[Key(n, "Type")] # None =>
            /\ "colour" \in Kinds[n] /\ cvars[Key(n, "Type")] = RGBA
            /\ cvars[Key(n, "R")] \in Values

VariablesProper ==
  \A n \in Names : /\ mVariables[n] \in Given(n) \union {None, Null}
                   /\ legacy[n] \in Given(n) \union {None}

TypeInv ==
  /\ TypeOK
  /\ Proper(flat.cvars)
  /\ file # Torn => Proper(file.cvars)
  /\ VariablesProper
  /\ after = "block" => block \in Blocks

------------------------------------------------------------------------------
LEMMA KeyTypes ==
  ASSUME NEW n \in Names
  PROVE  Key(n, "own") \in Keys /\ Key(n, "R") \in Keys /\ Key(n, "Type") \in Keys
  BY DEF Key, Keys

(* What proper leaves load as.                                             *)
LEMMA LoadedProper ==
  ASSUME Disciplined, NEW cvars, Proper(cvars), NEW n \in Names
  PROVE  LoadedVariable(cvars, n) =
           IF cvars[Key(n, "own")] # None
           THEN [kind |-> "plain", value |-> cvars[Key(n, "own")]]
           ELSE IF cvars[Key(n, "Type")] # None
           THEN [kind |-> "colour", value |-> cvars[Key(n, "R")]]
           ELSE None
  <1>1. ~Inside(cvars, n)
    BY DEF Inside, Proper, Disciplined
  <1> QED
    BY <1>1, ValueAssumption DEF LoadedVariable, Proper

LEMMA LoadedType ==
  ASSUME Disciplined, NEW cvars, Proper(cvars), NEW n \in Names
  PROVE  /\ LoadedVariable(cvars, n) \in Given(n) \union {None}
         /\ LoadedVariable(cvars, n) = None <=>
              cvars[Key(n, "own")] = None /\ cvars[Key(n, "Type")] = None
  <1>1. CASE cvars[Key(n, "own")] # None
    <2>1. [kind |-> "plain", value |-> cvars[Key(n, "own")]] \in Given(n)
      BY <1>1 DEF Proper, Given, Variable
    <2> QED
      BY <1>1, <2>1, LoadedProper, NullAssumption DEF Given
  <1>2. CASE cvars[Key(n, "own")] = None /\ cvars[Key(n, "Type")] # None
    <2>1. [kind |-> "colour", value |-> cvars[Key(n, "R")]] \in Given(n)
      BY <1>2 DEF Proper, Given, Variable
    <2> QED
      BY <1>2, <2>1, LoadedProper, NullAssumption DEF Given
  <1>3. CASE cvars[Key(n, "own")] = None /\ cvars[Key(n, "Type")] = None
    BY <1>3, LoadedProper
  <1> QED
    BY <1>1, <1>2, <1>3

(* Only a name's own leaves matter to what it loads as.                    *)
LEMMA LoadedAgrees ==
  ASSUME Disciplined, NEW c, NEW d, Proper(c), Proper(d), NEW n \in Names,
         \A part \in {"own", "R", "Type"} : c[Key(n, part)] = d[Key(n, part)]
  PROVE  LoadedVariable(c, n) = LoadedVariable(d, n)
  <1>1. /\ c[Key(n, "own")] = d[Key(n, "own")]
        /\ c[Key(n, "R")] = d[Key(n, "R")]
        /\ c[Key(n, "Type")] = d[Key(n, "Type")]
    OBVIOUS
  <1> QED
    BY <1>1, LoadedProper

LEMMA NewProper == NewSettings \in Settings /\ Proper(NewSettings.cvars)
  <1>1. NewSettings \in Settings
    BY VersionAssumption DEF NewSettings, Settings, NoLeaves, Leaves, Versions, Updaters
  <1>2. \A k \in Keys : NewSettings.cvars[k] = None
    BY DEF NewSettings, NoLeaves
  <1> QED
    BY <1>1, <1>2, KeyTypes DEF Proper, Settings

------------------------------------------------------------------------------
(* Erasing leaves keeps the others proper if no tag stays without channel. *)
LEMMA ErasedProper ==
  ASSUME NEW c, NEW d, Proper(c), d \in Leaves,
         \A n \in Names :
           /\ d[Key(n, "own")] \in {c[Key(n, "own")], None}
           /\ \/ d[Key(n, "Type")] = None
              \/ d[Key(n, "Type")] = c[Key(n, "Type")] /\ d[Key(n, "R")] = c[Key(n, "R")]
  PROVE  Proper(d)
  BY DEF Proper

LEMMA BlockProper ==
  ASSUME Disciplined, NEW cvars, Proper(cvars), NEW b
  PROVE  /\ WithoutBlock(cvars, b) \in Leaves
         /\ Proper(WithoutBlock(cvars, b))
         /\ \A n \in Names : LoadedVariable(WithoutBlock(cvars, b), n) =
              IF IsPrefix(b, n) THEN None ELSE LoadedVariable(cvars, n)
  <1> DEFINE d == WithoutBlock(cvars, b)
  <1>1. d \in Leaves
    BY DEF Proper, Leaves, WithoutBlock
  <1>2. ASSUME NEW n \in Names, NEW part \in {"own", "R", "Type"}
        PROVE  d[Key(n, part)] = IF IsPrefix(b, n) THEN None ELSE cvars[Key(n, part)]
    BY DEF WithoutBlock, Key, Keys
  <1> HIDE DEF d
  <1>3. \A n \in Names : /\ d[Key(n, "own")] \in {cvars[Key(n, "own")], None}
                         /\ \/ d[Key(n, "Type")] = None
                            \/ /\ d[Key(n, "Type")] = cvars[Key(n, "Type")]
                               /\ d[Key(n, "R")] = cvars[Key(n, "R")]
    BY <1>2
  <1>4. Proper(d)
    BY <1>1, <1>3, ErasedProper
  <1>5. ASSUME NEW n \in Names
        PROVE  LoadedVariable(d, n) = IF IsPrefix(b, n) THEN None ELSE LoadedVariable(cvars, n)
    <2>1. CASE IsPrefix(b, n)
      BY <1>2, <1>4, <2>1, LoadedType
    <2>2. CASE ~IsPrefix(b, n)
      BY <1>2, <1>4, <2>2, LoadedAgrees
    <2> QED
      BY <2>1, <2>2
  <1> QED
    BY <1>1, <1>4, <1>5 DEF d

(* ClearVariable leaves nothing of its name and the others as they are.    *)
LEMMA ClearedProper ==
  ASSUME Disciplined, TypeInv, NEW n \in Names, NEW d,
         d = [k \in Keys |-> IF k.name = n /\ k.part \in PartsCleared(Get(n)) THEN None
                             ELSE flat.cvars[k]],
         Get(n) = None => LoadedVariable(flat.cvars, n) = None
  PROVE  /\ d \in Leaves /\ Proper(d)
         /\ LoadedVariable(d, n) = None
         /\ \A m \in Names \ {n} : LoadedVariable(d, m) = LoadedVariable(flat.cvars, m)
  <1>1. d \in Leaves /\ Proper(flat.cvars)
    BY DEF TypeInv, Proper, Leaves
  <1>2. ASSUME NEW m \in Names, NEW part \in {"own", "R", "Type"}
        PROVE  d[Key(m, part)] = IF m = n /\ part \in PartsCleared(Get(n)) THEN None
                                 ELSE flat.cvars[Key(m, part)]
    BY DEF Key, Keys
  <1>3. d[Key(n, "own")] = None
    BY <1>2 DEF PartsCleared
  <1>4. d[Key(n, "Type")] = None
    <2>1. CASE Get(n) = None
      BY <1>1, <1>2, <2>1, LoadedType
    <2>2. CASE Get(n) # None /\ Get(n).kind = "colour"
      BY <1>2, <2>2 DEF PartsCleared
    <2>3. CASE Get(n) # None /\ Get(n).kind # "colour"
      <3>1. Get(n) \in Given(n)
        BY <2>3 DEF Get, TypeInv, VariablesProper
      <3>2. "plain" \in Kinds[n] /\ Kinds[n] \in SUBSET {"plain", "colour"}
        BY <2>3, <3>1, KindAssumption DEF Given, Variable
      <3>3. "colour" \notin Kinds[n]
        BY <3>2 DEF Disciplined
      <3> QED
        BY <1>1, <1>2, <3>3 DEF Proper
    <2> QED
      BY <2>1, <2>2, <2>3
  <1>5. \A m \in Names \ {n} : \A part \in {"own", "R", "Type"} :
          d[Key(m, part)] = flat.cvars[Key(m, part)]
    BY <1>2
  <1>6. Proper(d)
    <2>1. \A m \in Names : /\ d[Key(m, "own")] \in {flat.cvars[Key(m, "own")], None}
                           /\ \/ d[Key(m, "Type")] = None
                              \/ /\ d[Key(m, "Type")] = flat.cvars[Key(m, "Type")]
                                 /\ d[Key(m, "R")] = flat.cvars[Key(m, "R")]
      BY <1>3, <1>4, <1>5
    <2> QED
      BY <1>1, <2>1, ErasedProper
  <1> QED
    BY <1>1, <1>3, <1>4, <1>5, <1>6, LoadedType, LoadedAgrees

(* Save's loop makes the object say what the map says.                     *)
LEMMA SavedProper ==
  ASSUME Disciplined, TypeInv, \A n \in Names : mVariables[n] # Null,
         \A n \in Names : mVariables[n] = None => LoadedVariable(flat.cvars, n) = None
  PROVE  /\ SavedLeaves \in Leaves /\ Proper(SavedLeaves)
         /\ \A n \in Names : LoadedVariable(SavedLeaves, n) = mVariables[n]
  <1> DEFINE d == SavedLeaves
  <1>1. Proper(flat.cvars)
    BY DEF TypeInv
  <1>2. ASSUME NEW n \in Names, NEW part \in {"own", "R", "Type"}
        PROVE  d[Key(n, part)] =
                 IF mVariables[n] # None /\ SavedPart(mVariables[n], part) # None
                 THEN SavedPart(mVariables[n], part) ELSE flat.cvars[Key(n, part)]
    BY DEF SavedLeaves, Key, Keys
  <1>3. d \in Leaves
    <2>1. ASSUME NEW k \in Keys
          PROVE  d[k] \in Values \union {RGBA, None}
      <3>1. PICK n \in Names, part \in {"own", "R", "Type"} : k = Key(n, part)
        BY DEF Keys, Key
      <3>2. flat.cvars[k] \in Values \union {RGBA, None}
        BY <1>1 DEF Proper, Leaves
      <3>3. mVariables[n] # None => mVariables[n].value \in Values
        BY DEF TypeInv, VariablesProper, Given, Variable
      <3>4. mVariables[n] # None => SavedPart(mVariables[n], part) \in Values \union {RGBA, None}
        BY <3>3 DEF SavedPart
      <3> QED
        BY <1>2, <3>1, <3>2, <3>4
    <2> QED
      BY <2>1 DEF SavedLeaves, Leaves
  <1> HIDE DEF d
  <1>4. ASSUME NEW n \in Names
        PROVE  /\ d[Key(n, "own")] # None =>
                    "plain" \in Kinds[n] /\ d[Key(n, "own")] \in Values
               /\ d[Key(n, "Type")] # None =>
                    /\ "colour" \in Kinds[n] /\ d[Key(n, "Type")] = RGBA
                    /\ d[Key(n, "R")] \in Values
               /\ IF d[Key(n, "own")] # None
                  THEN mVariables[n] = [kind |-> "plain", value |-> d[Key(n, "own")]]
                  ELSE IF d[Key(n, "Type")] # None
                  THEN mVariables[n] = [kind |-> "colour", value |-> d[Key(n, "R")]]
                  ELSE mVariables[n] = None
    <2>1. mVariables[n] \in Given(n) \union {None}
      BY DEF TypeInv, VariablesProper
    <2>2. CASE mVariables[n] = None
      <3>1. flat.cvars[Key(n, "own")] = None /\ flat.cvars[Key(n, "Type")] = None
        BY <1>1, <2>2, LoadedType
      <3> QED
        BY <1>2, <2>2, <3>1
    <2>3. CASE mVariables[n] # None /\ mVariables[n].kind = "plain"
      <3>1. /\ mVariables[n] = [kind |-> "plain", value |-> mVariables[n].value]
            /\ mVariables[n].value \in Values /\ "plain" \in Kinds[n]
        BY <2>1, <2>3 DEF Given, Variable
      <3>2. d[Key(n, "own")] = mVariables[n].value
        BY <1>2, <2>3, <3>1, ValueAssumption DEF SavedPart
      <3>3. flat.cvars[Key(n, "Type")] = None
        <4>1. "colour" \notin Kinds[n]
          BY <3>1, KindAssumption DEF Disciplined
        <4> QED
          BY <1>1, <4>1 DEF Proper
      <3>4. SavedPart(mVariables[n], "Type") = None
        BY <2>3 DEF SavedPart
      <3>5. d[Key(n, "Type")] = None
        BY <1>2, <3>3, <3>4
      <3> QED
        BY <3>1, <3>2, <3>5, ValueAssumption
    <2>4. CASE mVariables[n] # None /\ mVariables[n].kind = "colour"
      <3>1. /\ mVariables[n] = [kind |-> "colour", value |-> mVariables[n].value]
            /\ mVariables[n].value \in Values /\ "colour" \in Kinds[n]
        BY <2>1, <2>4 DEF Given, Variable
      <3>2. d[Key(n, "R")] = mVariables[n].value
        BY <1>2, <2>4, <3>1, ValueAssumption DEF SavedPart
      <3>3. d[Key(n, "Type")] = RGBA
        BY <1>2, <2>4, <3>1, ValueAssumption DEF SavedPart
      <3>4. flat.cvars[Key(n, "own")] = None
        <4>1. "plain" \notin Kinds[n]
          BY <3>1, KindAssumption DEF Disciplined
        <4> QED
          BY <1>1, <4>1 DEF Proper
      <3>5. SavedPart(mVariables[n], "own") = None
        BY <2>4 DEF SavedPart
      <3>6. d[Key(n, "own")] = None
        BY <1>2, <3>4, <3>5
      <3> QED
        BY <3>1, <3>2, <3>3, <3>6, ValueAssumption
    <2> QED
      BY <2>1, <2>2, <2>3, <2>4 DEF Given, Variable
  <1>5. Proper(d)
    BY <1>3, <1>4 DEF Proper
  <1>6. \A n \in Names : LoadedVariable(d, n) = mVariables[n]
    BY <1>4, <1>5, LoadedProper
  <1> QED
    BY <1>3, <1>5, <1>6 DEF d

------------------------------------------------------------------------------
(* Type correctness.                                                       *)
LEMMA TypeInit == Init => TypeInv
  <1> SUFFICES ASSUME Init PROVE TypeInv
    OBVIOUS
  <1>1. ConfigType /\ Proper(flat.cvars) /\ Proper(file.cvars)
    BY NewProper DEF Init, ConfigInit, ConfigType, Returns, Versions
  <1>2. VariablesProper
    BY DEF Init, VariablesProper
  <1>3. /\ mVariables \in [Names -> Variable \union {None, Null}]
        /\ legacy \in [Names -> Saved]
        /\ block \in Blocks \union {None}
        /\ since \in [Names -> SUBSET Saved]
    BY DEF Init, Saved
  <1> QED
    BY <1>1, <1>2, <1>3 DEF TypeInv, TypeOK, Init, ConfigInit

(* Settings with other leaves are settings.                                *)
LEMMA WithLeaves ==
  ASSUME NEW s \in Settings, NEW d \in Leaves
  PROVE  [s EXCEPT !.cvars = d] \in Settings /\ [s EXCEPT !.cvars = d].cvars = d
  BY DEF Settings

LEMMA GivenTypes ==
  ASSUME NEW n \in Names
  PROVE  Given(n) \subseteq Variable
  BY DEF Given

(* Dying keeps the types, and so does opening the file for such settings.  *)
LEMMA DiesType ==
  ASSUME TypeInv, Dies, UNCHANGED cvarVars
  PROVE  TypeInv'
  BY NewProper DEF TypeInv, TypeOK, ConfigType, Dies, Returns, Ahead, Versions, VariablesProper, cvarVars, Get, Given

LEMMA OpenType ==
  ASSUME TypeInv, NEW s \in Settings, Proper(s.cvars), NEW ret \in Returns,
         OpenFile(s, ret), UNCHANGED <<updates, mVariables, legacy, since>>,
         block' \in Blocks \union {None}, ret = "block" => block' \in Blocks
  PROVE  TypeInv'
  <1>1. ConfigType' /\ Proper(flat.cvars)' /\ (file # Torn)' = FALSE
    BY DEF OpenFile, ConfigType, TypeInv, TypeOK, updates
  <1>2. VariablesProper'
    BY DEF TypeInv, VariablesProper
  <1>3. after' = ret
    BY DEF OpenFile
  <1> QED
    BY <1>1, <1>2, <1>3 DEF TypeInv, TypeOK

LEMMA BecomeType ==
  ASSUME TypeInv, NEW n \in Names, NEW v \in Given(n) \union {None}, Become(n, v),
         UNCHANGED <<file, legacy, block, stage, after, updates>>,
         flat' \in Settings, Proper(flat'.cvars)
  PROVE  TypeInv'
  <1>1. v \in Saved
    BY GivenTypes DEF Saved
  <1>2. /\ mVariables' \in [Names -> Variable \union {None, Null}]
        /\ since' \in [Names -> SUBSET Saved]
    BY <1>1 DEF TypeInv, TypeOK, Become, Saved
  <1>3. VariablesProper'
    BY DEF TypeInv, TypeOK, VariablesProper, Become
  <1> QED
    BY <1>2, <1>3 DEF TypeInv, TypeOK, ConfigType, updates

LEMMA WriteType ==
  ASSUME TypeInv, WriteFile
  PROVE  /\ ConfigType' /\ file' = flat /\ flat' = flat /\ after' = "caller"
         /\ Proper(flat'.cvars) /\ Proper(file'.cvars)
  BY DEF TypeInv, TypeOK, ConfigType, WriteFile, Returns, updates

(* A step of RunVersionUpdates leaves the CVars alone and either opens the *)
(* file or goes on in memory.                                              *)
LEMMA UpdateType ==
  ASSUME TypeInv, RunVersionUpdates
  PROVE  /\ stage \in {"running", "updating"}
         /\ \/ \E ret \in {"caller", "updater"} : OpenFile(flat, ret) /\ UNCHANGED updates
            \/ /\ ConfigType' /\ flat'.cvars = flat.cvars /\ stage' = "updating"
               /\ UNCHANGED <<file, after>>
  <1>1. ConfigType /\ flat \in Settings /\ 0 \in Versions /\ Updaters \subseteq Versions
    BY DEF TypeInv, TypeOK, ConfigType, Versions
  <1>2. ASSUME NEW u \in Updaters
        PROVE  [flat EXCEPT !.layout[u] = IF @ = 0 THEN 1 ELSE 2] \in Settings
    BY <1>1 DEF Settings
  <1>3. updater \in Updaters => [flat EXCEPT !.version = updater] \in Settings
    BY <1>1 DEF Settings
  <1>4. updater # 0 => updater \in Updaters
    BY <1>1 DEF ConfigType, Versions
  <1>5. ASSUME NEW updaters \in SUBSET Updaters, BeginUpdates(updaters)
        PROVE  ConfigType' /\ UNCHANGED <<flat, file, after>> /\ stage' = "updating"
    BY <1>1, <1>5 DEF BeginUpdates, ConfigType
  <1>6. ASSUME NEW u \in Updaters, SkipUpdater(u)
        PROVE  ConfigType' /\ UNCHANGED <<flat, file, after>> /\ stage' = "updating"
    BY <1>1, <1>6 DEF SkipUpdater, At, ConfigType
  <1>7. ASSUME NEW u \in Updaters, StartUpdater(u)
        PROVE  /\ ConfigType' /\ flat'.cvars = flat.cvars
               /\ UNCHANGED <<file, after>> /\ stage' = "updating"
    BY <1>1, <1>2, <1>7 DEF StartUpdater, At, ConfigType, Settings
  <1>8. CASE EndUpdater
    BY <1>1, <1>3, <1>4, <1>8 DEF EndUpdater, ConfigType, Settings
  <1> QED
    BY <1>5, <1>6, <1>7, <1>8
       DEF RunVersionUpdates, SaveInUpdater, EndUpdates, BeginUpdates, SkipUpdater, StartUpdater, At

LEMMA StartType ==
  ASSUME Disciplined, TypeInv, Start
  PROVE  TypeInv'
  <1>1. /\ Readable(file) \in Settings /\ Proper(Readable(file).cvars)
        /\ flat' = Readable(file) /\ file' = file
    BY NewProper DEF TypeInv, TypeOK, ConfigType, Readable, Start
  <1>2. ConfigType'
    BY <1>1 DEF TypeInv, TypeOK, ConfigType, Start, updates
  <1>3. \A n \in Names : LoadedVariable(Readable(file).cvars, n) \in Given(n) \union {None}
    BY <1>1, LoadedType
  <1>4. \A n \in Names : /\ mVariables'[n] \in Given(n) \union {None}
                         /\ legacy'[n] = None
    BY <1>3 DEF Start, Load, TypeInv, VariablesProper
  <1>5. \A n \in Names : {Load(Readable(file))[n], mVariables'[n]} \subseteq Saved
    BY <1>3, <1>4, GivenTypes DEF Load, Saved
  <1>6. /\ mVariables' \in [Names -> Variable \union {None, Null}]
        /\ legacy' \in [Names -> Saved]
        /\ since' \in [Names -> SUBSET Saved]
        /\ block' = block /\ after' = after
    BY <1>4, <1>5, GivenTypes DEF Start, Saved
  <1> QED
    BY <1>1, <1>2, <1>4, <1>6 DEF TypeInv, TypeOK, VariablesProper

(* What the object and the map agree on.  A name that the map lacks has no *)
(* leaves: this is what ClearVariable and Save rest on.                    *)
Agree ==
  \A n \in Names : /\ LoadedVariable(flat.cvars, n) \in since[n]
                   /\ Get(n) \in since[n]
                   /\ Get(n) = None => LoadedVariable(flat.cvars, n) = None

(* What a Save under way will leave in the file.                           *)
Coherent ==
  /\ stage \in {"running", "updating"} => Agree
  /\ stage = "saving" /\ after \in {"caller", "updater", "exit"} => Agree
  /\ stage = "saving" /\ after = "variables" =>
       \A n \in Names : /\ mVariables[n] # Null
                        /\ LoadedVariable(flat.cvars, n) = mVariables[n]
  /\ stage = "saving" /\ after = "block" =>
       \A n \in Names : IF IsPrefix(block, n) THEN LoadedVariable(flat.cvars, n) = None
                                              ELSE LoadedVariable(flat.cvars, n) \in since[n]

LEMMA TypeStep ==
  ASSUME Disciplined, TypeInv, Coherent, [Next]_vars
  PROVE  TypeInv'
  <1>1. CASE UNCHANGED vars
    BY <1>1 DEF vars, TypeInv, TypeOK, ConfigType, VariablesProper, updates
  <1>2. CASE Start
    BY <1>2, StartType
  <1>3. ASSUME NEW n \in Names, NEW v \in Given(n), Set(n, v) \/ Register(n, v)
        PROVE  TypeInv'
    <2>1. Become(n, v) /\ UNCHANGED <<flat, file, legacy, block, stage, after, updates>>
      BY <1>3 DEF Set, Register, configVars
    <2>2. flat' \in Settings /\ Proper(flat'.cvars)
      BY <2>1 DEF TypeInv, TypeOK, ConfigType
    <2> QED
      BY <2>1, <2>2, BecomeType
  <1>4. ASSUME NEW n \in Names, ClearVariable(n)
        PROVE  TypeInv'
    <2> DEFINE d == [k \in Keys |-> IF k.name = n /\ k.part \in PartsCleared(Get(n)) THEN None
                                    ELSE flat.cvars[k]]
    <2>1. Get(n) = None => LoadedVariable(flat.cvars, n) = None
      BY <1>4 DEF ClearVariable, Coherent, Agree
    <2>2. d \in Leaves /\ Proper(d)
      BY <2>1, ClearedProper
    <2>3. /\ flat' = [flat EXCEPT !.cvars = d] /\ Become(n, None)
          /\ UNCHANGED <<file, legacy, block, stage, after, updates>>
      BY <1>4 DEF ClearVariable
    <2> HIDE DEF d
    <2>4. flat' \in Settings /\ Proper(flat'.cvars)
      BY <2>2, <2>3, WithLeaves DEF TypeInv, TypeOK, ConfigType
    <2> QED
      BY <2>3, <2>4, BecomeType
  <1>5. ASSUME NEW from \in Names, NEW to \in Names,
               Kinds[from] \subseteq Kinds[to], CopyVariable(from, to)
        PROVE  TypeInv'
    <2>1. flat' \in Settings /\ Proper(flat'.cvars) /\ UNCHANGED <<file, legacy, block, stage, after, updates>>
      BY <1>5 DEF CopyVariable, configVars, TypeInv, TypeOK, ConfigType
    <2>2. CASE Get(from) # None
      <3>1. Get(from) \in Given(to)
        BY <1>5, <2>2 DEF Get, TypeInv, VariablesProper, Given
      <3>2. Become(to, Get(from))
        BY <1>5, <2>2 DEF CopyVariable
      <3> DEFINE v == Get(from)
      <3>3. v \in Given(to) \union {None} /\ Become(to, v)
        BY <3>1, <3>2
      <3> HIDE DEF v
      <3> QED
        BY <2>1, <3>3, BecomeType
    <2>3. CASE Get(from) = None
      <3>1. mVariables' = [mVariables EXCEPT ![from] = Null] /\ UNCHANGED since
        BY <1>5, <2>3 DEF CopyVariable
      <3>2. /\ mVariables' \in [Names -> Variable \union {None, Null}]
            /\ VariablesProper'
        BY <2>1, <3>1 DEF TypeInv, TypeOK, VariablesProper
      <3> QED
        BY <2>1, <3>1, <3>2 DEF TypeInv, TypeOK, ConfigType, updates
    <2> QED
      BY <2>2, <2>3
  <1>6. ASSUME NEW b \in Blocks, ClearBlock(b)
        PROVE  TypeInv'
    <2> DEFINE s == [flat EXCEPT !.cvars = WithoutBlock(flat.cvars, b)]
    <2>1. s \in Settings /\ Proper(s.cvars)
      BY BlockProper, WithLeaves DEF TypeInv, TypeOK, ConfigType
    <2>2. OpenFile(s, "block") /\ block' = b /\ UNCHANGED <<updates, mVariables, legacy, since>>
      BY <1>6 DEF ClearBlock
    <2> HIDE DEF s
    <2> QED
      BY <2>1, <2>2, OpenType DEF Returns
  <1>7. CASE BlockCleared
    <2>1. /\ ConfigType' /\ Proper(flat'.cvars) /\ Proper(file'.cvars) /\ after' = "caller"
      BY <1>7, WriteType DEF BlockCleared
    <2>2. \A n \in Names : LoadedVariable(flat.cvars, n) \in Given(n) \union {None}
      BY LoadedType DEF TypeInv
    <2>3. /\ mVariables' \in [Names -> Variable \union {None, Null}]
          /\ VariablesProper'
      BY <1>7, <2>2, GivenTypes DEF BlockCleared, Load, TypeInv, VariablesProper
    <2>4. since' \in [Names -> SUBSET Saved] /\ block' = None /\ legacy' = legacy
      BY <1>7 DEF BlockCleared, TypeInv, TypeOK, Saved
    <2> QED
      BY <2>1, <2>3, <2>4 DEF TypeInv, TypeOK
  <1>8. CASE Save
    <2> DEFINE s == [flat EXCEPT !.cvars = SavedLeaves]
    <2>1. \A n \in Names : mVariables[n] = None => LoadedVariable(flat.cvars, n) = None
      BY <1>8 DEF Save, Coherent, Agree, Get
    <2>2. SavedLeaves \in Leaves /\ Proper(SavedLeaves)
      BY <1>8, <2>1, SavedProper DEF Save
    <2>3. s \in Settings /\ Proper(s.cvars)
      BY <2>2, WithLeaves DEF TypeInv, TypeOK, ConfigType
    <2>4. OpenFile(s, "variables") /\ UNCHANGED <<updates, mVariables, legacy, since, block>>
      BY <1>8 DEF Save, cvarVars
    <2> HIDE DEF s
    <2> QED
      BY <2>3, <2>4, OpenType DEF Returns, TypeInv, TypeOK
  <1>9. CASE SaveNull
    BY <1>9, DiesType DEF SaveNull
  <1>10. CASE VariablesSaved
    <2>1. /\ ConfigType' /\ Proper(flat'.cvars) /\ Proper(file'.cvars) /\ after' = "caller"
      BY <1>10, WriteType DEF VariablesSaved
    <2>2. \A n \in Names : mVariables[n] \in Saved
      BY <1>10 DEF VariablesSaved, WriteFile, Coherent, TypeInv, TypeOK, Saved
    <2>3. since' \in [Names -> SUBSET Saved]
      BY <1>10, <2>2 DEF VariablesSaved
    <2> QED
      BY <1>10, <2>1, <2>3 DEF VariablesSaved, TypeInv, TypeOK, VariablesProper
  <1>11. CASE OthersSaved
    <2>1. /\ ConfigType' /\ Proper(flat'.cvars) /\ Proper(file'.cvars) /\ after' = "caller"
      BY <1>11, WriteType DEF OthersSaved
    <2> QED
      BY <1>11, <2>1 DEF OthersSaved, cvarVars, TypeInv, TypeOK, VariablesProper
  <1>12. CASE RunVersionUpdates /\ UNCHANGED cvarVars
    <2>1. CASE \E ret \in {"caller", "updater"} : OpenFile(flat, ret) /\ UNCHANGED updates
      BY <1>12, <2>1, OpenType DEF Returns, TypeInv, TypeOK, ConfigType, cvarVars
    <2>2. CASE ConfigType' /\ flat'.cvars = flat.cvars /\ UNCHANGED <<file, after>>
      BY <1>12, <2>2 DEF TypeInv, TypeOK, VariablesProper, cvarVars
    <2> QED
      BY <1>12, <2>1, <2>2, UpdateType
  <1>13. CASE (SaveSettings \/ Quit) /\ UNCHANGED cvarVars
    <2>1. PICK ret \in {"caller", "exit"} : OpenFile(flat, ret) /\ UNCHANGED updates
      BY <1>13 DEF SaveSettings, Quit
    <2> QED
      BY <1>13, <2>1, OpenType DEF Returns, TypeInv, TypeOK, ConfigType, cvarVars
  <1>14. CASE (SaveThrows \/ Crash) /\ UNCHANGED cvarVars
    BY <1>14, DiesType DEF SaveThrows, Crash
  <1> QED
    BY <1>1, <1>2, <1>3, <1>4, <1>5, <1>6, <1>7, <1>8, <1>9, <1>10, <1>11, <1>12, <1>13, <1>14
       DEF Next

------------------------------------------------------------------------------
(* Persistence.                                                            *)
LEMMA NewLoads ==
  ASSUME Disciplined, NEW n \in Names
  PROVE  LoadedVariable(NewSettings.cvars, n) = None
  BY NewProper, LoadedType, KeyTypes DEF NewSettings, NoLeaves

(* The steps that open the file: nothing can be read from it meanwhile.    *)
LEMMA OpenPersists ==
  ASSUME NEW s, NEW ret, OpenFile(s, ret)
  PROVE  Persists' /\ stage' = "saving" /\ after' = ret /\ flat' = s
  BY DEF OpenFile, Persists

LEMMA DiesPersists ==
  ASSUME Persists, Dies, UNCHANGED cvarVars
  PROVE  Persists' /\ Coherent'
  BY DEF Persists, Load, Dies, Coherent, cvarVars

(* A new value in the map joins what the file may hold.                    *)
LEMMA BecomePersists ==
  ASSUME TypeInv, Persists, stage = "running", Agree,
         NEW n \in Names, NEW v \in Given(n) \union {None},
         Become(n, v), UNCHANGED <<file, stage, after>>,
         \A m \in Names \ {n} : LoadedVariable(flat'.cvars, m) = LoadedVariable(flat.cvars, m),
         \/ LoadedVariable(flat'.cvars, n) = LoadedVariable(flat.cvars, n) /\ v # None
         \/ LoadedVariable(flat'.cvars, n) = None /\ v = None
  PROVE  Persists' /\ Coherent'
  <1>1. \A m \in Names : since[m] \subseteq since'[m]
    BY DEF Become, TypeInv, TypeOK
  <1>2. v \in since'[n] /\ mVariables'[n] = v /\ v # Null
    BY NullAssumption, GivenTypes DEF Become, TypeInv, TypeOK
  <1>3. \A m \in Names \ {n} : mVariables'[m] = mVariables[m]
    BY DEF Become, TypeInv, TypeOK
  <1>4. Persists'
    BY <1>1 DEF Persists, Load
  <1>5. Agree'
    <2> SUFFICES ASSUME NEW m \in Names
                 PROVE  /\ LoadedVariable(flat'.cvars, m) \in since'[m]
                        /\ Get(m)' \in since'[m]
                        /\ Get(m)' = None => LoadedVariable(flat'.cvars, m) = None
      BY DEF Agree
    <2>1. CASE m = n
      BY <1>1, <1>2, <2>1 DEF Agree, Get
    <2>2. CASE m # n
      BY <1>1, <1>3, <2>2 DEF Agree, Get
    <2> QED
      BY <2>1, <2>2
  <1> QED
    BY <1>4, <1>5 DEF Coherent

LEMMA PersistsStep ==
  ASSUME Disciplined, TypeInv, Persists, Coherent, [Next]_vars
  PROVE  Persists' /\ Coherent'
  <1>1. CASE UNCHANGED vars
    BY <1>1 DEF vars, Persists, Load, Coherent, Agree, Get
  <1>2. CASE Start
    <2>1. Proper(Readable(file).cvars)
      BY NewProper DEF TypeInv, Readable
    <2>2. file # Torn => Readable(file) = file
      BY DEF Readable
    <2>3. \A n \in Names : /\ LoadedVariable(flat'.cvars, n) \in since'[n]
                           /\ mVariables'[n] \in since'[n]
                           /\ mVariables'[n] # Null
                           /\ mVariables'[n] = None => LoadedVariable(flat'.cvars, n) = None
      <3> SUFFICES ASSUME NEW n \in Names
                   PROVE  /\ LoadedVariable(flat'.cvars, n) \in since'[n]
                          /\ mVariables'[n] \in since'[n]
                          /\ mVariables'[n] # Null
                          /\ mVariables'[n] = None => LoadedVariable(flat'.cvars, n) = None
        OBVIOUS
      <3>1. LoadedVariable(Readable(file).cvars, n) \in Given(n) \union {None}
        BY <2>1, LoadedType
      <3>2. mVariables'[n] \in Given(n) \union {None}
        BY <1>2, <3>1 DEF Start, Load, TypeInv, VariablesProper
      <3>3. mVariables'[n] # Null
        BY <3>2, GivenTypes, NullAssumption
      <3> QED
        BY <1>2, <3>3 DEF Start, Load
    <2>4. Persists'
      BY <1>2, <2>2, <2>3 DEF Persists, Load, Start
    <2>5. Agree'
      <3> SUFFICES ASSUME NEW n \in Names
                   PROVE  /\ LoadedVariable(flat'.cvars, n) \in since'[n]
                          /\ Get(n)' \in since'[n]
                          /\ Get(n)' = None => LoadedVariable(flat'.cvars, n) = None
        BY DEF Agree
      <3>1. Get(n)' = mVariables'[n]
        BY <2>3 DEF Get
      <3> QED
        BY <2>3, <3>1
    <2>6. stage' = "running"
      BY <1>2 DEF Start
    <2> QED
      BY <2>4, <2>5, <2>6 DEF Coherent
  <1>3. ASSUME NEW n \in Names, NEW v \in Given(n), Set(n, v) \/ Register(n, v)
        PROVE  Persists' /\ Coherent'
    <2>1. Become(n, v) /\ stage = "running" /\ UNCHANGED <<flat, file, stage, after>>
      BY <1>3 DEF Set, Register, configVars
    <2>2. v # None
      BY GivenTypes, NullAssumption
    <2> QED
      BY <2>1, <2>2, BecomePersists DEF Coherent
  <1>4. ASSUME NEW n \in Names, ClearVariable(n)
        PROVE  Persists' /\ Coherent'
    <2> DEFINE d == [k \in Keys |-> IF k.name = n /\ k.part \in PartsCleared(Get(n)) THEN None
                                    ELSE flat.cvars[k]]
    <2>1. Agree /\ stage = "running"
      BY <1>4 DEF ClearVariable, Coherent
    <2>2. /\ d \in Leaves /\ LoadedVariable(d, n) = None
          /\ \A m \in Names \ {n} : LoadedVariable(d, m) = LoadedVariable(flat.cvars, m)
      BY <2>1, ClearedProper DEF Agree
    <2>3. /\ flat' = [flat EXCEPT !.cvars = d] /\ Become(n, None)
          /\ UNCHANGED <<file, stage, after>>
      BY <1>4 DEF ClearVariable
    <2> HIDE DEF d
    <2>4. flat'.cvars = d
      BY <2>2, <2>3, WithLeaves DEF TypeInv, TypeOK, ConfigType
    <2> QED
      BY <2>1, <2>2, <2>3, <2>4, BecomePersists
  <1>5. ASSUME NEW from \in Names, NEW to \in Names,
               Kinds[from] \subseteq Kinds[to], CopyVariable(from, to)
        PROVE  Persists' /\ Coherent'
    <2>1. Agree /\ stage = "running" /\ UNCHANGED <<flat, file, stage, after>>
      BY <1>5 DEF CopyVariable, configVars, Coherent
    <2>2. CASE Get(from) # None
      <3> DEFINE v == Get(from)
      <3>1. v \in Given(to) /\ v # None
        BY <1>5, <2>2 DEF Get, TypeInv, VariablesProper, Given
      <3>2. Become(to, v)
        BY <1>5, <2>2 DEF CopyVariable
      <3> HIDE DEF v
      <3> QED
        BY <2>1, <3>1, <3>2, BecomePersists
    <2>3. CASE Get(from) = None
      <3>1. mVariables' = [mVariables EXCEPT ![from] = Null] /\ UNCHANGED since
        BY <1>5, <2>3 DEF CopyVariable
      <3>2. \A n \in Names : Get(n)' = Get(n)
        BY <2>3, <3>1 DEF Get, TypeInv, TypeOK
      <3>3. Persists'
        BY <2>1, <3>1 DEF Persists, Load
      <3>4. Agree'
        BY <2>1, <3>1, <3>2 DEF Agree
      <3> QED
        BY <2>1, <3>3, <3>4 DEF Coherent
    <2> QED
      BY <2>2, <2>3
  <1>6. ASSUME NEW b \in Blocks, ClearBlock(b)
        PROVE  Persists' /\ Coherent'
    <2> DEFINE d == WithoutBlock(flat.cvars, b)
               s == [flat EXCEPT !.cvars = d]
    <2>1. /\ d \in Leaves
          /\ \A n \in Names : LoadedVariable(d, n) =
               IF IsPrefix(b, n) THEN None ELSE LoadedVariable(flat.cvars, n)
      BY BlockProper DEF TypeInv
    <2>2. Agree /\ OpenFile(s, "block") /\ block' = b /\ UNCHANGED since
      BY <1>6 DEF ClearBlock, Coherent
    <2> HIDE DEF d
    <2>3. s.cvars = d
      BY <2>1, WithLeaves DEF TypeInv, TypeOK, ConfigType
    <2> HIDE DEF s
    <2>4. Persists' /\ stage' = "saving" /\ after' = "block" /\ flat' = s
      BY <2>2, OpenPersists
    <2> QED
      BY <2>1, <2>2, <2>3, <2>4 DEF Coherent, Agree
  <1>7. CASE BlockCleared
    <2>1. /\ file' = flat /\ flat' = flat /\ stage = "saving" /\ after = "block"
          /\ stage' = "running"
      BY <1>7 DEF BlockCleared, WriteFile
    <2>2. \A n \in Names : LoadedVariable(flat.cvars, n) \in since'[n]
      BY <1>7, <2>1 DEF BlockCleared, Coherent
    <2>3. \A n \in Names : /\ mVariables'[n] = LoadedVariable(flat.cvars, n)
                           /\ LoadedVariable(flat.cvars, n) # Null
      BY <1>7, LoadedType, GivenTypes, NullAssumption DEF BlockCleared, Load, TypeInv
    <2>4. Persists'
      BY <2>1, <2>2 DEF Persists, Load
    <2>5. Agree'
      BY <2>1, <2>2, <2>3 DEF Agree, Get
    <2> QED
      BY <2>1, <2>4, <2>5 DEF Coherent
  <1>8. CASE Save
    <2> DEFINE s == [flat EXCEPT !.cvars = SavedLeaves]
    <2>1. \A n \in Names : mVariables[n] = None => LoadedVariable(flat.cvars, n) = None
      BY <1>8 DEF Save, Coherent, Agree, Get
    <2>2. /\ SavedLeaves \in Leaves
          /\ \A n \in Names : LoadedVariable(SavedLeaves, n) = mVariables[n]
      BY <1>8, <2>1, SavedProper DEF Save
    <2>3. s.cvars = SavedLeaves
      BY <2>2, WithLeaves DEF TypeInv, TypeOK, ConfigType
    <2>4. /\ OpenFile(s, "variables") /\ UNCHANGED mVariables
          /\ \A n \in Names : mVariables[n] # Null
      BY <1>8 DEF Save, cvarVars
    <2> HIDE DEF s
    <2>5. Persists' /\ stage' = "saving" /\ after' = "variables" /\ flat' = s
      BY <2>4, OpenPersists
    <2> QED
      BY <2>2, <2>3, <2>4, <2>5 DEF Coherent
  <1>9. CASE SaveNull
    BY <1>9, DiesPersists DEF SaveNull
  <1>10. CASE VariablesSaved
    <2>1. /\ file' = flat /\ flat' = flat /\ stage = "saving" /\ after = "variables"
          /\ stage' = "running" /\ mVariables' = mVariables
      BY <1>10 DEF VariablesSaved, WriteFile
    <2>2. \A n \in Names : /\ since'[n] = {mVariables[n]} /\ mVariables[n] # Null
                           /\ LoadedVariable(flat.cvars, n) = mVariables[n]
      BY <1>10, <2>1 DEF VariablesSaved, Coherent
    <2>3. Persists'
      BY <2>1, <2>2 DEF Persists, Load
    <2>4. Agree'
      BY <2>1, <2>2 DEF Agree, Get
    <2> QED
      BY <2>1, <2>3, <2>4 DEF Coherent
  <1>11. CASE OthersSaved
    <2>1. /\ file' = flat /\ flat' = flat /\ stage' \in {"running", "updating", "down"} /\ Agree
          /\ UNCHANGED <<mVariables, since>>
      BY <1>11 DEF OthersSaved, WriteFile, cvarVars, Coherent
    <2>2. Persists'
      BY <2>1 DEF Persists, Load, Agree
    <2>3. Agree'
      BY <2>1 DEF Agree, Get
    <2> QED
      BY <2>1, <2>2, <2>3 DEF Coherent
  <1>12. ASSUME NEW s, NEW ret \in {"caller", "updater", "exit"}, stage \in {"running", "updating"},
                OpenFile(s, ret), s.cvars = flat.cvars, UNCHANGED cvarVars
         PROVE  Persists' /\ Coherent'
    <2>1. Persists' /\ stage' = "saving" /\ after' = ret /\ flat' = s
      BY <1>12, OpenPersists
    <2>2. Agree'
      BY <1>12, <2>1 DEF Coherent, Agree, Get, cvarVars
    <2> QED
      BY <2>1, <2>2 DEF Coherent
  <1>13. CASE RunVersionUpdates /\ UNCHANGED cvarVars
    <2>1. CASE \E ret \in {"caller", "updater"} : OpenFile(flat, ret) /\ UNCHANGED updates
      BY <1>12, <1>13, <2>1, UpdateType
    <2>2. CASE flat'.cvars = flat.cvars /\ UNCHANGED <<file, after>> /\ stage' = "updating"
      <3>1. Agree
        BY <1>13, UpdateType DEF Coherent
      <3>2. Persists' /\ Agree'
        BY <1>13, <2>2, <3>1 DEF Persists, Load, Agree, Get, cvarVars
      <3> QED
        BY <2>2, <3>2 DEF Coherent
    <2> QED
      BY <1>13, <2>1, <2>2, UpdateType
  <1>14. CASE (SaveSettings \/ Quit) /\ UNCHANGED cvarVars
    BY <1>12, <1>14 DEF SaveSettings, Quit
  <1>15. CASE (SaveThrows \/ Crash) /\ UNCHANGED cvarVars
    BY <1>15, DiesPersists DEF SaveThrows, Crash
  <1> QED
    BY <1>1, <1>2, <1>3, <1>4, <1>5, <1>6, <1>7, <1>8, <1>9, <1>10, <1>11, <1>13, <1>14, <1>15
       DEF Next

(* What the settings in memory say of the updaters: the one that runs is   *)
(* ahead of the version, and so is one that a session has cut short.       *)
MemoryInv ==
  /\ \A u \in Updaters : flat.layout[u] = 2 => u \in cut
  /\ \A u \in Ahead(flat) : u = updater \/ u \in cut
  /\ flat.version # 0 => flat.layout[flat.version] # 0
  /\ updater # 0 => /\ flat.version < updater /\ flat.layout[updater] # 0
                    /\ stage = "updating" \/ (stage = "saving" /\ after = "updater")

UpdateInv == MemoryInv /\ UpdatedOnce

LEMMA Numbers ==
  ASSUME TypeInv
  PROVE  /\ Updaters \subseteq Nat \ {0} /\ updater \in Nat /\ (updater # 0 => updater \in Updaters)
         /\ flat.version \in Nat /\ (flat.version # 0 => flat.version \in Updaters)
         /\ flat.layout \in [Updaters -> 0 .. 2] /\ flat \in Settings
         /\ file # Torn => /\ file.version \in Nat /\ file.layout \in [Updaters -> 0 .. 2]
                           /\ file.version # 0 => file.version \in Updaters
  BY VersionAssumption DEF TypeInv, TypeOK, ConfigType, Settings, Versions, Updaters

LEMMA NewUpdated == /\ \A u \in Updaters : NewSettings.layout[u] = 0
                    /\ NewSettings.version = 0
  BY DEF NewSettings

(* Steps that leave the updaters alone, and version and layout in memory.  *)
LEMMA UpdatesKept ==
  ASSUME UpdateInv, UNCHANGED <<file, updates, stage, after>>,
         flat'.version = flat.version, flat'.layout = flat.layout
  PROVE  UpdateInv'
  BY DEF UpdateInv, MemoryInv, UpdatedOnce, Ahead, updates

LEMMA OpenUpdated ==
  ASSUME TypeInv, UpdateInv, NEW s, NEW ret, OpenFile(s, ret), UNCHANGED updates,
         stage = "running" \/ (stage = "updating" /\ (updater = 0 \/ ret = "updater")),
         s.version = flat.version, s.layout = flat.layout
  PROVE  UpdateInv'
  BY DEF OpenFile, UpdateInv, MemoryInv, UpdatedOnce, Ahead, updates

LEMMA WriteUpdated ==
  ASSUME TypeInv, UpdateInv, WriteFile
  PROVE  UpdateInv'
  <1>1. /\ file' = flat /\ flat' = flat /\ updater' = updater /\ cut' = cut /\ stage = "saving"
        /\ stage' = "updating" <=> after = "updater"
    BY DEF WriteFile, updates
  <1>2. MemoryInv'
    BY <1>1 DEF UpdateInv, MemoryInv, Ahead
  <1>3. UpdatedOnce'
    <2> SUFFICES ASSUME NEW u \in Updaters
                 PROVE  /\ flat.layout[u] = 2 => u \in cut
                        /\ u \in Ahead(flat) => u \in cut \/ (stage' = "updating" /\ u = updater)
                        /\ flat.version = u => flat.layout[u] # 0
      BY <1>1 DEF UpdatedOnce, Ahead
    <2> QED
      BY <1>1, Numbers DEF UpdateInv, MemoryInv
  <1> QED
    BY <1>2, <1>3 DEF UpdateInv

LEMMA DiesUpdated ==
  ASSUME TypeInv, UpdateInv, Dies
  PROVE  UpdateInv'
  <1>1. MemoryInv'
    BY NewUpdated DEF Dies, MemoryInv, Ahead
  <1>2. UpdatedOnce'
    BY DEF Dies, UpdateInv, UpdatedOnce, Ahead
  <1> QED
    BY <1>1, <1>2 DEF UpdateInv

(* The updaters run in ascending order, and only ahead of the version.     *)
LEMMA UpdaterUpdated ==
  ASSUME TypeInv, UpdateInv, RunVersionUpdates
  PROVE  UpdateInv'
  <1>1. ASSUME NEW updaters \in SUBSET Updaters, BeginUpdates(updaters)
        PROVE  UpdateInv'
    BY <1>1 DEF BeginUpdates, UpdateInv, MemoryInv, UpdatedOnce, Ahead
  <1>2. ASSUME NEW u \in Updaters, SkipUpdater(u)
        PROVE  UpdateInv'
    BY <1>2 DEF SkipUpdater, At, UpdateInv, MemoryInv, UpdatedOnce, Ahead
  <1>3. ASSUME NEW u \in Updaters, StartUpdater(u)
        PROVE  UpdateInv'
    <2>1. /\ flat'.version = flat.version /\ updater' = u /\ updater = 0 /\ cut' = cut
          /\ file' = file /\ stage = "updating" /\ stage' = "updating" /\ flat.version < u
          /\ flat'.layout = [flat.layout EXCEPT ![u] = IF @ = 0 THEN 1 ELSE 2]
      BY <1>3, Numbers DEF StartUpdater, At, Due, Settings
    <2>2. \A w \in Updaters : flat'.layout[w] = IF w # u THEN flat.layout[w]
                                                ELSE IF flat.layout[u] = 0 THEN 1 ELSE 2
      BY <2>1, Numbers
    <2>3. \A w \in Ahead(flat) : w \in cut
      BY <2>1, Numbers DEF UpdateInv, MemoryInv, Ahead
    <2>4. flat.layout[u] # 0 => u \in cut
      BY <2>1, <2>3 DEF Ahead
    <2>5. MemoryInv'
      <3>1. \A w \in Updaters : flat'.layout[w] = 2 => w \in cut'
        BY <2>1, <2>2, <2>4 DEF UpdateInv, MemoryInv
      <3>2. \A w \in Ahead(flat)' : w = u \/ w \in Ahead(flat)
        BY <2>1, <2>2 DEF Ahead
      <3>3. flat'.version # 0 => flat'.layout[flat'.version] # 0
        BY <2>1, <2>2, Numbers DEF UpdateInv, MemoryInv
      <3> QED
        BY <2>1, <2>2, <2>3, <3>1, <3>2, <3>3 DEF MemoryInv
    <2>6. UpdatedOnce'
      BY <2>1, Numbers DEF UpdateInv, UpdatedOnce, Ahead
    <2> QED
      BY <2>5, <2>6 DEF UpdateInv
  <1>4. CASE EndUpdater
    <2>1. /\ flat'.version = updater /\ flat'.layout = flat.layout /\ updater' = 0 /\ cut' = cut
          /\ file' = file /\ stage = "updating" /\ stage' = "updating"
          /\ flat.version < updater /\ flat.layout[updater] # 0 /\ updater \in Updaters
      BY <1>4, Numbers DEF EndUpdater, Settings, UpdateInv, MemoryInv
    <2>2. \A u \in Ahead(flat)' : u \in Ahead(flat) /\ u # updater
      BY <2>1, Numbers DEF Ahead
    <2>3. MemoryInv'
      BY <2>1, <2>2 DEF UpdateInv, MemoryInv
    <2>4. \A u \in Updaters : u = updater \/ u <= flat.version => u <= flat'.version
      BY <2>1, Numbers
    <2>5. UpdatedOnce'
      BY <2>1, <2>4 DEF UpdateInv, UpdatedOnce, Ahead
    <2> QED
      BY <2>3, <2>5 DEF UpdateInv
  <1>5. CASE SaveInUpdater
    BY <1>5, OpenUpdated DEF SaveInUpdater
  <1>6. CASE EndUpdates
    BY <1>6, OpenUpdated DEF EndUpdates
  <1> QED
    BY <1>1, <1>2, <1>3, <1>4, <1>5, <1>6 DEF RunVersionUpdates

LEMMA UpdateStep ==
  ASSUME TypeInv, UpdateInv, [Next]_vars
  PROVE  UpdateInv'
  <1>1. CASE UNCHANGED vars
    BY <1>1, UpdatesKept DEF vars
  <1>2. CASE Start
    <2>1. /\ flat' = Readable(file) /\ file' = file /\ UNCHANGED updates
          /\ stage = "down" /\ stage' = "running"
      BY <1>2 DEF Start
    <2>2. updater = 0
      BY <2>1 DEF UpdateInv, MemoryInv
    <2>3. CASE file = Torn
      <3>1. MemoryInv'
        BY <2>1, <2>2, <2>3, NewUpdated DEF Readable, MemoryInv, Ahead, updates
      <3> QED
        BY <2>1, <2>3, <3>1 DEF UpdateInv, UpdatedOnce
    <2>4. CASE file # Torn
      <3>1. /\ \A u \in Updaters : file.layout[u] = 2 => u \in cut
            /\ \A u \in Ahead(file) : u \in cut
            /\ file.version # 0 => file.layout[file.version] # 0
        BY <2>1, <2>4, Numbers DEF UpdateInv, UpdatedOnce, Ahead
      <3>2. flat' = file
        BY <2>1, <2>4 DEF Readable
      <3>3. MemoryInv'
        BY <2>1, <2>2, <3>1, <3>2 DEF MemoryInv, Ahead, updates
      <3>4. UpdatedOnce'
        BY <2>1, <3>1 DEF UpdateInv, UpdatedOnce, Ahead, updates
      <3> QED
        BY <3>3, <3>4 DEF UpdateInv
    <2> QED
      BY <2>3, <2>4
  <1>3. ASSUME UNCHANGED <<flat, file, updates, stage, after>>
        PROVE  UpdateInv'
    BY <1>3, UpdatesKept
  <1>4. CASE SaveNull \/ SaveThrows \/ Crash
    BY <1>4, DiesUpdated DEF SaveNull, SaveThrows, Crash
  <1>5. ASSUME WriteFile
        PROVE  UpdateInv'
    BY <1>5, WriteUpdated
  <1>6. ASSUME NEW d, NEW ret, OpenFile([flat EXCEPT !.cvars = d], ret), stage = "running",
               UNCHANGED updates
        PROVE  UpdateInv'
    <2>1. /\ [flat EXCEPT !.cvars = d].version = flat.version
          /\ [flat EXCEPT !.cvars = d].layout = flat.layout
      BY Numbers DEF Settings
    <2> QED
      BY <1>6, <2>1, OpenUpdated
  <1>7. ASSUME NEW n \in Names, ClearVariable(n)
        PROVE  UpdateInv'
    <2>1. PICK d : flat' = [flat EXCEPT !.cvars = d]
      BY <1>7 DEF ClearVariable
    <2>2. flat'.version = flat.version /\ flat'.layout = flat.layout
      BY <2>1, Numbers DEF Settings
    <2> QED
      BY <1>7, <2>2, UpdatesKept DEF ClearVariable
  <1>8. CASE SaveSettings \/ Quit
    BY <1>8, OpenUpdated DEF SaveSettings, Quit
  <1> QED
    BY <1>1, <1>2, <1>3, <1>4, <1>5, <1>6, <1>7, <1>8, UpdaterUpdated
       DEF Next, Set, Register, CopyVariable, ClearBlock, BlockCleared, Save,
           VariablesSaved, OthersSaved, configVars

LEMMA PersistsInit ==
  ASSUME Disciplined, Init
  PROVE  Persists /\ Coherent
  BY NewLoads DEF Init, ConfigInit, Persists, Load, Coherent

LEMMA Invariance ==
  ASSUME Disciplined
  PROVE  Spec => [](TypeInv /\ Persists /\ Coherent)
  <1>1. Init => TypeInv /\ Persists /\ Coherent
    BY TypeInit, PersistsInit
  <1>2. TypeInv /\ Persists /\ Coherent /\ [Next]_vars => (TypeInv /\ Persists /\ Coherent)'
    BY TypeStep, PersistsStep
  <1> QED
    BY <1>1, <1>2, PTL DEF Spec

(* Every variable of Config and ConsoleVariable keeps its type: what a     *)
(* session loads are variables, with a channel for every colour.           *)
THEOREM TypeCorrect ==
  ASSUME Disciplined
  PROVE  Spec => []TypeOK
  <1>1. TypeInv => TypeOK
    BY DEF TypeInv
  <1> QED
    BY <1>1, Invariance, PTL

(* ConsoleVariable.h:45: however sessions, saves, clears and crashes       *)
(* follow each other, a variable starts a session with what was last saved *)
(* or it has had since, unless a Save was cut short.                       *)
THEOREM PersistsHolds ==
  ASSUME Disciplined
  PROVE  Spec => []Persists
  BY Invariance, PTL

(* Config.h: "Version migration": whichever updaters the sessions register,*)
(* whichever save by themselves and wherever the program is killed, an     *)
(* update is twice in the file, or once above its version, only where a    *)
(* session ended between the update's own Save and the Save of its version.*)
THEOREM UpdatedOnceHolds ==
  ASSUME Disciplined
  PROVE  Spec => []UpdatedOnce
  <1>1. Init => UpdateInv
    BY NewUpdated, VersionAssumption
       DEF Init, ConfigInit, UpdateInv, MemoryInv, UpdatedOnce, Ahead, Updaters
  <1>2. UpdateInv /\ TypeInv /\ [Next]_vars => UpdateInv'
    BY UpdateStep
  <1>3. UpdateInv => UpdatedOnce
    BY DEF UpdateInv
  <1> QED
    BY <1>1, <1>2, <1>3, Invariance, PTL DEF Spec
==============================================================================
