----------------------------- MODULE DisplayList -----------------------------
(***************************************************************************)
(* The interpreter's way through display lists (GfxExecStack, gfx_step and *)
(* Run of src/src/fast/interpreter.cpp) and the debugger that stops it at  *)
(* a command (GfxDebugger.cpp).  The debugger's window draws the lists as  *)
(* a tree on its own, and a click makes the path of a node the breakpoint. *)
(***************************************************************************)
EXTENDS Integers, Sequences, SequencesExt

CONSTANTS Lists, Root, Null, Segmented, Movable, Memories

VARIABLES
  mem, segment,
  stack,      \* cmd_stack, the top last; Null marks a list left by a branch
  path,       \* gfx_path
  debugging,  \* GfxDebugger::mIsDebugging
  breakpoint, \* GfxDebugger::mBreakPoint
  shown,      \* DrawDisasNode's gfxPath at the node it draws; <<>> when it does not
  state,      \* of the last Run: "running", "stopped", "finished"; "idle" once
              \* the debugger has been told something else since; "lost" when it
              \* ran off a list or into the middle of a command
  averted     \* history: it left the way to the breakpoint

(* The stack without the marks.  A vertex command's count does nothing: the*)
(* command that goes on is the one behind it.                              *)
Meant(m, a) == IF m[a[1]][a[2]].op = "count" THEN <<a[1], a[2] + 1>> ELSE a
Unmarked(m, s) ==
  FlattenSeq([k \in DOMAIN s |-> IF s[k] = Null THEN <<>> ELSE <<Meant(m, s[k])>>])
Frames == IF state = "lost" THEN <<>> ELSE Unmarked(mem, stack)
Calls == INSTANCE DisplayCalls WITH frames <- Frames

ASSUME ListsAssumption ==
  /\ Movable \subseteq Lists /\ Root \in Lists
  /\ Null \notin Lists \union (Lists \X Nat) /\ Segmented \notin Lists \union {Null}
ASSUME MemoriesAssumption == \A m \in Memories : Calls!WellFormed(m)

machine == <<mem, segment, stack, path>>
debugger == <<debugging, breakpoint, shown>>
vars == <<machine, debugger, state, averted>>

Addresses == UNION {{l} \X DOMAIN mem[l] : l \in Lists}
Word(a) == mem[a[1]][a[2]]
Cmd == stack[Len(stack)]
Rest == SubSeq(stack, 1, Len(stack) - 1)
Here == Append(path, Cmd)

(* Mutant of Width: the handler does not step over the hash.               *)
WidthShort(op) == IF op = "callHash" THEN 1 ELSE Calls!Words(op)

(* The commands' lengths as the handlers know them when they find what the *)
(* command names,                                                          *)
Width(op) ==
  CASE op \in {"three", "interp"} -> 3
    [] op \in {"two", "wide", "vtx", "textureHash", "callHash", "branchZ"} -> 2
    [] OTHER -> 1

(* and as the window does, which leaves gDPLoadBlockWide and               *)
(* G_SETTILESIZE_INTERP to its default of one word, and then takes the     *)
(* words behind it for whatever they look like.                            *)
ShownWidths(op) ==
  IF op \in Calls!Data THEN 1 .. 3
  ELSE IF op \in {"wide", "interp"} THEN {1} ELSE {Width(op)}

(* SegAddr, or a resource that may be missing.                             *)
SegAddr(to) == IF to = Segmented THEN segment ELSE to

TypeOK ==
  /\ mem \in Memories /\ segment \in Movable
  /\ stack \in Seq(Addresses \union {Null}) /\ path \in Seq(Addresses)
  /\ debugging \in BOOLEAN /\ breakpoint \in Seq(Addresses) /\ shown \in Seq(Addresses)
  /\ state \in {"idle", "running", "stopped", "finished", "lost"} /\ averted \in BOOLEAN
  /\ state = "running" => stack # <<>> /\ Cmd # Null
  /\ \A k \in DOMAIN stack : stack[k] # Null => Word(stack[k]).op # "data"

Init ==
  /\ mem \in Memories /\ segment \in Movable
  /\ stack = <<>> /\ path = <<>>
  /\ debugging = FALSE /\ breakpoint = <<>> /\ shown = <<>>
  /\ state = "idle" /\ averted = FALSE

------------------------------------------------------------------------------
(* The debugger, between two frames.  DebugDisplayList answers the window's*)
(* request and stops at the first command.                                 *)
Between == state \notin {"running", "lost"}

DebugDisplayList ==
  /\ Between /\ ~debugging
  /\ debugging' = TRUE /\ breakpoint' = <<<<Root, 1>>>>
  /\ state' = "idle"
  /\ UNCHANGED <<machine, shown, averted>>

ResumeGame ==
  /\ Between /\ debugging
  /\ debugging' = FALSE /\ shown' = <<>>
  /\ state' = "idle"
  /\ UNCHANGED <<machine, breakpoint, averted>>

(* DrawDisasNode goes through a list, with the nodes of the lists that its *)
(* commands call or branch to inside theirs, whatever a condition will say.*)
Node == Last(shown)
Draw(node) == shown' = node /\ UNCHANGED <<machine, debugging, breakpoint, state, averted>>
Drawing == Between /\ shown # <<>>

DrawRoot == Between /\ debugging /\ shown = <<>> /\ Draw(<<<<Root, 1>>>>)

DrawNext ==
  /\ Drawing /\ Word(Node).op \notin Calls!Closing
  /\ \E w \in ShownWidths(Word(Node).op) :
       /\ Node[2] + w \in DOMAIN mem[Node[1]]
       /\ Draw(Append(Front(shown), <<Node[1], Node[2] + w>>))

DrawSub ==
  /\ Drawing /\ Word(Node).op \in Calls!Calling \union {"branch", "branchZ"}
  /\ SegAddr(Word(Node).to) # Null
  /\ Draw(Append(shown, <<SegAddr(Word(Node).to), 1>>))

SetBreakPoint ==
  /\ Drawing
  /\ breakpoint' = shown /\ shown' = <<>>
  /\ state' = "idle"
  /\ UNCHANGED <<machine, debugging, averted>>

------------------------------------------------------------------------------
(* A frame, and GfxExecStack::start.                                       *)
Run ==
  /\ Between /\ shown = <<>>
  /\ stack' = <<<<Root, 1>>>> /\ path' = <<>>
  /\ state' = "running" /\ averted' = FALSE
  /\ UNCHANGED <<mem, segment, debugger>>

HasBreakPoint == debugging /\ Here = breakpoint

(* The stacks stay as they are.                                            *)
Break ==
  /\ state = "running" /\ HasBreakPoint
  /\ state' = "stopped"
  /\ UNCHANGED <<machine, debugger, averted>>

(* The breakpoint is in this list, or reached from it.                     *)
Through == Len(breakpoint) >= Len(Here) /\ SubSeq(breakpoint, 1, Len(path)) = path
Before == breakpoint[Len(Here)]

(* The command here is about to be left, into a list or for the next: was  *)
(* the breakpoint on a way it could have gone, but does not go?            *)
Averted(into) ==
  /\ Through /\ Before[1] = Cmd[1]
  /\ \/ /\ Word(Cmd).op = "branchZ" \/ Word(Cmd).to = Segmented
        /\ Before = Cmd /\ Len(breakpoint) > Len(Here) /\ breakpoint[Len(Here) + 1][1] # into
     \/ Word(Cmd).op = "branchZ" /\ into # Null /\ Before[2] > Cmd[2]

Stepping(ops) == state = "running" /\ ~HasBreakPoint /\ Cmd # Null /\ Word(Cmd).op \in ops
Enter(into) == averted' = (averted \/ Averted(into)) /\ UNCHANGED <<mem, debugger>>

(* A handler that returns false leaves the command behind.                 *)
Behind == <<Cmd[1], Cmd[2] + Width(Word(Cmd).op)>>
StepOver == stack' = Append(Rest, Behind) /\ path' = path /\ state' = state /\ Enter(Null)
Skip == Stepping(Calls!Simple \union {"count"}) /\ StepOver /\ UNCHANGED segment

(* gfx_step does not hand an address that cannot be one to the handler and *)
(* steps over the first word only.                                         *)
GuardVtx ==
  /\ Stepping({"vtx"})
  /\ stack' = Append(Rest, <<Cmd[1], Cmd[2] + 1>>)
  /\ UNCHANGED <<segment, path, state, averted, mem, debugger>>

(* The handler of an image that is not found steps over a word too many.   *)
MissTexture ==
  /\ Stepping(Calls!Textures)
  /\ LET next == <<Cmd[1], Behind[2] + 1>>
     IN  IF next[2] \in DOMAIN mem[next[1]] /\ Word(next).op # "data"
         THEN /\ stack' = Append(Rest, next) /\ state' = state
              /\ averted' = (averted \/ (Through /\ Before = Behind))
         ELSE state' = "lost" /\ UNCHANGED <<stack, averted>>
  /\ UNCHANGED <<segment, path, mem, debugger>>

SetSegment ==
  /\ Stepping({"segment"})
  /\ segment' = Word(Cmd).to
  /\ StepOver

(* Mutants of CallTo: the call is what it returns to; the path gets where  *)
(* it returns to for the call.                                             *)
CallToAgain(sub) == stack' = Append(stack, <<sub, 1>>) /\ path' = Append(path, Cmd)
CallToPast(sub) == stack' = Rest \o <<Behind, <<sub, 1>>>> /\ path' = Append(path, Behind)

(* GfxExecStack::call, and the step over the call in the caller's slot.    *)
CallTo(sub) == stack' = Rest \o <<Behind, <<sub, 1>>>> /\ path' = Append(path, Cmd)

CallDl ==
  /\ Stepping(Calls!Calling)
  /\ LET sub == SegAddr(Word(Cmd).to)
     IN  IF sub = Null THEN StepOver
         ELSE CallTo(sub) /\ UNCHANGED state /\ Enter(sub)
  /\ UNCHANGED segment

(* Mutants of BranchTo: the list that is left is returned to; nothing marks*)
(* it.                                                                     *)
BranchToCalling(sub) == stack' = Rest \o <<Behind, <<sub, 1>>>> /\ path' = Append(path, Cmd)
BranchToUnmarked(sub) == stack' = Append(Rest, <<sub, 1>>) /\ path' = Append(path, Cmd)

(* GfxExecStack::branch.                                                   *)
BranchTo(sub) == stack' = Rest \o <<Null, <<sub, 1>>>> /\ path' = Append(path, Cmd)

BranchDl ==
  /\ Stepping({"branch"})
  /\ BranchTo(SegAddr(Word(Cmd).to))
  /\ UNCHANGED <<segment, state>> /\ Enter(SegAddr(Word(Cmd).to))

(* Taken if the vertex is near enough and the list was found.              *)
BranchZ ==
  /\ Stepping({"branchZ"})
  /\ \/ StepOver
     \/ /\ Word(Cmd).to # Null
        /\ BranchTo(SegAddr(Word(Cmd).to))
        /\ UNCHANGED state /\ Enter(SegAddr(Word(Cmd).to))
  /\ UNCHANGED segment

(* GfxExecStack::ret pops the list and the marks of those that branched to *)
(* it.                                                                     *)
Kept ==
  CHOOSE k \in 0 .. Len(Rest) :
    /\ k > 0 => Rest[k] # Null
    /\ \A j \in k + 1 .. Len(Rest) : Rest[j] = Null

EndDl ==
  /\ Stepping({"end"})
  /\ stack' = SubSeq(stack, 1, Kept)
  /\ path' = SubSeq(path, 1, Kept - 1)
  /\ state' = IF Kept = 0 THEN "finished" ELSE "running"
  /\ UNCHANGED segment /\ Enter(Null)

Step == Skip \/ GuardVtx \/ MissTexture \/ SetSegment \/ CallDl \/ BranchDl \/ BranchZ \/ EndDl

Next ==
  \/ DebugDisplayList \/ ResumeGame
  \/ DrawRoot \/ DrawNext \/ DrawSub \/ SetBreakPoint
  \/ Run \/ Break \/ Step

(* Run is a loop of the game's thread.                                     *)
Spec == Init /\ [][Next]_vars /\ WF_vars(Break \/ Step)

------------------------------------------------------------------------------
(* gfx_path says how the command came to be reached: every element is the  *)
(* call that the next one's list, or the command's, was entered by, and its*)
(* caller goes on right behind it, or it is the branch that ended its list.*)
PathLeadsHere ==
  stack # <<>> =>
    /\ Len(path) = Len(stack) - 1
    /\ path # <<>> => path[1][1] = Root
    /\ \A k \in DOMAIN path :
         LET by == Word(path[k])
             to == IF k = Len(path) THEN Cmd[1] ELSE path[k + 1][1]
         IN  /\ to \in IF by.to = Segmented THEN Movable ELSE {by.to}
             /\ IF stack[k] = Null THEN by.op \in {"branch", "branchZ"}
                ELSE by.op \in Calls!Calling /\ stack[k] = Calls!Behind(mem, path[k])

(* A frame that was to stop at a command clicked in the window stops there,*)
(* unless a condition on its way turned out otherwise, the segment pointed *)
(* elsewhere when it was called than when the window was drawn, or an image*)
(* was missing right before it: the path the window makes by recursion is  *)
(* the one the stacks make.  The words that the window takes for commands  *)
(* behind one whose length it does not know are none.                      *)
BreaksWhereClicked ==
  state = "finished" /\ debugging /\ Word(Last(breakpoint)).op \notin Calls!Data => averted

(* The stacks implement calls, branches and returns as display lists mean  *)
(* them: commands run in the order they would on the console, except that  *)
(* a missing image takes the command behind it along.                      *)
RunsAsWritten == Calls!Spec

(* A frame of lists that do not call themselves ends.                      *)
FrameEnds == state = "running" ~> state # "running"
==============================================================================
