---------------------------- MODULE DisplayCalls ----------------------------
(***************************************************************************)
(* Display lists as whoever writes them means them: a call goes on behind  *)
(* itself when the called list has ended, a branch goes on in another list *)
(* and never comes back, and the end of a list returns to the innermost    *)
(* one that waits.  A list is a sequence of words; the first word of a     *)
(* command says what it is and the words behind it that belong to it are   *)
(* data.  Only Miss is not meant: the interpreter leaves out the command   *)
(* behind an image that it does not find.                                  *)
(***************************************************************************)
EXTENDS Integers, Sequences

CONSTANTS
  Lists,     \* display lists
  Root,      \* the one a frame runs
  Null,      \* an address that does not resolve to a list
  Segmented, \* an address in the segment
  Movable,   \* the lists the game points the segment to
  Memories   \* [Lists -> sequences of words [op, to]]

Textures == {"texture", "textureHash"}
Simple == {"one", "two", "three", "wide", "interp", "vtx"} \union Textures
Calling == {"call", "callHash"}
Closing == {"end", "branch"}
Data == {"data", "count"}
Ops == Simple \union Calling \union Closing \union Data \union {"branchZ", "segment"}

(* The first word behind the command at a that is not data of it.          *)
Behind(mem, a) ==
  <<a[1], CHOOSE j \in a[2] + 1 .. Len(mem[a[1]]) :
            /\ mem[a[1]][j].op \notin Data
            /\ \A i \in a[2] + 1 .. j - 1 : mem[a[1]][i].op \in Data>>

(* The words that gbi.h's macros write for a command.                      *)
Words(op) ==
  CASE op \in {"three", "interp"} -> 3
    [] op \in {"two", "wide", "vtx", "textureHash", "callHash", "branchZ"} -> 2
    [] OTHER -> 1

(* The last word of a list, and no other, ends it or branches; behind the  *)
(* words of any other command comes a command.  The second word of a vertex*)
(* command holds the vertices' count.                                      *)
WellFormed(mem) ==
  /\ mem \in [Lists -> Seq([op : Ops, to : Lists \union {Null, Segmented}])]
  /\ \A l \in Lists :
       /\ mem[l] # <<>> /\ mem[l][1].op \notin Data
       /\ mem[l][Len(mem[l])].op \in Closing
       /\ \A i \in DOMAIN mem[l] :
            LET op == mem[l][i].op
                to == mem[l][i].to
            IN  /\ op \in Closing => i = Len(mem[l])
                /\ op \notin Closing \union Data =>
                     /\ i + Words(op) \in DOMAIN mem[l]
                     /\ mem[l][i + Words(op)].op \notin Data
                     /\ \A j \in i + 1 .. i + Words(op) - 1 :
                          mem[l][j].op = IF op = "vtx" THEN "count" ELSE "data"
                /\ op = "count" => i > 1 /\ mem[l][i - 1].op = "vtx"
                /\ op = "branch" => to # Null
                /\ op \notin {"call", "branch"} => to # Segmented
                /\ op = "segment" => to \in Movable

VARIABLES
  mem,     \* the display lists
  segment, \* mSegmentPointers of the segment
  frames   \* where each active list goes on, the innermost last

Top == frames[Len(frames)]
Outer == SubSeq(frames, 1, Len(frames) - 1)
Now == mem[Top[1]][Top[2]]
Target == IF Now.to = Segmented THEN segment ELSE Now.to

Init == mem \in Memories /\ segment \in Movable /\ frames = <<>>

Start == frames' = <<<<Root, 1>>>> /\ UNCHANGED segment

Continue ==
  /\ Now.op \in Simple \/ Now.op = "branchZ" \/ (Now.op \in Calling /\ Target = Null)
  /\ frames' = Append(Outer, Behind(mem, Top))
  /\ UNCHANGED segment

(* The command behind an image that is not there is left out; if that is   *)
(* the end of the list, or one of several words, nothing more can be said  *)
(* of what runs.                                                           *)
Miss ==
  /\ Now.op \in Textures
  /\ LET next == Behind(mem, Top)
         op == mem[next[1]][next[2]].op
     IN  frames' = IF op = "vtx" \/ (op \notin Closing /\ Words(op) = 1)
                   THEN Append(Outer, Behind(mem, next)) ELSE <<>>
  /\ UNCHANGED segment

SetSegment ==
  /\ Now.op = "segment"
  /\ segment' = Now.to
  /\ frames' = Append(Outer, Behind(mem, Top))

Call ==
  /\ Now.op \in Calling /\ Target # Null
  /\ frames' = Outer \o <<Behind(mem, Top), <<Target, 1>>>>
  /\ UNCHANGED segment

Branch ==
  /\ Now.op \in {"branch", "branchZ"} /\ Target # Null
  /\ frames' = Append(Outer, <<Target, 1>>)
  /\ UNCHANGED segment

EndDl == Now.op = "end" /\ frames' = Outer /\ UNCHANGED segment

Next ==
  /\ Start \/ (frames # <<>> /\ (Continue \/ Miss \/ SetSegment \/ Call \/ Branch \/ EndDl))
  /\ UNCHANGED mem

Spec == Init /\ [][Next]_<<mem, segment, frames>>
=============================================================================
