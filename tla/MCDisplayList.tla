---------------------------- MODULE MCDisplayList ----------------------------
(* main calls or branches to room, perhaps twice and so by two paths; room *)
(* to near or far, by name or through the segment.  Images come before     *)
(* commands of one word and of more, and before the end.                   *)
EXTENDS DisplayList

MCLists == {"main", "room", "near", "far"}
MCMovable == {"near", "far"}

Command(op, to) ==
  LET first == [op |-> op, to |-> to]
      data == [op |-> "data", to |-> Null]
  IN  CASE op \in {"three", "interp"} -> <<first, data, data>>
        [] op = "vtx" -> <<first, [op |-> "count", to |-> Null]>>
        [] op \in {"two", "wide", "textureHash", "callHash", "branchZ"} -> <<first, data>>
        [] OTHER -> <<first>>

End == Command("end", Null)
Again == Command("call", "room")
ToRoom == Command("branch", "room")
Onward == Command("branch", Segmented)

Mains ==
  {c \o d : c \in {Again, Command("branchZ", "room"), Command("call", Segmented),
                   Command("texture", Null)},
            d \in {End, ToRoom, Again \o End}}
Rooms ==
  {c \o d : c \in {Command("callHash", "near"), Command("branchZ", "far"),
                   Command("call", Null) \o Command("wide", Null),
                   Command("interp", Null) \o Command("segment", "far"),
                   Command("textureHash", Null) \o Command("vtx", Null)},
            d \in {End, Onward}}

Memory(m, r) ==
  [l \in MCLists |-> CASE l = "main" -> m [] l = "room" -> r
                       [] l = "near" -> Command("texture", Null) \o Command("three", Null) \o End
                       [] l = "far" -> End]

MCMemories == {Memory(m, r) : m \in Mains, r \in Rooms}
==============================================================================
