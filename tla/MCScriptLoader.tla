--------------------------- MODULE MCScriptLoader ----------------------------
(* An instance of ScriptLoader for TLC: an archive per script, dependencies*)
(* on two scripts, on one twice, in a ring of two or three, or on a script *)
(* no archive has; manifests change, to a binary, an old code version or    *)
(* the name of another script.                                             *)
EXTENDS ScriptLoader, TLC

CONSTANTS a, b, c, absent, arcA, arcB, arcC

Script(n, d) == [name |-> n, code |-> "source", current |-> TRUE, trusted |-> TRUE, deps |-> d]
MCManifests ==
  arcA :> {Script(a, d) : d \in {<<>>, <<b>>, <<c, b>>}}
  @@ arcB :> ({Script(b, d) : d \in {<<>>, <<a, c>>}} \union {[Script(b, <<>>) EXCEPT !.code = "binary"]})
  @@ arcC :> ({Script(c, d) : d \in {<<b, b>>, <<absent>>}} \union {[Script(c, <<>>) EXCEPT !.current = FALSE], Script(a, <<>>)})
MCMounted == <<arcA, arcB, arcC>>
==============================================================================
