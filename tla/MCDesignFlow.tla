----------------------------- MODULE MCDesignFlow -----------------------------
(* Four tiles, the third beyond the box and the last without coordinates.    *)
(* Nodes 1 and 2 are driven by source pins, 4 is a sink one could pass       *)
(* through on the way to 5, 7 hangs behind 6; 3, 6 and 8 lie in two tiles.   *)
EXTENDS DesignFlow

Wire(t, w)   == [tile |-> t, wire |-> w]
Directed(u, v) == [wire0 |-> u, wire1 |-> v, directional |-> TRUE, conventional |-> TRUE]
At(s, t)     == [site |-> s, type |-> t]
Fixed(ps, ws) == [primary |-> ps, wires |-> ws, parents |-> <<>>]

MCTypes ==
    [CLB |-> [pips |-> <<[Directed("A", "C") EXCEPT !.directional = FALSE], Directed("B", "C")>>,
              siteTypes |-> <<Fixed("SL", <<"A", "A", "B">>), Fixed("SL", <<"B", "B", "A">>)>>],
     INT |-> [pips |-> <<Directed("C", "D"), Directed("C", "D2"), Directed("D", "D2"), Directed("C", "F"),
                         Directed("D", "E"), Directed("F", "E"), Directed("F", "G"), Directed("F", "H"),
                         [Directed("C", "E") EXCEPT !.conventional = FALSE], Directed("H", "G")>>,
              siteTypes |-> <<Fixed("IO", <<"D", "E", "E", "G", "F">>),
                              [primary |-> "P", wires |-> <<"D", "F">>, parents |-> <<<<2>>>>],
                              Fixed("OS", <<"H">>)>>]]

MCSiteTypes ==
    [SL |-> [pins |-> <<"s0", "s0b", "s1">>, alternates |-> <<>>],
     IO |-> [pins |-> <<"a", "b", "b2", "g", "gmux">>, alternates |-> <<>>],
     P  |-> [pins |-> <<"u", "w">>, alternates |-> <<"V">>],
     V  |-> [pins |-> <<"u">>, alternates |-> <<>>],
     OS |-> [pins |-> <<"off">>, alternates |-> <<>>]]

MCDevice ==
    [types |-> MCTypes, siteTypes |-> MCSiteTypes,
     tiles |-> <<[type |-> "CLB", at |-> <<0, 0>>, sites |-> <<At("S", 1)>>],
                 [type |-> "INT", at |-> <<1, 0>>, sites |-> <<At("T", 1), At("U", 2)>>],
                 [type |-> "INT", at |-> <<5, 0>>, sites |-> <<At("O", 3)>>],
                 [type |-> "CLB", at |-> <<>>,     sites |-> <<At("X", 1)>>]>>,
     nodes |-> <<<<Wire(1, "A")>>, <<Wire(1, "B")>>, <<Wire(1, "C"), Wire(2, "C")>>,
                 <<Wire(2, "D"), Wire(2, "D2")>>, <<Wire(2, "E")>>, <<Wire(2, "F"), Wire(3, "F")>>,
                 <<Wire(2, "G")>>, <<Wire(3, "H"), Wire(2, "H")>>, <<Wire(4, "A")>>, <<>>>>]

\* One with a wire in two nodes, the second of which the box may cut away, and
\* one with a site that is listed twice.
Contradictory == [MCDevice EXCEPT !.nodes[10] = <<Wire(3, "E"), Wire(2, "E")>>]
Doubled       == [MCDevice EXCEPT !.tiles[1].sites = <<At("S", 1), At("S", 2)>>]
MCDevices     == {MCDevice, Contradictory, Doubled}

Whole == [min |-> <<0, 0>>, max |-> <<9, 9>>, mode |-> "poc-base-wire"]
Part(mode) == [min |-> <<0, 0>>, max |-> <<1, 9>>, mode |-> mode]
Empty == [min |-> <<7, 7>>, max |-> <<8, 8>>, mode |-> "poc-base-wire"]
MCCuts == {Whole, Empty} \cup {Part(m) : m \in {"poc-base-wire", "fully-contained", "intersects"}}
-----------------------------------------------------------------------------
(* s0 and s0b are aliases, and so are b and b2; u is 4 or 6.                 *)

MCType == [s \in {"S", "T", "U", "O", "X"} |->
              [S |-> "SL", T |-> "IO", U |-> "none", O |-> "OS", X |-> "SL"][s]]
MCPins == {<<"S", p>> : p \in {"s0", "s0b", "s1"}} \cup {<<"T", p>> : p \in {"a", "b", "b2", "g", "gmux"}}
          \cup {<<"U", "u">>, <<"O", "off">>, <<"X", "s0">>}
MCPaired == [p \in MCPins |-> IF p = <<"T", "g">> THEN <<"T", "gmux">> ELSE p]

Pin(s, p) == PinBranch(<<s, p>>, <<>>)
Pip(t, u, v, below) == PipBranch([tile |-> t, wire0 |-> u, wire1 |-> v, forward |-> TRUE], below)
From(pins) == <<BelBranch([i \in 1 .. Len(pins) |-> Pin("S", pins[i])])>>
Stubs(pins) == [i \in 1 .. Len(pins) |-> Pin("T", pins[i])]
Signal(name, sources, stubs) ==
    [name |-> name, signal |-> TRUE, sources |-> sources, stubs |-> stubs, stubNodes |-> {}]

Plain    == Signal("n1", From(<<"s0">>), Stubs(<<"a", "b">>))
Aliased  == Signal("n2", From(<<"s0", "s0b">>), Stubs(<<"b", "b2", "b">>))
Other    == Signal("n3", From(<<"s1">>), <<PinBranch(<<"T", "a">>, <<BelBranch(<<>>)>>), Pin("T", "g")>>)
Again    == Signal("n1", From(<<"s1">>), <<Pin("S", "s0b"), Pin("T", "g")>>)
Loop     == Signal("n4", From(<<"s0", "s1">>), <<Pin("S", "s0b"), Pin("T", "b")>>)
Far      == Signal("n5", <<Pin("O", "off")>>, Stubs(<<"a">>))
FarTwice == Signal("n6", <<Pin("O", "off")>>, Stubs(<<"b", "b2">>))
Done     == Signal("n7", <<PinBranch(<<"S", "s1">>,
                              <<Pip(1, "B", "C", <<Pip(2, "C", "D", <<Pin("T", "a")>>)>>)>>)>>, <<>>)
Partial  == Signal("n8", <<BelBranch(<<Pin("S", "s1"), Pip(2, "F", "G", <<>>)>>)>>, Stubs(<<"a">>))
Bent     == Signal("n9", From(<<"s1">>), <<BelBranch(<<Pin("T", "g")>>)>>)
Orphan   == Signal("n10", <<>>, Stubs(<<"b">>))
Lost     == Signal("n11", <<Pin("X", "s0")>>, Stubs(<<"g">>))
Static   == [Signal("gnd", <<BelBranch(<<Pin("T", "g")>>)>>, <<Pin("U", "u")>>) EXCEPT !.signal = FALSE]
Used     == [Signal(UsedNet, From(<<"s1">>), Stubs(<<"g">>)) EXCEPT !.stubNodes = {<<2, "F">>, <<4, "A">>}]

MCNets == {Plain, Aliased, Other, Again, Loop, Far, FarTwice, Done, Partial, Bent, Orphan, Lost, Static, Used}
MCDesigns == {<<n>> : n \in MCNets} \cup {<<n, k>> : n \in MCNets, k \in MCNets}
             \cup {<<n, k, l>> : n \in {Static, Used, Orphan}, k \in {Other, Loop, Far}, l \in MCNets}
MCLogical == {<<"n1", "n2", "n3">>, <<"n1", "n1", "n1">>}
===============================================================================
