------------------------------ MODULE MCDesign ------------------------------
(* A top with a loop around a module with a port and nested loops, two         *)
(* modules in one document, an interface with an instance and a loop, ports    *)
(* connected, forwarded, left open and of a modport, and a package.            *)
EXTENDS Design, TLC

Var == [kind |-> "var"]
Inst(m, ports) == [kind |-> "inst", of |-> m, ports |-> ports]
Array(m) == [kind |-> "array", of |-> m, ports |-> <<>>, range |-> {"[0]", "[1]"}]
Loop(members) == [kind |-> "loop", range |-> {"[0]", "[1]"}, members |-> members]
Port == [kind |-> "port", of |-> "bus", modport |-> None]
PortOf(names) == [Port EXCEPT !.modport = names]

Mods == {"top", "mid", "leaf", "bus", "cell", "pkg"}
Buses == {"bus"}
Pkgs == {"pkg"}
DocOf == "top" :> "t.sv" @@ "mid" :> "m.sv" @@ "leaf" :> "m.sv" @@ "bus" :> "b.sv" @@ "cell" :> "b.sv"
         @@ "pkg" :> "b.sv"
TopLoop == "b" :> Inst("bus", <<>>)
           @@ "g" :> Loop("h" :> Loop("x" :> Var) @@ "u" :> Inst("mid", "p" :> "b"))
TopFlat == "b" :> Array("bus") @@ "u" :> Inst("mid", "p" :> "b") @@ "v" :> Inst("mid", <<>>)
MidPort == "p" :> Port @@ "l" :> Inst("leaf", <<>>)
MidBus == "p" :> Port @@ "c" :> Inst("bus", <<>>) @@ "l" :> Inst("leaf", "q" :> "p")
Leaf == "s" :> Var @@ "q" :> PortOf({"w"})
Bus == "w" :> Var @@ "n" :> Inst("cell", <<>>)
       @@ "j" :> [Loop("y" :> Var) EXCEPT !.range = {"[0]"}]
Cell == "y" :> Var
Package == "k" :> Var
TextsOf == "top" :> {"loop", "flat"} @@ "mid" :> {"port", "bus"} @@ "leaf" :> {"1"} @@ "bus" :> {"1"}
           @@ "cell" :> {"1"} @@ "pkg" :> {"1"}
BodyOf == "top" :> ("loop" :> TopLoop @@ "flat" :> TopFlat)
          @@ "mid" :> ("port" :> MidPort @@ "bus" :> MidBus)
          @@ "leaf" :> ("1" :> Leaf) @@ "bus" :> ("1" :> Bus)
          @@ "cell" :> ("1" :> Cell) @@ "pkg" :> ("1" :> Package)
AtFirst == "top" :> "loop" @@ "mid" :> "bus" @@ "leaf" :> "1" @@ "bus" :> "1" @@ "cell" :> "1"
           @@ "pkg" :> "1"
Order == "[0]" :> 0 @@ "[1]" :> 1 @@ "b" :> 2 @@ "bus" :> 3 @@ "c" :> 4 @@ "cell" :> 5 @@ "g" :> 6 @@ "h" :> 7
         @@ "j" :> 8 @@ "k" :> 9 @@ "l" :> 10 @@ "leaf" :> 11 @@ "mid" :> 12 @@ "n" :> 13 @@ "p" :> 14 @@ "pkg" :> 15
         @@ "q" :> 16 @@ "s" :> 17 @@ "top" :> 18 @@ "u" :> 19 @@ "v" :> 20 @@ "w" :> 21 @@ "x" :> 22 @@ "y" :> 23
Chosen == {<<"top", "g", i, "h", j, "x">> : i, j \in {"[0]", "[1]"}}
          \cup {<<"top", "g", i>> \o p : i \in {"[0]", "[1]"},
                p \in {<<>>, <<"u", "c">>, <<"u", "l">>, <<"u", "l", "q">>}}
          \cup {<<"top", "b">>, <<"top", "b", "[0]">>, <<"top", "u", "p">>, <<"top", "u", "l">>, <<"top", "v", "p">>}
Items == {"[0]", "[1]"}
=============================================================================
