------------------------------ MODULE MCSpaces ------------------------------
\* a and b manage the space, d can read and has no node of its own, c is not
\* a member yet but follows the space; b also manages the group g.
EXTENDS Spaces

add(m, access) == [type |-> "add", member |-> m, access |-> access]
remove(m) == [type |-> "remove", member |-> m]

space(n, action) == [node |-> n, call |-> "space", action |-> action]
group(n, g, action) == [node |-> n, call |-> "group", group |-> g, action |-> action]
publish(n) == [node |-> n, call |-> "publish"]
member(n) == [node |-> n, call |-> "member"]

MCClock == [a |-> 1, b |-> 2, c |-> 3]

MCSetup ==
  << member("a"), member("b"),
     [node |-> "a", call |-> "create"],
     group("b", "g", [type |-> "create", initial |-> ("b" :> Manage)]),
     space("a", add("b", Manage)),
     space("a", add("d", Read)), space("a", add("g", Write)) >>

\* g has two members who have no other access to the space.
MCSetupRemoval ==
  << member("a"), member("b"),
     [node |-> "a", call |-> "create"],
     space("a", add("b", Manage)),
     group("b", "g", [type |-> "create", initial |-> ("c" :> Read) @@ ("d" :> Read)]),
     space("a", add("g", Read)) >>

Scenario(setup, online, calls, n, k) ==
  [setup |-> setup, online |-> online, calls |-> calls, max |-> n, lates |-> k]

MCPlans ==
  { \* Two nodes welcome the same new member, one of them publishes.
    Scenario(MCSetup, {"a", "b", "c"}, {group("b", "g", add("c", Write)), publish("a")}, 2, 0),
    \* A message and a new secret cross.
    Scenario(MCSetup, {"a", "b", "c"}, {space("b", remove("d")), publish("a")}, 2, 0),
    \* What a new member sees of changes before and after it was welcomed.
    Scenario(MCSetup, {"b", "c"},
             {group("b", "g", add("c", Write)), space("b", remove("d")), publish("b")}, 3, 1),
    \* A change of the space, a repair and the pipeline of one node overlap.
    Scenario(MCSetup, {"a", "b"}, {group("b", "g", add("c", Write)), space("a", remove("d"))}, 2, 1),
    \* A change is undone: its author was removed concurrently.
    Scenario(MCSetup, {"a", "b"}, {space("a", remove("b")), space("b", add("c", Read))}, 2, 1),
    \* One operation takes the access of two readers.
    Scenario(MCSetupRemoval, {"a", "b", "c"}, {space("a", remove("g")), publish("a")}, 2, 0) }
=============================================================================
