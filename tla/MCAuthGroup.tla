---------------------------- MODULE MCAuthGroup ----------------------------
EXTENDS AuthGroup

CONSTANTS a, b, c, g, h

Change(type, m, access) == [type |-> type, member |-> m, access |-> access]

In(group, change) == [group |-> group, change |-> change]

MCIndividuals == {a, b, c}
MCGroups == {g, h}
MCInitial == <<[creator |-> a, group |-> g, members |-> (a :> Manage @@ b :> Manage @@ c :> Write)],
               [creator |-> b, group |-> h, members |-> (b :> Manage @@ c :> Read)]>>
\* Two managers, who may take each other the rights or the membership, a third
\* one, and two groups which may be nested into each other.
MCActions ==
  {In(g, Change("remove", m, Pull)) : m \in {a, c}}
  \cup {In(g, Change("add", c, Manage)), In(g, Change("promote", c, Manage)),
         In(g, Change("demote", b, Write)),
         In(g, Change("add", h, Write)), In(h, Change("add", g, Write))}
=============================================================================
