---------------------------- MODULE MCResolution ----------------------------
EXTENDS Resolution

Data(k, n)     == [key \in {"k", "n"} |-> IF key = "k" THEN k ELSE n]
Of(path, ref)  == [path |-> path, ref |-> ref, skip |-> FALSE]
May(path, ref) == [path |-> path, ref |-> ref, skip |-> TRUE]

None == <<>>
One  == <<"1">>
Two  == <<"2">>

Document(body, extend, mode, patch) ==
    [body |-> body, extend |-> extend, mode |-> mode, list |-> mode \in {"zip", "replicate"},
     patch |-> patch, name |-> "none"]

Plain     == Document(Data(One, One), <<>>, "stack", <<>>)
WithName  == [Document(Data(Two, One), <<>>, "stack", <<>>) EXCEPT !.name = "n"]
Stacked   == Document(Data(None, Two), <<Of("b", "latest"), May("c", "stable")>>, "stack", <<>>)
OnItself  == Document(Data(Two, None), <<Of("a", "1")>>, "stack", <<>>)
Broadcast == Document(Data(None, None), <<Of("b", "latest"), Of("c", "latest")>>, "broadcast", <<Data(Two, None)>>)
Zipped    == Document(Data(None, None), <<May("b", "stable"), Of("c", "latest")>>, "zip", <<Data(Two, None), Data(One, One)>>)
Replicated == Document(Data(None, None), <<May("c", "latest")>>, "replicate", <<Data(One, One), Data(Two, One), Data(One, One)>>)
Above     == Document(Data(None, None), <<Of("c", "latest")>>, "stack", <<>>)

SomeDocs  == {Plain, OnItself, Replicated}
Starts    == {[p \in {"a", "b", "c"} |-> IF p = "a" THEN x ELSE IF p = "b" THEN y ELSE z] :
                 x \in {Plain, Stacked, Broadcast, Zipped}, y \in {Plain, WithName, Above, Replicated}, z \in {Plain, WithName}}
SomeLists == {[folder |-> FALSE, paths |-> <<"a">>], [folder |-> TRUE, paths |-> <<"a", "b">>]}

=============================================================================
