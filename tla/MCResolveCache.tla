--------------------------- MODULE MCResolveCache ---------------------------
(* An instance of ResolveCache for TLC: a root that extends an optional     *)
(* overlay, and in its second version reads a secret before it.             *)
EXTENDS ResolveCache

MCExtends ==
    [c \in Contents |->
        IF c.path # "root" THEN <<>>
        ELSE IF c.ver = 1 THEN <<"overlay">>
        ELSE <<"secret", "overlay">>]

\* the second caller may not resolve the overlay
MCPermitted == [r \in Requests |-> IF r = "bob" THEN Paths \ {"overlay"} ELSE Paths]
=============================================================================
