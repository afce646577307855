----------------------- MODULE MCNormalizeCredentials -----------------------
(***************************************************************************)
(* Specs over two services, both of which may be declared on every surface.*)
(* Variables 1 and 2 are named for services 1 and 2; 3 is named for 2.     *)
(***************************************************************************)
EXTENDS NormalizeCredentials

KeyOf == <<1, 2, 2>>

Entry(d, by) == [domain |-> d, by |-> by]
Key(name, managed, inject) == [name |-> name, managed |-> managed, inject |-> inject]
Credential(svc, key, oauth) ==
    [service |-> svc, required |-> FALSE, key |-> key, oauth |-> oauth]

\* Named, unnamed and routing keys, and none, alone and beside an OAuth block.
ListedCredentials ==
    {Credential(1, Key(1, TRUE, <<Entry(2, "header")>>), None),
     Credential(1, Key(3, TRUE, <<>>), None),
     Credential(1, Key(None, FALSE, <<Entry(2, "nothing"), Entry(1, "nothing")>>), None),
     Credential(1, Key(None, FALSE, <<Entry(None, "nothing")>>), None),
     Credential(1, Key(None, FALSE, <<Entry(2, "username")>>), None),
     Credential(1, Key(None, FALSE, <<Entry(2, "nothing")>>),
                [endpoint |-> 1, hosts |-> {}])}

Source(env) == [env |-> env, required |-> FALSE]
Lists    == {<<>>} \cup {<<c>> : c \in ListedCredentials}
SourceMaps == {EmptyMap} \cup [{1} -> {Source(<<1>>), Source(<<3>>), Source(<<>>)}]
              \cup [{1, 2} -> {Source(<<1>>), Source(<<2, 3>>)}]
Secrets  == {<<>>, <<1>>, <<3, 1>>}
Routes   == {EmptyMap} \cup [{2} -> {1, 2}] \cup [{1, 2} -> {1, 2}]
Egresses == {EmptyMap, 1 :> 1, 2 :> 2}
Proxies  == {<<>>, <<1>>, <<3, 2>>}
Blocks   == {None} \cup [service : {1, 2, None}, endpoint : {1}]

AllSpecs ==
    {s \in [list : Lists, sources : SourceMaps, secrets : Secrets, routes : Routes,
            auth : {{}, {1}}, egress : Egresses, proxy : Proxies, oauth : Blocks] :
        OneShape(s)}
=============================================================================
