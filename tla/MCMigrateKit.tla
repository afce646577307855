---------------------------- MODULE MCMigrateKit ----------------------------
(***************************************************************************)
(* Kits with every spelling of an entrypoint: arguments in the fixed       *)
(* prefix, in the default and in the attached tail, which may be left out  *)
(* or spelled empty; texts of both versions, and of no supported one, that *)
(* warn and that do not; and texts that do not decode, that decode but are *)
(* not valid, and that decode in version 1 while what they are migrated to *)
(* does not.                                                               *)
(***************************************************************************)
EXTENDS MigrateKit

Bodys == {"body", "slip", "invalid", "bare", "v1only"}
Arguments == {"agent", "always", "detached", "attached"}

Written(schema, shape) ==
    [schema : {schema}, block : {TRUE}, entrypoint : {shape},
     run : {<<"agent">>, <<"agent", "always">>}, default : {<<>>, <<"detached">>},
     interactive : {None, <<>>, <<"attached">>},
     deprecated : IF schema = "1" THEN BOOLEAN ELSE {FALSE}, notImplemented : BOOLEAN,
     comments : {TRUE}, body : {"body"}]

Odd == [schema |-> "1", block |-> TRUE, entrypoint |-> "mapping", run |-> <<>>,
        default |-> <<"detached">>, interactive |-> None, deprecated |-> FALSE,
        notImplemented |-> FALSE, comments |-> FALSE, body |-> "invalid"]
Empty == [Odd EXCEPT !.entrypoint = "none", !.default = <<>>, !.body = "bare"]

SomeDocuments ==
    UNION {Written("1", shape) : shape \in {"mapping", "alias"}}
    \cup Written("other", "mapping") \cup Written("2", "flat")
    \cup {Odd, [Odd EXCEPT !.entrypoint = "flat"], [Odd EXCEPT !.schema = "2"],
          [Odd EXCEPT !.body = "bare"], [Odd EXCEPT !.body = "v1only"],
          Empty, [Empty EXCEPT !.block = FALSE], [Empty EXCEPT !.schema = "2"]}
=============================================================================
