---------------------------- MODULE MCTCKSuite ----------------------------
(***************************************************************************)
(* Three families of calls.  Trees: a spec that is a file or a link to     *)
(* one, a read-only directory, links to every kind of place, each kit      *)
(* opened and copied.  Texts: every text of up to four tokens, in a file   *)
(* under files/home and as a scalar of the spec.  Suites: a kit that fails *)
(* in each way a test looks for, and every deterministic script.           *)
(***************************************************************************)
EXTENDS TCKSuite

KitPaths == {"files", "files/home", "files/home/conf", "files/home/keys",
             "files/home/keys/id", "files/home/link", "real.yaml",
             "shared", "shared/tool", "spec.yaml"}
Above == [p \in KitPaths |->
            CASE p \in {"files/home/conf", "files/home/keys", "files/home/link"}
                                        -> {"files", "files/home"}
              [] p = "files/home/keys/id" -> {"files", "files/home", "files/home/keys"}
              [] p = "files/home"       -> {"files"}
              [] p = "shared/tool"      -> {"shared"}
              [] OTHER                  -> {}]
Walk == <<"files", "files/home", "files/home/conf", "files/home/keys",
          "files/home/keys/id", "files/home/link", "real.yaml", "shared",
          "shared/tool", "spec.yaml">>
SpecPaths == {"spec.yaml", "real.yaml"}

Ref(name) == <<Open, Namespace, name, Close>>
Word == <<"word">>
Copy == <<"word", "word">>
Entry(key, value) == [key |-> key, value |-> value, alias |-> FALSE]
Doc(value) == <<Entry(ArgsKey, Ref("a")), Entry(NameKey, Word), Entry(Word, value)>>

Dir(m) == [kind |-> "dir", mode |-> m]
File(m, t) == [kind |-> "file", mode |-> m, text |-> t]
Link(to, abs) == [kind |-> "link", to |-> to, abs |-> abs]

Kit(spec, conf, keys, id, link) ==
    [p \in KitPaths |->
        CASE p = "spec.yaml"          -> spec
          [] p = "real.yaml"          -> File("ro", Doc(Ref("a")))
          [] p = "files/home/conf"    -> File("rw", conf)
          [] p = "files/home/keys"    -> Dir(keys)
          [] p = "files/home/keys/id" -> File("ro", id)
          [] p = "files/home/link"    -> link
          [] p = "shared/tool"        -> File("rw", Ref("a"))
          [] OTHER                    -> Dir("rw")]

SpecFiles == {File("rw", Doc(Word)), File("rw", Doc(Ref("a"))), Link("real.yaml", FALSE),
              File("rw", <<Entry(Ref("a"), Word)>>),
              File("rw", <<[Entry(NameKey, Word) EXCEPT !.alias = TRUE]>>)}
Links == {Link("files/home/conf", FALSE), Link("shared/tool", FALSE),
          Link("shared/tool", TRUE), Link("shared", FALSE), Link(None, FALSE),
          [kind |-> "other"]}
SomeKits == {Kit(spec, Word, keys, id, link) : spec \in SpecFiles, keys \in Modes,
                                               id \in {Word, Ref("a")}, link \in Links}
SomeTexts == UNION {[1 .. n -> {Open, Close, Dollar, Namespace, "a", "u"}] : n \in 0 .. 4}
             \cup {Word \o Ref("a") \o Ref("a"), <<Dollar>> \o Ref("a"), <<Newline>>}

(* a is declared, with an optional default; u is a name nobody declares.   *)
Declared(default) == [n \in {"a"} |-> [default |-> default, accepts |-> {Ref("a"), Word, <<>>}]]
Empty0 == [n \in {} |-> None]
Given(value) == [n \in {"a"} |-> value]

Facts == [kind |-> "mixin", template |-> None, binary |-> FALSE, extends |-> None,
          agent |-> None, withImage |-> None, described |-> TRUE, tidy |-> TRUE,
          environment |-> TRUE, commands |-> TRUE, creds |-> <<>>,
          initFiles |-> <<>>, installs |-> <<>>, short |-> FALSE, unreadable |-> FALSE]
Install == [needs |-> "files/home/conf", removes |-> None, empties |-> None, ok |-> TRUE]
Cred == [service |-> "s", inject |-> <<TRUE>>, apiKey |-> "NAME", oauth |-> None]
OAuth == [endpoint |-> TRUE, passthrough |-> FALSE, sentinels |-> TRUE, file |-> TRUE]
With(f) == f @@ Facts

SomeFacts ==
    { Facts,
      With([kind |-> "sandbox", template |-> "own"]),
      With([kind |-> "sandbox"]),
      With([kind |-> "sandbox", withImage |-> "own", described |-> FALSE]),
      With([kind |-> "sandbox", extends |-> "claude"]),
      With([extends |-> "claude", template |-> "own"]),
      With([extends |-> "unknown"]),
      With([extends |-> "unknown", withImage |-> "own"]),
      With([agent |-> "claude", tidy |-> FALSE, commands |-> FALSE]),
      With([agent |-> "unknown", environment |-> FALSE]),
      With([creds |-> <<Cred, [Cred EXCEPT !.inject = <<FALSE>>]>>]),
      With([creds |-> <<[Cred EXCEPT !.inject = <<FALSE>>], [Cred EXCEPT !.apiKey = None]>>]),
      With([creds |-> <<[Cred EXCEPT !.apiKey = "malformed", !.oauth = OAuth]>>]),
      With([creds |-> <<[Cred EXCEPT !.oauth = [OAuth EXCEPT !.sentinels = FALSE]]>>]),
      With([installs |-> <<Install, [Install EXCEPT !.needs = None]>>,
            initFiles |-> <<[path |-> "files/home/conf", content |-> Copy]>>]),
      With([installs |-> <<[Install EXCEPT !.ok = FALSE], Install>>]),
      With([installs |-> <<[Install EXCEPT !.ok = FALSE]>>, short |-> TRUE]),
      With([installs |-> <<[Install EXCEPT !.removes = "files/home/conf"], Install>>]),
      With([installs |-> <<[Install EXCEPT !.empties = "files/home/conf"]>>]),
      With([initFiles |-> <<[path |-> "init", content |-> Word]>>,
            installs |-> <<[Install EXCEPT !.needs = "init"]>>]) }

(* Scripts and what tck.yaml expects of them.                              *)
Paths2Syntax == [p \in {"mcp.json", "config.toml", "settings"} |->
                    CASE p = "mcp.json" -> "json" [] p = "config.toml" -> "toml"
                      [] OTHER -> Absent]
Script == [guard |-> TRUE, url |-> TRUE, sentinel |-> TRUE, token |-> FALSE,
           user |-> "agent", path |-> "mcp.json", syntax |-> "json",
           keys |-> {"url"}, bound |-> {"url"}]
Want == [path |-> "mcp.json", format |-> Absent, transport |-> "url",
         forbidden |-> {"httpUrl"}, preserves |-> FALSE]
Scripts ==
    { [script |-> Absent, want |-> Absent], [script |-> Absent, want |-> Want],
      [script |-> Script, want |-> Absent], [script |-> Script, want |-> Want],
      [script |-> [Script EXCEPT !.user = "root"], want |-> Absent],
      [script |-> [Script EXCEPT !.guard = FALSE], want |-> Want],
      [script |-> [Script EXCEPT !.bound = {}], want |-> Want],
      [script |-> Script, want |-> [Want EXCEPT !.preserves = TRUE]],
      [script |-> Script, want |-> [Want EXCEPT !.preserves = TRUE, !.transport = Absent]],
      [script |-> Absent, want |-> [Want EXCEPT !.preserves = TRUE]] }
    \cup { [script |-> [Script EXCEPT !.path = path, !.syntax = syntax,
                                      !.keys = @ \cup {"httpUrl"}],
            want |-> [Want EXCEPT !.path = known, !.format = fmt, !.transport = Absent]]
           : path \in {"config.toml", "settings"}, syntax \in {"json", "toml"},
             known \in {"config.toml", Absent}, fmt \in {Absent, "json", "toml", "yaml"} }

Call(tree, copied, supplied, f, s) ==
    [tree |-> tree, copied |-> copied, facts |-> f, script |-> s.script, want |-> s.want,
     decls |-> Declared(Ref("a")), supplied |-> supplied]
NoScript == [script |-> Absent, want |-> Absent]

Trees == {Call(tree, copied, Empty0, Facts, NoScript) : tree \in SomeKits, copied \in BOOLEAN}
Plain(spec, conf) == Kit(File("rw", Doc(spec)), conf, "rw", Word, Link("files/home/conf", FALSE))
Texts == {Call(Plain(spec, text), FALSE, Empty0, Facts, NoScript)
              : spec \in {Word}, text \in SomeTexts}
         \cup {Call(Plain(text, Word), FALSE, Given(Word), Facts, NoScript) : text \in SomeTexts}
Arguments == {[Call(Plain(Ref("a"), Ref("a")), FALSE, supplied, Facts, NoScript)
                  EXCEPT !.decls = Declared(default)]
                  : supplied \in {Empty0, Given(Word), Given(<<>>), Given(Copy), [n \in {"u"} |-> Word]},
                    default \in {None, Ref("a"), Copy}}
Suites == {Call(Plain(Word, Ref("a")), FALSE, Given(Word), f, NoScript) : f \in SomeFacts}
          \cup {Call(Plain(Word, Word), FALSE, Given(Word), Facts, s) : s \in Scripts}
          \cup {Call(Plain(Word, Word), FALSE, Given(Word), With([unreadable |-> TRUE]), NoScript)}
SomeCalls == Trees \cup Texts \cup Arguments \cup Suites

Config(sibling, gateway, more) == [sibling |-> sibling, gateway |-> gateway, more |-> more]
ConfigFiles == {Config(s, g, m) : s \in BOOLEAN, g \in {"none", "injected"}, m \in 0 .. 1}
Seeded == Config(TRUE, "none", 0)
WithSibling == {c \in ConfigFiles : c.sibling}
WithGateway == {c \in ConfigFiles : c.gateway = "injected"}
=============================================================================
